----------------------------- MODULE Enrollment -----------------------------
(***************************************************************************)
(* How a node is taken in: the enrollment row and the keys in the store of *)
(* the node, the temporary claim endpoint, `enrollNode` of the controller, *)
(* which writes the serial of a new certificate into the nodes row before  *)
(* it calls that endpoint, and the admission of the node by the hub.       *)
(* Rotation of the certificate is CertRotation's.                          *)
(***************************************************************************)
EXTENDS Integers, FiniteSets

CONSTANTS
  Requests,     \* calls of enrollNode
  None,
  MaxTokens, MaxCerts, MaxFaults   \* bounds

ASSUME BoundsAreCounted == {MaxTokens, MaxCerts, MaxFaults} \subseteq Nat
ASSUME NoneIsNothing == None \notin Requests \cup Nat

VARIABLES
  up,        \* the agent runs
  open,      \* the claim endpoint listens
  token,     \* the token of the enrollment row; 0: no row
  valid,     \* it has not expired
  claimed,   \* claimed_at is set
  cert,      \* node_certificate, the serial of it, with the controller's key
  quotaKey,  \* quota_public_key and compliance_public_key are stored
  tokens,    \* tokens made so far
  serial,    \* nodes.certificate_serial; None: no row
  status,    \* nodes.status
  certs,     \* certificates issued so far
  online,    \* the node is connected to the hub
  pc, tok, ser,   \* of each call: where it is, its bundle, its certificate
  faults,
  slips      \* history: irregular steps of enrollments

nodeVars == <<up, open, token, valid, claimed, cert, quotaKey, tokens>>
ctrlVars == <<serial, status, certs, online>>
callVars == <<pc, tok, ser>>
enrollVars == <<nodeVars, ctrlVars, callVars, faults, slips>>

EnrollInit ==
  /\ up = FALSE /\ open = FALSE /\ token = 0 /\ valid = FALSE /\ claimed = FALSE
  /\ cert = None /\ quotaKey = FALSE /\ tokens = 0
  /\ serial = None /\ status = "pending" /\ certs = 0 /\ online = FALSE
  /\ pc = [q \in Requests |-> "idle"] /\ tok = [q \in Requests |-> 0]
  /\ ser = [q \in Requests |-> 0]
  /\ faults = 0 /\ slips = {}

Fault == faults < MaxFaults /\ faults' = faults + 1
-----------------------------------------------------------------------------
(* The node *)

\* Reenroll: a token takes the place of the row, claimed or not.
NewToken ==
  /\ tokens < MaxTokens
  /\ tokens' = tokens + 1 /\ token' = tokens' /\ valid' = TRUE /\ claimed' = FALSE

\* serve: Ensure makes the identity and replaces a token that has expired;
\* the endpoint is opened for a node that is not claimed.
Serve ==
  /\ ~up /\ up' = TRUE
  /\ IF ~claimed /\ ~valid THEN NewToken ELSE UNCHANGED <<token, valid, claimed, tokens>>
  /\ open' = ~claimed
  /\ UNCHANGED <<cert, quotaKey, ctrlVars, callVars, faults, slips>>

\* `enrollment reenroll`, a process of its own beside the agent.
Reenroll ==
  /\ token > 0 /\ NewToken
  /\ UNCHANGED <<up, open, cert, quotaKey, ctrlVars, callVars, faults, slips>>

TokenExpires ==
  /\ valid /\ ~claimed /\ valid' = FALSE
  /\ UNCHANGED <<up, open, token, claimed, cert, quotaKey, tokens, ctrlVars, callVars, faults, slips>>

Usable(t) ==
  token = t /\ valid /\ ~claimed

\* Mutant: one transaction is all there is.
ClaimForgets(q) == "answer"

\* The keys of leases and feeds are stored after the transaction of the claim.
ClaimThen(q) ==
  "states"

\* store.Claim: the row is marked and the certificate stored in one transaction.
\* A claim that finds no usable token is refused.
Claim(q) ==
  /\ pc[q] = "call" /\ up /\ open
  /\ IF Usable(tok[q])
     THEN /\ claimed' = TRUE /\ cert' = ser[q]
          /\ pc' = [pc EXCEPT ![q] = ClaimThen(q)]
     ELSE pc' = [pc EXCEPT ![q] = "failed"] /\ UNCHANGED <<claimed, cert>>
  /\ UNCHANGED <<up, open, token, valid, quotaKey, tokens, ctrlVars, tok, ser, faults, slips>>

\* SetStates: a transaction of its own, in the context of the request.
ClaimStates(q) ==
  /\ pc[q] = "states" /\ up
  /\ quotaKey' = TRUE
  /\ pc' = [pc EXCEPT ![q] = "answer"]
  /\ UNCHANGED <<up, open, token, valid, claimed, cert, tokens, ctrlVars, tok, ser, faults, slips>>

\* Mutant: the server is shut down for the next start only.
ShutdownLater == open' = open

Shutdown ==
  open' = FALSE

\* The endpoint closes shortly after the claim was answered; closing waits for
\* the calls it still serves.
EndpointCloses(q) ==
  /\ pc[q] = "answer" /\ up
  /\ \A p \in Requests : pc[p] # "states"
  /\ Shutdown /\ pc' = [pc EXCEPT ![q] = "done"]
  /\ UNCHANGED <<up, token, valid, claimed, cert, quotaKey, tokens, ctrlVars, tok, ser, faults, slips>>

\* The agent stops; what its handlers were doing ends.
Cut(q) == pc[q] = "states"
Crash ==
  /\ up /\ Fault
  /\ up' = FALSE /\ open' = FALSE /\ online' = FALSE
  /\ status' \in IF online THEN {"offline", status} ELSE {status}
  /\ pc' = [q \in Requests |-> IF pc[q] \in {"call", "states"} THEN "failed"
                               ELSE IF pc[q] = "answer" THEN "done" ELSE pc[q]]
  /\ slips' = IF \E q \in Requests : Cut(q) THEN slips \cup {"cut"} ELSE slips
  /\ UNCHANGED <<token, valid, claimed, cert, quotaKey, tokens, serial, certs, tok, ser>>
-----------------------------------------------------------------------------
(* The controller *)

\* Mutant: the certificate issued before is taken.
IssueLast == certs

Issue ==
  certs + 1

\* Mutant: ON CONFLICT DO NOTHING
ConflictIgnored(s) == IF serial = None THEN s ELSE serial

\* ON CONFLICT(id) DO UPDATE
Conflict(s) ==
  s

\* enrollNode with a bundle that was shown: the certificate is issued and its
\* serial written, whatever the row held.
Prepare(q, t) ==
  /\ pc[q] = "idle" /\ t \in 1..tokens /\ certs < MaxCerts
  /\ certs' = certs + 1 /\ serial' = Conflict(Issue)
  /\ pc' = [pc EXCEPT ![q] = "call"] /\ tok' = [tok EXCEPT ![q] = t]
  /\ ser' = [ser EXCEPT ![q] = Issue]
  /\ slips' = IF claimed \/ \E p \in Requests : pc[p] = "call" THEN slips \cup {"again"} ELSE slips
  /\ UNCHANGED <<nodeVars, status, online, faults>>

\* The call gives up after 20 seconds, or cannot connect.  The context of the
\* handler ends with it.
CallFails(q) ==
  /\ pc[q] \in {"call", "states"} /\ (open => Fault) /\ (~open => UNCHANGED faults)
  /\ pc' = [pc EXCEPT ![q] = "failed"]
  /\ slips' = IF Cut(q) THEN slips \cup {"cut"} ELSE slips
  /\ UNCHANGED <<nodeVars, ctrlVars, tok, ser>>

\* 201, or 502
Answered(q) ==
  /\ pc[q] \in {"done", "failed"}
  /\ pc' = [pc EXCEPT ![q] = "idle"] /\ tok' = [tok EXCEPT ![q] = 0]
  /\ ser' = [ser EXCEPT ![q] = 0]
  /\ UNCHANGED <<nodeVars, ctrlVars, faults, slips>>

\* The agent dials when it is claimed; the hub looks its serial up.
Connect ==
  /\ up /\ claimed /\ ~online /\ cert = serial
  /\ online' = TRUE /\ status' = "healthy"
  /\ UNCHANGED <<nodeVars, serial, certs, callVars, faults, slips>>

\* A connection that ends within 30 seconds of a heartbeat leaves the row.
Disconnect ==
  /\ online /\ Fault
  /\ online' = FALSE /\ status' \in {"offline", status}
  /\ UNCHANGED <<nodeVars, serial, certs, callVars, slips>>
-----------------------------------------------------------------------------
Handling == \E q \in Requests : Claim(q) \/ ClaimStates(q) \/ EndpointCloses(q)
Enrolling ==
  \/ Serve \/ Reenroll \/ TokenExpires \/ Crash
  \/ Handling
  \/ \E q \in Requests : CallFails(q) \/ Answered(q) \/ \E t \in 1..MaxTokens : Prepare(q, t)
  \/ Connect \/ Disconnect

EnrollTypeOK ==
  /\ {up, open, valid, claimed, quotaKey, online} \subseteq BOOLEAN
  /\ token \in 0..tokens /\ tokens \in 0..MaxTokens /\ certs \in 0..MaxCerts
  /\ cert \in 1..certs \cup {None} /\ serial \in 1..certs \cup {None}
  /\ status \in {"pending", "healthy", "offline"}
  /\ pc \in [Requests -> {"idle", "call", "states", "answer", "done", "failed"}]
  /\ tok \in [Requests -> 0..tokens] /\ ser \in [Requests -> 0..certs]
  /\ faults \in 0..MaxFaults /\ slips \subseteq {"again", "cut"}

(* A node that was claimed holds the certificate the hub admits, through    *)
(* expired and replaced tokens, refused and lost calls and restarts; unless *)
(* a bundle was entered after the claim or while another call was on its    *)
(* way (enrollNode writes certificate_serial before it calls).              *)
ClaimedIsAdmitted == claimed => cert = serial \/ slips # {}

(* A node that talks to the controller can verify leases: the key of leases *)
(* is stored, or is about to be, unless the agent stopped or the call ended *)
(* between the two transactions of Claim.                                   *)
ClaimedHasKeys ==
  claimed /\ "cut" \notin slips => quotaKey \/ \E q \in Requests : pc[q] = "states"

(* The claim endpoint of a claimed node closes (StartEnrollment), unless    *)
(* the claim was cut short, which answers 401 and leaves it open.           *)
EndpointIsTemporary == (open /\ claimed) ~> (~open \/ ~claimed \/ slips # {})
=============================================================================
