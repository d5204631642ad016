----------------------------- MODULE CertRotation -----------------------------
(***************************************************************************)
(* Rotation of a node's mTLS certificate: the rotateCertificates worker,   *)
(* the certificate.rotate handler of the node, the promotion of the new    *)
(* serial when the command is acknowledged, and the serial check that      *)
(* admits a connection.  Every command of the channel is a                 *)
(* certificate.rotate, and command c carries the certificate with serial c.*)
(***************************************************************************)
EXTENDS CommandChannel

ASSUME ZeroIsTheFirstSerial == None # 0

VARIABLES
  serial,    \* nodes.certificate_serial, None for NULL
  next,      \* nodes.next_certificate_serial
  due,       \* certificate_not_after is less than 7 days away
  rotating,  \* the worker has selected the node and not yet prepared the row
  nodeCert,  \* serial of the certificate in the node's store
  slips      \* history: irregular steps of the rotations so far

certVars == <<serial, next, due, rotating, nodeCert>>
rotationVars == <<channelVars, certVars, slips>>

Serials == Commands \cup {0}
Slips == {"replaced", "promoted another", "reapplied"}

RotationTypeOK ==
  /\ ChannelTypeOK
  /\ serial \in Serials \cup {None}
  /\ next \in Commands \cup {None}
  /\ due \in BOOLEAN
  /\ rotating \in BOOLEAN
  /\ nodeCert \in Serials
  /\ slips \in SUBSET Slips

RotationInit ==
  /\ ChannelInit
  /\ serial = 0
  /\ next = None
  /\ due = FALSE
  /\ rotating = FALSE
  /\ nodeCert = 0
  /\ slips = {}

Slip(kind, happened) == slips' = IF happened THEN slips \cup {kind} ELSE slips

-----------------------------------------------------------------------------
(* The worker *)

\* A NULL certificate_not_after is never less than anything.
CertificateAges ==
  /\ ~due /\ serial # None
  /\ due' = TRUE
  /\ UNCHANGED <<channelVars, serial, next, rotating, nodeCert, slips>>

\* The SELECT: a certificate that ends soon and no rotation on its way.
RotateSelect ==
  /\ due /\ ~rotating
  /\ \A c \in Commands : status[c] \notin Open
  /\ rotating' = TRUE
  /\ UNCHANGED <<channelVars, serial, next, due, nodeCert, slips>>

\* Mutant: the command is queued, the next serial is not prepared.
RotateInsertUnprepared(c) ==
  /\ rotating
  /\ Enqueue(c)
  /\ rotating' = FALSE
  /\ UNCHANGED <<serial, next, due, nodeCert, slips>>

\* One statement prepares the next serial and queues the command.
RotateInsert(c) ==
  /\ rotating
  /\ Enqueue(c)
  /\ rotating' = FALSE
  /\ next' = c
  /\ Slip("replaced", next # None)
  /\ UNCHANGED <<serial, due, nodeCert>>

-----------------------------------------------------------------------------
(* The node and the hub *)

ApplyRotation(c) ==
  /\ NodeApply(c)
  /\ nodeCert' = c
  /\ Slip("reapplied", handled[c] > 0)
  /\ UNCHANGED <<serial, next, due, rotating>>

\* The UPDATE that promotes the prepared serial names the acknowledged command
\* only by its type: it promotes whatever is prepared, NULL included.
Promote(h) ==
  /\ HubEffects(h)
  /\ serial' = next
  /\ next' = None
  /\ due' = FALSE
  /\ Slip("promoted another", next # acking[h])
  /\ UNCHANGED <<rotating, nodeCert>>

\* The hub admits a node whose serial is the current or the next one.
AdmitCertificate(h) ==
  /\ nodeCert \in {serial, next}
  /\ Connect(h)
  /\ UNCHANGED <<certVars, slips>>

\* A node without devices: nothing to queue.
ResyncNothing(h) ==
  /\ EndResync(h)
  /\ UNCHANGED <<status, certVars, slips>>

RotationCrash ==
  /\ ControllerRestart
  /\ rotating' = FALSE
  /\ UNCHANGED <<serial, next, due, nodeCert, slips>>

RotationNext ==
  \/ CertificateAges
  \/ RotateSelect
  \/ \E c \in Commands : RotateInsert(c) \/ ApplyRotation(c)
  \/ \E h \in Handlers : Promote(h) \/ AdmitCertificate(h) \/ ResyncNothing(h)
  \/ RotationCrash
  \/ /\ \/ \E c \in Commands : \/ BackoffElapses(c) \/ DeadlinePasses(c)
                               \/ NodeDuplicate(c) \/ NodeReject(c)
        \/ \E h \in Handlers : Deliver(h) \/ HubReply(h)
        \/ Drop \/ NodeRestart
     /\ UNCHANGED <<certVars, slips>>

RotationSpec == RotationInit /\ [][RotationNext]_rotationVars

-----------------------------------------------------------------------------
(* Properties *)

\* The certificate in the node's store is always one that Connect admits.
NodeKeepsAccess == nodeCert \in {serial, next}

\* The node loses its access only along one of three irregular paths: the
\* worker prepares a serial over one that is still prepared (rotateCertificates
\* after an expiry, a nack or a crash before the promotion), an ack promotes
\* something else than its own serial (a repeated ack in readLoop), or the node
\* applies a rotation again after a restart.  Otherwise every interleaving of
\* preparation, delivery, application, loss and promotion keeps it admitted.
AccessLostOnlyBySlip == NodeKeepsAccess \/ slips # {}

=============================================================================
