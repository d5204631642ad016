----------------------------- MODULE MCDeviceSync -----------------------------
EXTENDS DeviceSync

CONSTANT h1

OneHandler == {h1}

\* Once late, always late: later states need not be explored.  One request at
\* a time is between its statements, and only the first command gets too old.
Explored ==
  /\ ~late
  /\ selected => ~revoking /\ resync[h1] = 0
  /\ revoking => resync[h1] = 0
  /\ \A c \in Commands : overdue[c] => c = 1

\* The histories handled, refused and forgets of the channel are left out of
\* the view: no action and no property of DeviceSync reads them.
View == <<tableVars, hubVars, socketVars, seen, faults, deviceVars, effectVars>>
=============================================================================
