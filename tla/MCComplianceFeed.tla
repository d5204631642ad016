-------------------------- MODULE MCComplianceFeed --------------------------
EXTENDS ComplianceFeed

CONSTANTS q1, q2

\* A list, one of half its size with some bad lines, and a bad one.
Lists == {[valid |-> 10, invalid |-> 0], [valid |-> 5, invalid |-> 5], [valid |-> 100, invalid |-> 6]}

\* Feeds are explored between the enrollments of a node, and not after one
\* that went wrong.
OneThingAtATime ==
  sent > 0 \/ now > 0 => slips = {} /\ \A q \in Requests : pc[q] = "idle"
=============================================================================
