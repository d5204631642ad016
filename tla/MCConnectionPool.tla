-------------------------- MODULE MCConnectionPool --------------------------
(* A small pool for TLC: two nodes over three connections.                 *)
EXTENDS ConnectionPool

CONSTANTS n1, n2, c1, c2, c3, t1

NodeSet == {n1, n2}
Enough == {c1, c2, c3}
TaskSet == {t1}
=============================================================================
