--------------------------- MODULE MCCommandChannel ---------------------------
(* CommandChannel on a small instance. *)
EXTENDS CommandChannel

CONSTANTS h1, h2

HandlerSet == {h1, h2}
=============================================================================
