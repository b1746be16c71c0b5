------------------------------- MODULE MCPush -------------------------------
(***************************************************************************)
(* Small instances of Push: an object that changes three times.  A merge   *)
(* treats a list as it treats a scalar, so one of them is enough.          *)
(***************************************************************************)
EXTENDS Push

CONSTANTS s1, s2, p1, x1, x2
=============================================================================
