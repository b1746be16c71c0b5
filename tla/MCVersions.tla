----------------------------- MODULE MCVersions -----------------------------
(***************************************************************************)
(* A small instance of Versions: lists of up to three entries over all     *)
(* versions and two URLs, so that versions are listed twice.               *)
(***************************************************************************)
EXTENDS Versions

CONSTANTS u1, u2

MCSupported == {{V2_1_1, V2_2_1}, {V2_2_1, V2_3_0}, {V2_1_1, V2_2, V2_2_1, V2_3_0}}
=============================================================================
