--------------------------- MODULE MCHandshake ---------------------------
(***************************************************************************)
(* A small instance of Handshake: one party, two credentials objects, with *)
(* and without a fetch-back.                                               *)
(***************************************************************************)
EXTENDS Handshake, TLC

CONSTANTS r1, r2, r3, u1, rev1, rev2

MCOffer == {<<[version |-> V2_2_1, url |-> u1]>>}

MCConfig == {New2111, NewWithFetcher(V2_2_1, {V2_2_1})}
=============================================================================
