----------------------------- MODULE MCCommands -----------------------------
(***************************************************************************)
(* A small instance of Commands: two calls, which is what it takes to      *)
(* confuse one with another, on each of the four services.                 *)
(***************************************************************************)
EXTENDS Commands

CONSTANTS q1, q2

MCServices == {Commands2111, Commands22, Commands221, ChargingProfiles}
=============================================================================
