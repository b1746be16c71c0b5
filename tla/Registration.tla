---------------------------- MODULE Registration ----------------------------
(***************************************************************************)
(* What the credentials store promises, without awaits, locks or critical  *)
(* sections: one registration that callers make, replace and remove in     *)
(* single steps, each caller at most once.                                 *)
(*                                                                         *)
(* The registration is kept under the one token the server issues (Token   *)
(* C); bootstrap tokens (Token A) are separate keys that the operator      *)
(* issues, and that only ever disappear otherwise.  The operator may also  *)
(* set or clear the registration, and then stores no catalogue.            *)
(***************************************************************************)
CONSTANTS
  Caller,         \* those who ask
  Credentials,    \* credentials objects a party may present
  Bootstrap,      \* tokens other than Token C
  Registered(_),  \* what may be stored of a party that presents credentials
  OperatorSet(_), \* what the operator's own calls store
  Unregistered    \* no registration

VARIABLES
  party,          \* the registration, or Unregistered
  issued,         \* bootstrap tokens that are live
  joined,         \* callers that made the registration
  rotated,        \* callers that replaced it
  left            \* callers that removed it

rvars == <<party, issued, joined, rotated, left>>

callers == <<joined, rotated, left>>

RInit ==
  /\ party = Unregistered
  /\ issued = {}
  /\ joined = {} /\ rotated = {} /\ left = {}

\* A party joins: there was no registration.
Join(r) ==
  /\ party = Unregistered
  /\ \E c \in Credentials : party' \in Registered(c)
  /\ r \notin joined /\ joined' = joined \cup {r}
  /\ UNCHANGED <<issued, rotated, left>>

\* The registered party replaces its credentials and its catalogue together.
Rotate(r) ==
  /\ party # Unregistered
  /\ \E c \in Credentials : party' \in Registered(c)
  /\ r \notin rotated /\ rotated' = rotated \cup {r}
  /\ UNCHANGED <<issued, joined, left>>

Leave(r) ==
  /\ party # Unregistered
  /\ party' = Unregistered
  /\ r \notin left /\ left' = left \cup {r}
  /\ UNCHANGED <<issued, joined, rotated>>

Operate ==
  /\ \/ \E c \in Credentials : party' \in OperatorSet(c)
     \/ party' = Unregistered
  /\ UNCHANGED <<issued, callers>>

Issue ==
  /\ \E t \in Bootstrap \ issued : issued' = issued \cup {t}
  /\ UNCHANGED <<party, callers>>

Burn ==
  /\ \E t \in issued : issued' = issued \ {t}
  /\ UNCHANGED <<party, callers>>

RNext ==
  \/ \E r \in Caller : Join(r) \/ Rotate(r) \/ Leave(r)
  \/ Operate
  \/ Issue
  \/ Burn

RSpec == RInit /\ [][RNext]_rvars
=============================================================================
