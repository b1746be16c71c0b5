------------------------------- MODULE Tree --------------------------------
(***************************************************************************)
(* What a Locations store promises, without lists and their order: a map   *)
(* of Locations, each with a map of EVSEs, each with a map of connectors.  *)
(* A PUT sets what it names, a PATCH changes some fields of it, and both   *)
(* leave everything else as it is.  Where there is nothing above it,       *)
(* nothing happens.                                                        *)
(*                                                                         *)
(* What is under a path is a set of at most one element.                   *)
(***************************************************************************)
CONSTANTS
  Key,            \* keys of Locations
  Uid,            \* uids of EVSEs
  ConnectorId,    \* ids of connectors
  Revision,       \* what an object may say
  Time,           \* what it may be stamped with
  Unset           \* a field that a patch does not have

VARIABLE tree

Option(S) == {{}} \cup {{x} : x \in S}

Connector == [rev : Revision, last_updated : Time]
Evse == [rev : Revision, last_updated : Time, connectors : [ConnectorId -> Option(Connector)]]
Location == [id : Key, rev : Revision, last_updated : Time, evses : [Uid -> Option(Evse)]]
Patch == [rev : Revision \cup {Unset}, last_updated : Time]

Patched(objects, p) ==
  {[x EXCEPT !.rev = IF p.rev = Unset THEN @ ELSE p.rev,
             !.last_updated = p.last_updated] : x \in objects}

-----------------------------------------------------------------------------
PutLocation(k, l) == tree' = [tree EXCEPT ![k] = {l}]

PatchLocation(k, p) == tree' = [tree EXCEPT ![k] = Patched(@, p)]

PutEvse(k, u, e) == tree' = [tree EXCEPT ![k] = {[l EXCEPT !.evses[u] = {e}] : l \in @}]

PatchEvse(k, u, p) ==
  tree' = [tree EXCEPT ![k] = {[l EXCEPT !.evses[u] = Patched(@, p)] : l \in @}]

PutConnector(k, u, id, c) ==
  tree' = [tree EXCEPT ![k] =
    {[l EXCEPT !.evses[u] = {[e EXCEPT !.connectors[id] = {c}] : e \in @}] : l \in @}]

PatchConnector(k, u, id, p) ==
  tree' = [tree EXCEPT ![k] =
    {[l EXCEPT !.evses[u] = {[e EXCEPT !.connectors[id] = Patched(@, p)] : e \in @}] : l \in @}]

-----------------------------------------------------------------------------
TInit == tree = [k \in Key |-> {}]

TNext ==
  \E k \in Key :
    \/ \E l \in Location : PutLocation(k, l)
    \/ \E p \in Patch : PatchLocation(k, p)
    \/ \E u \in Uid :
         \/ \E e \in Evse : PutEvse(k, u, e)
         \/ \E p \in Patch : PatchEvse(k, u, p)
         \/ \E id \in ConnectorId :
              \/ \E c \in Connector : PutConnector(k, u, id, c)
              \/ \E p \in Patch : PatchConnector(k, u, id, p)

TSpec == TInit /\ [][TNext]_tree
=============================================================================
