---------------------------- MODULE MCLocations ----------------------------
(***************************************************************************)
(* Small instances of Locations.                                           *)
(***************************************************************************)
EXTENDS Locations, TLC

CONSTANTS k1, k2, e1, e2, c1, c2, a, b

Site(evses, connectors, slips) == [evses |-> evses, connectors |-> connectors, slips |-> slips]

Slips(S) == {{}} \cup {{s} : s \in S}

\* Two connectors of one EVSE, two EVSEs of one Location, or two Locations,
\* each with every slip; with the lists that name an object twice only one
\* connector, and with two EVSEs that have one none.
MCSites ==
  {Site({<<k, u>>}, ConnectorId, s) : k \in Key, u \in Uid, s \in Slips({"path", "id"})}
    \cup {Site({<<k, u>>}, {id}, {"list"}) : k \in Key, u \in Uid, id \in ConnectorId}
    \cup {Site({k} \X Uid, {}, s) : k \in Key, s \in Slips(Slip)}
    \cup {Site({k} \X Uid, {id}, {}) : k \in Key, id \in ConnectorId}
    \cup {Site(Key \X {u}, {}, s) : u \in Uid, s \in Slips(Slip)}

MCSymmetry == Permutations(Key) \cup Permutations(Uid) \cup Permutations(ConnectorId)
=============================================================================
