--------------------------- MODULE MCCredentials ---------------------------
(***************************************************************************)
(* Small instances of Credentials.                                         *)
(***************************************************************************)
EXTENDS Credentials, TLC

CONSTANTS TokenA, r1, r2, r3, u1, u2, rev1, rev2, other

\* Two releases served from two URLs, a version listed twice, and a party with
\* a version that this server does not speak.
MCOffer ==
  {<<[version |-> V2_1_1, url |-> u1], [version |-> V2_2_1, url |-> u2]>>,
   <<[version |-> V2_2_1, url |-> u1], [version |-> V2_2_1, url |-> u2]>>,
   <<[version |-> V2_0, url |-> u1]>>}

MCConfig == {New2111, New221, New230, NewWithFetcher(V2_2_1, {V2_1_1, V2_2_1})}

\* Parties talk to the server and the host leaves the store to them.
ClosedSpec ==
  Init /\ [][\E r \in Request : Arrive(r) \/ Fetched(r) \/ Disconnect(r) \/ Handler(r)]_vars

\* Two of the credentials objects come from one party, the third from another.
Owner(body) == IF body = other THEN "second party" ELSE "first party"

\* What the documentation says of POST: it is refused with 405 if the caller
\* is registered already.  The code asks whether anybody is registered, since
\* every party is filed under the server's one token (credentials_post).
PostRefusedOnlyIfRegistered ==
  [][\A r \in Request :
       (at[r] = "idle" /\ at'[r] = "done" /\ req'[r].method = "POST" /\ resp'[r] = "not_allowed")
         => \E t \in Token : /\ registered[t] # Absent
                             /\ Owner(registered[t].credentials) = Owner(req'[r].body)]_vars

MCSymmetry == Permutations(Request)
=============================================================================
