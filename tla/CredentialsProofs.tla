------------------------- MODULE CredentialsProofs -------------------------
(***************************************************************************)
(* Theorems about Credentials, for any number of requests, tokens and      *)
(* credentials objects, and any /versions lists the parties may serve.     *)
(***************************************************************************)
EXTENDS Credentials, TLAPS

\* The types of the values the actions build.
USE DEF Call, Pending, Method, Control, Response, Fetch, Endpoints, RegisteredParty

-----------------------------------------------------------------------------
(***************************************************************************)
(* Lemmas on the operators.                                                *)
(***************************************************************************)

\* Negotiation only returns entries of the list it was given.
LEMMA SelectionIsAnEntry ==
  ASSUME NEW remote \in Offer, NEW S, NEW v \in select_best_version(remote, S)
  PROVE  v \in Entry(Url)
<1>1. remote \in Seq(Entry(Url))
  BY CredentialsAssumption
<1>2. PICK i \in 1..Len(remote) : v = remote[i]
  BY DEF select_best_version, Best, Mutual
<1> QED
  BY <1>1, <1>2

\* The three ways to write the registry keep its type.
LEMMA RegistryWrites ==
  ASSUME NEW t, NEW c \in Body, NEW e \in Endpoints,
         registered \in [Token -> RegisteredParty \cup {Absent}]
  PROVE  /\ register_with_endpoints(t, c, e) =>
              registered' \in [Token -> RegisteredParty \cup {Absent}]
         /\ update_with_endpoints(t, c, e) =>
              registered' \in [Token -> RegisteredParty \cup {Absent}]
         /\ invalidate(t) =>
              registered' \in [Token -> RegisteredParty \cup {Absent}]
  BY DEF register_with_endpoints, update_with_endpoints, invalidate, Party

-----------------------------------------------------------------------------
(***************************************************************************)
(* Type correctness.                                                       *)
(***************************************************************************)

\* A freshly constructed store is well typed (CredentialsConfig::new).
LEMMA InitTypeOK == Init => TypeOK
  BY DEF Init, TypeOK

\* Every step of a handler, of a fetch-back and of the host keeps the types
\* (credentials_get, credentials_post, credentials_put, credentials_delete).
LEMMA NextTypeOK == TypeOK /\ [Next]_vars => TypeOK'
<1> SUFFICES ASSUME TypeOK, [Next]_vars PROVE TypeOK'
  OBVIOUS
<1> USE DEF TypeOK
<1>1. ASSUME NEW r \in Request, NEW bearer \in Token \cup {NoToken}, NEW body \in Body,
             PostCheck(r, bearer, body)
      PROVE  TypeOK'
  BY <1>1 DEF PostCheck, Receive, Answer, Goto, StartFetchBack
<1>2. ASSUME NEW r \in Request, NEW bearer \in Token \cup {NoToken}, NEW body \in Body,
             PutCheck(r, bearer, body)
      PROVE  TypeOK'
  BY <1>2 DEF PutCheck, Receive, Answer, Goto, StartFetchBack
<1>3. ASSUME NEW r \in Request, NEW bearer \in Token \cup {NoToken}, Get(r, bearer)
      PROVE  TypeOK'
  BY <1>3 DEF Get, Receive, Answer
<1>4. ASSUME NEW r \in Request, NEW bearer \in Token \cup {NoToken}, Delete(r, bearer)
      PROVE  TypeOK'
  BY <1>4 DEF Delete, Receive, Answer
<1>5. ASSUME NEW r \in Request, FetchVersions(r)
      PROVE  TypeOK'
  BY <1>5, SelectionIsAnEntry DEF FetchVersions, Answer, Goto
<1>6. ASSUME NEW r \in Request, FetchDetails(r)
      PROVE  TypeOK'
  BY <1>6 DEF FetchDetails, Goto
<1>7. ASSUME NEW r \in Request, FetchFails(r) \/ Disconnect(r)
      PROVE  TypeOK'
  BY <1>7 DEF FetchFails, Disconnect, Answer, Goto
<1>8. ASSUME NEW r \in Request, PostRegister(r)
      PROVE  TypeOK'
  <2>1. registered' \in [Token -> RegisteredParty \cup {Absent}]
    BY <1>8, RegistryWrites DEF PostRegister
  <2> QED
    BY <1>8, <2>1 DEF PostRegister, Answer, Goto
<1>9. ASSUME NEW r \in Request, PostBurn(r)
      PROVE  TypeOK'
  BY <1>9 DEF PostBurn, Answer, invalidate
<1>10. ASSUME NEW r \in Request, PutUpdate(r)
       PROVE  TypeOK'
  <2>1. registered' \in [Token -> RegisteredParty \cup {Absent}]
    BY <1>10, RegistryWrites DEF PutUpdate
  <2> QED
    BY <1>10, <2>1 DEF PutUpdate, Answer
<1>11. ASSUME Host
       PROVE  TypeOK'
  <2>1. registered' \in [Token -> RegisteredParty \cup {Absent}]
    <3>1. ASSUME NEW t \in Token, NEW c \in Body, HostRegister(t, c) \/ HostUpdate(t, c)
          PROVE  registered' \in [Token -> RegisteredParty \cup {Absent}]
      BY <3>1 DEF HostRegister, HostUpdate, register_with_endpoints,
                  update_with_endpoints, Party
    <3>2. ASSUME NEW t \in Token, HostInvalidate(t)
          PROVE  registered' \in [Token -> RegisteredParty \cup {Absent}]
      BY <3>2 DEF HostInvalidate, invalidate
    <3> QED
      BY <1>11, <3>1, <3>2 DEF Host
  <2> QED
    BY <1>11, <2>1 DEF Host, HostRegister, HostUpdate, HostInvalidate, hostUnchanged
<1>12. CASE UNCHANGED vars
  BY <1>12 DEF vars
<1> QED
  BY <1>1, <1>2, <1>3, <1>4, <1>5, <1>6, <1>7, <1>8, <1>9, <1>10, <1>11, <1>12
     DEF Next, Arrive, Fetched, Handler

\* Every variable keeps its type, and a suspended handler carries what it has
\* computed so far.
THEOREM TypeCorrect == Spec => []TypeOK
  BY InitTypeOK, NextTypeOK, PTL DEF Spec

-----------------------------------------------------------------------------
(***************************************************************************)
(* A catalogue belongs to the credentials it is stored with.  Inductive    *)
(* once the catalogue that a handler carries from its fetch-back to its    *)
(* write is known to come from the object it is about to write.            *)
(***************************************************************************)
CarriedMatches ==
  \A r \in Request :
    /\ at[r] \in {"versions", "details"} => cfg.fetcher
    /\ at[r] = "details" => Negotiated(got[r])
    /\ at[r] = "write" => Matches(req[r].body, got[r])

MatchInv == CarriedMatches /\ CataloguesMatch

\* The marker of a missing entry is no RegisteredParty.
LEMMA AbsentIsNoEntry == Absent \notin RegisteredParty
  BY CredentialsAssumption

\* Writing an entry that matches keeps the whole registry matching.
LEMMA MatchingWrite ==
  ASSUME NEW t \in Token, NEW c \in Body, NEW e \in Endpoints,
         TypeOK, CataloguesMatch, Matches(c, e), cfg' = cfg,
         \/ register_with_endpoints(t, c, e)
         \/ update_with_endpoints(t, c, e)
         \/ invalidate(t)
         \/ registered' = registered
  PROVE  CataloguesMatch'
  BY AbsentIsNoEntry
  DEF TypeOK, CataloguesMatch, Matches, Negotiated, Party,
      register_with_endpoints, update_with_endpoints, invalidate

\* Every step keeps what the catalogues and the fetched data have to do with
\* each other (fetch_back, register_with_endpoints, update_with_endpoints).
LEMMA NextMatchInv == TypeOK /\ MatchInv /\ [Next]_vars => MatchInv'
<1> SUFFICES ASSUME TypeOK, MatchInv, [Next]_vars PROVE MatchInv'
  OBVIOUS
<1> USE DEF MatchInv
<1>a. \A c : Matches(c, NoEndpoints)
  BY DEF Matches
<1>1. ASSUME NEW r \in Request, NEW bearer \in Token \cup {NoToken}, NEW body \in Body,
             PostCheck(r, bearer, body) \/ PutCheck(r, bearer, body)
      PROVE  MatchInv'
  <2>1. CataloguesMatch'
    BY <1>1 DEF CataloguesMatch, Matches, Negotiated, PostCheck, PutCheck
  <2>2. CarriedMatches'
    BY <1>1 DEF TypeOK, CarriedMatches, Matches, Negotiated, PostCheck, PutCheck,
                Receive, Answer, Goto, StartFetchBack
  <2> QED
    BY <2>1, <2>2
<1>2. ASSUME NEW r \in Request, NEW bearer \in Token \cup {NoToken},
             Get(r, bearer) \/ Delete(r, bearer)
      PROVE  MatchInv'
  <2>1. CataloguesMatch'
    BY <1>2 DEF TypeOK, CataloguesMatch, Matches, Negotiated, Get, Delete
  <2>2. CarriedMatches'
    BY <1>2 DEF TypeOK, CarriedMatches, Matches, Negotiated, Get, Delete, Receive, Answer
  <2> QED
    BY <2>1, <2>2
<1>3. ASSUME NEW r \in Request, Fetched(r) \/ Disconnect(r)
      PROVE  MatchInv'
  <2>1. CataloguesMatch'
    BY <1>3 DEF CataloguesMatch, Matches, Negotiated, Fetched, FetchVersions,
                FetchDetails, FetchFails, Disconnect
  <2>2. CASE FetchVersions(r)
    BY <2>1, <2>2 DEF TypeOK, CarriedMatches, Matches, Negotiated, FetchVersions, Answer, Goto
  <2>3. CASE FetchDetails(r)
    BY <2>1, <2>3 DEF TypeOK, CarriedMatches, Matches, Negotiated, FetchDetails, Goto
  <2>4. CASE FetchFails(r) \/ Disconnect(r)
    BY <2>1, <2>4 DEF TypeOK, CarriedMatches, Matches, Negotiated, FetchFails, Disconnect,
                      Answer, Goto
  <2> QED
    BY <1>3, <2>2, <2>3, <2>4 DEF Fetched
<1>4. ASSUME NEW r \in Request, Handler(r)
      PROVE  MatchInv'
  <2>1. CarriedMatches'
    BY <1>4 DEF TypeOK, CarriedMatches, Matches, Negotiated, Handler, PostRegister, PostBurn,
                PutUpdate, Answer, Goto
  <2>2. CASE PostRegister(r) \/ PutUpdate(r)
    <3>1. Matches(req[r].body, got[r]) /\ req[r].body \in Body /\ got[r] \in Endpoints
      BY <2>2 DEF TypeOK, CarriedMatches, PostRegister, PutUpdate
    <3> QED
      BY <2>1, <2>2, <3>1, MatchingWrite, CredentialsAssumption DEF PostRegister, PutUpdate
  <2>3. CASE PostBurn(r)
    BY <2>1, <2>3 DEF TypeOK, CataloguesMatch, Matches, Negotiated, PostBurn, invalidate
  <2> QED
    BY <1>4, <2>2, <2>3 DEF Handler
<1>5. ASSUME Host
      PROVE  MatchInv'
  <2>1. CarriedMatches'
    BY <1>5 DEF CarriedMatches, Matches, Negotiated, Host, HostRegister, HostUpdate,
                HostInvalidate, hostUnchanged
  <2>2. ASSUME NEW t \in Token, NEW c \in Body, HostRegister(t, c) \/ HostUpdate(t, c)
        PROVE  CataloguesMatch'
    BY <2>2, <1>a, MatchingWrite DEF HostRegister, HostUpdate, hostUnchanged
  <2>3. ASSUME NEW t \in Token, HostInvalidate(t)
        PROVE  CataloguesMatch'
    BY <2>3 DEF TypeOK, CataloguesMatch, Matches, Negotiated, HostInvalidate, invalidate,
                hostUnchanged
  <2> QED
    BY <1>5, <2>1, <2>2, <2>3 DEF Host
<1>6. CASE UNCHANGED vars
  BY <1>6 DEF vars, CarriedMatches, CataloguesMatch, Matches, Negotiated
<1> QED
  BY <1>1, <1>2, <1>3, <1>4, <1>5, <1>6 DEF Next, Arrive

\* No entry ever pairs one credentials object with another one's catalogue.
THEOREM CataloguesAlwaysMatch == Spec => []CataloguesMatch
<1>1. Init => MatchInv
  BY DEF Init, MatchInv, CarriedMatches, CataloguesMatch
<1> QED
  BY <1>1, NextMatchInv, TypeCorrect, PTL DEF Spec, MatchInv

-----------------------------------------------------------------------------
(***************************************************************************)
(* Answers and effects.  EffectIffSuccess is inductive together with       *)
(* TypeOK.                                                                 *)
(***************************************************************************)
\* Every step keeps answers and writes to the registry in accord
\* (credentials_post, credentials_put, credentials_delete).
LEMMA NextEffect == TypeOK /\ EffectIffSuccess /\ [Next]_vars => EffectIffSuccess'
<1> SUFFICES ASSUME TypeOK, EffectIffSuccess, [Next]_vars PROVE EffectIffSuccess'
  OBVIOUS
<1> USE DEF TypeOK, EffectIffSuccess
<1>1. ASSUME NEW r \in Request, NEW bearer \in Token \cup {NoToken}, NEW body \in Body,
             PostCheck(r, bearer, body) \/ PutCheck(r, bearer, body)
      PROVE  EffectIffSuccess'
  BY <1>1 DEF PostCheck, PutCheck, Receive, Answer, Goto, StartFetchBack
<1>2. ASSUME NEW r \in Request, NEW bearer \in Token \cup {NoToken},
             Get(r, bearer) \/ Delete(r, bearer)
      PROVE  EffectIffSuccess'
  BY <1>2 DEF Get, Delete, Receive, Answer
<1>3. ASSUME NEW r \in Request, Fetched(r) \/ Disconnect(r)
      PROVE  EffectIffSuccess'
  BY <1>3 DEF Fetched, FetchVersions, FetchDetails, FetchFails, Disconnect, Answer, Goto
<1>4. ASSUME NEW r \in Request, Handler(r)
      PROVE  EffectIffSuccess'
  BY <1>4 DEF Handler, PostRegister, PostBurn, PutUpdate, Answer, Goto
<1>5. CASE Host
  BY <1>5 DEF Host, HostRegister, HostUpdate, HostInvalidate, hostUnchanged
<1>6. CASE UNCHANGED vars
  BY <1>6 DEF vars
<1> QED
  BY <1>1, <1>2, <1>3, <1>4, <1>5, <1>6 DEF Next, Arrive

\* A request changed the registry exactly if it was answered with success.
THEOREM EffectsAreAnswered == Spec => []EffectIffSuccess
<1>1. Init => EffectIffSuccess
  BY DEF Init, EffectIffSuccess
<1> QED
  BY <1>1, NextEffect, TypeCorrect, PTL DEF Spec

-----------------------------------------------------------------------------
(***************************************************************************)
(* Action properties.                                                      *)
(***************************************************************************)

\* A bootstrap token enters the registry by the host's register alone.
THEOREM HostIssues == Spec => OnlyHostIssuesTokens
<1>1. ASSUME TypeOK, [Next]_vars, NEW t \in Token \ {TokenC},
             registered[t] = Absent, registered'[t] # Absent
      PROVE  \E c \in Body : HostRegister(t, c)
  <2>1. ASSUME NEW r \in Request, Arrive(r) \/ Fetched(r) \/ Disconnect(r) \/ Handler(r)
        PROVE  FALSE
    BY <1>1, <2>1
    DEF TypeOK, Arrive, PostCheck, PutCheck, Get, Delete, Fetched, FetchVersions,
        FetchDetails, FetchFails, Disconnect, Handler, PostRegister, PostBurn, PutUpdate,
        register_with_endpoints, update_with_endpoints, invalidate
  <2>2. CASE Host
    <3>1. PICK s \in Token : \/ \E c \in Body : HostRegister(s, c) \/ HostUpdate(s, c)
                             \/ HostInvalidate(s)
      BY <2>2 DEF Host
    <3>2. PICK c \in Body : HostRegister(s, c)
      BY <1>1, <3>1 DEF TypeOK, HostUpdate, HostInvalidate, update_with_endpoints, invalidate
    <3>3. s = t
      BY <1>1, <3>2 DEF TypeOK, HostRegister, register_with_endpoints
    <3> QED
      BY <3>2, <3>3
  <2> QED
    BY <1>1, <2>1, <2>2 DEF Next, vars
<1>2. TypeOK /\ [Next]_vars =>
        [\A t \in Token \ {TokenC} :
           registered[t] = Absent /\ registered'[t] # Absent =>
             \E c \in Body : HostRegister(t, c)]_vars
  BY <1>1
<1> QED
  BY <1>2, TypeCorrect, PTL DEF Spec, OnlyHostIssuesTokens

\* Burning a bootstrap token leaves the registration under Token C as it is.
THEOREM BurnSpares == Spec => BurnSparesTokenC
<1>1. ASSUME TypeOK, [Next]_vars, NEW r \in Request, at[r] = "burn", at'[r] = "done"
      PROVE  registered'[TokenC] = registered[TokenC]
  <2>1. ASSUME NEW s \in Request, Arrive(s) \/ Fetched(s) \/ Disconnect(s)
        PROVE  FALSE
    BY <1>1, <2>1
    DEF TypeOK, Arrive, PostCheck, PutCheck, Get, Delete, Receive, StartFetchBack, Answer, Goto,
        Fetched, FetchVersions, FetchDetails, FetchFails, Disconnect
  <2>2. ASSUME NEW s \in Request, PostRegister(s) \/ PutUpdate(s)
        PROVE  FALSE
    BY <1>1, <2>2 DEF TypeOK, PostRegister, PutUpdate, Answer, Goto
  <2>3. ASSUME NEW s \in Request, PostBurn(s)
        PROVE  registered'[TokenC] = registered[TokenC]
    BY <1>1, <2>3, CredentialsAssumption DEF TypeOK, PostBurn, invalidate
  <2>4. CASE Host
    BY <1>1, <2>4 DEF TypeOK, Host, HostRegister, HostUpdate, HostInvalidate, hostUnchanged
  <2> QED
    BY <1>1, <2>1, <2>2, <2>3, <2>4 DEF Next, Handler, vars
<1>2. TypeOK /\ [Next]_vars =>
        [\A r \in Request : at[r] = "burn" /\ at'[r] = "done" =>
           registered'[TokenC] = registered[TokenC]]_vars
  BY <1>1
<1> QED
  BY <1>2, TypeCorrect, PTL DEF Spec, BurnSparesTokenC

\* A handler that has fetched carries a catalogue to its write: where a fetcher
\* is configured no handler gets there without one (fetch_back).
FetchedInv ==
  \A r \in Request : cfg.fetcher /\ at[r] = "write" => got[r] # NoEndpoints

\* Every step keeps it: without a catalogue a handler is answered or waits.
LEMMA NextFetchedInv == TypeOK /\ FetchedInv /\ [Next]_vars => FetchedInv'
<1> SUFFICES ASSUME TypeOK, FetchedInv, [Next]_vars PROVE FetchedInv'
  OBVIOUS
<1> USE DEF TypeOK, FetchedInv
<1>1. ASSUME NEW r \in Request, NEW bearer \in Token \cup {NoToken}, NEW body \in Body,
             PostCheck(r, bearer, body) \/ PutCheck(r, bearer, body)
      PROVE  FetchedInv'
  BY <1>1 DEF PostCheck, PutCheck, Receive, Answer, Goto, StartFetchBack
<1>2. ASSUME NEW r \in Request, NEW bearer \in Token \cup {NoToken},
             Get(r, bearer) \/ Delete(r, bearer)
      PROVE  FetchedInv'
  BY <1>2 DEF Get, Delete, Receive, Answer
<1>3. ASSUME NEW r \in Request, FetchVersions(r) \/ FetchFails(r) \/ Disconnect(r)
      PROVE  FetchedInv'
  BY <1>3 DEF FetchVersions, FetchFails, Disconnect, Answer, Goto
<1>4. ASSUME NEW r \in Request, FetchDetails(r)
      PROVE  FetchedInv'
  <2>1. [of |-> req[r].body, at |-> got[r]] # NoEndpoints
    BY <1>4, CredentialsAssumption DEF FetchDetails
  <2> QED
    BY <1>4, <2>1 DEF FetchDetails, Goto
<1>5. ASSUME NEW r \in Request, Handler(r)
      PROVE  FetchedInv'
  BY <1>5 DEF Handler, PostRegister, PostBurn, PutUpdate, Answer, Goto
<1>6. CASE Host
  BY <1>6 DEF Host, HostRegister, HostUpdate, HostInvalidate, hostUnchanged
<1>7. CASE UNCHANGED vars
  BY <1>7 DEF vars
<1> QED
  BY <1>1, <1>2, <1>3, <1>4, <1>5, <1>6, <1>7 DEF Next, Arrive, Fetched

\* A failed fetch-back is never taken for one that was skipped.
THEOREM FetchesAreNotSkipped == Spec => FetchIsNotSkipped
<1>1. ASSUME TypeOK, FetchedInv, [Next]_vars, cfg.fetcher,
             registered'[TokenC] # registered[TokenC]
      PROVE  \/ registered'[TokenC] = Absent
             \/ registered'[TokenC].endpoints # NoEndpoints
             \/ Host
  <2>1. ASSUME NEW r \in Request, Fetched(r) \/ Disconnect(r)
        PROVE  FALSE
    BY <1>1, <2>1 DEF Fetched, FetchVersions, FetchDetails, FetchFails, Disconnect
  <2>2. ASSUME NEW r \in Request, Arrive(r)
        PROVE  registered'[TokenC] = Absent
    BY <1>1, <2>2, CredentialsAssumption
    DEF TypeOK, Arrive, PostCheck, PutCheck, Get, Delete
  <2>3. ASSUME NEW r \in Request, PostRegister(r) \/ PutUpdate(r)
        PROVE  registered'[TokenC].endpoints # NoEndpoints
    <3>1. got[r] # NoEndpoints
      BY <1>1, <2>3 DEF FetchedInv, PostRegister, PutUpdate
    <3>2. registered'[TokenC] = Party(req[r].body, got[r])
      BY <1>1, <2>3, CredentialsAssumption
      DEF TypeOK, PostRegister, PutUpdate, register_with_endpoints, update_with_endpoints
    <3> QED
      BY <3>1, <3>2 DEF Party
  <2>4. ASSUME NEW r \in Request, PostBurn(r)
        PROVE  FALSE
    BY <1>1, <2>4, CredentialsAssumption DEF TypeOK, PostBurn, invalidate
  <2> QED
    BY <1>1, <2>1, <2>2, <2>3, <2>4 DEF Next, Handler, vars
<1>2. TypeOK /\ FetchedInv /\ [Next]_vars =>
        [cfg.fetcher /\ registered' # registered /\ registered'[TokenC] # registered[TokenC]
           => \/ registered'[TokenC] = Absent
              \/ registered'[TokenC].endpoints # NoEndpoints
              \/ Host]_vars
  BY <1>1
<1>3. Init => FetchedInv
  BY DEF Init, FetchedInv
<1> QED
  BY <1>2, <1>3, NextFetchedInv, TypeCorrect, PTL DEF Spec, FetchIsNotSkipped

-----------------------------------------------------------------------------
(***************************************************************************)
(* Refinement of Registration.  A handler's check, its awaits and its      *)
(* reading steps stutter; its write is a Join, a Rotate or a Leave; what   *)
(* happens under another token than Token C is an Issue or a Burn.         *)
(***************************************************************************)
USE DEF Stored, StoredByHost, Wrote

\* What the abstract caller sets are after a step that leaves them alone.
LEMMA CallersUnchanged ==
  ASSUME wrote' = wrote, \A r \in wrote : req'[r] = req[r]
  PROVE  UNCHANGED <<Wrote("POST"), Wrote("PUT"),
                     {r \in Wrote("DELETE") : req[r].bearer = TokenC}>>
  OBVIOUS

\* Every step is a step of the atomic registration, or changes nothing it sees.
LEMMA StepRefines ==
  TypeOK /\ EffectIffSuccess /\ MatchInv /\ [Next]_vars => [R!RNext]_(R!rvars)
<1> SUFFICES ASSUME TypeOK, EffectIffSuccess, MatchInv, [Next]_vars
             PROVE  [R!RNext]_(R!rvars)
  OBVIOUS
<1> DEFINE Issued == {t \in Token \ {TokenC} : registered[t] # Absent}
           Left   == {r \in Wrote("DELETE") : req[r].bearer = TokenC}
<1> USE CredentialsAssumption
<1>1. ASSUME NEW r \in Request, NEW bearer \in Token \cup {NoToken},
             \/ \E body \in Body : PostCheck(r, bearer, body) \/ PutCheck(r, bearer, body)
             \/ Get(r, bearer)
      PROVE  [R!RNext]_(R!rvars)
  <2>1. registered' = registered /\ wrote' = wrote
    BY <1>1 DEF PostCheck, PutCheck, Get
  <2>2. \A s \in wrote : req'[s] = req[s]
    BY <1>1 DEF TypeOK, EffectIffSuccess, PostCheck, PutCheck, Get, Receive
  <2> QED
    BY <2>1, <2>2 DEF R!rvars
<1>2. ASSUME NEW r \in Request, Fetched(r) \/ Disconnect(r)
      PROVE  [R!RNext]_(R!rvars)
  BY <1>2 DEF R!rvars, Fetched, FetchVersions, FetchDetails, FetchFails, Disconnect
<1>3. ASSUME NEW r \in Request, NEW bearer \in Token \cup {NoToken}, Delete(r, bearer)
      PROVE  [R!RNext]_(R!rvars)
  <2>1. at[r] = "idle" /\ r \notin wrote
    BY <1>3 DEF Delete, Receive, EffectIffSuccess
  <2>2. \A s \in wrote : req'[s] = req[s]
    BY <1>3, <2>1 DEF TypeOK, Delete, Receive
  <2>3. CASE wrote' = wrote /\ registered' = registered
    BY <2>2, <2>3 DEF R!rvars
  <2>4. CASE ~(wrote' = wrote /\ registered' = registered)
    <3>1. /\ bearer \in Token /\ registered[bearer] # Absent
          /\ registered' = [registered EXCEPT ![bearer] = Absent]
          /\ wrote' = wrote \cup {r}
          /\ req'[r].method = "DELETE" /\ req'[r].bearer = bearer
      BY <1>3, <2>4 DEF TypeOK, Delete, Receive, is_registered
    <3>2. Wrote("POST")' = Wrote("POST") /\ Wrote("PUT")' = Wrote("PUT")
      BY <2>2, <3>1
    <3>3. CASE bearer = TokenC
      <4>1. registered[TokenC] # Absent /\ registered'[TokenC] = Absent /\ Issued' = Issued
        BY <3>1, <3>3 DEF TypeOK
      <4>2. r \notin Left /\ Left' = Left \cup {r}
        BY <2>1, <2>2, <3>1, <3>3
      <4>3. R!Leave(r)
        BY <3>2, <4>1, <4>2 DEF R!Leave
      <4> QED
        BY <4>3 DEF R!RNext
    <3>4. CASE bearer # TokenC
      <4>1. registered'[TokenC] = registered[TokenC] /\ bearer \in Issued
            /\ Issued' = Issued \ {bearer}
        BY <3>1, <3>4 DEF TypeOK
      <4>2. Left' = Left
        BY <2>1, <2>2, <3>1, <3>4
      <4>3. R!Burn
        BY <3>2, <4>1, <4>2 DEF R!Burn, R!callers
      <4> QED
        BY <4>3 DEF R!RNext
    <3> QED
      BY <3>3, <3>4
  <2> QED
    BY <2>3, <2>4
<1>4. ASSUME NEW r \in Request, PostRegister(r) \/ PutUpdate(r)
      PROVE  [R!RNext]_(R!rvars)
  <2>1. /\ at[r] = "write" /\ r \notin wrote /\ req' = req
        /\ req[r] \in Pending /\ got[r] \in Endpoints
        /\ Matches(req[r].body, got[r])
    BY <1>4 DEF TypeOK, EffectIffSuccess, MatchInv, CarriedMatches, PostRegister, PutUpdate
  <2>2. Party(req[r].body, got[r]) \in Stored(req[r].body)
    BY <2>1 DEF Matches
  <2>3. CASE registered' = registered /\ wrote' = wrote
    BY <2>1, <2>3 DEF R!rvars
  <2>4. CASE ~(registered' = registered /\ wrote' = wrote)
    <3>1. /\ registered' = [registered EXCEPT ![TokenC] = Party(req[r].body, got[r])]
          /\ wrote' = wrote \cup {r}
      BY <1>4, <2>4 DEF TypeOK, PostRegister, PutUpdate, is_registered,
                        register_with_endpoints, update_with_endpoints
    <3>2. registered'[TokenC] \in Stored(req[r].body) /\ Issued' = Issued
      BY <2>2, <3>1 DEF TypeOK
    <3>3. CASE PostRegister(r)
      <4>1. req[r].method = "POST" /\ registered[TokenC] = Absent
        BY <2>4, <3>3 DEF TypeOK, PostRegister, is_registered, register_with_endpoints
      <4>2. R!Join(r)
        BY <2>1, <3>1, <3>2, <4>1 DEF R!Join
      <4> QED
        BY <4>2 DEF R!RNext
    <3>4. CASE PutUpdate(r)
      <4>1. req[r].method = "PUT" /\ registered[TokenC] # Absent
        BY <2>4, <3>4 DEF TypeOK, PutUpdate, is_registered, update_with_endpoints
      <4>2. R!Rotate(r)
        BY <2>1, <3>1, <3>2, <4>1 DEF R!Rotate
      <4> QED
        BY <4>2 DEF R!RNext
    <3> QED
      BY <1>4, <3>3, <3>4
  <2> QED
    BY <2>3, <2>4
<1>5. ASSUME NEW r \in Request, PostBurn(r)
      PROVE  [R!RNext]_(R!rvars)
  <2>1. req' = req /\ wrote' = wrote /\ req[r].bearer \in Token
    BY <1>5 DEF TypeOK, PostBurn
  <2>2. CASE registered' = registered
    BY <2>1, <2>2 DEF R!rvars
  <2>3. CASE registered' # registered
    <3>1. /\ req[r].bearer \in Issued
          /\ registered' = [registered EXCEPT ![req[r].bearer] = Absent]
      BY <1>5, <2>1, <2>3 DEF TypeOK, PostBurn, invalidate
    <3>2. R!Burn
      BY <2>1, <3>1 DEF TypeOK, R!Burn, R!callers
    <3> QED
      BY <3>2 DEF R!RNext
  <2> QED
    BY <2>2, <2>3
<1>6. ASSUME Host
      PROVE  [R!RNext]_(R!rvars)
  <2>1. req' = req /\ wrote' = wrote
    BY <1>6 DEF Host, HostRegister, HostUpdate, HostInvalidate, hostUnchanged
  <2>2. CASE registered' = registered
    BY <2>1, <2>2 DEF R!rvars
  <2>3. CASE registered' # registered
    <3>1. PICK t \in Token :
            \/ \E c \in Body : registered' = [registered EXCEPT ![t] = Party(c, NoEndpoints)]
            \/ registered' = [registered EXCEPT ![t] = Absent]
      BY <1>6, <2>3 DEF TypeOK, Host, HostRegister, HostUpdate, HostInvalidate,
                        register_with_endpoints, update_with_endpoints, invalidate
    <3>2. \A c \in Body : Party(c, NoEndpoints) \in RegisteredParty /\ Party(c, NoEndpoints) # Absent
      BY DEF Party
    <3>3. CASE t = TokenC
      <4>1. Issued' = Issued
        BY <3>1, <3>3 DEF TypeOK
      <4>2. R!Operate
        BY <2>1, <3>1, <3>3, <4>1 DEF TypeOK, R!Operate, R!callers
      <4> QED
        BY <4>2 DEF R!RNext
    <3>4. CASE t # TokenC
      <4>1. registered'[TokenC] = registered[TokenC]
        BY <3>1, <3>4 DEF TypeOK
      <4>2. Issued' = Issued \/ Issued' = Issued \cup {t} \/ Issued' = Issued \ {t}
        BY <3>1, <3>2, <3>4 DEF TypeOK
      <4>3. Issued' = Issued \/ R!Issue \/ R!Burn
        BY <2>1, <3>4, <4>1, <4>2 DEF R!Issue, R!Burn, R!callers
      <4> QED
        BY <2>1, <4>1, <4>3 DEF R!RNext, R!rvars
    <3> QED
      BY <3>3, <3>4
  <2> QED
    BY <2>2, <2>3
<1>7. CASE UNCHANGED vars
  BY <1>7 DEF vars, R!rvars
<1> QED
  BY <1>1, <1>2, <1>3, <1>4, <1>5, <1>6, <1>7 DEF Next, Arrive, Handler

\* The handlers, with their awaits and their separate critical sections,
\* implement one registration that is made, replaced and removed atomically.
THEOREM Refinement == Spec => ImplementsRegistration
<1>1. Init => R!RInit
  BY CredentialsAssumption DEF Init, R!RInit
<1>2. Init => MatchInv
  BY DEF Init, MatchInv, CarriedMatches, CataloguesMatch
<1>3. Spec => []MatchInv
  BY <1>2, NextMatchInv, TypeCorrect, PTL DEF Spec
<1> QED
  BY <1>1, <1>3, StepRefines, EffectsAreAnswered, TypeCorrect, PTL
  DEF Spec, ImplementsRegistration, R!RSpec
=============================================================================
