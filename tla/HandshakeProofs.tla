-------------------------- MODULE HandshakeProofs --------------------------
(***************************************************************************)
(* Theorems about Handshake, for any number of requests, credentials       *)
(* objects, losses and restarts.                                           *)
(***************************************************************************)
EXTENDS Handshake, CredentialsProofs

-----------------------------------------------------------------------------
(***************************************************************************)
(* The invariant.                                                          *)
(***************************************************************************)
Writing == {"versions", "details", "write", "burn"}

\* What is on its way to the server has not been handled yet, bears one of the
\* party's two tokens, and carries an object if it is to store one.
SentInv ==
  \A r \in Request : sent[r] # Nothing =>
    /\ at[r] = "idle"
    /\ sent[r].bearer \in {TokenA, TokenC}
    /\ sent[r].method \in {"POST", "PUT"} => sent[r].body \in Body

\* The call the party waits for was made for what the party knows, and is
\* either on its way or with its handler, as it was made.
CallInv ==
  /\ knows \in {"in", "PUT", "DELETE"} => token = TokenC
  /\ call # Nothing =>
       /\ call.method = "GET" => knows = "in"
       /\ call.method = "POST" => knows \in {"out", "POST"} /\ call.body \in Body
       /\ call.method = "PUT" => knows \in {"in", "PUT"} /\ call.body \in Body
       /\ call.method = "DELETE" => knows \in {"in", "DELETE"}
       /\ call.method \in {"GET", "DELETE"} => call.body = Nothing
       /\ LET c == [method |-> call.method, bearer |-> token, body |-> call.body] IN
            IF at[call.id] = "idle" THEN sent[call.id] = c ELSE req[call.id] = c
       /\ at[call.id] = "done" <=> resp[call.id] # "none"
       /\ call.method \in {"GET", "DELETE"} => at[call.id] \notin Writing
       /\ call.method = "GET" => resp[call.id] # "not_allowed"
       /\ call.method # "GET" => resp[call.id] # "unauthorized"
       /\ call.method \in {"GET", "DELETE"} => resp[call.id] # "unable_to_use_client"

\* The server has decided on the call the party waits for.
Decided ==
  /\ call # Nothing
  /\ at[call.id] = "burn" \/ resp[call.id] \in {"success", "not_allowed", "unauthorized"}
  /\ call.method # "GET" \/ resp[call.id] = "unauthorized"

AsKnown ==
  /\ knows = "in" => /\ registered[TokenC] # Absent
                     /\ registered[TokenC].credentials = filed
  /\ knows = "out" => registered[TokenC] = Absent
  /\ knows = "locked" => registered[TokenC] # Absent

Granted == call.method \in {"POST", "PUT"} /\ (at[call.id] = "burn" \/ resp[call.id] = "success")

AsAnswered ==
  /\ Granted => /\ registered[TokenC] # Absent
                /\ registered[TokenC].credentials = call.body
  /\ (~Granted /\ call.method = "POST") => registered[TokenC] # Absent
  /\ (~Granted /\ call.method # "POST") => registered[TokenC] = Absent

\* What the party knows is so until the server decides on its call; from then
\* on what it will be told is so.
KnownOrAnswered == ~surprised => IF Decided THEN AsAnswered ELSE AsKnown

\* While no POST was lost there is no other POST than the one the party waits
\* for, and an entry under Token C is known to the party or made by that POST.
NoStrayPost ==
  /\ knows \notin {"POST", "locked"}
  /\ \A r \in Request : ~Waiting(r) =>
       /\ sent[r] # Nothing => sent[r].method # "POST"
       /\ at[r] \in Writing => req[r].method # "POST"
  /\ call # Nothing /\ call.method = "POST" => resp[call.id] # "not_allowed"
  /\ registered[TokenC] # Absent =>
       \/ knows \in {"in", "PUT", "DELETE"}
       \/ call # Nothing /\ Granted
  /\ Decided /\ ~Granted => registered[TokenC] = Absent

HandshakeInv == HTypeOK /\ SentInv /\ CallInv /\ KnownOrAnswered /\ (lostPost \/ NoStrayPost)

-----------------------------------------------------------------------------
(***************************************************************************)
(* What the steps of a handler do, in the terms of the invariant.          *)
(***************************************************************************)
Goes(r, to, code) == at' = [at EXCEPT ![r] = to] /\ resp' = [resp EXCEPT ![r] = code]

Keeps == registered'[TokenC] = registered[TokenC]

Stores(body) == registered'[TokenC] # Absent /\ registered'[TokenC].credentials = body

\* A call that arrives is answered, or goes on to its fetch-back.
Arrives(r, c) ==
  \/ /\ c.method \in {"POST", "PUT"} /\ Keeps
     /\ \E place \in {"versions", "write"} : Goes(r, place, resp[r])
  \/ /\ c.method = "POST" /\ Keeps /\ registered[TokenC] # Absent
     /\ Goes(r, "done", "not_allowed")
  \/ /\ c.method \in {"PUT", "DELETE"} /\ Keeps /\ registered[c.bearer] = Absent
     /\ Goes(r, "done", "not_allowed")
  \/ /\ c.method = "GET" /\ Keeps
     /\ Goes(r, "done", "success")
  \/ /\ c.method = "GET" /\ Keeps /\ registered[c.bearer] = Absent
     /\ Goes(r, "done", "unauthorized")
  \/ /\ c.method = "DELETE" /\ registered' = [registered EXCEPT ![c.bearer] = Absent]
     /\ Goes(r, "done", "success")

\* A handler goes on with its fetch-back, fails in it, or writes.
Advances(r) ==
  \/ /\ at[r] = "versions" /\ Keeps
     /\ Goes(r, "details", resp[r])
  \/ /\ at[r] = "details" /\ Keeps
     /\ Goes(r, "write", resp[r])
  \/ /\ at[r] \in {"versions", "details"} /\ Keeps
     /\ Goes(r, "done", "unable_to_use_client")
  \/ /\ at[r] = "write" /\ req[r].method = "POST"
     /\ registered[TokenC] = Absent /\ Stores(req[r].body)
     /\ Goes(r, "burn", resp[r])
  \/ /\ at[r] = "write" /\ req[r].method = "POST" /\ Keeps /\ registered[TokenC] # Absent
     /\ Goes(r, "done", "not_allowed")
  \/ /\ at[r] = "burn" /\ Keeps
     /\ Goes(r, "done", "success")
  \/ /\ at[r] = "write" /\ req[r].method = "PUT"
     /\ registered[TokenC] # Absent /\ Stores(req[r].body)
     /\ Goes(r, "done", "success")
  \/ /\ at[r] = "write" /\ req[r].method = "PUT" /\ Keeps /\ registered[TokenC] = Absent
     /\ Goes(r, "done", "not_allowed")

\* The handlers' first stretches (credentials_get, credentials_post,
\* credentials_put, credentials_delete).
LEMMA Arrival ==
  ASSUME HTypeOK, SentInv, NEW r \in Request, Deliver(r)
  PROVE  /\ Arrives(r, sent[r])
         /\ req' = [req EXCEPT ![r] =
              [method |-> sent[r].method, bearer |-> sent[r].bearer,
               body |-> IF sent[r].method \in {"POST", "PUT"} THEN sent[r].body ELSE Nothing]]
<1> DEFINE c == sent[r]
<1> USE DEF HTypeOK, TypeOK
<1>1. c # Nothing /\ c.bearer \in Token /\ c.bearer # NoToken /\ TokenC \in Token
  BY CredentialsAssumption, HandshakeAssumption DEF Deliver, SentInv
<1>2. CASE c.method = "POST" /\ PostCheck(r, c.bearer, c.body)
  BY <1>1, <1>2 DEF PostCheck, Receive, Answer, Goto, StartFetchBack, is_registered,
                    Arrives, Goes, Keeps
<1>3. CASE c.method = "PUT" /\ PutCheck(r, c.bearer, c.body)
  BY <1>1, <1>3 DEF PutCheck, Receive, Answer, Goto, StartFetchBack, is_registered,
                    Arrives, Goes, Keeps
<1>4. CASE c.method = "DELETE" /\ Delete(r, c.bearer)
  BY <1>1, <1>4 DEF Delete, Receive, Answer, is_registered, Arrives, Goes, Keeps
<1>5. CASE c.method = "GET" /\ Get(r, c.bearer)
  BY <1>1, <1>5 DEF Get, Receive, Answer, is_registered, Arrives, Goes, Keeps
<1> QED
  BY <1>2, <1>3, <1>4, <1>5 DEF Deliver

\* The fetch-back and the critical sections after it (register_with_endpoints,
\* update_with_endpoints, invalidate).
LEMMA Advance ==
  ASSUME HTypeOK, NEW r \in Request,
         FetchVersions(r) \/ FetchDetails(r) \/ Handler(r) \/ FetchFails(r)
  PROVE  Advances(r) /\ req' = req
<1> USE DEF HTypeOK, TypeOK, Goes, Keeps, Stores
<1>1. TokenC \in Token
  BY CredentialsAssumption
<1>2. CASE FetchVersions(r)
  BY <1>2 DEF FetchVersions, Answer, Goto, Advances
<1>3. CASE FetchDetails(r)
  BY <1>3 DEF FetchDetails, Goto, Advances
<1>4. CASE FetchFails(r)
  BY <1>4 DEF FetchFails, Answer, Advances
<1>5. CASE PostRegister(r)
  <2>1. got[r] \in Endpoints /\ req[r].body \in Body
    BY <1>5 DEF PostRegister, Pending
  <2>2. Party(req[r].body, got[r]) # Absent /\ Party(req[r].body, got[r]).credentials = req[r].body
    BY <2>1, AbsentIsNoEntry DEF Party, RegisteredParty
  <2> QED
    BY <1>1, <1>5, <2>2 DEF PostRegister, register_with_endpoints, is_registered, Answer, Goto, Advances
<1>6. CASE PostBurn(r)
  BY <1>1, <1>6 DEF PostBurn, invalidate, Answer, Advances
<1>7. CASE PutUpdate(r)
  <2>1. got[r] \in Endpoints /\ req[r].body \in Body
    BY <1>7 DEF PutUpdate, Pending
  <2>2. Party(req[r].body, got[r]) # Absent /\ Party(req[r].body, got[r]).credentials = req[r].body
    BY <2>1, AbsentIsNoEntry DEF Party, RegisteredParty
  <2> QED
    BY <1>1, <1>7, <2>2 DEF PutUpdate, update_with_endpoints, is_registered, Answer, Advances
<1> QED
  BY <1>2, <1>3, <1>4, <1>5, <1>6, <1>7 DEF Handler

-----------------------------------------------------------------------------
(***************************************************************************)
(* Type correctness.                                                       *)
(***************************************************************************)

\* A step of the server is one of Credentials.
LEMMA ServerSteps ==
  ASSUME HTypeOK, SentInv, NEW r \in Request,
         Deliver(r) \/ Proceed(r) \/ FetchBackFails(r) \/ Drop(r)
  PROVE  Next
<1>1. ASSUME Deliver(r) PROVE Arrive(r)
  <2>1. sent[r].bearer \in Token \cup {NoToken}
    BY <1>1, CredentialsAssumption, HandshakeAssumption DEF Deliver, SentInv
  <2>2. sent[r].method \in {"POST", "PUT"} => sent[r].body \in Body
    BY <1>1 DEF Deliver, SentInv
  <2> QED
    BY <1>1, <2>1, <2>2 DEF Deliver, Arrive
<1> QED
  BY <1>1 DEF Next, Proceed, FetchBackFails, Drop, Fetched

\* The credentials store keeps its types under the party's calls and restarts.
LEMMA StoreTypes ==
  ASSUME HTypeOK, SentInv, CallInv, [HNext]_hvars
  PROVE  TypeOK'
<1>1. TypeOK
  BY DEF HTypeOK
<1>2. ASSUME NEW method, NEW body, Send(method, token, body) PROVE TypeOK'
  BY <1>1, <1>2 DEF Send, TypeOK, Control, Response, Fetch
<1>3. CASE register \/ update_credentials \/ delete_credentials \/ get_credentials
  BY <1>2, <1>3 DEF register, update_credentials, delete_credentials, get_credentials
<1>4. CASE Restart
  BY <1>1, <1>4, CredentialsAssumption DEF Restart, TypeOK, Control
<1>5. CASE Server
  BY <1>1, <1>5, ServerSteps, NextTypeOK DEF Server
<1>6. CASE Issue \/ OperatorRelease
  <2>1. TokenA \in Token /\ TokenC \in Token
    BY HandshakeAssumption, CredentialsAssumption
  <2>2. Host
    BY <1>6, <2>1 DEF Issue, OperatorRelease, Host
  <2> QED
    BY <1>1, <2>2, NextTypeOK DEF Next
<1>7. CASE Answered \/ Fail \/ Broken \/ UNCHANGED hvars
  <2>1. UNCHANGED vars
    BY <1>7 DEF Answered, Fail, Broken, Doubt, hvars, server, vars
  <2> QED
    BY <1>1, <2>1, NextTypeOK
<1> QED
  BY <1>3, <1>4, <1>5, <1>6, <1>7 DEF HNext

\* The party keeps its own types (register, update_credentials,
\* delete_credentials, get_credentials and what they return).
LEMMA PartyTypes ==
  ASSUME HTypeOK, SentInv, CallInv, [HNext]_hvars
  PROVE  HTypeOK'
<1>1. TypeOK'
  BY StoreTypes
<1>2. TokenA \in Token /\ MaxLosses \in Nat /\ MaxRestarts \in Nat
  BY HandshakeAssumption
<1> USE DEF HTypeOK
<1>3. ASSUME NEW method \in Method, NEW body \in Body \cup {Nothing}, Send(method, token, body)
      PROVE  HTypeOK'
  <2>1. token \in Token \cup {NoToken}
    BY CredentialsAssumption, HandshakeAssumption
  <2> QED
    BY <1>1, <1>3, <2>1 DEF Send, history, Call
<1>4. CASE register \/ update_credentials \/ delete_credentials \/ get_credentials
  BY <1>3, <1>4 DEF register, update_credentials, delete_credentials, get_credentials, Method
<1>5. CASE Answered
  <2>1. knows' \in Knowledge /\ token' \in {TokenA, TokenC}
    BY <1>5 DEF Answered, Conclude, Learn, Knowledge
  <2>2. filed' \in Body \cup {Nothing}
    BY <1>5 DEF Answered
  <2> QED
    BY <1>1, <1>5, <2>1, <2>2 DEF Answered, history
<1>6. CASE Fail \/ Broken
  <2>1. call # Nothing /\ Doubt
    BY <1>6 DEF Fail, Broken
  <2>2. knows' \in Knowledge
    BY <2>1 DEF Doubt, Knowledge, Method
  <2>3. losses' \in 0..MaxLosses
    BY <1>2, <1>6 DEF Fail, Broken
  <2>4. surprised' \in BOOLEAN /\ lostPost' \in BOOLEAN
    BY <2>1 DEF Doubt
  <2> QED
    BY <1>1, <2>1, <2>2, <2>3, <2>4 DEF Doubt
<1>7. ASSUME NEW r \in Request, Deliver(r)
      PROVE  HTypeOK'
  <2>1. surprised' \in BOOLEAN
    BY <1>7 DEF Deliver, Observe
  <2> QED
    BY <1>1, <1>7, <2>1 DEF Deliver, party
<1>8. ASSUME NEW r \in Request, Proceed(r)
      PROVE  HTypeOK'
  <2>1. surprised' \in BOOLEAN
    BY <1>8 DEF Proceed, Observe
  <2> QED
    BY <1>1, <1>8, <2>1 DEF Proceed, party
<1>9. ASSUME NEW r \in Request, FetchBackFails(r) \/ Drop(r)
      PROVE  HTypeOK'
  BY <1>1, <1>2, <1>9 DEF FetchBackFails, Drop, party, history
<1>10. CASE Restart
  <2>1. surprised' \in BOOLEAN
    BY <1>10 DEF Restart
  <2> QED
    BY <1>1, <1>2, <1>10, <2>1 DEF Restart, party
<1>11. CASE Issue
  BY <1>1, <1>11 DEF Issue, party, history
<1>12. CASE OperatorRelease
  BY <1>1, <1>12 DEF OperatorRelease, Learn, Knowledge
<1>13. CASE UNCHANGED hvars
  BY <1>1, <1>13 DEF hvars, party, history
<1> QED
  BY <1>4, <1>5, <1>6, <1>7, <1>8, <1>9, <1>10, <1>11, <1>12, <1>13 DEF HNext, Server

-----------------------------------------------------------------------------
(***************************************************************************)
(* The calls on their way, and the one the party waits for.                *)
(***************************************************************************)

\* A call leaves the network when it reaches its handler (Send, Deliver).
LEMMA SentStep ==
  ASSUME HTypeOK, SentInv, CallInv, [HNext]_hvars
  PROVE  SentInv'
<1> USE DEF HTypeOK, TypeOK
<1>1. ASSUME NEW method, NEW body, Send(method, token, body),
             method \in {"POST", "PUT"} => body \in Body
      PROVE  SentInv'
  BY <1>1 DEF Send, Free, SentInv
<1>2. CASE register \/ update_credentials \/ delete_credentials \/ get_credentials
  BY <1>1, <1>2 DEF register, update_credentials, delete_credentials, get_credentials
<1>3. ASSUME NEW r \in Request, Deliver(r) PROVE SentInv'
  BY <1>3, Arrival DEF Deliver, Arrives, Goes, SentInv
<1>4. ASSUME NEW r \in Request, Proceed(r) \/ FetchBackFails(r) PROVE SentInv'
  <2>1. Advances(r)
    BY <1>4, Advance DEF Proceed, FetchBackFails
  <2>2. UNCHANGED sent
    BY <1>4 DEF Proceed, FetchBackFails
  <2> QED
    BY <2>1, <2>2 DEF Advances, Goes, SentInv
<1>5. ASSUME NEW r \in Request, Drop(r) PROVE SentInv'
  BY <1>5 DEF Drop, Disconnect, Goto, SentInv
<1>6. CASE Restart
  BY <1>6 DEF Restart, SentInv
<1>7. CASE Answered \/ Fail \/ Broken \/ Issue \/ OperatorRelease \/ UNCHANGED hvars
  <2>1. UNCHANGED <<sent, at>>
    BY <1>7 DEF Answered, Fail, Broken, Doubt, Issue, OperatorRelease, HostRegister,
                HostInvalidate, hostUnchanged, hvars, server
  <2> QED
    BY <2>1 DEF SentInv
<1> QED
  BY <1>2, <1>3, <1>4, <1>5, <1>6, <1>7 DEF HNext, Server

\* A new call is made for what the party knows.
LEMMA SendCall ==
  ASSUME HTypeOK, CallInv, NEW method \in Method, NEW body, Send(method, token, body),
         method = "GET" => knows = "in",
         method = "POST" => knows \in {"out", "POST"} /\ body \in Body,
         method = "PUT" => knows \in {"in", "PUT"} /\ body \in Body,
         method = "DELETE" => knows \in {"in", "DELETE"},
         method \in {"GET", "DELETE"} => body = Nothing
  PROVE  CallInv'
<1> USE DEF HTypeOK, TypeOK
<1>1. PICK r \in Request :
        /\ call' = [id |-> r, method |-> method, body |-> body]
        /\ sent' = [sent EXCEPT ![r] = [method |-> method, bearer |-> token, body |-> body]]
        /\ at' = [at EXCEPT ![r] = "idle"]
        /\ resp' = [resp EXCEPT ![r] = "none"]
  BY DEF Send
<1>2. UNCHANGED <<knows, token>>
  BY DEF Send
<1>3. at'[r] = "idle" /\ resp'[r] = "none"
      /\ sent'[r] = [method |-> method, bearer |-> token, body |-> body]
  BY <1>1
<1>4. call'.id = r /\ call'.method = method /\ call'.body = body
  BY <1>1
<1> QED
  BY <1>2, <1>3, <1>4 DEF CallInv, Writing

\* What the party learns of an answer, or of its absence, leaves it with the
\* token that goes with it (register, update_credentials, delete_credentials).
LEMMA ConcludeCall ==
  ASSUME HTypeOK, CallInv, Answered \/ Fail \/ Broken
  PROVE  CallInv'
<1> USE DEF CallInv
<1>1. call' = Nothing /\ call # Nothing
  BY DEF Answered, Fail, Broken, Doubt
<1>2. CASE Answered
  BY <1>1, <1>2 DEF Answered, Conclude, Learn
<1>3. CASE Fail \/ Broken
  <2>1. knows' = (IF call.method = "GET" THEN knows ELSE call.method) /\ token' = token
    BY <1>3 DEF Fail, Broken, Doubt
  <2>2. call.method \in Method
    BY <1>1 DEF HTypeOK
  <2> QED
    BY <1>1, <2>1, <2>2 DEF Method
<1> QED
  BY <1>2, <1>3

\* Every step keeps what is known of the call the party waits for.
LEMMA CallStep ==
  ASSUME HTypeOK, SentInv, CallInv, [HNext]_hvars
  PROVE  CallInv'
<1> USE DEF HTypeOK, TypeOK
<1>1. CASE register \/ update_credentials \/ delete_credentials \/ get_credentials
  BY <1>1, SendCall
     DEF register, update_credentials, delete_credentials, get_credentials, Method
<1>2. CASE Answered \/ Fail \/ Broken
  BY <1>2, ConcludeCall
<1>3. ASSUME NEW r \in Request, Deliver(r) PROVE CallInv'
  <2>1. Arrives(r, sent[r]) /\ at[r] = "idle" /\ UNCHANGED <<call, token, knows>>
    BY <1>3, Arrival DEF Deliver, SentInv, party
  <2>2. req' = [req EXCEPT ![r] =
              [method |-> sent[r].method, bearer |-> sent[r].bearer,
               body |-> IF sent[r].method \in {"POST", "PUT"} THEN sent[r].body ELSE Nothing]]
    BY <1>3, Arrival
  <2>3. ASSUME Waiting(r) PROVE CallInv'
    <3>1. call.id = r /\ sent[r] = [method |-> call.method, bearer |-> token, body |-> call.body]
      BY <2>1, <2>3 DEF Waiting, CallInv
    <3>2. call # Nothing /\ resp[r] = "none" /\ call.method \in Method
      BY <2>1, <2>3, <3>1 DEF Waiting, CallInv
    <3>3. req'[r] = [method |-> call.method, bearer |-> token, body |-> call.body]
      BY <2>2, <3>1, <3>2 DEF CallInv, Method
    <3>4. at'[r] # "idle" /\ (at'[r] = "done" <=> resp'[r] # "none")
      BY <2>1, <3>1, <3>2 DEF Arrives, Goes
    <3>5. /\ call.method \in {"GET", "DELETE"} => at'[r] = "done"
          /\ call.method = "GET" => resp'[r] # "not_allowed"
          /\ call.method # "GET" => resp'[r] # "unauthorized"
          /\ resp'[r] # "unable_to_use_client"
      BY <2>1, <3>1, <3>2 DEF Arrives, Goes
    <3> QED
      BY <2>1, <3>1, <3>3, <3>4, <3>5 DEF CallInv, Writing
  <2>4. ASSUME ~Waiting(r), call # Nothing
        PROVE  /\ call.id # r /\ at'[call.id] = at[call.id] /\ resp'[call.id] = resp[call.id]
               /\ req'[call.id] = req[call.id] /\ sent'[call.id] = sent[call.id]
    BY <1>3, <2>1, <2>2, <2>4 DEF Waiting, Arrives, Goes, Deliver
  <2> QED
    BY <2>1, <2>3, <2>4 DEF CallInv
<1>4. ASSUME NEW r \in Request, Proceed(r) \/ FetchBackFails(r) PROVE CallInv'
  <2>1. Advances(r) /\ req' = req /\ UNCHANGED <<call, token, knows, sent>>
    BY <1>4, Advance DEF Proceed, FetchBackFails, party
  <2>2. ASSUME Waiting(r) PROVE CallInv'
    <3>1. call.id = r /\ call # Nothing /\ call.method \in {"POST", "PUT"} /\ resp[r] = "none"
      BY <2>1, <2>2 DEF Waiting, CallInv, Advances, Writing, Method
    <3>2. at[r] # "idle" /\ at'[r] # "idle"
          /\ (at'[r] = "done" <=> resp'[r] # "none") /\ resp'[r] # "unauthorized"
      BY <2>1, <3>1 DEF Advances, Goes
    <3> QED
      BY <2>1, <3>1, <3>2 DEF CallInv
  <2>3. ASSUME ~Waiting(r), call # Nothing
        PROVE  at'[call.id] = at[call.id] /\ resp'[call.id] = resp[call.id]
    BY <2>1, <2>3 DEF Waiting, Advances, Goes
  <2> QED
    BY <2>1, <2>2, <2>3 DEF CallInv
<1>5. ASSUME NEW r \in Request, Drop(r) PROVE CallInv'
  BY <1>5 DEF Drop, Disconnect, Goto, Waiting, CallInv, party
<1>6. CASE Restart
  <2>1. UNCHANGED <<call, token, knows, sent, req, resp>>
    BY <1>6 DEF Restart, party
  <2>2. \A r \in Request : at'[r] = IF at[r] \in Writing THEN "gone" ELSE at[r]
    BY <1>6 DEF Restart, Writing
  <2> QED
    BY <2>1, <2>2 DEF CallInv, Writing
<1>7. CASE Issue \/ UNCHANGED hvars
  BY <1>7 DEF Issue, HostRegister, hostUnchanged, hvars, server, party, CallInv
<1>8. CASE OperatorRelease
  BY <1>8 DEF OperatorRelease, Learn, CallInv
<1> QED
  BY <1>1, <1>2, <1>3, <1>4, <1>5, <1>6, <1>7, <1>8 DEF HNext, Server

-----------------------------------------------------------------------------
(***************************************************************************)
(* Agreement.                                                              *)
(***************************************************************************)

\* A handler that the party does not wait for either changes the registration,
\* which is recorded as a surprise, or leaves what the party knows as it was.
LEMMA OthersKnown ==
  ASSUME HTypeOK, CallInv, KnownOrAnswered, NEW r \in Request, ~Waiting(r),
         Arrives(r, sent[r]) \/ Advances(r), Observe(r),
         UNCHANGED <<call, knows, filed>>
  PROVE  KnownOrAnswered'
<1> USE DEF HTypeOK, TypeOK
<1>1. SUFFICES ASSUME ~surprised' PROVE KnownOrAnswered'
  BY DEF KnownOrAnswered
<1>2. ~surprised /\ registered'[TokenC] = registered[TokenC]
  BY <1>1 DEF Observe, Decides
<1>3. call # Nothing => at'[call.id] = at[call.id] /\ resp'[call.id] = resp[call.id]
  BY DEF Waiting, Arrives, Advances, Goes
<1> QED
  BY <1>2, <1>3 DEF KnownOrAnswered, Decided, AsKnown, AsAnswered, Granted

\* The server decides on the party's call, and what it will answer is so.
LEMMA DecisionKnown ==
  ASSUME HTypeOK, SentInv, CallInv, NEW r \in Request, Waiting(r), Decides(r),
         \/ Arrives(r, sent[r]) /\ at[r] = "idle"
         \/ Advances(r),
         UNCHANGED <<call, knows, filed>>
  PROVE  Decided' /\ AsAnswered'
<1> USE DEF HTypeOK, TypeOK
<1>1. call # Nothing /\ call.id = r /\ call.method \in Method /\ TokenC \in Token
  BY CredentialsAssumption DEF Waiting
<1>2. Decided'
  BY <1>1 DEF Decides, Decided
<1>3. CASE Arrives(r, sent[r]) /\ at[r] = "idle"
  <2>1. sent[r] = [method |-> call.method, bearer |-> token, body |-> call.body] /\ resp[r] = "none"
    BY <1>1, <1>3 DEF CallInv
  <2>2. call.method \in {"PUT", "DELETE", "GET"} => token = TokenC
    BY <1>1 DEF CallInv
  <2> QED
    BY <1>1, <1>2, <1>3, <2>1, <2>2
       DEF Arrives, Goes, Keeps, Decides, AsAnswered, Granted, Method
<1>4. CASE Advances(r)
  <2>1. at[r] # "idle" /\ at[r] \in Writing
    BY <1>4 DEF Advances, Writing
  <2>2. req[r] = [method |-> call.method, bearer |-> token, body |-> call.body]
        /\ call.method \in {"POST", "PUT"} /\ resp[r] = "none"
    BY <1>1, <2>1 DEF CallInv, Writing, Method
  <2> QED
    BY <1>1, <1>2, <1>4, <2>1, <2>2
       DEF Advances, Goes, Keeps, Stores, Decides, AsAnswered, Granted
<1> QED
  BY <1>2, <1>3, <1>4

\* A handler that does not decide leaves what the party knows, or will be told.
LEMMA UndecidedKnown ==
  ASSUME HTypeOK, SentInv, CallInv, KnownOrAnswered, NEW r \in Request, Waiting(r), ~Decides(r),
         ~surprised, Keeps,
         \/ Arrives(r, sent[r]) /\ at[r] = "idle"
         \/ Advances(r),
         UNCHANGED <<call, knows, filed>>
  PROVE  IF Decided' THEN AsAnswered' ELSE AsKnown'
<1> USE DEF HTypeOK, TypeOK
<1>1. call # Nothing /\ call.id = r /\ call.method \in Method
  BY DEF Waiting
<1>2. CASE at[r] = "burn"
  <2>1. Decided /\ Granted /\ call.method = "POST"
    BY <1>1, <1>2 DEF Decided, Granted, CallInv, Writing, Method
  <2>2. at'[r] = "done" /\ resp'[r] = "success"
    BY <1>2 DEF Arrives, Advances, Goes
  <2> QED
    BY <1>1, <2>1, <2>2 DEF KnownOrAnswered, Decided, AsAnswered, Granted, Keeps
<1>3. CASE at[r] # "burn"
  <2>1. resp[r] = "none" /\ ~Decided
    BY <1>1, <1>3 DEF CallInv, Decided, Arrives, Advances
  <2>2. ~Decided'
    BY <1>1, <1>3 DEF Decides, Decided
  <2> QED
    BY <2>1, <2>2 DEF KnownOrAnswered, AsKnown, Keeps
<1> QED
  BY <1>2, <1>3

\* Every step keeps the agreement of party and server, or records a surprise.
LEMMA KnownStep ==
  ASSUME HTypeOK, SentInv, CallInv, KnownOrAnswered, [HNext]_hvars
  PROVE  KnownOrAnswered'
<1> USE DEF HTypeOK, TypeOK
<1>1. CASE register \/ update_credentials \/ delete_credentials \/ get_credentials
  <2>1. ASSUME NEW method, NEW body, Send(method, token, body) PROVE KnownOrAnswered'
    <3>1. call = Nothing /\ ~Decided
      BY <2>1 DEF Send, Decided
    <3>2. ~Decided'
      BY <2>1 DEF Send, Decided
    <3> QED
      BY <2>1, <3>1, <3>2 DEF Send, history, KnownOrAnswered, AsKnown
  <2> QED
    BY <1>1, <2>1 DEF register, update_credentials, delete_credentials, get_credentials
<1>2. CASE Answered
  <2>1. call # Nothing /\ ~Decided' /\ call.method \in Method /\ UNCHANGED <<registered, surprised>>
    BY <1>2 DEF Answered, Decided, server, history
  <2>2. at[call.id] = "done" /\ resp[call.id] # "none"
    BY <1>2 DEF Answered, CallInv
  <2>3. CASE ~surprised /\ Decided
    BY <1>2, <2>1, <2>2, <2>3, HandshakeAssumption
       DEF KnownOrAnswered, Decided, AsAnswered, AsKnown, Granted, Answered, Conclude, Learn,
           CallInv, Response, Method
  <2>4. CASE ~surprised /\ ~Decided
    BY <1>2, <2>1, <2>2, <2>4
       DEF KnownOrAnswered, Decided, AsKnown, Answered, Conclude, Learn, CallInv, Response, Method
  <2> QED
    BY <2>1, <2>3, <2>4 DEF KnownOrAnswered
<1>3. CASE Fail \/ Broken
  <2>1. call # Nothing /\ ~Decided' /\ call.method \in Method /\ Doubt
    BY <1>3 DEF Fail, Broken, Doubt, Decided
  <2>2. CASE call.method = "GET" /\ ~surprised'
    BY <2>1, <2>2 DEF Doubt, server, KnownOrAnswered, Decided, AsKnown, CallInv, Writing
  <2>3. CASE call.method # "GET"
    BY <2>1, <2>3 DEF Doubt, KnownOrAnswered, AsKnown, Method
  <2> QED
    BY <2>2, <2>3 DEF KnownOrAnswered
<1>4. ASSUME NEW r \in Request, Deliver(r) \/ Proceed(r) PROVE KnownOrAnswered'
  <2>1. Observe(r) /\ UNCHANGED <<call, knows, filed>>
    BY <1>4 DEF Deliver, Proceed, party
  <2>2. \/ Arrives(r, sent[r]) /\ at[r] = "idle"
        \/ Advances(r)
    BY <1>4, Arrival, Advance DEF Proceed, Deliver, SentInv
  <2>3. CASE ~Waiting(r)
    BY <2>1, <2>2, <2>3, OthersKnown
  <2>4. CASE Waiting(r) /\ Decides(r)
    BY <2>1, <2>2, <2>4, DecisionKnown DEF KnownOrAnswered
  <2>5. CASE Waiting(r) /\ ~Decides(r) /\ ~surprised'
    <3>1. ~surprised /\ Keeps
      BY <2>1, <2>5 DEF Observe, Keeps
    <3> QED
      BY <2>1, <2>2, <2>5, <3>1, UndecidedKnown DEF KnownOrAnswered
  <2> QED
    BY <2>3, <2>4, <2>5 DEF KnownOrAnswered
<1>5. ASSUME NEW r \in Request, FetchBackFails(r) PROVE KnownOrAnswered'
  <2>1. /\ at[r] \in {"versions", "details"} /\ UNCHANGED registered
        /\ Goes(r, "done", "unable_to_use_client")
        /\ UNCHANGED <<call, knows, filed, surprised>>
    BY <1>5 DEF FetchBackFails, FetchFails, Answer, Goes, party, history
  <2>2. Decided' <=> Decided
    BY <2>1 DEF Decided, Goes, CallInv
  <2>3. call # Nothing /\ call.id = r => ~Decided
    BY <2>1 DEF Decided, CallInv
  <2>4. call # Nothing /\ call.id # r => at'[call.id] = at[call.id] /\ resp'[call.id] = resp[call.id]
    BY <2>1 DEF Goes
  <2> QED
    BY <2>1, <2>2, <2>3, <2>4 DEF KnownOrAnswered, AsKnown, AsAnswered, Granted, Decided
<1>6. ASSUME NEW r \in Request, Drop(r) PROVE KnownOrAnswered'
  <2>1. /\ ~Waiting(r) /\ at' = [at EXCEPT ![r] = "gone"]
        /\ UNCHANGED <<registered, resp, call, knows, filed, surprised>>
    BY <1>6 DEF Drop, Disconnect, Goto, party, history
  <2> QED
    BY <2>1 DEF Waiting, KnownOrAnswered, Decided, AsKnown, AsAnswered, Granted
<1>7. CASE Restart
  <2>1. SUFFICES ASSUME ~surprised' PROVE KnownOrAnswered'
    BY DEF KnownOrAnswered
  <2>2. /\ ~surprised /\ registered[TokenC] = Absent /\ registered'[TokenC] = Absent
        /\ UNCHANGED <<call, knows, filed, resp>>
    BY <1>7, <2>1, CredentialsAssumption DEF Restart, party
  <2>3. \A r \in Request : at'[r] = IF at[r] \in Writing THEN "gone" ELSE at[r]
    BY <1>7 DEF Restart, Writing
  <2>4. call # Nothing => at[call.id] # "burn"
    BY <2>2 DEF KnownOrAnswered, Decided, AsAnswered, Granted, CallInv, Writing
  <2>5. Decided' <=> Decided
    BY <2>2, <2>3, <2>4 DEF Decided, Writing
  <2> QED
    BY <2>2, <2>3, <2>4, <2>5 DEF KnownOrAnswered, AsKnown, AsAnswered, Granted, Decided, Writing
<1>8. CASE Issue
  <2>1. registered'[TokenC] = registered[TokenC]
    BY <1>8, HandshakeAssumption, CredentialsAssumption DEF Issue, HostRegister, register_with_endpoints
  <2>2. UNCHANGED <<call, knows, filed, surprised, at, resp>>
    BY <1>8 DEF Issue, HostRegister, hostUnchanged, party, history
  <2> QED
    BY <2>1, <2>2 DEF KnownOrAnswered, Decided, AsKnown, AsAnswered, Granted
<1>9. CASE OperatorRelease
  BY <1>9, CredentialsAssumption
     DEF OperatorRelease, HostInvalidate, invalidate, Learn, KnownOrAnswered, Decided, AsKnown
<1>10. CASE UNCHANGED hvars
  BY <1>10 DEF hvars, server, party, history, KnownOrAnswered, Decided, AsKnown, AsAnswered, Granted
<1> QED
  BY <1>1, <1>2, <1>3, <1>4, <1>5, <1>6, <1>7, <1>8, <1>9, <1>10 DEF HNext, Server

-----------------------------------------------------------------------------
(***************************************************************************)
(* Without a lost POST nobody is locked out.                               *)
(***************************************************************************)

\* A handler that the party does not wait for is no POST, so that it makes no
\* entry under Token C.
LEMMA OthersMakeNoEntry ==
  ASSUME HTypeOK, SentInv, CallInv, NoStrayPost, NEW r \in Request, ~Waiting(r),
         \/ sent[r] # Nothing /\ Arrives(r, sent[r]) /\ at[r] = "idle"
         \/ Advances(r)
  PROVE  /\ registered'[TokenC] # Absent => registered[TokenC] # Absent
         /\ \A q \in Request \ {r} : at'[q] = at[q] /\ resp'[q] = resp[q]
<1> USE DEF HTypeOK, TypeOK
<1>1. TokenC \in Token
  BY CredentialsAssumption
<1>2. CASE sent[r] # Nothing /\ Arrives(r, sent[r])
  <2>1. registered'[TokenC] # Absent => registered[TokenC] # Absent
    BY <1>1, <1>2 DEF Arrives, Keeps
  <2> QED
    BY <1>2, <2>1 DEF Arrives, Goes
<1>3. CASE Advances(r)
  <2>1. registered'[TokenC] # Absent => registered[TokenC] # Absent
    BY <1>3 DEF Advances, Keeps, NoStrayPost, Writing
  <2> QED
    BY <1>3, <2>1 DEF Advances, Goes
<1> QED
  BY <1>2, <1>3

\* What the party's own call does to the entry under Token C.
LEMMA OwnCall ==
  ASSUME HTypeOK, SentInv, CallInv, NoStrayPost, NEW r \in Request, Waiting(r),
         \/ Arrives(r, sent[r]) /\ at[r] = "idle"
         \/ Advances(r),
         UNCHANGED <<call, knows>>
  PROVE  /\ call.method = "POST" => resp'[r] # "not_allowed"
         /\ registered'[TokenC] # Absent => knows \in {"in", "PUT", "DELETE"} \/ Granted'
         /\ Decided' /\ ~Granted' => registered'[TokenC] = Absent
<1> USE DEF HTypeOK, TypeOK
<1>1. call # Nothing /\ call.id = r /\ call.method \in Method /\ TokenC \in Token
  BY CredentialsAssumption DEF Waiting
<1>2. CASE Arrives(r, sent[r]) /\ at[r] = "idle"
  <2>1. sent[r] = [method |-> call.method, bearer |-> token, body |-> call.body] /\ resp[r] = "none"
    BY <1>1, <1>2 DEF CallInv
  <2>2. call.method \in {"PUT", "DELETE", "GET"} => token = TokenC
    BY <1>1 DEF CallInv
  <2>3. call.method = "POST" => registered[TokenC] = Absent
    BY <1>1, <1>2, <2>1 DEF NoStrayPost, CallInv, Granted
  <2>4. call.method # "POST" => knows \in {"in", "PUT", "DELETE"}
    BY <1>1 DEF CallInv, Method
  <2> QED
    BY <1>1, <1>2, <2>1, <2>2, <2>3, <2>4 DEF Arrives, Goes, Keeps, Granted, Decided, Method
<1>3. CASE Advances(r)
  <2>1. at[r] # "idle" /\ at[r] \in Writing
    BY <1>3 DEF Advances, Writing
  <2>2. req[r] = [method |-> call.method, bearer |-> token, body |-> call.body]
        /\ call.method \in {"POST", "PUT"} /\ resp[r] = "none"
    BY <1>1, <2>1 DEF CallInv, Writing, Method
  <2>3. call.method = "POST" /\ at[r] # "burn" => registered[TokenC] = Absent
    BY <1>1, <2>2 DEF NoStrayPost, CallInv, Granted
  <2>4. call.method = "PUT" => knows \in {"in", "PUT", "DELETE"} /\ at[r] # "burn"
    BY <1>1, <2>2 DEF CallInv
  <2>5. registered[TokenC] # Absent => knows \in {"in", "PUT", "DELETE"} \/ Granted
    BY DEF NoStrayPost
  <2> QED
    BY <1>1, <1>3, <2>2, <2>3, <2>4, <2>5 DEF Advances, Goes, Keeps, Granted, Decided
<1> QED
  BY <1>2, <1>3

\* Every step leaves the party's own POST the only one, or loses a POST.
LEMMA StrayStep ==
  ASSUME HTypeOK, SentInv, CallInv, lostPost \/ NoStrayPost, [HNext]_hvars
  PROVE  (lostPost \/ NoStrayPost)'
<1> USE DEF HTypeOK, TypeOK
<1>1. lostPost => lostPost'
  BY DEF HNext, register, update_credentials, delete_credentials, get_credentials, Send, Answered,
         Fail, Broken, Doubt, Server, Deliver, Proceed, FetchBackFails, Drop, Restart, Issue,
         OperatorRelease, history, hvars
<1> SUFFICES ASSUME ~lostPost', NoStrayPost PROVE NoStrayPost'
  BY <1>1
<1>3. ASSUME NEW method \in Method, NEW body \in Body \cup {Nothing}, Send(method, token, body)
      PROVE  NoStrayPost'
  <2>1. PICK r \in Request :
          /\ call' = [id |-> r, method |-> method, body |-> body]
          /\ sent' = [sent EXCEPT ![r] = [method |-> method, bearer |-> token, body |-> body]]
          /\ at' = [at EXCEPT ![r] = "idle"]
          /\ req' = [req EXCEPT ![r] = Nothing]
          /\ resp' = [resp EXCEPT ![r] = "none"]
    BY <1>3 DEF Send
  <2>2. call = Nothing /\ UNCHANGED <<registered, knows>>
    BY <1>3 DEF Send
  <2>3. call' # Nothing /\ call'.id = r /\ at'[r] = "idle" /\ resp'[r] = "none"
    BY <2>1, HandshakeAssumption
  <2>4. ASSUME NEW q \in Request, ~Waiting(q)'
        PROVE  /\ sent'[q] # Nothing => sent'[q].method # "POST"
               /\ at'[q] \in Writing => req'[q].method # "POST"
    <3>1. q # r
      BY <2>3, <2>4 DEF Waiting
    <3>2. ~Waiting(q) /\ sent'[q] = sent[q] /\ at'[q] = at[q] /\ req'[q] = req[q]
      BY <2>1, <2>2, <3>1 DEF Waiting
    <3> QED
      BY <3>2 DEF NoStrayPost
  <2>5. ~Decided'
    BY <2>3 DEF Decided
  <2>6. registered[TokenC] # Absent => knows \in {"in", "PUT", "DELETE"}
    BY <2>2 DEF NoStrayPost
  <2>7. knows \notin {"POST", "locked"}
    BY DEF NoStrayPost
  <2> QED
    BY <2>2, <2>3, <2>4, <2>5, <2>6, <2>7 DEF NoStrayPost
<1>4. CASE register \/ update_credentials \/ delete_credentials \/ get_credentials
  BY <1>3, <1>4 DEF register, update_credentials, delete_credentials, get_credentials, Method
<1>5. CASE Answered
  <2>1. /\ call # Nothing /\ call' = Nothing /\ at[call.id] = "done" /\ call.method \in Method
        /\ UNCHANGED <<sent, at, req, resp, registered>> /\ call.id \in Request
    BY <1>5 DEF Answered, server
  <2>2. sent[call.id] = Nothing
    BY <2>1 DEF SentInv
  <2>3. ASSUME NEW q \in Request
        PROVE  /\ sent[q] # Nothing => sent[q].method # "POST"
               /\ at[q] \in Writing => req[q].method # "POST"
    BY <2>1, <2>2 DEF NoStrayPost, Waiting, Writing
  <2>4. ~Decided'
    BY <2>1 DEF Decided
  <2>5. /\ resp[call.id] \in Response \ {"none"}
        /\ call.method = "POST" => resp[call.id] \notin {"not_allowed", "unauthorized"}
    BY <2>1 DEF CallInv, NoStrayPost, Response
  <2>6. knows' \notin {"POST", "locked"}
    BY <1>5, <2>5 DEF Answered, Conclude, Learn, NoStrayPost, Response
  <2>7. CASE resp[call.id] = "success"
    <3>1. call.method = "DELETE" => registered[TokenC] = Absent
      BY <2>1, <2>7 DEF NoStrayPost, Decided, Granted
    <3>2. call.method = "GET" => knows' = "in"
      BY <1>5, <2>7 DEF Answered, Conclude, Learn, CallInv
    <3> QED
      BY <1>5, <2>1, <2>3, <2>4, <2>6, <2>7, <3>1, <3>2
         DEF Answered, Conclude, Learn, NoStrayPost, Method
  <2>8. CASE resp[call.id] = "unable_to_use_client"
    <3>1. ~Granted /\ UNCHANGED knows
      BY <1>5, <2>1, <2>8 DEF Granted, Answered, Conclude, Learn
    <3> QED
      BY <2>1, <2>3, <2>4, <2>6, <3>1 DEF NoStrayPost
  <2>9. CASE resp[call.id] \in {"not_allowed", "unauthorized"}
    <3>1. Decided /\ ~Granted
      BY <2>1, <2>9 DEF Decided, Granted, CallInv
    <3>2. registered[TokenC] = Absent
      BY <3>1 DEF NoStrayPost
    <3> QED
      BY <2>1, <2>3, <2>4, <2>6, <3>2 DEF NoStrayPost
  <2> QED
    BY <2>5, <2>7, <2>8, <2>9 DEF Response
<1>6. CASE Fail \/ Broken
  <2>1. /\ call # Nothing /\ Doubt /\ call.method \in Method /\ call.method # "POST"
        /\ call.id \in Request
    BY <1>6 DEF Fail, Broken, Doubt
  <2>2. call' = Nothing /\ UNCHANGED <<sent, at, req, resp, registered>>
    BY <2>1 DEF Doubt, server
  <2>3. sent[call.id] # Nothing => sent[call.id].method # "POST"
    BY <2>1 DEF CallInv, SentInv
  <2>4. at[call.id] \in Writing => req[call.id].method # "POST"
    BY <2>1 DEF CallInv, Writing
  <2>5. knows \in {"in", "PUT", "DELETE"} /\ knows' \in {"in", "PUT", "DELETE"}
    BY <2>1 DEF Doubt, CallInv, Method
  <2>6. ASSUME NEW q \in Request
        PROVE  /\ sent[q] # Nothing => sent[q].method # "POST"
               /\ at[q] \in Writing => req[q].method # "POST"
    BY <2>3, <2>4 DEF NoStrayPost, Waiting
  <2> QED
    BY <2>2, <2>5, <2>6 DEF NoStrayPost, Decided
<1>7. ASSUME NEW r \in Request, Deliver(r) \/ Proceed(r) \/ FetchBackFails(r) PROVE NoStrayPost'
  <2>1. UNCHANGED <<call, knows>>
    BY <1>7 DEF Deliver, Proceed, FetchBackFails, party
  <2>2. \/ sent[r] # Nothing /\ Arrives(r, sent[r]) /\ at[r] = "idle"
        \/ Advances(r)
    BY <1>7, Arrival, Advance DEF Proceed, FetchBackFails, Deliver, SentInv
  <2>3. /\ \A q \in Request : sent'[q] # Nothing => sent'[q] = sent[q]
        /\ \A q \in Request \ {r} : at'[q] = at[q] /\ resp'[q] = resp[q] /\ req'[q] = req[q]
    BY <1>7, <2>2, Arrival, Advance DEF Deliver, Proceed, FetchBackFails, Arrives, Advances, Goes
  <2>4. \/ at[r] = "idle" /\ req'[r].method = sent[r].method /\ sent[r] # Nothing
        \/ at[r] \in Writing /\ req'[r] = req[r]
    BY <1>7, Arrival, Advance DEF Deliver, Proceed, FetchBackFails, SentInv, Advances, Writing
  <2>5. ASSUME NEW q \in Request, ~Waiting(q)
        PROVE  /\ sent'[q] # Nothing => sent'[q].method # "POST"
               /\ at'[q] \in Writing => req'[q].method # "POST"
    BY <2>3, <2>4, <2>5 DEF NoStrayPost
  <2>6. CASE ~Waiting(r)
    <3>1. /\ registered'[TokenC] # Absent => registered[TokenC] # Absent
          /\ \A q \in Request \ {r} : at'[q] = at[q] /\ resp'[q] = resp[q]
      BY <2>2, <2>6, OthersMakeNoEntry
    <3>2. call # Nothing => at'[call.id] = at[call.id] /\ resp'[call.id] = resp[call.id]
      BY <2>6, <3>1 DEF Waiting
    <3> QED
      BY <2>1, <2>5, <3>1, <3>2 DEF NoStrayPost, Waiting, Granted, Decided
  <2>7. CASE Waiting(r)
    <3>1. /\ call.method = "POST" => resp'[r] # "not_allowed"
          /\ registered'[TokenC] # Absent => knows \in {"in", "PUT", "DELETE"} \/ Granted'
          /\ Decided' /\ ~Granted' => registered'[TokenC] = Absent
      BY <2>1, <2>2, <2>7, OwnCall
    <3>2. call # Nothing /\ call.id = r
      BY <2>7 DEF Waiting
    <3> QED
      BY <2>1, <2>5, <3>1, <3>2 DEF NoStrayPost, Waiting
  <2> QED
    BY <2>6, <2>7
<1>8. ASSUME NEW r \in Request, Drop(r) PROVE NoStrayPost'
  <2>1. /\ ~Waiting(r) /\ at' = [at EXCEPT ![r] = "gone"]
        /\ UNCHANGED <<registered, resp, req, call, knows, sent>>
    BY <1>8 DEF Drop, Disconnect, Goto, party
  <2> QED
    BY <2>1 DEF Waiting, NoStrayPost, Decided, Granted, Writing
<1>9. CASE Restart
  <2>1. registered'[TokenC] = Absent /\ UNCHANGED <<call, knows, resp, req, sent>>
    BY <1>9, CredentialsAssumption DEF Restart, party
  <2>2. \A r \in Request : at'[r] \notin Writing
    BY <1>9 DEF Restart, Writing
  <2> QED
    BY <2>1, <2>2 DEF NoStrayPost, Waiting
<1>10. CASE Issue
  <2>1. registered'[TokenC] = registered[TokenC]
    BY <1>10, HandshakeAssumption, CredentialsAssumption DEF Issue, HostRegister, register_with_endpoints
  <2>2. UNCHANGED <<call, knows, sent, req, at, resp>>
    BY <1>10 DEF Issue, HostRegister, hostUnchanged, party
  <2> QED
    BY <2>1, <2>2 DEF NoStrayPost, Waiting, Decided, Granted
<1>11. CASE OperatorRelease
  BY <1>11 DEF OperatorRelease, NoStrayPost
<1>12. CASE UNCHANGED hvars
  BY <1>12 DEF hvars, server, party, NoStrayPost, Waiting, Decided, Granted
<1> QED
  BY <1>4, <1>5, <1>6, <1>7, <1>8, <1>9, <1>10, <1>11, <1>12 DEF HNext, Server

-----------------------------------------------------------------------------
(***************************************************************************)
(* The theorems.                                                           *)
(***************************************************************************)

\* Before the first call nobody is registered (HInit).
LEMMA HandshakeInit == HInit => HandshakeInv
<1> SUFFICES ASSUME HInit PROVE HandshakeInv
  OBVIOUS
<1>1. TypeOK
  BY InitTypeOK DEF HInit
<1>2. HTypeOK
  <2>1. sent \in [Request -> Call \cup {Nothing}]
    BY DEF HInit
  <2>2. losses \in 0..MaxLosses /\ restarts \in 0..MaxRestarts
    BY HandshakeAssumption DEF HInit
  <2>3. /\ call = Nothing /\ filed = Nothing /\ token \in {TokenA, TokenC} /\ knows \in Knowledge
        /\ surprised \in BOOLEAN /\ lostPost \in BOOLEAN
    BY DEF HInit, Knowledge
  <2> QED
    BY <1>1, <2>1, <2>2, <2>3 DEF HTypeOK
<1>3. registered[TokenC] = Absent
  BY CredentialsAssumption DEF HInit, Init
<1>4. /\ call = Nothing /\ knows = "out" /\ ~Decided
      /\ \A r \in Request : sent[r] = Nothing /\ at[r] = "idle"
  BY DEF HInit, Init, Decided
<1> QED
  BY <1>2, <1>3, <1>4
     DEF HandshakeInv, SentInv, CallInv, KnownOrAnswered, AsKnown, NoStrayPost, Writing

\* Every step keeps the invariant.
LEMMA HandshakeStep == HandshakeInv /\ [HNext]_hvars => HandshakeInv'
<1> SUFFICES ASSUME HandshakeInv, [HNext]_hvars PROVE HandshakeInv'
  OBVIOUS
<1>1. HTypeOK /\ SentInv /\ CallInv /\ KnownOrAnswered /\ (lostPost \/ NoStrayPost)
  BY DEF HandshakeInv
<1>2. HTypeOK'
  BY <1>1, PartyTypes
<1>3. SentInv' /\ CallInv'
  BY <1>1, SentStep, CallStep
<1>4. KnownOrAnswered'
  BY <1>1, KnownStep
<1>5. (lostPost \/ NoStrayPost)'
  BY <1>1, StrayStep
<1> QED
  BY <1>2, <1>3, <1>4, <1>5 DEF HandshakeInv

\* Party, network and server keep their types, through losses, late calls and
\* restarts.
THEOREM HandshakeTypeCorrect == HSpec => []HTypeOK
<1>1. HandshakeInv => HTypeOK
  BY DEF HandshakeInv
<1> QED
  BY <1>1, HandshakeInit, HandshakeStep, PTL DEF HSpec

\* Party and server agree, unless something has changed the registration
\* behind the party's back (Conclude's reading of the answers of
\* credentials_post, credentials_put, credentials_delete and credentials_get).
THEOREM PartiesAgree == HSpec => []Agreement
<1>1. HandshakeInv => Agreement
  <2> SUFFICES ASSUME HandshakeInv, call = Nothing, ~surprised PROVE Agreement
    BY DEF Agreement
  <2>1. ~Decided
    BY DEF Decided
  <2> QED
    BY <2>1 DEF HandshakeInv, KnownOrAnswered, AsKnown, CallInv, Agreement
<1> QED
  BY <1>1, HandshakeInit, HandshakeStep, PTL DEF HSpec

\* No loss but that of the answer to a POST locks a party out, and no restart
\* does.
THEOREM OnlyLostPostsLock == HSpec => []LockedOnlyByLostPost
<1>1. HandshakeInv => LockedOnlyByLostPost
  BY DEF HandshakeInv, NoStrayPost, LockedOnlyByLostPost
<1> QED
  BY <1>1, HandshakeInit, HandshakeStep, PTL DEF HSpec
=============================================================================
