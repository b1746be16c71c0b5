----------------------------- MODULE Handshake -----------------------------
(***************************************************************************)
(* One party registers with the server of Credentials, over a network.     *)
(* The client library sends one HTTP call and waits for its answer; it     *)
(* keeps no state, sets no timeout and never retries.  The party that uses *)
(* it does: it remembers its token and what it knows of its registration.  *)
(*                                                                         *)
(* A call that fails for the client may have been handled, be handled      *)
(* now, or reach the server later, while the party already sends the next  *)
(* one.  The server keeps its registry in memory and may restart.  A party *)
(* that has lost the answer to its POST never learns Token C; it asks the  *)
(* operator of the server, who removes the registration.                   *)
(***************************************************************************)
EXTENDS Credentials

CONSTANTS
  TokenA,         \* the bootstrap token the party was given
  MaxLosses,      \* bound: calls that fail, fetch-backs that fail
  MaxRestarts     \* bound: restarts of the server

ASSUME HandshakeAssumption ==
  /\ TokenA \in Token \ {TokenC}
  /\ MaxLosses \in Nat /\ MaxRestarts \in Nat
  /\ Nothing \notin Body
  /\ Nothing \notin [id : Request, method : Method, body : Body \cup {Nothing}]

VARIABLES
  sent,           \* request -> the call, while it is on its way to the server
  call,           \* the call the party waits for
  token,          \* the token the party authenticates with
  knows,          \* what the party knows of its registration
  filed,          \* the credentials whose receipt was acknowledged to it last
  surprised,      \* history: something else has changed the registration since
  lostPost,       \* history: the answer to a POST was lost
  losses, restarts

server == <<cfg, registered, req, at, got, resp, wrote>>
party  == <<call, token, knows, filed>>
history == <<surprised, lostPost>>
hvars  == <<server, party, sent, history, losses, restarts>>

-----------------------------------------------------------------------------
\* "in" and "out" of the registry; "locked": registered, without Token C; or
\* the method of a call whose answer was lost.
Knowledge == {"in", "out", "locked", "POST", "PUT", "DELETE"}

Waiting(r) == call # Nothing /\ call.id = r

HInit ==
  /\ Init
  /\ sent = [r \in Request |-> Nothing]
  /\ call = Nothing /\ token = TokenA /\ knows = "out" /\ filed = Nothing
  /\ surprised = FALSE /\ lostPost = FALSE
  /\ losses = 0 /\ restarts = 0

-----------------------------------------------------------------------------
(***************************************************************************)
(* The party.  Each call is a new one: a request that nobody is about to   *)
(* handle any more.                                                        *)
(***************************************************************************)
\* The client's functions for each release.  One for DELETE serves them all.
credentials_client       == {"GET", "POST", "PUT"}
credentials_2_1_1_client == {"GET", "POST", "PUT"}
credentials_2_3_0_client == {"GET", "POST", "PUT"}

Client(release) ==
  {"DELETE"} \cup CASE release = V2_1_1 -> credentials_2_1_1_client
                    [] release = V2_2_1 -> credentials_client
                    [] release = V2_3_0 -> credentials_2_3_0_client

Free(r) == sent[r] = Nothing /\ at[r] \in {"idle", "done", "gone"}

Send(method, bearer, body) ==
  /\ call = Nothing /\ method \in Client(cfg.release)
  /\ \E r \in Request :
       /\ Free(r)
       /\ call' = [id |-> r, method |-> method, body |-> body]
       /\ sent' = [sent EXCEPT ![r] = [method |-> method, bearer |-> bearer, body |-> body]]
       /\ at' = [at EXCEPT ![r] = "idle"]
       /\ req' = [req EXCEPT ![r] = Nothing]
       /\ got' = [got EXCEPT ![r] = Nothing]
       /\ resp' = [resp EXCEPT ![r] = "none"]
       /\ wrote' = wrote \ {r}
  /\ UNCHANGED <<cfg, registered, token, knows, filed, history, losses, restarts>>

\* A POST, again if its answer was lost.
register ==
  /\ knows \in {"out", "POST"}
  /\ \E b \in Body : Send("POST", token, b)

\* A PUT, again if its answer was lost.
update_credentials ==
  /\ knows \in {"in", "PUT"}
  /\ \E b \in Body : Send("PUT", token, b)

delete_credentials ==
  /\ knows \in {"in", "DELETE"}
  /\ Send("DELETE", token, Nothing)

\* A registered party asks from time to time whether it still is.
get_credentials ==
  /\ knows = "in"
  /\ Send("GET", token, Nothing)

Learn(knowledge, bearer) == knows' = knowledge /\ token' = bearer

\* Mutant: the party reads every refusal of a POST as "not registered".
ConcludeOut(method, code) ==
  IF code = "success"
    THEN IF method = "DELETE" THEN Learn("out", TokenA)
         ELSE IF method = "GET" THEN Learn(knows, token)
         ELSE Learn("in", TokenC)
  ELSE IF code = "unable_to_use_client" THEN Learn(knows, token)
  ELSE Learn("out", TokenA)

\* What an answer tells.  The new token comes with the answer to POST and PUT.
\* A 405 or 401 is an error of the call, and so is status code 3001, which has
\* no data; only the former say anything about the registration.
Conclude(method, code) ==
  IF code = "success"
    THEN IF method = "DELETE" THEN Learn("out", TokenA)
         ELSE IF method = "GET" THEN Learn(knows, token)
         ELSE Learn("in", TokenC)
  ELSE IF code = "unable_to_use_client" THEN Learn(knows, token)
  ELSE IF method = "POST" THEN Learn("locked", token)
  ELSE Learn("out", TokenA)

Answered ==
  /\ call # Nothing /\ at[call.id] = "done"
  /\ Conclude(call.method, resp[call.id])
  /\ filed' = IF resp[call.id] = "success" /\ call.body # Nothing THEN call.body ELSE filed
  /\ call' = Nothing
  /\ UNCHANGED <<server, sent, history, losses, restarts>>

\* The call has no answer.  If it was to change something, the party does not
\* know whether it did; if it had asked, it has not learned.
Doubt ==
  /\ knows' = IF call.method = "GET" THEN knows ELSE call.method
  /\ surprised' = (surprised \/ (call.method = "GET" /\ resp[call.id] = "unauthorized"))
  /\ lostPost' = (lostPost \/ call.method = "POST")
  /\ call' = Nothing
  /\ UNCHANGED <<server, token, filed, sent, restarts>>

\* The call fails for the client: the connection breaks, or the party stops
\* waiting.
Fail ==
  /\ call # Nothing
  /\ losses < MaxLosses /\ losses' = losses + 1
  /\ Doubt

\* The server has gone down with the call.
Broken ==
  /\ call # Nothing /\ at[call.id] = "gone"
  /\ Doubt /\ UNCHANGED losses

-----------------------------------------------------------------------------
(***************************************************************************)
(* The server.  surprised records that the registration has changed, since *)
(* the server last decided on a call the party waits for, by anything but  *)
(* such a call.                                                            *)
(***************************************************************************)
Decides(r) ==
  /\ Waiting(r)
  /\ at[r] # "burn"
  /\ at'[r] = "burn" \/ resp'[r] \in {"success", "not_allowed", "unauthorized"}
  /\ call.method # "GET" \/ resp'[r] = "unauthorized"

Observe(r) ==
  surprised' = (~Decides(r) /\ (surprised \/ registered'[TokenC] # registered[TokenC]))

Deliver(r) ==
  /\ sent[r] # Nothing
  /\ LET c == sent[r] IN
       \/ c.method = "POST" /\ PostCheck(r, c.bearer, c.body)
       \/ c.method = "PUT" /\ PutCheck(r, c.bearer, c.body)
       \/ c.method = "DELETE" /\ Delete(r, c.bearer)
       \/ c.method = "GET" /\ Get(r, c.bearer)
  /\ sent' = [sent EXCEPT ![r] = Nothing]
  /\ Observe(r)
  /\ UNCHANGED <<party, lostPost, losses, restarts>>

\* The fetch-back asks the party, which answers.
Proceed(r) ==
  /\ FetchVersions(r) \/ FetchDetails(r) \/ Handler(r)
  /\ Observe(r)
  /\ UNCHANGED <<party, sent, lostPost, losses, restarts>>

FetchBackFails(r) ==
  /\ losses < MaxLosses /\ losses' = losses + 1
  /\ FetchFails(r)
  /\ UNCHANGED <<party, sent, history, restarts>>

\* The connection of a call that has failed is closed.
Drop(r) ==
  /\ ~Waiting(r) /\ Disconnect(r)
  /\ UNCHANGED <<party, sent, history, losses, restarts>>

\* The registry is empty again, and the handlers are gone.
Restart ==
  /\ restarts < MaxRestarts /\ restarts' = restarts + 1
  /\ registered' = [t \in Token |-> Absent]
  /\ at' = [r \in Request |-> IF at[r] \in {"versions", "details", "write", "burn"}
                                THEN "gone" ELSE at[r]]
  /\ wrote' = {r \in wrote : at'[r] # "gone"}
  /\ surprised' = (surprised \/ registered[TokenC] # Absent)
  /\ UNCHANGED <<cfg, req, got, resp, party, sent, lostPost, losses>>

\* The operator gives out the bootstrap token.
Issue ==
  /\ registered[TokenA] = Absent
  /\ \E c \in Body : HostRegister(TokenA, c)
  /\ UNCHANGED <<party, sent, history, losses, restarts>>

\* A party that cannot use its registration has the operator remove it.
OperatorRelease ==
  /\ knows = "locked" /\ call = Nothing
  /\ HostInvalidate(TokenC)
  /\ Learn("out", TokenA)
  /\ surprised' = FALSE
  /\ UNCHANGED <<call, filed, sent, lostPost, losses, restarts>>

-----------------------------------------------------------------------------
Server == \E r \in Request : Deliver(r) \/ Proceed(r) \/ FetchBackFails(r) \/ Drop(r)

HNext ==
  \/ register \/ update_credentials \/ delete_credentials \/ get_credentials
  \/ Answered \/ Fail \/ Broken
  \/ Server \/ Restart
  \/ Issue \/ OperatorRelease

HSpec == HInit /\ [][HNext]_hvars

\* A call the party waits for arrives, its handler runs and its fetch-back is
\* answered, unless the call fails.  The party registers, repeats what was
\* lost, and asks now and then; the operator does what he is asked.  Nothing is
\* assumed of a call that has failed.
HFairSpec ==
  /\ HSpec
  /\ WF_hvars(Answered) /\ WF_hvars(Broken)
  /\ \A r \in Request : WF_hvars(Waiting(r) /\ (Deliver(r) \/ Proceed(r)))
  /\ WF_hvars(register)
  /\ WF_hvars(update_credentials /\ knows = "PUT")
  /\ WF_hvars(delete_credentials /\ knows = "DELETE")
  /\ SF_hvars(get_credentials)
  /\ WF_hvars(OperatorRelease)

-----------------------------------------------------------------------------
(***************************************************************************)
(* Properties.                                                             *)
(***************************************************************************)
HTypeOK ==
  /\ TypeOK
  /\ sent \in [Request -> Call \cup {Nothing}]
  /\ call \in [id : Request, method : Method, body : Body \cup {Nothing}] \cup {Nothing}
  /\ token \in {TokenA, TokenC}
  /\ knows \in Knowledge
  /\ filed \in Body \cup {Nothing}
  /\ surprised \in BOOLEAN /\ lostPost \in BOOLEAN
  /\ losses \in 0..MaxLosses /\ restarts \in 0..MaxRestarts

\* Party and server agree, unless a call that had failed, a restart or the
\* operator has changed the registration since: a party that counts itself in
\* is registered with what it filed last and has Token C, one that counts itself out
\* is not, and one that is refused its POST is registered (credentials_post,
\* credentials_put, credentials_delete, and what register, update_credentials
\* and delete_credentials return of their answers).
Agreement ==
  (call = Nothing /\ ~surprised) =>
    /\ knows = "in" => /\ token = TokenC /\ registered[TokenC] # Absent
                       /\ registered[TokenC].credentials = filed
    /\ knows = "out" => registered[TokenC] = Absent
    /\ knows = "locked" => registered[TokenC] # Absent

\* Only a lost answer to a POST locks a party out.  Losing the answer to a PUT
\* or a DELETE does no harm, since the same Token C stays good and the call can
\* be repeated, and neither does a restart (credentials_post refuses exactly
\* while an entry under Token C is left; only a POST makes one).
LockedOnlyByLostPost == knows = "locked" => lostPost

\* A registration that is lost, by a restart or otherwise, does not stay
\* unnoticed.
LossIsNoticed ==
  (knows = "in" /\ registered[TokenC] = Absent)
     ~> (knows # "in" \/ registered[TokenC] # Absent)

\* However calls and answers are lost and the server restarts, the party is
\* registered again and again: no state of doubt lasts.
Recovers == []<>(knows = "in")
=============================================================================
