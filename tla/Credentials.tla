---------------------------- MODULE Credentials ----------------------------
(***************************************************************************)
(* The credentials store of one release of the protocol and the HTTP       *)
(* handlers over it: POST registers a party, PUT replaces its credentials, *)
(* DELETE unregisters it and GET returns the server's own credentials.     *)
(*                                                                         *)
(* The store is a map behind a read-write lock.  A handler takes the lock  *)
(* several times: to check the registry, after the fetch-back to write,    *)
(* and (POST) once more to burn the bootstrap token.  Between the check    *)
(* and the write it awaits two HTTP calls to the registering party.  Each  *)
(* action below is one stretch of a handler between two of these points.   *)
(*                                                                         *)
(* The three releases (2.1.1, 2.2.1 and 2.3.0) repeat the same store and   *)
(* the same handlers over another credentials type; they differ in the     *)
(* versions that the plain constructor supports.                           *)
(***************************************************************************)
EXTENDS Negotiation

CONSTANTS
  Request,        \* HTTP requests in flight, each handled by its own task
  Token,          \* the tokens that occur
  TokenC,         \* own_credentials.token, the token this server issues
  NoToken,        \* a request without a usable Authorization header
  Body,           \* the credentials objects parties present
  Url,            \* URLs of version details documents
  Offer,          \* the lists a party's GET /versions may answer
  Config,         \* the stores the host may construct
  NoEndpoints,    \* RegisteredParty::endpoints = None
  Absent,         \* no entry in the registry
  Nothing         \* a request that has fetched nothing

ASSUME CredentialsAssumption ==
  /\ TokenC \in Token
  /\ NoToken \notin Token
  /\ Offer \subseteq Seq(Entry(Url))
  /\ Config \subseteq [release : {V2_1_1, V2_2_1, V2_3_0},
                       fetcher : BOOLEAN, supported : SUBSET VersionNumber]
  /\ NoEndpoints \notin [of : Body, at : Entry(Url)]
  /\ Absent \notin [credentials : Body,
                    endpoints : [of : Body, at : Entry(Url)] \cup {NoEndpoints}]

VARIABLES
  cfg,            \* the store's configuration; fixed at construction
  registered,     \* the registry: token -> entry
  req,            \* request -> method, bearer and body
  at,             \* request -> where its handler is
  got,            \* request -> what its fetch-back has obtained so far
  resp,           \* request -> the response, once there is one
  wrote           \* history: the requests that changed the registry

vars == <<cfg, registered, req, at, got, resp, wrote>>

-----------------------------------------------------------------------------
\* A catalogue is identified by the party it was read from and the entry of
\* that party's /versions list it was read through.
Endpoints == [of : Body, at : Entry(Url)] \cup {NoEndpoints}

RegisteredParty == [credentials : Body, endpoints : Endpoints]

Method == {"GET", "POST", "PUT", "DELETE"}

\* "versions" and "details" are the two awaits of the fetch-back, "write" and
\* "burn" the critical sections after it.  A handler whose connection closes
\* while it is suspended is dropped: "gone".
Control == {"idle", "versions", "details", "write", "burn", "done", "gone"}

\* 200 with data; 401; 405; and 200 with status code 3001 and no data.
Response == {"none", "success", "unauthorized", "not_allowed", "unable_to_use_client"}

\* The three releases, each with its own credentials type, store and router.
Release == {V2_1_1, V2_2_1, V2_3_0}

\* The plain constructor of each release: no fetcher, one supported version.
New2111 == [release |-> V2_1_1, fetcher |-> FALSE, supported |-> {V2_1_1}]
New221  == [release |-> V2_2_1, fetcher |-> FALSE, supported |-> {V2_2_1}]
New230  == [release |-> V2_3_0, fetcher |-> FALSE, supported |-> {V2_3_0}]

NewWithFetcher(release, supported) ==
  [release |-> release, fetcher |-> TRUE, supported |-> supported]

\* The operations of the store of each release.
Credentials2111Config == {"is_registered", "register", "register_with_endpoints", "update",
  "update_with_endpoints", "get_endpoints", "fetch_back", "invalidate", "delete"}
CredentialsConfig     == {"is_registered", "register", "register_with_endpoints", "update",
  "update_with_endpoints", "get_endpoints", "fetch_back", "invalidate", "delete"}
Credentials230Config  == {"is_registered", "register", "register_with_endpoints", "update",
  "update_with_endpoints", "get_endpoints", "fetch_back", "invalidate", "delete"}

\* The methods each router has a handler for, and what that handler calls on
\* its store, in this order.
credentials_2_1_1_router ==
  [GET    |-> <<"is_registered">>,
   POST   |-> <<"is_registered", "fetch_back", "register_with_endpoints", "invalidate">>,
   PUT    |-> <<"is_registered", "fetch_back", "update_with_endpoints">>,
   DELETE |-> <<"delete">>]
credentials_router ==
  [GET    |-> <<"is_registered">>,
   POST   |-> <<"is_registered", "fetch_back", "register_with_endpoints", "invalidate">>,
   PUT    |-> <<"is_registered", "fetch_back", "update_with_endpoints">>,
   DELETE |-> <<"delete">>]
credentials_2_3_0_router ==
  [GET    |-> <<"is_registered">>,
   POST   |-> <<"is_registered", "fetch_back", "register_with_endpoints", "invalidate">>,
   PUT    |-> <<"is_registered", "fetch_back", "update_with_endpoints">>,
   DELETE |-> <<"delete">>]

\* The actions below are those of 2.2.1; a release takes them where its handler
\* makes the same calls.
Served(config, router) ==
  {m \in DOMAIN router : /\ router[m] = credentials_router[m]
                         /\ \A i \in DOMAIN router[m] : router[m][i] \in config}

Routes2111 == Served(Credentials2111Config, credentials_2_1_1_router)
Routes221  == Served(CredentialsConfig, credentials_router)
Routes230  == Served(Credentials230Config, credentials_2_3_0_router)

Routes(release) ==
  CASE release = V2_1_1 -> Routes2111
    [] release = V2_2_1 -> Routes221
    [] release = V2_3_0 -> Routes230

is_registered(t) == t \in Token /\ registered[t] # Absent

Party(c, e) == [credentials |-> c, endpoints |-> e]

Init ==
  /\ cfg \in Config
  /\ registered = [t \in Token |-> Absent]
  /\ req = [r \in Request |-> Nothing]
  /\ at = [r \in Request |-> "idle"]
  /\ got = [r \in Request |-> Nothing]
  /\ resp = [r \in Request |-> "none"]
  /\ wrote = {}

Answer(r, code) ==
  /\ at' = [at EXCEPT ![r] = "done"]
  /\ resp' = [resp EXCEPT ![r] = code]

Goto(r, place) ==
  /\ at' = [at EXCEPT ![r] = place]
  /\ UNCHANGED resp

-----------------------------------------------------------------------------
(***************************************************************************)
(* The first stretch of each handler: take the token from the header,      *)
(* check the registry.                                                     *)
(***************************************************************************)

\* With a fetcher the handler goes on to await the party's /versions; without
\* one fetch_back returns Ok(None) at once.
StartFetchBack(r) ==
  IF cfg.fetcher
    THEN Goto(r, "versions") /\ UNCHANGED got
    ELSE Goto(r, "write") /\ got' = [got EXCEPT ![r] = NoEndpoints]

Receive(r, method, bearer, body) ==
  /\ at[r] = "idle"
  /\ method \in Routes(cfg.release)
  /\ req' = [req EXCEPT ![r] = [method |-> method, bearer |-> bearer, body |-> body]]

\* POST asks whether Token C, not the bearer, is registered.
PostCheck(r, bearer, body) ==
  /\ Receive(r, "POST", bearer, body)
  /\ IF bearer = NoToken THEN Answer(r, "unauthorized") /\ UNCHANGED got
     ELSE IF is_registered(TokenC) THEN Answer(r, "not_allowed") /\ UNCHANGED got
     ELSE StartFetchBack(r)
  /\ UNCHANGED <<cfg, registered, wrote>>

PutCheck(r, bearer, body) ==
  /\ Receive(r, "PUT", bearer, body)
  /\ IF bearer = NoToken THEN Answer(r, "unauthorized") /\ UNCHANGED got
     ELSE IF ~is_registered(bearer) THEN Answer(r, "not_allowed") /\ UNCHANGED got
     ELSE StartFetchBack(r)
  /\ UNCHANGED <<cfg, registered, wrote>>

\* Mutant: the bearer is not asked about.
GetAnyone(r, bearer) ==
  /\ Receive(r, "GET", bearer, Nothing)
  /\ Answer(r, "success")
  /\ UNCHANGED <<cfg, registered, got, wrote>>

Get(r, bearer) ==
  /\ Receive(r, "GET", bearer, Nothing)
  /\ Answer(r, IF is_registered(bearer) THEN "success" ELSE "unauthorized")
  /\ UNCHANGED <<cfg, registered, got, wrote>>

\* Mutant: the entry is left.
DeleteNothing(r, bearer) ==
  /\ Receive(r, "DELETE", bearer, Nothing)
  /\ Answer(r, IF is_registered(bearer) THEN "success" ELSE "not_allowed")
  /\ UNCHANGED <<cfg, registered, got, wrote>>

\* The check and the removal share one critical section.
Delete(r, bearer) ==
  /\ Receive(r, "DELETE", bearer, Nothing)
  /\ IF bearer = NoToken
       THEN Answer(r, "unauthorized") /\ UNCHANGED <<registered, wrote>>
     ELSE IF is_registered(bearer)
       THEN /\ Answer(r, "success")
            /\ registered' = [registered EXCEPT ![bearer] = Absent]
            /\ wrote' = wrote \cup {r}
       ELSE Answer(r, "not_allowed") /\ UNCHANGED <<registered, wrote>>
  /\ UNCHANGED <<cfg, got>>

-----------------------------------------------------------------------------
(***************************************************************************)
(* The fetch-back.  The party may answer any list, or not at all.          *)
(***************************************************************************)

FetchVersions(r) ==
  /\ at[r] = "versions"
  /\ \E remote \in Offer :
       LET chosen == select_best_version(remote, cfg.supported) IN
       IF chosen = {}
         THEN Answer(r, "unable_to_use_client") /\ UNCHANGED got
         ELSE /\ Goto(r, "details")
              /\ \E v \in chosen : got' = [got EXCEPT ![r] = v]
  /\ UNCHANGED <<cfg, registered, req, wrote>>

\* Mutant: the catalogue that was read is dropped.
FetchDetailsDropped(r) ==
  /\ at[r] = "details"
  /\ Goto(r, "write")
  /\ UNCHANGED <<cfg, registered, req, got, wrote>>

FetchDetails(r) ==
  /\ at[r] = "details"
  /\ Goto(r, "write")
  /\ got' = [got EXCEPT ![r] = [of |-> req[r].body, at |-> got[r]]]
  /\ UNCHANGED <<cfg, registered, req, wrote>>

\* Mutant: an error of the fetch-back counts as a skipped fetch-back.
FetchErrorIgnored(r) ==
  /\ at[r] \in {"versions", "details"}
  /\ Goto(r, "write")
  /\ got' = [got EXCEPT ![r] = NoEndpoints]
  /\ UNCHANGED <<cfg, registered, req, wrote>>

\* A connection error, a non-2xx status, a body that does not parse or an
\* envelope without data, at either call.
FetchFails(r) ==
  /\ at[r] \in {"versions", "details"}
  /\ Answer(r, "unable_to_use_client")
  /\ UNCHANGED <<cfg, registered, req, got, wrote>>

\* The HTTP server drops the handler's future when the caller's connection
\* closes; it can only do so at an await.
Disconnect(r) ==
  /\ at[r] \in {"versions", "details"}
  /\ Goto(r, "gone")
  /\ UNCHANGED <<cfg, registered, req, got, wrote>>

-----------------------------------------------------------------------------
(***************************************************************************)
(* The critical sections after the fetch-back.                             *)
(***************************************************************************)

register_with_endpoints(t, c, e) ==
  registered' = [registered EXCEPT ![t] = IF @ = Absent THEN Party(c, e) ELSE @]

\* Mutant: the update replaces the credentials and keeps the catalogue.
update_keeping_endpoints(t, c, e) ==
  registered' = [registered EXCEPT ![t] = IF @ = Absent THEN @ ELSE Party(c, @.endpoints)]

\* Mutant: an insert that does not ask whether there is an entry.
update_or_insert(t, c, e) == registered' = [registered EXCEPT ![t] = Party(c, e)]

update_with_endpoints(t, c, e) ==
  registered' = [registered EXCEPT ![t] = IF @ = Absent THEN @ ELSE Party(c, e)]

invalidate(t) == registered' = [registered EXCEPT ![t] = Absent]

\* Mutant: the entry is made under the caller's bearer.
PostRegisterBearer(r) ==
  /\ at[r] = "write" /\ req[r].method = "POST"
  /\ register_with_endpoints(req[r].bearer, req[r].body, got[r])
  /\ IF is_registered(req[r].bearer)
       THEN Answer(r, "not_allowed") /\ UNCHANGED wrote
       ELSE Goto(r, "burn") /\ wrote' = wrote \cup {r}
  /\ UNCHANGED <<cfg, req, got>>

\* A registration made since the check turns this one into a 405.
PostRegister(r) ==
  /\ at[r] = "write" /\ req[r].method = "POST"
  /\ register_with_endpoints(TokenC, req[r].body, got[r])
  /\ IF is_registered(TokenC)
       THEN Answer(r, "not_allowed") /\ UNCHANGED wrote
       ELSE Goto(r, "burn") /\ wrote' = wrote \cup {r}
  /\ UNCHANGED <<cfg, req, got>>

\* Mutant: the bearer is burned whichever token it is.
PostBurnAlways(r) ==
  /\ at[r] = "burn"
  /\ invalidate(req[r].bearer)
  /\ Answer(r, "success")
  /\ UNCHANGED <<cfg, req, got, wrote>>

\* Mutant: the caller is answered, no token is burned.
PostBurnNothing(r) ==
  /\ at[r] = "burn"
  /\ Answer(r, "success")
  /\ UNCHANGED <<cfg, registered, req, got, wrote>>

\* Burn the bearer, unless it is Token C itself.
PostBurn(r) ==
  /\ at[r] = "burn"
  /\ IF req[r].bearer = TokenC THEN UNCHANGED registered ELSE invalidate(req[r].bearer)
  /\ Answer(r, "success")
  /\ UNCHANGED <<cfg, req, got, wrote>>

\* Mutant: the result of the update is not looked at.
PutUpdateUnchecked(r) ==
  /\ at[r] = "write" /\ req[r].method = "PUT"
  /\ update_with_endpoints(TokenC, req[r].body, got[r])
  /\ Answer(r, "success")
  /\ wrote' = IF is_registered(TokenC) THEN wrote \cup {r} ELSE wrote
  /\ UNCHANGED <<cfg, req, got>>

\* Mutant: an update of what is not registered any more gives no answer.
PutUpdateStuck(r) ==
  /\ at[r] = "write" /\ req[r].method = "PUT"
  /\ is_registered(TokenC)
  /\ update_with_endpoints(TokenC, req[r].body, got[r])
  /\ Answer(r, "success") /\ wrote' = wrote \cup {r}
  /\ UNCHANGED <<cfg, req, got>>

\* A registration removed since the check turns this update into a 405.
PutUpdate(r) ==
  /\ at[r] = "write" /\ req[r].method = "PUT"
  /\ update_with_endpoints(TokenC, req[r].body, got[r])
  /\ IF is_registered(TokenC)
       THEN Answer(r, "success") /\ wrote' = wrote \cup {r}
       ELSE Answer(r, "not_allowed") /\ UNCHANGED wrote
  /\ UNCHANGED <<cfg, req, got>>

-----------------------------------------------------------------------------
(***************************************************************************)
(* The host application shares the store: it issues bootstrap tokens, and  *)
(* may replace or revoke any entry.  register and update store no          *)
(* catalogue.                                                              *)
(***************************************************************************)
hostUnchanged == UNCHANGED <<cfg, req, at, got, resp, wrote>>

HostRegister(t, c) ==
  register_with_endpoints(t, c, NoEndpoints) /\ hostUnchanged

HostUpdate(t, c) ==
  update_with_endpoints(t, c, NoEndpoints) /\ hostUnchanged

HostInvalidate(t) == invalidate(t) /\ hostUnchanged

Host ==
  \E t \in Token :
    \/ \E c \in Body : HostRegister(t, c) \/ HostUpdate(t, c)
    \/ HostInvalidate(t)

-----------------------------------------------------------------------------
Arrive(r) ==
  \E bearer \in Token \cup {NoToken} :
    \/ \E body \in Body : PostCheck(r, bearer, body) \/ PutCheck(r, bearer, body)
    \/ Get(r, bearer)
    \/ Delete(r, bearer)

Handler(r) == PostRegister(r) \/ PostBurn(r) \/ PutUpdate(r)

Fetched(r) == FetchVersions(r) \/ FetchDetails(r) \/ FetchFails(r)

Next ==
  \/ \E r \in Request : Arrive(r) \/ Fetched(r) \/ Disconnect(r) \/ Handler(r)
  \/ Host

Spec == Init /\ [][Next]_vars

\* A handler that is not awaiting the party runs to its end: its task is
\* scheduled, and the lock is held only for a map operation.  Nothing is
\* assumed of callers, of the host, or of the party answering a fetch (the
\* fetcher sets no timeout).
FairSpec == Spec /\ \A r \in Request : WF_vars(Handler(r))

-----------------------------------------------------------------------------
(***************************************************************************)
(* Properties.                                                             *)
(***************************************************************************)

Call == [method : Method, bearer : Token \cup {NoToken}, body : Body \cup {Nothing}]

\* A call that has passed its first check and carries an object to store.
Pending == [method : {"POST", "PUT"}, bearer : Token, body : Body]

\* What a fetch-back may have obtained.
Fetch == Entry(Url) \cup Endpoints \cup {Nothing}

\* Every variable has its type, and the data a suspended handler carries is
\* what that point of credentials_post or credentials_put has computed.
TypeOK ==
  /\ cfg \in Config
  /\ registered \in [Token -> RegisteredParty \cup {Absent}]
  /\ req \in [Request -> Call \cup {Nothing}]
  /\ at \in [Request -> Control]
  /\ resp \in [Request -> Response]
  /\ wrote \subseteq Request
  /\ got \in [Request -> Fetch]
  /\ \A r \in Request :
       /\ at[r] = "details" => got[r] \in Entry(Url)
       /\ at[r] = "write" => got[r] \in Endpoints
       /\ at[r] # "idle" => req[r] \in Call
       /\ at[r] \in {"versions", "details", "write", "burn"} => req[r] \in Pending
       /\ at[r] = "burn" => req[r].method = "POST"

\* What negotiation picks from some list a party may serve.
Negotiated(v) == \E remote \in Offer : v \in select_best_version(remote, cfg.supported)

Matches(c, e) == e # NoEndpoints => cfg.fetcher /\ e.of = c /\ Negotiated(e.at)

\* An entry's catalogue was read from the party of the entry's credentials,
\* through a negotiated version; a PUT or a host update never leaves one
\* party's credentials beside the catalogue of another presentation
\* (register_with_endpoints, update_with_endpoints, fetch_back).
CataloguesMatch ==
  \A t \in Token : registered[t] # Absent =>
    Matches(registered[t].credentials, registered[t].endpoints)

\* A request changed the registry exactly if it was answered with success: a
\* refusal, a failed fetch-back and a dropped connection leave no trace, and
\* no success is reported for a write that a concurrent request prevented
\* (credentials_post, credentials_put, credentials_delete).
EffectIffSuccess ==
  \A r \in Request :
    /\ at[r] = "burn" => r \in wrote
    /\ at[r] \notin {"burn", "done"} => r \notin wrote
    /\ at[r] = "done" /\ req[r].method # "GET" => (r \in wrote <=> resp[r] = "success")

\* Only the host brings a bootstrap token into the registry; a handler only
\* ever writes under Token C, whatever the bearer (credentials_post,
\* credentials_put: "not the bootstrap Token A bearer").
OnlyHostIssuesTokens ==
  [][\A t \in Token \ {TokenC} :
       registered[t] = Absent /\ registered'[t] # Absent => \E c \in Body : HostRegister(t, c)]_vars

\* Burning the bootstrap token never touches a registration under Token C,
\* even when the caller's bearer was Token C (credentials_post's guard against
\* a configuration where the two tokens are equal).
BurnSparesTokenC ==
  [][\A r \in Request : at[r] = "burn" /\ at'[r] = "done" =>
       registered'[TokenC] = registered[TokenC]]_vars

\* Where a fetcher is configured no request registers or updates a party
\* without a catalogue: a failed fetch-back is never taken for a skipped one.
FetchIsNotSkipped ==
  [][cfg.fetcher /\ registered' # registered /\ registered'[TokenC] # registered[TokenC]
       => \/ registered'[TokenC] = Absent
          \/ registered'[TokenC].endpoints # NoEndpoints
          \/ Host]_vars

\* Once a POST has registered its party its bootstrap token is burned, however
\* other requests and the host interleave.
BearerIsBurned ==
  \A r \in Request :
    (at[r] = "burn" /\ req[r].bearer # TokenC)
      ~> (at[r] = "done" /\ \E t \in Token : t = req[r].bearer /\ registered[t] = Absent)

\* A handler that got past its fetch-back is answered.
WritersAreAnswered ==
  \A r \in Request : (at[r] \in {"write", "burn"}) ~> (at[r] = "done")

-----------------------------------------------------------------------------
(***************************************************************************)
(* The store, with its awaits and its split critical sections, implements  *)
(* one atomic registration.                                                *)
(***************************************************************************)
Stored(c) ==
  {Party(c, NoEndpoints)} \cup {Party(c, [of |-> c, at |-> v]) : v \in Entry(Url)}

StoredByHost(c) == {Party(c, NoEndpoints)}

Wrote(method) == {r \in wrote : req[r].method = method}

R == INSTANCE Registration WITH
       Caller       <- Request,
       Credentials  <- Body,
       Bootstrap    <- Token \ {TokenC},
       Registered   <- Stored,
       OperatorSet  <- StoredByHost,
       Unregistered <- Absent,
       party        <- registered[TokenC],
       issued       <- {t \in Token \ {TokenC} : registered[t] # Absent},
       joined       <- Wrote("POST"),
       rotated      <- Wrote("PUT"),
       left         <- {r \in Wrote("DELETE") : req[r].bearer = TokenC}

\* Every step of the handlers and of the host is a step of Registration or
\* changes nothing it sees.
ImplementsRegistration == R!RSpec
=============================================================================
