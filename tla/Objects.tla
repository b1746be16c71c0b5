------------------------------ MODULE Objects ------------------------------
(***************************************************************************)
(* What the handlers of the in-memory stores do to one object.  Fourteen   *)
(* stores repeat the same few methods over another object type of another  *)
(* release; each is a map behind a lock, and each method one critical      *)
(* section on one entry of it.                                             *)
(*                                                                         *)
(* An object has one field of each sort that a merge-patch tells apart:    *)
(* a required scalar, a list, and an optional nested object (a session's   *)
(* total_cost) with a required and an optional member.  Null is an         *)
(* optional field that is not there.                                       *)
(***************************************************************************)
EXTENDS Naturals

CONSTANTS
  Status,         \* values of the scalar
  Valid,          \* those of a token that may be used
  Period,         \* elements of the list
  Amount,         \* values of the members of the nested object
  MaxTime,        \* bound: last_updated is 0..MaxTime
  Null,           \* JSON null; an optional field that is not there
  Unset,          \* a field that a patch does not have
  Absent          \* no object

Time == 0..MaxTime

Price == [excl_vat : Amount, incl_vat : Amount \cup {Null}]

Object == [last_updated : Time, status : Status, periods : SUBSET Period,
           total_cost : Price \cup {Null}]

\* A patch may leave out or null any field, at both levels.
PricePatch == [excl_vat : Amount \cup {Null, Unset}, incl_vat : Amount \cup {Null, Unset}]

Patch == [last_updated : Time \cup {Unset}, status : Status \cup {Null, Unset},
          periods : {Unset} \cup SUBSET Period, total_cost : PricePatch \cup {Null, Unset}]

ASSUME ObjectsAssumption ==
  /\ MaxTime \in Nat
  /\ Valid \subseteq Status
  /\ Null # Unset
  /\ \A nothing \in {Null, Unset} :
       nothing \notin Status /\ nothing \notin Amount /\ nothing \notin PricePatch
  /\ Unset \notin Time /\ \A periods \in SUBSET Period : Unset # periods
  /\ Absent \notin Object

-----------------------------------------------------------------------------
\* A scalar or a list: the patch's value replaces it, null removes it.
MergeValue(base, patch) == IF patch = Unset THEN base ELSE patch

MergeMembers(base, patch) ==
  [excl_vat |-> MergeValue(base.excl_vat, patch.excl_vat),
   incl_vat |-> MergeValue(base.incl_vat, patch.incl_vat)]

\* json_merge on a nested object.  A member is merged into what is there; where
\* nothing is, the entry is created as null, and merging an object into null
\* changes nothing.
MergePrice(base, patch) ==
  IF patch = Unset THEN base
  ELSE IF patch = Null \/ base = Null THEN Null
  ELSE MergeMembers(base, patch)

\* Mutant: a field that the patch leaves out is cleared.
json_merge_replacing(base, patch) ==
  [last_updated |-> MergeValue(base.last_updated, patch.last_updated),
   status       |-> MergeValue(base.status, patch.status),
   periods      |-> MergeValue(base.periods, patch.periods),
   total_cost   |-> IF patch.total_cost = Unset THEN Null
                    ELSE MergePrice(base.total_cost, patch.total_cost)]

json_merge(base, patch) ==
  [last_updated |-> MergeValue(base.last_updated, patch.last_updated),
   status       |-> MergeValue(base.status, patch.status),
   periods      |-> MergeValue(base.periods, patch.periods),
   total_cost   |-> MergePrice(base.total_cost, patch.total_cost)]

\* RFC 7396: what is not an object is merged into as if it were an empty one.
NoMembers == [excl_vat |-> Null, incl_vat |-> Null]

rfc7396_member(base, patch) ==
  IF patch \in {Unset, Null} THEN MergeValue(base, patch)
  ELSE MergeMembers(IF base = Null THEN NoMembers ELSE base, patch)

rfc7396_merge(base, patch) ==
  [last_updated |-> MergeValue(base.last_updated, patch.last_updated),
   status       |-> MergeValue(base.status, patch.status),
   periods      |-> MergeValue(base.periods, patch.periods),
   total_cost   |-> rfc7396_member(base.total_cost, patch.total_cost)]

\* Mutant: a required field may be null.
from_value_lenient(json) ==
  IF json.total_cost # Null => json.total_cost.excl_vat # Null THEN {json} ELSE {}

\* What deserializes: the required fields are there.
from_value(json) ==
  IF /\ json.status # Null
     /\ json.total_cost # Null => json.total_cost.excl_vat # Null
    THEN {json} ELSE {}

-----------------------------------------------------------------------------
(***************************************************************************)
(* The methods.  Each returns the entry it leaves and the status it        *)
(* answers.                                                                *)
(***************************************************************************)
Ok == "ok"
NotFound == "not found"
ServerError == "server error"

Result(code, entry, data) == [code |-> code, entry |-> entry, data |-> data]

\* Mutant: what is there already stays.
put_if_absent(entry, object) ==
  Result(Ok, IF entry = Absent THEN object ELSE entry, Absent)

\* Insert or replace.
put(entry, object) == Result(Ok, object, Absent)

\* The same, for objects stored under their own id: CDRs, terminals and
\* financial advice confirmations.
store(entry, object) == Result(Ok, object, Absent)

get(entry) == IF entry = Absent THEN Result(NotFound, entry, Absent) ELSE Result(Ok, entry, entry)

patch_json(entry, patch) ==
  IF entry = Absent THEN Result(NotFound, entry, Absent)
  ELSE LET updated == from_value(json_merge(entry, patch)) IN
       IF updated = {} THEN Result(ServerError, entry, Absent)
       ELSE Result(Ok, CHOOSE o \in updated : TRUE, Absent)

delete(entry) ==
  IF entry = Absent THEN Result(NotFound, entry, Absent) ELSE Result(Ok, Absent, Absent)

-----------------------------------------------------------------------------
(***************************************************************************)
(* Two questions that are answered from a store without naming the owner   *)
(* of the object: whether a token may be used, and whether a session can   *)
(* take a driver's preferences.  All entries with the id are considered,   *)
(* whichever party's they are.                                             *)
(***************************************************************************)

\* authorize takes the first token with the uid and the type that the map's
\* iteration comes to; with several, any of them.  statuses are theirs.
authorize(statuses) ==
  IF statuses = {} THEN {NotFound}
  ELSE {IF s \in Valid THEN "ALLOWED" ELSE "BLOCKED" : s \in statuses}

Preferences == [profile_type : {"REGULAR", "CHEAP", "FAST", "GREEN"},
                departure_time : BOOLEAN, energy_need : BOOLEAN]

\* Mutant: the energy is not asked for, but the departure once more.
set_charging_preferences_twice(exists, p) ==
  IF ~exists THEN NotFound
  ELSE IF p.profile_type = "REGULAR" THEN "ACCEPTED"
  ELSE IF ~p.departure_time \/ ~p.energy_need THEN "DEPARTURE_REQUIRED"
  ELSE "ACCEPTED"

\* What a plan for the session would need, and is not there.
set_charging_preferences(exists, p) ==
  IF ~exists THEN NotFound
  ELSE IF p.profile_type = "REGULAR" THEN "ACCEPTED"
  ELSE IF ~p.departure_time THEN "DEPARTURE_REQUIRED"
  ELSE IF p.profile_type \in {"CHEAP", "GREEN"} /\ ~p.energy_need THEN "ENERGY_NEED_REQUIRED"
  ELSE "ACCEPTED"

-----------------------------------------------------------------------------
(***************************************************************************)
(* The methods a store has, each the operator of that name above (list is  *)
(* in module Crawl), and the function of its trait that calls each; the    *)
(* method that a router has each request handled by; and the request that  *)
(* each function of the client crate sends.  The functions for lists are   *)
(* in Crawl.  A token has no getter: a list of tokens can be read, a       *)
(* single one cannot.                                                      *)
(***************************************************************************)
SessionsConfig      == {"put", "get", "patch_json", "list", "set_charging_preferences"}
Sessions2111Config  == {"put", "get", "patch_json", "list"}
Sessions230Config   == {"put", "get", "patch_json", "list"}
TokensConfig        == {"put", "get", "patch_json", "list", "authorize"}
Tokens2111Config    == {"put", "get", "patch_json", "list", "authorize"}
TariffsConfig       == {"put", "get", "delete", "list"}
Tariffs2111Config   == {"put", "get", "delete", "list"}
Tariffs230Config    == {"put", "get", "delete", "list"}
CdrsConfig          == {"store", "get", "list"}
Cdrs2111Config      == {"store", "get", "list"}
Cdrs22Config        == {"store", "get", "list"}
Cdrs230Config       == {"store", "get", "list"}
HubClientInfoConfig == {"put", "get", "list"}
\* The same two methods for terminals and for financial advice confirmations.
Payments230Config   == {"store", "get"}

\* The functions by which a host with routes of its own comes to the methods.
SessionsHandler      == [get_sessions |-> "list", get_session |-> "get", put_session |-> "put",
                         patch_session |-> "patch_json",
                         set_charging_preferences |-> "set_charging_preferences"]
Sessions2111Handler  == [get_sessions |-> "list", get_session |-> "get", put_session |-> "put",
                         patch_session |-> "patch_json"]
Sessions230Handler   == [get_sessions |-> "list", get_session |-> "get", put_session |-> "put",
                         patch_session |-> "patch_json"]
TokensHandler        == [get_tokens |-> "list", get_token |-> "get", put_token |-> "put",
                         patch_token |-> "patch_json", authorize |-> "authorize"]
Tokens2111Handler    == [get_tokens |-> "list", get_token |-> "get", put_token |-> "put",
                         patch_token |-> "patch_json", authorize |-> "authorize"]
TariffsHandler       == [get_tariffs |-> "list", get_tariff |-> "get", put_tariff |-> "put",
                         delete_tariff |-> "delete"]
Tariffs2111Handler   == [get_tariffs |-> "list", get_tariff |-> "get", put_tariff |-> "put",
                         delete_tariff |-> "delete"]
Tariffs230Handler    == [get_tariffs |-> "list", get_tariff |-> "get", put_tariff |-> "put",
                         delete_tariff |-> "delete"]
CdrsHandler          == [get_cdrs |-> "list", get_cdr |-> "get", post_cdr |-> "store"]
Cdrs2111Handler      == [get_cdrs |-> "list", get_cdr |-> "get", post_cdr |-> "store"]
Cdrs22Handler        == [get_cdrs |-> "list", get_cdr |-> "get", post_cdr |-> "store"]
Cdrs230Handler       == [get_cdrs |-> "list", get_cdr |-> "get", post_cdr |-> "store"]
HubClientInfoHandler == [get_client_info |-> "get", put_client_info |-> "put"]
Payments230Handler   == [get_terminal |-> "get", post_terminal |-> "store",
                         get_financial_advice_confirmation |-> "get",
                         post_financial_advice_confirmation |-> "store"]

sessions_router        == [list |-> "list", GET |-> "get", PUT |-> "put", PATCH |-> "patch_json",
                           preferences |-> "set_charging_preferences"]
sessions_2_1_1_router  == [list |-> "list", GET |-> "get", PUT |-> "put", PATCH |-> "patch_json"]
sessions_2_3_0_router  == [list |-> "list", GET |-> "get", PUT |-> "put", PATCH |-> "patch_json"]
tokens_router          == [list |-> "list", GET |-> "get", PUT |-> "put", PATCH |-> "patch_json",
                           authorize |-> "authorize"]
tokens_2_1_1_router    == [list |-> "list", GET |-> "get", PUT |-> "put", PATCH |-> "patch_json",
                           authorize |-> "authorize"]
tariffs_router         == [list |-> "list", GET |-> "get", PUT |-> "put", DELETE |-> "delete"]
tariffs_2_1_1_router   == [list |-> "list", GET |-> "get", PUT |-> "put", DELETE |-> "delete"]
tariffs_2_3_0_router   == [list |-> "list", GET |-> "get", PUT |-> "put", DELETE |-> "delete"]
cdrs_router            == [list |-> "list", GET |-> "get", POST |-> "store"]
cdrs_2_1_1_router      == [list |-> "list", GET |-> "get", POST |-> "store"]
cdrs_2_2_router        == [list |-> "list", GET |-> "get", POST |-> "store"]
cdrs_2_3_0_router      == [list |-> "list", GET |-> "get", POST |-> "store"]
hub_client_info_router == [list |-> "list", GET |-> "get", PUT |-> "put"]
payments_2_3_0_router  == [GET |-> "get", POST |-> "store"]

sessions_client        == [get_session |-> "GET", put_session |-> "PUT", patch_session |-> "PATCH",
                           set_charging_preferences |-> "preferences"]
sessions_2_1_1_client  == [get_session |-> "GET", put_session |-> "PUT", patch_session |-> "PATCH"]
sessions_2_3_0_client  == [get_session |-> "GET", put_session |-> "PUT", patch_session |-> "PATCH"]
tokens_client          == [put_token |-> "PUT", patch_token |-> "PATCH",
                           authorize_token |-> "authorize"]
tokens_2_1_1_client    == [put_token |-> "PUT", patch_token |-> "PATCH",
                           authorize_token |-> "authorize"]
tariffs_client         == [get_tariff |-> "GET", put_tariff |-> "PUT", delete_tariff |-> "DELETE"]
tariffs_2_1_1_client   == [get_tariff |-> "GET", put_tariff |-> "PUT", delete_tariff |-> "DELETE"]
tariffs_2_3_0_client   == [get_tariff |-> "GET", put_tariff |-> "PUT", delete_tariff |-> "DELETE"]
cdrs_client            == [get_cdr |-> "GET", post_cdr |-> "POST"]
cdrs_2_1_1_client      == [get_cdr |-> "GET", post_cdr |-> "POST"]
cdrs_2_2_client        == [get_cdr |-> "GET", post_cdr |-> "POST"]
cdrs_2_3_0_client      == [get_cdr |-> "GET", post_cdr |-> "POST"]
hub_client_info_client == [get_client_info |-> "GET", put_client_info |-> "PUT"]

\* A payment provider calls with a client of its own: the crate has none for
\* these routes.
payment_provider       == [get |-> "GET", post |-> "POST"]

\* What an owner can ask of a store through its client and the router.
Profile(methods, router, client) ==
  {m \in DOMAIN router : router[m] \in methods /\ \E f \in DOMAIN client : client[f] = m}

\* The routes are served by the crate's handlers, which call the store, or by
\* a host's, which come to it through the functions of its trait.
Offered(config, handler, router, client) ==
  {Profile(methods, router, client) :
     methods \in {config, config \cap {handler[f] : f \in DOMAIN handler}}}

Profiles ==
  UNION {
    Offered(SessionsConfig, SessionsHandler, sessions_router, sessions_client),
    Offered(Sessions2111Config, Sessions2111Handler, sessions_2_1_1_router, sessions_2_1_1_client),
    Offered(Sessions230Config, Sessions230Handler, sessions_2_3_0_router, sessions_2_3_0_client),
    Offered(TokensConfig, TokensHandler, tokens_router, tokens_client),
    Offered(Tokens2111Config, Tokens2111Handler, tokens_2_1_1_router, tokens_2_1_1_client),
    Offered(TariffsConfig, TariffsHandler, tariffs_router, tariffs_client),
    Offered(Tariffs2111Config, Tariffs2111Handler, tariffs_2_1_1_router, tariffs_2_1_1_client),
    Offered(Tariffs230Config, Tariffs230Handler, tariffs_2_3_0_router, tariffs_2_3_0_client),
    Offered(CdrsConfig, CdrsHandler, cdrs_router, cdrs_client),
    Offered(Cdrs2111Config, Cdrs2111Handler, cdrs_2_1_1_router, cdrs_2_1_1_client),
    Offered(Cdrs22Config, Cdrs22Handler, cdrs_2_2_router, cdrs_2_2_client),
    Offered(Cdrs230Config, Cdrs230Handler, cdrs_2_3_0_router, cdrs_2_3_0_client),
    Offered(HubClientInfoConfig, HubClientInfoHandler, hub_client_info_router, hub_client_info_client),
    Offered(Payments230Config, Payments230Handler, payments_2_3_0_router, payment_provider)}
=============================================================================
