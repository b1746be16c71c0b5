------------------------------ MODULE Commands ------------------------------
(***************************************************************************)
(* Calls in two phases: commands, and requests about a session's charging  *)
(* profile.  The sender POSTs (GETs, PUTs, DELETEs) its request, the       *)
(* receiver answers at once whether it accepts it, and when the Charge     *)
(* Point has executed it, POSTs the result to a URL of the sender, another *)
(* HTTP call, in the other direction.                                      *)
(*                                                                         *)
(* The library has the routes of both sides and the client functions for   *)
(* both calls.  It keeps no state.  What is behind the handlers belongs to *)
(* the host: a bridge to the Charge Points at the receiver (or the         *)
(* placeholder, which supports nothing), and at the sender the record of   *)
(* its calls.  A result names the route it comes in at, and not the call:  *)
(* the routes of the callbacks are one per command type or kind of         *)
(* request, and the session id in those for profiles is not handed on.     *)
(*                                                                         *)
(* Any call may fail for its client, and yet be handled, then or later.    *)
(***************************************************************************)
EXTENDS FiniteSets, Naturals

CONSTANTS
  Id,             \* the sender's calls
  Services,       \* the services that may be talked
  MaxLosses,      \* bound: calls that fail
  Nothing         \* not yet

ASSUME CommandsAssumption ==
  /\ MaxLosses \in Nat
  /\ Nothing \notin Id \cup {"ACCEPTED", "NOT_SUPPORTED", "error"}

VARIABLES
  service,        \* the module and release sender and receiver talk
  placeholder,    \* whether the receiver has the placeholder or a bridge
  kind,           \* call -> what it asks for
  verdict,        \* call -> what the sender knows of it
  requests,       \* the calls on their way to the receiver
  reply,          \* call -> the receiver's answer
  point,          \* call -> how far the Charge Point is with it
  results,        \* results on their way to the sender
  credited,       \* history: call -> the call whose result it was given
  losses

vars == <<service, placeholder, kind, verdict, requests, reply, point, results, credited, losses>>

-----------------------------------------------------------------------------
(***************************************************************************)
(* Each service: the function that a router hands a request to, the        *)
(* functions there are, the request that each function of the client       *)
(* sends, and the functions and the routes for the results.  Release 2.1.1 *)
(* cannot cancel a reservation.                                            *)
(***************************************************************************)
CommandType     == {"CANCEL_RESERVATION", "RESERVE_NOW", "START_SESSION", "STOP_SESSION",
                    "UNLOCK_CONNECTOR"}
CommandType2111 == {"RESERVE_NOW", "START_SESSION", "STOP_SESSION", "UNLOCK_CONNECTOR"}

commands_router ==
  [CANCEL_RESERVATION |-> "handle_cancel_reservation", RESERVE_NOW |-> "handle_reserve_now",
   START_SESSION |-> "handle_start_session", STOP_SESSION |-> "handle_stop_session",
   UNLOCK_CONNECTOR |-> "handle_unlock_connector"]

commands_2_1_1_router ==
  [RESERVE_NOW |-> "handle_reserve_now", START_SESSION |-> "handle_start_session",
   STOP_SESSION |-> "handle_stop_session", UNLOCK_CONNECTOR |-> "handle_unlock_connector"]

commands_2_2_router ==
  [CANCEL_RESERVATION |-> "handle_cancel_reservation", RESERVE_NOW |-> "handle_reserve_now",
   START_SESSION |-> "handle_start_session", STOP_SESSION |-> "handle_stop_session",
   UNLOCK_CONNECTOR |-> "handle_unlock_connector"]

charging_profiles_router ==
  [GET |-> "get_active_profile", PUT |-> "set_charging_profile",
   DELETE |-> "clear_charging_profile"]

\* Mutant: a command type the callback route does not know.
cmds_2111_receive_result_short == CommandType2111 \ {"UNLOCK_CONNECTOR"}

\* The path segments that the callback routes parse as a command type.
cmds_receive_result      == CommandType
cmds_2111_receive_result == CommandType2111
cmds_22_receive_result   == CommandType

\* The callback route for each of the three profile requests, and what it calls.
charging_profiles_sender_router ==
  [GET |-> "cp_receive_active_result", PUT |-> "cp_receive_profile_result",
   DELETE |-> "cp_receive_clear_result"]

cp_receive_result ==
  [cp_receive_active_result |-> "receive_active_profile_result",
   cp_receive_profile_result |-> "receive_charging_profile_result",
   cp_receive_clear_result |-> "receive_clear_profile_result"]

CommandsConfig ==
  {"handle_cancel_reservation", "handle_reserve_now", "handle_start_session",
   "handle_stop_session", "handle_unlock_connector", "receive_command_result"}
Commands2111Config ==
  {"handle_reserve_now", "handle_start_session", "handle_stop_session",
   "handle_unlock_connector", "receive_command_result"}
Commands22Config ==
  {"handle_cancel_reservation", "handle_reserve_now", "handle_start_session",
   "handle_stop_session", "handle_unlock_connector", "receive_command_result"}
ChargingProfilesConfig ==
  {"get_active_profile", "set_charging_profile", "clear_charging_profile",
   "receive_active_profile_result", "receive_charging_profile_result",
   "receive_clear_profile_result"}

commands_client ==
  [cancel_reservation |-> "CANCEL_RESERVATION", reserve_now |-> "RESERVE_NOW",
   start_session |-> "START_SESSION", stop_session |-> "STOP_SESSION",
   unlock_connector |-> "UNLOCK_CONNECTOR"]
commands_2_1_1_client ==
  [reserve_now |-> "RESERVE_NOW", start_session |-> "START_SESSION",
   stop_session |-> "STOP_SESSION", unlock_connector |-> "UNLOCK_CONNECTOR"]
\* For the other commands a 2.2 party takes the functions of 2.2.1.
commands_2_2_client == [start_session |-> "START_SESSION"]
charging_profiles_client ==
  [get_active_charging_profile |-> "GET", set_charging_profile |-> "PUT",
   clear_charging_profile |-> "DELETE"]

\* The requests whose results the functions of the client post: one function
\* for all commands of a release, one for each profile request.
commands_result_client       == CommandType
commands_2_1_1_result_client == CommandType2111
charging_profiles_result_client ==
  [GET |-> "post_active_profile_result", PUT |-> "post_charging_profile_result",
   DELETE |-> "post_clear_profile_result"]

Sent(client) == {client[f] : f \in DOMAIN client}

Dispatched(router, config) == {r \in DOMAIN router : router[r] \in config}

Heard(types, config) == IF "receive_command_result" \in config THEN types ELSE {}

Commands2111 == [asks |-> Sent(commands_2_1_1_client),
                 serves |-> Dispatched(commands_2_1_1_router, Commands2111Config),
                 tells |-> commands_2_1_1_result_client,
                 hears |-> Heard(cmds_2111_receive_result, Commands2111Config)]
Commands22   == [asks |-> Sent(commands_client) \cup Sent(commands_2_2_client),
                 serves |-> Dispatched(commands_2_2_router, Commands22Config),
                 tells |-> commands_result_client,
                 hears |-> Heard(cmds_22_receive_result, Commands22Config)]
Commands221  == [asks |-> Sent(commands_client),
                 serves |-> Dispatched(commands_router, CommandsConfig),
                 tells |-> commands_result_client,
                 hears |-> Heard(cmds_receive_result, CommandsConfig)]
ChargingProfiles ==
  [asks |-> Sent(charging_profiles_client),
   serves |-> Dispatched(charging_profiles_router, ChargingProfilesConfig),
   tells |-> DOMAIN charging_profiles_result_client,
   hears |-> {r \in DOMAIN charging_profiles_sender_router :
                cp_receive_result[charging_profiles_sender_router[r]] \in ChargingProfilesConfig}]

-----------------------------------------------------------------------------
\* "asked": waiting for the answer; "accepted": waiting for the result;
\* "unclear": the call has failed; "expired": no result came in time.
Verdict == {"unsent", "asked", "accepted", "refused", "unclear", "expired", "done"}

\* The sender expects, or must still reckon with, a result.
Open == {"asked", "accepted", "unclear", "expired"}

Init ==
  /\ service \in Services
  /\ placeholder \in BOOLEAN
  /\ kind = [q \in Id |-> Nothing]
  /\ verdict = [q \in Id |-> "unsent"]
  /\ requests = {}
  /\ reply = [q \in Id |-> Nothing]
  /\ point = [q \in Id |-> "idle"]
  /\ results = {}
  /\ credited = [q \in Id |-> Nothing]
  /\ losses = 0

Lossy == losses < MaxLosses /\ losses' = losses + 1

-----------------------------------------------------------------------------
(***************************************************************************)
(* The sender.  It can tell results apart by their route only, so it has   *)
(* one call open on each.                                                  *)
(***************************************************************************)

RouteIsFree(k) ==
  k \in service.asks /\ \A q \in Id : kind[q] = k => verdict[q] \notin Open

post_command(q, k) ==
  /\ verdict[q] = "unsent" /\ RouteIsFree(k)
  /\ kind' = [kind EXCEPT ![q] = k]
  /\ verdict' = [verdict EXCEPT ![q] = "asked"]
  /\ requests' = requests \cup {q}
  /\ UNCHANGED <<service, placeholder, reply, point, results, credited, losses>>

\* Mutant: an answer without data is no error, and tells the sender nothing.
AnsweredWithData(q) ==
  /\ reply[q] \in {"ACCEPTED", "NOT_SUPPORTED"} /\ verdict[q] = "asked"
  /\ verdict' = [verdict EXCEPT ![q] = IF reply[q] = "ACCEPTED" THEN "accepted" ELSE "refused"]
  /\ UNCHANGED <<service, placeholder, kind, requests, reply, point, results, credited, losses>>

\* What the answer says: accepted or not.  A status other than 2xx, or no data
\* in the envelope, is an error.
Answered(q) ==
  /\ reply[q] # Nothing /\ verdict[q] = "asked"
  /\ verdict' = [verdict EXCEPT ![q] = CASE reply[q] = "ACCEPTED" -> "accepted"
                                         [] reply[q] = "NOT_SUPPORTED" -> "refused"
                                         [] reply[q] = "error" -> "unclear"]
  /\ UNCHANGED <<service, placeholder, kind, requests, reply, point, results, credited, losses>>

\* The call fails for the sender, whether or not the receiver gets it.
Fail(q) ==
  /\ verdict[q] = "asked" /\ Lossy
  /\ verdict' = [verdict EXCEPT ![q] = "unclear"]
  /\ requests' \in {requests, requests \ {q}}
  /\ UNCHANGED <<service, placeholder, kind, reply, point, results, credited>>

\* The sender stops waiting for the result.
Expire(q) ==
  /\ verdict[q] = "accepted"
  /\ verdict' = [verdict EXCEPT ![q] = "expired"]
  /\ UNCHANGED <<service, placeholder, kind, requests, reply, point, results, credited, losses>>

\* Mutant: the command type in the path is not handed on.
receive_result_untyped(m) ==
  LET candidates == {q \in Id : verdict[q] \in Open} IN
  /\ results' = results \ {m}
  /\ IF m.route \in service.hears /\ candidates # {}
       THEN \E q \in candidates :
              /\ verdict' = [verdict EXCEPT ![q] = "done"]
              /\ credited' = [credited EXCEPT ![q] = m.of]
       ELSE UNCHANGED <<verdict, credited>>
  /\ UNCHANGED <<service, placeholder, kind, requests, reply, point, losses>>

\* A result comes in: the sender takes it for that of an open call of the
\* route.  One that finds no call, or whose route is not known (400), is lost.
receive_result(m) ==
  LET candidates == {q \in Id : kind[q] = m.route /\ verdict[q] \in Open} IN
  /\ results' = results \ {m}
  /\ IF m.route \in service.hears /\ candidates # {}
       THEN \E q \in candidates :
              /\ verdict' = [verdict EXCEPT ![q] = "done"]
              /\ credited' = [credited EXCEPT ![q] = m.of]
       ELSE UNCHANGED <<verdict, credited>>
  /\ UNCHANGED <<service, placeholder, kind, requests, reply, point, losses>>

-----------------------------------------------------------------------------
(***************************************************************************)
(* The receiver.                                                           *)
(***************************************************************************)
Reply(q, code) == reply' = [reply EXCEPT ![q] = code]

\* Mutant: the placeholder accepts.
handle_placeholder_accepts(q) ==
  /\ q \in requests
  /\ requests' = requests \ {q}
  /\ \/ Reply(q, "NOT_SUPPORTED") /\ UNCHANGED point
     \/ Reply(q, "ACCEPTED") /\ point' = [point EXCEPT ![q] = "working"]
  /\ UNCHANGED <<service, placeholder, kind, verdict, results, credited, losses>>

\* Mutant: the answer is that of the placeholder, whatever the bridge does.
handle_placeholder_answers(q) ==
  /\ q \in requests
  /\ requests' = requests \ {q}
  /\ IF kind[q] \notin service.serves THEN Reply(q, "error") /\ UNCHANGED point
     ELSE /\ Reply(q, "NOT_SUPPORTED")
          /\ \/ UNCHANGED point
             \/ ~placeholder /\ point' = [point EXCEPT ![q] = "working"]
  /\ UNCHANGED <<service, placeholder, kind, verdict, results, credited, losses>>

\* The placeholder supports nothing; a bridge accepts the call, or says no, or
\* fails to forward it (500).  A route that does not exist is an error too.
handle(q) ==
  /\ q \in requests
  /\ requests' = requests \ {q}
  /\ IF kind[q] \notin service.serves THEN Reply(q, "error") /\ UNCHANGED point
     ELSE \/ Reply(q, "NOT_SUPPORTED") /\ UNCHANGED point
          \/ ~placeholder /\ Reply(q, "error") /\ UNCHANGED point
          \/ ~placeholder /\ Reply(q, "ACCEPTED") /\ point' = [point EXCEPT ![q] = "working"]
  /\ UNCHANGED <<service, placeholder, kind, verdict, results, credited, losses>>

\* The Charge Point is through; the receiver sends the result, once.  It does
\* not wait until its answer to the request has arrived.
post_command_result(q) ==
  /\ point[q] = "working" /\ kind[q] \in service.tells
  /\ results' = results \cup {[of |-> q, route |-> kind[q]]}
  /\ point' = [point EXCEPT ![q] = "finished"]
  /\ UNCHANGED <<service, placeholder, kind, verdict, requests, reply, credited, losses>>

\* The result does not reach the sender.
LoseResult(m) ==
  /\ Lossy
  /\ results' = results \ {m}
  /\ UNCHANGED <<service, placeholder, kind, verdict, requests, reply, point, credited>>

-----------------------------------------------------------------------------
Sender ==
  \/ \E q \in Id : Answered(q) \/ Fail(q) \/ Expire(q) \/ \E k \in service.asks : post_command(q, k)
  \/ \E m \in results : receive_result(m)

Receiver ==
  \/ \E q \in Id : handle(q) \/ post_command_result(q)
  \/ \E m \in results : LoseResult(m)

Next == Sender \/ Receiver

Spec == Init /\ [][Next]_vars

\* What is on its way arrives, unless it is lost; an answer is read; the Charge
\* Point gets through with what it was given, and the sender's patience ends.
FairSpec ==
  /\ Spec
  /\ \A q \in Id :
       /\ WF_vars(handle(q)) /\ WF_vars(Answered(q)) /\ WF_vars(Expire(q))
       /\ WF_vars(post_command_result(q))
       /\ WF_vars(\E m \in results : m.of = q /\ receive_result(m))

-----------------------------------------------------------------------------
(***************************************************************************)
(* Properties.                                                             *)
(***************************************************************************)

\* Every variable has its type, and only what the receiver has a handler for
\* gets to a Charge Point.
TypeOK ==
  /\ service \in Services /\ placeholder \in BOOLEAN
  /\ kind \in [Id -> service.asks \cup {Nothing}]
  /\ verdict \in [Id -> Verdict]
  /\ requests \subseteq Id
  /\ reply \in [Id -> {"ACCEPTED", "NOT_SUPPORTED", "error", Nothing}]
  /\ point \in [Id -> {"idle", "working", "finished"}]
  /\ results \subseteq [of : Id, route : service.asks]
  /\ credited \in [Id -> Id \cup {Nothing}]
  /\ losses \in 0..MaxLosses
  /\ \A q \in Id : point[q] # "idle" => kind[q] \in service.serves /\ ~placeholder

\* A result is taken for that of the call it is the result of, although it may
\* come before the answer to the request, after the sender has stopped waiting,
\* or for a call whose answer was lost (cmds_receive_result and the routes for
\* profile results hand on no more than the route).
ResultIsMeant == \A q \in Id : credited[q] \in {q, Nothing}

\* A call that the sender counts as refused never gets to a Charge Point, now
\* or later.
RefusedIsNotExecuted ==
  \A q \in Id : verdict[q] = "refused" => q \notin requests /\ point[q] = "idle"

\* While no call fails, the result of every call that a Charge Point was given
\* reaches its sender, in whatever order answer, result and timeout come.
ResultsArrive ==
  \A q \in Id : (point[q] = "working") ~> (losses > 0 \/ verdict[q] = "done")

\* Every call that was sent is settled in the end, one way or another.
CallsSettle ==
  \A q \in Id : (verdict[q] = "asked") ~> (verdict[q] \notin {"asked", "accepted"})
=============================================================================
