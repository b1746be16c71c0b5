-------------------------------- MODULE Push --------------------------------
(***************************************************************************)
(* The owner of an object keeps a receiver's copy of it up to date, one    *)
(* HTTP call at a time: PUT (or POST) sends the object, PATCH what has     *)
(* changed, DELETE removes the copy.  A call may fail before the receiver  *)
(* handles it, or after; as the protocol advises, the owner then asks with *)
(* a GET before it sends anything else, if it has one, and a PATCH that    *)
(* finds nothing is followed by a PUT.  A call that failed may also reach   *)
(* the receiver later, after others: it does not compare last_updated.     *)
(* The receiver keeps its store in memory and may restart.                 *)
(***************************************************************************)
EXTENDS Objects

CONSTANTS
  MaxLosses,      \* bound: calls that fail or are wrong
  MaxRestarts,    \* bound: restarts of the receiver
  Unknown,        \* the owner does not know what the receiver has
  NoCall          \* the owner is not calling

Reply == [code : {Ok, NotFound, ServerError}, data : Object \cup {Absent}]

Call == [method : {"GET", "PUT", "POST", "PATCH", "DELETE"},
         body   : Patch \cup Object \cup {Absent},
         means  : Object \cup {Absent, Unknown},   \* what the entry is if it succeeds
         reply  : Reply \cup {Unset}]

ASSUME PushAssumption ==
  /\ MaxLosses \in Nat /\ MaxRestarts \in Nat
  /\ Unknown \notin Object \cup {Absent}
  /\ Unset \notin Reply
  /\ NoCall \notin Call

VARIABLES
  profile,        \* the methods the receiver offers
  own,            \* the owner's object
  clock,          \* when it last changed
  acked,          \* what the owner believes the receiver has
  call,           \* the owner's call and, once handled, its reply
  copy,           \* the receiver's entry
  late,           \* a call that has failed and may still be handled
  overtaken,      \* history: a late call has changed the entry behind the owner's back
  forgotten,      \* history: a restart lost the entry since the last call was handled
  was,            \* history: what the owner's object has been
  losses, restarts

vars == <<profile, own, clock, acked, call, copy, late, overtaken, forgotten, was, losses, restarts>>

receiver == <<copy, overtaken, forgotten, restarts>>

Write == profile \cap {"PUT", "POST"}

Init ==
  /\ profile \in Profiles
  /\ own = Absent /\ clock = 0 /\ acked = Absent /\ call = NoCall
  /\ copy = Absent /\ late = NoCall /\ overtaken = FALSE /\ forgotten = FALSE
  /\ was = {Absent}
  /\ losses = 0 /\ restarts = 0

-----------------------------------------------------------------------------
(***************************************************************************)
(* The owner.  An object that is POSTed is final; one that can be deleted  *)
(* may go.                                                                 *)
(***************************************************************************)
Change(o) == own' = o /\ was' = was \cup {o} /\ clock' = clock + 1

Edit ==
  /\ clock < MaxTime
  /\ "POST" \in profile => own = Absent
  /\ \E o \in Object : o.last_updated = clock + 1 /\ Change(o)
  /\ UNCHANGED <<profile, acked, call, receiver, late, losses>>

Discard ==
  /\ "DELETE" \in profile /\ own # Absent /\ clock < MaxTime
  /\ Change(Absent)
  /\ UNCHANGED <<profile, acked, call, receiver, late, losses>>

Send(method, body, means) ==
  /\ call = NoCall
  /\ call' = [method |-> method, body |-> body, means |-> means, reply |-> Unset]
  /\ UNCHANGED <<profile, own, clock, acked, receiver, late, was, losses>>

\* In doubt, an owner that has no way to ask writes again.
SendWrite ==
  /\ acked # own /\ own # Absent
  /\ acked = Unknown => "GET" \notin profile
  /\ \E m \in Write : Send(m, own, own)

SendDelete ==
  /\ "DELETE" \in profile /\ acked \notin {Unknown, Absent} /\ own = Absent
  /\ Send("DELETE", Absent, Absent)

SendGet == "GET" \in profile /\ acked = Unknown /\ Send("GET", Absent, Unknown)

\* What a patch says of the changed fields: the new value, null for what is gone.
Changed(from, to) == IF from = to THEN Unset ELSE to

PriceChange(from, to) ==
  IF from = to THEN Unset
  ELSE IF from = Null \/ to = Null THEN to
  ELSE [excl_vat |-> Changed(from.excl_vat, to.excl_vat),
        incl_vat |-> Changed(from.incl_vat, to.incl_vat)]

Difference(from, to) ==
  [last_updated |-> to.last_updated,
   status       |-> Changed(from.status, to.status),
   periods      |-> Changed(from.periods, to.periods),
   total_cost   |-> PriceChange(from.total_cost, to.total_cost)]

Patchable == "PATCH" \in profile /\ acked \notin {Unknown, Absent} /\ own # Absent /\ acked # own

\* The receiver has the nested object that the patch is about.
Nested == acked.total_cost = Null => own.total_cost = Null

SendPatch == Patchable /\ Nested /\ Send("PATCH", Difference(acked, own), own)

SendAnyPatch == Patchable /\ Send("PATCH", Difference(acked, own), own)

\* An owner's mistake: a patch that nulls what is required.
SendInvalid ==
  /\ Patchable /\ losses < MaxLosses
  /\ losses' = losses + 1
  /\ call = NoCall
  /\ call' = [method |-> "PATCH", body |-> [Difference(acked, own) EXCEPT !.status = Null],
              means |-> own, reply |-> Unset]
  /\ UNCHANGED <<profile, own, clock, acked, receiver, late, was>>

\* What the owner knows once a call has been answered.
Learn(code) ==
  IF call.method = "GET" /\ code = Ok THEN call.reply.data
  ELSE IF code = Ok THEN call.means
  ELSE IF code = NotFound THEN Absent
  ELSE Unknown

Answered ==
  /\ call # NoCall /\ call.reply # Unset
  /\ acked' = Learn(call.reply.code)
  /\ call' = NoCall
  /\ UNCHANGED <<profile, own, clock, receiver, late, was, losses>>

\* The call fails, handled, lost or on its way.
Fail ==
  /\ call # NoCall /\ losses < MaxLosses
  /\ late' \in {late} \cup (IF call.reply = Unset THEN {call} ELSE {})
  /\ losses' = losses + 1
  /\ acked' = Unknown /\ call' = NoCall
  /\ UNCHANGED <<profile, own, clock, receiver, was>>

-----------------------------------------------------------------------------
(***************************************************************************)
(* The receiver.                                                           *)
(***************************************************************************)
Dispatch(method, body) ==
  CASE method = "PUT"    -> put(copy, body)
    [] method = "POST"   -> store(copy, body)
    [] method = "PATCH"  -> patch_json(copy, body)
    [] method = "DELETE" -> delete(copy)
    [] method = "GET"    -> get(copy)

\* The call leaves or finds an entry that the owner then knows to be its own.
Settles ==
  \/ copy = Absent
  \/ call.method = "GET" /\ copy \in was
  \/ call.method \in {"PUT", "POST", "DELETE"}

\* Mutant: the reply is made from what the entry was before.
HandleUnwritten ==
  /\ call # NoCall /\ call.reply = Unset
  /\ LET result == Dispatch(call.method, call.body) IN
       /\ copy' = IF call.method = "PATCH" THEN copy ELSE result.entry
       /\ call' = [call EXCEPT !.reply = [code |-> result.code, data |-> result.data]]
  /\ forgotten' = FALSE /\ overtaken' = (overtaken /\ ~Settles)
  /\ UNCHANGED <<profile, own, clock, acked, late, was, losses, restarts>>

\* Mutant: a call that finds nothing is not answered.
HandleFound ==
  /\ call # NoCall /\ call.reply = Unset
  /\ LET result == Dispatch(call.method, call.body) IN
       /\ result.code = Ok
       /\ copy' = result.entry
       /\ call' = [call EXCEPT !.reply = [code |-> result.code, data |-> result.data]]
  /\ forgotten' = FALSE /\ overtaken' = (overtaken /\ ~Settles)
  /\ UNCHANGED <<profile, own, clock, acked, late, was, losses, restarts>>

Handle ==
  /\ call # NoCall /\ call.reply = Unset
  /\ LET result == Dispatch(call.method, call.body) IN
       /\ copy' = result.entry
       /\ call' = [call EXCEPT !.reply = [code |-> result.code, data |-> result.data]]
  /\ forgotten' = FALSE /\ overtaken' = (overtaken /\ ~Settles)
  /\ UNCHANGED <<profile, own, clock, acked, late, was, losses, restarts>>

\* A call that had failed is handled after all.
HandleLate ==
  /\ late # NoCall
  /\ copy' = Dispatch(late.method, late.body).entry
  /\ overtaken' = (overtaken \/ copy' # copy)
  /\ late' = NoCall
  /\ UNCHANGED <<profile, own, clock, acked, call, forgotten, was, losses, restarts>>

\* The store is in memory only.
Restart ==
  /\ restarts < MaxRestarts
  /\ restarts' = restarts + 1
  /\ copy' = Absent /\ forgotten' = (forgotten \/ copy # Absent)
  /\ UNCHANGED <<profile, own, clock, acked, call, late, overtaken, was, losses>>

-----------------------------------------------------------------------------
Calling == SendWrite \/ SendDelete \/ SendGet \/ SendPatch

Exchange == Calling \/ Answered \/ Handle

Next == Exchange \/ SendInvalid \/ Edit \/ Discard \/ Fail \/ HandleLate \/ Restart

Spec == Init /\ [][Next]_vars

\* The owner sends what it has to send, the receiver's handler runs, and the
\* owner goes on with the answer.
FairSpec == Spec /\ WF_vars(Calling) /\ WF_vars(Answered) /\ WF_vars(Handle)

\* The owner patches whatever has changed.
AnyPatchSpec == Init /\ [][Next \/ SendAnyPatch]_vars

-----------------------------------------------------------------------------
(***************************************************************************)
(* Properties.                                                             *)
(***************************************************************************)
\* Every variable has its type; in particular no sequence of calls stores what
\* would not deserialize (patch_json).
TypeOK ==
  /\ profile \in Profiles
  /\ own \in Object \cup {Absent}
  /\ clock \in Time
  /\ acked \in Object \cup {Absent, Unknown}
  /\ copy \in Object \cup {Absent}
  /\ overtaken \in BOOLEAN /\ forgotten \in BOOLEAN
  /\ was \subseteq Object \cup {Absent}
  /\ call \in Call \cup {NoCall} /\ late \in Call \cup {NoCall}
  /\ \A c \in {call, late} \ {NoCall} :
       /\ c.method \in profile
       /\ c.method \in {"PUT", "POST"} => c.body \in Object
       /\ c.method = "PATCH" => c.body \in Patch
  /\ losses \in 0..MaxLosses /\ restarts \in 0..MaxRestarts

\* Nothing has happened to the entry behind the owner's back.
Undisturbed == ~forgotten /\ ~overtaken

\* What the owner believes the receiver has is what it has, unless a restart
\* has lost it or a late call has changed it since: a call that is answered
\* with success has done what it said, and one that fails leaves the owner in
\* doubt (put, patch_json, delete).
AckedIsStored ==
  call = NoCall /\ acked # Unknown /\ Undisturbed => copy = acked

\* The copy is what the object once was as a whole, however PUTs, PATCHes,
\* failures and restarts alternate: only a PATCH to an entry that a late call
\* has changed mixes two versions (patch_json).
CopyIsASnapshot == copy \in was \/ overtaken

\* In the end the copy is the object, unless a restart or a late call went
\* unnoticed: nothing tells the owner that the receiver has lost what it
\* acknowledged, or has overwritten it with something older.
Converges == <>[](copy = own \/ ~Undisturbed)

Is(object, S) == object \notin {Unknown, Absent} /\ object.status \in S

\* A token whose owner has blocked it, and is not about to unblock it, is not
\* authorized, unless another party has one with the same uid and type: others
\* are the statuses of such tokens (authorize).  With one, the answer may be
\* for either.
BlockedStaysBlocked ==
  (/\ "authorize" \in profile
   /\ Is(acked, Status \ Valid) /\ Undisturbed
   /\ call # NoCall => Is(call.means, Status \ Valid)) =>
     \A others \in SUBSET Status :
       "ALLOWED" \in authorize(others \cup {o.status : o \in {copy} \ {Absent}})
         => others \cap Valid # {}

\* What a driver who was asked for something sends next.
Supply(p, answer) ==
  [p EXCEPT !.departure_time = @ \/ answer = "DEPARTURE_REQUIRED",
            !.energy_need = @ \/ answer = "ENERGY_NEED_REQUIRED"]

\* The owner knows the entry to be there, and no answer says otherwise.
KnownThere ==
  /\ acked \notin {Unknown, Absent} /\ Undisturbed
  /\ call # NoCall => call.means # Absent /\ (call.reply = Unset \/ call.reply.code # NotFound)

\* A driver whose session is known here, also while it is being updated, is
\* never refused for want of the session, and once everything asked for has
\* been supplied the preferences are accepted (set_charging_preferences).
PreferencesSettle ==
  ("preferences" \in profile /\ KnownThere) =>
    \A p \in Preferences :
      LET Answer(q) == set_charging_preferences(copy # Absent, q)
          second == Supply(p, Answer(p))
          third  == Supply(second, Answer(second))
      IN  Answer(third) = "ACCEPTED"

\* What a merge-patch leaves of an object: the result, if it deserializes.
MergePatched(object, patch) ==
  LET results == from_value(rfc7396_merge(object, patch)) IN
  IF results = {} THEN {object} ELSE results

\* A PATCH from an owner that knows the entry, and adds no nested object to it,
\* does what RFC 7396 says, and does nothing if the result would not
\* deserialize: through lost and late calls and restarts, the owner comes to
\* such a PATCH only where the merge is right (json_merge, patch_json).
PatchInStepIsMergePatch ==
  [][(Handle /\ call.method = "PATCH" /\ copy # Absent /\ Undisturbed) =>
       copy' \in MergePatched(copy, call.body)]_vars

\* What the documentation says of PATCH: it is the merge-patch of RFC 7396.
\* The code's merge of an object into a missing field stores nothing.
PatchIsMergePatch ==
  [][(Handle /\ call.method = "PATCH" /\ copy # Absent) =>
       \A o \in from_value(rfc7396_merge(copy, call.body)) : copy' = o]_vars
=============================================================================
