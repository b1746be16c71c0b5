----------------------------- MODULE PushProofs -----------------------------
(***************************************************************************)
(* Theorems about Push, for any values that objects may have and any       *)
(* number of edits, lost and late calls and restarts.                      *)
(***************************************************************************)
EXTENDS Push, TLAPS

-----------------------------------------------------------------------------
(***************************************************************************)
(* Lemmas on the operators of Objects.                                     *)
(***************************************************************************)

\* What a merge leaves, if it deserializes, is an object (patch_json).
LEMMA MergeIsTyped ==
  ASSUME NEW base \in Object, NEW patch \in Patch, NEW o \in from_value(json_merge(base, patch))
  PROVE  o \in Object
<1>1. /\ o = json_merge(base, patch)
      /\ o.status # Null
      /\ o.total_cost # Null => o.total_cost.excl_vat # Null
  BY DEF from_value
<1>2. o.last_updated \in Time /\ o.periods \in SUBSET Period /\ o.status \in Status
  BY <1>1 DEF json_merge, MergeValue, Object, Patch
<1>3. o.total_cost = MergePrice(base.total_cost, patch.total_cost)
  BY <1>1 DEF json_merge
<1>4. o.total_cost \in Price \cup {Null}
  <2>1. CASE patch.total_cost = Unset \/ patch.total_cost = Null \/ base.total_cost = Null
    BY <1>3, <2>1 DEF MergePrice, Object
  <2>2. CASE patch.total_cost \in PricePatch /\ base.total_cost \in Price
    <3>1. CASE base.total_cost = Null
      BY <2>1, <3>1
    <3>2. CASE base.total_cost # Null
      <4>1. o.total_cost = MergeMembers(base.total_cost, patch.total_cost)
        BY <1>3, <2>2, <3>2, ObjectsAssumption DEF MergePrice
      <4>2. o.total_cost = Null \/ o.total_cost.excl_vat # Null
        BY <1>1
      <4> QED
        BY <2>2, <4>1, <4>2 DEF MergeMembers, MergeValue, Price, PricePatch
    <3> QED
      BY <3>1, <3>2
  <2> QED
    BY <2>1, <2>2 DEF Object, Patch
<1> QED
  BY <1>1, <1>2, <1>4 DEF json_merge, Object

\* The same of the nested object.
LEMMA PriceRestores ==
  ASSUME NEW f \in Price \cup {Null}, NEW t \in Price \cup {Null}, f = Null => t = Null
  PROVE  MergePrice(f, PriceChange(f, t)) = t
<1> DEFINE d == PriceChange(f, t)
<1>1. CASE f = t
  BY <1>1 DEF PriceChange, MergePrice
<1>2. CASE f # t /\ t = Null
  BY <1>2, ObjectsAssumption DEF PriceChange, MergePrice
<1>3. CASE f # t /\ t # Null
  <2>1. f # Null /\ f \in Price /\ t \in Price
    BY <1>3
  <2>2. d = [excl_vat |-> Changed(f.excl_vat, t.excl_vat), incl_vat |-> Changed(f.incl_vat, t.incl_vat)]
    BY <1>3, <2>1 DEF PriceChange
  <2>3. d \in PricePatch
    BY <2>1, <2>2 DEF Changed, Price, PricePatch
  <2>4. MergePrice(f, d) = MergeMembers(f, d)
    BY <2>1, <2>3, ObjectsAssumption DEF MergePrice
  <2>5. MergeMembers(f, d) = [excl_vat |-> t.excl_vat, incl_vat |-> t.incl_vat]
    BY <2>1, <2>2, ObjectsAssumption DEF MergeMembers, MergeValue, Changed, Price
  <2>6. t = [excl_vat |-> t.excl_vat, incl_vat |-> t.incl_vat]
    BY <2>1 DEF Price
  <2> QED
    BY <2>4, <2>5, <2>6
<1> QED
  BY <1>1, <1>2, <1>3

\* A merge of the difference into the old object gives the new one, if it adds
\* no nested object (json_merge).
LEMMA PatchRestores ==
  ASSUME NEW from \in Object, NEW to \in Object, from.total_cost = Null => to.total_cost = Null
  PROVE  from_value(json_merge(from, Difference(from, to))) = {to}
<1> DEFINE d == Difference(from, to)
           o == json_merge(from, d)
<1>1. MergeValue(from.last_updated, d.last_updated) = to.last_updated
  BY ObjectsAssumption DEF Difference, MergeValue, Object
<1>2. /\ MergeValue(from.status, d.status) = to.status
      /\ MergeValue(from.periods, d.periods) = to.periods
  BY ObjectsAssumption DEF Difference, Changed, MergeValue, Object
<1>3. MergePrice(from.total_cost, d.total_cost) = to.total_cost
  BY PriceRestores DEF Difference, Object
<1>4. o = to
  BY <1>1, <1>2, <1>3 DEF json_merge, Object
<1>5. to.status # Null /\ (to.total_cost # Null => to.total_cost.excl_vat # Null)
  BY ObjectsAssumption DEF Object, Price
<1> QED
  BY <1>4, <1>5 DEF from_value

\* Merging a nested object: the code does what RFC 7396 says if one is there or
\* none is given, and otherwise leaves none where RFC 7396 makes one.
LEMMA MembersMerge ==
  ASSUME NEW base \in Price \cup {Null}, NEW patch \in PricePatch \cup {Null, Unset}
  PROVE  /\ base # Null \/ patch \in {Null, Unset} =>
              MergePrice(base, patch) = rfc7396_member(base, patch)
         /\ base = Null /\ patch \notin {Null, Unset} =>
              MergePrice(base, patch) = Null /\ rfc7396_member(base, patch) # Null
<1>1. CASE patch \in {Null, Unset}
  BY <1>1, ObjectsAssumption DEF MergePrice, rfc7396_member, MergeValue
<1>2. CASE patch \notin {Null, Unset} /\ base # Null
  BY <1>2 DEF MergePrice, rfc7396_member
<1>3. CASE patch \notin {Null, Unset} /\ base = Null
  <2>1. MergePrice(base, patch) = Null /\ rfc7396_member(base, patch) = MergeMembers(NoMembers, patch)
    BY <1>3 DEF MergePrice, rfc7396_member
  <2>2. MergeMembers(NoMembers, patch) \in [excl_vat : Amount \cup {Null}, incl_vat : Amount \cup {Null}]
    BY <1>3 DEF MergeMembers, NoMembers, MergeValue, PricePatch
  <2>3. Null \notin [excl_vat : Amount \cup {Null}, incl_vat : Amount \cup {Null}]
    <3>1. [excl_vat : Amount \cup {Null}, incl_vat : Amount \cup {Null}] \subseteq PricePatch
      BY DEF PricePatch
    <3> QED
      BY <3>1, ObjectsAssumption
  <2> QED
    BY <1>3, <2>1, <2>2, <2>3
<1> QED
  BY <1>1, <1>2, <1>3

\* The difference of two objects is a patch.
LEMMA DifferenceIsAPatch ==
  ASSUME NEW from \in Object, NEW to \in Object
  PROVE  Difference(from, to) \in Patch
<1>1. PriceChange(from.total_cost, to.total_cost) \in PricePatch \cup {Null, Unset}
  BY DEF PriceChange, Changed, Object, Price, PricePatch
<1>2. Changed(from.status, to.status) \in Status \cup {Null, Unset}
  BY DEF Changed, Object
<1>3. Changed(from.periods, to.periods) \in (SUBSET Period) \cup {Unset}
  BY DEF Changed, Object
<1> QED
  BY <1>1, <1>2, <1>3 DEF Difference, Patch, Object

-----------------------------------------------------------------------------
(***************************************************************************)
(* The invariant.                                                          *)
(***************************************************************************)

\* The call is made with a body that its meaning fits: PUT and POST send what
\* the entry shall be, PATCH the difference to what it is believed to be;
\* a GET is made in doubt.
CallInv ==
  call # NoCall =>
    /\ call.method \in {"PUT", "POST"} => call.body = call.means
    /\ call.method = "PATCH" =>
         /\ call.means \in Object /\ acked \in Object
         /\ \/ /\ call.body = Difference(acked, call.means)
               /\ acked.total_cost = Null => call.means.total_cost = Null
            \/ call.body.status = Null
    /\ call.method = "DELETE" => call.means = Absent
    /\ call.method = "GET" => call.means = Unknown /\ acked = Unknown

\* What the owner sends its object has been.
Remembered ==
  /\ own \in was /\ Absent \in was
  /\ call # NoCall => call.means \in was \cup {Unknown}

\* A restart that has lost the entry leaves nothing that only a late call could
\* have changed.
ForgottenIsAbsent == forgotten => copy = Absent \/ overtaken

\* Until the owner's call is handled the entry is what it believes; from then
\* on it is what the reply will make it believe.
Agrees ==
  Undisturbed =>
    IF call = NoCall \/ call.reply = Unset THEN acked # Unknown => copy = acked
    ELSE /\ Learn(call.reply.code) # Unknown => copy = Learn(call.reply.code)
         /\ call.reply.code = ServerError => copy = acked

Inv == TypeOK /\ CallInv /\ Remembered /\ ForgottenIsAbsent /\ Agrees /\ CopyIsASnapshot

USE DEF Ok, NotFound, ServerError

\* No store yet (SessionsConfig::new).
LEMMA InitInv == Init => Inv
<1>1. Init => 0 \in Time /\ 0 \in 0..MaxLosses /\ 0 \in 0..MaxRestarts
  BY PushAssumption, ObjectsAssumption DEF Time
<1> QED
  BY <1>1, PushAssumption
     DEF Init, Inv, TypeOK, CallInv, Remembered, ForgottenIsAbsent, Agrees, Undisturbed, CopyIsASnapshot

\* The owner's object changes; what it has sent stays what the object was.
LEMMA EditInv == ASSUME Inv, Edit \/ Discard PROVE Inv'
<1> USE DEF Inv, Edit, Discard, Change, receiver
<1>1. TypeOK'
  BY ObjectsAssumption DEF TypeOK, Time
<1>2. CallInv' /\ ForgottenIsAbsent'
  BY DEF CallInv, ForgottenIsAbsent
<1>3. Remembered' /\ CopyIsASnapshot'
  BY DEF Remembered, CopyIsASnapshot
<1>4. Agrees'
  BY DEF Agrees, Undisturbed, Learn
<1> QED
  BY <1>1, <1>2, <1>3, <1>4

\* A new call, which has not been handled.
LEMMA NewCallInv ==
  ASSUME Inv, NEW c \in Call, call = NoCall, call' = c, c.reply = Unset,
         UNCHANGED <<profile, own, clock, acked, receiver, late, was>>,
         losses' \in 0..MaxLosses,
         c.method \in profile,
         c.method \in {"PUT", "POST"} => c.body \in Object,
         c.method = "PATCH" => c.body \in Patch,
         c.means \in was \cup {Unknown},
         CallInv'
  PROVE  Inv'
<1> USE DEF Inv, receiver
<1>1. TypeOK'
  BY DEF TypeOK
<1>2. Remembered' /\ ForgottenIsAbsent' /\ CopyIsASnapshot'
  BY DEF Remembered, ForgottenIsAbsent, CopyIsASnapshot
<1>3. Agrees'
  BY DEF Agrees, Undisturbed
<1> QED
  BY <1>1, <1>2, <1>3

\* Whatever the owner calls, it calls in a way that CallInv describes
\* (put_session, patch_session, delete_tariff, get_session).
LEMMA CallingInv == ASSUME Inv, Calling \/ SendInvalid PROVE Inv'
<1> USE DEF Inv, Send, receiver
<1>0. losses' \in 0..MaxLosses
  BY PushAssumption
     DEF TypeOK, Calling, SendWrite, SendDelete, SendGet, SendPatch, SendInvalid
<1>1. CASE SendWrite
  <2> PICK m \in Write : Send(m, own, own)
    BY <1>1 DEF SendWrite
  <2>1. m \in {"PUT", "POST"} /\ m \in profile /\ own \in Object
    BY <1>1 DEF Write, SendWrite, TypeOK
  <2> DEFINE c == [method |-> m, body |-> own, means |-> own, reply |-> Unset]
  <2>2. c \in Call
    BY <2>1 DEF Call
  <2> QED
    BY <1>0, <2>1, <2>2, NewCallInv, PushAssumption DEF CallInv, Remembered
<1>2. CASE SendDelete
  <2> DEFINE c == [method |-> "DELETE", body |-> Absent, means |-> Absent, reply |-> Unset]
  <2>1. c \in Call /\ "DELETE" \in profile
    BY <1>2 DEF Call, SendDelete
  <2> QED
    BY <1>0, <1>2, <2>1, NewCallInv DEF CallInv, Remembered, SendDelete
<1>3. CASE SendGet
  <2> DEFINE c == [method |-> "GET", body |-> Absent, means |-> Unknown, reply |-> Unset]
  <2>1. c \in Call /\ "GET" \in profile
    BY <1>3 DEF Call, SendGet
  <2> QED
    BY <1>0, <1>3, <2>1, NewCallInv DEF CallInv, SendGet
<1>4. ASSUME Patchable, NEW body \in Patch, call = NoCall,
             call' = [method |-> "PATCH", body |-> body, means |-> own, reply |-> Unset],
             UNCHANGED <<profile, own, clock, acked, receiver, late, was>>,
             \/ body = Difference(acked, own) /\ Nested
             \/ body.status = Null
      PROVE  Inv'
  <2> DEFINE c == [method |-> "PATCH", body |-> body, means |-> own, reply |-> Unset]
  <2>1. own \in Object /\ acked \in Object /\ "PATCH" \in profile
    BY <1>4 DEF Patchable, TypeOK
  <2>2. c \in Call
    BY <2>1 DEF Call
  <2>3. CallInv'
    BY <1>4, <2>1 DEF CallInv, Nested
  <2> QED
    BY <1>0, <1>4, <2>1, <2>2, <2>3, NewCallInv DEF Remembered
<1>5. CASE SendPatch
  <2>1. Difference(acked, own) \in Patch
    BY <1>5, DifferenceIsAPatch DEF SendPatch, Patchable, TypeOK
  <2> QED
    BY <1>4, <1>5, <2>1 DEF SendPatch
<1>6. CASE SendInvalid
  <2> DEFINE body == [Difference(acked, own) EXCEPT !.status = Null]
  <2>1. Difference(acked, own) \in Patch
    BY <1>6, DifferenceIsAPatch DEF SendInvalid, Patchable, TypeOK
  <2>2. body \in Patch /\ body.status = Null
    BY <2>1 DEF Patch
  <2> HIDE DEF body
  <2>3. /\ Patchable /\ call = NoCall
        /\ call' = [method |-> "PATCH", body |-> body, means |-> own, reply |-> Unset]
        /\ UNCHANGED <<profile, own, clock, acked, receiver, late, was>>
    BY <1>6 DEF SendInvalid, body
  <2> QED
    BY <1>4, <2>2, <2>3
<1> QED
  BY <1>1, <1>2, <1>3, <1>5, <1>6 DEF Calling

\* The owner learns from the answer what the entry is.
LEMMA AnsweredInv == ASSUME Inv, Answered PROVE Inv'
<1> USE DEF Inv, Answered, receiver
<1>1. call \in Call /\ call.reply \in Reply /\ call' = NoCall
  BY DEF TypeOK, Call
<1>2. TypeOK'
  <2>1. acked' \in Object \cup {Absent, Unknown}
    BY <1>1 DEF Learn, Reply, Call
  <2> QED
    BY <1>1, <2>1 DEF TypeOK
<1>3. CallInv' /\ Remembered' /\ ForgottenIsAbsent' /\ CopyIsASnapshot'
  BY <1>1 DEF CallInv, Remembered, ForgottenIsAbsent, CopyIsASnapshot
<1>4. Agrees'
  BY <1>1 DEF Agrees, Undisturbed
<1> QED
  BY <1>2, <1>3, <1>4

\* A failed call leaves the owner in doubt.
LEMMA FailInv == ASSUME Inv, Fail PROVE Inv'
<1> USE DEF Inv, Fail, receiver
<1>1. losses' \in 0..MaxLosses
  BY PushAssumption DEF TypeOK
<1>2. TypeOK'
  BY <1>1 DEF TypeOK
<1>3. CallInv' /\ Remembered' /\ ForgottenIsAbsent' /\ CopyIsASnapshot'
  BY DEF CallInv, Remembered, ForgottenIsAbsent, CopyIsASnapshot
<1>4. Agrees'
  BY DEF Agrees
<1> QED
  BY <1>1, <1>2, <1>3, <1>4

\* The three outcomes of patch_json.
LEMMA PatchJson ==
  ASSUME NEW entry, NEW patch
  PROVE  LET merged == json_merge(entry, patch)
             updated == from_value(merged)
         IN  patch_json(entry, patch) =
               IF entry = Absent THEN Result(NotFound, entry, Absent)
               ELSE IF merged \in updated THEN Result(Ok, merged, Absent)
               ELSE Result(ServerError, entry, Absent)
<1> DEFINE merged == json_merge(entry, patch)
           updated == from_value(merged)
<1>1. updated = {} \/ updated = {merged}
  BY DEF from_value
<1>2. patch_json(entry, patch) =
        IF entry = Absent THEN Result(NotFound, entry, Absent)
        ELSE IF updated = {} THEN Result(ServerError, entry, Absent)
        ELSE Result(Ok, CHOOSE o \in updated : TRUE, Absent)
  BY DEF patch_json
<1> HIDE DEF updated, merged
<1>3. CASE updated = {}
  BY <1>2, <1>3 DEF updated, merged
<1>4. CASE updated = {merged}
  <2>1. (CHOOSE o \in updated : TRUE) = merged /\ updated # {}
    BY <1>4
  <2> QED
    BY <1>2, <1>4, <2>1 DEF updated, merged
<1> QED
  BY <1>1, <1>3, <1>4

\* What a handler leaves and answers is typed, whatever it was called with.
LEMMA DispatchIsTyped ==
  ASSUME NEW method \in {"GET", "PUT", "POST", "PATCH", "DELETE"},
         NEW body \in Object \cup Patch \cup {Absent}, copy \in Object \cup {Absent},
         method \in {"PUT", "POST"} => body \in Object, method = "PATCH" => body \in Patch
  PROVE  Dispatch(method, body) \in [code : {Ok, NotFound, ServerError},
                                    entry : Object \cup {Absent}, data : Object \cup {Absent}]
<1> USE DEF Result
<1>1. CASE method \in {"PUT", "POST"}
  BY <1>1 DEF Dispatch, put, store
<1>2. CASE method = "PATCH"
  <2> DEFINE merged == json_merge(copy, body)
  <2>1. Dispatch(method, body) = patch_json(copy, body)
    BY <1>2 DEF Dispatch
  <2>2. copy # Absent /\ merged \in from_value(merged) => merged \in Object
    BY <1>2, MergeIsTyped
  <2>3. patch_json(copy, body) =
          IF copy = Absent THEN Result(NotFound, copy, Absent)
          ELSE IF merged \in from_value(merged) THEN Result(Ok, merged, Absent)
          ELSE Result(ServerError, copy, Absent)
    BY PatchJson
  <2>4. \/ copy = Absent /\ Dispatch(method, body) = Result(NotFound, copy, Absent)
        \/ merged \in Object /\ Dispatch(method, body) = Result(Ok, merged, Absent)
        \/ Dispatch(method, body) = Result(ServerError, copy, Absent)
    <3> HIDE DEF merged
    <3> QED
      BY <2>1, <2>2, <2>3
  <2>5. ASSUME NEW code \in {Ok, NotFound, ServerError}, NEW entry \in Object \cup {Absent}
        PROVE  Result(code, entry, Absent) \in [code : {Ok, NotFound, ServerError},
                 entry : Object \cup {Absent}, data : Object \cup {Absent}]
    OBVIOUS
  <2> HIDE DEF merged, Result, Ok, NotFound, ServerError
  <2> QED
    BY <2>4, <2>5
<1>3. CASE method = "DELETE"
  BY <1>3 DEF Dispatch, delete
<1>4. CASE method = "GET"
  BY <1>4 DEF Dispatch, get
<1> QED
  BY <1>1, <1>2, <1>3, <1>4

\* A PATCH on an entry that is what the owner believes makes it what the owner
\* means, or leaves it and says so (sessions_patch).
LEMMA PatchDoesWhatItMeans ==
  ASSUME Inv, call # NoCall, call.method = "PATCH", copy = acked
  PROVE  \/ Dispatch(call.method, call.body) = Result(Ok, call.means, Absent)
         \/ Dispatch(call.method, call.body) = Result(ServerError, copy, Absent)
<1> DEFINE result == Dispatch(call.method, call.body)
           merged == json_merge(copy, call.body)
<1>1. /\ acked \in Object /\ call.means \in Object /\ copy # Absent
      /\ result = patch_json(copy, call.body)
  BY ObjectsAssumption DEF Inv, CallInv, Dispatch
<1>2. result = IF merged \in from_value(merged) THEN Result(Ok, merged, Absent)
               ELSE Result(ServerError, copy, Absent)
  BY <1>1, PatchJson
<1>3. CASE /\ call.body = Difference(acked, call.means)
           /\ acked.total_cost = Null => call.means.total_cost = Null
  <2>1. from_value(merged) = {call.means}
    BY <1>1, <1>3, PatchRestores
  <2>2. merged = call.means
    BY <2>1 DEF from_value
  <2> HIDE DEF merged, result
  <2>3. result = Result(Ok, call.means, Absent)
    BY <1>2, <2>1, <2>2
  <2> QED
    BY <2>3 DEF result
<1>4. CASE call.body.status = Null
  <2>1. merged.status = Null
    BY <1>4, ObjectsAssumption DEF json_merge, MergeValue
  <2>2. merged \notin from_value(merged)
    BY <2>1 DEF from_value
  <2> HIDE DEF merged, result
  <2>3. result = Result(ServerError, copy, Absent)
    BY <1>2, <2>2
  <2> QED
    BY <2>3 DEF result
<1> QED
  BY <1>3, <1>4 DEF Inv, CallInv

\* The owner's call is handled (sessions_put, sessions_patch, tariffs_delete).
LEMMA HandleInv == ASSUME Inv, Handle PROVE Inv'
<1> DEFINE result == Dispatch(call.method, call.body)
           reply == [code |-> result.code, data |-> result.data]
<1> USE DEF Inv
<1>1. /\ call # NoCall /\ call \in Call /\ call.reply = Unset
      /\ call.method \in {"PUT", "POST"} => call.body \in Object
      /\ call.method = "PATCH" => call.body \in Patch
  BY DEF Handle, TypeOK
<1>2. result \in [code : {Ok, NotFound, ServerError},
                  entry : Object \cup {Absent}, data : Object \cup {Absent}]
  BY <1>1, DispatchIsTyped DEF TypeOK, Call
<1>3. /\ copy' = result.entry
      /\ call' = [call EXCEPT !.reply = reply]
      /\ forgotten' = FALSE /\ overtaken' = (overtaken /\ ~Settles)
      /\ UNCHANGED <<profile, own, clock, acked, late, was, losses, restarts>>
  BY DEF Handle
<1>4. reply \in Reply
  BY <1>2 DEF Reply
<1>5. /\ call' \in Call /\ call'.reply = reply
      /\ call' # NoCall /\ call'.reply # Unset
      /\ call'.method = call.method /\ call'.body = call.body /\ call'.means = call.means
  BY <1>1, <1>3, <1>4, PushAssumption DEF Call
<1>6. TypeOK'
  <2>1. copy' \in Object \cup {Absent} /\ overtaken' \in BOOLEAN /\ forgotten' \in BOOLEAN
    BY <1>2, <1>3 DEF TypeOK
  <2> QED
    BY <1>1, <1>3, <1>5, <2>1 DEF TypeOK
<1>7. CallInv' /\ Remembered' /\ ForgottenIsAbsent'
  BY <1>1, <1>3, <1>5 DEF CallInv, Remembered, ForgottenIsAbsent
<1>8. ASSUME copy # Absent, call.method = "PATCH", ~overtaken
      PROVE  /\ copy = acked /\ copy \in was /\ call.means \in was
             /\ \/ result = Result(Ok, call.means, Absent)
                \/ result = Result(ServerError, copy, Absent)
  <2>1. Undisturbed /\ acked \in Object /\ acked # Unknown
    BY <1>1, <1>8, PushAssumption DEF Undisturbed, ForgottenIsAbsent, CallInv
  <2>2. copy = acked
    BY <1>1, <2>1 DEF Agrees
  <2>3. copy \in was
    BY <1>8 DEF CopyIsASnapshot
  <2>4. call.means \in was
    BY <1>1, <1>8, PushAssumption DEF CallInv, Remembered
  <2> QED
    BY <1>1, <1>8, <2>2, <2>3, <2>4, PatchDoesWhatItMeans
<1>9. \/ call.method \in {"PUT", "POST"} /\ result = Result(Ok, call.means, Absent) /\ call.means \in was
      \/ call.method = "DELETE" /\ copy = Absent /\ result = Result(NotFound, Absent, Absent)
      \/ call.method = "DELETE" /\ call.means = Absent /\ result = Result(Ok, Absent, Absent)
      \/ call.method = "GET" /\ copy = Absent /\ result = Result(NotFound, Absent, Absent)
      \/ call.method = "GET" /\ copy # Absent /\ result = Result(Ok, copy, copy)
      \/ call.method = "PATCH" /\ copy = Absent /\ result = Result(NotFound, Absent, Absent)
      \/ call.method = "PATCH" /\ copy # Absent
  <2>1. CASE call.method \in {"PUT", "POST"}
    <3>1. call.means = call.body /\ call.means \in was
      BY <1>1, <2>1, PushAssumption DEF CallInv, Remembered
    <3> QED
      BY <2>1, <3>1 DEF Dispatch, put, store
  <2>2. CASE call.method = "DELETE"
    BY <1>1, <2>2 DEF Dispatch, delete, CallInv
  <2>3. CASE call.method = "GET"
    BY <2>3 DEF Dispatch, get
  <2>4. CASE call.method = "PATCH"
    BY <2>4, PatchJson DEF Dispatch
  <2> QED
    BY <1>1, <2>1, <2>2, <2>3, <2>4 DEF Call
<1>10. \A c, e, d : result = Result(c, e, d) => reply.code = c /\ copy' = e /\ reply.data = d
  BY <1>3 DEF Result
<1>11. overtaken' <=> (overtaken /\ ~Settles)
  BY <1>3
<1>12. call.method = "PATCH" /\ copy # Absent => ~Settles
  BY DEF Settles
<1> HIDE DEF result, reply, Result, Ok, NotFound, ServerError
<1>13. CopyIsASnapshot'
  <2> SUFFICES ASSUME ~overtaken' PROVE copy' \in was
    BY <1>3 DEF CopyIsASnapshot
  <2>1. CASE call.method = "PATCH" /\ copy # Absent
    BY <1>8, <1>10, <1>11, <1>12, <2>1
  <2>2. CASE call.method = "GET" /\ copy # Absent
    <3>1. copy' = copy
      BY <1>9, <1>10, <2>2
    <3> QED
      BY <1>11, <2>2, <3>1 DEF CopyIsASnapshot, Settles
  <2>3. CASE call.method \notin {"PATCH", "GET"} \/ copy = Absent
    BY <1>9, <1>10, <2>3 DEF Remembered
  <2> QED
    BY <2>1, <2>2, <2>3
<1>14. Agrees'
  <2> DEFINE learned == IF call.method = "GET" /\ reply.code = Ok THEN reply.data
                        ELSE IF reply.code = Ok THEN call.means
                        ELSE IF reply.code = NotFound THEN Absent
                        ELSE Unknown
  <2>1. ASSUME ~overtaken'
        PROVE  /\ learned # Unknown => copy' = learned
               /\ reply.code = ServerError => copy' = acked
    <3>1. Ok # NotFound /\ Ok # ServerError /\ NotFound # ServerError
      BY DEF Ok, NotFound, ServerError
    <3>2. CASE call.method = "PATCH" /\ copy # Absent
      <4>1. copy = acked /\ (result = Result(Ok, call.means, Absent) \/ result = Result(ServerError, copy, Absent))
        BY <1>8, <1>11, <1>12, <2>1, <3>2
      <4>2. CASE result = Result(Ok, call.means, Absent)
        BY <1>10, <3>1, <3>2, <4>2
      <4>3. CASE result = Result(ServerError, copy, Absent)
        BY <1>10, <3>1, <4>1, <4>3
      <4> QED
        BY <4>1, <4>2, <4>3
    <3>3. CASE call.method # "PATCH" \/ copy = Absent
      BY <1>9, <1>10, <3>1, <3>3
    <3> QED
      BY <3>2, <3>3
  <2>2. Undisturbed' => ~overtaken'
    BY DEF Undisturbed
  <2>3. /\ call'.reply.code = reply.code /\ call'.reply.data = reply.data /\ acked' = acked
        /\ call' # NoCall /\ call'.reply # Unset
        /\ call'.method = call.method /\ call'.means = call.means
    BY <1>3, <1>5
  <2>4. Learn(call.reply.code)' = learned
    BY <2>3 DEF Learn
  <2> HIDE DEF learned
  <2>5. Undisturbed' => /\ Learn(call.reply.code)' # Unknown => copy' = Learn(call.reply.code)'
                        /\ call'.reply.code = ServerError => copy' = acked'
    BY <2>1, <2>2, <2>3, <2>4
  <2> QED
    BY <2>3, <2>5 DEF Agrees
<1> QED
  BY <1>6, <1>7, <1>13, <1>14

\* A late call is handled, and the owner does not hear of it.
LEMMA HandleLateInv == ASSUME Inv, HandleLate PROVE Inv'
<1> USE DEF Inv
<1>1. copy' \in Object \cup {Absent}
  BY DispatchIsTyped DEF HandleLate, TypeOK, Call
<1>2. /\ overtaken' = (overtaken \/ copy' # copy) /\ late' = NoCall
      /\ UNCHANGED <<profile, own, clock, acked, call, forgotten, was, losses, restarts>>
  BY DEF HandleLate
<1>3. TypeOK'
  BY <1>1, <1>2 DEF TypeOK
<1>4. CallInv' /\ Remembered' /\ ForgottenIsAbsent' /\ CopyIsASnapshot'
  BY <1>2 DEF CallInv, Remembered, ForgottenIsAbsent, CopyIsASnapshot
<1>5. Agrees'
  BY <1>2 DEF Agrees, Undisturbed, Learn
<1> QED
  BY <1>3, <1>4, <1>5

\* The receiver has lost its store.
LEMMA RestartInv == ASSUME Inv, Restart PROVE Inv'
<1> USE DEF Inv, Restart
<1>1. restarts' \in 0..MaxRestarts
  BY PushAssumption DEF TypeOK
<1>2. TypeOK'
  BY <1>1 DEF TypeOK
<1>3. CallInv' /\ Remembered' /\ ForgottenIsAbsent' /\ CopyIsASnapshot'
  BY DEF CallInv, Remembered, ForgottenIsAbsent, CopyIsASnapshot
<1>4. Agrees'
  BY DEF Agrees, Undisturbed, Learn
<1> QED
  BY <1>2, <1>3, <1>4

\* Every step keeps the invariant.
LEMMA NextInv == Inv /\ [Next]_vars => Inv'
<1> SUFFICES ASSUME Inv, [Next]_vars PROVE Inv'
  OBVIOUS
<1>1. CASE UNCHANGED vars
  <2> USE <1>1 DEF vars, Inv
  <2>1. TypeOK'
    BY DEF TypeOK
  <2>2. CallInv' /\ Remembered' /\ ForgottenIsAbsent' /\ CopyIsASnapshot'
    BY DEF CallInv, Remembered, ForgottenIsAbsent, CopyIsASnapshot
  <2>3. Agrees'
    BY DEF Agrees, Undisturbed, Learn
  <2> QED
    BY <2>1, <2>2, <2>3
<1>2. CASE Next
  BY <1>2, EditInv, CallingInv, AnsweredInv, FailInv, HandleInv, HandleLateInv, RestartInv
     DEF Next, Exchange
<1> QED
  BY <1>1, <1>2

LEMMA Invariance == Spec => []Inv
  BY InitInv, NextInv, PTL DEF Spec

-----------------------------------------------------------------------------
\* No sequence of calls stores what would not deserialize (patch_json).
THEOREM TypeCorrect == Spec => []TypeOK
<1>1. Inv => TypeOK
  BY DEF Inv
<1> QED
  BY <1>1, Invariance, PTL

\* What the owner believes acknowledged is stored, unless a restart or a late
\* call has gone unnoticed (put, patch_json, delete).
THEOREM AcknowledgedIsStored == Spec => []AckedIsStored
<1>1. Inv => AckedIsStored
  BY DEF Inv, Agrees, AckedIsStored
<1> QED
  BY <1>1, Invariance, PTL

\* The copy never mixes two versions of the object, but by a late PATCH.
THEOREM CopiesAreSnapshots == Spec => []CopyIsASnapshot
<1>1. Inv => CopyIsASnapshot
  BY DEF Inv
<1> QED
  BY <1>1, Invariance, PTL

\* A token that its owner has blocked is authorized only if another party has
\* one like it (authorize).
THEOREM BlockedTokensStayBlocked == Spec => []BlockedStaysBlocked
<1>1. Inv => BlockedStaysBlocked
  <2> SUFFICES ASSUME Inv, NEW others \in SUBSET Status,
                      Is(acked, Status \ Valid), Undisturbed,
                      call # NoCall => Is(call.means, Status \ Valid),
                      "ALLOWED" \in authorize(others \cup {o.status : o \in {copy} \ {Absent}})
               PROVE  others \cap Valid # {}
    BY DEF BlockedStaysBlocked
  <2>1. copy = Absent \/ Is(copy, Status \ Valid)
    <3>1. acked # Unknown /\ acked # Absent /\ Is(acked, Status \ Valid)
      BY DEF Is
    <3>2. CASE call = NoCall \/ call.reply = Unset
      BY <3>1, <3>2 DEF Inv, Agrees
    <3>3. CASE call # NoCall /\ call.reply # Unset
      <4>1. Is(call.means, Status \ Valid) /\ call.means # Unknown /\ call.method # "GET"
        BY <3>3 DEF Is, Inv, CallInv
      <4>2. call.reply.code \in {Ok, NotFound, ServerError}
        BY <3>3 DEF Inv, TypeOK, Call, Reply
      <4>3. \/ copy = Learn(call.reply.code)
            \/ Learn(call.reply.code) = Unknown
        BY <3>3 DEF Inv, Agrees
      <4>4. call.reply.code = ServerError => copy = acked
        BY <3>3 DEF Inv, Agrees
      <4> HIDE DEF Ok, NotFound, ServerError
      <4>5. CASE call.reply.code = Ok
        BY <4>1, <4>3, <4>5 DEF Learn
      <4>6. CASE call.reply.code = NotFound
        <5>1. Learn(call.reply.code) = Absent
          BY <4>6 DEF Learn, Ok, NotFound
        <5> QED
          BY <4>3, <5>1, PushAssumption
      <4>7. CASE call.reply.code = ServerError
        BY <3>1, <4>4, <4>7
      <4> QED
        BY <4>2, <4>5, <4>6, <4>7
    <3> QED
      BY <3>2, <3>3
  <2>2. PICK s \in others \cup {o.status : o \in {copy} \ {Absent}} : s \in Valid
    BY DEF authorize
  <2> QED
    BY <2>1, <2>2 DEF Is
<1> QED
  BY <1>1, Invariance, PTL

\* A driver who supplies what he is asked for comes to an end
\* (set_charging_preferences).
THEOREM PreferencesComeToAnEnd == Spec => []PreferencesSettle
<1>1. ASSUME NEW p \in Preferences
      PROVE  LET Answer(q) == set_charging_preferences(TRUE, q)
                 second == Supply(p, Answer(p))
                 third  == Supply(second, Answer(second))
             IN  Answer(third) = "ACCEPTED"
  BY DEF Preferences, Supply, set_charging_preferences
<1>2. Inv /\ KnownThere => copy # Absent
  <2> SUFFICES ASSUME Inv, KnownThere PROVE copy # Absent
    OBVIOUS
  <2>1. acked # Unknown /\ acked # Absent /\ Undisturbed
    BY DEF KnownThere
  <2>2. CASE call = NoCall \/ call.reply = Unset
    BY <2>1, <2>2 DEF Inv, Agrees
  <2>3. CASE call # NoCall /\ call.reply # Unset
    <3> HIDE DEF Ok, NotFound, ServerError
    <3>0. call.method # "GET"
      BY <2>1, <2>3 DEF Inv, CallInv
    <3>1. call.means # Absent /\ call.reply.code # NotFound
      BY <2>3 DEF KnownThere
    <3>2. call.reply.code \in {Ok, NotFound, ServerError}
      BY <2>3 DEF Inv, TypeOK, Call, Reply
    <3>3. call.means # Unknown
      BY <2>3, <3>0, PushAssumption DEF Inv, CallInv, TypeOK, Call
    <3>4. call.reply.code = ServerError => copy = acked
      BY <2>1, <2>3 DEF Inv, Agrees
    <3>5. Learn(call.reply.code) # Unknown => copy = Learn(call.reply.code)
      BY <2>1, <2>3 DEF Inv, Agrees
    <3>6. call.reply.code = Ok => Learn(call.reply.code) = call.means
      BY <3>0 DEF Learn
    <3> QED
      BY <2>1, <3>1, <3>2, <3>3, <3>4, <3>5, <3>6
  <2> QED
    BY <2>2, <2>3
<1>3. Inv => PreferencesSettle
  BY <1>1, <1>2 DEF PreferencesSettle
<1> QED
  BY <1>3, Invariance, PTL

-----------------------------------------------------------------------------
\* Exactly where the code's merge of a patch is not that of RFC 7396: where the
\* patch gives a nested object that is not there (json_merge).
THEOREM WhereMergesDiffer ==
  ASSUME NEW base \in Object, NEW patch \in Patch
  PROVE  json_merge(base, patch) # rfc7396_merge(base, patch)
           <=> base.total_cost = Null /\ patch.total_cost \notin {Null, Unset}
<1> DEFINE member == MergePrice(base.total_cost, patch.total_cost)
           rfc == rfc7396_member(base.total_cost, patch.total_cost)
<1>1. base.total_cost \in Price \cup {Null} /\ patch.total_cost \in PricePatch \cup {Null, Unset}
  BY DEF Object, Patch
<1>2. /\ base.total_cost # Null \/ patch.total_cost \in {Null, Unset} => member = rfc
      /\ base.total_cost = Null /\ patch.total_cost \notin {Null, Unset} => member # rfc
  BY <1>1, MembersMerge
<1>3. json_merge(base, patch).total_cost = member /\ rfc7396_merge(base, patch).total_cost = rfc
  BY DEF json_merge, rfc7396_merge
<1>4. member = rfc => json_merge(base, patch) = rfc7396_merge(base, patch)
  BY DEF json_merge, rfc7396_merge
<1> HIDE DEF member, rfc
<1> QED
  BY <1>2, <1>3, <1>4

\* What the handler of a PATCH leaves, if RFC 7396 agrees on the merge or the
\* patch cannot succeed.
LEMMA MergesAsItShould ==
  ASSUME copy \in Object, NEW patch \in Patch,
         \/ copy.total_cost # Null \/ patch.total_cost \in {Null, Unset}
         \/ patch.status = Null
  PROVE  patch_json(copy, patch).entry \in MergePatched(copy, patch)
<1> DEFINE merged == json_merge(copy, patch)
           rfc == rfc7396_merge(copy, patch)
<1>1. copy # Absent
  BY ObjectsAssumption
<1>2. patch_json(copy, patch) = IF merged \in from_value(merged) THEN Result(Ok, merged, Absent)
                                ELSE Result(ServerError, copy, Absent)
  BY <1>1, PatchJson
<1>3. from_value(merged) \in {{}, {merged}} /\ from_value(rfc) \in {{}, {rfc}}
  BY DEF from_value
<1>4. from_value(merged) = from_value(rfc) /\ (merged \in from_value(merged) => merged = rfc)
  <2>1. CASE merged = rfc
    BY <2>1
  <2>2. CASE merged # rfc
    <3>1. patch.status = Null
      BY <2>2, WhereMergesDiffer
    <3>2. merged.status = Null /\ rfc.status = Null
      BY <3>1, ObjectsAssumption DEF json_merge, rfc7396_merge, MergeValue
    <3>3. from_value(merged) = {} /\ from_value(rfc) = {}
      BY <3>2 DEF from_value
    <3> QED
      BY <3>3
  <2> QED
    BY <2>1, <2>2
<1>5. MergePatched(copy, patch) = IF from_value(rfc) = {} THEN {copy} ELSE from_value(rfc)
  BY DEF MergePatched
<1> HIDE DEF merged, rfc
<1>6. CASE merged \in from_value(merged)
  BY <1>2, <1>4, <1>5, <1>6 DEF Result
<1>7. CASE merged \notin from_value(merged)
  <2>1. from_value(rfc) = {}
    BY <1>3, <1>4, <1>7
  <2>2. MergePatched(copy, patch) = {copy}
    BY <1>5, <2>1
  <2>3. patch_json(copy, patch) = Result(ServerError, copy, Absent)
    BY <1>2, <1>7
  <2>4. Result(ServerError, copy, Absent).entry = copy
    BY DEF Result
  <2> QED
    BY <2>2, <2>3, <2>4
<1> QED
  BY <1>6, <1>7

\* Through lost and late calls, invalid patches and restarts: an owner that
\* knows the entry comes to a PATCH only where the code's merge is the
\* merge-patch of RFC 7396 (json_merge, patch_json).
THEOREM PatchesInStepMerge == Spec => PatchInStepIsMergePatch
<1>1. ASSUME Inv, Handle, call.method = "PATCH", copy # Absent, Undisturbed
      PROVE  copy' \in MergePatched(copy, call.body)
  <2>1. /\ call # NoCall /\ call.reply = Unset
        /\ copy' = Dispatch(call.method, call.body).entry
    BY <1>1 DEF Handle
  <2>2. copy' = patch_json(copy, call.body).entry
    BY <1>1, <2>1 DEF Dispatch
  <2>3. call.body \in Patch /\ call.means \in Object /\ acked \in Object
    BY <1>1, <2>1 DEF Inv, TypeOK, CallInv
  <2>4. copy = acked
    <3>1. Agrees /\ acked # Unknown
      BY <1>1, <2>3, PushAssumption DEF Inv
    <3> QED
      BY <1>1, <2>1, <3>1 DEF Agrees
  <2>5. \/ copy.total_cost # Null \/ call.body.total_cost \in {Null, Unset}
        \/ call.body.status = Null
    <3>1. CASE /\ call.body = Difference(acked, call.means)
               /\ acked.total_cost = Null => call.means.total_cost = Null
      BY <2>4, <3>1 DEF Difference, PriceChange
    <3>2. CASE call.body.status = Null
      BY <3>2
    <3> QED
      BY <1>1, <2>1, <3>1, <3>2 DEF Inv, CallInv
  <2> QED
    BY <2>2, <2>3, <2>4, <2>5, MergesAsItShould
<1>2. Inv => [(Handle /\ call.method = "PATCH" /\ copy # Absent /\ Undisturbed) =>
                copy' \in MergePatched(copy, call.body)]_vars
  BY <1>1
<1> QED
  BY <1>2, Invariance, PTL DEF PatchInStepIsMergePatch
=============================================================================
