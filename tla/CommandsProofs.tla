--------------------------- MODULE CommandsProofs ---------------------------
(***************************************************************************)
(* Theorems about Commands, for any number of calls and any services.      *)
(***************************************************************************)
EXTENDS Commands, TLAPS

USE DEF Verdict, Open

-----------------------------------------------------------------------------
(***************************************************************************)
(* What is known of every call, and why no two of them are confused.       *)
(***************************************************************************)

\* A call asks for something its client has a function for, once it is sent;
\* it is answered when the receiver has handled it, and a Charge Point works
\* on it only if the answer accepts it, while the sender reckons with a result.
CallInv(q) ==
  /\ verdict[q] = "unsent" => q \notin requests /\ reply[q] = Nothing
  /\ verdict[q] # "unsent" => kind[q] \in service.asks
  /\ q \in requests => reply[q] = Nothing /\ verdict[q] \in {"asked", "unclear"}
  /\ point[q] # "idle" => reply[q] = "ACCEPTED"
  /\ verdict[q] = "refused" => reply[q] = "NOT_SUPPORTED"
  /\ point[q] = "working" => verdict[q] \in Open

\* A result on its way is that of an open call of its route.
ResultInv(m) ==
  /\ m.route = kind[m.of]
  /\ point[m.of] = "finished"
  /\ verdict[m.of] \in Open

\* The sender has one open call on each route.
OneOpen ==
  \A p, q \in Id : verdict[p] \in Open /\ verdict[q] \in Open /\ kind[p] = kind[q] => p = q

Inv ==
  /\ TypeOK
  /\ \A q \in Id : CallInv(q)
  /\ \A m \in results : ResultInv(m)
  /\ OneOpen
  /\ ResultIsMeant

\* A result finds exactly the call it is the result of.
LEMMA OneCandidate ==
  ASSUME Inv, NEW m \in results, NEW q \in Id, kind[q] = m.route, verdict[q] \in Open
  PROVE  q = m.of
  BY DEF Inv, TypeOK, ResultInv, OneOpen

-----------------------------------------------------------------------------
\* Before the first call there is nothing to confuse (Init).
LEMMA InitInv == Init => Inv
  BY CommandsAssumption DEF Init, Inv, TypeOK, CallInv, ResultInv, OneOpen, ResultIsMeant

\* Sending: the new call's route is free (post_command).
LEMMA SendInv ==
  ASSUME Inv, NEW q \in Id, NEW k \in service.asks, post_command(q, k)
  PROVE  Inv'
<1> USE DEF Inv, post_command, RouteIsFree
<1>1. TypeOK'
  BY CommandsAssumption DEF TypeOK, CallInv
<1>2. \A p \in Id : CallInv(p)'
  BY CommandsAssumption DEF TypeOK, CallInv
<1>3. \A m \in results' : ResultInv(m)'
  BY CommandsAssumption DEF TypeOK, ResultInv, CallInv
<1>4. OneOpen'
  BY DEF TypeOK, OneOpen
<1>5. ResultIsMeant'
  BY DEF ResultIsMeant
<1> QED
  BY <1>1, <1>2, <1>3, <1>4, <1>5

\* What the sender learns from an answer, a failure or its clock: verdict
\* changes, and stays among the open ones unless the call was refused.
LEMMA VerdictInv ==
  ASSUME Inv, NEW q \in Id, Answered(q) \/ Fail(q) \/ Expire(q)
  PROVE  Inv'
<1> USE DEF Inv, Answered, Fail, Expire, Lossy
<1>1. TypeOK'
  BY CommandsAssumption DEF TypeOK
<1>2. \A p \in Id : CallInv(p)'
  BY CommandsAssumption DEF TypeOK, CallInv
<1>3. \A m \in results' : ResultInv(m)'
  BY CommandsAssumption DEF TypeOK, ResultInv, CallInv
<1>4. OneOpen'
  BY CommandsAssumption DEF TypeOK, OneOpen
<1>5. ResultIsMeant'
  BY DEF ResultIsMeant
<1> QED
  BY <1>1, <1>2, <1>3, <1>4, <1>5

\* A result is taken for that of the one call it can be of, and is gone.
LEMMA ReceiveInv ==
  ASSUME Inv, NEW m \in results, receive_result(m)
  PROVE  Inv'
<1> DEFINE q == m.of
<1> USE DEF Inv, receive_result
<1>1. q \in Id /\ ResultInv(m)
  BY DEF TypeOK
<1>2. \/ /\ verdict' = [verdict EXCEPT ![q] = "done"]
         /\ credited' = [credited EXCEPT ![q] = q]
      \/ UNCHANGED <<verdict, credited>>
  BY OneCandidate
<1>3. /\ results' = results \ {m}
      /\ UNCHANGED <<service, placeholder, kind, requests, reply, point, losses>>
  OBVIOUS
<1> HIDE DEF q, receive_result
<1>4. TypeOK'
  BY <1>1, <1>2, <1>3 DEF TypeOK
<1>5. \A p \in Id : CallInv(p)'
  <2> SUFFICES ASSUME NEW p \in Id PROVE CallInv(p)'
    OBVIOUS
  <2>1. CallInv(p)
    OBVIOUS
  <2>2. p = q => reply[p] = "ACCEPTED" /\ verdict[p] # "unsent" /\ point[p] = "finished"
    BY <1>1, <2>1 DEF CallInv, ResultInv, q
  <2>3. verdict'[p] = IF p = q /\ verdict' # verdict THEN "done" ELSE verdict[p]
    BY <1>1, <1>2 DEF TypeOK
  <2> QED
    BY <1>3, <2>1, <2>2, <2>3, CommandsAssumption DEF CallInv
<1>6. ASSUME NEW n \in results' PROVE ResultInv(n)' /\ n.of # q
  <2>1. n \in results /\ n # m
    BY <1>3
  <2>2. n.of # q
    BY <1>1, <2>1 DEF TypeOK, ResultInv, q
  <2> QED
    BY <1>1, <1>2, <1>3, <2>1, <2>2 DEF TypeOK, ResultInv
<1>7. OneOpen'
  BY <1>1, <1>2, <1>3 DEF TypeOK, OneOpen
<1>8. ResultIsMeant'
  BY <1>1, <1>2, <1>3 DEF TypeOK, ResultIsMeant
<1> QED
  BY <1>4, <1>5, <1>6, <1>7, <1>8

\* The receiver handles a request (commands_router and its handlers).
LEMMA HandleInv ==
  ASSUME Inv, NEW q \in Id, handle(q)
  PROVE  Inv'
<1> USE DEF Inv, handle, Reply
<1>1. TypeOK'
  BY CommandsAssumption DEF TypeOK, CallInv
<1>2. \A p \in Id : CallInv(p)'
  BY CommandsAssumption DEF TypeOK, CallInv
<1>3. \A m \in results' : ResultInv(m)'
  BY CommandsAssumption DEF TypeOK, ResultInv, CallInv
<1>4. OneOpen' /\ ResultIsMeant'
  BY DEF OneOpen, ResultIsMeant
<1> QED
  BY <1>1, <1>2, <1>3, <1>4

\* The result of an accepted call goes out (post_command_result), or is lost.
LEMMA ResultsInv ==
  ASSUME Inv, \/ \E q \in Id : post_command_result(q)
              \/ \E m \in results : LoseResult(m)
  PROVE  Inv'
<1> USE DEF Inv, OneOpen, ResultIsMeant
<1>1. CASE \E q \in Id : post_command_result(q)
  <2> PICK q \in Id : post_command_result(q)
    BY <1>1
  <2> USE DEF post_command_result
  <2>1. TypeOK'
    BY CommandsAssumption DEF TypeOK, CallInv
  <2>2. \A p \in Id : CallInv(p)'
    BY DEF TypeOK, CallInv
  <2>3. \A m \in results' : ResultInv(m)'
    BY DEF TypeOK, CallInv, ResultInv
  <2> QED
    BY <2>1, <2>2, <2>3
<1>2. CASE \E m \in results : LoseResult(m)
  BY <1>2, CommandsAssumption DEF TypeOK, CallInv, ResultInv, LoseResult, Lossy
<1> QED
  BY <1>1, <1>2

\* Every step keeps the invariant.
LEMMA NextInv == Inv /\ [Next]_vars => Inv'
<1> SUFFICES ASSUME Inv, [Next]_vars PROVE Inv'
  OBVIOUS
<1>1. CASE \E q \in Id : Answered(q) \/ Fail(q) \/ Expire(q)
  BY <1>1, VerdictInv
<1>2. CASE \E q \in Id, k \in service.asks : post_command(q, k)
  BY <1>2, SendInv
<1>3. CASE \E m \in results : receive_result(m)
  BY <1>3, ReceiveInv
<1>4. CASE \E q \in Id : handle(q)
  BY <1>4, HandleInv
<1>5. CASE (\E q \in Id : post_command_result(q)) \/ \E m \in results : LoseResult(m)
  BY <1>5, ResultsInv
<1>6. CASE UNCHANGED vars
  BY <1>6 DEF vars, Inv, TypeOK, CallInv, ResultInv, OneOpen, ResultIsMeant
<1> QED
  BY <1>1, <1>2, <1>3, <1>4, <1>5, <1>6 DEF Next, Sender, Receiver

LEMMA Invariance == Spec => []Inv
  BY InitInv, NextInv, PTL DEF Spec

-----------------------------------------------------------------------------
\* Every variable has its type, and only what the receiver has a handler for
\* gets to a Charge Point.
THEOREM TypeCorrect == Spec => []TypeOK
<1>1. Inv => TypeOK
  BY DEF Inv
<1> QED
  BY <1>1, Invariance, PTL

\* A sender with one open call per route never takes a result for that of
\* another call, however many calls it makes and loses (cmds_receive_result).
THEOREM ResultsAreMeant == Spec => []ResultIsMeant
<1>1. Inv => ResultIsMeant
  BY DEF Inv
<1> QED
  BY <1>1, Invariance, PTL

\* What was refused never gets to a Charge Point (post_command).
THEOREM RefusalIsFinal == Spec => []RefusedIsNotExecuted
<1>1. Inv => RefusedIsNotExecuted
  BY CommandsAssumption DEF Inv, TypeOK, CallInv, RefusedIsNotExecuted
<1> QED
  BY <1>1, Invariance, PTL
=============================================================================
