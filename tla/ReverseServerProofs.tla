------------------------- MODULE ReverseServerProofs ------------------------
(***************************************************************************)
(* Theorems about ReverseServer, for any set of clients, any size of a     *)
(* ClientHello and any limit on the head.                                  *)
(***************************************************************************)
EXTENDS ReverseServer, TLAPS

(* The limit is looked at after a segment is appended: a wait that goes on *)
(* has a head within it.                                                   *)
HeadOf(c) ==
  /\ outcome[c] = "none" => head[c] = 0
  /\ outcome[c] = "pending" => head[c] <= MaxHello
  /\ head[c] <= MaxHello + 1

HeadInv == \A c \in Clients : HeadOf(c)

(* An open socket flows only if somebody takes what it emits, or nobody    *)
(* has to any more: that is what keeps the stream whole.                   *)
StreamOf(c) ==
  /\ ~ended[c] => (IF bound[c] THEN forwarded[c] ELSE head[c]) + wire[c] = sent[c]
  /\ bound[c] => outcome[c] # "pending"
  /\ flowing[c] /\ sock[c] = "open" => bound[c] \/ ended[c] \/ outcome[c] = "pending"
  /\ flowing[c] => sock[c] # "none"

StreamInv == \A c \in Clients : StreamOf(c)

IInv == TypeOK /\ TimerGuardsWait /\ HeadInv /\ StreamInv /\ Tracked

-----------------------------------------------------------------------------
USE ReverseAssumption DEF streamVars, waitVars, serverVars

LEMMA InitInv == Init => IInv
<1> SUFFICES ASSUME Init PROVE IInv
  OBVIOUS
<1>1. TypeOK
  <2>1. /\ fin \in [Clients -> BOOLEAN]
        /\ flowing \in [Clients -> BOOLEAN]
        /\ waiting \in [Clients -> BOOLEAN]
        /\ timer \in [Clients -> BOOLEAN]
        /\ ended \in [Clients -> BOOLEAN]
        /\ bound \in [Clients -> BOOLEAN]
        /\ crashed \in [Clients -> BOOLEAN]
        /\ closing \in BOOLEAN
        /\ resolved \in BOOLEAN
    BY Zenon DEF Init
  <2> QED BY <2>1 DEF Init, TypeOK, Outcomes
<1>2. TimerGuardsWait /\ HeadInv /\ StreamInv /\ Tracked
  BY DEF Init, TimerGuardsWait, HeadInv, HeadOf, StreamInv, StreamOf, Tracked
<1> QED BY <1>1, <1>2 DEF IInv

(* How a wait may settle.                                                  *)
LEMMA SettleType ==
  ASSUME TypeOK, NEW c \in Clients, NEW how \in Outcomes, SettleWait(c, how)
  PROVE  /\ waiting' \in [Clients -> BOOLEAN]
         /\ timer' \in [Clients -> BOOLEAN]
         /\ outcome' \in [Clients -> Outcomes]
<1>1. waiting' \in [Clients -> BOOLEAN] /\ timer' \in [Clients -> BOOLEAN]
  BY Zenon DEF SettleWait, TypeOK
<1> QED BY <1>1 DEF SettleWait, TypeOK

LEMMA ListenType ==
  ASSUME TypeOK, NEW c \in Clients, Listen(c)
  PROVE  /\ head' \in [Clients -> Nat]
         /\ sock' \in [Clients -> {"none", "open", "destroyed", "closed"}]
         /\ flowing' \in [Clients -> BOOLEAN]
         /\ waiting' \in [Clients -> BOOLEAN]
         /\ timer' \in [Clients -> BOOLEAN]
         /\ outcome' \in [Clients -> Outcomes]
         /\ UNCHANGED forwarded
<1>1. flowing' \in [Clients -> BOOLEAN]
  BY Zenon DEF Listen, Paused, TypeOK
<1>2. /\ head' \in [Clients -> Nat]
      /\ sock' \in [Clients -> {"none", "open", "destroyed", "closed"}]
  BY DEF Listen, TypeOK
<1>3. \/ SettleWait(c, "routed") \/ SettleWait(c, "oversize") \/ UNCHANGED waitVars
  BY DEF Listen
<1>4. "routed" \in Outcomes /\ "oversize" \in Outcomes
  BY DEF Outcomes
<1> QED BY <1>1, <1>2, <1>3, <1>4, SettleType DEF Listen, TypeOK

LEMMA StepType == ASSUME TypeOK, NEW c \in Clients, Step(c) PROVE TypeOK'
<1>1. CASE Send(c)
  BY <1>1 DEF Send, TypeOK
<1>2. CASE Fin(c)
  <2>1. fin' \in [Clients -> BOOLEAN]
    BY <1>2, Zenon DEF Fin, TypeOK
  <2> QED BY <1>2, <2>1 DEF Fin, TypeOK
<1>3. CASE EndOfStream(c)
  BY <1>3 DEF EndOfStream, TypeOK
<1>4. CASE Reset(c)
  <2>1. crashed' \in [Clients -> BOOLEAN]
    BY <1>4, Zenon DEF Reset, TypeOK
  <2> QED BY <1>4, <2>1 DEF Reset, TypeOK
<1>5. CASE Accept(c)
  BY <1>5 DEF Accept, TypeOK
<1>6. CASE WaitSNI(c)
  <2>1. /\ waiting' \in [Clients -> BOOLEAN]
        /\ timer' \in [Clients -> BOOLEAN]
        /\ flowing' \in [Clients -> BOOLEAN]
    BY <1>6, Zenon DEF WaitSNI, TypeOK
  <2> QED BY <1>6, <2>1 DEF WaitSNI, TypeOK, Outcomes
<1>7. CASE Data(c)
  <2>1. wire' \in [Clients -> Nat]
    BY <1>7 DEF Data, TypeOK
  <2>2. forwarded' \in [Clients -> Nat]
    BY <1>7 DEF Data, Listen, TypeOK
  <2>3. CASE Listen(c)
    BY <1>7, <2>1, <2>2, <2>3, ListenType DEF Data, TypeOK
  <2>4. CASE ~Listen(c)
    BY <1>7, <2>1, <2>2, <2>4 DEF Data, TypeOK
  <2> QED BY <2>3, <2>4
<1>8. CASE Timeout(c)
  <2>1. "timeout" \in Outcomes
    BY DEF Outcomes
  <2> QED BY <1>8, <2>1, SettleType DEF Timeout, TypeOK
<1>9. CASE Bind(c)
  <2>1. bound' \in [Clients -> BOOLEAN] /\ flowing' \in [Clients -> BOOLEAN]
    BY <1>9, Zenon DEF Bind, TypeOK
  <2> QED BY <1>9, <2>1 DEF Bind, TypeOK
<1>10. CASE AppEnd(c)
  <2>1. ended' \in [Clients -> BOOLEAN] /\ flowing' \in [Clients -> BOOLEAN]
    BY <1>10, Zenon DEF AppEnd, Resumed, TypeOK
  <2> QED BY <1>10, <2>1 DEF AppEnd, TypeOK
<1>11. CASE Close(c)
  <2>1. "closed" \in Outcomes
    BY DEF Outcomes
  <2>2. /\ waiting' \in [Clients -> BOOLEAN]
        /\ timer' \in [Clients -> BOOLEAN]
        /\ outcome' \in [Clients -> Outcomes]
    BY <1>11, <2>1, SettleType DEF Close, TypeOK
  <2> QED BY <1>11, <2>2 DEF Close, TypeOK
<1> QED BY <1>1, <1>2, <1>3, <1>4, <1>5, <1>6, <1>7, <1>8, <1>9, <1>10, <1>11 DEF Step

(* A step of one client is no business of the others.                      *)
LEMMA StepOthers ==
  ASSUME TypeOK, NEW c \in Clients, Step(c), NEW d \in Clients, d # c
  PROVE  /\ sent'[d] = sent[d] /\ wire'[d] = wire[d] /\ sock'[d] = sock[d]
         /\ flowing'[d] = flowing[d] /\ head'[d] = head[d]
         /\ waiting'[d] = waiting[d] /\ timer'[d] = timer[d]
         /\ outcome'[d] = outcome[d] /\ ended'[d] = ended[d]
         /\ bound'[d] = bound[d] /\ forwarded'[d] = forwarded[d]
         /\ (d \in connections' <=> d \in connections)
         /\ UNCHANGED closing
BY DEF TypeOK, Step, Send, Fin, EndOfStream, Reset, Accept, WaitSNI, Data, Timeout,
       Bind, AppEnd, Close, Listen, SettleWait, Paused, Resumed

(* The timer and the listeners come and go with the wait.                  *)
LEMMA StepWait ==
  ASSUME TypeOK, TimerGuardsWait, NEW c \in Clients, Step(c)
  PROVE  TimerGuardsWait'
<1>1. (timer'[c] <=> outcome'[c] = "pending") /\ (waiting'[c] <=> outcome'[c] = "pending")
  BY DEF TimerGuardsWait, TypeOK, Step, Send, Fin, EndOfStream, Reset, Accept, WaitSNI, Data,
         Timeout, Bind, AppEnd, Close, Listen, SettleWait
<1> QED BY <1>1, StepOthers DEF TimerGuardsWait

LEMMA StepHead ==
  ASSUME TypeOK, TimerGuardsWait, HeadInv, NEW c \in Clients, Step(c)
  PROVE  HeadInv'
<1>1. HeadOf(c)'
  BY DEF HeadInv, HeadOf, TimerGuardsWait, TypeOK, Step, Send, Fin, EndOfStream, Reset,
         Accept, WaitSNI, Data, Timeout, Bind, AppEnd, Close, Listen, SettleWait, TooLong
<1> QED BY <1>1, StepOthers DEF HeadInv, HeadOf

LEMMA StepStream ==
  ASSUME TypeOK, TimerGuardsWait, HeadInv, StreamInv, NEW c \in Clients, Step(c)
  PROVE  StreamInv'
<1>1. StreamOf(c)'
  BY DEF StreamInv, StreamOf, HeadInv, HeadOf, TimerGuardsWait, TypeOK, Step, Send, Fin,
         EndOfStream, Reset, Accept, WaitSNI, Data, Timeout, Bind, AppEnd, Close, Listen,
         SettleWait, Paused, Resumed
<1> QED BY <1>1, StepOthers DEF StreamInv, StreamOf

LEMMA StepTracked ==
  ASSUME TypeOK, Tracked, NEW c \in Clients, Step(c)
  PROVE  Tracked'
<1>1. /\ sock'[c] = "open" => c \in connections'
      /\ c \in connections' => sock'[c] \in {"open", "destroyed"}
      /\ closing' => sock'[c] # "open"
  BY DEF Tracked, TypeOK, Step, Send, Fin, EndOfStream, Reset, Accept, WaitSNI, Data,
         Timeout, Bind, AppEnd, Close, Listen
<1> QED BY <1>1, StepOthers DEF Tracked

(* close() and its promise.                                                *)
LEMMA ServerStep == ASSUME IInv, ServerClose \/ Resolve PROVE IInv'
<1>1. CASE ServerClose
  <2>1. TypeOK'
    <3>1. closing' \in BOOLEAN
      BY <1>1, Zenon DEF ServerClose
    <3> QED BY <1>1, <3>1 DEF ServerClose, IInv, TypeOK
  <2>2. (TimerGuardsWait /\ HeadInv /\ StreamInv)'
    BY <1>1 DEF ServerClose, IInv, TypeOK, TimerGuardsWait, HeadInv, HeadOf, StreamInv, StreamOf
  <2>3. Tracked'
    BY <1>1 DEF ServerClose, ClosedSockets, IInv, TypeOK, Tracked
  <2> QED BY <2>1, <2>2, <2>3 DEF IInv
<1>2. CASE Resolve
  <2>1. resolved' \in BOOLEAN
    BY <1>2, Zenon DEF Resolve
  <2> QED BY <1>2, <2>1 DEF Resolve, IInv, TypeOK, TimerGuardsWait, HeadInv, HeadOf,
                            StreamInv, StreamOf, Tracked
<1> QED BY <1>1, <1>2

-----------------------------------------------------------------------------
(* The invariant holds in every state of every connection.                 *)
THEOREM Invariance == Spec => []IInv
<1>1. IInv /\ [Next]_vars => IInv'
  <2> SUFFICES ASSUME IInv, [Next]_vars PROVE IInv'
    OBVIOUS
  <2>1. CASE ServerClose \/ Resolve
    BY <2>1, ServerStep
  <2>2. ASSUME NEW c \in Clients, Step(c) PROVE IInv'
    BY <2>2, StepType, StepWait, StepHead, StepStream, StepTracked DEF IInv
  <2>3. CASE UNCHANGED vars
    BY <2>3 DEF vars, IInv, TypeOK, TimerGuardsWait, HeadInv, HeadOf, StreamInv, StreamOf, Tracked
  <2> QED BY <2>1, <2>2, <2>3 DEF Next
<1> QED BY <1>1, InitInv, PTL DEF Spec

(* Every variable keeps its type.                                          *)
THEOREM ReverseTypeOK == Spec => []TypeOK
BY Invariance, PTL DEF IInv

(* The target gets the client's stream from its first byte, whenever the   *)
(* application asks for the name, and however long it thinks before bind().*)
THEOREM ReverseStreamIntact == Spec => []StreamIntact
<1>1. IInv => StreamIntact
  BY DEF IInv, StreamInv, StreamOf, StreamIntact
<1> QED BY <1>1, Invariance, PTL

(* The SNI timer and the listeners of waitSNI() live exactly as long as    *)
(* its promise is pending.                                                 *)
THEOREM ReverseTimerGuardsWait == Spec => []TimerGuardsWait
BY Invariance, PTL DEF IInv

(* A head never holds more than the limit and one segment, for any limit   *)
(* and any ClientHello, be it longer than the limit.                       *)
THEOREM ReverseHeadBounded == Spec => []HeadBounded
<1>1. IInv => HeadBounded
  BY Zenon DEF IInv, HeadInv, HeadOf, HeadBounded
<1> QED BY <1>1, Invariance, PTL

(* Every open socket is in the list that close() destroys, and none is     *)
(* open after it.                                                          *)
THEOREM ReverseTracked == Spec => []Tracked
BY Invariance, PTL DEF IInv
=============================================================================
