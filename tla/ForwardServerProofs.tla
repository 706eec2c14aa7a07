------------------------- MODULE ForwardServerProofs ------------------------
(***************************************************************************)
(* Theorems about ForwardServer, for any set of clients and streams of any *)
(* length.                                                                 *)
(***************************************************************************)
EXTENDS ForwardServer, TLAPS

(* The stage of a connection says where its segments are: they count from  *)
(* the CONNECT on, its socket is paused until the application has decided, *)
(* and then the target has the head.                                       *)
StreamOf(c) ==
  /\ stage[c] \in {"none", "http"} => head[c] = 0 /\ wire[c] = 0 /\ sent[c] = 0
  /\ stage[c] = "asked" => ~flowing[c] /\ head[c] + wire[c] = sent[c]
  /\ stage[c] = "bound" => forwarded[c] + wire[c] = sent[c]

StreamInv == \A c \in Clients : StreamOf(c)

(* The list an open socket is in follows from its stage.                   *)
RegistryOf(c) ==
  /\ sock[c] = "none" => stage[c] = "none"
  /\ sock[c] = "open" => /\ stage[c] # "none"
                         /\ c \in httpSockets <=> stage[c] = "http"
                         /\ c \in connections <=> stage[c] # "http"
  /\ c \in httpSockets \cup connections => sock[c] \in {"open", "destroyed"}
  /\ closing => sock[c] # "open"

RegistryInv == \A c \in Clients : RegistryOf(c)

IInv == TypeOK /\ StreamInv /\ RegistryInv

-----------------------------------------------------------------------------
USE ForwardAssumption DEF streamVars, tunnelVars, closeVars

LEMMA InitInv == Init => IInv
<1> SUFFICES ASSUME Init PROVE IInv
  OBVIOUS
<1>1. TypeOK
  <2>1. /\ wrapped \in BOOLEAN
        /\ fin \in [Clients -> BOOLEAN]
        /\ flowing \in [Clients -> BOOLEAN]
        /\ gotEnd \in [Clients -> BOOLEAN]
        /\ ended \in [Clients -> BOOLEAN]
        /\ last \in [Clients -> BOOLEAN]
        /\ closing \in BOOLEAN
        /\ resolved \in BOOLEAN
    BY Zenon DEF Init
  <2>2. replies \in [Clients -> SUBSET Statuses]
    BY DEF Init
  <2> QED BY <2>1, <2>2 DEF Init, TypeOK, Stages
<1>2. StreamInv /\ RegistryInv
  BY DEF Init, StreamInv, StreamOf, RegistryInv, RegistryOf
<1> QED BY <1>1, <1>2 DEF IInv

(* What a status line makes of the replies.                                *)
LEMMA RespondType ==
  ASSUME TypeOK, NEW c \in Clients, NEW status \in Statuses, Respond(c, status)
  PROVE  replies' \in [Clients -> SUBSET Statuses]
<1>1. replies[c] \cup {status} \in SUBSET Statuses
  BY DEF TypeOK
<1> QED BY <1>1 DEF Respond, TypeOK

LEMMA StepType == ASSUME TypeOK, NEW c \in Clients, Step(c) PROVE TypeOK'
<1>0. "405" \in Statuses /\ "200" \in Statuses /\ "error" \in Statuses
  BY DEF Statuses
<1>1. CASE Send(c)
  BY <1>1 DEF Send, TypeOK
<1>2. CASE Fin(c)
  <2>1. fin' \in [Clients -> BOOLEAN]
    BY <1>2, Zenon DEF Fin, TypeOK
  <2> QED BY <1>2, <2>1 DEF Fin, TypeOK
<1>3. CASE Reset(c)
  BY <1>3 DEF Reset, TypeOK
<1>4. CASE Accept(c)
  <2>1. flowing' \in [Clients -> BOOLEAN]
    BY <1>4, Zenon DEF Accept, TypeOK
  <2> QED BY <1>4, <2>1 DEF Accept, TypeOK, Stages
<1>5. CASE PlainRequest(c)
  <2>1. last' \in [Clients -> BOOLEAN]
    BY <1>5, Zenon DEF PlainRequest, NotKeptAlive, TypeOK
  <2>2. replies' \in [Clients -> SUBSET Statuses]
    <3>1. replies[c] \cup {"405"} \in SUBSET Statuses
      BY <1>0 DEF TypeOK
    <3> QED BY <1>5, <3>1 DEF PlainRequest, TypeOK
  <2> QED BY <1>5, <2>1, <2>2 DEF PlainRequest, TypeOK
<1>6. CASE ConnectRequest(c)
  <2>1. flowing' \in [Clients -> BOOLEAN]
    BY <1>6, Zenon DEF ConnectRequest, TypeOK
  <2>2. /\ sent' \in [Clients -> Nat]
        /\ head' \in [Clients -> Nat]
        /\ wire' \in [Clients -> Nat]
    BY <1>6 DEF ConnectRequest, TypeOK
  <2> QED BY <1>6, <2>1, <2>2 DEF ConnectRequest, Registered, TypeOK, Stages
<1>7. CASE Bind(c)
  <2>1. flowing' \in [Clients -> BOOLEAN]
    BY <1>7, Zenon DEF Bind, TypeOK
  <2> QED BY <1>0, <1>7, <2>1, RespondType DEF Bind, TypeOK, Stages
<1>8. CASE Refuse(c)
  <2>1. flowing' \in [Clients -> BOOLEAN] /\ ended' \in [Clients -> BOOLEAN]
    BY <1>8, Zenon DEF Refuse, Resumed, TypeOK
  <2> QED BY <1>0, <1>8, <2>1, RespondType DEF Refuse, TypeOK, Stages
<1>9. CASE Data(c)
  BY <1>9 DEF Data, TypeOK
<1>10. CASE EndOfStream(c)
  <2>1. gotEnd' \in [Clients -> BOOLEAN] /\ ended' \in [Clients -> BOOLEAN]
    BY <1>10, Zenon DEF EndOfStream, TypeOK
  <2> QED BY <1>10, <2>1 DEF EndOfStream, TypeOK
<1>11. CASE TargetEnds(c)
  <2>1. ended' \in [Clients -> BOOLEAN]
    BY <1>11, Zenon DEF TargetEnds, TypeOK
  <2> QED BY <1>11, <2>1 DEF TargetEnds, TypeOK
<1>12. CASE AutoDestroy(c)
  BY <1>12 DEF AutoDestroy, TypeOK
<1>13. CASE Close(c)
  BY <1>13 DEF Close, TypeOK
<1>14. CASE LastResponse(c)
  <2>1. ended' \in [Clients -> BOOLEAN]
    BY <1>14, Zenon DEF LastResponse, TypeOK
  <2> QED BY <1>14, <2>1 DEF LastResponse, TypeOK
<1> QED BY <1>1, <1>2, <1>3, <1>4, <1>5, <1>6, <1>7, <1>8, <1>9, <1>10, <1>11, <1>12, <1>13, <1>14
        DEF Step

(* A step of one client is no business of the others.                      *)
LEMMA StepOthers ==
  ASSUME TypeOK, NEW c \in Clients, Step(c), NEW d \in Clients, d # c
  PROVE  /\ sent'[d] = sent[d] /\ wire'[d] = wire[d] /\ sock'[d] = sock[d]
         /\ flowing'[d] = flowing[d] /\ stage'[d] = stage[d]
         /\ head'[d] = head[d] /\ forwarded'[d] = forwarded[d]
         /\ (d \in httpSockets' <=> d \in httpSockets)
         /\ (d \in connections' <=> d \in connections)
         /\ UNCHANGED closing
<1>1. /\ sent'[d] = sent[d] /\ wire'[d] = wire[d] /\ sock'[d] = sock[d]
      /\ stage'[d] = stage[d] /\ head'[d] = head[d] /\ forwarded'[d] = forwarded[d]
      /\ UNCHANGED closing
  BY DEF TypeOK, Step, Send, Fin, Reset, Accept, PlainRequest, LastResponse, ConnectRequest,
         Bind, Refuse, Data, EndOfStream, TargetEnds, AutoDestroy, Close
<1>2. flowing'[d] = flowing[d]
  BY DEF TypeOK, Step, Send, Fin, Reset, Accept, PlainRequest, LastResponse, ConnectRequest,
         Bind, Refuse, Resumed, Data, EndOfStream, TargetEnds, AutoDestroy, Close
<1>3. (d \in httpSockets' <=> d \in httpSockets) /\ (d \in connections' <=> d \in connections)
  BY DEF Step, Send, Fin, Reset, Accept, PlainRequest, LastResponse, ConnectRequest,
         Registered, Bind, Refuse, Data, EndOfStream, TargetEnds, AutoDestroy, Close
<1> QED BY <1>1, <1>2, <1>3

LEMMA StepStream ==
  ASSUME TypeOK, StreamInv, RegistryInv, NEW c \in Clients, Step(c)
  PROVE  StreamInv'
<1>1. StreamOf(c)'
  BY DEF StreamInv, StreamOf, RegistryInv, RegistryOf, TypeOK, Stages, Step, Send, Fin, Reset,
         Accept, PlainRequest, LastResponse, ConnectRequest, Bind, Refuse, Resumed, Data,
         EndOfStream, TargetEnds, AutoDestroy, Close
<1> QED BY <1>1, StepOthers DEF StreamInv, StreamOf

LEMMA StepRegistry ==
  ASSUME TypeOK, RegistryInv, NEW c \in Clients, Step(c)
  PROVE  RegistryInv'
<1>1. RegistryOf(c)'
  BY DEF RegistryInv, RegistryOf, TypeOK, Step, Send, Fin, Reset, Accept, PlainRequest,
         LastResponse, ConnectRequest, Registered, Bind, Refuse, Data, EndOfStream,
         TargetEnds, AutoDestroy, Close
<1> QED BY <1>1, StepOthers DEF RegistryInv, RegistryOf

(* close() and its promise.                                                *)
LEMMA ServerStep == ASSUME IInv, ServerClose \/ Resolve PROVE IInv'
<1>1. CASE ServerClose
  <2>1. TypeOK'
    <3>1. closing' \in BOOLEAN
      BY <1>1, Zenon DEF ServerClose
    <3> QED BY <1>1, <3>1 DEF ServerClose, IInv, TypeOK
  <2>2. StreamInv'
    BY <1>1 DEF ServerClose, IInv, StreamInv, StreamOf
  <2>3. RegistryInv'
    BY <1>1 DEF ServerClose, ClosedSockets, IInv, TypeOK, RegistryInv, RegistryOf
  <2> QED BY <2>1, <2>2, <2>3 DEF IInv
<1>2. CASE Resolve
  <2>1. resolved' \in BOOLEAN
    BY <1>2, Zenon DEF Resolve
  <2> QED BY <1>2, <2>1 DEF Resolve, IInv, TypeOK, StreamInv, StreamOf,
                            RegistryInv, RegistryOf
<1> QED BY <1>1, <1>2

-----------------------------------------------------------------------------
(* The invariant holds in every state of every connection.                 *)
THEOREM Invariance == Spec => []IInv
<1>1. IInv /\ [Next]_vars => IInv'
  <2> SUFFICES ASSUME IInv, [Next]_vars PROVE IInv'
    OBVIOUS
  <2>1. CASE ServerClose \/ Resolve
    BY <2>1, ServerStep
  <2>2. ASSUME NEW c \in Clients, Step(c) PROVE IInv'
    BY <2>2, StepType, StepStream, StepRegistry DEF IInv
  <2>3. CASE UNCHANGED vars
    BY <2>3 DEF vars, IInv, TypeOK, StreamInv, StreamOf, RegistryInv, RegistryOf
  <2> QED BY <2>1, <2>2, <2>3 DEF Next
<1> QED BY <1>1, InitInv, PTL DEF Spec

(* Every variable keeps its type.                                          *)
THEOREM ForwardTypeOK == Spec => []TypeOK
BY Invariance, PTL DEF IInv

(* The target gets what the client sent behind its CONNECT from the first  *)
(* byte, however much of it came with the CONNECT, before bind() or after. *)
THEOREM ForwardStreamIntact == Spec => []StreamIntact
<1>1. IInv => StreamIntact
  BY DEF IInv, TypeOK, Stages, StreamInv, StreamOf, StreamIntact
<1> QED BY <1>1, Invariance, PTL

(* Every open socket is in exactly one of the two lists that close()       *)
(* destroys, and none is open after it.                                    *)
THEOREM ForwardTracked == Spec => []Tracked
<1>1. IInv => Tracked
  BY Zenon DEF IInv, RegistryInv, RegistryOf, Tracked
<1> QED BY <1>1, Invariance, PTL
=============================================================================
