----------------------------- MODULE TunnelProofs ----------------------------
(***************************************************************************)
(* Theorems about Tunnel, for any setups, streams of any length and any    *)
(* high water mark.                                                        *)
(***************************************************************************)
EXTENDS Tunnel, TLAPS

Sockets ==
  [Sides -> [connected : BOOLEAN, ended : BOOLEAN, ending : BOOLEAN, finished : BOOLEAN,
             destroyed : BOOLEAN, closed : BOOLEAN, timer : {"off", "idle", "connect"}]]

Flows ==
  [Sides -> [read : Nat, held : Nat, passed : Nat, flushed : Nat,
             stalled : BOOLEAN, piped : BOOLEAN]]

(* The SOCKS5 server drops what its client sends before bind().            *)
Drops(s) == Server = "socks5" /\ s = "client" /\ "send" \in Early

(* No FIN reaches a socket that would answer it with its own at once.      *)
FinWaits == Server = "forward" \/ "fin" \notin Early

(* What can have happened before bind(): nothing flows yet, and the client *)
(* has done what the setup lets it do.                                     *)
UnboundInv ==
  ~bound =>
    /\ \A s \in Sides : /\ flow[s].held = 0 /\ flow[s].passed = 0 /\ flow[s].flushed = 0
                        /\ ~flow[s].stalled /\ ~flow[s].piped
    /\ peer["target"].sent = 0 /\ ~peer["target"].fin /\ ~sock["target"].ending
    /\ peer["client"].fin => "fin" \in Early
    /\ "send" \notin Early => peer["client"].sent = Head
    /\ flow["target"].read = 0
    /\ flow["client"].read >= Head
    /\ ~Drops("client") => flow["client"].read = Head

(* A chunk is sent, read, held by a transform, passed and flushed in this  *)
(* order, and only discarded on the way.                                   *)
CountersOf(s) ==
  /\ flow[s].flushed <= flow[s].passed
  /\ flow[s].passed + flow[s].held <= flow[s].read
  /\ flow[s].read <= peer[s].sent
  /\ flow[s].held > 0 => s \in Transforms

CountersInv == \A s \in Sides : CountersOf(s)

(* The ends of the stream of s: 'end' on s says that it was read; the other*)
(* socket ends because s has ended or died, and has nothing to write when  *)
(* its FIN is out.                                                         *)
EndsOf(s) ==
  /\ sock[s].ended => peer[s].fin /\ flow[s].read = peer[s].sent
  /\ sock[Other(s)].finished => sock[Other(s)].ending /\ Written(s)
  /\ FinWaits /\ sock[Other(s)].ending => sock[s].ended \/ sock[s].destroyed

EndsInv == \A s \in Sides : EndsOf(s)

(* A pipe without a transform keeps nothing back from a live socket.       *)
RelayedOf(s) ==
  bound /\ s \notin Transforms /\ ~Drops(s) =>
    flow[s].passed = flow[s].read \/ sock[Other(s)].destroyed

RelayedInv == \A s \in Sides : RelayedOf(s)

(* A pipe that may write has room for a chunk, or still has the head before*)
(* it.                                                                     *)
Buffered(s) == flow[s].passed - flow[s].flushed

RoomOf(s) ==
  /\ ~flow[s].stalled => Buffered(s) < HighWater \/ (s = "client" /\ Buffered(s) <= Head)
  /\ Buffered(s) <= HighWater \/ (s = "client" /\ Buffered(s) <= Head + 1)

RoomInv == \A s \in Sides : RoomOf(s)

IInv ==
  /\ TypeOK /\ UnboundInv /\ CountersInv /\ EndsInv /\ RelayedInv /\ RoomInv
  /\ DrainBeforeFin

-----------------------------------------------------------------------------
(* Node's sockets: what an operator on them leaves and what it changes.    *)

LEMMA Sides2 == \A s \in Sides : Other(s) \in Sides /\ Other(s) # s /\ Other(Other(s)) = s
BY DEF Sides, Other

(* destroy() and end() go one way.                                         *)
Kept(k, m) ==
  \A d \in Sides : /\ m[d].connected = k[d].connected
                   /\ m[d].ended = k[d].ended
                   /\ m[d].finished = k[d].finished
                   /\ k[d].ending => m[d].ending
                   /\ k[d].destroyed => m[d].destroyed

LEMMA DestroyEffect ==
  ASSUME NEW k \in Sockets, NEW s \in Sides
  PROVE  /\ Destroy(k, s) \in Sockets
         /\ Destroy(k, s)[s].destroyed
         /\ \A d \in Sides : Destroy(k, s)[d].ending = k[d].ending
         /\ \A d \in Sides \ {s} : Destroy(k, s)[d] = k[d]
         /\ Kept(k, Destroy(k, s))
BY ZenonT(60) DEF Destroy, Sockets, Kept

LEMMA EndEffect ==
  ASSUME NEW k \in Sockets, NEW s \in Sides
  PROVE  /\ End(k, s) \in Sockets
         /\ End(k, s)[s].ending
         /\ \A d \in Sides : End(k, s)[d].destroyed = k[d].destroyed
         /\ \A d \in Sides \ {s} : End(k, s)[d] = k[d]
         /\ Kept(k, End(k, s))
BY ZenonT(60) DEF End, Sockets, Kept

LEMMA KeptTransitive ==
  ASSUME NEW k, NEW m, NEW n, Kept(k, m), Kept(m, n) PROVE Kept(k, n)
BY DEF Kept

LEMMA TunnelDestroyEffect ==
  ASSUME NEW k \in Sockets
  PROVE  /\ TunnelDestroy(k) \in Sockets
         /\ \A d \in Sides : TunnelDestroy(k)[d].destroyed
         /\ \A d \in Sides : TunnelDestroy(k)[d].ending = k[d].ending
         /\ Kept(k, TunnelDestroy(k))
<1> DEFINE m == Destroy(k, "client")
<1>1. "client" \in Sides /\ "target" \in Sides
  BY DEF Sides
<1>2. /\ m \in Sockets /\ m["client"].destroyed /\ Kept(k, m)
      /\ \A d \in Sides : m[d].ending = k[d].ending
  BY <1>1, DestroyEffect
<1>3. /\ Destroy(m, "target") \in Sockets /\ Destroy(m, "target")["target"].destroyed
      /\ Kept(m, Destroy(m, "target"))
      /\ \A d \in Sides : Destroy(m, "target")[d].ending = m[d].ending
  BY <1>1, <1>2, DestroyEffect
<1>4. TunnelDestroy(k) = Destroy(m, "target")
  BY DEF TunnelDestroy
<1> HIDE DEF m
<1> QED BY <1>1, <1>2, <1>3, <1>4, KeptTransitive DEF Kept, Sides

LEMMA AutoDestroyEffect ==
  ASSUME NEW k \in Sockets, NEW s \in Sides
  PROVE  /\ AutoDestroy(k, s) \in Sockets
         /\ Kept(k, AutoDestroy(k, s))
         /\ \A d \in Sides : AutoDestroy(k, s)[d].ending = k[d].ending
         /\ \A d \in Sides \ {s} : AutoDestroy(k, s)[d] = k[d]
         /\ AutoDestroy(k, s)[s].destroyed => \/ k[s].destroyed
                                              \/ k[s].ended /\ k[s].finished
BY DestroyEffect DEF AutoDestroy, Kept

LEMMA TimersEffect ==
  ASSUME NEW k \in Sockets
  PROVE  /\ BoundTimers(k) \in Sockets
         /\ Kept(k, BoundTimers(k))
         /\ \A d \in Sides : /\ BoundTimers(k)[d].ending = k[d].ending
                             /\ BoundTimers(k)[d].destroyed = k[d].destroyed
<1>1. ASSUME NEW m \in Sockets, NEW s \in Sides, NEW kind \in {"idle", "connect"}
      PROVE  /\ Arm(m, s, kind) \in Sockets
             /\ Kept(m, Arm(m, s, kind))
             /\ \A d \in Sides : /\ Arm(m, s, kind)[d].ending = m[d].ending
                                 /\ Arm(m, s, kind)[d].destroyed = m[d].destroyed
  BY <1>1 DEF Arm, Sockets, Kept
<1>2. "client" \in Sides /\ "target" \in Sides
  BY DEF Sides
<1>3. CASE IdleTimeout
  <2> DEFINE m == Arm(k, "client", "idle")
  <2>1. /\ m \in Sockets /\ Kept(k, m)
        /\ \A d \in Sides : m[d].ending = k[d].ending /\ m[d].destroyed = k[d].destroyed
    BY <1>1, <1>2
  <2>2. BoundTimers(k) = Arm(m, "target", "idle")
    BY <1>3 DEF BoundTimers
  <2> HIDE DEF m
  <2>3. /\ Arm(m, "target", "idle") \in Sockets /\ Kept(m, Arm(m, "target", "idle"))
        /\ \A d \in Sides : /\ Arm(m, "target", "idle")[d].ending = m[d].ending
                            /\ Arm(m, "target", "idle")[d].destroyed = m[d].destroyed
    BY <1>1, <1>2, <2>1
  <2> QED BY <2>1, <2>2, <2>3, KeptTransitive
<1>4. CASE ~IdleTimeout
  <2>1. Kept(k, k)
    BY DEF Kept
  <2>2. CASE BoundTimers(k) = k
    BY <2>1, <2>2
  <2>3. CASE BoundTimers(k) = Arm(k, "target", "connect")
    <3>1. /\ Arm(k, "target", "connect") \in Sockets
          /\ Kept(k, Arm(k, "target", "connect"))
          /\ \A d \in Sides : /\ Arm(k, "target", "connect")[d].ending = k[d].ending
                              /\ Arm(k, "target", "connect")[d].destroyed = k[d].destroyed
      BY <1>1, <1>2
    <3> QED BY <2>3, <3>1
  <2> QED BY <1>4, <2>2, <2>3 DEF BoundTimers
<1> QED BY <1>3, <1>4

(* What an error does to the sockets, and what is reported of it.          *)
LEMMA ErrorEffect ==
  ASSUME TypeOK, NEW s \in Sides, NEW code \in Codes, NEW tunnelled \in BOOLEAN,
         OnError(s, code, tunnelled)
  PROVE  /\ sock' \in Sockets /\ Kept(sock, sock') /\ reported' \subseteq Codes
         /\ \A d \in Sides : sock'[d].ending = sock[d].ending
         /\ sock'[s].destroyed
         /\ tunnelled => sock'[Other(s)].destroyed
         /\ ~tunnelled => sock'[Other(s)] = sock[Other(s)]
<1>1. sock \in Sockets
  BY DEF TypeOK, Sockets
<1>2. reported' \subseteq Codes
  BY DEF OnError, TypeOK, ServerReports, TunnelReports
<1> DEFINE m == Destroy(sock, s)
<1>3. /\ m \in Sockets /\ Kept(sock, m) /\ m[s].destroyed
      /\ \A d \in Sides : m[d].ending = sock[d].ending
      /\ m[Other(s)] = sock[Other(s)]
  BY <1>1, DestroyEffect, Sides2
<1>4. CASE tunnelled
  <2>1. sock' = TunnelDestroy(m)
    BY <1>4 DEF OnError
  <2> HIDE DEF m
  <2> QED BY <1>2, <1>3, <1>4, <2>1, TunnelDestroyEffect, KeptTransitive, Sides2
<1>5. CASE ~tunnelled
  <2>1. sock' = m
    BY <1>5 DEF OnError
  <2> HIDE DEF m
  <2> QED BY <1>2, <1>3, <1>5, <2>1
<1> QED BY <1>4, <1>5

-----------------------------------------------------------------------------
(* What each action does to the sockets.                                   *)

FlowRecord ==
  [read : Nat, held : Nat, passed : Nat, flushed : Nat, stalled : BOOLEAN, piped : BOOLEAN]

LEMMA Types ==
  ASSUME TypeOK
  PROVE  /\ sock \in Sockets /\ flow \in Flows /\ reported \subseteq Codes
         /\ \A s \in Sides : flow[s] \in FlowRecord
BY DEF TypeOK, Sockets, Flows, FlowRecord

(* The stream, the held chunks and the pipe are those of f; the chunk is   *)
(* passed, thrown away, or brings the tunnel down.                         *)
LEMMA WriteEffect ==
  ASSUME TypeOK, bound, NEW s \in Sides, NEW f \in FlowRecord, Write(s, f)
  PROVE  /\ sock' \in Sockets /\ Kept(sock, sock') /\ flow' \in Flows
         /\ reported' \subseteq Codes
         /\ \A d \in Sides : sock'[d].ending = sock[d].ending
         /\ \A d \in Sides \ {s} : flow'[d] = flow[d]
         /\ flow'[s].read = f.read /\ flow'[s].held = f.held
         /\ flow'[s].flushed = f.flushed /\ flow'[s].piped = f.piped
         /\ \/ /\ ~sock[Other(s)].ending
               /\ flow'[s].passed = f.passed + 1
               /\ flow'[s].stalled <=> f.passed + 1 - f.flushed >= HighWater
               /\ sock' = sock
            \/ /\ flow'[s].passed = f.passed /\ flow'[s].stalled
               /\ sock[Other(s)].destroyed /\ sock' = sock
            \/ /\ flow'[s].passed = f.passed /\ flow'[s].stalled
               /\ sock[Other(s)].ending /\ ~sock[Other(s)].destroyed
               /\ \A d \in Sides : sock'[d].destroyed
<1> DEFINE o == Other(s)
<1>1. o \in Sides /\ Other(o) = s /\ s # o /\ \A d \in Sides : d = s \/ d = o
  BY Sides2 DEF Sides
<1>2. /\ sock \in Sockets /\ flow \in Flows /\ reported \subseteq Codes
      /\ Kept(sock, sock)
  BY Types DEF Kept
<1> HIDE DEF o
<1>3. CASE ~sock[o].ending /\ ~sock[o].destroyed
  <2> DEFINE g == [f EXCEPT !.passed = @ + 1]
             h == [g EXCEPT !.stalled = Full(g)]
  <2>1. flow' = [flow EXCEPT ![s] = h] /\ sock' = sock /\ reported' = reported
    BY <1>3 DEF Write, o
  <2>2. /\ g \in FlowRecord
        /\ g.read = f.read /\ g.held = f.held /\ g.flushed = f.flushed /\ g.piped = f.piped
        /\ g.passed = f.passed + 1
    BY DEF FlowRecord
  <2>3. Full(g) \in BOOLEAN /\ (Full(g) <=> g.passed - g.flushed >= HighWater)
    BY DEF Full
  <2> HIDE DEF g
  <2>4. /\ h \in FlowRecord
        /\ h.read = f.read /\ h.held = f.held /\ h.flushed = f.flushed /\ h.piped = f.piped
        /\ h.passed = f.passed + 1
        /\ h.stalled <=> f.passed + 1 - f.flushed >= HighWater
    BY <2>2, <2>3 DEF FlowRecord
  <2> HIDE DEF h
  <2>5. flow'[s] = h /\ flow' \in Flows /\ \A d \in Sides \ {s} : flow'[d] = flow[d]
    BY <1>2, <2>1, <2>4 DEF Flows, FlowRecord
  <2> QED BY <1>2, <1>3, <2>1, <2>4, <2>5 DEF o
<1>4. CASE sock[o].destroyed
  <2>1. /\ flow' = [flow EXCEPT ![s] = [f EXCEPT !.stalled = TRUE]]
        /\ sock' = sock /\ reported' = reported
    BY <1>4 DEF Write, o
  <2>2. /\ flow' \in Flows
        /\ \A d \in Sides \ {s} : flow'[d] = flow[d]
        /\ flow'[s].read = f.read /\ flow'[s].held = f.held
        /\ flow'[s].flushed = f.flushed /\ flow'[s].piped = f.piped
        /\ flow'[s].passed = f.passed /\ flow'[s].stalled
    BY <1>2, <2>1 DEF Flows, FlowRecord
  <2> QED BY <1>2, <1>4, <2>1, <2>2 DEF o
<1>5. CASE sock[o].ending /\ ~sock[o].destroyed
  <2>1. /\ flow' = [flow EXCEPT ![s] = [f EXCEPT !.stalled = TRUE]]
        /\ OnError(o, "ERR_STREAM_WRITE_AFTER_END", bound)
    BY <1>5 DEF Write, o
  <2>2. /\ flow' \in Flows
        /\ \A d \in Sides \ {s} : flow'[d] = flow[d]
        /\ flow'[s].read = f.read /\ flow'[s].held = f.held
        /\ flow'[s].flushed = f.flushed /\ flow'[s].piped = f.piped
        /\ flow'[s].passed = f.passed /\ flow'[s].stalled
    BY <1>2, <2>1 DEF Flows, FlowRecord
  <2>3. "ERR_STREAM_WRITE_AFTER_END" \in Codes /\ bound \in BOOLEAN
    BY DEF Codes, Benign, TypeOK
  <2>4. /\ sock' \in Sockets /\ Kept(sock, sock') /\ reported' \subseteq Codes
        /\ \A d \in Sides : sock'[d].ending = sock[d].ending
        /\ sock'[o].destroyed /\ sock'[s].destroyed
    BY <1>1, <2>1, <2>3, ErrorEffect
  <2>5. \A d \in Sides : sock'[d].destroyed
    BY <1>1, <2>4
  <2> QED BY <1>5, <2>2, <2>4, <2>5 DEF o
<1> QED BY <1>3, <1>4, <1>5

(* Only pipes are put on or taken off.                                     *)
CountsKept ==
  /\ flow' \in Flows
  /\ \A d \in Sides : /\ flow'[d].read = flow[d].read /\ flow'[d].held = flow[d].held
                      /\ flow'[d].passed = flow[d].passed
                      /\ flow'[d].flushed = flow[d].flushed
                      /\ flow'[d].stalled = flow[d].stalled

LEMMA EndOfStreamEffect ==
  ASSUME TypeOK, NEW s \in Sides, EndOfStream(s)
  PROVE  /\ sock' \in Sockets
         /\ sock'[s].ended /\ sock'[Other(s)].ended = sock[Other(s)].ended
         /\ \A d \in Sides : sock'[d].finished = sock[d].finished
         /\ \A d \in Sides : sock[d].ending => sock'[d].ending
         /\ sock'[s].ending => sock[s].ending \/ ~HalfOpen
         /\ sock'[Other(s)].ending => sock[Other(s)].ending \/ bound
         /\ sock'[s].destroyed => sock[s].finished
         /\ sock'[Other(s)].destroyed = sock[Other(s)].destroyed
<1> DEFINE k == [sock EXCEPT ![s].ended = TRUE, ![s].ending = @ \/ ~HalfOpen]
           m == OnEnd(k, s)
<1>1. sock \in Sockets /\ Other(s) \in Sides /\ Other(s) # s /\ ~sock[s].destroyed
  BY Types, Sides2 DEF EndOfStream
<1>2. /\ k \in Sockets /\ k[s].ended /\ ~k[s].destroyed
      /\ k[s].finished = sock[s].finished
      /\ k[s].ending <=> sock[s].ending \/ ~HalfOpen
      /\ k[Other(s)] = sock[Other(s)]
  BY <1>1, ZenonT(60) DEF Sockets
<1>3. sock' = AutoDestroy(m, s)
  BY DEF EndOfStream
<1> HIDE DEF k
<1>4. /\ m \in Sockets /\ Kept(k, m) /\ m[s] = k[s]
      /\ m[Other(s)].destroyed = k[Other(s)].destroyed
      /\ m[Other(s)].ending => k[Other(s)].ending \/ bound
  <2>1. CASE bound
    BY <1>1, <1>2, <2>1, EndEffect DEF OnEnd
  <2>2. CASE ~bound
    <3>1. m = k
      BY <2>2 DEF OnEnd
    <3> QED BY <1>2, <3>1 DEF Kept
  <2> QED BY <2>1, <2>2
<1> HIDE DEF m
<1>5. /\ sock' \in Sockets /\ Kept(m, sock')
      /\ \A d \in Sides : sock'[d].ending = m[d].ending
      /\ sock'[Other(s)] = m[Other(s)]
      /\ sock'[s].destroyed => m[s].finished
  <2>1. /\ AutoDestroy(m, s) \in Sockets /\ Kept(m, AutoDestroy(m, s))
        /\ \A d \in Sides : AutoDestroy(m, s)[d].ending = m[d].ending
        /\ \A d \in Sides \ {s} : AutoDestroy(m, s)[d] = m[d]
        /\ AutoDestroy(m, s)[s].destroyed => m[s].destroyed \/ m[s].finished
    BY <1>4, AutoDestroyEffect, Zenon
  <2> HIDE DEF m
  <2>2. ~m[s].destroyed /\ Other(s) \in Sides \ {s}
    BY <1>1, <1>2, <1>4
  <2> QED BY <1>3, <2>1, <2>2, Zenon
<1>6. Kept(k, sock')
  BY <1>4, <1>5, KeptTransitive
<1> QED BY <1>1, <1>2, <1>4, <1>5, <1>6, Sides2 DEF Kept, Sides

LEMMA FinishEffect ==
  ASSUME TypeOK, NEW o \in Sides, Finish(o)
  PROVE  /\ sock' \in Sockets
         /\ sock'[o].finished /\ sock'[Other(o)] = sock[Other(o)]
         /\ sock'[o].ended = sock[o].ended /\ sock'[o].ending = sock[o].ending
         /\ sock'[o].destroyed => sock[o].ended
         /\ CountsKept
<1> DEFINE k == [sock EXCEPT ![o].finished = TRUE]
<1>1. /\ sock \in Sockets /\ flow \in Flows
      /\ Other(o) \in Sides /\ Other(o) # o /\ ~sock[o].destroyed
  BY Types, Sides2 DEF Finish
<1>2. /\ k \in Sockets /\ k[o].finished /\ ~k[o].destroyed
      /\ k[o].ended = sock[o].ended /\ k[o].ending = sock[o].ending
      /\ k[Other(o)] = sock[Other(o)]
  BY <1>1, ZenonT(60) DEF Sockets
<1>3. sock' = AutoDestroy(k, o)
  BY DEF Finish
<1> HIDE DEF k
<1>4. /\ sock' \in Sockets /\ Kept(k, sock')
      /\ \A d \in Sides : sock'[d].ending = k[d].ending
      /\ sock'[Other(o)] = k[Other(o)]
      /\ sock'[o].destroyed => k[o].ended
  BY <1>1, <1>2, <1>3, AutoDestroyEffect, ZenonT(60)
<1>5. CountsKept
  BY <1>1, ZenonT(60) DEF Finish, Flows, CountsKept
<1> QED BY <1>2, <1>4, <1>5 DEF Kept

LEMMA CloseEffect ==
  ASSUME TypeOK, NEW s \in Sides, Close(s)
  PROVE  /\ sock' \in Sockets
         /\ \A d \in Sides : /\ sock'[d].ended = sock[d].ended
                             /\ sock'[d].finished = sock[d].finished
                             /\ sock'[d].destroyed = sock[d].destroyed
                             /\ sock[d].ending => sock'[d].ending
         /\ sock'[s].ending = sock[s].ending
         /\ sock'[Other(s)].ending => sock[Other(s)].ending \/ bound
         /\ CountsKept
<1> DEFINE k == [sock EXCEPT ![s].closed = TRUE]
<1>1. sock \in Sockets /\ flow \in Flows /\ Other(s) \in Sides /\ Other(s) # s
  BY Types, Sides2
<1>2. /\ k \in Sockets
      /\ \A d \in Sides : /\ k[d].ended = sock[d].ended /\ k[d].finished = sock[d].finished
                          /\ k[d].destroyed = sock[d].destroyed
                          /\ k[d].ending = sock[d].ending
  BY <1>1, ZenonT(60) DEF Sockets
<1>3. sock' = OnClose(k, s)
  BY DEF Close
<1> HIDE DEF k
<1>4. CountsKept
  BY <1>1, ZenonT(60) DEF Close, Flows, CountsKept
<1>5. CASE bound
  <2> DEFINE m == End(k, Other(s))
  <2>1. sock' = m
    BY <1>3, <1>5 DEF OnClose
  <2>2. /\ m \in Sockets /\ Kept(k, m) /\ m[s] = k[s]
        /\ \A d \in Sides : m[d].destroyed = k[d].destroyed
    BY <1>1, <1>2, EndEffect
  <2> HIDE DEF m
  <2>3. \A d \in Sides : /\ m[d].ended = k[d].ended
                         /\ m[d].finished = k[d].finished
                         /\ k[d].ending => m[d].ending
    BY <2>2 DEF Kept
  <2> QED BY <1>1, <1>2, <1>4, <1>5, <2>1, <2>2, <2>3
<1>6. CASE ~bound
  <2>1. sock' = k
    BY <1>3, <1>6 DEF OnClose
  <2> QED BY <1>1, <1>2, <1>4, <2>1
<1> QED BY <1>5, <1>6

-----------------------------------------------------------------------------
(* Types.                                                                  *)

LEMMA SetupTypes ==
  ASSUME setup \in Setups
  PROVE  /\ Head \in Nat /\ Transforms \subseteq Sides
         /\ \A s \in Sides : Chunks(s) \in Nat
         /\ HighWater \in Nat /\ HighWater > 0
         /\ Server = "socks5" => Head = 0
BY TunnelAssumption DEF Setup, Head, Transforms, Chunks, Server

LEMMA InitInv == Init => IInv
<1> SUFFICES ASSUME Init PROVE IInv
  OBVIOUS
<1>1. setup \in Setups /\ Head \in Nat /\ HighWater \in Nat /\ HighWater > 0
  BY SetupTypes DEF Init
<1>2. TypeOK
  <2>1. /\ peer \in [Sides -> [sent : Nat, fin : BOOLEAN, reset : BOOLEAN]]
        /\ flow \in Flows
    BY <1>1 DEF Init, Flows
  <2>2. sock \in Sockets
    <3>1. \A s \in Sides : (s = "client" \/ Dial = "tunnelled") \in BOOLEAN
      BY Zenon
    <3> QED BY <3>1 DEF Init, Sockets
  <2>3. bound \in BOOLEAN /\ timedOut \in BOOLEAN /\ shut \in BOOLEAN
    BY Zenon DEF Init
  <2>4. reported = {}
    BY DEF Init
  <2> QED BY <1>1, <2>1, <2>2, <2>3, <2>4 DEF TypeOK, Sockets, Flows
<1>3. /\ "client" \in Sides /\ "target" \in Sides
      /\ \A s \in Sides : Other(s) \in Sides
  BY Sides2 DEF Sides
<1>4. UnboundInv
  BY <1>1, <1>3 DEF Init, UnboundInv
<1>5. CountersInv
  BY <1>1 DEF Init, CountersInv, CountersOf
<1>6. EndsInv /\ DrainBeforeFin
  BY <1>3 DEF Init, EndsInv, EndsOf, DrainBeforeFin, Drained
<1>7. RelayedInv
  BY DEF Init, RelayedInv, RelayedOf
<1>8. RoomInv
  BY <1>1 DEF Init, RoomInv, RoomOf, Buffered
<1> QED BY <1>2, <1>4, <1>5, <1>6, <1>7, <1>8 DEF IInv

(* What a chunk that is read or let go by a transform makes of its flow.   *)
LEMMA RelayedRecord ==
  ASSUME TypeOK, NEW s \in Sides
  PROVE  [flow[s] EXCEPT !.read = @ + 1] \in FlowRecord
BY Types DEF FlowRecord

LEMMA EmittedRecord ==
  ASSUME TypeOK, NEW s \in Sides, flow[s].held > 0
  PROVE  [flow[s] EXCEPT !.held = @ - 1] \in FlowRecord
BY Types DEF FlowRecord

LEMMA EmitsBound ==
  ASSUME TypeOK, UnboundInv, NEW s \in Sides, Emit(s) PROVE bound
BY DEF UnboundInv, Emit

Others == <<setup, peer, bound, timedOut, shut>>

(* A step of the sockets and flows alone.                                  *)
LEMMA TypeKept ==
  ASSUME TypeOK, sock' \in Sockets, flow' \in Flows, reported' \subseteq Codes, UNCHANGED Others
  PROVE  TypeOK'
BY DEF TypeOK, Sockets, Flows, Others

LEMMA PeerType ==
  ASSUME TypeOK, NEW s \in Sides, PeerStep(s) PROVE TypeOK'
<1>1. CASE PeerSend(s)
  BY <1>1, SMTT(30) DEF PeerSend, TypeOK
<1>2. CASE PeerFin(s)
  BY <1>2, ZenonT(60) DEF PeerFin, TypeOK
<1>3. CASE PeerReset(s)
  BY <1>3, ZenonT(60) DEF PeerReset, TypeOK
<1> QED BY <1>1, <1>2, <1>3 DEF PeerStep

LEMMA FlowType ==
  ASSUME TypeOK, UnboundInv, NEW s \in Sides,
         Relay(s) \/ Fill(s) \/ Emit(s) \/ Flush(s)
  PROVE  TypeOK'
<1>1. CASE Relay(s)
  BY <1>1, RelayedRecord, WriteEffect, TypeKept DEF Relay, Others
<1>2. CASE Emit(s)
  BY <1>2, EmittedRecord, EmitsBound, WriteEffect, TypeKept DEF Emit, Others
<1>3. CASE Fill(s)
  <2>1. flow' \in Flows
    BY <1>3, Types DEF Fill, Flows
  <2> QED BY <1>3, <2>1, Types, TypeKept DEF Fill, Others
<1>4. CASE Flush(s)
  <2>1. flow' \in Flows
    <3> DEFINE f == [flow[s] EXCEPT !.flushed = @ + 1]
               b == flow[s].stalled /\ ~Drains(s, f)
    <3>1. flow' = [flow EXCEPT ![s] = [f EXCEPT !.stalled = b]]
      BY <1>4 DEF Flush
    <3>2. f \in FlowRecord /\ f.stalled = flow[s].stalled
      BY Types DEF FlowRecord
    <3>3. b \in BOOLEAN
      BY Zenon
    <3> HIDE DEF f, b
    <3> QED BY <3>1, <3>2, <3>3, Types DEF Flows, FlowRecord
  <2> QED BY <1>4, <2>1, Types, TypeKept DEF Flush, Others
<1> QED BY <1>1, <1>2, <1>3, <1>4

LEMMA SocketType ==
  ASSUME TypeOK, NEW s \in Sides,
         EndOfStream(s) \/ Finish(s) \/ Close(s) \/ Fail(s) \/ Expire(s)
  PROVE  TypeOK'
<1>1. CASE EndOfStream(s)
  BY <1>1, EndOfStreamEffect, Types, TypeKept DEF EndOfStream, Others
<1>2. CASE Finish(s)
  BY <1>2, FinishEffect, Types, TypeKept DEF Finish, Others, CountsKept
<1>3. CASE Close(s)
  BY <1>3, CloseEffect, Types, TypeKept DEF Close, Others, CountsKept
<1>4. CASE Fail(s)
  <2>1. PICK code \in ErrorCodes(s) : OnError(s, code, bound)
    BY <1>4 DEF Fail
  <2>2. code \in Codes /\ bound \in BOOLEAN
    BY DEF ErrorCodes, Codes, Benign, TypeOK
  <2>3. sock' \in Sockets /\ reported' \subseteq Codes
    BY <2>1, <2>2, ErrorEffect
  <2> QED BY <1>4, <2>3, Types, TypeKept DEF Fail, Others
<1>5. CASE Expire(s)
  <2>1. sock' \in Sockets
    BY <1>5, Types, TunnelDestroyEffect DEF Expire
  <2>2. reported' \subseteq Codes
    BY <1>5, Types DEF Expire, TunnelReports, Codes
  <2>3. timedOut' \in BOOLEAN
    BY <1>5, Zenon DEF Expire
  <2> QED BY <1>5, <2>1, <2>2, <2>3 DEF Expire, TypeOK, Sockets
<1> QED BY <1>1, <1>2, <1>3, <1>4, <1>5

LEMMA BindEffect ==
  ASSUME TypeOK, Bind
  PROVE  /\ sock' \in Sockets /\ Kept(sock, sock') /\ flow' \in Flows
         /\ reported' \subseteq Codes
         /\ sock'["client"].ending = sock["client"].ending
         /\ sock'["target"].ending => sock["target"].ending \/ sock["client"].ended
         /\ \/ ReplyFails /\ \A d \in Sides : sock'[d].destroyed
            \/ \A d \in Sides : sock'[d].destroyed = sock[d].destroyed
         /\ flow'["client"].passed = Head
         /\ flow'["target"].passed = flow["target"].passed
         /\ \A d \in Sides : /\ flow'[d].read = flow[d].read /\ flow'[d].held = flow[d].held
                             /\ flow'[d].flushed = flow[d].flushed
                             /\ flow'[d].stalled = flow[d].stalled
<1>1. /\ sock \in Sockets /\ flow \in Flows /\ reported \subseteq Codes /\ Head \in Nat
      /\ "client" \in Sides /\ "target" \in Sides /\ Other("client") = "target"
  BY Types, SetupTypes DEF TypeOK, Sides, Other
<1>2. /\ flow' \in Flows
      /\ flow'["client"].passed = Head
      /\ flow'["target"].passed = flow["target"].passed
      /\ \A d \in Sides : /\ flow'[d].read = flow[d].read /\ flow'[d].held = flow[d].held
                          /\ flow'[d].flushed = flow[d].flushed
                          /\ flow'[d].stalled = flow[d].stalled
  BY <1>1, ZenonT(60) DEF Bind, Flows, Sides
<1>3. CASE ReplyFails
  <2>1. OnError("client", "EPIPE", TRUE)
    BY <1>3 DEF Bind
  <2>2. "EPIPE" \in Codes /\ TRUE \in BOOLEAN
    BY DEF Codes, Benign
  <2>3. /\ sock' \in Sockets /\ Kept(sock, sock') /\ reported' \subseteq Codes
        /\ \A d \in Sides : sock'[d].ending = sock[d].ending
        /\ sock'["client"].destroyed /\ sock'["target"].destroyed
    BY <1>1, <2>1, <2>2, ErrorEffect
  <2>4. \A d \in Sides : sock'[d].destroyed
    BY <2>3 DEF Sides
  <2> QED BY <1>1, <1>2, <1>3, <2>3, <2>4
<1>4. CASE ~ReplyFails
  <2> DEFINE k == BoundTimers(sock)
  <2>1. /\ sock' = IF sock["client"].ended THEN End(k, "target") ELSE k
        /\ reported' = reported
    BY <1>4 DEF Bind
  <2>2. /\ k \in Sockets /\ Kept(sock, k)
        /\ \A d \in Sides : k[d].ending = sock[d].ending /\ k[d].destroyed = sock[d].destroyed
    BY <1>1, TimersEffect
  <2> HIDE DEF k
  <2>3. CASE ~sock["client"].ended
    <3>1. sock' = k
      BY <2>1, <2>3
    <3> QED BY <1>1, <1>2, <2>1, <2>2, <3>1
  <2>4. CASE sock["client"].ended
    <3> DEFINE m == End(k, "target")
    <3>1. sock' = m
      BY <2>1, <2>4
    <3>2. /\ m \in Sockets /\ Kept(k, m) /\ m["client"] = k["client"]
          /\ \A d \in Sides : m[d].destroyed = k[d].destroyed
      BY <1>1, <2>2, EndEffect
    <3> HIDE DEF m
    <3>3. Kept(sock, m)
      BY <2>2, <3>2, KeptTransitive
    <3> QED BY <1>1, <1>2, <2>1, <2>2, <2>4, <3>1, <3>2, <3>3
  <2> QED BY <2>3, <2>4
<1> QED BY <1>3, <1>4

LEMMA ServerType ==
  ASSUME TypeOK, Bind \/ Connect \/ DropEarly \/ ServerClose
  PROVE  TypeOK'
<1>0. "client" \in Sides /\ "target" \in Sides
  BY DEF Sides
<1>1. CASE Bind
  <2>1. bound' \in BOOLEAN
    BY <1>1, Zenon DEF Bind
  <2> QED BY <1>1, <2>1, BindEffect DEF Bind, TypeOK, Sockets, Flows
<1>2. CASE Connect
  <2> DEFINE k == [sock EXCEPT !["target"].connected = TRUE]
  <2>1. sock' \in Sockets
    <3>1. k \in Sockets
      BY <1>0, Types, ZenonT(60) DEF Sockets
    <3>2. sock' = [k EXCEPT !["target"].timer = "off"]
      BY <1>2 DEF Connect, OnConnect
    <3> HIDE DEF k
    <3> QED BY <1>0, <3>1, <3>2, ZenonT(60) DEF Sockets
  <2> QED BY <1>2, <2>1, Types, TypeKept DEF Connect, Others
<1>3. CASE DropEarly
  <2>1. flow' \in Flows
    BY <1>0, <1>3, Types DEF DropEarly, Flows
  <2> QED BY <1>3, <2>1, Types, TypeKept DEF DropEarly, Others
<1>4. CASE ServerClose
  <2>1. sock' \in Sockets
    BY <1>0, <1>4, Types, DestroyEffect DEF ServerClose
  <2>2. shut' \in BOOLEAN
    BY <1>4, Zenon DEF ServerClose
  <2> QED BY <1>4, <2>1, <2>2 DEF ServerClose, TypeOK, Sockets
<1> QED BY <1>1, <1>2, <1>3, <1>4

LEMMA NextType == ASSUME TypeOK, UnboundInv, Next PROVE TypeOK'
BY PeerType, FlowType, SocketType, ServerType DEF Next, Step

LEMMA SetupKept ==
  ASSUME Next
  PROVE  /\ setup' = setup /\ Head' = Head /\ Transforms' = Transforms /\ Server' = Server
         /\ Early' = Early /\ FinWaits' = FinWaits
         /\ \A s : Drops(s)' = Drops(s) /\ Lossy(s)' = Lossy(s)
<1>1. setup' = setup
  BY ZenonT(60) DEF Next, PeerStep, PeerSend, PeerFin, PeerReset, Step, Relay, Fill, Emit, Flush,
         EndOfStream, Finish, Close, Fail, Expire, Bind, Connect, DropEarly, ServerClose
<1> QED BY <1>1 DEF Head, Transforms, Server, Early, FinWaits, Drops, Lossy

-----------------------------------------------------------------------------
(* The parts of the invariant, one after the other.                        *)

(* Errors, timers and close() destroy sockets and touch nothing else.      *)
Breaks(s) == Fail(s) \/ Expire(s) \/ ServerClose

LEMMA BreaksEffect ==
  ASSUME TypeOK, NEW s \in Sides, Breaks(s)
  PROVE  /\ sock' \in Sockets /\ Kept(sock, sock')
         /\ \A d \in Sides : sock'[d].ending = sock[d].ending
         /\ UNCHANGED <<setup, peer, flow, bound>>
<1>1. CASE Fail(s)
  <2>1. PICK code \in ErrorCodes(s) : OnError(s, code, bound)
    BY <1>1 DEF Fail
  <2>2. code \in Codes /\ bound \in BOOLEAN
    BY DEF ErrorCodes, Codes, Benign, TypeOK
  <2> QED BY <1>1, <2>1, <2>2, ErrorEffect DEF Fail
<1>2. CASE Expire(s)
  <2>1. sock' = TunnelDestroy(sock)
    BY <1>2 DEF Expire
  <2>2. /\ TunnelDestroy(sock) \in Sockets /\ Kept(sock, TunnelDestroy(sock))
        /\ \A d \in Sides : TunnelDestroy(sock)[d].ending = sock[d].ending
    BY Types, TunnelDestroyEffect
  <2> QED BY <1>2, <2>1, <2>2 DEF Expire
<1>3. CASE ServerClose
  <2>1. sock' = Destroy(sock, "client") /\ "client" \in Sides
    BY <1>3 DEF ServerClose, Sides
  <2>2. /\ Destroy(sock, "client") \in Sockets /\ Kept(sock, Destroy(sock, "client"))
        /\ \A d \in Sides : Destroy(sock, "client")[d].ending = sock[d].ending
    BY <2>1, Types, DestroyEffect, SMTT(30)
  <2> QED BY <1>3, <2>1, <2>2 DEF ServerClose
<1> QED BY <1>1, <1>2, <1>3 DEF Breaks

LEMMA BoundKept == ASSUME Next PROVE Bind \/ bound' = bound
BY ZenonT(60) DEF Next, PeerStep, PeerSend, PeerFin, PeerReset, Step, Relay, Fill, Emit, Flush,
       EndOfStream, Finish, Close, Fail, Expire, Connect, DropEarly, ServerClose

LEMMA StepUnbound ==
  ASSUME TypeOK, UnboundInv, Next PROVE UnboundInv'
<1> SUFFICES ASSUME ~bound' PROVE UnboundInv'
  BY DEF UnboundInv
<1>0. /\ Head' = Head /\ Early' = Early /\ Drops("client")' = Drops("client")
      /\ Head \in Nat
  BY SetupKept, SetupTypes DEF TypeOK
<1>1. ~bound /\ ~Bind
  <2>1. ~Bind
    BY DEF Bind
  <2> QED BY <2>1, BoundKept
<1>2. ASSUME NEW s \in Sides, PeerStep(s) PROVE UnboundInv'
  <2>1. s = "client"
    BY <1>1, <1>2 DEF PeerStep, PeerSend, PeerFin, PeerReset, PeerMay, UnboundInv
  <2> QED BY <1>0, <1>1, <1>2, <2>1
          DEF UnboundInv, PeerStep, PeerSend, PeerFin, PeerReset, PeerMay, TypeOK, Sides
<1>3. CASE DropEarly
  <2>1. Drops("client") /\ flow["client"].read \in Nat
    BY <1>1, <1>3 DEF DropEarly, Readable, UnboundInv, Drops, TypeOK, Sides
  <2> QED BY <1>0, <1>1, <1>3, <2>1 DEF UnboundInv, DropEarly, TypeOK, Sides
<1>4. ASSUME NEW s \in Sides PROVE ~(Relay(s) \/ Fill(s) \/ Emit(s) \/ Flush(s)) /\ ~Connect
  BY <1>1, EmitsBound DEF UnboundInv, Relay, Fill, Flush, Connect
<1>5. ASSUME NEW s \in Sides, EndOfStream(s) PROVE UnboundInv'
  <2>1. s # "target"
    BY <1>1, <1>5 DEF EndOfStream, UnboundInv
  <2>2. ~sock'["target"].ending
    BY <1>1, <1>5, <2>1, EndOfStreamEffect DEF UnboundInv, Sides, Other
  <2> QED BY <1>0, <1>1, <1>5, <2>2 DEF UnboundInv, EndOfStream
<1>6. ASSUME NEW s \in Sides, Finish(s) \/ Close(s) PROVE UnboundInv'
  <2>1. ~sock'["target"].ending
    BY <1>1, <1>6, FinishEffect, CloseEffect DEF UnboundInv, Sides, Other
  <2>2. CountsKept
    BY <1>6, FinishEffect, CloseEffect
  <2>3. \A d \in Sides : ~flow'[d].piped
    <3>1. flow' = [flow EXCEPT ![Other(s)].piped = FALSE] /\ flow \in Flows
      BY <1>6, Types DEF Finish, Close
    <3> QED BY <1>1, <3>1 DEF UnboundInv, Flows
  <2> QED BY <1>0, <1>1, <1>6, <2>1, <2>2, <2>3 DEF UnboundInv, CountsKept, Finish, Close, Sides
<1>7. ASSUME NEW s \in Sides, Breaks(s) PROVE UnboundInv'
  BY <1>0, <1>1, <1>7, BreaksEffect DEF UnboundInv, Sides
<1> QED BY <1>1, <1>2, <1>3, <1>4, <1>5, <1>6, <1>7 DEF Next, Step, Breaks, Sides

(* The steps that move no chunk.                                           *)
Quiet(s) == EndOfStream(s) \/ Finish(s) \/ Close(s) \/ Breaks(s) \/ Connect

LEMMA QuietEffect ==
  ASSUME TypeOK, NEW s \in Sides, Quiet(s)
  PROVE  CountsKept /\ UNCHANGED <<setup, peer, bound>>
<1>1. CASE Finish(s) \/ Close(s)
  BY <1>1, FinishEffect, CloseEffect DEF Finish, Close
<1>2. CASE EndOfStream(s) \/ Breaks(s) \/ Connect
  <2>1. flow' = flow
    BY <1>2, BreaksEffect DEF EndOfStream, Connect
  <2> QED BY <1>2, <2>1, Types, BreaksEffect DEF EndOfStream, Connect, CountsKept
<1> QED BY <1>1, <1>2 DEF Quiet

LEMMA NextCases ==
  ASSUME Next
  PROVE  \/ Bind \/ DropEarly
         \/ \E s \in Sides : PeerStep(s) \/ Relay(s) \/ Fill(s) \/ Emit(s) \/ Flush(s) \/ Quiet(s)
BY DEF Next, Step, Quiet, Breaks, Sides

(* A chunk written: the two ways it can go, for the counters.              *)
LEMMA ChunkEffect ==
  ASSUME TypeOK, UnboundInv, NEW s \in Sides, Relay(s) \/ Emit(s)
  PROVE  /\ bound /\ UNCHANGED <<setup, peer, bound>> /\ flow' \in Flows
         /\ sock' \in Sockets /\ Kept(sock, sock')
         /\ \A d \in Sides : sock'[d].ending = sock[d].ending
         /\ \A d \in Sides \ {s} : flow'[d] = flow[d]
         /\ flow'[s].flushed = flow[s].flushed
         /\ ~flow[s].stalled
         /\ \/ /\ flow[s].read < peer[s].sent /\ ~sock[s].destroyed /\ s \notin Transforms
               /\ flow'[s].read = flow[s].read + 1 /\ flow'[s].held = flow[s].held
            \/ /\ flow[s].held > 0
               /\ flow'[s].read = flow[s].read /\ flow'[s].held = flow[s].held - 1
         /\ \/ /\ ~sock[Other(s)].ending
               /\ flow'[s].passed = flow[s].passed + 1
               /\ flow'[s].stalled <=> flow'[s].passed - flow'[s].flushed >= HighWater
               /\ sock' = sock
            \/ /\ flow'[s].passed = flow[s].passed /\ flow'[s].stalled
               /\ sock[Other(s)].destroyed /\ sock' = sock
            \/ /\ flow'[s].passed = flow[s].passed /\ flow'[s].stalled
               /\ sock[Other(s)].ending /\ ~sock[Other(s)].destroyed
               /\ \A d \in Sides : sock'[d].destroyed
<1>1. CASE Relay(s)
  <2> DEFINE f == [flow[s] EXCEPT !.read = @ + 1]
  <2>1. /\ bound /\ Write(s, f) /\ ~flow[s].stalled /\ ~sock[s].destroyed /\ s \notin Transforms
        /\ flow[s].read < peer[s].sent /\ UNCHANGED <<setup, peer, bound>>
    BY <1>1 DEF Relay, Readable
  <2>2. /\ f \in FlowRecord /\ f.read = flow[s].read + 1 /\ f.held = flow[s].held
        /\ f.passed = flow[s].passed /\ f.flushed = flow[s].flushed
        /\ flow[s] \in FlowRecord
    BY Types DEF FlowRecord
  <2> HIDE DEF f
  <2> QED BY <2>1, <2>2, WriteEffect DEF FlowRecord
<1>2. CASE Emit(s)
  <2> DEFINE f == [flow[s] EXCEPT !.held = @ - 1]
  <2>1. /\ bound /\ Write(s, f) /\ ~flow[s].stalled /\ flow[s].held > 0
        /\ UNCHANGED <<setup, peer, bound>>
    BY <1>2, EmitsBound DEF Emit
  <2>2. /\ f \in FlowRecord /\ f.read = flow[s].read /\ f.held = flow[s].held - 1
        /\ f.passed = flow[s].passed /\ f.flushed = flow[s].flushed
        /\ flow[s] \in FlowRecord
    BY <2>1, Types, EmittedRecord DEF FlowRecord
  <2> HIDE DEF f
  <2> QED BY <1>2, <2>1, <2>2, WriteEffect DEF FlowRecord
<1> QED BY <1>1, <1>2

LEMMA FlushEffect ==
  ASSUME TypeOK, NEW s \in Sides, Flush(s)
  PROVE  /\ UNCHANGED <<setup, peer, sock, bound, reported>>
         /\ \A d \in Sides \ {s} : flow'[d] = flow[d]
         /\ flow[s].flushed < flow[s].passed
         /\ flow'[s].flushed = flow[s].flushed + 1
         /\ flow'[s].read = flow[s].read /\ flow'[s].held = flow[s].held
         /\ flow'[s].passed = flow[s].passed
         /\ ~flow'[s].stalled => \/ ~flow[s].stalled
                                \/ flow'[s].flushed = flow'[s].passed
<1> DEFINE f == [flow[s] EXCEPT !.flushed = @ + 1]
           g == [f EXCEPT !.stalled = @ /\ ~Drains(s, f)]
<1>1. flow' = [flow EXCEPT ![s] = g] /\ flow[s].flushed < flow[s].passed
  BY DEF Flush
<1>2. /\ f.read = flow[s].read /\ f.held = flow[s].held /\ f.passed = flow[s].passed
      /\ f.flushed = flow[s].flushed + 1 /\ f.stalled = flow[s].stalled
      /\ f \in FlowRecord
  BY Types DEF FlowRecord
<1>3. Drains(s, f) => f.flushed = f.passed
  BY DEF Drains
<1> HIDE DEF f
<1>4. /\ g.read = f.read /\ g.held = f.held /\ g.passed = f.passed /\ g.flushed = f.flushed
      /\ g.stalled <=> f.stalled /\ ~Drains(s, f)
  BY <1>2 DEF FlowRecord
<1> HIDE DEF g
<1>5. flow'[s] = g /\ \A d \in Sides \ {s} : flow'[d] = flow[d]
  BY <1>1, Types DEF Flows
<1> QED BY <1>1, <1>2, <1>3, <1>4, <1>5 DEF Flush

(* A peer sends until its FIN, and touches nothing of the proxy.            *)
LEMMA PeerEffect ==
  ASSUME TypeOK, NEW s \in Sides, PeerStep(s)
  PROVE  /\ UNCHANGED <<setup, sock, flow, bound, reported, timedOut, shut>>
         /\ \A d \in Sides :
              /\ \/ peer'[d].sent = peer[d].sent
                 \/ ~peer[d].fin /\ peer'[d].sent = peer[d].sent + 1
              /\ peer[d].fin => peer'[d].fin
              /\ peer[d].reset => peer'[d].reset
<1>1. peer \in [Sides -> [sent : Nat, fin : BOOLEAN, reset : BOOLEAN]]
  BY DEF TypeOK
<1>2. CASE PeerSend(s)
  BY <1>1, <1>2 DEF PeerSend
<1>3. CASE PeerFin(s)
  BY <1>1, <1>3 DEF PeerFin
<1>4. CASE PeerReset(s)
  BY <1>1, <1>4 DEF PeerReset
<1> QED BY <1>2, <1>3, <1>4 DEF PeerStep

LEMMA StepCounters ==
  ASSUME TypeOK, UnboundInv, CountersInv, Next PROVE CountersInv'
<1>0. /\ flow \in Flows /\ Transforms' = Transforms /\ Head \in Nat
      /\ \A s \in Sides : flow[s] \in FlowRecord /\ peer[s].sent \in Nat
  BY Types, SetupKept, SetupTypes DEF TypeOK
<1>1. CASE Bind
  <2>1. ~bound /\ peer' = peer
    BY <1>1 DEF Bind
  <2> QED BY <1>0, <1>1, <2>1, BindEffect
          DEF CountersInv, CountersOf, UnboundInv, Sides, FlowRecord
<1>2. CASE DropEarly
  <2>1. "client" \in Sides
    BY DEF Sides
  <2> QED BY <1>0, <1>2, <2>1 DEF DropEarly, Readable, CountersInv, CountersOf, Flows, FlowRecord
<1>3. ASSUME NEW s \in Sides, PeerStep(s) PROVE CountersInv'
  <2>1. /\ flow' = flow
        /\ \A d \in Sides : peer'[d].sent = peer[d].sent \/ peer'[d].sent = peer[d].sent + 1
    BY <1>3, PeerEffect
  <2> QED BY <1>0, <2>1 DEF CountersInv, CountersOf, FlowRecord
<1>4. ASSUME NEW s \in Sides, Relay(s) \/ Emit(s) PROVE CountersInv'
  BY <1>0, <1>4, ChunkEffect DEF CountersInv, CountersOf, FlowRecord
<1>5. ASSUME NEW s \in Sides, Fill(s) PROVE CountersInv'
  BY <1>0, <1>5 DEF Fill, Readable, CountersInv, CountersOf, Flows, FlowRecord
<1>6. ASSUME NEW s \in Sides, Flush(s) PROVE CountersInv'
  BY <1>0, <1>6, FlushEffect DEF CountersInv, CountersOf, FlowRecord
<1>7. ASSUME NEW s \in Sides, Quiet(s) PROVE CountersInv'
  BY <1>0, <1>7, QuietEffect DEF CountsKept, CountersInv, CountersOf
<1> QED BY <1>1, <1>2, <1>3, <1>4, <1>5, <1>6, <1>7, NextCases

LEMMA ConnectEffect ==
  ASSUME TypeOK, Connect
  PROVE  /\ \A d \in Sides : /\ sock'[d].ended = sock[d].ended
                             /\ sock'[d].ending = sock[d].ending
                             /\ sock'[d].finished = sock[d].finished
                             /\ sock'[d].destroyed = sock[d].destroyed
         /\ UNCHANGED <<setup, peer, flow, bound, reported, timedOut, shut>>
<1>1. sock \in Sockets /\ "target" \in Sides
  BY Types DEF Sides
<1>2. sock' = [[sock EXCEPT !["target"].connected = TRUE] EXCEPT !["target"].timer = "off"]
  BY DEF Connect, OnConnect
<1>3. \A d \in Sides : /\ sock'[d].ended = sock[d].ended
                       /\ sock'[d].ending = sock[d].ending
                       /\ sock'[d].finished = sock[d].finished
                       /\ sock'[d].destroyed = sock[d].destroyed
  BY <1>1, <1>2 DEF Sockets
<1> QED BY <1>3 DEF Connect

LEMMA StepEnds ==
  ASSUME TypeOK, UnboundInv, CountersInv, EndsInv, Next PROVE EndsInv'
<1>0. /\ flow \in Flows /\ FinWaits' = FinWaits /\ "client" \in Sides /\ "target" \in Sides
      /\ \A s \in Sides : /\ flow[s] \in FlowRecord /\ peer[s].sent \in Nat
                          /\ Other(s) \in Sides /\ Other(s) # s /\ Other(Other(s)) = s
  BY Types, SetupKept, Sides2 DEF TypeOK, Sides
<1>1. CASE Bind
  <2>1. ~bound /\ peer' = peer
    BY <1>1 DEF Bind
  <2>2. EndsOf("client")'
    BY <1>0, <1>1, <2>1, BindEffect
       DEF EndsInv, EndsOf, UnboundInv, Kept, Other, Written
  <2>3. EndsOf("target")'
    BY <1>0, <1>1, <2>1, BindEffect
       DEF EndsInv, EndsOf, UnboundInv, Kept, Other, Written
  <2> QED BY <2>2, <2>3 DEF EndsInv, Sides
<1>2. CASE DropEarly
  <2>1. /\ UNCHANGED <<sock, peer>> /\ flow["client"].read < peer["client"].sent
        /\ flow' = [flow EXCEPT !["client"].read = @ + 1]
    BY <1>2 DEF DropEarly, Readable
  <2>2. \A d \in Sides : /\ flow'[d].passed = flow[d].passed /\ flow'[d].flushed = flow[d].flushed
                         /\ d # "client" => flow'[d].read = flow[d].read
    BY <1>0, <2>1 DEF Flows
  <2> QED BY <1>0, <2>1, <2>2 DEF EndsInv, EndsOf, FlowRecord, Written
<1>3. ASSUME NEW s \in Sides, PeerStep(s) PROVE EndsInv'
  BY <1>0, <1>3, PeerEffect DEF EndsInv, EndsOf, Written
<1>4. ASSUME NEW s \in Sides, Relay(s) \/ Emit(s) PROVE EndsInv'
  BY <1>0, <1>4, ChunkEffect DEF EndsInv, EndsOf, FlowRecord, Kept, Written
<1>5. ASSUME NEW s \in Sides, Fill(s) PROVE EndsInv'
  BY <1>0, <1>5 DEF Fill, Readable, EndsInv, EndsOf, Flows, FlowRecord, Written
<1>6. ASSUME NEW s \in Sides, Flush(s) PROVE EndsInv'
  BY <1>0, <1>6, FlushEffect DEF EndsInv, EndsOf, FlowRecord, Written
<1>7. ASSUME NEW s \in Sides, EndOfStream(s) PROVE EndsInv'
  <2>1. /\ UNCHANGED <<flow, peer>>
        /\ peer[s].fin /\ flow[s].read = peer[s].sent /\ ~sock[s].destroyed
    BY <1>7 DEF EndOfStream
  <2>2. ~HalfOpen => ~FinWaits
    BY <1>0, <2>1 DEF HalfOpen, FinWaits, UnboundInv, Sides
  <2>3. EndsOf(s)'
    BY <1>0, <1>7, <2>1, EndOfStreamEffect DEF EndsInv, EndsOf, Written
  <2>4. EndsOf(Other(s))'
    BY <1>0, <1>7, <2>1, <2>2, EndOfStreamEffect DEF EndsInv, EndsOf, Written
  <2> QED BY <1>0, <2>3, <2>4 DEF EndsInv, Sides, Other
<1>8. ASSUME NEW s \in Sides, Finish(s) PROVE EndsInv'
  <2>1. peer' = peer /\ sock[s].ending /\ Written(Other(s)) /\ ~sock[s].destroyed
    BY <1>8 DEF Finish
  <2>2. EndsOf(s)'
    BY <1>0, <1>8, <2>1, FinishEffect DEF EndsInv, EndsOf, Written, CountsKept
  <2>3. EndsOf(Other(s))'
    BY <1>0, <1>8, <2>1, FinishEffect DEF EndsInv, EndsOf, Written, CountsKept
  <2> QED BY <1>0, <2>2, <2>3 DEF EndsInv, Sides, Other
<1>9. ASSUME NEW s \in Sides, Close(s) PROVE EndsInv'
  <2>1. peer' = peer /\ sock[s].destroyed
    BY <1>9 DEF Close
  <2>2. EndsOf(s)'
    BY <1>0, <1>9, <2>1, CloseEffect DEF EndsInv, EndsOf, Written, CountsKept
  <2>3. EndsOf(Other(s))'
    BY <1>0, <1>9, <2>1, CloseEffect DEF EndsInv, EndsOf, Written, CountsKept
  <2> QED BY <1>0, <2>2, <2>3 DEF EndsInv, Sides, Other
<1>10. ASSUME NEW s \in Sides, Breaks(s) PROVE EndsInv'
  BY <1>0, <1>10, BreaksEffect DEF EndsInv, EndsOf, Kept, Written
<1>11. CASE Connect
  BY <1>0, <1>11, ConnectEffect DEF EndsInv, EndsOf, Written
<1> QED BY <1>1, <1>2, <1>3, <1>4, <1>5, <1>6, <1>7, <1>8, <1>9, <1>10, <1>11, NextCases
        DEF Quiet

(* Finish(o) and the others that move no chunk bring no dead socket back.  *)
LEMMA QuietKeepsDestroyed ==
  ASSUME TypeOK, NEW s \in Sides, Quiet(s)
  PROVE  \A d \in Sides : sock[d].destroyed => sock'[d].destroyed
<1>1. CASE EndOfStream(s)
  <2>1. ~sock[s].destroyed
    BY <1>1 DEF EndOfStream
  <2> QED BY <1>1, <2>1, EndOfStreamEffect DEF Sides, Other
<1>2. CASE Finish(s)
  <2>1. ~sock[s].destroyed
    BY <1>2 DEF Finish
  <2> QED BY <1>2, <2>1, FinishEffect DEF Sides, Other
<1>3. CASE Close(s) \/ Connect
  BY <1>3, CloseEffect, ConnectEffect
<1>4. CASE Breaks(s)
  BY <1>4, BreaksEffect DEF Kept
<1> QED BY <1>1, <1>2, <1>3, <1>4 DEF Quiet

LEMMA StepRelayed ==
  ASSUME TypeOK, UnboundInv, CountersInv, RelayedInv, Next PROVE RelayedInv'
<1>0. /\ flow \in Flows /\ Transforms' = Transforms
      /\ \A s : Drops(s)' = Drops(s)
      /\ \A s \in Sides : flow[s] \in FlowRecord /\ Other(s) \in Sides
  BY Types, SetupKept, Sides2
<1>1. CASE Bind
  <2>1. ~bound
    BY <1>1 DEF Bind
  <2> QED BY <1>0, <1>1, <2>1, BindEffect DEF RelayedInv, RelayedOf, UnboundInv, Sides
<1>2. CASE DropEarly
  BY <1>2 DEF DropEarly, RelayedInv, RelayedOf
<1>3. ASSUME NEW s \in Sides, PeerStep(s) PROVE RelayedInv'
  BY <1>0, <1>3, PeerEffect DEF RelayedInv, RelayedOf
<1>4. ASSUME NEW s \in Sides, Relay(s) \/ Emit(s) PROVE RelayedInv'
  <2>1. \A d \in Sides : sock[d].destroyed => sock'[d].destroyed
    BY <1>4, ChunkEffect DEF Kept
  <2>2. flow[s].held > 0 => s \in Transforms
    BY DEF CountersInv, CountersOf
  <2>3. /\ UNCHANGED bound
        /\ \A d \in Sides \ {s} : flow'[d] = flow[d]
        /\ s \notin Transforms => flow'[s].read = flow[s].read + 1
        /\ \/ flow'[s].passed = flow[s].passed + 1
           \/ sock'[Other(s)].destroyed
    BY <1>0, <1>4, <2>1, <2>2, ChunkEffect
  <2>4. \A d \in Sides \ {s} : RelayedOf(d)'
    BY <1>0, <2>1, <2>3 DEF RelayedInv, RelayedOf
  <2>5. RelayedOf(s)'
    BY <1>0, <2>1, <2>3 DEF RelayedInv, RelayedOf, FlowRecord
  <2> QED BY <2>4, <2>5 DEF RelayedInv
<1>5. ASSUME NEW s \in Sides, Fill(s) PROVE RelayedInv'
  BY <1>0, <1>5 DEF Fill, RelayedInv, RelayedOf, Flows
<1>6. ASSUME NEW s \in Sides, Flush(s) PROVE RelayedInv'
  BY <1>0, <1>6, FlushEffect, ZenonT(60) DEF RelayedInv, RelayedOf
<1>7. ASSUME NEW s \in Sides, Quiet(s) PROVE RelayedInv'
  BY <1>0, <1>7, QuietEffect, QuietKeepsDestroyed DEF CountsKept, RelayedInv, RelayedOf
<1> QED BY <1>1, <1>2, <1>3, <1>4, <1>5, <1>6, <1>7, NextCases

LEMMA StepRoom ==
  ASSUME TypeOK, UnboundInv, CountersInv, RoomInv, Next PROVE RoomInv'
<1>0. /\ flow \in Flows /\ Head' = Head /\ Head \in Nat
      /\ HighWater \in Nat /\ HighWater > 0
      /\ \A s \in Sides : flow[s] \in FlowRecord
  BY Types, SetupKept, SetupTypes DEF TypeOK
<1>1. CASE Bind
  <2>1. ~bound
    BY <1>1 DEF Bind
  <2> QED BY <1>0, <1>1, <2>1, BindEffect DEF RoomInv, RoomOf, Buffered, UnboundInv, Sides
<1>2. CASE DropEarly
  <2>1. \A d \in Sides : /\ flow'[d].passed = flow[d].passed
                         /\ flow'[d].flushed = flow[d].flushed
                         /\ flow'[d].stalled = flow[d].stalled
    BY <1>0, <1>2 DEF DropEarly, Flows
  <2> QED BY <1>0, <2>1 DEF RoomInv, RoomOf, Buffered
<1>3. ASSUME NEW s \in Sides, PeerStep(s) PROVE RoomInv'
  BY <1>0, <1>3, PeerEffect DEF RoomInv, RoomOf, Buffered
<1>4. ASSUME NEW s \in Sides, Relay(s) \/ Emit(s) PROVE RoomInv'
  BY <1>0, <1>4, ChunkEffect DEF RoomInv, RoomOf, Buffered, FlowRecord
<1>5. ASSUME NEW s \in Sides, Fill(s) PROVE RoomInv'
  <2>1. \A d \in Sides : /\ flow'[d].passed = flow[d].passed
                         /\ flow'[d].flushed = flow[d].flushed
                         /\ flow'[d].stalled = flow[d].stalled
    BY <1>0, <1>5 DEF Fill, Flows
  <2> QED BY <1>0, <2>1 DEF RoomInv, RoomOf, Buffered
<1>6. ASSUME NEW s \in Sides, Flush(s) PROVE RoomInv'
  BY <1>0, <1>6, FlushEffect DEF RoomInv, RoomOf, Buffered, FlowRecord
<1>7. ASSUME NEW s \in Sides, Quiet(s) PROVE RoomInv'
  BY <1>0, <1>7, QuietEffect DEF CountsKept, RoomInv, RoomOf, Buffered
<1> QED BY <1>1, <1>2, <1>3, <1>4, <1>5, <1>6, <1>7, NextCases

(* The FIN that is sent, or the one that is read, comes last.              *)
LEMMA StepDrain ==
  ASSUME IInv, Next PROVE DrainBeforeFin'
<1> USE DEF IInv
<1>0. /\ flow \in Flows /\ \A s : Lossy(s)' = Lossy(s)
      /\ \A s \in Sides : /\ flow[s] \in FlowRecord /\ peer[s].sent \in Nat
                          /\ Other(s) \in Sides /\ Other(s) # s /\ Other(Other(s)) = s
  BY Types, SetupKept, Sides2 DEF TypeOK
<1> SUFFICES ASSUME NEW s \in Sides, ~Lossy(s), sock'[s].ended, sock'[Other(s)].finished
             PROVE  flow'[s].flushed = peer'[s].sent
  BY <1>0 DEF DrainBeforeFin, Drained
<1> DEFINE o == Other(s)
<1>1. s \notin Transforms /\ FinWaits /\ ~Drops(s)
  BY DEF Lossy, FinWaits, Drops
<1>2. /\ sock[s].ended => peer[s].fin /\ flow[s].read = peer[s].sent
      /\ sock[o].finished => sock[o].ending /\ flow[s].flushed = flow[s].passed
      /\ sock[o].ending => sock[s].ended \/ sock[s].destroyed
      /\ sock[s].ended /\ sock[o].finished => flow[s].flushed = peer[s].sent
      /\ o \in Sides /\ o # s /\ Other(o) = s
  BY <1>0, <1>1 DEF EndsInv, EndsOf, Written, DrainBeforeFin, Drained
<1> HIDE DEF o
<1>3. ASSUME sock'[s].ended = sock[s].ended, sock'[o].finished = sock[o].finished,
             UNCHANGED peer, flow'[s].flushed = flow[s].flushed
      PROVE  flow'[s].flushed = peer'[s].sent
  BY <1>2, <1>3 DEF o
<1>4. CASE Bind
  <2>1. peer' = peer
    BY <1>4 DEF Bind
  <2> QED BY <1>2, <1>3, <1>4, <2>1, BindEffect DEF Kept
<1>5. CASE DropEarly
  <2>1. UNCHANGED <<peer, sock>> /\ flow'[s].flushed = flow[s].flushed
    BY <1>0, <1>5 DEF DropEarly, Flows
  <2> QED BY <1>3, <2>1
<1>6. ASSUME NEW d \in Sides, PeerStep(d) PROVE flow'[s].flushed = peer'[s].sent
  BY <1>2, <1>6, PeerEffect DEF o
<1>7. ASSUME NEW d \in Sides, Relay(d) \/ Emit(d) PROVE flow'[s].flushed = peer'[s].sent
  <2>1. UNCHANGED peer /\ Kept(sock, sock') /\ flow'[s].flushed = flow[s].flushed
    BY <1>7, ChunkEffect
  <2> QED BY <1>2, <1>3, <2>1 DEF Kept
<1>8. ASSUME NEW d \in Sides, Fill(d) PROVE flow'[s].flushed = peer'[s].sent
  <2>1. UNCHANGED <<peer, sock>> /\ flow'[s].flushed = flow[s].flushed
    BY <1>0, <1>8 DEF Fill, Flows
  <2> QED BY <1>3, <2>1
<1>9. ASSUME NEW d \in Sides, Flush(d) PROVE flow'[s].flushed = peer'[s].sent
  <2>1. UNCHANGED <<peer, sock>> /\ flow[d].flushed < flow[d].passed
    BY <1>9, FlushEffect
  <2>2. d # s
    BY <1>0, <1>2, <2>1 DEF o, FlowRecord
  <2> QED BY <1>3, <1>9, <2>1, <2>2, FlushEffect
<1>10. ASSUME NEW d \in Sides, EndOfStream(d) PROVE flow'[s].flushed = peer'[s].sent
  <2>1. /\ UNCHANGED <<peer, flow>> /\ ~sock[d].ended /\ ~sock[d].destroyed
        /\ sock'[o].finished = sock[o].finished
    BY <1>2, <1>10, EndOfStreamEffect DEF EndOfStream
  <2>2. d # s
    BY <1>2, <2>1 DEF o
  <2>3. sock'[s].ended = sock[s].ended
    BY <1>2, <1>10, <2>2, EndOfStreamEffect DEF Sides, Other
  <2> QED BY <1>3, <2>1, <2>3
<1>11. ASSUME NEW d \in Sides, Finish(d) PROVE flow'[s].flushed = peer'[s].sent
  <2>1. /\ UNCHANGED peer /\ sock[d].ending /\ Written(Other(d)) /\ ~sock[d].destroyed
        /\ sock'[s].ended = sock[s].ended /\ flow'[s].flushed = flow[s].flushed
    BY <1>0, <1>2, <1>11, FinishEffect DEF Finish, CountsKept, Sides, Other
  <2>2. CASE d = s
    <3>1. sock'[o].finished = sock[o].finished
      BY <1>2, <1>11, <2>2, FinishEffect DEF o
    <3> QED BY <1>3, <2>1, <3>1
  <2>3. CASE d = o
    <3>1. bound
      BY <1>2, <2>1, <2>3 DEF UnboundInv, Sides, o, Other
    <3>2. flow[s].passed = flow[s].read
      BY <1>1, <2>1, <2>3, <3>1 DEF RelayedInv, RelayedOf, o
    <3> QED BY <1>2, <2>1, <2>3, <3>2 DEF Written
  <2> QED BY <2>2, <2>3 DEF o, Sides, Other
<1>12. ASSUME NEW d \in Sides, Close(d) PROVE flow'[s].flushed = peer'[s].sent
  BY <1>2, <1>3, <1>12, CloseEffect DEF Close, CountsKept
<1>13. ASSUME NEW d \in Sides, Breaks(d) PROVE flow'[s].flushed = peer'[s].sent
  BY <1>2, <1>3, <1>13, BreaksEffect DEF Kept
<1>14. CASE Connect
  BY <1>2, <1>3, <1>14, ConnectEffect
<1> QED BY <1>4, <1>5, <1>6, <1>7, <1>8, <1>9, <1>10, <1>11, <1>12, <1>13, <1>14, NextCases
        DEF Quiet

LEMMA StepInv == ASSUME IInv, Next PROVE IInv'
BY NextType, StepUnbound, StepCounters, StepEnds, StepRelayed, StepRoom, StepDrain DEF IInv

LEMMA StutterInv == ASSUME IInv, UNCHANGED vars PROVE IInv'
<1> USE DEF vars
<1>1. TypeOK' /\ UnboundInv' /\ CountersInv'
  BY DEF IInv, TypeOK, UnboundInv, CountersInv, CountersOf, Head, Early, Drops, Server, Transforms
<1>2. EndsInv' /\ RelayedInv' /\ RoomInv'
  BY DEF IInv, EndsInv, EndsOf, RelayedInv, RelayedOf, RoomInv, RoomOf, Buffered, Head,
         Drops, Server, Transforms, Early, FinWaits, Written
<1>3. DrainBeforeFin'
  BY DEF IInv, DrainBeforeFin, Drained, Lossy, Server, Transforms, Early
<1> QED BY <1>1, <1>2, <1>3 DEF IInv

(* The inductive invariant holds of every run.                             *)
THEOREM Invariance == Spec => []IInv
<1>1. IInv /\ [Next]_vars => IInv'
  BY StepInv, StutterInv
<1> QED BY <1>1, InitInv, PTL DEF Spec

(* Every variable keeps its type.                                          *)
THEOREM TunnelTypeOK == Spec => []TypeOK
BY Invariance, PTL DEF IInv

(* tunnel/index.js:5-6.  Whatever the streams, the buffers and the order in*)
(* which the sockets end, a peer that sees the FIN of a tunnel without a   *)
(* transform has received every byte before it.                            *)
THEOREM TunnelDrainBeforeFin == Spec => []DrainBeforeFin
BY Invariance, PTL DEF IInv

(* Back-pressure at any high water mark: a slow peer costs its mark, or the*)
(* head and one chunk.                                                     *)
THEOREM TunnelBufferBound == Spec => []BufferBound
<1>1. IInv => BufferBound
  BY DEF IInv, RoomInv, RoomOf, Buffered, BufferBound
<1> QED BY <1>1, Invariance, PTL

-----------------------------------------------------------------------------
(* What kills a socket.                                                    *)

(* A socket of a bound tunnel that dies alone has ended both ways, or was  *)
(* taken by server.close().                                                *)
DiesAlone(s) ==
  bound /\ shut' = shut /\ ~sock[s].destroyed /\ sock'[s].destroyed /\ ~sock'[Other(s)].destroyed

LEMMA StepJoint ==
  ASSUME IInv, Next, NEW s \in Sides, DiesAlone(s)
  PROVE  sock'[s].ended /\ sock'[s].finished
<1> USE DEF IInv, DiesAlone
<1>0. /\ Other(s) \in Sides /\ Other(s) # s
      /\ \A d \in Sides : d = s \/ d = Other(s)
  BY Sides2 DEF Sides, Other
<1>1. ASSUME sock'[s].destroyed = sock[s].destroyed PROVE FALSE
  BY <1>1
<1>2. ASSUME \A d \in Sides : sock'[d].destroyed PROVE FALSE
  BY <1>0, <1>2
<1>3. ~Bind /\ ~DropEarly
  BY DEF Bind, DropEarly
<1>4. ASSUME NEW d \in Sides, PeerStep(d) \/ Fill(d) \/ Flush(d) PROVE FALSE
  BY <1>1, <1>4, PeerEffect, FlushEffect DEF Fill
<1>5. ASSUME NEW d \in Sides, Relay(d) \/ Emit(d) PROVE FALSE
  <2>1. sock' = sock \/ \A e \in Sides : sock'[e].destroyed
    BY <1>5, ChunkEffect
  <2> QED BY <1>1, <1>2, <2>1
<1>6. ASSUME NEW d \in Sides, Close(d) \/ Connect PROVE FALSE
  BY <1>1, <1>6, CloseEffect, ConnectEffect
<1>7. ASSUME NEW d \in Sides, Fail(d) PROVE FALSE
  <2>1. PICK code \in ErrorCodes(d) : OnError(d, code, bound)
    BY <1>7 DEF Fail
  <2>2. code \in Codes /\ bound \in BOOLEAN
    BY DEF ErrorCodes, Codes, Benign, TypeOK
  <2>3. sock'[d].destroyed /\ sock'[Other(d)].destroyed
    BY <2>1, <2>2, ErrorEffect
  <2> QED BY <1>0, <1>2, <2>3, Sides2 DEF Sides, Other
<1>8. ASSUME NEW d \in Sides, Expire(d) PROVE FALSE
  <2>1. sock' = TunnelDestroy(sock)
    BY <1>8 DEF Expire
  <2>2. \A e \in Sides : TunnelDestroy(sock)[e].destroyed
    BY Types, TunnelDestroyEffect
  <2> QED BY <1>2, <2>1, <2>2
<1>9. ~ServerClose
  BY DEF ServerClose
<1>10. ASSUME NEW d \in Sides, EndOfStream(d) PROVE sock'[s].ended /\ sock'[s].finished
  <2>1. d = s
    BY <1>0, <1>10, EndOfStreamEffect DEF Sides, Other
  <2> QED BY <1>10, <2>1, EndOfStreamEffect
<1>11. ASSUME NEW d \in Sides, Finish(d) PROVE sock'[s].ended /\ sock'[s].finished
  <2>1. d = s
    BY <1>0, <1>11, FinishEffect DEF Sides, Other
  <2> QED BY <1>11, <2>1, FinishEffect
<1> QED BY <1>3, <1>4, <1>5, <1>6, <1>7, <1>8, <1>9, <1>10, <1>11, NextCases DEF Quiet, Breaks

(* tunnel/index.js:7.  Every abort is joint: no error and no timeout, in   *)
(* any interleaving with the two half-closes, leaves half a tunnel.        *)
THEOREM TunnelAbortIsJoint == Spec => AbortIsJoint
<1> DEFINE A == \A s \in Sides : ( /\ bound /\ shut' = shut
                                   /\ ~sock[s].destroyed /\ sock'[s].destroyed
                                   /\ ~(sock'[s].ended /\ sock'[s].finished) )
                                 => sock'[Other(s)].destroyed
<1>1. IInv /\ [Next]_vars => [A]_vars
  BY StepJoint DEF DiesAlone
<1> QED BY <1>1, Invariance, PTL DEF Spec, AbortIsJoint

-----------------------------------------------------------------------------
(* A tunnel implements two independent one-way channels (Duplex), for any  *)
(* setups, streams of any length and any high water mark: every step of    *)
(* Tunnel is a step of one channel, a fault, or nothing a peer could see.  *)

(* What the channel of d shows does not change.                            *)
SeenKept(d) ==
  /\ peer'[d].sent = peer[d].sent
  /\ peer'[d].fin = peer[d].fin
  /\ flow'[d].flushed = flow[d].flushed
  /\ sock'[Other(d)].finished = sock[Other(d)].finished

BrokenKept == \A d \in Sides : Broken(d)' = Broken(d)

FaultKept == Faulty' = Faulty

-----------------------------------------------------------------------------
(* From what changes in a tunnel to the step of its channels.              *)

LEMMA MapsToNothing ==
  ASSUME \A d \in Sides : SeenKept(d), BrokenKept, FaultKept
  PROVE  UNCHANGED Channels!vars
BY DEF SeenKept, BrokenKept, FaultKept, Channels!vars

LEMMA MapsToBreak ==
  ASSUME \A d \in Sides : SeenKept(d), Faulty', \A d \in Sides : Broken(d) => Broken(d)'
  PROVE  Channels!Next
<1> DEFINE B == {d \in Sides : Broken(d)'}
<1>1. B \in SUBSET Sides
  OBVIOUS
<1>2. Faulty' = TRUE
  BY DEF Faulty
<1>3. ASSUME NEW d \in Sides PROVE Broken(d)' = (Broken(d) \/ d \in B)
  BY <1>3, Zenon DEF Broken
<1>4. Channels!Break(B)
  BY <1>2, <1>3 DEF Channels!Break, SeenKept
<1> QED BY <1>1, <1>4 DEF Channels!Next

LEMMA MapsToEof ==
  ASSUME TypeOK, NEW s \in Sides, BrokenKept, FaultKept,
         \A d \in Sides : peer'[d].sent = peer[d].sent /\ peer'[d].fin = peer[d].fin
                          /\ flow'[d].flushed = flow[d].flushed,
         Broken(s) \/ (peer[s].fin /\ flow[s].flushed = peer[s].sent),
         ~sock[Other(s)].finished, sock'[Other(s)].finished = TRUE,
         sock'[s].finished = sock[s].finished
  PROVE  Channels!Next
<1>1. \A d \in Sides : /\ Other(d) \in Sides
                       /\ d # s => Other(d) = s
  BY DEF Sides, Other
<1>2. Channels!Eof(s)
  BY <1>1 DEF Channels!Eof, BrokenKept, FaultKept
<1> QED BY <1>2 DEF Channels!Next

-----------------------------------------------------------------------------
(* Whether a channel is broken.                                            *)

(* With a transform, or where an early FIN may be answered at once, both   *)
(* channels are broken from the start.                                     *)
LEMMA BothBroken ==
  ASSUME Transforms # {} \/ ~FinWaits PROVE \A d \in Sides : Broken(d)
BY DEF Broken, Lossy, FinWaits

LEMMA BrokenFixed ==
  ASSUME Next, Transforms # {} \/ ~FinWaits PROVE BrokenKept
<1>1. Transforms' = Transforms /\ FinWaits' = FinWaits
  BY SetupKept
<1>2. \A d \in Sides : Broken(d) /\ Broken(d)'
  BY <1>1, BothBroken DEF Broken, Lossy, FinWaits
<1> QED BY <1>2, Zenon DEF BrokenKept, Broken

(* A socket that dies after its end and its FIN breaks nothing.            *)
LEMMA BrokenOf ==
  ASSUME Next,
         \A d \in Sides : (sock'[d].destroyed /\ ~sock'[d].ended)
                          <=> (sock[d].destroyed /\ ~sock[d].ended),
         \A d \in Sides : (sock'[d].destroyed /\ ~sock'[d].finished)
                          <=> (sock[d].destroyed /\ ~sock[d].finished)
  PROVE  BrokenKept
<1>1. /\ Transforms' = Transforms
      /\ \A d \in Sides : Lossy(d)' = Lossy(d) /\ Other(d) \in Sides
  BY SetupKept, Sides2
<1>2. \A d \in Sides : Broken(d)' <=> Broken(d)
  BY <1>1 DEF Broken
<1> QED BY <1>2, Zenon DEF BrokenKept, Broken

(* Faults come from resets, timeouts and close() only.                     *)
LEMMA FaultOf ==
  ASSUME UNCHANGED <<timedOut, shut>>, \A d \in Sides : peer'[d].reset = peer[d].reset
  PROVE  FaultKept
<1>1. Faulty' <=> Faulty
  BY DEF Faulty
<1> QED BY <1>1, Zenon DEF FaultKept, Faulty

-----------------------------------------------------------------------------
(* The steps.                                                              *)

LEMMA MapsPeer ==
  ASSUME IInv, Next, NEW s \in Sides, PeerStep(s)
  PROVE  Channels!Next
<1> USE DEF IInv
<1>1. /\ UNCHANGED <<setup, sock, flow, timedOut, shut>> /\ BrokenKept
      /\ peer \in [Sides -> [sent : Nat, fin : BOOLEAN, reset : BOOLEAN]]
  <2>1. UNCHANGED <<setup, sock, flow, timedOut, shut>>
    BY PeerEffect
  <2> QED BY <2>1, BrokenOf DEF TypeOK
<1>2. CASE PeerSend(s)
  <2>1. FaultKept
    BY <1>1, <1>2, FaultOf DEF PeerSend
  <2>2. Channels!Send(s)
    BY <1>1, <1>2, <2>1 DEF PeerSend, Channels!Send, BrokenKept, FaultKept
  <2> QED BY <2>2 DEF Channels!Next
<1>3. CASE PeerFin(s)
  <2>1. FaultKept
    BY <1>1, <1>3, FaultOf DEF PeerFin
  <2>2. Channels!Finish(s)
    BY <1>1, <1>3, <2>1 DEF PeerFin, Channels!Finish, BrokenKept, FaultKept
  <2> QED BY <2>2 DEF Channels!Next
<1>4. CASE PeerReset(s)
  <2>1. Faulty'
    BY <1>1, <1>4 DEF PeerReset, Faulty
  <2>2. \A d \in Sides : SeenKept(d)
    BY <1>1, <1>4 DEF PeerReset, SeenKept
  <2>3. \A d \in Sides : Broken(d) => Broken(d)'
    BY <1>1 DEF BrokenKept
  <2> QED BY <2>1, <2>2, <2>3, MapsToBreak
<1> QED BY <1>2, <1>3, <1>4 DEF PeerStep

(* A chunk written after the end of its socket needs an early FIN or a     *)
(* transform: the end of a stream is read after its last chunk.            *)
LEMMA MapsChunk ==
  ASSUME IInv, Next, NEW s \in Sides, Relay(s) \/ Emit(s)
  PROVE  UNCHANGED Channels!vars
<1> USE DEF IInv
<1>1. /\ UNCHANGED peer /\ Kept(sock, sock')
      /\ \A d \in Sides : flow'[d].flushed = flow[d].flushed
      /\ Other(s) \in Sides /\ Other(Other(s)) = s
  BY ChunkEffect, Sides2
<1>2. \A d \in Sides : SeenKept(d)
  BY <1>1, Sides2 DEF SeenKept, Kept
<1>3. FaultKept
  <2>1. UNCHANGED <<timedOut, shut>>
    BY DEF Relay, Emit
  <2> QED BY <1>1, <2>1, FaultOf
<1>4. CASE Transforms # {} \/ ~FinWaits
  BY <1>2, <1>3, <1>4, BrokenFixed, MapsToNothing
<1>5. CASE Transforms = {} /\ FinWaits
  <2>1. flow[s].read < peer[s].sent /\ ~sock[s].destroyed
    BY <1>5, ChunkEffect DEF CountersInv, CountersOf
  <2>2. ~sock[Other(s)].ending
    BY <1>1, <1>5, <2>1, Types DEF EndsInv, EndsOf, TypeOK, FlowRecord
  <2>3. sock' = sock
    BY <2>2, ChunkEffect
  <2>4. BrokenKept
    BY <2>3, BrokenOf
  <2> QED BY <1>2, <1>3, <2>4, MapsToNothing
<1> QED BY <1>4, <1>5

LEMMA MapsFlush ==
  ASSUME IInv, Next, NEW s \in Sides, Flush(s)
  PROVE  Channels!Next
<1> USE DEF IInv
<1>1. /\ UNCHANGED <<peer, sock, timedOut, shut>>
      /\ \A d \in Sides \ {s} : flow'[d] = flow[d]
      /\ flow[s].flushed < flow[s].passed
      /\ flow'[s].flushed = flow[s].flushed + 1
  BY FlushEffect, Zenon DEF Flush
<1>2. BrokenKept /\ FaultKept
  BY <1>1, BrokenOf, FaultOf
<1>3. ~sock[Other(s)].finished
  BY <1>1, Types DEF EndsInv, EndsOf, Written, FlowRecord
<1>4. flow[s].flushed < peer[s].sent
  BY <1>1, Types DEF CountersInv, CountersOf, FlowRecord, TypeOK
<1>5. Channels!Deliver(s)
  BY <1>1, <1>2, <1>3, <1>4 DEF Channels!Deliver, BrokenKept, FaultKept
<1> QED BY <1>5 DEF Channels!Next

LEMMA MapsEnd ==
  ASSUME IInv, Next, NEW s \in Sides, EndOfStream(s)
  PROVE  UNCHANGED Channels!vars
<1> USE DEF IInv
<1>1. /\ UNCHANGED <<peer, flow, timedOut, shut>> /\ ~sock[s].destroyed
      /\ \A d \in Sides : d = s \/ d = Other(s)
  BY DEF EndOfStream, Sides, Other
<1>2. \A d \in Sides : sock'[d].finished = sock[d].finished
  BY EndOfStreamEffect
<1>3. \A d \in Sides : SeenKept(d)
  BY <1>1, <1>2, Sides2 DEF SeenKept
<1>4. BrokenKept
  BY <1>1, <1>2, EndOfStreamEffect, BrokenOf
<1> QED BY <1>1, <1>3, <1>4, FaultOf, MapsToNothing

(* The FIN that goes out shows a peer the whole stream, or what a broken   *)
(* channel managed to deliver.                                             *)
LEMMA MapsFinish ==
  ASSUME IInv, Next, NEW o \in Sides, Finish(o)
  PROVE  Channels!Next
<1> USE DEF IInv
<1> DEFINE s == Other(o)
<1>1. /\ s \in Sides /\ Other(s) = o /\ s # o
      /\ \A d \in Sides : d = s \/ d = o
  BY Sides2 DEF Sides, Other
<1>2. /\ UNCHANGED <<peer, timedOut, shut>>
      /\ ~sock[o].destroyed /\ sock[o].ending /\ ~sock[o].finished /\ Written(s)
  BY DEF Finish
<1>3. \A d \in Sides : flow'[d].flushed = flow[d].flushed
  BY FinishEffect DEF CountsKept
<1>4. BrokenKept
  BY <1>1, <1>2, FinishEffect, BrokenOf
<1>5. FaultKept
  BY <1>2, FaultOf
<1>6. Broken(s) \/ (peer[s].fin /\ flow[s].flushed = peer[s].sent)
  <2> SUFFICES ASSUME ~Broken(s) PROVE peer[s].fin /\ flow[s].flushed = peer[s].sent
    OBVIOUS
  <2>1. s \notin Transforms /\ FinWaits /\ ~Drops(s) /\ (sock[s].destroyed => sock[s].ended)
    BY DEF Broken, Lossy, FinWaits, Drops
  <2>2. peer[s].fin /\ flow[s].read = peer[s].sent
    BY <1>1, <1>2, <2>1 DEF EndsInv, EndsOf
  <2>3. bound
    BY <1>1, <1>2, <2>2 DEF UnboundInv, Sides, Other
  <2>4. flow[s].passed = flow[s].read
    BY <1>1, <1>2, <2>1, <2>3 DEF RelayedInv, RelayedOf
  <2> QED BY <1>2, <2>2, <2>4 DEF Written
<1>7. sock'[o].finished = TRUE /\ sock'[s].finished = sock[s].finished
  <2>1. sock'[o].finished /\ sock'[s].finished = sock[s].finished /\ sock' \in Sockets
    BY <1>1, FinishEffect
  <2> QED BY <1>1, <2>1 DEF Sockets
<1> HIDE DEF s
<1> QED BY <1>1, <1>2, <1>3, <1>4, <1>5, <1>6, <1>7, MapsToEof

LEMMA MapsBreaks ==
  ASSUME IInv, Next, NEW s \in Sides, Breaks(s)
  PROVE  Channels!Next
<1> USE DEF IInv
<1>1. UNCHANGED <<peer, flow>> /\ Kept(sock, sock')
  BY BreaksEffect
<1>2. \A d \in Sides : SeenKept(d)
  BY <1>1, Sides2 DEF SeenKept, Kept
<1>3. Faulty'
  BY <1>1 DEF Breaks, Fail, Expire, ServerClose, Faulty
<1>4. \A d \in Sides : Broken(d) => Broken(d)'
  <2>1. Transforms' = Transforms /\ \A d \in Sides : Lossy(d)' = Lossy(d)
    BY SetupKept
  <2> QED BY <1>1, <2>1, Sides2 DEF Broken, Kept
<1> QED BY <1>2, <1>3, <1>4, MapsToBreak

(* bind(), the dial, and what is read without being written yet.           *)
LEMMA MapsBind ==
  ASSUME IInv, Next, Bind
  PROVE  UNCHANGED Channels!vars
<1> USE DEF IInv
<1>1. /\ ~bound /\ UNCHANGED <<peer, timedOut, shut>> /\ Kept(sock, sock')
      /\ \A d \in Sides : flow'[d].flushed = flow[d].flushed
  BY BindEffect DEF Bind
<1>2. \A d \in Sides : SeenKept(d)
  BY <1>1, Sides2 DEF SeenKept, Kept
<1>3. FaultKept
  BY <1>1, FaultOf
<1>4. CASE ~FinWaits
  BY <1>2, <1>3, <1>4, BrokenFixed, MapsToNothing
<1>5. CASE FinWaits
  (* The reply of the SOCKS5 server finds the client socket ended by us    *)
  (* only after an early FIN, or beside a target that is gone.             *)
  <2>1. CASE \A d \in Sides : sock'[d].destroyed = sock[d].destroyed
    <3>1. BrokenKept
      BY <1>1, <2>1, BrokenOf DEF Kept
    <3> QED BY <1>2, <1>3, <3>1, MapsToNothing
  <2>2. CASE ReplyFails
    <3>1. "client" \in Sides /\ "target" \in Sides /\ Other("target") = "client"
          /\ Other("client") = "target"
      BY DEF Sides, Other
    <3>2. ~sock["target"].ended
      BY <1>1, <3>1 DEF UnboundInv, EndsInv, EndsOf
    <3>3. sock["target"].destroyed
      BY <1>5, <2>2, <3>1, <3>2 DEF ReplyFails, EndsInv, EndsOf
    <3>4. ~sock["target"].finished
      BY <1>1, <3>1 DEF UnboundInv, EndsInv, EndsOf
    <3>5. \A d \in Sides : sock'[d].ended = sock[d].ended /\ sock'[d].finished = sock[d].finished
                           /\ (sock[d].destroyed => sock'[d].destroyed)
      BY <1>1 DEF Kept
    <3>6. \A d \in Sides : Broken(d) /\ Broken(d)'
      BY <3>1, <3>2, <3>3, <3>4, <3>5 DEF Broken, Sides
    <3>7. BrokenKept
      BY <3>6, Zenon DEF BrokenKept, Broken
    <3> QED BY <1>2, <1>3, <3>7, MapsToNothing
  <2> QED BY <2>1, <2>2, BindEffect
<1> QED BY <1>4, <1>5

LEMMA MapsQuietly ==
  ASSUME IInv, Next, NEW s \in Sides, DropEarly \/ Fill(s) \/ Close(s) \/ Connect
  PROVE  UNCHANGED Channels!vars
<1> USE DEF IInv
<1>1. UNCHANGED <<peer, timedOut, shut>>
  BY DEF DropEarly, Fill, Close, Connect
<1>2. \A d \in Sides : /\ sock'[d].ended = sock[d].ended
                       /\ sock'[d].finished = sock[d].finished
                       /\ sock'[d].destroyed = sock[d].destroyed
  BY CloseEffect, ConnectEffect DEF DropEarly, Fill
<1>3. \A d \in Sides : flow'[d].flushed = flow[d].flushed
  <2>1. CASE DropEarly \/ Fill(s)
    BY <2>1, Types DEF DropEarly, Fill, Flows
  <2>2. CASE Close(s) \/ Connect
    BY <2>2, CloseEffect, ConnectEffect DEF CountsKept
  <2> QED BY <2>1, <2>2
<1>4. \A d \in Sides : SeenKept(d)
  BY <1>1, <1>2, <1>3, Sides2 DEF SeenKept
<1>5. BrokenKept
  BY <1>2, BrokenOf
<1> QED BY <1>1, <1>4, <1>5, FaultOf, MapsToNothing

LEMMA MapsInit == Init => Channels!Init
<1> SUFFICES ASSUME Init PROVE Channels!Init
  OBVIOUS
<1>1. TypeOK /\ \A s \in Sides : Other(s) \in Sides
  BY InitInv, Sides2 DEF IInv
<1>2. \A s \in Sides : /\ peer[s].sent \in Nat
                       /\ peer[s].fin = FALSE /\ peer[s].reset = FALSE
                       /\ flow[s].flushed = 0 /\ sock[s].finished = FALSE
  BY <1>1 DEF Init, TypeOK
<1>3. Faulty = FALSE
  <2>1. ~Faulty
    BY <1>2 DEF Init, Faulty
  <2> QED BY <2>1, Zenon DEF Faulty
<1>4. [s \in Sides |-> Broken(s)] \in [Sides -> BOOLEAN]
  <2>1. \A s \in Sides : Broken(s) \in BOOLEAN
    BY Zenon DEF Broken
  <2> QED BY <2>1
<1> QED BY <1>1, <1>2, <1>3, <1>4 DEF Channels!Init

LEMMA MapsNext ==
  ASSUME IInv, Next PROVE Channels!Next \/ UNCHANGED Channels!vars
BY NextCases, MapsBind, MapsQuietly, MapsPeer, MapsChunk, MapsFlush, MapsEnd, MapsFinish, MapsBreaks
   DEF Quiet, Sides

LEMMA MapsStutter == ASSUME UNCHANGED vars PROVE UNCHANGED Channels!vars
BY DEF vars, Channels!vars, Broken, Lossy, Faulty, Server, Transforms, Early

(* src/utils/tunnel/index.js.  What the two peers of any tunnel see is what*)
(* two one-way channels would show them: bytes in order and each at most   *)
(* once, an end of stream only after all of them, and no channel broken    *)
(* off without a fault.                                                    *)
THEOREM TunnelImplementsDuplex == Spec => ImplementsDuplex
<1>1. IInv /\ [Next]_vars => [Channels!Next]_(Channels!vars)
  BY MapsNext, MapsStutter
<1> QED BY <1>1, MapsInit, Invariance, PTL DEF Spec, ImplementsDuplex, Channels!Spec
=============================================================================
