------------------------------- MODULE Tunnel -------------------------------
(***************************************************************************)
(* tunnel(clientSocket, socket, options) of src/utils/tunnel/index.js: the *)
(* listeners and pipes that tie a client socket to a target socket, from   *)
(* the moment the server hands the connection to the application, through  *)
(* bind(), to the end of both sockets.                                     *)
(*                                                                         *)
(* The two peers are the environment.  The sockets, pipes and transforms   *)
(* are Node's: their rules (when 'end', 'finish', 'close', 'drain' are     *)
(* emitted, what a write to a dead socket does) are modelled from how the  *)
(* code uses them.  Data is counted in chunks: the stream sent by the peer *)
(* of socket s moves through the counters                                  *)
(*     sent >= read >= passed >= flushed                                   *)
(* (sent by the peer, emitted by s as 'data', accepted by the write buffer *)
(* of the other socket, handed to the other peer); `held' chunks are read  *)
(* but still inside the transform of the flow.                             *)
(***************************************************************************)
EXTENDS Integers

CONSTANTS
  Setups,        \* the ways a tunnel is set up that are looked at
  HighWater      \* chunks a write buffer holds before write() returns false

Sides == {"client", "target"}

(* server:      whose bind() is called.                                    *)
(* transforms:  the flows with a transform: "client" is down, "target" up. *)
(* early:       what the client may do before bind().                      *)
(* dial:        "direct" is client.reverse, still connecting when bound;   *)
(*              a "tunnelled" socket is connected when bound.              *)
(* idleTimeout: bind() gets an idleTimeout > 0.                            *)
(* closable:    the application may call server.close().                   *)
(* head:        chunks read before the application got the connection.     *)
(* chunks:      bound: chunks a peer sends, beside the head.               *)
Setup ==
  [server : {"forward", "socks5", "reverse"}, transforms : SUBSET Sides,
   early : SUBSET {"send", "fin", "reset"}, dial : {"direct", "tunnelled"},
   idleTimeout : BOOLEAN, closable : BOOLEAN, head : Nat, chunks : [Sides -> Nat]]

ASSUME TunnelAssumption ==
  /\ HighWater \in Nat \ {0}
  /\ \A u \in Setups :
       /\ u \in Setup
       /\ u.server = "socks5" => u.head = 0              \* it keeps no head
       /\ u.server = "reverse" => "reset" \notin u.early \* see ReverseServer

VARIABLES
  setup,         \* the setup of this tunnel
  peer,          \* the remote ends: sent, fin, reset
  sock,          \* the two sockets of the proxy
  flow,          \* flow[s]: the pipe from s into the other socket
  bound,         \* bind() was called
  reported,      \* codes of the errors the server emitted as "error"
  timedOut,      \* a socket timeout destroyed the tunnel
  shut           \* server.close() was called

vars == <<setup, peer, sock, flow, bound, reported, timedOut, shut>>

Server == setup.server
Transforms == setup.transforms
Early == setup.early
Dial == setup.dial
IdleTimeout == setup.idleTimeout
Closable == setup.closable
Head == setup.head
Chunks(s) == setup.chunks[s] + IF s = "client" THEN Head ELSE 0

Other(s) == IF s = "client" THEN "target" ELSE "client"

Benign == {"ECONNRESET", "EPIPE", "ERR_STREAM_WRITE_AFTER_END"}
Codes == Benign \cup {"ETIMEDOUT", "ECONNREFUSED", "CONNECT_TIMEOUT"}

-----------------------------------------------------------------------------
(* Node's sockets.  Operators on the sockets k.                            *)

End(k, s) == [k EXCEPT ![s].ending = TRUE]

Destroy(k, s) == [k EXCEPT ![s].destroyed = TRUE, ![s].timer = "off"]

(* autoDestroy: a socket that has read 'end' and sent its FIN is done.     *)
AutoDestroy(k, s) ==
  IF k[s].ended /\ k[s].finished THEN Destroy(k, s) ELSE k

(* What destroy() of the tunnel does: called by onError and onIdle.        *)
DestroysClientOnly(k) == Destroy(k, "client")        \* seeded bug

EndsTargetOnly(k) == End(Destroy(k, "client"), "target") \* seeded bug

TunnelDestroy(k) == Destroy(Destroy(k, "client"), "target")

(* The listeners tunnel() puts on 'close' and 'end' of socket s.           *)
EndDestroysOther(k, s) == IF bound THEN Destroy(k, Other(s)) ELSE k \* seeded bug

EndForgotten(k, s) == k                              \* seeded bug

OnClose(k, s) == IF bound THEN End(k, Other(s)) ELSE k

OnEnd(k, s) == IF bound THEN End(k, Other(s)) ELSE k

(* The "error" events the server emits for an error on socket s: by the    *)
(* tunnel's onError when the code is not benign, and by the listener the   *)
(* forward and SOCKS5 servers put on the client socket, whatever the code. *)
TunnelReports(code) == IF code \in Benign THEN {} ELSE {code}

ServerReports(s, code) ==
  IF s = "client" /\ Server # "reverse" THEN {code} ELSE {}

(* An error on s: Node destroys s and emits 'error', heard by the tunnel   *)
(* when it is set up.                                                      *)
OnError(s, code, tunnelled) ==
  /\ sock' = IF tunnelled THEN TunnelDestroy(Destroy(sock, s)) ELSE Destroy(sock, s)
  /\ reported' = reported \cup ServerReports(s, code)
                          \cup (IF tunnelled THEN TunnelReports(code) ELSE {})

(* Until tunnel() sets allowHalfOpen, only http.Server sockets have it.    *)
HalfOpen == bound \/ Server = "forward"

-----------------------------------------------------------------------------
Init ==
  /\ setup \in Setups
  /\ peer = [s \in Sides |-> [sent  |-> IF s = "client" THEN Head ELSE 0,
                              fin   |-> FALSE,
                              reset |-> FALSE]]
  /\ sock = [s \in Sides |-> [connected |-> s = "client" \/ Dial = "tunnelled",
                              ended     |-> FALSE,   \* 'end' emitted
                              ending    |-> FALSE,   \* end() called
                              finished  |-> FALSE,   \* FIN sent
                              destroyed |-> FALSE,
                              closed    |-> FALSE,   \* 'close' emitted
                              timer     |-> "off"]]
  /\ flow = [s \in Sides |-> [read    |-> IF s = "client" THEN Head ELSE 0,
                              held    |-> 0,
                              passed  |-> 0,
                              flushed |-> 0,
                              stalled |-> FALSE,     \* write() returned false
                              piped   |-> FALSE]]
  /\ bound = FALSE
  /\ reported = {}
  /\ timedOut = FALSE
  /\ shut = FALSE

-----------------------------------------------------------------------------
(* The peers.  What one does to a destroyed socket has no effect.          *)

PeerMay(s, what) ==
  /\ ~peer[s].reset
  /\ ~sock[s].destroyed
  /\ bound \/ (s = "client" /\ what \in Early)

PeerSend(s) ==
  /\ PeerMay(s, "send")
  /\ sock[s].connected
  /\ ~peer[s].fin
  /\ peer[s].sent < Chunks(s)
  /\ peer' = [peer EXCEPT ![s].sent = @ + 1]
  /\ UNCHANGED <<setup, sock, flow, bound, reported, timedOut, shut>>

PeerFin(s) ==
  /\ PeerMay(s, "fin")
  /\ sock[s].connected
  /\ ~peer[s].fin
  /\ peer' = [peer EXCEPT ![s].fin = TRUE]
  /\ UNCHANGED <<setup, sock, flow, bound, reported, timedOut, shut>>

(* The peer resets the connection, or the network to it fails (a refused   *)
(* dial too): the socket will see an error.                                *)
PeerReset(s) ==
  /\ PeerMay(s, "reset")
  /\ peer' = [peer EXCEPT ![s].reset = TRUE]
  /\ UNCHANGED <<setup, sock, flow, bound, reported, timedOut, shut>>

-----------------------------------------------------------------------------
(* bind().  The head is written to the target first, then tunnel() runs.   *)
(* A pipe from a stream that has already emitted 'end' ends its            *)
(* destination.  The SOCKS5 server writes its reply without a look at the  *)
(* client socket: after the client's FIN that write is an EPIPE.           *)

ReplyFails == Server = "socks5" /\ sock["client"].ending /\ ~sock["client"].destroyed

Arm(k, s, kind) == IF k[s].destroyed THEN k ELSE [k EXCEPT ![s].timer = kind]

ArmsClientOnly(k) == IF IdleTimeout THEN Arm(k, "client", "idle") ELSE k \* seeded bug

BoundTimers(k) ==
  IF IdleTimeout THEN Arm(Arm(k, "client", "idle"), "target", "idle")
  ELSE IF Dial = "direct" THEN Arm(k, "target", "connect")
  ELSE k

BindHeadless ==                                      \* seeded bug
  /\ ~bound
  /\ bound' = TRUE
  /\ flow' = [flow EXCEPT !["client"].piped = TRUE, !["target"].piped = TRUE]
  /\ IF ReplyFails
     THEN OnError("client", "EPIPE", TRUE)
     ELSE /\ sock' = LET k == BoundTimers(sock) IN
                     IF sock["client"].ended THEN End(k, "target") ELSE k
          /\ UNCHANGED reported
  /\ UNCHANGED <<setup, peer, timedOut, shut>>

Bind ==
  /\ ~bound
  /\ bound' = TRUE
  /\ flow' = [flow EXCEPT !["client"].passed = Head,
                          !["client"].piped = TRUE,
                          !["target"].piped = TRUE]
  /\ IF ReplyFails
     THEN OnError("client", "EPIPE", TRUE)
     ELSE /\ sock' = LET k == BoundTimers(sock) IN
                     IF sock["client"].ended THEN End(k, "target") ELSE k
          /\ UNCHANGED reported
  /\ UNCHANGED <<setup, peer, timedOut, shut>>

-----------------------------------------------------------------------------
(* The flow of s.                                                          *)

(* write() returns false at the high water mark.                           *)
Full(f) == f.passed - f.flushed >= HighWater

(* write() of one chunk of flow f = flow[s] to the other socket.           *)
Write(s, f) ==
  LET o == Other(s) IN
  \/ /\ ~sock[o].ending
     /\ ~sock[o].destroyed
     /\ LET g == [f EXCEPT !.passed = @ + 1]
        IN flow' = [flow EXCEPT ![s] = [g EXCEPT !.stalled = Full(g)]]
     /\ UNCHANGED <<sock, reported>>
  \/ /\ sock[o].destroyed            \* discarded; write() returns false
     /\ flow' = [flow EXCEPT ![s] = [f EXCEPT !.stalled = TRUE]]
     /\ UNCHANGED <<sock, reported>>
  \/ /\ sock[o].ending               \* write after end
     /\ ~sock[o].destroyed
     /\ flow' = [flow EXCEPT ![s] = [f EXCEPT !.stalled = TRUE]]
     /\ OnError(o, "ERR_STREAM_WRITE_AFTER_END", bound)

Readable(s) ==
  /\ sock[s].connected
  /\ ~sock[s].destroyed
  /\ flow[s].read < peer[s].sent

(* 'data' on s with no transform: the pipe writes to the other socket.     *)
RelayUnpaced(s) ==                                   \* seeded bug
  /\ bound
  /\ s \notin Transforms
  /\ Readable(s)
  /\ flow[s].piped
  /\ Write(s, [flow[s] EXCEPT !.read = @ + 1])
  /\ UNCHANGED <<setup, peer, bound, timedOut, shut>>

Relay(s) ==
  /\ bound
  /\ s \notin Transforms
  /\ Readable(s)
  /\ flow[s].piped
  /\ ~flow[s].stalled
  /\ Write(s, [flow[s] EXCEPT !.read = @ + 1])
  /\ UNCHANGED <<setup, peer, bound, timedOut, shut>>

(* 'data' on s with a transform, which takes chunks up to its own mark.    *)
Fill(s) ==
  /\ bound
  /\ s \in Transforms
  /\ Readable(s)
  /\ flow[s].held < HighWater
  /\ flow' = [flow EXCEPT ![s].read = @ + 1, ![s].held = @ + 1]
  /\ UNCHANGED <<setup, peer, sock, bound, reported, timedOut, shut>>

(* The transform lets a chunk go, at once or after a delay.                *)
EmitTwice(s) ==                                      \* seeded bug
  /\ flow[s].piped
  /\ ~flow[s].stalled
  /\ Write(s, [flow[s] EXCEPT !.held = @ - 1])
  /\ UNCHANGED <<setup, peer, bound, timedOut, shut>>

Emit(s) ==
  /\ flow[s].held > 0
  /\ flow[s].piped
  /\ ~flow[s].stalled
  /\ Write(s, [flow[s] EXCEPT !.held = @ - 1])
  /\ UNCHANGED <<setup, peer, bound, timedOut, shut>>

(* The SOCKS5 server leaves the client socket flowing after its request:   *)
(* bytes that arrive before bind() are emitted with no listener.           *)
DropEarly ==
  /\ ~bound
  /\ Server = "socks5"
  /\ Readable("client")
  /\ flow' = [flow EXCEPT !["client"].read = @ + 1]
  /\ UNCHANGED <<setup, peer, sock, bound, reported, timedOut, shut>>

(* 'drain' is emitted when the buffer is empty, never by an ending socket. *)
Drains(s, f) == f.flushed = f.passed /\ ~sock[Other(s)].ending

(* The other socket hands a chunk to its peer.                             *)
Flush(s) ==
  LET o == Other(s)
      f == [flow[s] EXCEPT !.flushed = @ + 1]
  IN
  /\ flow[s].flushed < flow[s].passed
  /\ sock[o].connected
  /\ ~sock[o].destroyed
  /\ ~peer[o].reset
  /\ flow' = [flow EXCEPT ![s] = [f EXCEPT !.stalled = @ /\ ~Drains(s, f)]]
  /\ UNCHANGED <<setup, peer, sock, bound, reported, timedOut, shut>>

(* 'end' on s: the FIN of its peer, after everything before it was read.   *)
EndOfStream(s) ==
  /\ peer[s].fin
  /\ sock[s].connected
  /\ flow[s].read = peer[s].sent
  /\ ~sock[s].ended
  /\ ~sock[s].destroyed
  /\ LET k == [sock EXCEPT ![s].ended = TRUE, ![s].ending = @ \/ ~HalfOpen]
     IN sock' = AutoDestroy(OnEnd(k, s), s)
  /\ UNCHANGED <<setup, peer, flow, bound, reported, timedOut, shut>>

(* Everything written for the peer of o, which comes from s, is out.       *)
Written(s) == flow[s].flushed = flow[s].passed

(* 'finish' on o: end() was called and its buffer is written out; the FIN  *)
(* goes to the peer and the pipe into o is taken off.                      *)
Finish(o) ==
  LET s == Other(o) IN
  /\ sock[o].ending
  /\ sock[o].connected
  /\ ~sock[o].finished
  /\ ~sock[o].destroyed
  /\ Written(s)
  /\ sock' = AutoDestroy([sock EXCEPT ![o].finished = TRUE], o)
  /\ flow' = [flow EXCEPT ![s].piped = FALSE]
  /\ UNCHANGED <<setup, peer, bound, reported, timedOut, shut>>

(* 'close' on s, after it was destroyed.                                   *)
Close(s) ==
  /\ sock[s].destroyed
  /\ ~sock[s].closed
  /\ sock' = OnClose([sock EXCEPT ![s].closed = TRUE], s)
  /\ flow' = [flow EXCEPT ![Other(s)].piped = FALSE]
  /\ UNCHANGED <<setup, peer, bound, reported, timedOut, shut>>

(* 'error' on s.                                                           *)
ErrorCodes(s) ==
  IF sock[s].connected THEN {"ECONNRESET", "ETIMEDOUT"} ELSE {"ECONNREFUSED"}

Fail(s) ==
  /\ peer[s].reset
  /\ ~sock[s].destroyed
  /\ \E code \in ErrorCodes(s) : OnError(s, code, bound)
  /\ UNCHANGED <<setup, peer, flow, bound, timedOut, shut>>

(* 'connect' on the target of a direct dial: client.reverse drops its      *)
(* connect timeout with setTimeout(0).                                     *)
OnConnect(k) == [k EXCEPT !["target"].timer = "off"]

Connect ==
  /\ bound
  /\ ~sock["target"].connected
  /\ ~sock["target"].destroyed
  /\ ~peer["target"].reset
  /\ sock' = OnConnect([sock EXCEPT !["target"].connected = TRUE])
  /\ UNCHANGED <<setup, peer, flow, bound, reported, timedOut, shut>>

(* The timer of s fires.  onIdle destroys the tunnel; on a target that is  *)
(* still connecting the connect timeout of client.reverse listens too and  *)
(* makes an error of it.                                                   *)
Expire(s) ==
  /\ sock[s].timer # "off"
  /\ timedOut' = TRUE
  /\ sock' = TunnelDestroy(sock)
  /\ reported' = reported \cup
       IF sock[s].connected THEN {} ELSE TunnelReports("CONNECT_TIMEOUT")
  /\ UNCHANGED <<setup, peer, flow, bound, shut>>

(* server.close() destroys the client socket of every connection.          *)
ServerClose ==
  /\ Closable
  /\ ~shut
  /\ shut' = TRUE
  /\ sock' = Destroy(sock, "client")
  /\ UNCHANGED <<setup, peer, flow, bound, reported, timedOut>>

-----------------------------------------------------------------------------
PeerStep(s) == PeerSend(s) \/ PeerFin(s) \/ PeerReset(s)

Step(s) ==
  \/ Relay(s) \/ Fill(s) \/ Emit(s) \/ Flush(s)
  \/ EndOfStream(s) \/ Finish(s) \/ Close(s) \/ Fail(s) \/ Expire(s)

Next ==
  \/ Bind \/ Connect \/ DropEarly \/ ServerClose
  \/ \E s \in Sides : PeerStep(s) \/ Step(s)

Spec == Init /\ [][Next]_vars

(* The event loop runs every callback that is due, and the peers read: a   *)
(* chunk in a write buffer is taken sooner or later unless the connection  *)
(* breaks.  Nothing is assumed of what the peers send.                     *)
Fairness ==
  /\ WF_vars(Bind) /\ WF_vars(Connect)
  /\ \A s \in Sides :
       /\ WF_vars(Relay(s)) /\ WF_vars(Fill(s)) /\ WF_vars(Emit(s))
       /\ WF_vars(Flush(s)) /\ WF_vars(EndOfStream(s)) /\ WF_vars(Finish(s))
       /\ WF_vars(Close(s)) /\ WF_vars(Fail(s)) /\ WF_vars(Expire(s))

FairSpec == Spec /\ Fairness

-----------------------------------------------------------------------------
(* Properties.                                                             *)

(* Every variable keeps its type.                                          *)
TypeOK ==
  /\ setup \in Setups
  /\ peer \in [Sides -> [sent : Nat, fin : BOOLEAN, reset : BOOLEAN]]
  /\ sock \in [Sides -> [connected : BOOLEAN, ended : BOOLEAN,
                         ending : BOOLEAN, finished : BOOLEAN,
                         destroyed : BOOLEAN, closed : BOOLEAN,
                         timer : {"off", "idle", "connect"}]]
  /\ flow \in [Sides -> [read : Nat, held : Nat, passed : Nat, flushed : Nat,
                         stalled : BOOLEAN, piped : BOOLEAN]]
  /\ bound \in BOOLEAN
  /\ reported \subseteq Codes
  /\ timedOut \in BOOLEAN
  /\ shut \in BOOLEAN

(* The channel from s delivers less than it was sent in three cases only:  *)
(* a FIN overtakes a transform; a socket without allowHalfOpen sees a FIN  *)
(* before bind() and ends both ways; the SOCKS5 server drops what a client *)
(* sends before bind().                                                    *)
Lossy(s) ==
  \/ s \in Transforms
  \/ Server # "forward" /\ "fin" \in Early
  \/ Server = "socks5" /\ s = "client" /\ "send" \in Early

(* tunnel/index.js:5-6.  When a peer sees the FIN that forwards the other  *)
(* peer's FIN, it has received every byte that peer sent: the half-close   *)
(* never overtakes buffered data.                                          *)
Drained(s) ==
  sock[s].ended /\ sock[Other(s)].finished => flow[s].flushed = peer[s].sent

DrainBeforeFin == \A s \in Sides : ~Lossy(s) => Drained(s)

(* Back-pressure: what a socket buffers for a slow peer is bounded by its  *)
(* mark, or by the head and one chunk: the resume() that ends tunnel()     *)
(* overrides the pause of a pipe into a target that has the head to write. *)
BufferBound ==
  \A s \in Sides :
    \/ flow[s].passed - flow[s].flushed <= HighWater
    \/ s = "client" /\ flow[s].passed - flow[s].flushed <= Head + 1

(* tunnel/index.js:7.  In a bound tunnel a socket that dies before it has  *)
(* ended both ways takes the other socket with it, in the same step: no    *)
(* error or timeout ever leaves half a tunnel.                             *)
AbortIsJoint ==
  [][ \A s \in Sides :
        ( /\ bound /\ shut' = shut
          /\ ~sock[s].destroyed /\ sock'[s].destroyed
          /\ ~(sock'[s].ended /\ sock'[s].finished) )
        => sock'[Other(s)].destroyed ]_vars

(* A bound tunnel implements two independent one-way channels.  A channel  *)
(* is broken when the socket it comes from died before its end, or the one *)
(* it leads to died before its FIN; a lossy one is not relied on, nor the  *)
(* other one when a write after end behind a transform may destroy both.   *)
Broken(s) ==
  \/ Lossy(s)
  \/ Transforms # {}
  \/ sock[s].destroyed /\ ~sock[s].ended
  \/ sock[Other(s)].destroyed /\ ~sock[Other(s)].finished

Faulty == timedOut \/ shut \/ \E s \in Sides : peer[s].reset

Channels == INSTANCE Duplex WITH
  Senders   <- Sides,
  sent      <- [s \in Sides |-> peer[s].sent],
  fin       <- [s \in Sides |-> peer[s].fin],
  delivered <- [s \in Sides |-> flow[s].flushed],
  eof       <- [s \in Sides |-> sock[Other(s)].finished],
  broken    <- [s \in Sides |-> Broken(s)],
  fault     <- Faulty

ImplementsDuplex == Channels!Spec

(* A peer that finishes a live socket is heard: the other peer gets its    *)
(* FIN, whatever back-pressure delayed it, unless the tunnel breaks.       *)
FinArrives ==
  \A s \in Sides :
    bound /\ peer[s].fin /\ ~sock[s].destroyed
      ~> sock[Other(s)].finished \/ sock[Other(s)].destroyed

(* No half of a tunnel outlives the other for ever, unless the client was  *)
(* gone, or taken by server.close(), while its target had more to say.     *)
PairedTeardown ==
  \A s \in Sides :
    bound /\ sock[s].destroyed /\ "reset" \notin Early /\ ~Closable
      ~> sock[Other(s)].destroyed

(* README.md:512.  With an idleTimeout a tunnel to a connected target      *)
(* comes to an end, even one whose client was gone before bind().          *)
IdleEnds ==
  bound /\ IdleTimeout /\ Dial = "tunnelled"
    ~> sock["client"].destroyed /\ sock["target"].destroyed

-----------------------------------------------------------------------------
(* What the comments and the README say of every tunnel, and the code does *)
(* not keep.                                                               *)

(* tunnel/index.js:5-6.  "A half-close (FIN) from one peer is forwarded    *)
(* with end(), so bytes still buffered in the pipe drain": a transform is  *)
(* part of the pipe, and what it holds does not.                           *)
EveryByteDrains == \A s \in Sides : Drained(s)

(* README.md:508.  "when one side finishes sending (FIN), the other        *)
(* direction stays open": while nothing breaks, a bound tunnel ends a      *)
(* socket only because the other one has finished.  A FIN that came before *)
(* bind() found a socket that still ends both ways.                        *)
OtherWayStaysOpen ==
  bound /\ ~Faulty => \A s \in Sides : sock[s].ending => sock[Other(s)].ended
=============================================================================
