---------------------------- MODULE ForwardServer ---------------------------
(***************************************************************************)
(* The forward server of src/proxy/server/forward/index.js: an http.Server *)
(* that refuses plain requests with 405, hands each CONNECT to the         *)
(* application with its socket paused, and lets it bind() the connection   *)
(* or refuse it with error() or end().  A CONNECT may be pipelined behind  *)
(* a plain request: then both handlers have the same socket.               *)
(*                                                                         *)
(* Node's http.Server is external: it keeps a list of its own sockets      *)
(* (what closeAllConnections() destroys), takes a socket off that list at  *)
(* its CONNECT, with the bytes already read behind it as the head, and     *)
(* allows half-open sockets.  Client bytes are counted in segments.        *)
(***************************************************************************)
EXTENDS Naturals

CONSTANTS
  Clients,
  MaxSegments    \* bound: segments a client sends after its CONNECT

ASSUME ForwardAssumption == MaxSegments \in Nat

VARIABLES
  wrapped,       \* the options were an existing http.Server
  sent,          \* sent[c]: segments sent after the CONNECT
  fin,           \* fin[c]: the client has finished sending
  wire,          \* wire[c]: segments not yet emitted as 'data'
  sock,          \* sock[c]: "none", "open", "destroyed" or "closed"
  flowing,       \* flowing[c]: the socket is not paused
  gotEnd,        \* gotEnd[c]: 'end' was emitted
  ended,         \* ended[c]: end() was called on the socket
  last,          \* last[c]: http ends the socket when its response is out
  stage,         \* stage[c]: "http", or of a CONNECT "asked", "bound", "refused"
  head,          \* head[c]: segments in connection._head
  forwarded,     \* forwarded[c]: segments written to the target
  replies,       \* replies[c]: the status lines the code writes to the client
  httpSockets,   \* the http.Server's own list
  connections,   \* server._connections
  closing,       \* close() was called
  resolved       \* its promise has resolved

streamVars == <<wrapped, sent, fin>>
tunnelVars == <<head, forwarded>>
closeVars == <<closing, resolved>>
vars == <<wrapped, sent, fin, wire, sock, flowing, gotEnd, ended, last, stage, head, forwarded,
          replies, httpSockets, connections, closing, resolved>>

Stages == {"none", "http", "asked", "bound", "refused"}
Statuses == {"200", "405", "error"}

Init ==
  /\ wrapped \in BOOLEAN
  /\ sent = [c \in Clients |-> 0]
  /\ fin = [c \in Clients |-> FALSE]
  /\ wire = [c \in Clients |-> 0]
  /\ sock = [c \in Clients |-> "none"]
  /\ flowing = [c \in Clients |-> FALSE]
  /\ gotEnd = [c \in Clients |-> FALSE]
  /\ ended = [c \in Clients |-> FALSE]
  /\ last = [c \in Clients |-> FALSE]
  /\ stage = [c \in Clients |-> "none"]
  /\ head = [c \in Clients |-> 0]
  /\ forwarded = [c \in Clients |-> 0]
  /\ replies = [c \in Clients |-> {}]
  /\ httpSockets = {}
  /\ connections = {}
  /\ closing = FALSE
  /\ resolved = FALSE

-----------------------------------------------------------------------------
(* The clients.                                                            *)

Send(c) ==
  /\ sock[c] = "open"
  /\ stage[c] \in {"asked", "bound", "refused"}
  /\ ~fin[c]
  /\ sent[c] < MaxSegments
  /\ sent' = [sent EXCEPT ![c] = @ + 1]
  /\ wire' = [wire EXCEPT ![c] = @ + 1]
  /\ UNCHANGED <<wrapped, fin, sock, flowing, gotEnd, ended, last, stage, tunnelVars, replies,
                 httpSockets, connections, closeVars>>

Fin(c) ==
  /\ sock[c] = "open"
  /\ ~fin[c]
  /\ fin' = [fin EXCEPT ![c] = TRUE]
  /\ UNCHANGED <<wrapped, sent, wire, sock, flowing, gotEnd, ended, last, stage, tunnelVars,
                 replies, httpSockets, connections, closeVars>>

(* A reset, at any time: the 'error' listener destroys the socket.         *)
Reset(c) ==
  /\ sock[c] = "open"
  /\ sock' = [sock EXCEPT ![c] = "destroyed"]
  /\ UNCHANGED <<streamVars, wire, flowing, gotEnd, ended, last, stage, tunnelVars,
                 replies, httpSockets, connections, closeVars>>

-----------------------------------------------------------------------------
(* The http.Server.                                                        *)

Accept(c) ==
  /\ ~closing
  /\ sock[c] = "none"
  /\ sock' = [sock EXCEPT ![c] = "open"]
  /\ stage' = [stage EXCEPT ![c] = "http"]
  /\ flowing' = [flowing EXCEPT ![c] = TRUE]
  /\ httpSockets' = httpSockets \cup {c}
  /\ UNCHANGED <<streamVars, wire, gotEnd, ended, last, tunnelVars, replies,
                 connections, closeVars>>

(* A plain request, the first or a later one: 405 and the end of the       *)
(* connection when the response is out, or what the handler of a wrapped   *)
(* server makes of it.                                                     *)
KeptAlive(c) == UNCHANGED last                       \* seeded bug

NotKeptAlive(c) == last' = [last EXCEPT ![c] = TRUE]

PlainRequest(c) ==
  /\ sock[c] = "open"
  /\ stage[c] = "http"
  /\ ~gotEnd[c]
  /\ IF wrapped
     THEN /\ UNCHANGED replies
          /\ UNCHANGED last \/ last' = [last EXCEPT ![c] = TRUE]
     ELSE /\ replies' = [replies EXCEPT ![c] = @ \cup {"405"}]
          /\ NotKeptAlive(c)
  /\ UNCHANGED <<streamVars, wire, sock, flowing, gotEnd, ended, stage, tunnelVars,
                 httpSockets, connections, closeVars>>

(* The 'finish' of a last response: destroySoon() ends the socket, of a    *)
(* connection too if a CONNECT came behind the request.                    *)
LastResponse(c) ==
  /\ sock[c] = "open"
  /\ last[c]
  /\ ~ended[c]
  /\ ended' = [ended EXCEPT ![c] = TRUE]
  /\ UNCHANGED <<streamVars, wire, sock, flowing, gotEnd, last, stage, tunnelVars,
                 replies, httpSockets, connections, closeVars>>

(* The "connect" handler: n segments came with the CONNECT, h of them were *)
(* read with it.  The parser hands a CONNECT over whatever was answered    *)
(* before it on the same connection.                                       *)
Unregistered(c) == UNCHANGED connections             \* seeded bug

Registered(c) == connections' = connections \cup {c}

ConnectRequest(c) ==
  /\ sock[c] = "open"
  /\ stage[c] = "http"
  /\ ~fin[c]
  /\ \E n \in 0..MaxSegments, h \in 0..MaxSegments :
       /\ h <= n
       /\ sent' = [sent EXCEPT ![c] = n]
       /\ head' = [head EXCEPT ![c] = h]
       /\ wire' = [wire EXCEPT ![c] = n - h]
  /\ stage' = [stage EXCEPT ![c] = "asked"]
  /\ flowing' = [flowing EXCEPT ![c] = FALSE]
  /\ httpSockets' = httpSockets \ {c}
  /\ Registered(c)
  /\ UNCHANGED <<wrapped, fin, sock, gotEnd, ended, last, forwarded, replies, closeVars>>

-----------------------------------------------------------------------------
(* The application: bind(), or error() or end() before it.                 *)

(* writeResponse() writes nothing to a socket that is destroyed or ended.  *)
Respond(c, status) ==
  replies' = [replies EXCEPT ![c] =
    IF sock[c] = "open" /\ ~ended[c] THEN @ \cup {status} ELSE @]

BindHeadless(c) ==                                   \* seeded bug
  /\ stage[c] = "asked"
  /\ stage' = [stage EXCEPT ![c] = "bound"]
  /\ Respond(c, "200")
  /\ flowing' = [flowing EXCEPT ![c] = TRUE]
  /\ UNCHANGED <<streamVars, wire, sock, gotEnd, ended, last, tunnelVars, httpSockets,
                 connections, closeVars>>

Bind(c) ==
  /\ stage[c] = "asked"
  /\ stage' = [stage EXCEPT ![c] = "bound"]
  /\ forwarded' = [forwarded EXCEPT ![c] = head[c]]
  /\ Respond(c, "200")
  /\ flowing' = [flowing EXCEPT ![c] = TRUE]
  /\ UNCHANGED <<streamVars, wire, sock, gotEnd, ended, last, head, httpSockets,
                 connections, closeVars>>

LeftPaused(c) == UNCHANGED flowing                   \* seeded bug

Resumed(c) == flowing' = [flowing EXCEPT ![c] = TRUE]

Refuse(c) ==
  /\ stage[c] = "asked"
  /\ stage' = [stage EXCEPT ![c] = "refused"]
  /\ Respond(c, "error")
  /\ ended' = [ended EXCEPT ![c] = TRUE]
  /\ Resumed(c)
  /\ UNCHANGED <<streamVars, wire, sock, gotEnd, last, tunnelVars, httpSockets,
                 connections, closeVars>>

-----------------------------------------------------------------------------
(* The sockets.                                                            *)

(* 'data': to the tunnel when bound, to nobody when refused.               *)
Data(c) ==
  /\ sock[c] = "open"
  /\ flowing[c]
  /\ wire[c] > 0
  /\ wire' = [wire EXCEPT ![c] = @ - 1]
  /\ forwarded' = [forwarded EXCEPT ![c] = IF stage[c] = "bound" THEN @ + 1 ELSE @]
  /\ UNCHANGED <<streamVars, sock, flowing, gotEnd, ended, last, stage, head, replies,
                 httpSockets, connections, closeVars>>

(* 'end', once everything was read: nothing more of a half-open socket.    *)
(* An http socket ends its own side then; a tunnel leaves it to its target. *)
EndOfStream(c) ==
  /\ sock[c] = "open"
  /\ fin[c]
  /\ ~gotEnd[c]
  /\ wire[c] = 0
  /\ gotEnd' = [gotEnd EXCEPT ![c] = TRUE]
  /\ ended' = [ended EXCEPT ![c] = @ \/ stage[c] = "http"]
  /\ UNCHANGED <<streamVars, wire, sock, flowing, last, stage, tunnelVars, replies,
                 httpSockets, connections, closeVars>>

(* The target finishes and the tunnel ends the client socket.              *)
TargetEnds(c) ==
  /\ stage[c] = "bound"
  /\ ~ended[c]
  /\ ended' = [ended EXCEPT ![c] = TRUE]
  /\ UNCHANGED <<streamVars, wire, sock, flowing, gotEnd, last, stage, tunnelVars,
                 replies, httpSockets, connections, closeVars>>

(* autoDestroy: a socket that has ended both ways is destroyed; http, with *)
(* destroySoon(), does not wait for the client's FIN.                      *)
AutoDestroy(c) ==
  /\ sock[c] = "open"
  /\ gotEnd[c] \/ last[c]
  /\ ended[c]
  /\ sock' = [sock EXCEPT ![c] = "destroyed"]
  /\ UNCHANGED <<streamVars, wire, flowing, gotEnd, ended, last, stage, tunnelVars,
                 replies, httpSockets, connections, closeVars>>

(* 'close' of the socket.                                                  *)
Close(c) ==
  /\ sock[c] = "destroyed"
  /\ sock' = [sock EXCEPT ![c] = "closed"]
  /\ httpSockets' = httpSockets \ {c}
  /\ connections' = connections \ {c}
  /\ UNCHANGED <<streamVars, wire, flowing, gotEnd, ended, last, stage, tunnelVars,
                 replies, closeVars>>

(* server.close(): the tunnels, then the http.Server's own sockets.        *)
ClosedByHttp == httpSockets                          \* seeded bug

ClosedSockets == connections \cup httpSockets

ServerClose ==
  /\ ~closing
  /\ closing' = TRUE
  /\ sock' = [c \in Clients |->
       IF c \in ClosedSockets /\ sock[c] = "open" THEN "destroyed" ELSE sock[c]]
  /\ connections' = {}
  /\ UNCHANGED <<streamVars, wire, flowing, gotEnd, ended, last, stage, tunnelVars,
                 replies, httpSockets, resolved>>

Resolve ==
  /\ closing
  /\ ~resolved
  /\ \A c \in Clients : sock[c] \in {"none", "closed"}
  /\ resolved' = TRUE
  /\ UNCHANGED <<streamVars, wire, sock, flowing, gotEnd, ended, last, stage, tunnelVars,
                 replies, httpSockets, connections, closing>>

-----------------------------------------------------------------------------
Step(c) ==
  \/ Send(c) \/ Fin(c) \/ Reset(c)
  \/ Accept(c) \/ PlainRequest(c) \/ LastResponse(c) \/ ConnectRequest(c)
  \/ Bind(c) \/ Refuse(c)
  \/ Data(c) \/ EndOfStream(c) \/ TargetEnds(c) \/ AutoDestroy(c) \/ Close(c)

Next == ServerClose \/ Resolve \/ \E c \in Clients : Step(c)

Spec == Init /\ [][Next]_vars

(* The sockets do what is due, and what was written to a client before     *)
(* end() goes out; nothing else is assumed of the clients.                 *)
Fairness ==
  /\ WF_vars(Resolve)
  /\ \A c \in Clients :
       /\ WF_vars(Data(c)) /\ WF_vars(EndOfStream(c))
       /\ WF_vars(LastResponse(c)) /\ WF_vars(AutoDestroy(c)) /\ WF_vars(Close(c))

FairSpec == Spec /\ Fairness

-----------------------------------------------------------------------------
(* Properties.                                                             *)

(* Every variable keeps its type.                                          *)
TypeOK ==
  /\ wrapped \in BOOLEAN
  /\ sent \in [Clients -> Nat]
  /\ fin \in [Clients -> BOOLEAN]
  /\ wire \in [Clients -> Nat]
  /\ sock \in [Clients -> {"none", "open", "destroyed", "closed"}]
  /\ flowing \in [Clients -> BOOLEAN]
  /\ gotEnd \in [Clients -> BOOLEAN]
  /\ ended \in [Clients -> BOOLEAN]
  /\ last \in [Clients -> BOOLEAN]
  /\ stage \in [Clients -> Stages]
  /\ head \in [Clients -> Nat]
  /\ forwarded \in [Clients -> Nat]
  /\ replies \in [Clients -> SUBSET Statuses]
  /\ httpSockets \subseteq Clients
  /\ connections \subseteq Clients
  /\ closing \in BOOLEAN
  /\ resolved \in BOOLEAN

(* The target gets what the client sent behind its CONNECT from the first  *)
(* byte, whether it came with the CONNECT, before bind() or after it.      *)
StreamIntact ==
  \A c \in Clients :
    stage[c] # "refused" =>
      (IF stage[c] = "bound" THEN forwarded[c] ELSE head[c]) + wire[c] = sent[c]

(* Every open socket is in the list close() destroys it from, and in one   *)
(* only: the CONNECT moves it from the http.Server's list to ours.         *)
Tracked ==
  \A c \in Clients :
    /\ sock[c] = "open" => (c \in httpSockets) # (c \in connections)
    /\ closing => sock[c] # "open"

(* forward/index.js:248-250.  A refused connection goes away when its      *)
(* client finishes too, whatever it had still sent.                        *)
RefusedCloses == \A c \in Clients : stage[c] = "refused" /\ fin[c] ~> sock[c] = "closed"

(* forward/index.js:76-80, 83.  A connection that was answered 405 goes    *)
(* away by itself, also when a CONNECT pipelined behind the plain request  *)
(* has made a paused or a bound connection of its socket by then.          *)
PlainCloses == \A c \in Clients : "405" \in replies[c] ~> sock[c] = "closed"

(* forward/index.js:310-312.  close() resolves.                            *)
CloseResolves == closing ~> resolved
=============================================================================
