---------------------------- MODULE ReverseServer ---------------------------
(***************************************************************************)
(* The reverse server of src/proxy/server/reverse/index.js: a connection   *)
(* handed to the application with its socket paused, waitSNI(), which      *)
(* resumes it and buffers into _head until a ClientHello is complete, and  *)
(* bind(), which writes _head to the target and lets the rest flow.        *)
(*                                                                         *)
(* A client's stream is counted in segments.  What the segments hold is    *)
(* told by kind[c]: a ClientHello complete after HelloSize segments, one   *)
(* that is malformed (waiting would not help it), or anything else.  The   *)
(* parser itself is src/utils/sni/index.js.                                *)
(***************************************************************************)
EXTENDS Naturals

CONSTANTS
  Clients,
  HelloSize,     \* segments of a complete ClientHello
  MaxHello,      \* MAX_CLIENT_HELLO_SIZE, in segments
  MaxSegments    \* bound: segments a client sends

ASSUME ReverseAssumption ==
  /\ HelloSize \in Nat \ {0}
  /\ MaxHello \in Nat
  /\ MaxSegments \in Nat

VARIABLES
  kind,          \* kind[c]: "hello", "malformed" or "other"
  sent,          \* sent[c]: segments the client has sent
  fin,           \* fin[c]: the client has finished sending
  wire,          \* wire[c]: those not yet emitted as 'data'
  sock,          \* sock[c]: "none", "open", "destroyed" or "closed"
  flowing,       \* flowing[c]: the socket is not paused
  head,          \* head[c]: segments in connection._head
  waiting,       \* waiting[c]: the listeners of waitSNI() are on
  timer,         \* timer[c]: the SNI timer is set
  outcome,       \* outcome[c]: how the promise of waitSNI() settled
  ended,         \* ended[c]: the application called end() or error()
  bound,         \* bound[c]: bind() was called
  forwarded,     \* forwarded[c]: segments written to the target
  connections,   \* server._connections
  crashed,       \* crashed[c]: an 'error' event of its socket had no listener
  closing,       \* close() was called
  resolved       \* its promise has resolved

streamVars == <<kind, sent, fin>>
waitVars == <<waiting, timer, outcome>>
serverVars == <<connections, crashed, closing, resolved>>
vars == <<kind, sent, fin, wire, sock, flowing, head, waiting, timer, outcome,
          ended, bound, forwarded, connections, crashed, closing, resolved>>

Kinds == {"hello", "malformed", "other"}
Outcomes == {"none", "pending", "routed", "timeout", "closed", "oversize"}

Init ==
  /\ kind \in [Clients -> Kinds]
  /\ sent = [c \in Clients |-> 0]
  /\ fin = [c \in Clients |-> FALSE]
  /\ wire = [c \in Clients |-> 0]
  /\ sock = [c \in Clients |-> "none"]
  /\ flowing = [c \in Clients |-> FALSE]
  /\ head = [c \in Clients |-> 0]
  /\ waiting = [c \in Clients |-> FALSE]
  /\ timer = [c \in Clients |-> FALSE]
  /\ outcome = [c \in Clients |-> "none"]
  /\ ended = [c \in Clients |-> FALSE]
  /\ bound = [c \in Clients |-> FALSE]
  /\ forwarded = [c \in Clients |-> 0]
  /\ connections = {}
  /\ crashed = [c \in Clients |-> FALSE]
  /\ closing = FALSE
  /\ resolved = FALSE

-----------------------------------------------------------------------------
(* The clients.                                                            *)

Send(c) ==
  /\ sock[c] = "open"
  /\ ~fin[c]
  /\ sent[c] < MaxSegments
  /\ sent' = [sent EXCEPT ![c] = @ + 1]
  /\ wire' = [wire EXCEPT ![c] = @ + 1]
  /\ UNCHANGED <<kind, fin, sock, flowing, head, waitVars, ended, bound, forwarded, serverVars>>

Fin(c) ==
  /\ sock[c] = "open"
  /\ ~fin[c]
  /\ fin' = [fin EXCEPT ![c] = TRUE]
  /\ UNCHANGED <<kind, sent, wire, sock, flowing, head, waitVars, ended, bound,
                 forwarded, serverVars>>

(* pauseOnConnect: nothing is read from the network before the first       *)
(* resume(); after it, pause() only holds back 'data'.  (The server makes  *)
(* its net.Server that way; one the caller brings may read at once.)       *)
Reading(c) == flowing[c] \/ outcome[c] # "none"

(* 'end', once everything was read.  Without allowHalfOpen it ends both    *)
(* ways and the socket is destroyed; after bind() that is the business of  *)
(* the tunnel (module Tunnel), which brings the socket to its end too.     *)
EndOfStream(c) ==
  /\ sock[c] = "open"
  /\ Reading(c)
  /\ fin[c]
  /\ wire[c] = 0
  /\ sock' = [sock EXCEPT ![c] = "destroyed"]
  /\ UNCHANGED <<streamVars, wire, flowing, head, waitVars, ended, bound, forwarded, serverVars>>

(* A reset: 'error' has a listener only after bind().  The process would   *)
(* end there; the model notes it and goes on.                              *)
Reset(c) ==
  /\ sock[c] = "open"
  /\ Reading(c)
  /\ sock' = [sock EXCEPT ![c] = "destroyed"]
  /\ crashed' = [crashed EXCEPT ![c] = ~bound[c]]
  /\ UNCHANGED <<streamVars, wire, flowing, head, waitVars, ended, bound, forwarded,
                 connections, closing, resolved>>

-----------------------------------------------------------------------------
(* The server's 'connection' handler.                                      *)
Accept(c) ==
  /\ ~closing
  /\ sock[c] = "none"
  /\ sock' = [sock EXCEPT ![c] = "open"]
  /\ connections' = connections \cup {c}
  /\ UNCHANGED <<streamVars, wire, flowing, head, waitVars, ended, bound, forwarded,
                 crashed, closing, resolved>>

(* waitSNI(), once, before bind().                                         *)
WaitSNIUntimed(c) ==                                 \* seeded bug
  /\ sock[c] # "none"
  /\ outcome[c] = "none"
  /\ ~bound[c]
  /\ ~ended[c]
  /\ waiting' = [waiting EXCEPT ![c] = TRUE]
  /\ outcome' = [outcome EXCEPT ![c] = "pending"]
  /\ flowing' = [flowing EXCEPT ![c] = TRUE]
  /\ UNCHANGED <<streamVars, wire, sock, head, timer, ended, bound, forwarded, serverVars>>

WaitSNI(c) ==
  /\ sock[c] # "none"
  /\ outcome[c] = "none"
  /\ ~bound[c]
  /\ ~ended[c]
  /\ waiting' = [waiting EXCEPT ![c] = TRUE]
  /\ timer' = [timer EXCEPT ![c] = TRUE]
  /\ outcome' = [outcome EXCEPT ![c] = "pending"]
  /\ flowing' = [flowing EXCEPT ![c] = TRUE]
  /\ UNCHANGED <<streamVars, wire, sock, head, ended, bound, forwarded, serverVars>>

(* cleanup(), then the promise settles.                                    *)
CleanupTimerLeft(c, how) ==                          \* seeded bug
  /\ waiting' = [waiting EXCEPT ![c] = FALSE]
  /\ outcome' = [outcome EXCEPT ![c] = how]
  /\ UNCHANGED timer

SettleWait(c, how) ==
  /\ waiting' = [waiting EXCEPT ![c] = FALSE]
  /\ timer' = [timer EXCEPT ![c] = FALSE]
  /\ outcome' = [outcome EXCEPT ![c] = how]

(* isClientHello(head) and isComplete(head), for n segments.               *)
Ready(c, n) ==
  \/ kind[c] = "hello" /\ n >= HelloSize
  \/ kind[c] = "malformed"

(* What becomes of the socket when the ClientHello is there.               *)
LeftFlowing(c) == UNCHANGED flowing                  \* seeded bug

Paused(c) == flowing' = [flowing EXCEPT ![c] = FALSE]

TooLongNever(n) == FALSE                             \* seeded bug

TooLong(n) == n > MaxHello

(* The 'data' listener of waitSNI().                                       *)
Listen(c) ==
  LET n == head[c] + 1 IN
  /\ waiting[c]
  /\ head' = [head EXCEPT ![c] = n]
  /\ IF Ready(c, n)
     THEN SettleWait(c, "routed") /\ Paused(c) /\ UNCHANGED sock
     ELSE /\ UNCHANGED flowing
          /\ IF TooLong(n)
             THEN /\ SettleWait(c, "oversize")
                  /\ sock' = [sock EXCEPT ![c] = "destroyed"]
             ELSE UNCHANGED <<sock, waitVars>>
  /\ UNCHANGED forwarded

(* 'data': to waitSNI(), to the tunnel, or to nobody.                      *)
DataReplayed(c) ==                                   \* seeded bug
  /\ sock[c] = "open"
  /\ flowing[c]
  /\ wire' = [wire EXCEPT ![c] = @ - 1]
  /\ Listen(c) \/ (~waiting[c] /\ UNCHANGED <<head, sock, flowing, waitVars, forwarded>>)
  /\ UNCHANGED <<streamVars, ended, bound, serverVars>>

Data(c) ==
  /\ sock[c] = "open"
  /\ flowing[c]
  /\ wire[c] > 0
  /\ wire' = [wire EXCEPT ![c] = @ - 1]
  /\ \/ Listen(c)
     \/ /\ bound[c] /\ ~waiting[c]
        /\ forwarded' = [forwarded EXCEPT ![c] = @ + 1]
        /\ UNCHANGED <<head, sock, flowing, waitVars>>
     \/ /\ ~bound[c] /\ ~waiting[c]
        /\ UNCHANGED <<head, sock, flowing, waitVars, forwarded>>
  /\ UNCHANGED <<streamVars, ended, bound, serverVars>>

(* The SNI timer.                                                          *)
Timeout(c) ==
  /\ timer[c]
  /\ SettleWait(c, "timeout")
  /\ sock' = [sock EXCEPT ![c] = IF @ = "open" THEN "destroyed" ELSE @]
  /\ UNCHANGED <<streamVars, wire, flowing, head, ended, bound, forwarded, serverVars>>

(* bind() of a connection that was routed, or not sniffed at all.          *)
Bind(c) ==
  /\ sock[c] # "none"
  /\ outcome[c] \in {"none", "routed"}
  /\ ~ended[c]
  /\ ~bound[c]
  /\ bound' = [bound EXCEPT ![c] = TRUE]
  /\ forwarded' = [forwarded EXCEPT ![c] = head[c]]
  /\ flowing' = [flowing EXCEPT ![c] = TRUE]
  /\ UNCHANGED <<streamVars, wire, sock, head, waitVars, ended, serverVars>>

(* end() and error() of a connection that was not bound: the application   *)
(* calls them when it was told something, not while waitSNI() is pending.  *)
LeftPaused(c) == UNCHANGED flowing                   \* seeded bug

Resumed(c) == flowing' = [flowing EXCEPT ![c] = TRUE]

AppEnd(c) ==
  /\ sock[c] # "none"
  /\ outcome[c] # "pending"
  /\ ~ended[c]
  /\ ~bound[c]
  /\ ended' = [ended EXCEPT ![c] = TRUE]
  /\ Resumed(c)
  /\ UNCHANGED <<streamVars, wire, sock, head, waitVars, bound, forwarded, serverVars>>

(* 'close' of the socket: the server's listener, and that of waitSNI().    *)
Close(c) ==
  /\ sock[c] = "destroyed"
  /\ sock' = [sock EXCEPT ![c] = "closed"]
  /\ connections' = connections \ {c}
  /\ IF waiting[c] THEN SettleWait(c, "closed") ELSE UNCHANGED waitVars
  /\ UNCHANGED <<streamVars, wire, flowing, head, ended, bound, forwarded,
                 crashed, closing, resolved>>

(* server.close().                                                         *)
ClosedRoutedOnly == {c \in connections : outcome[c] = "routed"} \* seeded bug

ClosedSockets == connections

ServerClose ==
  /\ ~closing
  /\ closing' = TRUE
  /\ sock' = [c \in Clients |->
       IF c \in ClosedSockets /\ sock[c] = "open" THEN "destroyed" ELSE sock[c]]
  /\ connections' = {}
  /\ UNCHANGED <<streamVars, wire, flowing, head, waitVars, ended, bound, forwarded,
                 crashed, resolved>>

Resolve ==
  /\ closing
  /\ ~resolved
  /\ \A c \in Clients : sock[c] \in {"none", "closed"}
  /\ resolved' = TRUE
  /\ UNCHANGED <<streamVars, wire, sock, flowing, head, waitVars, ended, bound,
                 forwarded, connections, crashed, closing>>

-----------------------------------------------------------------------------
Step(c) ==
  \/ Send(c) \/ Fin(c) \/ EndOfStream(c) \/ Reset(c)
  \/ Accept(c) \/ WaitSNI(c) \/ Data(c) \/ Timeout(c) \/ Bind(c) \/ AppEnd(c) \/ Close(c)

Next == ServerClose \/ Resolve \/ \E c \in Clients : Step(c)

Spec == Init /\ [][Next]_vars

(* Timers fire, data that may flow does, 'close' is delivered.             *)
Fairness ==
  /\ WF_vars(Resolve)
  /\ \A c \in Clients :
       /\ WF_vars(Timeout(c)) /\ WF_vars(Close(c))
       /\ WF_vars(Data(c)) /\ WF_vars(EndOfStream(c))

FairSpec == Spec /\ Fairness

-----------------------------------------------------------------------------
(* Properties.                                                             *)

(* Every variable keeps its type.                                          *)
TypeOK ==
  /\ kind \in [Clients -> Kinds]
  /\ sent \in [Clients -> Nat]
  /\ fin \in [Clients -> BOOLEAN]
  /\ wire \in [Clients -> Nat]
  /\ sock \in [Clients -> {"none", "open", "destroyed", "closed"}]
  /\ flowing \in [Clients -> BOOLEAN]
  /\ head \in [Clients -> Nat]
  /\ waiting \in [Clients -> BOOLEAN]
  /\ timer \in [Clients -> BOOLEAN]
  /\ outcome \in [Clients -> Outcomes]
  /\ ended \in [Clients -> BOOLEAN]
  /\ bound \in [Clients -> BOOLEAN]
  /\ forwarded \in [Clients -> Nat]
  /\ connections \subseteq Clients
  /\ crashed \in [Clients -> BOOLEAN]
  /\ closing \in BOOLEAN
  /\ resolved \in BOOLEAN

(* The target gets the client's stream from its first byte: at any moment  *)
(* the segments taken from the socket are those in the head or, once       *)
(* bound, those written to the target.  None is lost while the application *)
(* thinks about what waitSNI() told it.                                    *)
StreamIntact ==
  \A c \in Clients :
    ~ended[c] =>
      (IF bound[c] THEN forwarded[c] ELSE head[c]) + wire[c] = sent[c]

(* The SNI timer lives as long as the wait: it cannot destroy a connection *)
(* that was routed, and no wait is without it.                             *)
TimerGuardsWait ==
  \A c \in Clients :
    /\ timer[c] <=> outcome[c] = "pending"
    /\ waiting[c] <=> outcome[c] = "pending"

(* A client that never completes a ClientHello is held to the limit and    *)
(* one segment.                                                            *)
HeadBounded == \A c \in Clients : head[c] <= MaxHello + 1

(* Every accepted socket is registered until it closes; none is open after *)
(* close().                                                                *)
Tracked ==
  \A c \in Clients :
    /\ sock[c] = "open" => c \in connections
    /\ c \in connections => sock[c] \in {"open", "destroyed"}
    /\ closing => sock[c] # "open"

(* The promise of waitSNI() settles, even if the socket is already gone.   *)
WaitSettles == \A c \in Clients : waiting[c] ~> ~waiting[c]

(* reverse/index.js:193-195.  A connection the application ended goes away *)
(* when its client finishes too, whatever data was still on its way.       *)
EndedCloses == \A c \in Clients : ended[c] /\ fin[c] ~> sock[c] = "closed"

(* close() resolves.                                                       *)
CloseResolves == closing ~> resolved

(* README.md:503.  A socket error while waitSNI() waits is an "error"      *)
(* event of the server, not an unhandled one that ends the process.        *)
ErrorsHandled == \A c \in Clients : waiting[c] => ~crashed[c]
=============================================================================
