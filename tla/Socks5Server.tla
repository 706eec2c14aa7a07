---------------------------- MODULE Socks5Server ----------------------------
(***************************************************************************)
(* The SOCKS5 server of src/proxy/server/socks5/index.js, from the TCP     *)
(* connection to what the application does with the "connection" event:    *)
(* greeting, authentication and request, each read by one once("data")     *)
(* listener on a socket that keeps flowing between them; bind(), error()   *)
(* and end(); the handshake timer; the registries _handshaking and         *)
(* _connections; and close().                                              *)
(*                                                                         *)
(* phase[c] names the listener the client socket has: what the next 'data' *)
(* event does.  A 'data' event with no listener loses its bytes.  One      *)
(* event may carry a part of a message or several messages at once; a      *)
(* listener reads only the beginning of what it is given.                  *)
(*                                                                         *)
(* The tunnel that bind() starts is the subject of module Tunnel.          *)
(***************************************************************************)
EXTENDS Sequences, Naturals

CONSTANTS
  Clients,
  Eager,         \* clients that do not wait for the server's replies
  Split,         \* clients whose messages the network may split
  Authenticate,  \* TRUE when the authenticate option is given
  AnonymousOk,   \* what it answers when there are no credentials
  Slow           \* what it is asked about and answers later

Methods == {"none", "userpass"}
Credentials == {"good", "bad"}

ASSUME Socks5Assumption ==
  /\ Eager \subseteq Clients
  /\ Split \subseteq Clients
  /\ Authenticate \in BOOLEAN
  /\ AnonymousOk \in BOOLEAN
  /\ Slow \subseteq Credentials \cup {"anonymous"}
  /\ Authenticate \/ Slow = {}

Messages == {"greeting", "garbage", "good", "bad", "connect", "other", "rest"}
Replies == {"none", "userpass", "anonymous", "accepted", "denied",
            "unacceptable", "failed", "granted"}
Served == {"ready", "bound", "ended"}
Phases == {"new", "greeting", "auth", "checking", "request", "refused"} \cup Served

VARIABLES
  methods,       \* methods[c]: what the client offers
  next,          \* next[c]: the message the client sends next
  wire,          \* wire[c]: messages sent and not yet emitted as 'data'
  reply,         \* reply[c]: the last reply of the server
  sock,          \* sock[c]: "none", "open", "destroyed" or "closed"
  phase,
  claim,         \* claim[c]: what authenticate() was called with
  verdict,       \* verdict[c]: what it answered
  auth,          \* auth[c]: what getAuth() of the connection returns
  timer,         \* timer[c]: the handshake timer is set
  handshaking,   \* server._handshaking
  connections,   \* server._connections
  emitted,       \* emitted[c]: "connection" events for the socket
  dropped,       \* dropped[c]: bytes were emitted with no listener
  closing,       \* close() was called
  resolved       \* its promise has resolved

clientVars == <<methods, next>>
authVars == <<claim, verdict, auth>>
closeVars == <<closing, resolved>>
registryVars == <<timer, handshaking, connections, emitted>>
vars == <<methods, next, wire, reply, sock, phase, claim, verdict, auth, timer,
          handshaking, connections, emitted, dropped, closing, resolved>>

Init ==
  /\ methods \in [Clients -> SUBSET Methods]
  /\ next = [c \in Clients |-> "greeting"]
  /\ wire = [c \in Clients |-> <<>>]
  /\ reply = [c \in Clients |-> "none"]
  /\ sock = [c \in Clients |-> "none"]
  /\ phase = [c \in Clients |-> "new"]
  /\ claim = [c \in Clients |-> "none"]
  /\ verdict = [c \in Clients |-> "none"]
  /\ auth = [c \in Clients |-> "undefined"]
  /\ timer = [c \in Clients |-> FALSE]
  /\ handshaking = {}
  /\ connections = {}
  /\ emitted = [c \in Clients |-> 0]
  /\ dropped = [c \in Clients |-> FALSE]
  /\ closing = FALSE
  /\ resolved = FALSE

-----------------------------------------------------------------------------
(* The clients.  Each sends its greeting, its credentials if it offered    *)
(* them, its request and what it wants tunnelled, and waits for the reply  *)
(* to each unless Eager.                                                   *)

MaySend(c, message) ==
  /\ sock[c] = "open"
  /\ next[c] = message
  /\ c \in Eager \/ CASE message = "greeting" -> TRUE
                      [] message = "creds"    -> reply[c] = "userpass"
                      [] message = "request"  -> reply[c] \in {"anonymous", "accepted"}
                      [] message = "payload"  -> reply[c] = "granted"

Sends(c, m, then) ==
  /\ wire' = [wire EXCEPT ![c] = Append(@, m)]
  /\ next' = [next EXCEPT ![c] = then]
  /\ UNCHANGED <<methods, reply, sock, phase, authVars, timer, handshaking,
                 connections, emitted, dropped, closeVars>>

SendGreeting(c) ==
  /\ MaySend(c, "greeting")
  /\ \E m \in {"greeting", "garbage"} :
       Sends(c, m, IF "userpass" \in methods[c] THEN "creds" ELSE "request")

SendCredentials(c) ==
  /\ MaySend(c, "creds")
  /\ \E m \in Credentials : Sends(c, m, "request")

SendRequest(c) ==
  \E m \in {"connect", "other"} :
    \/ MaySend(c, "request") /\ Sends(c, m, "payload")
    \/ MaySend(c, "payload") /\ Sends(c, m, "nothing")

(* A destroyed socket emits nothing of what is still on its wire.          *)
Destroyed(c) ==
  /\ sock[c] = "open"
  /\ sock' = [sock EXCEPT ![c] = "destroyed"]
  /\ wire' = [wire EXCEPT ![c] = <<>>]

(* The client disconnects; without allowHalfOpen its FIN ends both ways.   *)
Disconnect(c) ==
  /\ Destroyed(c)
  /\ UNCHANGED <<clientVars, reply, phase, authVars, timer, handshaking,
                 connections, emitted, dropped, closeVars>>

-----------------------------------------------------------------------------
(* The server's 'connection' handler.                                      *)
AcceptUntimed(c) ==                                  \* seeded bug
  /\ ~closing
  /\ sock[c] = "none"
  /\ sock' = [sock EXCEPT ![c] = "open"]
  /\ phase' = [phase EXCEPT ![c] = "greeting"]
  /\ handshaking' = handshaking \cup {c}
  /\ UNCHANGED <<clientVars, wire, reply, authVars, timer, connections, emitted,
                 dropped, closeVars>>

Accept(c) ==
  /\ ~closing
  /\ sock[c] = "none"
  /\ sock' = [sock EXCEPT ![c] = "open"]
  /\ phase' = [phase EXCEPT ![c] = "greeting"]
  /\ timer' = [timer EXCEPT ![c] = TRUE]
  /\ handshaking' = handshaking \cup {c}
  /\ UNCHANGED <<clientVars, wire, reply, authVars, connections, emitted,
                 dropped, closeVars>>

(* What the listeners do with the socket: the reply they write and the     *)
(* listener they leave behind.  Refuse is write() then end().              *)
Answer(c, r, then) ==
  /\ reply' = [reply EXCEPT ![c] = r]
  /\ phase' = [phase EXCEPT ![c] = then]

Refuse(c, r) == Answer(c, r, "refused")

(* The continuation of authenticate(who).                                  *)
Valid(who) ==
  IF ~Authenticate THEN TRUE
  ELSE IF who = "anonymous" THEN AnonymousOk
  ELSE who = "good"

JudgedTrusting(c, who) ==                            \* seeded bug
  /\ verdict' = [verdict EXCEPT ![c] = IF Valid(who) THEN "valid" ELSE "invalid"]
  /\ UNCHANGED auth
  /\ Answer(c, "accepted", "request")

Judged(c, who) ==
  LET ok == Valid(who) IN
  /\ verdict' = [verdict EXCEPT ![c] = IF ok THEN "valid" ELSE "invalid"]
  /\ IF ok /\ who # "anonymous"
     THEN auth' = [auth EXCEPT ![c] = who] /\ Answer(c, "accepted", "request")
     ELSE /\ UNCHANGED auth
          /\ IF ok THEN Answer(c, "anonymous", "request")
             ELSE Refuse(c, IF who = "anonymous" THEN "anonymous" ELSE "denied")

(* authenticate(who) is called: its answer is there at once, or later.     *)
CheckLater(c, who) ==                                \* seeded bug
  /\ claim' = [claim EXCEPT ![c] = who]
  /\ Answer(c, IF who = "anonymous" THEN "anonymous" ELSE reply[c], "checking")
  /\ UNCHANGED <<verdict, auth>>

Check(c, who) ==
  /\ claim' = [claim EXCEPT ![c] = who]
  /\ IF who \in Slow
     THEN /\ Answer(c, IF who = "anonymous" THEN "anonymous" ELSE reply[c], "checking")
          /\ UNCHANGED <<verdict, auth>>
     ELSE Judged(c, who)

(* The promise of authenticate() settles, perhaps after the socket died.   *)
Settle(c) ==
  /\ phase[c] = "checking"
  /\ \/ Judged(c, claim[c])
     \/ /\ Refuse(c, reply[c])       \* it rejects: error reported, end()
        /\ verdict' = [verdict EXCEPT ![c] = "rejected"]
        /\ UNCHANGED auth
  /\ UNCHANGED <<clientVars, wire, sock, claim, registryVars, dropped, closeVars>>

(* The greeting: userpass is preferred; no-auth is checked only when there *)
(* is an authenticate option.                                              *)
Greet(c, offered) ==
  IF "userpass" \in offered
  THEN Answer(c, "userpass", "auth") /\ UNCHANGED authVars
  ELSE IF "none" \in offered
  THEN IF ~Authenticate
       THEN Answer(c, "anonymous", "request") /\ UNCHANGED authVars
       ELSE Check(c, "anonymous")
  ELSE Refuse(c, "unacceptable") /\ UNCHANGED authVars

(* The address was parsed: the socket leaves the handshake.                *)
PromoteTimed(c) ==                                   \* seeded bug
  /\ handshaking' = handshaking \ {c}
  /\ connections' = connections \cup {c}
  /\ emitted' = [emitted EXCEPT ![c] = @ + 1]
  /\ Answer(c, reply[c], "ready")
  /\ UNCHANGED timer

Promote(c) ==
  /\ timer' = [timer EXCEPT ![c] = FALSE]
  /\ handshaking' = handshaking \ {c}
  /\ connections' = connections \cup {c}
  /\ emitted' = [emitted EXCEPT ![c] = @ + 1]
  /\ Answer(c, reply[c], "ready")

(* The application binds the connection (its data is the tunnel's from     *)
(* here on), refuses it with error(), or ends it.  end() leaves the socket *)
(* flowing and without a timer: only the client or close() removes it.  On *)
(* a socket that is gone already these calls change nothing.               *)
AppBind(c) ==
  /\ phase[c] = "ready"
  /\ sock[c] = "open"
  /\ Answer(c, "granted", "bound")
  /\ UNCHANGED <<clientVars, wire, sock, authVars, registryVars, dropped, closeVars>>

AppEnd(c) ==
  /\ phase[c] = "ready"
  /\ sock[c] = "open"
  /\ \E r \in {"failed", reply[c]} : Answer(c, r, "ended")
  /\ UNCHANGED <<clientVars, wire, sock, authVars, registryVars, dropped, closeVars>>

(* The first message of a 'data' event as its listener reads it: a whole   *)
(* one, or a part of it (of a greeting, some of the methods).              *)
OnGreeting(c, m, whole) ==
  /\ phase[c] = "greeting"
  /\ IF m = "garbage"
     THEN Refuse(c, reply[c]) /\ UNCHANGED authVars
     ELSE \E offered \in SUBSET methods[c] :
            (whole => offered = methods[c]) /\ Greet(c, offered)
  /\ UNCHANGED <<registryVars, dropped>>

OnAuth(c, m, whole) ==
  /\ phase[c] = "auth"
  /\ IF whole /\ m \in Credentials
     THEN Check(c, m)
     ELSE \/ Refuse(c, "denied") /\ UNCHANGED authVars
          \/ m \notin Credentials /\ Check(c, "bad")   \* other bytes may parse as some
  /\ UNCHANGED <<registryVars, dropped>>

OnRequest(c, m, whole) ==
  /\ phase[c] = "request"
  /\ IF whole /\ m = "connect"
     THEN Promote(c)
     ELSE \/ Refuse(c, "failed") /\ UNCHANGED registryVars
          \/ m \in Credentials \cup {"rest"} /\ Promote(c)   \* the version is not read
  /\ UNCHANGED <<authVars, dropped>>

OnNothing(c) ==
  /\ phase[c] \in {"checking", "refused"} \cup Served
  /\ dropped' = [dropped EXCEPT ![c] = @ \/ phase[c] # "bound"]
  /\ UNCHANGED <<reply, phase, authVars, registryVars>>

(* 'data': n messages, or a part of the first one.                         *)
Data(c) ==
  /\ sock[c] = "open"
  /\ wire[c] # <<>>
  /\ \E n \in 1..Len(wire[c]), whole \in {TRUE, c \notin Split} :
       LET m == Head(wire[c])
           after == SubSeq(wire[c], n + 1, Len(wire[c]))
       IN
       /\ whole \/ n = 1
       /\ wire' = [wire EXCEPT ![c] = IF whole THEN after ELSE <<"rest">> \o after]
       /\ \/ OnGreeting(c, m, whole)
          \/ OnAuth(c, m, whole)
          \/ OnRequest(c, m, whole)
          \/ OnNothing(c)
  /\ UNCHANGED <<clientVars, sock, closeVars>>

(* The handshake timer destroys the socket.                                *)
Timeout(c) ==
  /\ timer[c]
  /\ Destroyed(c)
  /\ UNCHANGED <<clientVars, reply, phase, authVars, registryVars, dropped,
                 closeVars>>

(* 'close' of the socket: both listeners.                                  *)
Close(c) ==
  /\ sock[c] = "destroyed"
  /\ sock' = [sock EXCEPT ![c] = "closed"]
  /\ timer' = [timer EXCEPT ![c] = FALSE]
  /\ handshaking' = handshaking \ {c}
  /\ connections' = connections \ {c}
  /\ UNCHANGED <<clientVars, wire, reply, phase, authVars, emitted, dropped, closeVars>>

(* server.close(): which sockets it destroys.                              *)
ClosedConnectionsOnly == connections                 \* seeded bug

ClosedHandshakesOnly == handshaking                  \* seeded bug

ClosedSockets == handshaking \cup connections

ServerClose ==
  /\ ~closing
  /\ closing' = TRUE
  /\ sock' = [c \in Clients |->
       IF c \in ClosedSockets /\ sock[c] = "open"
       THEN "destroyed" ELSE sock[c]]
  /\ wire' = [c \in Clients |-> IF c \in ClosedSockets THEN <<>> ELSE wire[c]]
  /\ handshaking' = {}
  /\ connections' = {}
  /\ UNCHANGED <<clientVars, reply, phase, authVars, timer, emitted,
                 dropped, resolved>>

(* tcp.close() calls back when the last socket has closed.                 *)
Resolve ==
  /\ closing
  /\ ~resolved
  /\ \A c \in Clients : sock[c] \in {"none", "closed"}
  /\ resolved' = TRUE
  /\ UNCHANGED <<clientVars, wire, reply, sock, phase, authVars, timer,
                 handshaking, connections, emitted, dropped, closing>>

-----------------------------------------------------------------------------
ClientStep(c) ==
  SendGreeting(c) \/ SendCredentials(c) \/ SendRequest(c) \/ Disconnect(c)

ServerStep(c) ==
  Accept(c) \/ Data(c) \/ Settle(c) \/ Timeout(c) \/ Close(c)

AppStep(c) == AppBind(c) \/ AppEnd(c)

Next ==
  \/ ServerClose \/ Resolve
  \/ \E c \in Clients : ClientStep(c) \/ ServerStep(c) \/ AppStep(c)

Spec == Init /\ [][Next]_vars

(* Timers fire and 'close' events and callbacks are delivered; nothing is  *)
(* assumed of the clients, of the network or of authenticate().            *)
Fairness ==
  /\ WF_vars(Resolve)
  /\ \A c \in Clients : WF_vars(Timeout(c)) /\ WF_vars(Close(c))

FairSpec == Spec /\ Fairness

-----------------------------------------------------------------------------
(* Properties.                                                             *)

(* Every variable keeps its type.                                          *)
TypeOK ==
  /\ methods \in [Clients -> SUBSET Methods]
  /\ next \in [Clients -> {"greeting", "creds", "request", "payload", "nothing"}]
  /\ wire \in [Clients -> Seq(Messages)]
  /\ reply \in [Clients -> Replies]
  /\ sock \in [Clients -> {"none", "open", "destroyed", "closed"}]
  /\ phase \in [Clients -> Phases]
  /\ claim \in [Clients -> Credentials \cup {"none", "anonymous"}]
  /\ verdict \in [Clients -> {"none", "valid", "invalid", "rejected"}]
  /\ auth \in [Clients -> Credentials \cup {"undefined"}]
  /\ timer \in [Clients -> BOOLEAN]
  /\ handshaking \subseteq Clients
  /\ connections \subseteq Clients
  /\ emitted \in [Clients -> Nat]
  /\ dropped \in [Clients -> BOOLEAN]
  /\ closing \in BOOLEAN
  /\ resolved \in BOOLEAN

(* README.md:115.  No connection reaches the application unless the        *)
(* authenticate option accepted exactly what this client presented, and    *)
(* getAuth() then returns those credentials.                               *)
AuthenticatedOnly ==
  \A c \in Clients :
    emitted[c] > 0 /\ Authenticate =>
      /\ verdict[c] = "valid"
      /\ Valid(claim[c])
      /\ auth[c] = IF claim[c] = "anonymous" THEN "undefined" ELSE claim[c]

(* Every socket the server has accepted and not lost is in one registry    *)
(* and one only, so that close() reaches it; after close() none is open.   *)
Tracked ==
  \A c \in Clients :
    /\ sock[c] = "open" => (c \in handshaking) # (c \in connections)
    /\ c \in handshaking \cup connections => sock[c] \in {"open", "destroyed"}
    /\ closing => sock[c] # "open"

(* The handshake timer guards every open socket that is not yet served,    *)
(* refused ones too, and never one that is.                                *)
TimerGuardsHandshake ==
  \A c \in Clients : sock[c] = "open" => (timer[c] <=> c \notin connections)

(* One socket is one connection.                                           *)
EmittedOnce == \A c \in Clients : emitted[c] <= 1

(* README.md:115.  A client that waits for each reply before it goes on,   *)
(* and whose messages arrive whole, has every message, and the first bytes *)
(* for the target, read by the listener meant for it; only what it sends   *)
(* after authenticate() has refused it is not read.                        *)
PatientClientHeard ==
  \A c \in Clients \ (Eager \cup Split) :
    dropped[c] => phase[c] = "refused" /\ verdict[c] = "invalid"

(* A connected client is served or gone in the end.                        *)
HandshakeEnds ==
  \A c \in Clients :
    sock[c] = "open" ~> c \in connections \/ sock[c] = "closed"

(* socks5/index.js:452-454.  close() resolves.                             *)
CloseResolves == closing ~> resolved
=============================================================================
