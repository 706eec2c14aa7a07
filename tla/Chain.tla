-------------------------------- MODULE Chain --------------------------------
(***************************************************************************)
(* chain(proxies, target) of src/proxy/client/chain/index.js and the three *)
(* clients it runs, one per hop: forward (an HTTP CONNECT, plain or over   *)
(* TLS), socks5 (the external `socks' package) and reverse (a dial, when   *)
(* there is no proxy).  Hop i asks proxy i for a tunnel to proxy i+1, the  *)
(* last one for a tunnel to the target.                                    *)
(*                                                                         *)
(* A socket is named by the hop that dialled it; route[k] lists the        *)
(* proxies that have opened a tunnel on it, so it tells where the bytes    *)
(* written to it come out.  A continuation of the promise chain runs in    *)
(* microtasks, before any other event: it is part of the step that settles *)
(* the promise.                                                            *)
(***************************************************************************)
EXTENDS Naturals, Sequences

CONSTANT Chains      \* the chains looked at: the protocols of their proxies

Protocols == {"http", "https", "socks5", "other"}

ASSUME ChainAssumption == Chains \subseteq Seq(Protocols)

VARIABLES
  proxies,       \* the protocols of the proxies given
  hop,           \* the hop whose client runs
  stage,         \* what it waits for: "dial", "answer", or nothing ("done")
  current,       \* the socket it works on, 0 if it has none
  sockets,       \* the array of that name: those the catch will destroy
  timer,         \* its handshake timer is set
  outcome,       \* of the promise: "pending", "resolved", "rejected"
  sock,          \* sock[k]: "none", "connecting", "open", "destroyed"
  route          \* route[k]: see above

vars == <<proxies, hop, stage, current, sockets, timer, outcome, sock, route>>

Last == Len(proxies)

Ids(p) == 1..(Len(p) + 1)

(* A hop whose protocol has no client throws in the promise chain.         *)
Supported(p) == p # "other"

(* Whether a client given options.socket uses it.  client.forward makes it *)
(* its createConnection, which Node ignores when there is an agent, and an *)
(* https proxy gets one.                                                   *)
HttpOnly(p) == p = "http"                            \* seeded bug

UsesSocket(p) == p \in {"http", "socks5"}

(* The timer of SocksClient runs from the start; that of a request is set  *)
(* when its socket has connected.                                          *)
TimedDial(p) == p = "socks5"

(* Every client times the handshake.                                       *)
Untimed == FALSE                                     \* seeded bug

HandshakeTimed == TRUE

-----------------------------------------------------------------------------
(* The promise settles.                                                    *)

(* The failed client destroyed its socket, the catch those in sockets.     *)
DestroyedByClient(S) == {current}                    \* seeded bug

DestroyedOnFailure(S) == {current} \cup S

Reject(S) ==
  /\ outcome' = "rejected"
  /\ stage' = "done"
  /\ timer' = FALSE
  /\ sockets' = S
  /\ sock' = [k \in DOMAIN sock |->
       IF k \in DestroyedOnFailure(S) /\ sock[k] # "none" THEN "destroyed" ELSE sock[k]]
  /\ UNCHANGED <<proxies, hop, current, route>>

(* The continuation before hop i: s is the socket of the previous hop, 0   *)
(* before the first one.                                                   *)
Pushed(s) == IF s = 0 THEN sockets ELSE sockets \cup {s}

UseTunnel(i, s) ==
  /\ s # 0 /\ UsesSocket(proxies[i])
  /\ current' = s
  /\ stage' = "answer"
  /\ timer' = HandshakeTimed
  /\ UNCHANGED sock

Dial(i, s) ==
  /\ s = 0 \/ ~UsesSocket(proxies[i])
  /\ current' = i
  /\ stage' = "dial"
  /\ timer' = TimedDial(proxies[i])
  /\ sock' = [sock EXCEPT ![i] = "connecting"]

StartHop(i, s) ==
  /\ hop' = i
  /\ sockets' = Pushed(s)
  /\ UseTunnel(i, s) \/ Dial(i, s)

-----------------------------------------------------------------------------
Init ==
  /\ proxies \in Chains
  /\ hop = 0
  /\ stage = "start"
  /\ current = 0
  /\ sockets = {}
  /\ timer = FALSE
  /\ outcome = "pending"
  /\ sock = [k \in Ids(proxies) |-> "none"]
  /\ route = [k \in Ids(proxies) |-> <<>>]

(* chain() is called.  With no proxies the socket of client.reverse is     *)
(* returned while it connects.                                             *)
Start ==
  /\ stage = "start"
  /\ IF Last = 0
     THEN /\ sock' = [sock EXCEPT ![1] = "connecting"]
          /\ current' = 1
          /\ stage' = "done"
          /\ outcome' = "resolved"
          /\ UNCHANGED <<proxies, hop, sockets, timer, route>>
     ELSE IF Supported(proxies[1])
     THEN StartHop(1, 0) /\ UNCHANGED <<proxies, outcome, route>>
     ELSE Reject({})

Connected ==
  /\ stage = "dial"
  /\ sock' = [sock EXCEPT ![current] = "open"]
  /\ stage' = "answer"
  /\ timer' = HandshakeTimed
  /\ UNCHANGED <<proxies, hop, current, sockets, outcome, route>>

(* The proxy of the hop opened the tunnel: the next hop, or the end.       *)
Accepted ==
  /\ stage = "answer"
  /\ route' = [route EXCEPT ![current] = Append(@, hop)]
  /\ IF hop = Last
     THEN /\ outcome' = "resolved"
          /\ stage' = "done"
          /\ timer' = FALSE
          /\ UNCHANGED <<proxies, hop, current, sockets, sock>>
     ELSE /\ Supported(proxies[hop + 1])
          /\ StartHop(hop + 1, current)
          /\ UNCHANGED <<proxies, outcome>>

(* The same, and the next hop has no client.                               *)
AcceptedInVain ==
  /\ stage = "answer"
  /\ hop < Last
  /\ ~Supported(proxies[hop + 1])
  /\ Reject(Pushed(current))

(* The dial fails or the operating system gives it up; the proxy refuses,  *)
(* hangs up or resets; the handshake timer fires.                          *)
DialFails == stage = "dial" /\ Reject(sockets)

Refused == stage = "answer" /\ Reject(sockets)

Timeout == timer /\ Reject(sockets)

(* A socket no client works on breaks: the one the chain returned, or a    *)
(* tunnel that an https hop left unused.  (That one has no 'error'         *)
(* listener; only the end of the socket is modelled, not what an unhandled *)
(* event does.)                                                            *)
Break(k) ==
  /\ sock[k] = "open"
  /\ k # current
  /\ sock' = [sock EXCEPT ![k] = "destroyed"]
  /\ UNCHANGED <<proxies, hop, stage, current, sockets, timer, outcome, route>>

Next ==
  \/ Start \/ Connected \/ Accepted \/ AcceptedInVain
  \/ DialFails \/ Refused \/ Timeout
  \/ \E k \in DOMAIN sock : Break(k)

Spec == Init /\ [][Next]_vars

(* A dial ends one way or the other and timers fire; proxies owe nothing.  *)
Fairness ==
  /\ WF_vars(Start)
  /\ WF_vars(Connected \/ DialFails)
  /\ WF_vars(Timeout)

FairSpec == Spec /\ Fairness

-----------------------------------------------------------------------------
(* Properties.                                                             *)

(* Every variable keeps its type.                                          *)
TypeOK ==
  /\ proxies \in Chains
  /\ hop \in 0..Last
  /\ stage \in {"start", "dial", "answer", "done"}
  /\ current \in 0..(Last + 1)
  /\ sockets \subseteq Ids(proxies)
  /\ timer \in BOOLEAN
  /\ outcome \in {"pending", "resolved", "rejected"}
  /\ sock \in [Ids(proxies) -> {"none", "connecting", "open", "destroyed"}]
  /\ route \in [Ids(proxies) -> Seq(1..Last)]

Live(k) == sock[k] \in {"connecting", "open"}

AllProxies == [i \in 1..Last |-> i]

(* README.md:178.  "Each proxy becomes a hop through the previous tunnel": *)
(* the socket returned goes through every proxy, in their order.           *)
EveryHopRouted == outcome = "resolved" => route[current] = AllProxies

(* The same where no https proxy comes after the first one.                *)
Tunnelled == \A i \in 2..Last : proxies[i] # "https"

HopsRouted == Tunnelled => EveryHopRouted

(* A chain that fails leaves no socket behind, whichever hop failed and    *)
(* however: refused, reset, timed out, or without a client.                *)
NothingLeaks == outcome = "rejected" => \A k \in DOMAIN sock : ~Live(k)

(* A chain holds one socket at a time, the one the running hop works on or *)
(* the one returned: no earlier one stays open beside it.                  *)
OneSocket == Tunnelled => \A k \in DOMAIN sock : Live(k) => k = current

(* A chain settles, though proxies may keep silent at any hop.             *)
Settles == outcome = "pending" ~> outcome # "pending"
=============================================================================
