----------------------------- MODULE ChainProofs -----------------------------
(***************************************************************************)
(* Theorems about Chain, for chains of any length.                         *)
(***************************************************************************)
EXTENDS Chain, TLAPS

(* Where the promise chain stands: one client runs while it is pending.    *)
StageOK ==
  /\ outcome = "pending" <=> stage # "done"
  /\ timer => stage # "done"
  /\ stage = "start" => hop = 0 /\ current = 0 /\ sockets = {} /\ ~timer
  /\ stage \in {"dial", "answer"} => hop \in 1..Last /\ current \in 1..hop
  /\ stage = "dial" => current = hop

(* A hop that has not run has dialled nothing.                             *)
FreshHops ==
  \A k \in Ids(proxies) :
    /\ stage = "start" \/ (Last > 0 /\ k > hop) => sock[k] = "none"
    /\ stage \in {"start", "dial"} /\ k >= hop => route[k] = <<>>
    /\ k > hop => route[k] = <<>>

(* The catch can reach every socket the running client does not hold.      *)
Reachable ==
  \A k \in Ids(proxies) :
    Live(k) => outcome # "rejected" /\ (k = current \/ k \in sockets)

(* Through the first n proxies, in their order.                            *)
UpTo(n) == [i \in 1..n |-> i]

(* Without an https proxy behind another one, the chain lengthens one      *)
(* tunnel: nothing else is dialled.                                        *)
OneTunnel ==
  Tunnelled =>
    /\ \A k \in Ids(proxies) : Live(k) => k = current
    /\ stage \in {"dial", "answer"} => route[current] = UpTo(hop - 1)
    /\ outcome = "resolved" => route[current] = UpTo(Last)

IInv == TypeOK /\ StageOK /\ FreshHops /\ Reachable /\ OneTunnel

-----------------------------------------------------------------------------
LEMMA ChainTypes == proxies \in Chains => Last \in Nat /\ proxies \in Seq(Protocols)
BY ChainAssumption DEF Last

LEMMA Longer == \A n \in Nat : Append(UpTo(n), n + 1) = UpTo(n + 1)
<1> SUFFICES ASSUME NEW n \in Nat PROVE Append(UpTo(n), n + 1) = UpTo(n + 1)
  OBVIOUS
<1>1. UpTo(n) \in Seq(Nat) /\ Len(UpTo(n)) = n
  BY DEF UpTo
<1> QED BY <1>1 DEF UpTo

LEMMA InitInv == Init => IInv
<1> SUFFICES ASSUME Init PROVE IInv
  OBVIOUS
<1>1. Last \in Nat
  BY ChainTypes DEF Init
<1>2. TypeOK
  <2>1. timer \in BOOLEAN
    BY Zenon DEF Init
  <2>2. route \in [Ids(proxies) -> Seq(1..Last)]
    BY DEF Init
  <2> QED BY <1>1, <2>1, <2>2 DEF Init, TypeOK
<1>3. StageOK /\ FreshHops /\ Reachable /\ OneTunnel
  BY <1>1 DEF Init, StageOK, FreshHops, Reachable, OneTunnel, Live
<1> QED BY <1>2, <1>3 DEF IInv

(* A rejection destroys whatever is live, given that the catch is handed   *)
(* at least the sockets pushed so far.                                     *)
LEMMA RejectInv ==
  ASSUME IInv, stage # "done", NEW S \in SUBSET Ids(proxies), sockets \subseteq S, Reject(S)
  PROVE  IInv'
<1>1. Last \in Nat
  BY ChainTypes DEF IInv, TypeOK
<1>2. TypeOK'
  <2>1. timer' \in BOOLEAN
    BY Zenon DEF Reject
  <2>2. sock' \in [Ids(proxies) -> {"none", "connecting", "open", "destroyed"}]
    BY DEF IInv, TypeOK, Reject
  <2> QED BY <2>1, <2>2 DEF IInv, TypeOK, Reject, Last
<1>3. StageOK'
  BY DEF IInv, StageOK, Reject
<1>4. \A k \in Ids(proxies) : sock'[k] = "none" <=> sock[k] = "none"
  BY DEF IInv, TypeOK, Reject
<1>5. FreshHops'
  BY <1>1, <1>4 DEF IInv, TypeOK, StageOK, FreshHops, Reject, Last, Ids
<1>6. \A k \in Ids(proxies) : ~Live(k)'
  BY DEF IInv, TypeOK, Reachable, Live, Reject, DestroyedOnFailure
<1>7. Reachable' /\ OneTunnel'
  BY <1>6 DEF Reachable, OneTunnel, Reject
<1> QED BY <1>2, <1>3, <1>5, <1>7 DEF IInv

(* The next client starts, on the tunnel that has just been lengthened or  *)
(* on a socket it dials.                                                   *)
LEMMA StartHopInv ==
  ASSUME IInv, stage \in {"start", "answer"}, hop < Last, Supported(proxies[hop + 1]),
         StartHop(hop + 1, current), UNCHANGED <<proxies, outcome>>,
         route' = IF current = 0 THEN route
                  ELSE [route EXCEPT ![current] = Append(@, hop)]
  PROVE  IInv'
<1> DEFINE i == hop + 1
<1>1. /\ Last \in Nat /\ Last' = Last /\ Ids(proxies)' = Ids(proxies)
      /\ hop \in 0..Last /\ i \in 1..Last /\ i \in Ids(proxies)
      /\ current \in 0..hop /\ (current = 0 <=> stage = "start")
      /\ current # 0 => current \in Ids(proxies)
      /\ hop' = i /\ current' \in {current, i}
  BY ChainTypes DEF IInv, TypeOK, StageOK, StartHop, UseTunnel, Dial, Ids, Last
<1>2. TypeOK'
  <2>1. timer' \in BOOLEAN
    BY Zenon DEF StartHop, UseTunnel, Dial, HandshakeTimed, TimedDial
  <2>2. sock' \in [Ids(proxies) -> {"none", "connecting", "open", "destroyed"}]
    BY <1>1 DEF IInv, TypeOK, StartHop, UseTunnel, Dial
  <2>3. route' \in [Ids(proxies) -> Seq(1..Last)]
    <3>1. CASE current = 0
      BY <3>1 DEF IInv, TypeOK
    <3>2. CASE current # 0
      <4>1. hop \in 1..Last
        BY <1>1, <3>2
      <4>2. Append(route[current], hop) \in Seq(1..Last)
        BY <1>1, <3>2, <4>1 DEF IInv, TypeOK
      <4> QED BY <1>1, <3>2, <4>2 DEF IInv, TypeOK
    <3> QED BY <3>1, <3>2
  <2>4. sockets' \subseteq Ids(proxies)
    BY <1>1 DEF IInv, TypeOK, StartHop, Pushed
  <2>5. stage' \in {"dial", "answer"} /\ current' \in 0..(Last + 1)
    BY <1>1 DEF StartHop, UseTunnel, Dial
  <2> QED BY <1>1, <2>1, <2>2, <2>3, <2>4, <2>5 DEF IInv, TypeOK
<1>3. StageOK'
  BY <1>1 DEF IInv, StageOK, StartHop, UseTunnel, Dial
<1>4. FreshHops'
  BY <1>1 DEF IInv, TypeOK, FreshHops, StartHop, UseTunnel, Dial, Ids
<1>5. Reachable'
  <2>1. outcome' = "pending"
    BY DEF IInv, StageOK
  <2>2. ASSUME NEW k \in Ids(proxies), Live(k)'
        PROVE  k = current' \/ k \in sockets'
    <3>1. (k = i /\ current' = i) \/ Live(k)
      BY <1>1, <2>2 DEF IInv, TypeOK, StartHop, UseTunnel, Dial, Live
    <3>2. Live(k) => k \in sockets'
      BY <1>1 DEF IInv, Reachable, StartHop, Pushed, Ids
    <3> QED BY <3>1, <3>2
  <2> QED BY <1>1, <2>1, <2>2 DEF Reachable
<1>6. OneTunnel'
  <2> SUFFICES ASSUME Tunnelled
               PROVE  /\ \A k \in Ids(proxies) : Live(k)' => k = current'
                      /\ route'[current'] = UpTo(hop)
    <3>1. outcome' = "pending"
      BY DEF IInv, StageOK
    <3>2. Tunnelled' <=> Tunnelled
      BY DEF Tunnelled, Last
    <3> QED BY <1>1, <3>1, <3>2 DEF OneTunnel, UpTo
  <2>1. CASE current = 0
    <3>1. current' = i /\ sock' = [sock EXCEPT ![i] = "connecting"] /\ hop = 0
      BY <1>1, <2>1 DEF StartHop, UseTunnel, Dial, IInv, StageOK
    <3>2. \A k \in Ids(proxies) : sock[k] = "none" /\ route[k] = <<>>
      BY <1>1, <2>1, <3>1 DEF IInv, FreshHops, Ids
    <3>3. UpTo(0) = <<>>
      BY DEF UpTo
    <3> QED BY <1>1, <2>1, <3>1, <3>2, <3>3 DEF IInv, TypeOK, Live
  <2>2. CASE current # 0
    <3>1. current' = current /\ sock' = sock
      <4>1. proxies[i] \in Protocols /\ proxies[i] # "https"
        BY <1>1, <2>2, ChainTypes DEF IInv, TypeOK, Tunnelled, Last
      <4>2. UsesSocket(proxies[i])
        BY <4>1 DEF Protocols, UsesSocket, Supported
      <4> QED BY <1>1, <2>2, <4>2 DEF StartHop, UseTunnel, Dial
    <3>2. route'[current'] = Append(UpTo(hop - 1), (hop - 1) + 1)
      BY <1>1, <2>2, <3>1 DEF IInv, TypeOK, OneTunnel
    <3>3. hop - 1 \in Nat /\ (hop - 1) + 1 = hop
      BY <1>1, <2>2
    <3>4. route'[current'] = UpTo(hop)
      BY <3>2, <3>3, Longer
    <3> QED BY <3>1, <3>4 DEF IInv, OneTunnel, Live
  <2> QED BY <2>1, <2>2
<1> QED BY <1>2, <1>3, <1>4, <1>5, <1>6 DEF IInv

LEMMA ConnectedInv == ASSUME IInv, Connected PROVE IInv'
<1>1. /\ Last \in Nat /\ Last' = Last /\ Ids(proxies)' = Ids(proxies)
      /\ hop \in 1..Last /\ current = hop /\ current \in Ids(proxies)
  BY ChainTypes DEF IInv, TypeOK, StageOK, Connected, Ids, Last
<1>2. timer' \in BOOLEAN
  BY Zenon DEF Connected, HandshakeTimed
<1>3. TypeOK'
  BY <1>1, <1>2 DEF IInv, TypeOK, Connected
<1>4. StageOK'
  BY <1>1 DEF IInv, StageOK, Connected
<1>5. FreshHops'
  BY <1>1 DEF IInv, TypeOK, FreshHops, Connected, Ids
<1>6. Reachable'
  BY <1>1 DEF IInv, TypeOK, StageOK, Reachable, Connected, Live
<1>7. OneTunnel'
  BY <1>1 DEF IInv, TypeOK, StageOK, OneTunnel, Tunnelled, Connected, Live, UpTo
<1> QED BY <1>3, <1>4, <1>5, <1>6, <1>7 DEF IInv

LEMMA StartInv == ASSUME IInv, Start PROVE IInv'
<1>1. /\ Last \in Nat /\ hop = 0 /\ current = 0 /\ sockets = {}
      /\ stage = "start" /\ outcome = "pending"
  BY ChainTypes DEF IInv, TypeOK, StageOK, Start
<1>2. \A k \in Ids(proxies) : sock[k] = "none" /\ route[k] = <<>>
  BY <1>1 DEF IInv, FreshHops, Ids
<1>3. CASE Last = 0
  <2>1. /\ Last' = Last /\ Ids(proxies)' = Ids(proxies) /\ 1 \in Ids(proxies)
        /\ sock' = [sock EXCEPT ![1] = "connecting"]
        /\ current' = 1 /\ stage' = "done" /\ outcome' = "resolved"
        /\ UNCHANGED <<proxies, hop, sockets, timer, route>>
    BY <1>1, <1>3 DEF Start, Last, Ids
  <2>2. timer' \in BOOLEAN /\ ~timer
    BY Zenon, <1>1, <2>1 DEF IInv, TypeOK, StageOK
  <2>3. TypeOK'
    BY <1>1, <1>3, <2>1, <2>2 DEF IInv, TypeOK
  <2>4. FreshHops' /\ StageOK'
    BY <1>1, <1>2, <1>3, <2>1, <2>2 DEF IInv, TypeOK, FreshHops, StageOK
  <2>5. UpTo(0) = <<>>
    BY DEF UpTo
  <2>6. \A k \in Ids(proxies) : Live(k)' => k = current'
    BY <1>2, <2>1 DEF IInv, TypeOK, Live
  <2>7. Reachable' /\ OneTunnel'
    BY <1>2, <1>3, <2>1, <2>5, <2>6 DEF Reachable, OneTunnel
  <2> QED BY <2>3, <2>4, <2>7 DEF IInv
<1>4. CASE Last # 0 /\ Supported(proxies[1])
  <2>1. StartHop(hop + 1, current) /\ UNCHANGED <<proxies, outcome, route>>
    BY <1>1, <1>4 DEF Start
  <2> QED BY <1>1, <1>4, <2>1, StartHopInv
<1>5. CASE Last # 0 /\ ~Supported(proxies[1])
  BY <1>1, <1>5, RejectInv DEF Start
<1> QED BY <1>3, <1>4, <1>5

LEMMA AcceptedInv == ASSUME IInv, Accepted PROVE IInv'
<1>1. /\ Last \in Nat /\ hop \in 1..Last /\ current \in 1..hop
      /\ current \in Ids(proxies) /\ stage = "answer" /\ outcome = "pending"
  BY ChainTypes DEF IInv, TypeOK, StageOK, Accepted, Ids, Last
<1>2. CASE hop < Last
  BY <1>1, <1>2, StartHopInv DEF Accepted
<1>3. CASE hop = Last
  <2>1. /\ Last' = Last /\ Ids(proxies)' = Ids(proxies)
        /\ route' = [route EXCEPT ![current] = Append(@, hop)]
        /\ outcome' = "resolved" /\ stage' = "done" /\ timer' = FALSE
        /\ UNCHANGED <<proxies, hop, current, sockets, sock>>
    BY <1>1, <1>3 DEF Accepted, Last, Ids
  <2>2. Append(route[current], hop) \in Seq(1..Last)
    BY <1>1 DEF IInv, TypeOK
  <2>3. TypeOK'
    BY <1>1, <2>1, <2>2 DEF IInv, TypeOK
  <2>4. StageOK' /\ FreshHops'
    BY <1>1, <2>1 DEF IInv, TypeOK, StageOK, FreshHops
  <2>5. Reachable'
    BY <2>1 DEF IInv, Reachable, Live
  <2>6. OneTunnel'
    <3> SUFFICES ASSUME Tunnelled
                 PROVE  /\ \A k \in Ids(proxies) : Live(k) => k = current
                        /\ Append(route[current], hop) = UpTo(Last)
      BY <1>1, <2>1 DEF IInv, TypeOK, OneTunnel, Tunnelled, Live
    <3>1. route[current] = UpTo(hop - 1) /\ hop - 1 \in Nat /\ (hop - 1) + 1 = hop
      BY <1>1 DEF IInv, OneTunnel
    <3>2. Append(UpTo(hop - 1), hop) = UpTo(Last)
      BY <1>3, <3>1, Longer
    <3> QED BY <3>1, <3>2 DEF IInv, OneTunnel
  <2> QED BY <2>3, <2>4, <2>5, <2>6 DEF IInv
<1> QED BY <1>1, <1>2, <1>3

LEMMA FailureInv ==
  ASSUME IInv, AcceptedInVain \/ DialFails \/ Refused \/ Timeout PROVE IInv'
<1>1. Last \in Nat /\ sockets \in SUBSET Ids(proxies) /\ (timer => stage # "done")
  BY ChainTypes DEF IInv, TypeOK, StageOK
<1>2. CASE AcceptedInVain
  <2>1. Pushed(current) \in SUBSET Ids(proxies) /\ sockets \subseteq Pushed(current)
    BY <1>1 DEF IInv, TypeOK, Pushed, Ids, Last
  <2> QED BY <1>2, <2>1, RejectInv DEF AcceptedInVain
<1>3. CASE DialFails
  BY <1>1, <1>3, RejectInv DEF DialFails
<1>4. CASE Refused
  BY <1>1, <1>4, RejectInv DEF Refused
<1>5. CASE Timeout
  BY <1>1, <1>5, RejectInv DEF Timeout
<1> QED BY <1>2, <1>3, <1>4, <1>5

LEMMA BreakInv == ASSUME IInv, NEW k \in DOMAIN sock, Break(k) PROVE IInv'
<1>1. /\ Last' = Last /\ Ids(proxies)' = Ids(proxies) /\ Last \in Nat
      /\ k \in Ids(proxies)
  BY ChainTypes DEF IInv, TypeOK, Break, Ids, Last
<1>2. /\ sock' = [sock EXCEPT ![k] = "destroyed"] /\ sock[k] = "open"
      /\ UNCHANGED <<proxies, hop, stage, current, sockets, timer, outcome, route>>
  BY DEF Break
<1>3. timer' \in BOOLEAN
  BY Zenon, <1>2 DEF IInv, TypeOK
<1>4. TypeOK'
  BY <1>1, <1>2, <1>3 DEF IInv, TypeOK
<1>5. StageOK' /\ FreshHops'
  BY <1>1, <1>2 DEF IInv, TypeOK, StageOK, FreshHops
<1>6. \A m \in Ids(proxies) : Live(m)' => Live(m)
  BY <1>1, <1>2 DEF IInv, TypeOK, Live
<1>7. Reachable' /\ OneTunnel'
  BY <1>1, <1>2, <1>6 DEF IInv, Reachable, OneTunnel, Tunnelled
<1> QED BY <1>4, <1>5, <1>7 DEF IInv

-----------------------------------------------------------------------------
(* The invariant holds in every state of every chain.                      *)
THEOREM Invariance == Spec => []IInv
<1>1. IInv /\ [Next]_vars => IInv'
  <2> SUFFICES ASSUME IInv, [Next]_vars PROVE IInv'
    OBVIOUS
  <2>1. CASE Start
    BY <2>1, StartInv
  <2>2. CASE Connected
    BY <2>2, ConnectedInv
  <2>3. CASE Accepted
    BY <2>3, AcceptedInv
  <2>4. CASE AcceptedInVain \/ DialFails \/ Refused \/ Timeout
    BY <2>4, FailureInv
  <2>5. ASSUME NEW k \in DOMAIN sock, Break(k) PROVE IInv'
    BY <2>5, BreakInv
  <2>6. CASE UNCHANGED vars
    BY <2>6 DEF vars, IInv, TypeOK, StageOK, FreshHops, Reachable, OneTunnel, Tunnelled, Live, Last, Ids
  <2> QED BY <2>1, <2>2, <2>3, <2>4, <2>5, <2>6 DEF Next
<1> QED BY <1>1, InitInv, PTL DEF Spec

(* Every variable keeps its type.                                          *)
THEOREM ChainTypeOK == Spec => []TypeOK
BY Invariance, PTL DEF IInv

(* The promise is rejected only with every socket the chain opened         *)
(* destroyed: the catch and the failed client leave none behind.           *)
THEOREM ChainNothingLeaks == Spec => []NothingLeaks
<1>1. IInv => NothingLeaks
  BY DEF IInv, TypeOK, Reachable, NothingLeaks
<1> QED BY <1>1, Invariance, PTL

(* Without an https proxy behind another one, the tunnel returned goes     *)
(* through every proxy given, in their order.                              *)
THEOREM ChainHopsRouted == Spec => []HopsRouted
<1>1. IInv => HopsRouted
  BY DEF IInv, OneTunnel, HopsRouted, EveryHopRouted, AllProxies, UpTo
<1> QED BY <1>1, Invariance, PTL

(* and the chain never holds a second socket.                              *)
THEOREM ChainOneSocket == Spec => []OneSocket
<1>1. IInv => OneSocket
  BY DEF IInv, TypeOK, OneTunnel, OneSocket
<1> QED BY <1>1, Invariance, PTL
=============================================================================
