---------------------------- MODULE UtilityProofs ---------------------------
(***************************************************************************)
(* Theorems about Dns, Balancer and Measure: for any lookups, any servers  *)
(* of which any are sinkholes, any number of retries and any width of the  *)
(* queue; for any candidates and any weights; for any number of filters,   *)
(* any speeds, any pages and a clock that runs to any time.                *)
(***************************************************************************)
EXTENDS Dns, Balancer, Measure, Induction

-----------------------------------------------------------------------------
(* Dns.                                                                    *)

Results == {"real", "bogus"}

Lookup ==
  [query : Queries \cup {<<"none", "none">>}, retriesLeft : 0..MaxBogusRetries,
   stage : {"none", "pending", "resolved", "rejected"}, answers : Seq(Results)]

DnsTypeOK ==
  /\ lookup \in [Lookups -> Lookup]
  /\ waiting \in Seq(Lookups)
  /\ asking \subseteq Lookups \X SUBSET Servers
  /\ running \in Nat

(* A lookup that is not done is once in the queue or once with a server:   *)
(* it cannot be answered twice.                                            *)
Waits(q, i) == i \in DOMAIN waiting /\ waiting[i] = q

Asks(q, a) == a \in asking /\ a[1] = q

OnceOf(q) ==
  /\ \A i, j : Waits(q, i) /\ Waits(q, j) => i = j
  /\ \A a, b : Asks(q, a) /\ Asks(q, b) => a = b
  /\ \A i, a : ~(Waits(q, i) /\ Asks(q, a))
  /\ (\E i : Waits(q, i)) \/ (\E a : Asks(q, a)) => lookup[q].stage = "pending"

OnceInv == \A q \in Lookups : OnceOf(q)

(* A lookup that is not done has met a sinkhole with every try, and spent  *)
(* a retry on it.                                                          *)
TriedOf(q) ==
  LET l == lookup[q] IN
  /\ l.stage = "none" => l.answers = <<>>
  /\ l.stage = "pending" => /\ Len(l.answers) + l.retriesLeft = MaxBogusRetries
                            /\ \A i \in DOMAIN l.answers : l.answers[i] = "bogus"

TriedInv == \A q \in Lookups : TriedOf(q)

(* The queue counts the calls in progress.                                 *)
CountInv ==
  /\ IsFiniteSet(asking)
  /\ running = Cardinality(asking)
  /\ running <= Limit

DnsIInv == DnsTypeOK /\ OnceInv /\ TriedInv /\ CountInv /\ BogusOnlyAsLastResort

-----------------------------------------------------------------------------
(* The queue.                                                              *)

LEMMA AppendWaits ==
  ASSUME NEW q \in Lookups, waiting \in Seq(Lookups), waiting' = Append(waiting, q)
  PROVE  /\ waiting' \in Seq(Lookups)
         /\ \A p, i : Waits(p, i)' <=> Waits(p, i) \/ (i = Len(waiting) + 1 /\ p = q)
BY DEF Waits

LEMMA TailWaits ==
  ASSUME waiting \in Seq(Lookups), waiting # <<>>, waiting' = Tail(waiting)
  PROVE  /\ waiting' \in Seq(Lookups) /\ Head(waiting) \in Lookups
         /\ Waits(Head(waiting), 1)
         /\ \A p, i : Waits(p, i)' => i \in Nat \ {0} /\ Waits(p, i + 1)
BY DEF Waits

(* Where a lookup waits is where it waited, but for the one concerned.     *)
LEMMA OnceOthers ==
  ASSUME NEW q \in Lookups, OnceInv, OnceOf(q)',
         \A p \in Lookups \ {q} : /\ \A i : Waits(p, i)' <=> Waits(p, i)
                                  /\ \A a : Asks(p, a)' <=> Asks(p, a)
                                  /\ lookup'[p] = lookup[p]
  PROVE  OnceInv'
BY DEF OnceInv, OnceOf

LEMMA TriedOthers ==
  ASSUME NEW q \in Lookups, TriedInv, TriedOf(q)',
         \A p \in Lookups \ {q} : lookup'[p] = lookup[p]
  PROVE  TriedInv'
BY DEF TriedInv, TriedOf

-----------------------------------------------------------------------------
LEMMA InitInv == DnsInit => DnsIInv
<1> SUFFICES ASSUME DnsInit PROVE DnsIInv
  OBVIOUS
<1>1. MaxBogusRetries \in Nat /\ Limit \in Nat
  BY DnsAssumption
<1>2. DnsTypeOK
  <2>1. Unasked \in Lookup
    BY <1>1 DEF Unasked, Lookup
  <2> QED BY <2>1 DEF DnsInit, DnsTypeOK
<1>3. OnceInv /\ TriedInv /\ BogusOnlyAsLastResort
  BY DEF DnsInit, OnceInv, OnceOf, Waits, Asks, TriedInv, TriedOf, Unasked,
         BogusOnlyAsLastResort, Answered
<1>4. CountInv
  BY <1>1, FS_EmptySet DEF DnsInit, CountInv
<1> QED BY <1>2, <1>3, <1>4 DEF DnsIInv

LEMMA ResolveInv ==
  ASSUME DnsIInv, NEW q \in Lookups, Resolve(q) PROVE DnsIInv'
<1> USE DEF DnsIInv
<1>1. PICK query \in Queries :
        lookup' = [lookup EXCEPT ![q].query = query, ![q].stage = "pending",
                                 ![q].retriesLeft = MaxBogusRetries]
  BY DEF Resolve
<1>2. /\ lookup \in [Lookups -> Lookup] /\ lookup[q].stage = "none"
      /\ waiting \in Seq(Lookups) /\ waiting' = Append(waiting, q)
      /\ UNCHANGED <<asking, running>> /\ MaxBogusRetries \in Nat
  BY DnsAssumption DEF Resolve, DnsTypeOK
<1>3. /\ lookup' \in [Lookups -> Lookup]
      /\ lookup'[q].stage = "pending" /\ lookup'[q].answers = lookup[q].answers
      /\ lookup'[q].retriesLeft = MaxBogusRetries
      /\ \A p \in Lookups \ {q} : lookup'[p] = lookup[p]
  BY <1>1, <1>2, SMTT(30) DEF Lookup
<1>4. /\ waiting' \in Seq(Lookups)
      /\ \A p, i : Waits(p, i)' <=> Waits(p, i) \/ (i = Len(waiting) + 1 /\ p = q)
      /\ \A p, a : Asks(p, a)' <=> Asks(p, a)
  BY <1>2, AppendWaits DEF Asks
<1>5. DnsTypeOK'
  BY <1>2, <1>3, <1>4 DEF DnsTypeOK
<1>6. OnceInv'
  <2>1. OnceOf(q)'
    BY <1>2, <1>3, <1>4 DEF OnceInv, OnceOf
  <2> QED BY <1>3, <1>4, <2>1, OnceOthers
<1>7. TriedInv'
  <2>1. TriedOf(q)'
    BY <1>2, <1>3 DEF TriedInv, TriedOf
  <2> QED BY <1>3, <2>1, TriedOthers
<1>8. CountInv'
  BY <1>2 DEF CountInv
<1>9. BogusOnlyAsLastResort'
  BY <1>3 DEF BogusOnlyAsLastResort, Answered, LastResort, LastAnswer
<1> QED BY <1>5, <1>6, <1>7, <1>8, <1>9

LEMMA AskInv == ASSUME DnsIInv, Ask PROVE DnsIInv'
<1> USE DEF DnsIInv
<1>1. PICK picked \in SUBSET Servers : asking' = asking \cup {<<Head(waiting), picked>>}
  BY DEF Ask
<1>2. /\ waiting \in Seq(Lookups) /\ waiting # <<>> /\ waiting' = Tail(waiting)
      /\ running < Limit /\ running' = running + 1 /\ UNCHANGED lookup
      /\ Limit \in Nat /\ running \in Nat
  BY DnsAssumption DEF Ask, DnsTypeOK
<1>3. PICK q \in Lookups : q = Head(waiting)
  BY <1>2, TailWaits
<1>4. /\ waiting' \in Seq(Lookups) /\ Waits(q, 1)
      /\ \A p, i : Waits(p, i)' => i \in Nat \ {0} /\ Waits(p, i + 1)
  BY <1>2, <1>3, TailWaits
<1> DEFINE b == <<q, picked>>
<1>5. \A p, a : Asks(p, a)' <=> Asks(p, a) \/ (p = q /\ a = b)
  BY <1>1, <1>3 DEF Asks
<1>6. lookup[q].stage = "pending" /\ \A a : ~Asks(q, a)
  BY <1>4 DEF OnceInv, OnceOf
<1>7. DnsTypeOK'
  BY <1>1, <1>2, <1>3, <1>4 DEF DnsTypeOK
<1>8. OnceInv'
  <2>1. OnceOf(q)'
    BY <1>2, <1>4, <1>5, <1>6 DEF OnceInv, OnceOf
  <2>2. ASSUME NEW p \in Lookups \ {q} PROVE OnceOf(p)'
    BY <1>2, <1>4, <1>5 DEF OnceInv, OnceOf
  <2> QED BY <2>1, <2>2 DEF OnceInv
<1>9. CountInv'
  <2>1. b \notin asking
    BY <1>6 DEF Asks
  <2>2. asking' = asking \cup {b} /\ IsFiniteSet(asking) /\ running = Cardinality(asking)
    BY <1>1, <1>3 DEF CountInv
  <2>3. IsFiniteSet(asking') /\ Cardinality(asking') = running + 1
    BY <2>1, <2>2, FS_AddElement
  <2> QED BY <1>2, <2>3 DEF CountInv
<1>10. TriedInv' /\ BogusOnlyAsLastResort'
  BY <1>2 DEF TriedInv, TriedOf, BogusOnlyAsLastResort, Answered, LastResort, LastAnswer
<1> QED BY <1>7, <1>8, <1>9, <1>10

(* The call of q that a server answered, or none, is over.                 *)
LEMMA CallOver ==
  ASSUME DnsIInv, NEW q \in Lookups, NEW a \in asking, a[1] = q, asking' = asking \ {a},
         running' = running - 1
  PROVE  /\ lookup[q].stage = "pending"
         /\ \A i : ~Waits(q, i)
         /\ \A p, b : Asks(p, b)' <=> Asks(p, b) /\ p # q
         /\ asking' \subseteq Lookups \X SUBSET Servers
         /\ running' \in Nat
         /\ CountInv'
<1> USE DEF DnsIInv
<1>1. Asks(q, a) /\ \A b : Asks(q, b) => b = a
  BY DEF OnceInv, OnceOf, Asks
<1>2. lookup[q].stage = "pending" /\ \A i : ~Waits(q, i)
  BY <1>1 DEF OnceInv, OnceOf
<1>3. \A p, b : Asks(p, b)' <=> Asks(p, b) /\ p # q
  BY <1>1 DEF Asks
<1>4. /\ IsFiniteSet(asking') /\ Cardinality(asking') = Cardinality(asking) - 1
      /\ Cardinality(asking') \in Nat
  BY FS_RemoveElement, FS_CardinalityType DEF CountInv
<1>5. running' \in Nat /\ CountInv'
  BY <1>4, DnsAssumption DEF CountInv, DnsTypeOK
<1> QED BY <1>2, <1>3, <1>5 DEF DnsTypeOK

(* What one lookup returns is no matter of the others.                     *)
LEMMA LastResortOthers ==
  ASSUME NEW q \in Lookups, BogusOnlyAsLastResort,
         \A p \in Lookups \ {q} : lookup'[p] = lookup[p],
         lookup'[q].stage = "resolved" =>
           (ShouldFilter(lookup[q].query) /\ lookup[q].query[2] # "ttl" => LastResort(q)'),
         lookup'[q].query = lookup[q].query
  PROVE  BogusOnlyAsLastResort'
<1>1. ASSUME NEW p \in Lookups \ {q} PROVE (LastResort(p)' <=> LastResort(p))
                                          /\ lookup'[p] = lookup[p]
  BY <1>1 DEF LastResort, LastAnswer
<1> QED BY <1>1 DEF BogusOnlyAsLastResort, Answered

LEMMA RejectInv ==
  ASSUME DnsIInv, NEW q \in Lookups, Reject(q) PROVE DnsIInv'
<1> USE DEF DnsIInv
<1>1. PICK a \in asking : a[1] = q /\ asking' = asking \ {a}
  BY DEF Reject
<1>2. /\ lookup' = [lookup EXCEPT ![q].stage = "rejected"] /\ waiting' = waiting
      /\ running' = running - 1
  BY DEF Reject, Settled
<1>3. /\ lookup' \in [Lookups -> Lookup]
      /\ lookup'[q].stage = "rejected" /\ lookup'[q].query = lookup[q].query
      /\ \A p \in Lookups \ {q} : lookup'[p] = lookup[p]
  BY <1>2 DEF DnsTypeOK, Lookup
<1>4. /\ \A i : ~Waits(q, i)
      /\ \A p, b : Asks(p, b)' <=> Asks(p, b) /\ p # q
      /\ asking' \subseteq Lookups \X SUBSET Servers /\ running' \in Nat /\ CountInv'
  BY <1>1, <1>2, CallOver
<1>5. \A p, i : Waits(p, i)' <=> Waits(p, i)
  BY <1>2 DEF Waits
<1>6. OnceInv'
  <2>1. OnceOf(q)'
    BY <1>4, <1>5 DEF OnceOf
  <2> QED BY <1>3, <1>4, <1>5, <2>1, OnceOthers
<1>7. TriedInv'
  <2>1. TriedOf(q)'
    BY <1>3 DEF TriedOf
  <2> QED BY <1>3, <2>1, TriedOthers
<1>8. BogusOnlyAsLastResort'
  BY <1>3, LastResortOthers
<1> QED BY <1>2, <1>3, <1>4, <1>6, <1>7, <1>8 DEF DnsTypeOK

LEMMA RetryInv ==
  ASSUME DnsIInv, NEW q \in Lookups, NEW a \in asking, a[1] = q, asking' = asking \ {a},
         running' = running - 1, lookup[q].retriesLeft > 0,
         lookup' = [lookup EXCEPT ![q].retriesLeft = @ - 1, ![q].answers = Append(@, "bogus")],
         waiting' = Append(waiting, q)
  PROVE  DnsIInv'
<1> USE DEF DnsIInv
<1>1. /\ lookup[q].stage = "pending"
      /\ \A i : ~Waits(q, i)
      /\ \A p, b : Asks(p, b)' <=> Asks(p, b) /\ p # q
      /\ asking' \subseteq Lookups \X SUBSET Servers /\ running' \in Nat /\ CountInv'
  BY CallOver
<1>2. /\ lookup[q] \in Lookup /\ lookup \in [Lookups -> Lookup] /\ waiting \in Seq(Lookups)
      /\ MaxBogusRetries \in Nat
  BY DnsAssumption DEF DnsTypeOK
<1>3. /\ lookup'[q].stage = "pending" /\ lookup'[q].query = lookup[q].query
      /\ lookup'[q].retriesLeft = lookup[q].retriesLeft - 1
      /\ lookup'[q].answers = Append(lookup[q].answers, "bogus")
      /\ \A p \in Lookups \ {q} : lookup'[p] = lookup[p]
  BY <1>1, <1>2 DEF Lookup
<1>4. lookup' \in [Lookups -> Lookup]
  <2>1. Append(lookup[q].answers, "bogus") \in Seq(Results)
    BY <1>2 DEF Lookup, Results
  <2>2. lookup[q].retriesLeft - 1 \in 0..MaxBogusRetries
    BY <1>2 DEF Lookup
  <2> QED BY <1>2, <2>1, <2>2 DEF Lookup
<1>5. /\ waiting' \in Seq(Lookups)
      /\ \A p, i : Waits(p, i)' <=> Waits(p, i) \/ (i = Len(waiting) + 1 /\ p = q)
  BY <1>2, AppendWaits
<1>6. OnceInv'
  <2>1. OnceOf(q)'
    BY <1>1, <1>3, <1>5, SMTT(30) DEF OnceOf
  <2> QED BY <1>1, <1>3, <1>5, <2>1, OnceOthers
<1>7. TriedInv'
  <2>1. /\ Len(lookup[q].answers) + lookup[q].retriesLeft = MaxBogusRetries
        /\ \A i \in DOMAIN lookup[q].answers : lookup[q].answers[i] = "bogus"
    BY <1>1 DEF TriedInv, TriedOf
  <2>2. TriedOf(q)'
    BY <1>2, <1>3, <2>1 DEF TriedOf, Lookup
  <2> QED BY <1>3, <2>2, TriedOthers
<1>8. BogusOnlyAsLastResort'
  BY <1>3, LastResortOthers
<1> QED BY <1>1, <1>4, <1>5, <1>6, <1>7, <1>8 DEF DnsTypeOK

(* A sinkhole's answer that is not retried came to the last try.           *)
LEMMA ReturnInv ==
  ASSUME DnsIInv, NEW q \in Lookups, NEW a \in asking, a[1] = q, asking' = asking \ {a},
         running' = running - 1, NEW r \in Results,
         ~RetryOnBogus(lookup[q].query, r, lookup[q].retriesLeft),
         lookup' = [lookup EXCEPT ![q].stage = "resolved", ![q].answers = Append(@, r)],
         UNCHANGED waiting
  PROVE  DnsIInv'
<1> USE DEF DnsIInv
<1>1. /\ lookup[q].stage = "pending"
      /\ \A i : ~Waits(q, i)
      /\ \A p, b : Asks(p, b)' <=> Asks(p, b) /\ p # q
      /\ asking' \subseteq Lookups \X SUBSET Servers /\ running' \in Nat /\ CountInv'
  BY CallOver
<1>2. /\ lookup[q] \in Lookup /\ lookup \in [Lookups -> Lookup] /\ MaxBogusRetries \in Nat
      /\ lookup[q].answers \in Seq(Results) /\ lookup[q].retriesLeft \in Nat
  BY DnsAssumption DEF DnsTypeOK, Lookup
<1>3. /\ lookup'[q].stage = "resolved" /\ lookup'[q].query = lookup[q].query
      /\ lookup'[q].answers = Append(lookup[q].answers, r)
      /\ \A p \in Lookups \ {q} : lookup'[p] = lookup[p]
  BY <1>2 DEF Lookup
<1>4. lookup' \in [Lookups -> Lookup]
  <2>1. Append(lookup[q].answers, r) \in Seq(Results)
    BY <1>2
  <2> QED BY <1>2, <2>1 DEF Lookup
<1>5. \A p, i : Waits(p, i)' <=> Waits(p, i)
  BY DEF Waits
<1>6. OnceInv'
  <2>1. OnceOf(q)'
    BY <1>1, <1>5 DEF OnceOf
  <2> QED BY <1>1, <1>3, <1>5, <2>1, OnceOthers
<1>7. TriedInv'
  <2>1. TriedOf(q)'
    BY <1>3 DEF TriedOf
  <2> QED BY <1>3, <2>1, TriedOthers
<1>8. BogusOnlyAsLastResort'
  <2>1. /\ Len(lookup[q].answers) + lookup[q].retriesLeft = MaxBogusRetries
        /\ \A i \in DOMAIN lookup[q].answers : lookup[q].answers[i] = "bogus"
    BY <1>1 DEF TriedInv, TriedOf
  <2>2. ASSUME ShouldFilter(lookup[q].query), lookup[q].query[2] # "ttl",
               LastAnswer(q)' = "bogus"
        PROVE  lookup'[q].answers = [i \in 1..(MaxBogusRetries + 1) |-> "bogus"]
    <3>1. r = "bogus"
      BY <1>2, <1>3, <2>2 DEF LastAnswer
    <3>2. Len(lookup[q].answers) = MaxBogusRetries
      BY <1>2, <2>1, <2>2, <3>1 DEF RetryOnBogus, HasBogusIPs
    <3> QED BY <1>2, <1>3, <2>1, <3>1, <3>2
  <2> QED BY <1>3, <2>2, LastResortOthers DEF LastResort
<1> QED BY <1>1, <1>4, <1>6, <1>7, <1>8 DEF DnsTypeOK

LEMMA AnswerInv ==
  ASSUME DnsIInv, NEW q \in Lookups, Answer(q) PROVE DnsIInv'
<1>1. PICK a \in asking, r \in Results :
        /\ a[1] = q /\ asking' = asking \ {a} /\ running' = running - 1
        /\ IF RetryOnBogus(lookup[q].query, r, lookup[q].retriesLeft)
           THEN /\ lookup' = [lookup EXCEPT ![q].retriesLeft = @ - 1,
                                            ![q].answers = Append(@, r)]
                /\ waiting' = Append(waiting, q)
           ELSE /\ lookup' = [lookup EXCEPT ![q].stage = "resolved",
                                            ![q].answers = Append(@, r)]
                /\ UNCHANGED waiting
  BY DEF Answer, Settled, Results
<1>2. CASE RetryOnBogus(lookup[q].query, r, lookup[q].retriesLeft)
  <2>1. r = "bogus" /\ lookup[q].retriesLeft > 0
    BY <1>2 DEF RetryOnBogus, HasBogusIPs
  <2> QED BY <1>1, <1>2, <2>1, RetryInv
<1>3. CASE ~RetryOnBogus(lookup[q].query, r, lookup[q].retriesLeft)
  BY <1>1, <1>3, ReturnInv
<1> QED BY <1>2, <1>3

-----------------------------------------------------------------------------
(* The inductive invariant holds of every run.                             *)
THEOREM DnsInvariance == DnsSpec => []DnsIInv
<1>1. ASSUME DnsIInv, UNCHANGED dnsVars PROVE DnsIInv'
  <2>1. DnsTypeOK' /\ CountInv'
    BY <1>1 DEF dnsVars, DnsIInv, DnsTypeOK, CountInv
  <2>2. OnceInv' /\ TriedInv'
    BY <1>1 DEF dnsVars, DnsIInv, OnceInv, OnceOf, Waits, Asks, TriedInv, TriedOf
  <2>3. BogusOnlyAsLastResort'
    BY <1>1 DEF dnsVars, DnsIInv, BogusOnlyAsLastResort, Answered, LastResort, LastAnswer
  <2> QED BY <2>1, <2>2, <2>3 DEF DnsIInv
<1>2. DnsIInv /\ [DnsNext]_dnsVars => DnsIInv'
  BY <1>1, ResolveInv, AskInv, AnswerInv, RejectInv DEF DnsNext
<1> QED BY <1>2, InitInv, PTL DEF DnsSpec

(* README.md:452.  Whatever the other lookups do to the queue, the address *)
(* of a sinkhole is returned only when every try there was met a sinkhole, *)
(* for the calls whose results are strings.                                *)
THEOREM DnsLastResort == DnsSpec => []BogusOnlyAsLastResort
BY DnsInvariance, PTL DEF DnsIInv

(* dns/index.js:139-143.  The queue never has more calls in progress than  *)
(* its limit, retries included, and its count of them is exact.            *)
THEOREM DnsAtMostLimit ==
  DnsSpec => [](running = Cardinality(asking) /\ Cardinality(asking) <= Limit)
<1>1. DnsIInv => running = Cardinality(asking) /\ Cardinality(asking) <= Limit
  BY DEF DnsIInv, CountInv
<1> QED BY <1>1, DnsInvariance, PTL

(* A lookup in progress is in the queue or with a server, once: two answers*)
(* never settle the same call.                                             *)
THEOREM DnsAskedOnce == DnsSpec => [](\A q \in Lookups : OnceOf(q))
BY DnsInvariance, PTL DEF DnsIInv, OnceInv

-----------------------------------------------------------------------------
(* Balancer.                                                               *)

(* The weights that are recorded for a candidate are those of its places   *)
(* in the pool, in order: h tells which place each has.                    *)
PlacedBy(h, cs, ws, a, c) ==
  /\ h \in [1..Len(a) -> 1..Len(cs)]
  /\ \A i, j \in 1..Len(a) : i < j => h[i] < h[j]
  /\ \A i \in 1..Len(a) : cs[h[i]] = c /\ ws[h[i]] = a[i]
  /\ \A k \in 1..Len(cs) : cs[k] = c => \E i \in 1..Len(a) : h[i] = k

Tallied(cs, ws, a, c) == \E h : PlacedBy(h, cs, ws, a, c)

Positive == Nat \ {0}

BalancerTypeOK ==
  /\ candidates \in Seq(Candidates)
  /\ weights \in Seq(Positive)
  /\ Len(weights) = Len(candidates)
  /\ added \in [Candidates -> Seq(Positive)]

SumsInv ==
  /\ weightMap = [i \in DOMAIN weights |-> TotalOf(SubSeq(weights, 1, i))]
  /\ max = TotalOf(weights)

TallyInv == \A c \in Candidates : Tallied(candidates, weights, added[c], c)

BalancerIInv == BalancerTypeOK /\ SumsInv /\ TallyInv

LEMMA SumOfIsTotal == \A s : SumOf(s) = TotalOf(s)
BY FoldIsTotalOf DEF SumOf

LEMMA WeightPositive == \A w \in Weights : Weight(w) \in Positive
BY BalancerAssumption DEF Weight, Positive

-----------------------------------------------------------------------------
(* How the pool changes.                                                   *)

LEMMA TallyPush ==
  ASSUME NEW S, NEW cs \in Seq(S), NEW ws \in Seq(Positive), Len(ws) = Len(cs),
         NEW c, NEW d \in S, NEW w \in Positive, NEW a \in Seq(Positive),
         Tallied(cs, ws, a, c)
  PROVE  Tallied(Append(cs, d), Append(ws, w), IF d = c THEN Append(a, w) ELSE a, c)
<1> DEFINE n == Len(cs) + 1
           m == Len(a) + 1
           cs2 == Append(cs, d)
           ws2 == Append(ws, w)
<1>1. PICK h : PlacedBy(h, cs, ws, a, c)
  BY DEF Tallied
<1>2. /\ n \in Nat /\ Len(cs2) = n /\ cs2[n] = d /\ \A k \in 1..(n - 1) : cs2[k] = cs[k]
      /\ ws2[n] = w /\ \A k \in 1..(n - 1) : ws2[k] = ws[k]
      /\ Len(cs) = n - 1
  OBVIOUS
<1>3. /\ h \in [1..Len(a) -> 1..(n - 1)]
      /\ \A i, j \in 1..Len(a) : i < j => h[i] < h[j]
      /\ \A i \in 1..Len(a) : cs[h[i]] = c /\ ws[h[i]] = a[i]
      /\ \A k \in 1..(n - 1) : cs[k] = c => \E i \in 1..Len(a) : h[i] = k
  BY <1>1, <1>2 DEF PlacedBy
<1> HIDE DEF n, cs2, ws2
<1>4. CASE d # c
  <2>1. PlacedBy(h, cs2, ws2, a, c)
    <3>1. h \in [1..Len(a) -> 1..n]
      BY <1>2, <1>3
    <3>2. \A i \in 1..Len(a) : cs2[h[i]] = c /\ ws2[h[i]] = a[i]
      BY <1>2, <1>3
    <3>3. \A k \in 1..n : cs2[k] = c => \E i \in 1..Len(a) : h[i] = k
      BY <1>2, <1>3, <1>4
    <3> QED BY <1>2, <1>3, <3>1, <3>2, <3>3 DEF PlacedBy
  <2> QED BY <1>4, <2>1 DEF Tallied, cs2, ws2
<1>5. CASE d = c
  <2> DEFINE b == Append(a, w)
             g == [i \in 1..m |-> IF i = m THEN n ELSE h[i]]
  <2>1. /\ Len(b) = m /\ m \in Nat /\ b[m] = w /\ \A i \in 1..(m - 1) : b[i] = a[i]
        /\ Len(a) = m - 1
    OBVIOUS
  <2> HIDE DEF b, m
  <2>2. /\ g \in [1..m -> 1..n] /\ g[m] = n
        /\ \A i \in 1..(m - 1) : g[i] = h[i] /\ h[i] \in 1..(n - 1)
    BY <1>2, <1>3, <2>1
  <2> HIDE DEF g
  <2>3. \A i, j \in 1..m : i < j => g[i] < g[j]
    <3> TAKE i, j \in 1..m
    <3> HAVE i < j
    <3>1. i \in 1..(m - 1) /\ g[i] = h[i] /\ h[i] \in 1..(n - 1)
      BY <2>1, <2>2
    <3>2. CASE j = m
      BY <1>2, <2>2, <3>1, <3>2
    <3>3. CASE j # m
      <4>1. j \in 1..(m - 1)
        BY <2>1, <3>3
      <4> QED BY <1>3, <2>1, <2>2, <3>1, <4>1
    <3> QED BY <3>2, <3>3
  <2>4. \A i \in 1..m : cs2[g[i]] = c /\ ws2[g[i]] = b[i]
    <3> TAKE i \in 1..m
    <3>1. CASE i = m
      BY <1>2, <1>5, <2>1, <2>2, <3>1
    <3>2. CASE i # m
      <4>1. i \in 1..(m - 1)
        BY <2>1, <3>2
      <4>2. g[i] = h[i] /\ h[i] \in 1..(n - 1) /\ b[i] = a[i] /\ i \in 1..Len(a)
        BY <2>1, <2>2, <4>1
      <4>3. cs[h[i]] = c /\ ws[h[i]] = a[i]
        BY <1>3, <4>2
      <4>4. cs2[h[i]] = cs[h[i]] /\ ws2[h[i]] = ws[h[i]]
        BY <1>2, <4>2
      <4> QED BY <4>2, <4>3, <4>4
    <3> QED BY <3>1, <3>2
  <2>5. \A k \in 1..n : cs2[k] = c => \E i \in 1..m : g[i] = k
    <3> SUFFICES ASSUME NEW k \in 1..n, cs2[k] = c PROVE \E i \in 1..m : g[i] = k
      OBVIOUS
    <3>1. CASE k = n
      BY <2>1, <2>2, <3>1
    <3>2. CASE k # n
      <4>1. k \in 1..(n - 1)
        BY <1>2, <3>2
      <4>2. PICK i \in 1..(m - 1) : h[i] = k
        BY <1>2, <1>3, <2>1, <4>1
      <4> QED BY <2>1, <2>2, <4>2
    <3> QED BY <3>1, <3>2
  <2>6. PlacedBy(g, cs2, ws2, b, c)
    BY <1>2, <2>1, <2>2, <2>3, <2>4, <2>5 DEF PlacedBy
  <2> QED BY <1>5, <2>6 DEF Tallied, cs2, ws2, b
<1> QED BY <1>4, <1>5

LEMMA Removed ==
  ASSUME NEW S, NEW s \in Seq(S), NEW i \in 1..Len(s)
  PROVE  /\ RemoveAt(s, i) \in Seq(S) /\ Len(RemoveAt(s, i)) = Len(s) - 1
         /\ \A k \in 1..(Len(s) - 1) : RemoveAt(s, i)[k] = IF k < i THEN s[k] ELSE s[k + 1]
<1> DEFINE l == SubSeq(s, 1, i - 1)
           r == SubSeq(s, i + 1, Len(s))
<1>1. /\ l \in Seq(S) /\ Len(l) = i - 1 /\ \A k \in 1..(i - 1) : l[k] = s[k]
  BY SMTT(30)
<1>2. /\ r \in Seq(S) /\ Len(r) = Len(s) - i
      /\ \A k \in 1..(Len(s) - i) : r[k] = s[i + k]
  BY SMTT(30)
<1>3. RemoveAt(s, i) = l \o r
  BY DEF RemoveAt
<1> HIDE DEF l, r
<1>4. /\ l \o r \in Seq(S) /\ Len(l \o r) = Len(s) - 1
      /\ \A k \in 1..(Len(s) - 1) : (l \o r)[k] = IF k < i THEN l[k] ELSE r[k - (i - 1)]
  <2>1. /\ l \o r \in Seq(S) /\ Len(l \o r) = Len(l) + Len(r)
        /\ \A k \in 1..(Len(l) + Len(r)) :
             (l \o r)[k] = IF k <= Len(l) THEN l[k] ELSE r[k - Len(l)]
    BY <1>1, <1>2, ConcatProperties
  <2>2. Len(l) + Len(r) = Len(s) - 1 /\ \A k \in Int : k <= Len(l) <=> k < i
    BY <1>1, <1>2
  <2> QED BY <1>1, <2>1, <2>2
<1>5. \A k \in 1..(Len(s) - 1) : k >= i => r[k - (i - 1)] = s[k + 1]
  BY <1>2
<1> QED BY <1>1, <1>3, <1>4, <1>5

LEMMA TallyDelete ==
  ASSUME NEW S, NEW cs \in Seq(S), NEW ws \in Seq(Positive), Len(ws) = Len(cs),
         NEW c, NEW d, NEW p \in 1..Len(cs), cs[p] = d, \A j \in 1..(p - 1) : cs[j] # d,
         NEW a \in Seq(Positive), Tallied(cs, ws, a, c)
  PROVE  /\ d = c => a # <<>>
         /\ Tallied(RemoveAt(cs, p), RemoveAt(ws, p), IF d = c THEN Tail(a) ELSE a, c)
<1> DEFINE n == Len(cs) - 1
           m == Len(a)
           cs2 == RemoveAt(cs, p)
           ws2 == RemoveAt(ws, p)
<1>1. PICK h : PlacedBy(h, cs, ws, a, c)
  BY DEF Tallied
<1>2. /\ n \in Nat /\ Len(cs) = n + 1 /\ p \in 1..(n + 1) /\ m \in Nat /\ Len(a) = m
      /\ Len(cs2) = n /\ \A k \in 1..n : cs2[k] = IF k < p THEN cs[k] ELSE cs[k + 1]
      /\ \A k \in 1..n : ws2[k] = IF k < p THEN ws[k] ELSE ws[k + 1]
  <2>1. Len(cs2) = Len(cs) - 1
        /\ \A k \in 1..(Len(cs) - 1) : cs2[k] = IF k < p THEN cs[k] ELSE cs[k + 1]
    BY Removed
  <2>2. \A k \in 1..(Len(ws) - 1) : ws2[k] = IF k < p THEN ws[k] ELSE ws[k + 1]
    <3>1. p \in 1..Len(ws)
      OBVIOUS
    <3> QED BY <3>1, Removed
  <2> HIDE DEF cs2, ws2
  <2> QED BY <2>1, <2>2
<1>3. /\ h \in [1..m -> 1..(n + 1)]
      /\ \A i, j \in 1..m : i < j => h[i] < h[j]
      /\ \A i \in 1..m : cs[h[i]] = c /\ ws[h[i]] = a[i]
      /\ \A k \in 1..(n + 1) : cs[k] = c => \E i \in 1..m : h[i] = k
  BY <1>1, <1>2 DEF PlacedBy
<1>4. CASE d # c
  <2> DEFINE g == [i \in 1..m |-> IF h[i] < p THEN h[i] ELSE h[i] - 1]
  <2> HIDE DEF n, m, cs2, ws2
  <2>1. \A i \in 1..m : h[i] # p /\ h[i] \in 1..(n + 1)
    BY <1>3, <1>4
  <2>2. \A i \in 1..m : /\ h[i] < p => g[i] = h[i] /\ g[i] \in 1..n
                        /\ ~(h[i] < p) => g[i] = h[i] - 1 /\ g[i] \in 1..n /\ ~(g[i] < p) /\ g[i] + 1 = h[i]
    BY <1>2, <2>1
  <2>3. g \in [1..m -> 1..n]
    <3>1. \A i \in 1..m : g[i] \in 1..n
      BY <2>2
    <3>2. g = [i \in 1..m |-> g[i]]
      OBVIOUS
    <3> HIDE DEF g
    <3> QED BY <3>1, <3>2
  <2> HIDE DEF g
  <2>4. \A i, j \in 1..m : i < j => g[i] < g[j]
    <3> SUFFICES ASSUME NEW i \in 1..m, NEW j \in 1..m, i < j PROVE g[i] < g[j]
      OBVIOUS
    <3>1. h[i] < h[j] /\ h[i] \in Int /\ h[j] \in Int /\ h[i] # p /\ h[j] # p /\ p \in Int
      BY <1>2, <1>3, <2>1
    <3> QED BY <2>2, <3>1
  <2>5. \A i \in 1..m : cs2[g[i]] = c /\ ws2[g[i]] = a[i]
    <3> TAKE i \in 1..m
    <3>1. CASE h[i] < p
      BY <1>2, <1>3, <2>2, <3>1
    <3>2. CASE ~(h[i] < p)
      <4>1. cs2[g[i]] = cs[h[i]] /\ ws2[g[i]] = ws[h[i]]
        BY <1>2, <2>2, <3>2
      <4> QED BY <1>3, <4>1
    <3> QED BY <3>1, <3>2
  <2>6. \A k \in 1..n : cs2[k] = c => \E i \in 1..m : g[i] = k
    <3> SUFFICES ASSUME NEW k \in 1..n, cs2[k] = c PROVE \E i \in 1..m : g[i] = k
      OBVIOUS
    <3>1. CASE k < p
      <4>1. cs[k] = c /\ k \in 1..(n + 1)
        BY <1>2, <3>1
      <4>2. PICK i \in 1..m : h[i] = k
        BY <1>3, <4>1
      <4> QED BY <2>2, <3>1, <4>2
    <3>2. CASE ~(k < p)
      <4>1. cs[k + 1] = c /\ k + 1 \in 1..(n + 1) /\ ~(k + 1 < p) /\ (k + 1) - 1 = k
        BY <1>2, <3>2
      <4>2. PICK i \in 1..m : h[i] = k + 1
        BY <1>3, <4>1
      <4>3. g[i] = k
        BY <2>2, <4>1, <4>2
      <4> QED BY <4>3
    <3> QED BY <3>1, <3>2
  <2>7. PlacedBy(g, cs2, ws2, a, c)
    BY <1>2, <2>3, <2>4, <2>5, <2>6 DEF PlacedBy
  <2> QED BY <1>4, <2>7 DEF Tallied, cs2, ws2
<1>5. CASE d = c
  <2> DEFINE b == Tail(a)
             g == [i \in 1..(m - 1) |-> h[i + 1] - 1]
  <2>1. PICK q \in 1..m : h[q] = p
    <3> HIDE DEF n, m, cs2, ws2
    <3> QED BY <1>2, <1>3, <1>5
  <2>2. 1 \in 1..m /\ h[1] = p
    <3> HIDE DEF n, m, cs2, ws2
    <3>1. 1 \in 1..m /\ m \in Nat
      BY <1>2, <2>1
    <3>2. cs[h[1]] = c /\ h[1] \in 1..(n + 1)
      BY <1>3, <3>1
    <3>3. ~(h[1] < p)
      BY <1>2, <1>5, <3>2
    <3>4. q = 1 \/ h[1] < h[q]
      BY <1>3, <3>1
    <3> QED BY <1>2, <2>1, <3>1, <3>2, <3>3, <3>4
  <2>3. a # <<>> /\ Len(b) = m - 1 /\ \A i \in 1..(m - 1) : b[i] = a[i + 1]
    BY <2>2
  <2> HIDE DEF n, m, cs2, ws2, b
  <2>4. \A i \in 1..(m - 1) : /\ i + 1 \in 1..m /\ h[i + 1] \in 1..(n + 1)
                              /\ p < h[i + 1]
    <3> TAKE i \in 1..(m - 1)
    <3>1. i + 1 \in 1..m /\ 1 < i + 1
      BY <1>2
    <3> QED BY <1>3, <2>2, <3>1
  <2>5. \A i \in 1..(m - 1) : /\ g[i] = h[i + 1] - 1 /\ g[i] \in 1..n /\ ~(g[i] < p)
                              /\ g[i] + 1 = h[i + 1]
    BY <1>2, <2>4
  <2>6. g \in [1..(m - 1) -> 1..n]
    <3>1. \A i \in 1..(m - 1) : g[i] \in 1..n
      BY <2>5
    <3>2. g = [i \in 1..(m - 1) |-> g[i]]
      OBVIOUS
    <3> HIDE DEF g
    <3> QED BY <3>1, <3>2
  <2> HIDE DEF g
  <2>7. \A i, j \in 1..(m - 1) : i < j => g[i] < g[j]
    <3> SUFFICES ASSUME NEW i \in 1..(m - 1), NEW j \in 1..(m - 1), i < j PROVE g[i] < g[j]
      OBVIOUS
    <3>1. i + 1 < j + 1 /\ i + 1 \in 1..m /\ j + 1 \in 1..m
      BY <2>4
    <3>2. h[i + 1] < h[j + 1] /\ h[i + 1] \in Int /\ h[j + 1] \in Int
      BY <1>3, <2>4, <3>1
    <3>3. g[i] = h[i + 1] - 1 /\ g[j] = h[j + 1] - 1
      BY <2>5
    <3> QED BY <3>2, <3>3
  <2>8. \A i \in 1..(m - 1) : cs2[g[i]] = c /\ ws2[g[i]] = b[i]
    <3> TAKE i \in 1..(m - 1)
    <3>1. cs2[g[i]] = cs[h[i + 1]] /\ ws2[g[i]] = ws[h[i + 1]]
      BY <1>2, <2>5
    <3>2. cs[h[i + 1]] = c /\ ws[h[i + 1]] = a[i + 1]
      BY <1>3, <2>4
    <3> QED BY <2>3, <3>1, <3>2
  <2>9. \A k \in 1..n : cs2[k] = c => \E i \in 1..(m - 1) : g[i] = k
    <3> SUFFICES ASSUME NEW k \in 1..n, cs2[k] = c PROVE \E i \in 1..(m - 1) : g[i] = k
      OBVIOUS
    <3>1. ~(k < p)
      BY <1>2, <1>5
    <3>2. cs[k + 1] = c /\ k + 1 \in 1..(n + 1) /\ p < k + 1 /\ (k + 1) - 1 = k
      BY <1>2, <3>1
    <3>3. PICK i \in 1..m : h[i] = k + 1
      BY <1>3, <3>2
    <3>4. i # 1
      BY <1>2, <2>2, <3>2, <3>3
    <3>5. i - 1 \in 1..(m - 1) /\ (i - 1) + 1 = i
      BY <1>2, <3>4
    <3>6. g[i - 1] = k
      BY <2>5, <3>2, <3>3, <3>5
    <3> QED BY <3>5, <3>6
  <2>10. PlacedBy(g, cs2, ws2, b, c)
    BY <1>2, <2>3, <2>6, <2>7, <2>8, <2>9 DEF PlacedBy
  <2> QED BY <1>5, <2>3, <2>10 DEF Tallied, cs2, ws2, b
<1> QED BY <1>4, <1>5

-----------------------------------------------------------------------------
(* How the choice follows from the pool.                                   *)

Running(k) == TotalOf(SubSeq(weights, 1, k))

LEMMA RunningSum ==
  ASSUME BalancerIInv
  PROVE  /\ \A k \in 0..Len(weights) : Running(k) \in Nat
         /\ Running(0) = 0
         /\ \A k \in 0..(Len(weights) - 1) :
              Running(k + 1) = Running(k) + weights[k + 1] /\ weights[k + 1] \in Positive
         /\ Running(Len(weights)) = max
<1>1. weights \in Seq(Positive) /\ weights \in Seq(Nat) /\ Len(weights) \in Nat
  BY DEF BalancerIInv, BalancerTypeOK, Positive
<1>2. ASSUME NEW k \in 0..Len(weights) PROVE SubSeq(weights, 1, k) \in Seq(Nat)
  BY <1>1
<1>3. SubSeq(weights, 1, 0) = <<>>
  BY <1>1
<1>4. ASSUME NEW k \in 0..(Len(weights) - 1)
      PROVE  Running(k + 1) = Running(k) + weights[k + 1] /\ weights[k + 1] \in Positive
  <2>1. k \in 0..Len(weights) /\ k + 1 \in 1..Len(weights)
    BY <1>1
  <2>2. weights[k + 1] \in Positive /\ weights[k + 1] \in Nat
    BY <1>1, <2>1 DEF Positive
  <2>3. SubSeq(weights, 1, k + 1) = Append(SubSeq(weights, 1, k), weights[k + 1])
    BY <1>1, <2>1
  <2>4. SubSeq(weights, 1, k) \in Seq(Nat)
    BY <1>2, <2>1
  <2> QED BY <2>2, <2>3, <2>4, TotalAppend DEF Running
<1>5. SubSeq(weights, 1, Len(weights)) = weights
  BY <1>1
<1> QED BY <1>2, <1>3, <1>4, <1>5, TotalEmpty, TotalNat DEF Running, BalancerIInv, SumsInv

LEMMA RunningMonotone ==
  ASSUME BalancerIInv, NEW j \in 0..Len(weights), NEW i \in 0..j
  PROVE  Running(i) <= Running(j)
<1> DEFINE S == {n \in Nat : n <= Len(weights) => \A m \in 0..n : Running(m) <= Running(n)}
<1>0. Len(weights) \in Nat
  BY DEF BalancerIInv, BalancerTypeOK
<1>1. 0 \in S
  BY RunningSum
<1>2. ASSUME NEW n \in Nat, n \in S PROVE n + 1 \in S
  <2> SUFFICES ASSUME n + 1 <= Len(weights), NEW m \in 0..(n + 1)
               PROVE  Running(m) <= Running(n + 1)
    OBVIOUS
  <2>1. /\ Running(n + 1) = Running(n) + weights[n + 1] /\ weights[n + 1] \in Nat
        /\ Running(n) \in Nat /\ Running(n + 1) \in Nat
    <3>1. n \in 0..(Len(weights) - 1) /\ n \in 0..Len(weights) /\ n + 1 \in 0..Len(weights)
      BY <1>0
    <3> QED BY <3>1, RunningSum DEF Positive
  <2>2. CASE m = n + 1
    BY <2>1, <2>2
  <2>3. CASE m # n + 1
    <3>1. m \in 0..n /\ m \in 0..Len(weights)
      BY <1>0, <2>3
    <3>2. Running(m) <= Running(n) /\ Running(m) \in Nat
      BY <1>0, <1>2, <3>1, RunningSum
    <3> QED BY <2>1, <3>2
  <2> QED BY <2>2, <2>3
<1>3. Nat \subseteq S
  <2> HIDE DEF S
  <2> QED BY <1>1, <1>2, SetInduction
<1>4. j \in Nat /\ j <= Len(weights)
  BY <1>0
<1> QED BY <1>3, <1>4

(* The candidate at k has the pointers from one running sum to the next.   *)
LEMMA ChosenIs ==
  ASSUME BalancerIInv, NEW k \in 1..Len(weights), NEW p \in Nat,
         Running(k - 1) <= p, p < Running(k)
  PROVE  Chosen(p) = {candidates[k]}
<1>1. /\ Len(weights) \in Nat /\ DOMAIN candidates = 1..Len(weights)
      /\ \A j \in 1..Len(weights) : weightMap[j] = Running(j)
  BY DEF BalancerIInv, BalancerTypeOK, SumsInv, Running
<1>2. \A j \in 1..Len(weights) : p < weightMap[j] <=> k <= j
  <2> TAKE j \in 1..Len(weights)
  <2>1. Running(j) \in Nat /\ Running(k) \in Nat /\ Running(k - 1) \in Nat
    BY <1>1, RunningSum
  <2>2. CASE k <= j
    <3>1. Running(k) <= Running(j)
      BY <1>1, <2>2, RunningMonotone
    <3> QED BY <1>1, <2>1, <2>2, <3>1
  <2>3. CASE ~(k <= j)
    <3>1. k - 1 \in 0..Len(weights) /\ j \in 0..(k - 1)
      BY <1>1, <2>3
    <3>2. Running(j) <= Running(k - 1)
      BY <3>1, RunningMonotone
    <3> QED BY <1>1, <2>1, <2>3, <3>2
  <2> QED BY <2>2, <2>3
<1>3. Nets(p) = {j \in 1..Len(weights) : k <= j}
  BY <1>1, <1>2 DEF Nets
<1>4. {j \in Nets(p) : \A i \in Nets(p) : j <= i} = {k}
  BY <1>1, <1>3
<1> QED BY <1>4 DEF Chosen

LEMMA PointerFinds ==
  ASSUME BalancerIInv, NEW p \in 0..(max - 1)
  PROVE  \E k \in 1..Len(weights) : Running(k - 1) <= p /\ p < Running(k)
<1> DEFINE Found(n) == \E k \in 1..n : Running(k - 1) <= p /\ p < Running(k)
           S == {n \in Nat : n <= Len(weights) /\ p < Running(n) => Found(n)}
<1>0. Len(weights) \in Nat /\ max \in Nat /\ p \in Nat /\ p < max
  <2>1. Len(weights) \in Nat /\ Len(weights) \in 0..Len(weights)
    BY DEF BalancerIInv, BalancerTypeOK
  <2>2. Running(Len(weights)) = max /\ Running(Len(weights)) \in Nat
    BY <2>1, RunningSum
  <2>3. max \in Nat
    BY <2>2
  <2> QED BY <2>1, <2>3
<1>1. 0 \in S
  BY <1>0, RunningSum
<1>2. ASSUME NEW n \in Nat, n \in S PROVE n + 1 \in S
  <2> SUFFICES ASSUME n + 1 <= Len(weights), p < Running(n + 1) PROVE Found(n + 1)
    OBVIOUS
  <2>1. Running(n) \in Nat /\ n + 1 \in 1..(n + 1) /\ (n + 1) - 1 = n
    BY <1>0, RunningSum
  <2>2. CASE p < Running(n)
    <3>1. Found(n)
      BY <1>0, <1>2, <2>2
    <3>2. \A k \in 1..n : k \in 1..(n + 1)
      OBVIOUS
    <3> QED BY <3>1, <3>2
  <2>3. CASE ~(p < Running(n))
    <3>1. Running((n + 1) - 1) <= p
      BY <1>0, <2>1, <2>3
    <3> QED BY <2>1, <3>1
  <2> QED BY <2>2, <2>3
<1>3. Nat \subseteq S
  <2> HIDE DEF S
  <2> QED BY <1>1, <1>2, SetInduction
<1>4. Len(weights) \in S /\ p < Running(Len(weights))
  BY <1>0, <1>3, RunningSum
<1> QED BY <1>0, <1>4

(* The weights of a candidate at its places, and 0 elsewhere.              *)
Masked(c) == [k \in 1..Len(weights) |-> IF candidates[k] = c THEN weights[k] ELSE 0]

Pointers(c, k) == {p \in 0..(Running(k) - 1) : c \in Chosen(p)}

LEMMA PointersCounted ==
  ASSUME BalancerIInv, NEW c
  PROVE  Cardinality(Pointers(c, Len(weights))) = SumOver(Masked(c), 1..Len(weights))
<1> DEFINE Good(n) == /\ IsFiniteSet(Pointers(c, n))
                      /\ Cardinality(Pointers(c, n)) = SumOver(Masked(c), 1..n)
           S == {n \in Nat : n <= Len(weights) => Good(n)}
<1>0. Len(weights) \in Nat
  BY DEF BalancerIInv, BalancerTypeOK
<1>1. 0 \in S
  <2>1. Pointers(c, 0) = {} /\ 1..0 = {}
    BY RunningSum DEF Pointers
  <2>2. Good(0)
    BY <2>1, FS_EmptySet, SumEmpty
  <2> QED BY <2>2
<1>2. ASSUME NEW n \in Nat, n \in S PROVE n + 1 \in S
  <2> SUFFICES ASSUME n + 1 <= Len(weights) PROVE Good(n + 1)
    OBVIOUS
  <2> DEFINE k == n + 1
             Q == Pointers(c, n)
             New == IF candidates[k] = c THEN Running(n)..(Running(k) - 1) ELSE {}
             f == Masked(c)
  <2>1. /\ k \in 1..Len(weights) /\ k - 1 = n /\ n <= Len(weights)
        /\ Running(n) \in Nat /\ Running(k) \in Nat
        /\ Running(k) = Running(n) + weights[k] /\ weights[k] \in Nat
    <3>1. n \in 0..(Len(weights) - 1) /\ n \in 0..Len(weights) /\ k \in 0..Len(weights)
      BY <1>0
    <3> QED BY <1>0, <3>1, RunningSum DEF Positive
  <2>2. Good(n)
    BY <1>2, <2>1
  <2>3. \A p \in Running(n)..(Running(k) - 1) : Chosen(p) = {candidates[k]}
    <3> TAKE p \in Running(n)..(Running(k) - 1)
    <3>1. p \in Nat /\ Running(k - 1) <= p /\ p < Running(k)
      BY <2>1
    <3> QED BY <2>1, <3>1, ChosenIs
  <2>4. Pointers(c, k) = Q \cup New /\ Q \cap New = {}
    <3>1. \A p : p \in 0..(Running(k) - 1) <=>
                 p \in 0..(Running(n) - 1) \/ p \in Running(n)..(Running(k) - 1)
      BY <2>1
    <3>2. \A p \in 0..(Running(n) - 1) : p \notin Running(n)..(Running(k) - 1)
      BY <2>1
    <3> HIDE DEF k
    <3> QED BY <2>3, <3>1, <3>2 DEF Pointers
  <2>5. IsFiniteSet(New) /\ Cardinality(New) = IF candidates[k] = c THEN weights[k] ELSE 0
    <3>1. CASE candidates[k] = c
      <4>1. /\ IsFiniteSet(Running(n)..(Running(k) - 1))
            /\ Cardinality(Running(n)..(Running(k) - 1)) =
                 IF Running(n) > Running(k) - 1 THEN 0 ELSE (Running(k) - 1) - Running(n) + 1
        <5> DEFINE lo == Running(n)
                   hi == Running(k) - 1
        <5>1. lo \in Int /\ hi \in Int
          BY <2>1
        <5> HIDE DEF lo, hi
        <5>2. /\ IsFiniteSet(lo..hi)
              /\ Cardinality(lo..hi) = IF lo > hi THEN 0 ELSE hi - lo + 1
          BY <5>1, FS_Interval
        <5> QED BY <5>2 DEF lo, hi
      <4> HIDE DEF k
      <4> QED BY <2>1, <3>1, <4>1
    <3>2. CASE candidates[k] # c
      BY <3>2, FS_EmptySet
    <3> QED BY <3>1, <3>2
  <2>6. /\ IsFiniteSet(Q \cup New)
        /\ Cardinality(Q \cup New) = Cardinality(Q) + Cardinality(New)
    <3>1. Cardinality({}) = 0 /\ IsFiniteSet(Q)
      BY <2>2, FS_EmptySet
    <3>2. Cardinality(Q) \in Nat /\ Cardinality(New) \in Nat
      <4> HIDE DEF Q, New
      <4> QED BY <2>5, <3>1, FS_CardinalityType
    <3>3. IsFiniteSet(Q) /\ IsFiniteSet(New) /\ Q \cap New = {}
      BY <2>4, <2>5, <3>1
    <3> HIDE DEF Q, New
    <3>4. /\ IsFiniteSet(Q \cup New)
          /\ Cardinality(Q \cup New) =
               Cardinality(Q) + Cardinality(New) - Cardinality(Q \cap New)
      BY <3>3, FS_Union
    <3>5. Cardinality(Q \cap New) = 0
      BY <3>1, <3>3
    <3> QED BY <3>2, <3>4, <3>5
  <2>7. SumOver(f, 1..k) = f[k] + SumOver(f, 1..n)
    <3> DEFINE T == 1..n
    <3>1. IsFiniteSet(T) /\ k \notin T /\ 1..k = T \cup {k}
      <4>1. 1 \in Int /\ n \in Int
        OBVIOUS
      <4>2. IsFiniteSet(1..n)
        BY <4>1, FS_Interval
      <4>3. k \notin 1..n /\ 1..k = (1..n) \cup {k}
        OBVIOUS
      <4> QED BY <4>2, <4>3
    <3>2. \A y \in T \cup {k} : f[y] \in Nat
      <4> TAKE y \in T \cup {k}
      <4>1. y \in 1..Len(weights)
        BY <1>0, <2>1
      <4>2. weights[y] \in Nat
        BY <4>1 DEF BalancerIInv, BalancerTypeOK, Positive
      <4> QED BY <4>1, <4>2 DEF Masked
    <3> HIDE DEF T, f, k
    <3>3. SumOver(f, T \cup {k}) = f[k] + SumOver(f, T)
      BY <3>1, <3>2, SumAdd
    <3> QED BY <3>1, <3>3 DEF T
  <2>8. f[k] = IF candidates[k] = c THEN weights[k] ELSE 0
    BY <2>1 DEF Masked
  <2>9. Cardinality(Q) = SumOver(f, 1..n) /\ Cardinality(Q) \in Nat
    BY <2>2, FS_CardinalityType
  <2>10. Cardinality(Q) + Cardinality(New) = SumOver(f, 1..k)
    <3> HIDE DEF Q, New, f, k
    <3> QED BY <2>1, <2>5, <2>7, <2>8, <2>9
  <2> QED BY <2>4, <2>6, <2>10
<1>3. Nat \subseteq S
  <2> HIDE DEF S
  <2> QED BY <1>1, <1>2, SetInduction
<1> QED BY <1>0, <1>3

LEMMA MaskedTotal ==
  ASSUME BalancerIInv, NEW c \in Candidates
  PROVE  SumOver(Masked(c), 1..Len(weights)) = TotalOf(added[c])
<1> DEFINE a == added[c]
           n == Len(weights)
           g == Masked(c)
           S == 1..n
<1>1. PICK h : PlacedBy(h, candidates, weights, a, c)
  BY DEF BalancerIInv, TallyInv, Tallied
<1>2. /\ a \in Seq(Positive) /\ a \in Seq(Nat) /\ n \in Nat /\ Len(candidates) = n
      /\ \A k \in S : weights[k] \in Nat
  BY DEF BalancerIInv, BalancerTypeOK, Positive
<1> DEFINE D == DOMAIN a
           T == ImageOf(h, D)
<1>3. D = 1..Len(a) /\ IsFiniteSet(D) /\ \A i \in D : a[i] \in Nat
  BY <1>2, SeqDomain
<1>4. IsFiniteSet(S)
  <2>1. 1 \in Int /\ n \in Int
    BY <1>2
  <2> QED BY <2>1, FS_Interval
<1>5. /\ \A i \in D : h[i] \in S /\ candidates[h[i]] = c /\ weights[h[i]] = a[i]
      /\ \A i, j \in D : i < j => h[i] < h[j]
      /\ \A k \in S : candidates[k] = c => \E i \in D : h[i] = k
  BY <1>1, <1>2, <1>3 DEF PlacedBy
<1>6. \A k \in S : g[k] = IF candidates[k] = c THEN weights[k] ELSE 0
  BY DEF Masked
<1>7. \A i \in D : a[i] \in Nat /\ g[h[i]] = a[i]
  <2> HIDE DEF a, n, g, S, D
  <2> QED BY <1>3, <1>5, <1>6
<1>8. \A i, j \in D : h[i] = h[j] => i = j
  <2> SUFFICES ASSUME NEW i \in D, NEW j \in D, h[i] = h[j] PROVE i = j
    OBVIOUS
  <2> HIDE DEF a, g
  <2>1. i \in Nat /\ j \in Nat /\ h[i] \in Nat /\ h[j] \in Nat
    BY <1>2, <1>3, <1>5
  <2>2. ~(i < j) /\ ~(j < i)
    BY <1>5, <2>1
  <2> QED BY <2>1, <2>2
<1> HIDE DEF a, n, g, S, D
<1>9. SumOver(g, T) = SumOver(a, D)
  <2>1. RenamedBy(a, g, h, D)
    BY <1>7, <1>8 DEF RenamedBy
  <2> QED BY <1>3, <2>1, SumRenamed
<1>10. /\ T \in SUBSET S
       /\ \A k \in T : g[k] \in Nat /\ g[k] = g[k]
       /\ \A k \in S \ T : g[k] = 0
  <2>1. \A k \in S \ T : candidates[k] # c
    BY <1>5 DEF ImageOf
  <2> QED BY <1>2, <1>5, <1>6, <1>7, <2>1 DEF ImageOf
<1> HIDE DEF T
<1>11. SumOver(g, S) = SumOver(g, T)
  BY <1>4, <1>10, SumSupport
<1> QED BY <1>9, <1>11 DEF a, g, S, n, D, TotalOf

-----------------------------------------------------------------------------
(* The invariant holds.                                                    *)

LEMMA Started == BalancerInit => BalancerIInv
<1> SUFFICES ASSUME BalancerInit PROVE BalancerIInv
  OBVIOUS
<1>1. BalancerTypeOK
  BY DEF BalancerInit, BalancerTypeOK
<1>2. SumsInv
  <2>1. weightMap = [i \in DOMAIN weights |-> TotalOf(SubSeq(weights, 1, i))]
    BY DEF BalancerInit
  <2> QED BY <2>1, TotalEmpty DEF BalancerInit, SumsInv
<1>3. ASSUME NEW c \in Candidates PROVE Tallied(candidates, weights, added[c], c)
  <2>1. PlacedBy(<<>>, <<>>, <<>>, <<>>, c)
    BY DEF PlacedBy
  <2> QED BY <1>3, <2>1 DEF BalancerInit, Tallied
<1> QED BY <1>1, <1>2, <1>3 DEF BalancerIInv, TallyInv

LEMMA Calculated == CalculateWeights => SumsInv'
BY SumOfIsTotal DEF CalculateWeights, SumsInv

LEMMA RecordedIs ==
  ASSUME NEW what \in [Candidates -> Seq(Positive)], NEW c \in Candidates, NEW w \in Weights
  PROVE  /\ Recorded(what, c, w) \in [Candidates -> Seq(Positive)]
         /\ \A d \in Candidates :
              Recorded(what, c, w)[d] = IF c = d THEN Append(what[d], Weight(w)) ELSE what[d]
BY WeightPositive DEF Recorded

LEMMA PushKeeps ==
  ASSUME BalancerIInv, NEW c \in Candidates, NEW w \in Weights, Push(c, w)
  PROVE  BalancerIInv'
<1>1. Weight(w) \in Positive
  BY WeightPositive
<1>2. BalancerTypeOK'
  BY <1>1, RecordedIs DEF BalancerIInv, BalancerTypeOK, Push
<1>3. SumsInv'
  BY Calculated DEF Push
<1>4. ASSUME NEW d \in Candidates PROVE Tallied(candidates', weights', added'[d], d)
  <2>1. /\ candidates \in Seq(Candidates) /\ weights \in Seq(Positive)
        /\ Len(weights) = Len(candidates) /\ added[d] \in Seq(Positive)
        /\ Tallied(candidates, weights, added[d], d)
    BY DEF BalancerIInv, BalancerTypeOK, TallyInv
  <2>2. Tallied(Append(candidates, c), Append(weights, Weight(w)),
                IF c = d THEN Append(added[d], Weight(w)) ELSE added[d], d)
    BY <1>1, <2>1, TallyPush
  <2>3. added'[d] = IF c = d THEN Append(added[d], Weight(w)) ELSE added[d]
    BY RecordedIs DEF Push, BalancerIInv, BalancerTypeOK
  <2> QED BY <2>2, <2>3 DEF Push
<1> QED BY <1>2, <1>3, <1>4 DEF BalancerIInv, TallyInv

LEMMA AddManyKeeps ==
  ASSUME BalancerIInv, NEW c \in Candidates, NEW w \in Weights,
         NEW d \in Candidates, NEW v \in Weights, AddMany(c, w, d, v)
  PROVE  BalancerIInv'
<1> DEFINE cs == Append(candidates, c)
           ws == Append(weights, Weight(w))
           ad == Recorded(added, c, w)
<1>1. Weight(w) \in Positive /\ Weight(v) \in Positive
  BY WeightPositive
<1>2. /\ candidates \in Seq(Candidates) /\ weights \in Seq(Positive)
      /\ Len(weights) = Len(candidates) /\ added \in [Candidates -> Seq(Positive)]
  BY DEF BalancerIInv, BalancerTypeOK
<1>3. cs \in Seq(Candidates) /\ ws \in Seq(Positive) /\ Len(ws) = Len(cs)
  BY <1>1, <1>2
<1>4. /\ candidates' = Append(cs, d) /\ weights' = Append(ws, Weight(v))
      /\ added' = Recorded(ad, d, v)
  <2>1. candidates \o <<c, d>> = Append(cs, d)
    BY <1>2
  <2>2. weights \o <<Weight(w), Weight(v)>> = Append(ws, Weight(v))
    BY <1>1, <1>2
  <2> QED BY <2>1, <2>2 DEF AddMany
<1>5. /\ ad \in [Candidates -> Seq(Positive)]
      /\ \A e \in Candidates : ad[e] = IF c = e THEN Append(added[e], Weight(w)) ELSE added[e]
  BY <1>2, RecordedIs
<1> HIDE DEF cs, ws, ad
<1>6. /\ added' \in [Candidates -> Seq(Positive)]
      /\ \A e \in Candidates : added'[e] = IF d = e THEN Append(ad[e], Weight(v)) ELSE ad[e]
  BY <1>4, <1>5, RecordedIs
<1>7. BalancerTypeOK'
  BY <1>1, <1>3, <1>4, <1>6 DEF BalancerTypeOK
<1>8. SumsInv'
  BY Calculated DEF AddMany
<1>9. ASSUME NEW e \in Candidates PROVE Tallied(candidates', weights', added'[e], e)
  <2>1. added[e] \in Seq(Positive) /\ ad[e] \in Seq(Positive)
    BY <1>2, <1>5
  <2>2. Tallied(candidates, weights, added[e], e)
    BY DEF BalancerIInv, TallyInv
  <2>3. Tallied(cs, ws, ad[e], e)
    <3>1. Tallied(Append(candidates, c), Append(weights, Weight(w)),
                  IF c = e THEN Append(added[e], Weight(w)) ELSE added[e], e)
      BY <1>1, <1>2, <2>1, <2>2, TallyPush
    <3> QED BY <1>5, <3>1 DEF cs, ws
  <2>4. Tallied(Append(cs, d), Append(ws, Weight(v)),
                IF d = e THEN Append(ad[e], Weight(v)) ELSE ad[e], e)
    BY <1>1, <1>3, <2>1, <2>3, TallyPush
  <2> QED BY <1>4, <1>6, <2>4
<1> QED BY <1>7, <1>8, <1>9 DEF BalancerIInv, TallyInv

(* indexOf() finds the first place.                                        *)
LEMMA IndexIs ==
  ASSUME candidates \in Seq(Candidates), NEW c, c \in ToSet(candidates)
  PROVE  /\ Index(c) \in 1..Len(candidates) /\ candidates[Index(c)] = c
         /\ \A j \in 1..(Index(c) - 1) : candidates[j] # c
<1> DEFINE First(i) == candidates[i] = c /\ \A j \in 1..(i - 1) : candidates[j] # c
           S == {n \in Nat : n <= Len(candidates) => \A j \in 1..n : candidates[j] # c}
<1>1. PICK k \in 1..Len(candidates) : candidates[k] = c
  BY DEF ToSet
<1>2. \E i \in 1..Len(candidates) : First(i)
  <2> SUFFICES ASSUME \A i \in 1..Len(candidates) : ~First(i) PROVE FALSE
    OBVIOUS
  <2>1. 0 \in S
    OBVIOUS
  <2>2. \A n \in Nat : n \in S => n + 1 \in S
    <3> TAKE n \in Nat
    <3> HAVE n \in S
    <3> SUFFICES ASSUME n + 1 <= Len(candidates), NEW j \in 1..(n + 1) PROVE candidates[j] # c
      OBVIOUS
    <3>1. \A i \in 1..n : candidates[i] # c
      OBVIOUS
    <3>2. n + 1 \in 1..Len(candidates) /\ (n + 1) - 1 = n
      OBVIOUS
    <3>3. candidates[n + 1] # c
      BY <3>1, <3>2
    <3> QED BY <3>1, <3>3
  <2>3. Nat \subseteq S
    <3> HIDE DEF S
    <3> QED BY <2>1, <2>2, SetInduction
  <2>4. Len(candidates) \in S
    BY <2>3
  <2> QED BY <1>1, <2>4
<1>3. DOMAIN candidates = 1..Len(candidates)
  OBVIOUS
<1> HIDE DEF First
<1>4. Index(c) = CHOOSE i \in 1..Len(candidates) : First(i)
  BY <1>3 DEF Index, First
<1>5. Index(c) \in 1..Len(candidates) /\ First(Index(c))
  BY <1>2, <1>4
<1> QED BY <1>5 DEF First

LEMMA DeleteKeeps ==
  ASSUME BalancerIInv, NEW c \in Candidates, Delete(c)
  PROVE  BalancerIInv'
<1> DEFINE p == Index(c)
<1>1. /\ candidates \in Seq(Candidates) /\ weights \in Seq(Positive)
      /\ Len(weights) = Len(candidates) /\ added \in [Candidates -> Seq(Positive)]
  BY DEF BalancerIInv, BalancerTypeOK
<1>2. /\ p \in 1..Len(candidates) /\ candidates[p] = c
      /\ \A j \in 1..(p - 1) : candidates[j] # c
  BY <1>1, IndexIs DEF Delete
<1>3. /\ candidates' = RemoveAt(candidates, p) /\ weights' = RemoveAt(weights, p)
      /\ added' = [added EXCEPT ![c] = Tail(@)]
  BY DEF Delete
<1> HIDE DEF p
<1>4. ASSUME NEW d \in Candidates
      PROVE  /\ d = c => added[c] # <<>>
             /\ added'[d] = IF c = d THEN Tail(added[d]) ELSE added[d]
             /\ Tallied(candidates', weights', added'[d], d)
  <2>1. added[d] \in Seq(Positive) /\ Tallied(candidates, weights, added[d], d)
    BY <1>1 DEF BalancerIInv, TallyInv
  <2>2. /\ c = d => added[d] # <<>>
        /\ Tallied(RemoveAt(candidates, p), RemoveAt(weights, p),
                   IF c = d THEN Tail(added[d]) ELSE added[d], d)
    BY <1>1, <1>2, <2>1, TallyDelete
  <2>3. added'[d] = IF c = d THEN Tail(added[d]) ELSE added[d]
    BY <1>1, <1>3
  <2> QED BY <1>3, <2>2, <2>3
<1>5. BalancerTypeOK'
  <2>1. candidates' \in Seq(Candidates) /\ Len(candidates') = Len(candidates) - 1
    BY <1>1, <1>2, <1>3, Removed
  <2>2. weights' \in Seq(Positive) /\ Len(weights') = Len(weights) - 1
    <3>1. p \in 1..Len(weights)
      BY <1>1, <1>2
    <3> QED BY <1>1, <1>3, <3>1, Removed
  <2>3. added' \in [Candidates -> Seq(Positive)]
    <3>1. Tail(added[c]) \in Seq(Positive)
      BY <1>1, <1>4
    <3> QED BY <1>1, <1>3, <3>1
  <2> QED BY <1>1, <2>1, <2>2, <2>3 DEF BalancerTypeOK
<1>6. SumsInv'
  BY Calculated DEF Delete
<1> QED BY <1>4, <1>5, <1>6 DEF BalancerIInv, TallyInv

(* balancer/index.js:32-92.  The recorded weights are those of the         *)
(* candidate's places, in order, and the pointers are the running sums,    *)
(* through every push(), addMany() and delete().                           *)
THEOREM BalancerInvariance == BalancerSpec => []BalancerIInv
<1>1. BalancerIInv /\ [BalancerNext]_balancerVars => BalancerIInv'
  <2> SUFFICES ASSUME BalancerIInv, [BalancerNext]_balancerVars PROVE BalancerIInv'
    OBVIOUS
  <2>1. CASE \E c \in Candidates, w \in Weights : Push(c, w)
    BY <2>1, PushKeeps
  <2>2. CASE \E c, d \in Candidates, w, v \in Weights : AddMany(c, w, d, v)
    BY <2>2, AddManyKeeps
  <2>3. CASE \E c \in Candidates : Delete(c)
    BY <2>3, DeleteKeeps
  <2>4. CASE UNCHANGED balancerVars
    BY <2>4 DEF balancerVars, BalancerIInv, BalancerTypeOK, SumsInv, TallyInv
  <2> QED BY <2>1, <2>2, <2>3, <2>4 DEF BalancerNext
<1> QED BY <1>1, Started, PTL DEF BalancerSpec

(* getRandomCandidate() chooses each candidate for as many of the unit     *)
(* intervals as the weights it was added with and not yet deleted with add *)
(* up to, and finds one for every pointer: for all weights, all pools and  *)
(* all orders of push(), addMany() and delete().                           *)
THEOREM BalancerProportional == BalancerSpec => []Proportional
<1>1. BalancerIInv => Proportional
  <2> SUFFICES ASSUME BalancerIInv PROVE Proportional
    OBVIOUS
  <2>1. ASSUME NEW c \in Candidates PROVE Share(c) = SumOf(added[c])
    <3>1. Len(weights) \in Nat
      BY DEF BalancerIInv, BalancerTypeOK
    <3>2. Running(Len(weights)) = max
      BY RunningSum
    <3>3. Share(c) = Cardinality(Pointers(c, Len(weights)))
      BY <3>2 DEF Share, Pointers
    <3> QED BY <3>3, PointersCounted, MaskedTotal, SumOfIsTotal
  <2>2. ASSUME NEW p \in 0..(max - 1) PROVE Chosen(p) # {}
    <3>1. PICK k \in 1..Len(weights) : Running(k - 1) <= p /\ p < Running(k)
      BY PointerFinds
    <3>2. Chosen(p) = {candidates[k]}
      BY <3>1, ChosenIs
    <3> QED BY <3>2
  <2> QED BY <2>1, <2>2 DEF Proportional
<1> QED BY <1>1, BalancerInvariance, PTL

-----------------------------------------------------------------------------
(* Measure.                                                                *)

WindowFrom(n) == {t \in 0..n : t >= n - AverageDuration}

MeasureTypeOK ==
  /\ now \in 0..MaxTime
  /\ passed \in Seq(Nat)
  /\ inbox \in [Idx -> Seq(Nat)]
  /\ held \in [Idx -> Seq(Nat)]
  /\ measurement \in [Idx -> Nat]
  /\ arrivals \in [Idx -> [0..MaxTime -> Nat]]
  /\ reading \in [Idx -> [speed : Nat, at : 0..MaxTime]]

(* A bucket holds what arrived in its second, and a second of the window   *)
(* without a bucket brought nothing.                                       *)
BucketsOf(b, a, n) ==
  /\ DOMAIN b \subseteq 0..n
  /\ \A t \in DOMAIN b : b[t] = a[t]
  /\ \A t \in WindowFrom(n) : t \notin DOMAIN b => a[t] = 0
  /\ \A t \in DOMAIN a : t > n => a[t] = 0

BucketsInv ==
  /\ DOMAIN buckets = Idx
  /\ \A i \in Idx : BucketsOf(buckets[i], arrivals[i], now)

ReadingInv ==
  \A i \in Idx :
    /\ reading[i].at <= now
    /\ reading[i].at = now => reading[i].speed = SumOver(arrivals[i], WindowFrom(now))

MeasureIInv == MeasureTypeOK /\ BucketsInv /\ ReadingInv

LEMMA WindowFinite ==
  ASSUME NEW n \in Nat
  PROVE  IsFiniteSet(WindowFrom(n)) /\ WindowFrom(n) \subseteq 0..n
<1>1. WindowFrom(n) \in SUBSET (0..n)
  BY DEF WindowFrom
<1> DEFINE M == 0..n
<1>2. IsFiniteSet(M) /\ WindowFrom(n) \in SUBSET M
  BY <1>1, FS_Interval
<1>3. IsFiniteSet(WindowFrom(n))
  <2> HIDE DEF M
  <2> QED BY <1>2, FS_Subset
<1> QED BY <1>1, <1>3

(* The buckets of the window, and the seconds of the window.               *)
LEMMA WindowSum ==
  ASSUME NEW n \in Nat, NEW a, NEW b, BucketsOf(b, a, n),
         DOMAIN b \subseteq WindowFrom(n), \A t \in 0..n : a[t] \in Nat
  PROVE  Speed(b) = SumOver(a, WindowFrom(n)) /\ Speed(b) \in Nat
<1>1. Speed(b) = SumOver(b, DOMAIN b)
  BY FoldIsTotalOf DEF Speed, TotalOf
<1>2. /\ DOMAIN b \in SUBSET WindowFrom(n)
      /\ \A t \in DOMAIN b : b[t] \in Nat /\ a[t] = b[t]
      /\ \A t \in WindowFrom(n) \ DOMAIN b : a[t] = 0
  BY WindowFinite DEF BucketsOf
<1>3. IsFiniteSet(WindowFrom(n))
  BY WindowFinite
<1>4. SumOver(a, WindowFrom(n)) = SumOver(b, DOMAIN b)
  BY <1>2, <1>3, SumSupport
<1>5. SumOver(b, DOMAIN b) \in Nat
  BY <1>2, <1>3, FS_Subset, SumNat
<1> QED BY <1>1, <1>4, <1>5

LEMMA Pruned ==
  ASSUME NEW i \in Idx, MeasureIInv
  PROVE  /\ BucketsOf(Prune(buckets[i]), arrivals[i], now)
         /\ DOMAIN Prune(buckets[i]) \subseteq WindowFrom(now)
         /\ DOMAIN Prune(buckets[i]) \subseteq DOMAIN buckets[i]
         /\ now \in Nat /\ \A t \in 0..now : arrivals[i][t] \in Nat
<1>1. now \in 0..MaxTime /\ now \in Nat /\ arrivals[i] \in [0..MaxTime -> Nat]
  BY MeasureAssumption DEF MeasureIInv, MeasureTypeOK
<1>2. \A t \in 0..now : arrivals[i][t] \in Nat
  BY <1>1, MeasureAssumption
<1> DEFINE b == buckets[i]
           p == Prune(b)
<1>3. BucketsOf(b, arrivals[i], now)
  BY DEF MeasureIInv, BucketsInv
<1>4. /\ DOMAIN p = {t \in DOMAIN b : t >= now - AverageDuration}
      /\ \A t \in DOMAIN p : p[t] = b[t]
  BY DEF Prune, Restrict
<1> HIDE DEF p, b
<1>5. BucketsOf(p, arrivals[i], now) /\ DOMAIN p \subseteq WindowFrom(now)
      /\ DOMAIN p \subseteq DOMAIN b
  BY <1>1, <1>3, <1>4 DEF BucketsOf, WindowFrom, AverageDuration
<1> QED BY <1>1, <1>2, <1>5 DEF p, b

LEMMA MeasureTypes ==
  ASSUME MeasureIInv
  PROVE  /\ now \in 0..MaxTime /\ now \in Nat
         /\ passed \in Seq(Nat) /\ inbox \in [Idx -> Seq(Nat)] /\ held \in [Idx -> Seq(Nat)]
         /\ measurement \in [Idx -> Nat]
         /\ arrivals \in [Idx -> [0..MaxTime -> Nat]]
         /\ reading \in [Idx -> [speed : Nat, at : 0..MaxTime]]
BY MeasureAssumption DEF MeasureIInv, MeasureTypeOK

LEMMA StagesIdx == Idx = 1..Len(Stages) /\ 1 \in Idx /\ Idx \subseteq Nat
BY MeasureAssumption DEF Idx

(* What the pipe writes has the type of what it reads.                     *)
LEMMA PipedType ==
  ASSUME NEW boxes \in [Idx -> Seq(Nat)], NEW i \in Idx, NEW n \in Nat
  PROVE  Piped(boxes, i, n) \in [Idx -> Seq(Nat)]
BY DEF Piped

LEMMA ChunkKeeps ==
  ASSUME MeasureIInv, Chunk
  PROVE  MeasureIInv'
<1>1. PICK n \in ChunkSizes : /\ passed' = Append(passed, n)
                              /\ inbox' = [inbox EXCEPT ![1] = Append(@, n)]
  BY DEF Chunk
<1>2. n \in Nat
  BY MeasureAssumption
<1>3. passed' \in Seq(Nat) /\ inbox' \in [Idx -> Seq(Nat)]
  BY <1>1, <1>2, MeasureTypes, StagesIdx
<1> QED BY <1>3 DEF Chunk, MeasureIInv, MeasureTypeOK, BucketsInv, ReadingInv

LEMMA TickKeeps ==
  ASSUME MeasureIInv, Tick
  PROVE  MeasureIInv'
<1>1. now' = now + 1 /\ now \in Nat /\ now' \in 0..MaxTime
  BY MeasureTypes, MeasureAssumption DEF Tick
<1>2. MeasureTypeOK'
  BY <1>1 DEF Tick, MeasureIInv, MeasureTypeOK
<1>3. BucketsInv'
  <2>1. ASSUME NEW i \in Idx PROVE BucketsOf(buckets[i], arrivals[i], now + 1)
    <3> DEFINE b == buckets[i]
               a == arrivals[i]
    <3>1. BucketsOf(b, a, now) /\ DOMAIN a = 0..MaxTime
      BY MeasureTypes DEF MeasureIInv, BucketsInv
    <3> HIDE DEF a, b
    <3>2. WindowFrom(now + 1) \subseteq WindowFrom(now) \cup {now + 1}
      BY <1>1 DEF WindowFrom, AverageDuration
    <3>3. now + 1 \in DOMAIN a /\ now + 1 > now
      BY <1>1, <3>1
    <3> QED BY <1>1, <3>1, <3>2, <3>3 DEF BucketsOf, a, b
  <2> QED BY <1>1, <2>1 DEF Tick, MeasureIInv, BucketsInv
<1>4. ReadingInv'
  <2>1. \A i \in Idx : reading[i].at <= now /\ reading[i].at \in Int
    BY MeasureTypes DEF MeasureIInv, ReadingInv
  <2> QED BY <1>1, <2>1 DEF Tick, ReadingInv
<1> QED BY <1>2, <1>3, <1>4 DEF MeasureIInv

LEMMA GetSpeedKeeps ==
  ASSUME MeasureIInv, NEW i \in Idx, GetSpeed(i)
  PROVE  MeasureIInv'
<1> DEFINE p == Prune(buckets[i])
<1>1. /\ BucketsOf(p, arrivals[i], now) /\ DOMAIN p \subseteq WindowFrom(now)
      /\ now \in Nat /\ \A t \in 0..now : arrivals[i][t] \in Nat
  BY Pruned
<1>2. /\ buckets' = [buckets EXCEPT ![i] = p]
      /\ reading' = [reading EXCEPT ![i] = [speed |-> Speed(p), at |-> now]]
      /\ UNCHANGED <<now, passed, inbox, held, measurement, arrivals>>
  BY DEF GetSpeed
<1> HIDE DEF p
<1>3. Speed(p) = SumOver(arrivals[i], WindowFrom(now)) /\ Speed(p) \in Nat
  BY <1>1, WindowSum
<1>4. MeasureTypeOK'
  BY <1>2, <1>3, MeasureTypes DEF MeasureTypeOK
<1>5. BucketsInv'
  BY <1>1, <1>2 DEF MeasureIInv, BucketsInv
<1>6. ReadingInv'
  BY <1>1, <1>2, <1>3, MeasureTypes DEF MeasureIInv, ReadingInv
<1> QED BY <1>4, <1>5, <1>6 DEF MeasureIInv

LEMMA BandwidthKeeps ==
  ASSUME MeasureIInv, NEW i \in Idx, Bandwidth(i)
  PROVE  MeasureIInv'
<1>1. Head(inbox[i]) \in Nat /\ Taken(i) \in [Idx -> Seq(Nat)]
  BY MeasureTypes DEF Bandwidth, Taken
<1>2. inbox' \in [Idx -> Seq(Nat)]
  BY <1>1, PipedType DEF Bandwidth
<1>3. measurement' \in [Idx -> Nat]
  BY <1>1, MeasureTypes DEF Bandwidth
<1> QED BY <1>2, <1>3 DEF Bandwidth, MeasureIInv, MeasureTypeOK, BucketsInv, ReadingInv

LEMMA DelayKeeps ==
  ASSUME MeasureIInv, NEW i \in Idx, Delay(i)
  PROVE  MeasureIInv'
<1>1. inbox' \in [Idx -> Seq(Nat)] /\ held' \in [Idx -> Seq(Nat)]
  BY MeasureTypes DEF Delay, Taken
<1> QED BY <1>1 DEF Delay, MeasureIInv, MeasureTypeOK, BucketsInv, ReadingInv

LEMMA ReleaseKeeps ==
  ASSUME MeasureIInv, NEW i \in Idx, Release(i)
  PROVE  MeasureIInv'
<1>1. held[i] \in Seq(Nat) /\ held[i][1] \in Nat
  BY MeasureTypes DEF Release
<1>2. inbox' \in [Idx -> Seq(Nat)]
  BY <1>1, MeasureTypes, PipedType DEF Release
<1>3. held' \in [Idx -> Seq(Nat)]
  BY MeasureTypes DEF Release
<1> QED BY <1>2, <1>3 DEF Release, MeasureIInv, MeasureTypeOK, BucketsInv, ReadingInv

LEMMA SampleKeeps ==
  ASSUME MeasureIInv, NEW i \in Idx, Sample(i)
  PROVE  MeasureIInv'
<1> DEFINE n == Head(inbox[i])
           p == Prune(buckets[i])
           b == Counted(p, n)
           a == [arrivals[i] EXCEPT ![now] = @ + n]
<1>1. n \in Nat /\ Taken(i) \in [Idx -> Seq(Nat)]
  BY MeasureTypes DEF Sample, Taken
<1>2. /\ BucketsOf(p, arrivals[i], now) /\ DOMAIN p \subseteq WindowFrom(now)
      /\ now \in Nat /\ \A t \in 0..now : arrivals[i][t] \in Nat
  BY Pruned
<1>3. /\ buckets' = [buckets EXCEPT ![i] = b]
      /\ reading' = [reading EXCEPT ![i] = [speed |-> Speed(buckets'[i]), at |-> now]]
      /\ arrivals' = [arrivals EXCEPT ![i] = a]
      /\ inbox' = Piped(Taken(i), i, n)
      /\ UNCHANGED <<now, passed, held, measurement>>
  BY DEF Sample
<1>4. /\ arrivals[i] \in [0..MaxTime -> Nat] /\ now \in 0..MaxTime
      /\ a \in [0..MaxTime -> Nat] /\ a[now] = arrivals[i][now] + n
      /\ \A t \in 0..MaxTime : t # now => a[t] = arrivals[i][t]
  <2> DEFINE old == arrivals[i]
  <2>1. old \in [0..MaxTime -> Nat] /\ now \in 0..MaxTime
    BY MeasureTypes
  <2> HIDE DEF n, old
  <2>2. LET new == [old EXCEPT ![now] = @ + n]
        IN  /\ new \in [0..MaxTime -> Nat] /\ new[now] = old[now] + n
            /\ \A t \in 0..MaxTime : t # now => new[t] = old[t]
    BY <1>1, <2>1
  <2> QED BY <2>1, <2>2 DEF n, old
<1>5. /\ DOMAIN b = DOMAIN p \cup {now}
      /\ \A t \in DOMAIN b : b[t] = (IF t \in DOMAIN p THEN p[t] ELSE 0) + (IF t = now THEN n ELSE 0)
  BY DEF Counted
<1>6. inbox' \in [Idx -> Seq(Nat)]
  BY <1>1, <1>3, PipedType
<1> HIDE DEF a, b, p, n
<1>7. BucketsOf(b, a, now) /\ DOMAIN b \subseteq WindowFrom(now)
      /\ \A t \in 0..now : a[t] \in Nat
  <2>1. now \in WindowFrom(now) /\ WindowFrom(now) \subseteq 0..now
    BY <1>2 DEF WindowFrom, AverageDuration
  <2>2. DOMAIN b \subseteq WindowFrom(now) /\ DOMAIN b \subseteq 0..now
    BY <1>2, <1>5, <2>1
  <2>3. 0..now \subseteq 0..MaxTime
    BY <1>2, <1>4, MeasureAssumption
  <2>4. ASSUME NEW t \in DOMAIN b PROVE b[t] = a[t]
    <3>1. t \in 0..MaxTime
      BY <2>2, <2>3
    <3>2. t \in WindowFrom(now) /\ arrivals[i][t] \in Nat
      BY <1>2, <2>1, <2>2
    <3>3. (IF t \in DOMAIN p THEN p[t] ELSE 0) = arrivals[i][t]
      BY <1>2, <3>2 DEF BucketsOf
    <3> QED BY <1>1, <1>4, <1>5, <3>1, <3>2, <3>3
  <2>5. ASSUME NEW t \in WindowFrom(now), t \notin DOMAIN b PROVE a[t] = 0
    BY <1>2, <1>4, <1>5, <2>1, <2>3, <2>5 DEF BucketsOf
  <2>6. ASSUME NEW t \in DOMAIN a, t > now PROVE a[t] = 0
    <3>1. t \in 0..MaxTime /\ t # now /\ t \in DOMAIN arrivals[i]
      BY <1>2, <1>4, <2>6, MeasureAssumption
    <3> QED BY <1>2, <1>4, <2>6, <3>1 DEF BucketsOf
  <2>7. \A t \in 0..now : a[t] \in Nat
    BY <1>4, <2>3
  <2> QED BY <2>2, <2>4, <2>5, <2>6, <2>7 DEF BucketsOf
<1>8. Speed(b) = SumOver(a, WindowFrom(now)) /\ Speed(b) \in Nat
  BY <1>2, <1>7, WindowSum
<1>9. buckets'[i] = b /\ arrivals'[i] = a
  BY <1>3, MeasureTypes DEF MeasureIInv, BucketsInv
<1>10. MeasureTypeOK'
  BY <1>3, <1>4, <1>6, <1>8, <1>9, MeasureTypes DEF MeasureTypeOK
<1>11. BucketsInv'
  BY <1>3, <1>7, MeasureTypes DEF MeasureIInv, BucketsInv
<1>12. ReadingInv'
  BY <1>2, <1>3, <1>8, <1>9, MeasureTypes DEF MeasureIInv, ReadingInv
<1> QED BY <1>10, <1>11, <1>12 DEF MeasureIInv

(* measure/speed/index.js:22-66.  Pruning never takes a bucket the window  *)
(* still needs, and a new second never finds an old bucket in its place.   *)
THEOREM MeasureInvariance == MeasureSpec => []MeasureIInv
<1> USE MeasureAssumption
<1>1. MeasureInit => MeasureIInv
  <2> SUFFICES ASSUME MeasureInit PROVE MeasureIInv
    OBVIOUS
  <2>1. MeasureTypeOK
    BY DEF MeasureInit, MeasureTypeOK
  <2>2. BucketsInv
    BY DEF MeasureInit, BucketsInv, BucketsOf, Empty, WindowFrom
  <2>3. ReadingInv
    <3> SUFFICES ASSUME NEW i \in Idx
                 PROVE  /\ reading[i].at <= now
                        /\ reading[i].at = now =>
                             reading[i].speed = SumOver(arrivals[i], WindowFrom(now))
      BY DEF ReadingInv
    <3> DEFINE b == [t \in {} |-> 0]
               a == arrivals[i]
    <3>1. now = 0 /\ now \in Nat /\ reading[i].at = 0 /\ reading[i].speed = 0
          /\ a = [t \in 0..MaxTime |-> 0]
      BY DEF MeasureInit
    <3>2. BucketsOf(b, a, now) /\ DOMAIN b \subseteq WindowFrom(now)
      BY <3>1 DEF BucketsOf, WindowFrom
    <3>3. \A t \in 0..now : a[t] \in Nat
      BY <3>1
    <3>4. DOMAIN b = {}
      OBVIOUS
    <3>5. Speed(b) = 0
      BY <3>4, FoldIsTotalOf, SumEmpty DEF Speed, TotalOf
    <3> HIDE DEF b, a
    <3>6. Speed(b) = SumOver(a, WindowFrom(now))
      BY <3>1, <3>2, <3>3, WindowSum
    <3> QED BY <3>1, <3>5, <3>6 DEF a
  <2> QED BY <2>1, <2>2, <2>3 DEF MeasureIInv
<1>2. MeasureIInv /\ [MeasureNext]_measureVars => MeasureIInv'
  <2> SUFFICES ASSUME MeasureIInv, [MeasureNext]_measureVars PROVE MeasureIInv'
    OBVIOUS
  <2>1. CASE Chunk
    BY <2>1, ChunkKeeps
  <2>2. CASE Tick
    BY <2>2, TickKeeps
  <2>3. ASSUME NEW i \in Idx, GetSpeed(i) PROVE MeasureIInv'
    BY <2>3, GetSpeedKeeps
  <2>4. ASSUME NEW i \in Idx, Bandwidth(i) PROVE MeasureIInv'
    BY <2>4, BandwidthKeeps
  <2>5. ASSUME NEW i \in Idx, Sample(i) PROVE MeasureIInv'
    BY <2>5, SampleKeeps
  <2>6. ASSUME NEW i \in Idx, Delay(i) PROVE MeasureIInv'
    BY <2>6, DelayKeeps
  <2>7. ASSUME NEW i \in Idx, Release(i) PROVE MeasureIInv'
    BY <2>7, ReleaseKeeps
  <2>8. CASE UNCHANGED measureVars
    BY <2>8 DEF measureVars, MeasureIInv, MeasureTypeOK, BucketsInv, ReadingInv
  <2> QED BY <2>1, <2>2, <2>3, <2>4, <2>5, <2>6, <2>7, <2>8 DEF MeasureNext
<1> QED BY <1>1, <1>2, PTL DEF MeasureSpec

(* measure/speed/index.js:56-66.  getSpeed() is what arrived in the last   *)
(* seconds of its window, whether chunks or readings pruned the buckets.   *)
THEOREM MeasureWindowExact == MeasureSpec => []WindowExact
<1>1. MeasureIInv => WindowExact
  <2> SUFFICES ASSUME MeasureIInv, NEW i \in Idx, reading[i].at = now
               PROVE  reading[i].speed =
                        FoldFunctionOnSet(+, 0, arrivals[i], WindowFrom(now))
    BY Zenon DEF WindowExact, WindowFrom
  <2>1. reading[i].speed = SumOver(arrivals[i], WindowFrom(now))
    BY DEF MeasureIInv, ReadingInv
  <2> QED BY <2>1, Zenon DEF SumOver
<1> QED BY <1>1, MeasureInvariance, PTL

-----------------------------------------------------------------------------
(* The accounts of the meters.                                             *)

InTransit == [j \in Idx |-> TotalOf(inbox[j]) + TotalOf(held[j])]

(* Only a throttle holds a chunk, and one at a time.                       *)
HeldInv ==
  \A i \in Idx : held[i] # <<>> => Stages[i] = "slowdown" /\ held[i] = <<held[i][1]>>

LEMMA SizeIsTotal == \A s : Size(s) = TotalOf(s)
BY FoldIsTotalOf DEF Size

LEMMA UpstreamIsSum == \A i \in Idx : Upstream(i) = SumOver(InTransit, 1..i)
<1> TAKE i \in Idx
<1>1. [j \in Idx |-> Size(inbox[j]) + Size(held[j])] = InTransit
  BY SizeIsTotal DEF InTransit
<1>2. Upstream(i) = SumOver([j \in Idx |-> Size(inbox[j]) + Size(held[j])], 1..i)
  BY Zenon DEF Upstream, SumOver
<1> QED BY <1>1, <1>2

(* One chunk leaves a stage for the next one, if there is one.             *)
MovedBy(u, v, j, n) ==
  /\ v[j] + n = u[j]
  /\ j + 1 \in Idx => v[j + 1] = u[j + 1] + n
  /\ \A k \in Idx \ {j, j + 1} : v[k] = u[k]

LEMMA UpstreamMoved ==
  ASSUME NEW u \in [Idx -> Nat], NEW v \in [Idx -> Nat], NEW i \in Idx, NEW j \in Idx,
         NEW n \in Nat, MovedBy(u, v, j, n)
  PROVE  SumOver(v, 1..i) + (IF i = j THEN n ELSE 0) = SumOver(u, 1..i)
<1> DEFINE S == 1..i
<1>1. /\ IsFiniteSet(S) /\ S \subseteq Idx /\ i \in S /\ i \in Nat /\ j \in Nat
      /\ \A x \in S : u[x] \in Nat /\ v[x] \in Nat
  <2>1. i \in Nat /\ j \in Nat /\ i \in S /\ S \subseteq Idx
    BY StagesIdx
  <2>2. IsFiniteSet(S)
    BY <2>1, FS_Interval
  <2> HIDE DEF S
  <2> QED BY <2>1, <2>2
<1>2. j \in S <=> j <= i
  BY StagesIdx
<1>3. j + 1 \in S <=> j + 1 <= i
  BY StagesIdx
<1> HIDE DEF S
<1>4. SumOver(u, S) \in Nat /\ SumOver(v, S) \in Nat
  BY <1>1, SumNat
<1>5. CASE j > i
  <2>1. \A x \in S : u[x] \in Nat /\ v[x] = u[x]
    <3>1. j \notin S /\ j + 1 \notin S
      BY <1>1, <1>2, <1>3, <1>5
    <3> QED BY <1>1, <3>1 DEF MovedBy
  <2>2. SumOver(v, S) = SumOver(u, S)
    BY <1>1, <2>1, SumSame
  <2>3. i # j
    BY <1>1, <1>5
  <2> QED BY <1>4, <2>2, <2>3 DEF S
<1>6. CASE i = j
  <2>1. \A y \in S \ {j} : v[y] = u[y]
    BY <1>1, <1>3, <1>6 DEF MovedBy
  <2>2. SumOver(v, S) + u[j] = SumOver(u, S) + v[j]
    <3>1. OnlyAt(u, v, S, j) /\ j \in S
      BY <1>1, <1>6, <2>1 DEF OnlyAt
    <3> QED BY <1>1, <3>1, SumExcept
  <2>3. v[j] + n = u[j] /\ v[j] \in Nat /\ u[j] \in Nat
    BY DEF MovedBy
  <2>4. SumOver(v, S) + n = SumOver(u, S)
    BY <1>4, <2>2, <2>3
  <2> QED BY <1>6, <2>4 DEF S
<1>7. CASE j < i
  <2> DEFINE w == [u EXCEPT ![j] = v[j]]
  <2>1. j \in S /\ j + 1 \in S /\ j # j + 1
    BY <1>1, <1>2, <1>3, <1>7
  <2>2. /\ w \in [Idx -> Nat] /\ w[j] = v[j] /\ w[j + 1] = u[j + 1]
        /\ \A x \in Idx \ {j} : w[x] = u[x]
    BY <1>1, <2>1
  <2> HIDE DEF w
  <2>3. SumOver(w, S) + u[j] = SumOver(u, S) + w[j]
    <3>1. OnlyAt(u, w, S, j)
      BY <1>1, <2>1, <2>2 DEF OnlyAt
    <3> QED BY <1>1, <2>1, <3>1, SumExcept
  <2>4. SumOver(v, S) + w[j + 1] = SumOver(w, S) + v[j + 1]
    <3>1. OnlyAt(w, v, S, j + 1)
      BY <1>1, <2>1, <2>2 DEF MovedBy, OnlyAt
    <3> QED BY <1>1, <2>1, <3>1, SumExcept
  <2>5. v[j] + n = u[j] /\ v[j + 1] = u[j + 1] + n
    BY <1>1, <2>1 DEF MovedBy
  <2>6. u[j] \in Nat /\ u[j + 1] \in Nat /\ SumOver(w, S) \in Nat
    <3>1. \A y \in S : w[y] \in Nat
      BY <1>1, <2>2
    <3> QED BY <1>1, <2>1, <3>1, SumNat
  <2>7. SumOver(v, S) = SumOver(u, S)
    BY <1>4, <2>2, <2>3, <2>4, <2>5, <2>6
  <2>8. i # j
    BY <1>1, <1>7
  <2> QED BY <1>4, <2>7, <2>8 DEF S
<1> QED BY <1>1, <1>5, <1>6, <1>7

LEMMA InTransitNat == MeasureIInv => InTransit \in [Idx -> Nat]
BY MeasureTypes, TotalNat DEF InTransit

(* A chunk that a stage passes on.                                         *)
LEMMA PassedOn ==
  ASSUME MeasureIInv, MeasureIInv', NEW j \in Idx, NEW n \in Nat,
         NEW boxes \in [Idx -> Seq(Nat)],
         TotalOf(boxes[j]) + TotalOf(held'[j]) + n = TotalOf(inbox[j]) + TotalOf(held[j]),
         \A k \in Idx \ {j} : boxes[k] = inbox[k] /\ held'[k] = held[k],
         inbox' = Piped(boxes, j, n)
  PROVE  MovedBy(InTransit, InTransit', j, n)
<1> DEFINE t == TotalOf(boxes[j])
<1>1. /\ inbox \in [Idx -> Seq(Nat)] /\ held \in [Idx -> Seq(Nat)]
      /\ inbox' \in [Idx -> Seq(Nat)] /\ held' \in [Idx -> Seq(Nat)]
  BY MeasureTypes, MeasureAssumption DEF MeasureIInv, MeasureTypeOK
<1>2. inbox'[j] = boxes[j] /\ \A k \in Idx \ {j, j + 1} : inbox'[k] = inbox[k]
  BY StagesIdx DEF Piped
<1>3. ASSUME j + 1 \in Idx PROVE TotalOf(inbox'[j + 1]) = TotalOf(inbox[j + 1]) + n
  <2>1. inbox'[j + 1] = Append(inbox[j + 1], n) /\ inbox[j + 1] \in Seq(Nat)
    BY <1>1, <1>3, StagesIdx DEF Piped
  <2> QED BY <2>1, TotalAppend
<1>4. ASSUME j + 1 \in Idx
      PROVE  InTransit'[j + 1] = InTransit[j + 1] + n
  <2>1. held'[j + 1] = held[j + 1]
    BY <1>4, StagesIdx
  <2>2. TotalOf(inbox[j + 1]) \in Nat /\ TotalOf(held[j + 1]) \in Nat
    BY <1>1, <1>4, TotalNat
  <2> QED BY <1>3, <1>4, <2>1, <2>2 DEF InTransit
<1>5. InTransit'[j] + n = InTransit[j]
  BY <1>2 DEF InTransit
<1>6. \A k \in Idx \ {j, j + 1} : InTransit'[k] = InTransit[k]
  BY <1>2 DEF InTransit
<1> QED BY <1>4, <1>5, <1>6 DEF MovedBy

MetersIInv == HeldInv /\ MetersExact

LEMMA ExactIs ==
  MetersExact <=>
    \A i \in Idx : Stages[i] = "bandwidth" =>
      measurement[i] + SumOver(InTransit, 1..i) = TotalOf(passed)
BY SizeIsTotal, UpstreamIsSum DEF MetersExact

(* What a stage passes on changes no account but that of the meter itself. *)
LEMMA PassedOnExact ==
  ASSUME MeasureIInv, MeasureIInv', MetersExact, NEW j \in Idx, NEW n \in Nat,
         MovedBy(InTransit, InTransit', j, n), passed' = passed,
         \A i \in Idx : Stages[i] = "bandwidth" =>
           measurement'[i] = measurement[i] + (IF i = j THEN n ELSE 0)
  PROVE  MetersExact'
<1>1. \A i \in Idx : Stages[i] = "bandwidth" =>
        measurement[i] + SumOver(InTransit, 1..i) = TotalOf(passed)
  BY ExactIs
<1>2. InTransit \in [Idx -> Nat] /\ InTransit' \in [Idx -> Nat]
  <2>1. (MeasureIInv => InTransit \in [Idx -> Nat])'
    BY InTransitNat, PTL
  <2> QED BY <2>1, InTransitNat
<1>3. ASSUME NEW i \in Idx, Stages[i] = "bandwidth"
      PROVE  measurement'[i] + SumOver(InTransit', 1..i) = TotalOf(passed')
  <2> DEFINE u == InTransit
             v == InTransit'
  <2>1. u \in [Idx -> Nat] /\ v \in [Idx -> Nat] /\ MovedBy(u, v, j, n)
    BY <1>2
  <2> HIDE DEF u, v
  <2>2. SumOver(v, 1..i) + (IF i = j THEN n ELSE 0) = SumOver(u, 1..i)
    BY <2>1, UpstreamMoved
  <2>3. SumOver(v, 1..i) \in Nat
    <3> DEFINE S == 1..i
    <3>1. IsFiniteSet(S) /\ S \subseteq Idx
      BY StagesIdx, FS_Interval
    <3>2. \A x \in S : v[x] \in Nat
      BY <2>1, <3>1
    <3> HIDE DEF S
    <3>3. SumOver(v, S) \in Nat
      BY <3>1, <3>2, SumNat
    <3> QED BY <3>3 DEF S
  <2>4. measurement[i] \in Nat
    BY MeasureTypes
  <2>5. measurement[i] + SumOver(u, 1..i) = TotalOf(passed)
    BY <1>1, <1>3 DEF u
  <2>6. measurement'[i] = measurement[i] + (IF i = j THEN n ELSE 0)
    BY <1>3
  <2>7. measurement'[i] + SumOver(v, 1..i) = TotalOf(passed)
    BY <2>2, <2>3, <2>4, <2>5, <2>6
  <2> QED BY <2>7 DEF v
<1>4. (MetersExact <=>
        \A i \in Idx : Stages[i] = "bandwidth" =>
          measurement[i] + SumOver(InTransit, 1..i) = TotalOf(passed))'
  BY ExactIs, PTL
<1> QED BY <1>3, <1>4

LEMMA ExactIfSame ==
  ASSUME MetersExact, UNCHANGED <<measurement, passed, InTransit>>
  PROVE  MetersExact'
<1>1. (MetersExact <=>
        \A i \in Idx : Stages[i] = "bandwidth" =>
          measurement[i] + SumOver(InTransit, 1..i) = TotalOf(passed))'
  BY ExactIs, PTL
<1> QED BY <1>1, ExactIs

LEMMA ChunkExact ==
  ASSUME MeasureIInv, MeasureIInv', MetersExact, Chunk
  PROVE  MetersExact'
<1>1. PICK n \in ChunkSizes : /\ passed' = Append(passed, n)
                              /\ inbox' = [inbox EXCEPT ![1] = Append(@, n)]
  BY DEF Chunk
<1>2. n \in Nat /\ held' = held /\ measurement' = measurement
  BY MeasureAssumption DEF Chunk
<1>3. InTransit \in [Idx -> Nat] /\ InTransit' \in [Idx -> Nat]
  <2>1. (MeasureIInv => InTransit \in [Idx -> Nat])'
    BY InTransitNat, PTL
  <2> QED BY <2>1, InTransitNat
<1>4. InTransit'[1] = InTransit[1] + n
  <2>1. inbox'[1] = Append(inbox[1], n) /\ inbox[1] \in Seq(Nat)
    BY <1>1, MeasureTypes, StagesIdx
  <2>2. TotalOf(inbox'[1]) = TotalOf(inbox[1]) + n /\ TotalOf(inbox[1]) \in Nat
    BY <1>2, <2>1, TotalAppend, TotalNat
  <2>3. TotalOf(held[1]) \in Nat
    BY MeasureTypes, StagesIdx, TotalNat
  <2> QED BY <1>2, <2>2, <2>3, StagesIdx DEF InTransit
<1>5. \A k \in Idx \ {1} : InTransit'[k] = InTransit[k]
  BY <1>1, <1>2, MeasureTypes DEF InTransit
<1>6. TotalOf(passed') = TotalOf(passed) + n
  BY <1>1, <1>2, MeasureTypes, TotalAppend
<1>7. ASSUME NEW i \in Idx, Stages[i] = "bandwidth"
      PROVE  measurement'[i] + SumOver(InTransit', 1..i) = TotalOf(passed')
  <2> DEFINE S == 1..i
             u == InTransit
             v == InTransit'
  <2>1. IsFiniteSet(S) /\ S \subseteq Idx /\ 1 \in S
    BY StagesIdx, FS_Interval
  <2>2. OnlyAt(u, v, S, 1)
    BY <1>3, <1>5, <2>1 DEF OnlyAt
  <2>3. v[1] = u[1] + n /\ u[1] \in Nat /\ \A x \in S : u[x] \in Nat /\ v[x] \in Nat
    BY <1>3, <1>4, <2>1
  <2>4. measurement[i] + SumOver(u, S) = TotalOf(passed) /\ measurement[i] \in Nat
    BY <1>7, ExactIs, MeasureTypes
  <2> HIDE DEF S, u, v
  <2>5. SumOver(v, S) + u[1] = SumOver(u, S) + v[1]
    BY <2>1, <2>2, SumExcept
  <2>6. SumOver(v, S) \in Nat /\ SumOver(u, S) \in Nat
    BY <2>1, <2>3, SumNat
  <2>7. measurement'[i] + SumOver(v, S) = TotalOf(passed')
    BY <1>2, <1>6, <2>3, <2>4, <2>5, <2>6
  <2> QED BY <2>7 DEF S, v
<1>8. (MetersExact <=>
        \A i \in Idx : Stages[i] = "bandwidth" =>
          measurement[i] + SumOver(InTransit, 1..i) = TotalOf(passed))'
  BY ExactIs, PTL
<1> QED BY <1>7, <1>8

(* A chunk taken from a stage's queue.                                     *)
LEMMA TakenTotal ==
  ASSUME MeasureIInv, NEW i \in Idx, inbox[i] # <<>>
  PROVE  /\ Head(inbox[i]) \in Nat /\ Taken(i) \in [Idx -> Seq(Nat)]
         /\ \A k \in Idx \ {i} : Taken(i)[k] = inbox[k]
         /\ TotalOf(Taken(i)[i]) \in Nat
         /\ TotalOf(inbox[i]) = Head(inbox[i]) + TotalOf(Taken(i)[i])
<1>1. inbox \in [Idx -> Seq(Nat)] /\ inbox[i] \in Seq(Nat)
  BY MeasureTypes
<1>2. /\ Head(inbox[i]) \in Nat /\ Tail(inbox[i]) \in Seq(Nat)
      /\ TotalOf(inbox[i]) = Head(inbox[i]) + TotalOf(Tail(inbox[i]))
  BY <1>1, TotalTail
<1>3. /\ Taken(i) \in [Idx -> Seq(Nat)] /\ Taken(i)[i] = Tail(inbox[i])
      /\ \A k \in Idx \ {i} : Taken(i)[k] = inbox[k]
  BY <1>1, <1>2 DEF Taken
<1> QED BY <1>2, <1>3, TotalNat

LEMMA MetersStep ==
  ASSUME MeasureIInv, MeasureIInv', MetersIInv, MeasureNext
  PROVE  MetersIInv'
<1>1. CASE Chunk
  BY <1>1, ChunkExact DEF Chunk, MetersIInv, HeldInv
<1>2. CASE Tick
  <2>1. UNCHANGED <<measurement, passed, InTransit>>
    BY <1>2 DEF Tick, InTransit
  <2> QED BY <1>2, <2>1, ExactIfSame DEF Tick, MetersIInv, HeldInv
<1>3. ASSUME NEW i \in Idx, GetSpeed(i) PROVE MetersIInv'
  <2>1. UNCHANGED <<measurement, passed, InTransit>>
    BY <1>3 DEF GetSpeed, InTransit
  <2> QED BY <1>3, <2>1, ExactIfSame DEF GetSpeed, MetersIInv, HeldInv
<1>4. ASSUME NEW i \in Idx, Bandwidth(i) PROVE MetersIInv'
  <2> DEFINE n == Head(inbox[i])
             boxes == Taken(i)
  <2>1. /\ n \in Nat /\ boxes \in [Idx -> Seq(Nat)] /\ TotalOf(boxes[i]) \in Nat
        /\ \A k \in Idx \ {i} : boxes[k] = inbox[k]
        /\ TotalOf(inbox[i]) = n + TotalOf(boxes[i])
    BY <1>4, TakenTotal DEF Bandwidth
  <2>2. /\ inbox' = Piped(boxes, i, n) /\ held' = held /\ passed' = passed
        /\ measurement' = [measurement EXCEPT ![i] = @ + n]
    BY <1>4 DEF Bandwidth
  <2> HIDE DEF n, boxes
  <2>3. TotalOf(held[i]) \in Nat
    BY MeasureTypes, TotalNat
  <2>4. TotalOf(boxes[i]) + TotalOf(held'[i]) + n = TotalOf(inbox[i]) + TotalOf(held[i])
    BY <2>1, <2>2, <2>3
  <2>5. MovedBy(InTransit, InTransit', i, n)
    BY <2>1, <2>2, <2>4, PassedOn
  <2>6. \A k \in Idx : measurement'[k] = measurement[k] + (IF k = i THEN n ELSE 0)
    <3> TAKE k \in Idx
    <3>1. measurement \in [Idx -> Nat] /\ measurement[k] \in Nat
      BY MeasureTypes
    <3>2. measurement'[k] = IF k = i THEN measurement[k] + n ELSE measurement[k]
      BY <2>2, <3>1
    <3> QED BY <2>1, <3>1, <3>2
  <2>7. MetersExact'
    BY <2>1, <2>2, <2>5, <2>6, PassedOnExact DEF MetersIInv
  <2> QED BY <2>2, <2>7 DEF MetersIInv, HeldInv
<1>5. ASSUME NEW i \in Idx, Sample(i) PROVE MetersIInv'
  <2> DEFINE n == Head(inbox[i])
             boxes == Taken(i)
  <2>1. /\ n \in Nat /\ boxes \in [Idx -> Seq(Nat)] /\ TotalOf(boxes[i]) \in Nat
        /\ \A k \in Idx \ {i} : boxes[k] = inbox[k]
        /\ TotalOf(inbox[i]) = n + TotalOf(boxes[i])
    BY <1>5, TakenTotal DEF Sample
  <2>2. /\ inbox' = Piped(boxes, i, n) /\ held' = held /\ passed' = passed
        /\ measurement' = measurement /\ Stages[i] = "speed"
    BY <1>5 DEF Sample
  <2> HIDE DEF n, boxes
  <2>3. TotalOf(held[i]) \in Nat
    BY MeasureTypes, TotalNat
  <2>4. TotalOf(boxes[i]) + TotalOf(held'[i]) + n = TotalOf(inbox[i]) + TotalOf(held[i])
    BY <2>1, <2>2, <2>3
  <2>5. MovedBy(InTransit, InTransit', i, n)
    BY <2>1, <2>2, <2>4, PassedOn
  <2>6. \A k \in Idx : Stages[k] = "bandwidth" =>
          measurement'[k] = measurement[k] + (IF k = i THEN n ELSE 0)
    <3>1. \A k \in Idx : Stages[k] = "bandwidth" => k # i
      BY <2>2
    <3>2. \A k \in Idx : measurement'[k] = measurement[k] /\ measurement[k] \in Nat
      BY <2>2, MeasureTypes
    <3> QED BY <3>1, <3>2
  <2>7. MetersExact'
    BY <2>1, <2>2, <2>5, <2>6, PassedOnExact DEF MetersIInv
  <2> QED BY <2>2, <2>7 DEF MetersIInv, HeldInv
<1>6. ASSUME NEW i \in Idx, Delay(i) PROVE MetersIInv'
  <2> DEFINE n == Head(inbox[i])
             boxes == Taken(i)
  <2>1. /\ n \in Nat /\ boxes \in [Idx -> Seq(Nat)] /\ TotalOf(boxes[i]) \in Nat
        /\ \A k \in Idx \ {i} : boxes[k] = inbox[k]
        /\ TotalOf(inbox[i]) = n + TotalOf(boxes[i])
    BY <1>6, TakenTotal DEF Delay
  <2>2. /\ inbox' = boxes /\ passed' = passed /\ measurement' = measurement
        /\ held' = [held EXCEPT ![i] = <<n>>] /\ held[i] = <<>> /\ Stages[i] = "slowdown"
    BY <1>6 DEF Delay
  <2> HIDE DEF n, boxes
  <2>3. held'[i] = <<n>> /\ \A k \in Idx \ {i} : held'[k] = held[k]
    BY <2>2, MeasureTypes
  <2>4. TotalOf(inbox'[i]) + TotalOf(held'[i]) = TotalOf(inbox[i]) + TotalOf(held[i])
    <3>1. TotalOf(held'[i]) = n /\ TotalOf(held[i]) = 0
      BY <2>1, <2>2, <2>3, TotalOne, TotalEmpty
    <3> QED BY <2>1, <2>2, <3>1
  <2>5. InTransit' = InTransit
    BY <2>1, <2>2, <2>3, <2>4 DEF InTransit
  <2>6. MetersExact'
    BY <2>2, <2>5, ExactIfSame DEF MetersIInv
  <2>7. HeldInv'
    BY <2>2, <2>3 DEF MetersIInv, HeldInv
  <2> QED BY <2>6, <2>7 DEF MetersIInv
<1>7. ASSUME NEW i \in Idx, Release(i) PROVE MetersIInv'
  <2> DEFINE n == held[i][1]
  <2>1. /\ held[i] = <<n>> /\ Stages[i] = "slowdown" /\ n \in Nat
        /\ inbox \in [Idx -> Seq(Nat)] /\ held \in [Idx -> Seq(Nat)]
    BY <1>7, MeasureTypes DEF Release, MetersIInv, HeldInv
  <2>2. /\ inbox' = Piped(inbox, i, n) /\ passed' = passed /\ measurement' = measurement
        /\ held' = [held EXCEPT ![i] = <<>>]
    BY <1>7 DEF Release
  <2> HIDE DEF n
  <2>3. held'[i] = <<>> /\ \A k \in Idx \ {i} : held'[k] = held[k]
    BY <2>1, <2>2
  <2>4. TotalOf(inbox[i]) + TotalOf(held'[i]) + n = TotalOf(inbox[i]) + TotalOf(held[i])
    <3>1. TotalOf(held[i]) = n /\ TotalOf(held'[i]) = 0 /\ TotalOf(inbox[i]) \in Nat
      BY <2>1, <2>3, TotalOne, TotalEmpty, TotalNat
    <3> QED BY <2>1, <3>1
  <2>5. MovedBy(InTransit, InTransit', i, n)
    BY <2>1, <2>2, <2>3, <2>4, PassedOn
  <2>6. \A k \in Idx : Stages[k] = "bandwidth" =>
          measurement'[k] = measurement[k] + (IF k = i THEN n ELSE 0)
    <3>1. \A k \in Idx : Stages[k] = "bandwidth" => k # i
      BY <2>1
    <3>2. \A k \in Idx : measurement'[k] = measurement[k] /\ measurement[k] \in Nat
      BY <2>2, MeasureTypes
    <3> QED BY <3>1, <3>2
  <2>7. MetersExact'
    BY <2>1, <2>2, <2>5, <2>6, PassedOnExact DEF MetersIInv
  <2>8. HeldInv'
    BY <2>3 DEF MetersIInv, HeldInv
  <2> QED BY <2>7, <2>8 DEF MetersIInv
<1> QED BY <1>1, <1>2, <1>3, <1>4, <1>5, <1>6, <1>7 DEF MeasureNext

(* measure/chain/index.js:27-39, bandwidth/index.js:16-28.  What a meter of*)
(* a chain has counted and what the buffers and throttles before it hold   *)
(* is all that the chain has handed on, in every order of its steps.       *)
THEOREM MeasureMetersExact == MeasureSpec => []MetersExact
<1>1. MeasureInit => MetersIInv
  <2> SUFFICES ASSUME MeasureInit PROVE MetersIInv
    OBVIOUS
  <2>1. HeldInv
    BY DEF MeasureInit, HeldInv
  <2>2. ASSUME NEW i \in Idx PROVE measurement[i] + SumOver(InTransit, 1..i) = TotalOf(passed)
    <3> DEFINE S == 1..i
    <3>1. IsFiniteSet(S) /\ S \subseteq Idx
      BY StagesIdx, FS_Interval
    <3>2. \A x \in S : InTransit[x] = 0
      BY <3>1, TotalEmpty DEF MeasureInit, InTransit
    <3> HIDE DEF S
    <3>3. SumOver(InTransit, S) = SumOver(InTransit, {})
      BY <3>1, <3>2, SumSupport
    <3>4. SumOver(InTransit, S) = 0
      BY <3>3, SumEmpty
    <3> QED BY <3>4, TotalEmpty DEF MeasureInit, S
  <2> QED BY <2>1, <2>2, ExactIs DEF MetersIInv
<1>2. MeasureIInv /\ MeasureIInv' /\ MetersIInv /\ [MeasureNext]_measureVars => MetersIInv'
  <2>1. CASE MeasureNext
    BY <2>1, MetersStep
  <2>2. ASSUME MetersIInv, UNCHANGED measureVars PROVE MetersIInv'
    <3>1. UNCHANGED <<measurement, passed, InTransit>>
      BY <2>2 DEF measureVars, InTransit
    <3> QED BY <2>2, <3>1, ExactIfSame DEF measureVars, MetersIInv, HeldInv
  <2> QED BY <2>1, <2>2
<1>3. MetersIInv => MetersExact
  BY DEF MetersIInv
<1> QED BY <1>1, <1>2, <1>3, MeasureInvariance, PTL DEF MeasureSpec
=============================================================================
