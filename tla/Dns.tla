--------------------------------- MODULE Dns --------------------------------
(***************************************************************************)
(* src/utils/dns/index.js: lookups through random servers, retried when a  *)
(* sinkhole answers.  The queue of queue-promised is external: at most     *)
(* Limit calls of the wrapped function at a time, the others wait in order.*)
(***************************************************************************)
EXTENDS Naturals, Sequences, FiniteSets

CONSTANTS
  Lookups,         \* calls of the resolver's methods
  Servers,         \* the server list
  Sinkholes,       \* servers that answer with addresses in bogusRanges or bogusIPs
  MaxBogusRetries,
  Limit            \* 100 in the code

ASSUME DnsAssumption ==
  /\ Servers # {} /\ Sinkholes \subseteq Servers
  /\ MaxBogusRetries \in Nat
  /\ Limit \in Nat \ {0}

VARIABLES
  lookup,          \* per call: method, option, retriesLeft, stage, and its answers
  waiting,         \* calls in the queue
  asking,          \* calls that wait for an answer, with the servers picked
  running          \* how many calls the queue counts as in progress

dnsVars == <<lookup, waiting, asking, running>>

(* The option is rrtype for resolve, and {ttl: true} for resolve4: with it *)
(* the results are objects and not strings.                                *)
Queries ==
  {<<"resolve4", "none">>, <<"resolve4", "ttl">>,
   <<"resolve", "none">>, <<"resolve", "A">>, <<"resolve", "TXT">>}

Unasked == [query |-> <<"none", "none">>, retriesLeft |-> 0, stage |-> "none",
            answers |-> <<>>]

DnsInit ==
  /\ lookup = [q \in Lookups |-> Unasked]
  /\ waiting = <<>>
  /\ asking = {}
  /\ running = 0

(* shouldFilterResolve()                                                   *)
ShouldFilter(query) ==
  \/ query[1] = "resolve4"
  \/ query[1] = "resolve" /\ query[2] \in {"none", "A"}

(* hasBogusIPs(): an object is not an address, ipaddr.parse() throws and   *)
(* the catch says that it is not bogus.                                    *)
HasBogusIPs(query, results) == results = "bogus" /\ query[2] # "ttl"

RetryBeforeLast(query, results, retriesLeft) ==          \* seeded bug
  /\ ShouldFilter(query)
  /\ retriesLeft > 1
  /\ HasBogusIPs(query, results)

RetryOnBogus(query, results, retriesLeft) ==
  /\ ShouldFilter(query)
  /\ retriesLeft > 0
  /\ HasBogusIPs(query, results)

HeldForRetry(retried) == running' = IF retried THEN running ELSE running - 1 \* seeded bug

(* The promise of the wrapped function settles before the retry, which is  *)
(* a new call at the end of the queue.                                     *)
Settled(retried) == running' = running - 1

Resolve(q) ==
  /\ lookup[q].stage = "none"
  /\ \E query \in Queries :
       lookup' = [lookup EXCEPT ![q].query = query, ![q].stage = "pending",
                                ![q].retriesLeft = MaxBogusRetries]
  /\ waiting' = Append(waiting, q)
  /\ UNCHANGED <<asking, running>>

(* pickRandomServers(): four, chosen with replacement.                     *)
Ask ==
  /\ waiting # <<>>
  /\ running < Limit
  /\ \E picked \in SUBSET Servers :
       /\ Cardinality(picked) \in 1..4
       /\ asking' = asking \cup {<<Head(waiting), picked>>}
  /\ running' = running + 1
  /\ waiting' = Tail(waiting)
  /\ UNCHANGED lookup

(* One of the picked servers answers.                                      *)
Answer(q) ==
  \E a \in asking : \E s \in a[2] :
    LET results == IF s \in Sinkholes THEN "bogus" ELSE "real"
        retried == RetryOnBogus(lookup[q].query, results, lookup[q].retriesLeft)
    IN  /\ a[1] = q
        /\ asking' = asking \ {a}
        /\ Settled(retried)
        /\ IF retried
           THEN /\ lookup' = [lookup EXCEPT ![q].retriesLeft = @ - 1,
                                            ![q].answers = Append(@, results)]
                /\ waiting' = Append(waiting, q)
           ELSE /\ lookup' = [lookup EXCEPT ![q].stage = "resolved",
                                            ![q].answers = Append(@, results)]
                /\ UNCHANGED waiting

(* No server answers in time, or the answer is an error.                   *)
Reject(q) ==
  /\ \E a \in asking : a[1] = q /\ asking' = asking \ {a}
  /\ Settled(FALSE)
  /\ lookup' = [lookup EXCEPT ![q].stage = "rejected"]
  /\ UNCHANGED waiting

DnsNext == Ask \/ \E q \in Lookups : Resolve(q) \/ Answer(q) \/ Reject(q)

DnsSpec == DnsInit /\ [][DnsNext]_dnsVars

(* A query ends: its resolver has a timeout.                               *)
DnsFairness ==
  /\ WF_dnsVars(Ask)
  /\ \A q \in Lookups : WF_dnsVars(Answer(q) \/ Reject(q))

-----------------------------------------------------------------------------
(* Properties.                                                             *)

Answered(q) == lookup[q].stage = "resolved"

LastAnswer(q) == lookup[q].answers[Len(lookup[q].answers)]

(* A sinkhole's answer is returned only by a lookup whose every try, all   *)
(* the tries there are, met a sinkhole.                                    *)
LastResort(q) ==
  LastAnswer(q) = "bogus" =>
    lookup[q].answers = [i \in 1..(MaxBogusRetries + 1) |-> "bogus"]

(* The retries that README.md promises, for the calls whose results are    *)
(* strings, in whatever order the queue runs them and the others.          *)
BogusOnlyAsLastResort ==
  \A q \in Lookups :
    Answered(q) /\ ShouldFilter(lookup[q].query) /\ lookup[q].query[2] # "ttl"
      => LastResort(q)

(* README.md:452: an answer containing a sinkhole is retried.  The lookups *)
(* of dnsLookup() ask for the ttl too.                                     *)
BogusAlwaysRetried ==
  \A q \in Lookups : Answered(q) /\ ShouldFilter(lookup[q].query) => LastResort(q)

(* No lookup waits for ever behind the retries of the others.              *)
QueriesSettle ==
  \A q \in Lookups :
    lookup[q].stage = "pending" ~> lookup[q].stage \in {"resolved", "rejected"}
=============================================================================
