------------------------------- MODULE Balancer -----------------------------
(***************************************************************************)
(* src/utils/balancer/index.js: a pool of weighted candidates.  The code   *)
(* divides every weight by the smallest one; here everything is multiplied *)
(* by it, so that the pointers are whole numbers.                          *)
(***************************************************************************)
EXTENDS Naturals, Sequences, FiniteSets, SequencesExt

CONSTANTS
  Candidates,
  Weights,        \* the weights pushed; 0 stands for none
  MaxPool         \* bound: candidates in the pool

ASSUME BalancerAssumption == Weights \subseteq Nat /\ MaxPool \in Nat

VARIABLES
  candidates, weights,
  weightMap, max,  \* what calculateWeights() made of them
  added            \* per candidate: the weights it was added with, oldest first

balancerVars == <<candidates, weights, weightMap, max, added>>

BalancerInit ==
  /\ candidates = <<>>
  /\ weights = <<>>
  /\ weightMap = <<>>
  /\ max = 0
  /\ added = [c \in Candidates |-> <<>>]

SumOf(s) == FoldSeq(+, 0, s)

(* calculateWeights(): the running sums of the weights.                    *)
CalculateWeights ==
  /\ weightMap' = [i \in DOMAIN weights' |-> SumOf(SubSeq(weights', 1, i))]
  /\ max' = SumOf(weights')

Weight(w) == IF w = 0 THEN 1 ELSE w

Recorded(what, c, w) == [what EXCEPT ![c] = Append(@, Weight(w))]

Push(c, w) ==
  /\ Len(candidates) < MaxPool
  /\ candidates' = Append(candidates, c)
  /\ weights' = Append(weights, Weight(w))
  /\ CalculateWeights
  /\ added' = Recorded(added, c, w)

(* addMany(), bound: two items; it takes any number.  The sums are         *)
(* calculated once.                                                        *)
AddMany(c, w, d, v) ==
  /\ Len(candidates) + 2 <= MaxPool
  /\ candidates' = candidates \o <<c, d>>
  /\ weights' = weights \o <<Weight(w), Weight(v)>>
  /\ CalculateWeights
  /\ added' = Recorded(Recorded(added, c, w), d, v)

Index(c) ==
  CHOOSE i \in DOMAIN candidates :
    candidates[i] = c /\ \A j \in 1..(i - 1) : candidates[j] # c

DeleteUncounted(c) ==                                    \* seeded bug
  /\ c \in ToSet(candidates)
  /\ candidates' = RemoveAt(candidates, Index(c))
  /\ weights' = RemoveAt(weights, Index(c))
  /\ UNCHANGED <<weightMap, max>>
  /\ added' = [added EXCEPT ![c] = Tail(@)]

Delete(c) ==
  /\ c \in ToSet(candidates)
  /\ candidates' = RemoveAt(candidates, Index(c))
  /\ weights' = RemoveAt(weights, Index(c))
  /\ CalculateWeights
  /\ added' = [added EXCEPT ![c] = Tail(@)]

BalancerNext ==
  \/ \E c \in Candidates, w \in Weights : Push(c, w)
  \/ \E c, d \in Candidates, w, v \in Weights : AddMany(c, w, d, v)
  \/ \E c \in Candidates : Delete(c)

BalancerSpec == BalancerInit /\ [][BalancerNext]_balancerVars

-----------------------------------------------------------------------------
(* getRandomCandidate(): the keys whose running sum is beyond the pointer; *)
(* the first of them is the choice.                                        *)
Nets(netPointer) == {key \in DOMAIN candidates : netPointer < weightMap[key]}

Chosen(netPointer) ==
  {candidates[key] : key \in {k \in Nets(netPointer) : \A j \in Nets(netPointer) : k <= j}}

(* The share of a candidate: a random pointer falls on each of the max     *)
(* unit intervals with the same probability.                               *)
Share(c) == Cardinality({p \in 0..(max - 1) : c \in Chosen(p)})

(* Whatever was added and deleted before, each candidate is chosen in      *)
(* proportion to the weights it was added with and not yet deleted with,   *)
(* the others never, and every pointer finds a candidate.                  *)
Proportional ==
  /\ \A c \in Candidates : Share(c) = SumOf(added[c])
  /\ \A p \in 0..(max - 1) : Chosen(p) # {}
=============================================================================
