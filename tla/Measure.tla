------------------------------- MODULE Measure ------------------------------
(***************************************************************************)
(* The streams of src/measure: meters and a throttle, and chain(), which   *)
(* puts them behind one outer stream.  chain() hands every chunk on at     *)
(* once and writes it to the first inner stream too; the inner streams are *)
(* piped one to the next, and what leaves the last one is thrown away.     *)
(*                                                                         *)
(* A pipe between inner streams delays chunks and neither loses nor        *)
(* reorders them: the buffers on its way are one queue.                    *)
(***************************************************************************)
EXTENDS Integers, Sequences, FiniteSets, SequencesExt

CONSTANTS
  Stages,         \* the chain: "bandwidth", "speed" and "slowdown", in order
  ChunkSizes,
  MaxChunks,      \* bound: chunks written
  MaxTime         \* bound: seconds

ASSUME MeasureAssumption ==
  /\ Stages \in Seq({"bandwidth", "speed", "slowdown"}) /\ Stages # <<>>
  /\ ChunkSizes \subseteq Nat
  /\ MaxChunks \in Nat /\ MaxTime \in Nat

VARIABLES
  now,            \* performance.now() in seconds
  passed,         \* chunks the outer stream has handed on
  inbox,          \* per stage: chunks written to it and not transformed
  held,           \* per stage: the chunk whose timer runs, if any
  measurement,    \* per stage: what a bandwidth meter has counted
  buckets,        \* per stage: a speed meter's bytes per second
  arrivals,       \* per stage and second: bytes a speed meter has seen
  reading         \* per stage: getSpeed(), times five, and when it was asked

measureVars ==
  <<now, passed, inbox, held, measurement, buckets, arrivals, reading>>

AverageDuration == 5

Idx == DOMAIN Stages

Empty == [t \in {} |-> 0]

MeasureInit ==
  /\ now = 0
  /\ passed = <<>>
  /\ inbox = [i \in Idx |-> <<>>]
  /\ held = [i \in Idx |-> <<>>]
  /\ measurement = [i \in Idx |-> 0]
  /\ buckets = [i \in Idx |-> Empty]
  /\ arrivals = [i \in Idx |-> [t \in 0..MaxTime |-> 0]]
  /\ reading = [i \in Idx |-> [speed |-> 0, at |-> 0]]

-----------------------------------------------------------------------------
(* speed: one bucket per second; prune() runs with every chunk and every   *)
(* getSpeed(), and only then.                                              *)

PruneLate(b) == Restrict(b, {t \in DOMAIN b : t >= now - AverageDuration - 1}) \* seeded bug

Prune(b) == Restrict(b, {t \in DOMAIN b : t >= now - AverageDuration})

Counted(b, n) ==
  [t \in DOMAIN b \cup {now} |->
     (IF t \in DOMAIN b THEN b[t] ELSE 0) + (IF t = now THEN n ELSE 0)]

(* The sum that getSpeed() divides by AverageDuration.                     *)
Speed(b) == FoldFunction(+, 0, b)

GetSpeed(i) ==
  /\ Stages[i] = "speed"
  /\ buckets' = [buckets EXCEPT ![i] = Prune(@)]
  /\ reading' = [reading EXCEPT ![i] = [speed |-> Speed(Prune(buckets[i])), at |-> now]]
  /\ UNCHANGED <<now, passed, inbox, held, measurement, arrivals>>

-----------------------------------------------------------------------------
(* The streams.                                                            *)

(* chain(): the return value of the write is not looked at.                *)
Chunk ==
  /\ Len(passed) < MaxChunks
  /\ \E n \in ChunkSizes :
       /\ passed' = Append(passed, n)
       /\ inbox' = [inbox EXCEPT ![1] = Append(@, n)]
  /\ UNCHANGED <<now, held, measurement, buckets, arrivals, reading>>

PipedIfIdle(boxes, i, n) ==                              \* seeded bug
  IF i + 1 \in Idx /\ boxes[i + 1] = <<>>
  THEN [boxes EXCEPT ![i + 1] = Append(@, n)] ELSE boxes

(* The pipe to the next stage, or the 'data' listener of the last one.     *)
Piped(boxes, i, n) ==
  IF i + 1 \in Idx THEN [boxes EXCEPT ![i + 1] = Append(@, n)] ELSE boxes

Taken(i) == [inbox EXCEPT ![i] = Tail(@)]

Bandwidth(i) ==
  /\ Stages[i] = "bandwidth"
  /\ inbox[i] # <<>>
  /\ measurement' = [measurement EXCEPT ![i] = @ + Head(inbox[i])]
  /\ inbox' = Piped(Taken(i), i, Head(inbox[i]))
  /\ UNCHANGED <<now, passed, held, buckets, arrivals, reading>>

(* speed emits getSpeed() with every chunk.                                *)
Sample(i) ==
  /\ Stages[i] = "speed"
  /\ inbox[i] # <<>>
  /\ LET n == Head(inbox[i]) IN
       /\ buckets' = [buckets EXCEPT ![i] = Counted(Prune(@), n)]
       /\ reading' = [reading EXCEPT ![i] = [speed |-> Speed(buckets'[i]), at |-> now]]
       /\ arrivals' = [arrivals EXCEPT ![i][now] = @ + n]
       /\ inbox' = Piped(Taken(i), i, n)
  /\ UNCHANGED <<now, passed, held, measurement>>

(* slowdown: one chunk at a time waits for its timer.                      *)
Delay(i) ==
  /\ Stages[i] = "slowdown"
  /\ held[i] = <<>>
  /\ inbox[i] # <<>>
  /\ held' = [held EXCEPT ![i] = <<Head(inbox[i])>>]
  /\ inbox' = Taken(i)
  /\ UNCHANGED <<now, passed, measurement, buckets, arrivals, reading>>

Release(i) ==
  /\ held[i] # <<>>
  /\ inbox' = Piped(inbox, i, held[i][1])
  /\ held' = [held EXCEPT ![i] = <<>>]
  /\ UNCHANGED <<now, passed, measurement, buckets, arrivals, reading>>

Tick ==
  /\ now < MaxTime
  /\ now' = now + 1
  /\ UNCHANGED <<passed, inbox, held, measurement, buckets, arrivals, reading>>

MeasureNext ==
  \/ Chunk
  \/ Tick
  \/ \E i \in Idx : GetSpeed(i) \/ Bandwidth(i) \/ Sample(i) \/ Delay(i) \/ Release(i)

MeasureSpec == MeasureInit /\ [][MeasureNext]_measureVars

(* Streams that have a chunk transform it, and timers fire.                *)
MeasureFairness ==
  \A i \in Idx :
    WF_measureVars(Bandwidth(i) \/ Sample(i) \/ Delay(i) \/ Release(i))

-----------------------------------------------------------------------------
(* Properties.                                                             *)

(* A reading is the bytes of the second it was taken in and of the five    *)
(* before it, whenever buckets were pruned and readings taken before: six  *)
(* buckets, whose sum is divided by AverageDuration.                       *)
WindowExact ==
  \A i \in Idx :
    Stages[i] = "speed" /\ reading[i].at = now =>
      reading[i].speed =
        FoldFunctionOnSet(+, 0, arrivals[i],
                          {t \in 0..now : t >= now - AverageDuration})

Size(chunks) == FoldSeq(+, 0, chunks)

(* The bytes on their way to what the meter of a stage has counted.        *)
Upstream(i) ==
  FoldFunctionOnSet(+, 0, [j \in Idx |-> Size(inbox[j]) + Size(held[j])], 1..i)

(* What a bandwidth meter of the chain has counted and what is still on    *)
(* its way to it, in the buffers nobody bounds and behind the throttles'   *)
(* timers, is all that the chain has handed on, and nothing twice.         *)
MetersExact ==
  \A i \in Idx :
    Stages[i] = "bandwidth" => measurement[i] + Upstream(i) = Size(passed)

(* Every byte the chain has handed on is counted by its bandwidth meters,  *)
(* though the throttles before them delay their copies and nobody waits.   *)
MetersCatchUp ==
  \A i \in Idx, n \in 1..MaxChunks :
    Stages[i] = "bandwidth" =>
      (Len(passed) >= n ~> /\ Len(passed) >= n
                           /\ measurement[i] >= FoldSeq(+, 0, SubSeq(passed, 1, n)))
=============================================================================
