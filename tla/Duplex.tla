------------------------------- MODULE Duplex -------------------------------
(***************************************************************************)
(* What a bound tunnel promises: two one-way byte channels, one per        *)
(* sender, that share nothing but their faults.                            *)
(*                                                                         *)
(* A channel delivers what its sender sent, in order (chunks are counted:  *)
(* delivered is a prefix length of sent), shows its receiver an end of     *)
(* stream only after the sender finished and everything was delivered, and *)
(* breaks off early only after a fault (a reset, a failed dial, a timeout, *)
(* a shutdown) unless it was never reliable.  Finishing one channel does   *)
(* nothing to the other one: that is the half-close of                     *)
(* src/utils/tunnel/index.js.                                              *)
(***************************************************************************)
EXTENDS Naturals

CONSTANT Senders        \* the two ends; the channel of s carries what s sends

VARIABLES
  sent,                 \* sent[s]: chunks s has sent
  fin,                  \* fin[s]: s has finished sending
  delivered,            \* delivered[s]: chunks of s the other end received
  eof,                  \* eof[s]: the other end has seen the end of s's stream
  broken,               \* broken[s]: the channel may end before its stream
  fault                 \* something failed, timed out or was shut down

vars == <<sent, fin, delivered, eof, broken, fault>>

Init ==
  /\ sent \in [Senders -> Nat]
  /\ fin = [s \in Senders |-> FALSE]
  /\ delivered = [s \in Senders |-> 0]
  /\ eof = [s \in Senders |-> FALSE]
  /\ broken \in [Senders -> BOOLEAN]
  /\ fault = FALSE

Send(s) ==
  /\ ~fin[s]
  /\ sent' = [sent EXCEPT ![s] = @ + 1]
  /\ UNCHANGED <<fin, delivered, eof, broken, fault>>

Finish(s) ==
  /\ ~fin[s]
  /\ fin' = [fin EXCEPT ![s] = TRUE]
  /\ UNCHANGED <<sent, delivered, eof, broken, fault>>

Deliver(s) ==
  /\ ~eof[s]
  /\ delivered[s] < sent[s]
  /\ delivered' = [delivered EXCEPT ![s] = @ + 1]
  /\ UNCHANGED <<sent, fin, eof, broken, fault>>

(* The receiver sees the end of the stream: the whole stream, or what a    *)
(* broken channel managed to deliver.                                      *)
Eof(s) ==
  /\ ~eof[s]
  /\ broken[s] \/ (fin[s] /\ delivered[s] = sent[s])
  /\ eof' = [eof EXCEPT ![s] = TRUE]
  /\ UNCHANGED <<sent, fin, delivered, broken, fault>>

(* Something goes wrong and none, one or both channels break off.          *)
Break(B) ==
  /\ fault' = TRUE
  /\ broken' = [s \in Senders |-> broken[s] \/ s \in B]
  /\ UNCHANGED <<sent, fin, delivered, eof>>

Next ==
  \/ \E s \in Senders : Send(s) \/ Finish(s) \/ Deliver(s) \/ Eof(s)
  \/ \E B \in SUBSET Senders : Break(B)

Spec == Init /\ [][Next]_vars
=============================================================================
