------------------------------- MODULE Batch -------------------------------
(***************************************************************************)
(* The publisher's batch buffer (pubsub/src/publisher/batch.rs) as a       *)
(* sequence of messages.  A message is the command that carried it: only   *)
(* its identity and its estimated size matter to batching.                 *)
(***************************************************************************)
EXTENDS Naturals, Sequences

CONSTANTS
    CountThreshold,   \* BatchingOptions::message_count_threshold
    ByteThreshold,    \* BatchingOptions::byte_threshold
    TopicBytes        \* initial_size: the length of the topic name

\* The builder clamps both thresholds from below at 0, so 0 is legal.
ASSUME BatchingAssumption ==
    /\ CountThreshold \in Nat
    /\ ByteThreshold \in Nat
    /\ TopicBytes \in Nat

\* messages_byte_size: the topic name plus the estimate of every message.
size(b) ==
    LET upto[i \in 0..Len(b)] ==
          IF i = 0 THEN TopicBytes ELSE upto[i - 1] + b[i].bytes
    IN  upto[Len(b)]

at_threshold(b) == Len(b) >= CountThreshold \/ size(b) >= ByteThreshold

\* Mutant: the size of the next message is left out of the test.
can_add_ignoring_next(b, next) == size(b) <= ByteThreshold

can_add(b, next) == size(b) + next.bytes <= ByteThreshold

(***************************************************************************)
(* A request respects the limits: it never holds more messages than the    *)
(* count threshold, nor more bytes than the byte threshold, except that a  *)
(* message too large for any batch travels alone.                          *)
(***************************************************************************)
WithinLimits(b) ==
    \/ Len(b) = 1
    \/ Len(b) <= CountThreshold /\ size(b) <= ByteThreshold
=============================================================================
