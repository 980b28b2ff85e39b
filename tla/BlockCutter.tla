----------------------------- MODULE BlockCutter -----------------------------
(***************************************************************************)
(* The block cutter of a channel (orderer/common/blockcutter). Ordered     *)
(* (leader batching) and OrderedBatch (follower batching) are the same     *)
(* algorithm over two queues that share one byte counter; a node fills     *)
(* only the queue of its mode, so a receiver is its queue and the counter. *)
(***************************************************************************)
EXTENDS Naturals, Sequences

CONSTANTS MessageSize,       \* transaction -> messageSizeBytes
          PreferredMaxBytes,
          MaxMessageCount

ASSUME CutterAssumption == PreferredMaxBytes \in Nat /\ MaxMessageCount \in Nat \ {0}

EmptyReceiver == [msgs |-> << >>, bytes |-> 0]

(* Cut, CutBatch: the pending batch if there is one.                       *)
PendingBatches(r) == IF r.msgs = << >> THEN << >> ELSE <<r.msgs>>

(* Faulty variant: a message that overflows the batch is still added to it.*)
LateOrdered(r, m) ==
    LET added == [msgs  |-> Append(r.msgs, m), bytes |-> r.bytes + MessageSize[m.tx]]
        full  == Len(added.msgs) >= MaxMessageCount \/ added.bytes > PreferredMaxBytes
    IN  [batches |-> IF full THEN <<added.msgs>> ELSE << >>,
         rest    |-> IF full THEN EmptyReceiver ELSE added]

(***************************************************************************)
(* Ordered, OrderedBatch. A message above the preferred size is isolated;  *)
(* one that would overflow the pending batch cuts it first; a batch with   *)
(* the maximal number of messages is cut at once.                          *)
(***************************************************************************)
Ordered(r, m) ==
    LET size  == MessageSize[m.tx]
        over  == r.bytes + size > PreferredMaxBytes
        base  == IF over THEN EmptyReceiver ELSE r
        added == [msgs |-> Append(base.msgs, m), bytes |-> base.bytes + size]
        full  == Len(added.msgs) >= MaxMessageCount
    IN  IF size > PreferredMaxBytes
        THEN [batches |-> Append(PendingBatches(r), <<m>>),
              rest    |-> IF r.msgs = << >> THEN r ELSE EmptyReceiver]
        ELSE [batches |-> (IF over THEN <<r.msgs>> ELSE << >>)
                          \o (IF full THEN <<added.msgs>> ELSE << >>),
              rest    |-> IF full THEN EmptyReceiver ELSE added]

=============================================================================
