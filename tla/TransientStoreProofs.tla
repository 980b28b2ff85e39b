------------------------- MODULE TransientStoreProofs -------------------------
(***************************************************************************)
(* Proofs about TransientStore, for any number of peers, calls and blocks: *)
(* types, what a Purge goroutine relies on between its steps, and that     *)
(* nothing a committing peer may still need is deleted.                    *)
(***************************************************************************)
EXTENDS TransientStore, TLAPS

(* The transactions of a block are transactions.                           *)
LEMMA TxsInType == \A n : TxsIn(n) \subseteq Tx
  BY StoreAssumption DEF TxsIn

(* The calls of a sequence are transactions of calls.                      *)
LEMMA TxsOfType == ASSUME NEW s \in Seq(Call) PROVE TxsOf(s) \subseteq Tx
  BY DEF TxsOf, Tx, Range

(* ZAdd keeps the index a function from transactions to heights.           *)
LEMMA ZAddType ==
  ASSUME NEW txs \in SUBSET Tx, NEW S, NEW h \in S, score \in Partial(S)
  PROVE  ZAdd(txs, h) \in Partial(S)
<1>1. PICK D \in SUBSET Tx : score \in [D -> S]
  BY DEF Partial
<1>2. ZAdd(txs, h) \in [D \cup txs -> S]
  BY <1>1 DEF ZAdd
<1> QED
  BY <1>2 DEF Partial

(* A restriction of a partial function is one.                             *)
LEMMA RestrictType ==
  ASSUME NEW S, NEW f \in Partial(S), NEW D \in SUBSET DOMAIN f
  PROVE  /\ Restrict(f, D) \in Partial(S)
         /\ DOMAIN Restrict(f, D) = D
         /\ \A t \in D : Restrict(f, D)[t] = f[t]
<1>1. PICK E \in SUBSET Tx : f \in [E -> S]
  BY DEF Partial
<1>2. Restrict(f, D) \in [D -> S] /\ D \subseteq Tx
  BY <1>1 DEF Restrict
<1> QED
  BY <1>2 DEF Partial, Restrict

(* Partial functions into a smaller set are ones into a larger.            *)
LEMMA PartialMono ==
  ASSUME NEW S, NEW T, S \subseteq T, NEW f \in Partial(S)
  PROVE  f \in Partial(T)
<1>1. PICK E \in SUBSET Tx : f \in [E -> S]
  BY DEF Partial
<1>2. f \in [E -> T]
  BY <1>1
<1> QED
  BY <1>2 DEF Partial

(* A partial function with no or a small domain.                           *)
LEMMA FillType ==
  ASSUME NEW S, NEW v \in S, NEW D \in SUBSET Tx
  PROVE  [t \in D |-> v] \in Partial(S)
<1>1. [t \in D |-> v] \in [D -> S]
  OBVIOUS
<1> QED
  BY <1>1 DEF Partial

LEMMA NoIdsType == ASSUME NEW n \in Nat PROVE NoIds \in Partial(Unread .. n)
<1>1. Unread \in Unread .. n
  BY DEF Unread
<1>2. {} \in SUBSET Tx
  OBVIOUS
<1> QED
  BY <1>1, <1>2, FillType DEF NoIds

(* Types: the state of the batcher, the store and the peers is well formed.*)
LEMMA TypeInit == Init => TypeOK
<1> SUFFICES ASSUME Init PROVE TypeOK
  OBVIOUS
<1>1. score \in Partial(0 .. ordered)
  <2>1. 0 \in 0 .. ordered /\ {} \in SUBSET Tx
    BY DEF Init
  <2> QED
    BY <2>1, FillType DEF Init
<1>2. Len(Block) \in Nat
  BY StoreAssumption
<1>3. /\ call \in [Call -> {"idle", "waiting", "stored", "failed"}]
      /\ height \in [Peer -> 0 .. ordered]
      /\ got \in [Peer -> {NotYet} \cup SUBSET Tx]
      /\ \A p \in Peer : got[p] # NotYet => NextBlock(p) <= ordered
  BY <1>2 DEF Init
<1>4. queue \in Seq(Call) /\ Len(queue) <= QueueSize /\ batch \in Seq(Call)
  BY StoreAssumption DEF Init
<1>5. /\ flushes = {} /\ purges = {} /\ hash = {}
      /\ ordered \in 0 .. Len(Block) /\ faults \in 0 .. MaxFault
  BY <1>2, StoreAssumption DEF Init
<1> QED
  BY <1>1, <1>3, <1>4, <1>5 DEF TypeOK

-----------------------------------------------------------------------------
(* Heights are natural numbers, at most that of the channel.               *)
LEMMA HeightType ==
  ASSUME TypeOK
  PROVE  ordered \in Nat /\ \A p \in Peer : height[p] \in 0 .. ordered
<1>1. ordered \in 0 .. Len(Block) /\ height \in [Peer -> 0 .. ordered]
  BY DEF TypeOK
<1>2. Len(Block) \in Nat
  BY StoreAssumption
<1> QED
  BY <1>1, <1>2

(* A failing call is counted up to the bound.                              *)
LEMMA FaultType ==
  ASSUME TypeOK, Fault \/ UNCHANGED faults PROVE faults' \in 0 .. MaxFault
<1>0. faults \in 0 .. MaxFault
  BY DEF TypeOK
<1>1. faults \in Nat /\ MaxFault \in Nat /\ faults <= MaxFault
  BY <1>0, StoreAssumption
<1>2. CASE Fault
  BY <1>1, <1>2 DEF Fault
<1>3. CASE UNCHANGED faults
  BY <1>1, <1>3
<1> QED
  BY <1>2, <1>3

(* The type of the running flushes.                                        *)
FlushesOK ==
    /\ flushes \subseteq [calls : Seq(Call), min : {Unread} \cup 0 .. ordered, sent : Nat]
    /\ \A f \in flushes : f.sent <= Len(f.calls)

(* The batcher keeps the types.                                            *)
LEMMA TypeBatcher ==
  ASSUME TypeOK,
         (\E c \in Call : Set(c)) \/ Listen \/ Tick \/ \E f \in flushes : FlushMin(f)
  PROVE  TypeOK'
<1> USE DEF batcherVars, storeVars, peerVars
<1>1. ASSUME NEW c \in Call, Set(c) PROVE TypeOK'
  <2>1. CASE Len(queue) < QueueSize
    <3>1. queue \in Seq(Call) /\ queue' = Append(queue, c)
      BY <1>1, <2>1 DEF Set, TypeOK
    <3>2. queue' \in Seq(Call) /\ Len(queue') = Len(queue) + 1
      BY <3>1
    <3>3. Len(queue') <= QueueSize
      BY <2>1, <3>1, <3>2, StoreAssumption
    <3>4. /\ call' \in [Call -> {"idle", "waiting", "stored", "failed"}]
      BY <1>1, <2>1 DEF Set, TypeOK
    <3> QED
      BY <1>1, <3>2, <3>3, <3>4 DEF Set, TypeOK, NextBlock
  <2>2. CASE ~(Len(queue) < QueueSize)
    <3>1. /\ call' \in [Call -> {"idle", "waiting", "stored", "failed"}]
      BY <1>1, <2>2 DEF Set, TypeOK
    <3> QED
      BY <1>1, <2>2, <3>1 DEF Set, TypeOK, NextBlock
  <2> QED
    BY <2>1, <2>2
<1>2. CASE Listen
  <2>1. /\ queue \in Seq(Call) /\ queue # << >> /\ batch \in Seq(Call)
        /\ Len(queue) <= QueueSize /\ QueueSize \in Nat
    BY <1>2, StoreAssumption DEF Listen, TypeOK
  <2>2. /\ Head(queue) \in Call
        /\ Tail(queue) \in Seq(Call) /\ Len(Tail(queue)) = Len(queue) - 1
        /\ Len(queue) \in Nat
    BY <2>1
  <2>3. Append(batch, Head(queue)) \in Seq(Call) /\ Len(Tail(queue)) <= QueueSize
    BY <2>1, <2>2
  <2> QED
    BY <1>2, <2>2, <2>3 DEF Listen, TypeOK, NextBlock
<1>3. CASE Tick
  <2>0. /\ FlushesOK /\ batch \in Seq(Call)
    BY DEF FlushesOK, TypeOK
  <2>1. 0 <= Len(batch)
    BY <2>0
  <2>2. FlushesOK' /\ batch' \in Seq(Call)
    BY <1>3, <2>0, <2>1 DEF Tick, FlushesOK
  <2> QED
    BY <1>3, <2>2 DEF Tick, FlushesOK, TypeOK, NextBlock
<1>4. ASSUME NEW f \in flushes, FlushMin(f) PROVE TypeOK'
  <2>1. call' \in [Call -> {"idle", "waiting", "stored", "failed"}]
    BY <1>4 DEF FlushMin, Answer, TypeOK
  <2>2. FlushesOK'
    <3>0. FlushesOK
      BY DEF FlushesOK, TypeOK
    <3>1. CASE \E p \in Peer : flushes' = (flushes \ {f}) \cup {[f EXCEPT !.min = height[p]]}
      BY <1>4, <3>0, <3>1, HeightType DEF FlushesOK, FlushMin
    <3>2. CASE flushes' = flushes \ {f}
      BY <1>4, <3>0, <3>2 DEF FlushesOK, FlushMin
    <3> QED
      BY <1>4, <3>1, <3>2 DEF FlushMin
  <2>3. faults' \in 0 .. MaxFault
    BY <1>4, FaultType DEF FlushMin
  <2> QED
    BY <1>4, <2>1, <2>2, <2>3 DEF FlushMin, FlushesOK, TypeOK, NextBlock
<1> QED
  BY <1>1, <1>2, <1>3, <1>4

(* So does a flush that reaches the store, however far it gets.            *)
LEMMA TypePipe ==
  ASSUME TypeOK, NEW f \in flushes, PipeHSet(f) \/ PipeZAdd(f) \/ PipeFails(f)
  PROVE  TypeOK'
<1> USE DEF batcherVars, storeVars, peerVars
<1>1. /\ FlushesOK /\ score \in Partial(0 .. ordered)
      /\ call \in [Call -> {"idle", "waiting", "stored", "failed"}]
  BY DEF FlushesOK, TypeOK
<1>2. f.calls \in Seq(Call) /\ f.sent \in Nat /\ f.min \in {Unread} \cup 0 .. ordered
  BY <1>1 DEF FlushesOK
<1>3. CASE PipeHSet(f)
  <2>1. f.sent + 1 \in 1 .. Len(f.calls)
    BY <1>2, <1>3 DEF PipeHSet
  <2>2. hash' \subseteq Tx
    BY <1>2, <1>3, <2>1 DEF PipeHSet, Tx, TypeOK
  <2>3. FlushesOK'
    <3>1. PICK g : g = [f EXCEPT !.sent = @ + 1]
      OBVIOUS
    <3>2. /\ g \in [calls : Seq(Call), min : {Unread} \cup 0 .. ordered, sent : Nat]
          /\ g.sent <= Len(g.calls)
      BY <1>1, <1>2, <2>1, <3>1 DEF FlushesOK
    <3> QED
      BY <1>1, <1>3, <3>1, <3>2 DEF PipeHSet, FlushesOK
  <2> QED
    BY <1>3, <2>2, <2>3 DEF PipeHSet, FlushesOK, TypeOK, NextBlock
<1>4. CASE PipeZAdd(f) \/ PipeFails(f)
  <2>1. call' \in [Call -> {"idle", "waiting", "stored", "failed"}]
    BY <1>1, <1>4 DEF PipeZAdd, PipeFails, Answer
  <2>2. faults' \in 0 .. MaxFault
    BY <1>4, FaultType DEF PipeZAdd, PipeFails
  <2>3. FlushesOK'
    BY <1>1, <1>4 DEF PipeZAdd, PipeFails, FlushesOK
  <2>4. f.min \in 0 .. ordered /\ TxsOf(f.calls) \subseteq Tx
    BY <1>2, <1>4, TxsOfType DEF PipeZAdd, PipeFails
  <2>5. ZAdd(TxsOf(f.calls), f.min) \in Partial(0 .. ordered)
    BY <1>1, <2>4, ZAddType
  <2>6. score' \in Partial(0 .. ordered')
    BY <1>1, <1>4, <2>5 DEF PipeZAdd, PipeFails
  <2> QED
    BY <1>4, <2>1, <2>2, <2>3, <2>6 DEF PipeZAdd, PipeFails, FlushesOK, TypeOK, NextBlock
<1> QED
  BY <1>3, <1>4

(* Heights only grow, so what was bounded by them stays so.                *)
LEMMA TypeOrder == ASSUME TypeOK, Order PROVE TypeOK'
<1> USE DEF batcherVars, storeVars, peerVars
<1>1. Len(Block) \in Nat
  BY StoreAssumption
<1>2. ordered \in Nat /\ ordered' = ordered + 1 /\ ordered' \in 0 .. Len(Block)
  <2>1. ordered \in 0 .. Len(Block) /\ ordered < Len(Block) /\ ordered' = ordered + 1
    BY DEF Order, TypeOK
  <2> QED
    BY <1>1, <2>1
<1>3. 0 .. ordered \subseteq 0 .. ordered' /\ Unread .. ordered \subseteq Unread .. ordered'
  BY <1>2 DEF Unread
<1>4. score' \in Partial(0 .. ordered')
  BY <1>3, PartialMono DEF Order, TypeOK
<1>5. purges' \subseteq [peer : Peer, block : 0 .. ordered', ids : Partial(Unread .. ordered'),
                         pc : PurgePc]
  <2>1. Partial(Unread .. ordered) \subseteq Partial(Unread .. ordered')
    BY <1>3, PartialMono
  <2> QED
    BY <1>3, <2>1 DEF Order, TypeOK
<1>6. height' \in [Peer -> 0 .. ordered'] /\ FlushesOK'
  BY <1>3 DEF Order, FlushesOK, TypeOK
<1>7. \A p \in Peer : (got[p] # NotYet => NextBlock(p) <= ordered)'
  <2> SUFFICES ASSUME NEW p \in Peer, got[p] # NotYet
               PROVE  height[p] + 1 <= ordered + 1
    BY <1>2 DEF Order, NextBlock
  <2>1. NextBlock(p) <= ordered
    BY DEF TypeOK
  <2>2. height[p] \in 0 .. ordered
    BY HeightType
  <2> QED
    BY <1>2, <2>2
<1> QED
  BY <1>2, <1>4, <1>5, <1>6, <1>7 DEF Order, FlushesOK, TypeOK

(* A committing peer keeps the types.                                      *)
LEMMA TypePeer ==
  ASSUME TypeOK, NEW p \in Peer, Retrieve(p) \/ CommitBlock(p) PROVE TypeOK'
<1> USE DEF batcherVars, storeVars, peerVars
<1>0. ordered \in Nat /\ height[p] \in Nat /\ height[p] <= ordered
  BY HeightType
<1>1. CASE Retrieve(p)
  <2>1. PICK seen \in SUBSET Tx : got' = [got EXCEPT ![p] = seen]
    BY <1>1, TxsInType DEF Retrieve
  <2>2. got' \in [Peer -> {NotYet} \cup SUBSET Tx]
    BY <2>1 DEF TypeOK
  <2>3. \A q \in Peer : (got[q] # NotYet => NextBlock(q) <= ordered)'
    BY <1>1, <2>1 DEF Retrieve, TypeOK, NextBlock
  <2> QED
    BY <1>1, <2>2, <2>3 DEF Retrieve, TypeOK
<1>2. CASE CommitBlock(p)
  <2>1. NextBlock(p) \in 0 .. ordered
    <3>1. height[p] + 1 <= ordered
      BY <1>2 DEF CommitBlock, TypeOK, NextBlock
    <3> QED
      BY <1>0, <3>1 DEF NextBlock
  <2>2. height' \in [Peer -> 0 .. ordered]
    BY <1>2, <2>1 DEF CommitBlock, TypeOK
  <2>3. /\ got' \in [Peer -> {NotYet} \cup SUBSET Tx]
        /\ \A q \in Peer : (got[q] # NotYet => NextBlock(q) <= ordered)'
    BY <1>2 DEF CommitBlock, TypeOK, NextBlock
  <2>4. purges' \subseteq [peer : Peer, block : 0 .. ordered, ids : Partial(Unread .. ordered),
                           pc : PurgePc]
    <3>1. purges \subseteq [peer : Peer, block : 0 .. ordered, ids : Partial(Unread .. ordered),
                            pc : PurgePc]
      BY DEF TypeOK
    <3>2. NoIds \in Partial(Unread .. ordered)
      BY <1>0, NoIdsType
    <3>3. PICK pc \in {"txids", "height"} :
            \/ purges' = purges
            \/ purges' = purges \cup {[peer |-> p, block |-> NextBlock(p), ids |-> NoIds, pc |-> pc]}
      BY <1>2 DEF CommitBlock
    <3>4. [peer |-> p, block |-> NextBlock(p), ids |-> NoIds, pc |-> pc]
            \in [peer : Peer, block : 0 .. ordered, ids : Partial(Unread .. ordered),
                 pc : PurgePc]
      BY <2>1, <3>2 DEF PurgePc
    <3> QED
      BY <3>1, <3>3, <3>4
  <2> QED
    BY <1>2, <2>2, <2>3, <2>4 DEF CommitBlock, TypeOK
<1> QED
  BY <1>1, <1>2

(* A step of a Purge goroutine is well formed.                             *)
LEMMA StepType ==
  ASSUME TypeOK, NEW g \in purges, NEW ids \in Partial(Unread .. ordered),
         NEW pc \in PurgePc,
         Step(g, pc, ids) \/ purges' = purges \ {g}
  PROVE  purges' \subseteq [peer : Peer, block : 0 .. ordered, ids : Partial(Unread .. ordered),
                            pc : PurgePc]
<1>1. purges \subseteq [peer : Peer, block : 0 .. ordered, ids : Partial(Unread .. ordered),
                        pc : PurgePc]
  BY DEF TypeOK
<1>2. CASE Step(g, pc, ids)
  BY <1>1, <1>2 DEF Step
<1>3. CASE purges' = purges \ {g}
  BY <1>1, <1>3
<1> QED
  BY <1>2, <1>3

(* Purge keeps the types.                                                  *)
LEMMA TypePurge == ASSUME TypeOK, NEW g \in purges, Purge(g) PROVE TypeOK'
<1> USE DEF batcherVars, storeVars, peerVars
<1> DEFINE PurgeType ==
      purges' \subseteq [peer : Peer, block : 0 .. ordered, ids : Partial(Unread .. ordered),
                         pc : PurgePc]
<1>1. ordered \in Nat
  BY HeightType
<1>2. NoIds \in Partial(Unread .. ordered)
  BY <1>1, NoIdsType
<1>3. score \in Partial(0 .. ordered)
  BY DEF TypeOK
<1>4. CASE CheckTxids(g)
  <2>1. [t \in TxsIn(g.block) |-> Unread] \in Partial(Unread .. ordered)
    <3>1. Unread \in Unread .. ordered
      BY <1>1 DEF Unread
    <3> QED
      BY <3>1, TxsInType, FillType
  <2>2. PurgeType
    BY <1>2, <1>4, <2>1, StepType DEF CheckTxids, PurgePc
  <2>3. faults' \in 0 .. MaxFault
    BY <1>4, FaultType DEF CheckTxids
  <2> QED
    BY <1>4, <2>2, <2>3 DEF CheckTxids, TypeOK, NextBlock
<1>5. CASE CheckHeight(g)
  <2>1. PurgeType
    BY <1>2, <1>5, StepType DEF CheckHeight, PurgePc
  <2>2. faults' \in 0 .. MaxFault
    BY <1>5, FaultType DEF CheckHeight
  <2> QED
    BY <1>5, <2>1, <2>2 DEF CheckHeight, TypeOK, NextBlock
<1>6. CASE RangeBelow(g)
  <2>1. Below(g) \in Partial(Unread .. ordered)
    <3>1. Below(g) \in Partial(0 .. ordered)
      BY <1>3, RestrictType DEF Below
    <3>2. 0 .. ordered \subseteq Unread .. ordered
      BY <1>1 DEF Unread
    <3> QED
      BY <3>1, <3>2, PartialMono
  <2>2. PurgeType
    BY <1>2, <1>6, <2>1, StepType DEF RangeBelow, PurgePc
  <2>3. faults' \in 0 .. MaxFault
    BY <1>6, FaultType DEF RangeBelow
  <2> QED
    BY <1>6, <2>2, <2>3 DEF RangeBelow, TypeOK, NextBlock
<1>7. CASE Del(g)
  <2>1. g.ids \in Partial(Unread .. ordered) /\ hash' \subseteq Tx
    BY <1>7 DEF Del, TypeOK
  <2>2. PurgeType
    BY <1>2, <1>7, <2>1, StepType DEF Del, Ended, PurgePc
  <2>3. faults' \in 0 .. MaxFault
    BY <1>7, FaultType DEF Del
  <2> QED
    BY <1>7, <2>1, <2>2, <2>3 DEF Del, TypeOK, NextBlock
<1>8. CASE ZRem(g)
  <2>1. score' \in Partial(0 .. ordered)
    <3>1. DOMAIN score \ DOMAIN g.ids \in SUBSET DOMAIN score
      OBVIOUS
    <3>2. Restrict(score, DOMAIN score \ DOMAIN g.ids) \in Partial(0 .. ordered)
      BY <1>3, <3>1, RestrictType
    <3> QED
      BY <1>3, <1>8, <3>2 DEF ZRem
  <2>2. PurgeType
    BY <1>2, <1>8, StepType DEF ZRem, Ended, PurgePc
  <2>3. faults' \in 0 .. MaxFault
    BY <1>8, FaultType DEF ZRem
  <2> QED
    BY <1>8, <2>1, <2>2, <2>3 DEF ZRem, TypeOK, NextBlock
<1> QED
  BY <1>4, <1>5, <1>6, <1>7, <1>8 DEF Purge

(* Every step keeps the types.                                             *)
LEMMA TypeNext == TypeOK /\ [Next]_vars => TypeOK'
<1>1. ASSUME TypeOK, Next PROVE TypeOK'
  BY <1>1, TypeBatcher, TypePipe, TypeOrder, TypePeer, TypePurge DEF Next, Flush
<1>2. ASSUME TypeOK, UNCHANGED vars PROVE TypeOK'
  BY <1>2 DEF vars, batcherVars, storeVars, peerVars, TypeOK, NextBlock
<1> QED
  BY <1>1, <1>2

(* Types are kept by the batcher, the store and the peers (Set, Listen,    *)
(* flushBatchToRedis, RetrievePvtdata, Purge): the queue stays within its  *)
(* size, and no height in the store is ahead of the channel.               *)
THEOREM TypeCorrect == Spec => []TypeOK
<1> QED
  BY TypeInit, TypeNext, PTL DEF Spec
-----------------------------------------------------------------------------
(* One goroutine of Purge satisfies what PurgeIsBehind says of it.         *)
Behind(g) ==
    /\ g.block <= height[g.peer]
    /\ g.pc \in {"delete txids", "range", "delete below"} =>
         \A p \in Peer : g.block <= height[p]
    /\ g.pc = "delete txids" => DOMAIN g.ids = TxsIn(g.block)
    /\ g.pc = "delete below" =>
         \A t \in DOMAIN g.ids : g.ids[t] <= Threshold(g) - 1

(* Heights never go back, so a goroutine that is behind stays behind.      *)
LEMMA BehindGrows ==
  ASSUME TypeOK, TypeOK', NEW g \in purges, Behind(g),
         \A p \in Peer : height[p] <= height'[p]
  PROVE  Behind(g)'
<1>1. g.block \in Nat /\ g.peer \in Peer
  <2>1. g.block \in 0 .. ordered /\ g.peer \in Peer
    BY DEF TypeOK
  <2> QED
    BY <2>1, HeightType
<1>2. \A p \in Peer : height[p] \in Nat
  BY HeightType
<1>3. \A p \in Peer : height'[p] \in Nat
  <2>1. height' \in [Peer -> 0 .. ordered'] /\ ordered' \in 0 .. Len(Block)
    BY DEF TypeOK
  <2> QED
    BY <2>1
<1>4. \A p \in Peer : g.block <= height[p] => g.block <= height'[p]
  BY <1>1, <1>2, <1>3
<1> QED
  BY <1>1, <1>4 DEF Behind, Threshold, TxsIn

(* The heights of the store only grow.                                     *)
LEMMA HeightGrows ==
  ASSUME TypeOK, Next PROVE \A q \in Peer : height[q] <= height'[q]
<1> USE DEF batcherVars, storeVars, peerVars
<1>1. \A q \in Peer : height[q] \in Nat
  BY HeightType
<1>2. ASSUME NEW p \in Peer, CommitBlock(p) PROVE \A q \in Peer : height[q] <= height'[q]
  <2>1. height' = [height EXCEPT ![p] = height[p] + 1]
    BY <1>2 DEF CommitBlock, NextBlock
  <2>2. height \in [Peer -> 0 .. ordered]
    BY DEF TypeOK
  <2> QED
    BY <1>1, <2>1, <2>2
<1>3. CASE UNCHANGED height
  BY <1>1, <1>3
<1> QED
  BY <1>2, <1>3
  DEF Next, Set, Listen, Tick, Flush, FlushMin, PipeHSet, PipeZAdd, PipeFails, Order, Retrieve,
      Purge, CheckTxids, CheckHeight, RangeBelow, Del, ZRem

(* What Behind asks of a goroutine at pc with ids.                         *)
Relies(g, pc, ids) ==
    /\ pc \in {"delete txids", "range", "delete below"} =>
         \A p \in Peer : g.block <= height[p]
    /\ pc = "delete txids" => DOMAIN ids = TxsIn(g.block)
    /\ pc = "delete below" => \A t \in DOMAIN ids : ids[t] <= Threshold(g) - 1

(* A goroutine that Step advances is behind.                               *)
LEMMA BehindStep ==
  ASSUME TypeOK, PurgeIsBehind, NEW g \in purges, NEW pc, NEW ids,
         UNCHANGED height,
         (Step(g, pc, ids) /\ Relies(g, pc, ids)) \/ purges' = purges \ {g}
  PROVE  PurgeIsBehind'
<1>1. \A h \in purges : Behind(h)
  BY DEF PurgeIsBehind, Behind
<1>2. \A h \in purges' : Behind(h)
  <2>1. CASE purges' = purges \ {g}
    BY <1>1, <2>1
  <2>2. CASE Step(g, pc, ids) /\ Relies(g, pc, ids)
    <3>1. PICK n : n = [g EXCEPT !.pc = pc, !.ids = ids]
      OBVIOUS
    <3>2. n.peer = g.peer /\ n.block = g.block /\ n.ids = ids /\ n.pc = pc
      <4>1. g \in [peer : Peer, block : 0 .. ordered, ids : Partial(Unread .. ordered),
                   pc : PurgePc]
        BY DEF TypeOK
      <4> QED
        BY <3>1, <4>1
    <3>3. Behind(n)
      BY <1>1, <2>2, <3>2 DEF Behind, Relies, Threshold
    <3> QED
      BY <1>1, <2>2, <3>1, <3>3 DEF Step
  <2> QED
    BY <2>1, <2>2
<1>3. \A h : Behind(h) => Behind(h)'
  BY DEF Behind, Threshold, TxsIn
<1> QED
  BY <1>2, <1>3 DEF PurgeIsBehind, Behind

(* Only the peer that is slowest when it checks goes on.                   *)
LEMMA MinPeerIsBehind ==
  ASSUME TypeOK, NEW g \in purges, Behind(g), MinPeer(g.peer)
  PROVE  \A p \in Peer : g.block <= height[p]
<1>1. \A p \in Peer : height[p] \in Nat
  BY HeightType
<1>2. g.block \in 0 .. ordered /\ g.peer \in Peer
  BY DEF TypeOK
<1>3. \A p \in Peer : height[g.peer] <= height[p]
  BY <1>1, <1>2 DEF MinPeer
<1>4. g.block <= height[g.peer]
  BY DEF Behind
<1>5. g.block \in Nat
  BY <1>2, HeightType
<1> QED
  BY <1>1, <1>2, <1>3, <1>4, <1>5

(* Each step of a goroutine keeps what the next one relies on.             *)
LEMMA BehindPurge ==
  ASSUME TypeOK, PurgeIsBehind, NEW g \in purges, Purge(g)
  PROVE  PurgeIsBehind'
<1> USE DEF batcherVars, storeVars, peerVars
<1>1. Behind(g)
  BY DEF PurgeIsBehind, Behind
<1>2. Relies(g, "height", NoIds)
  BY DEF Relies
<1>3. CASE CheckTxids(g)
  <2> DEFINE ids == [t \in TxsIn(g.block) |-> Unread]
  <2>1. MinPeer(g.peer) => Relies(g, "delete txids", ids)
    BY <1>1, MinPeerIsBehind DEF Relies
  <2>2. CASE MinPeer(g.peer) /\ Step(g, "delete txids", ids)
    BY <1>3, <2>1, <2>2, BehindStep DEF CheckTxids
  <2>3. CASE Step(g, "height", NoIds)
    BY <1>2, <1>3, <2>3, BehindStep DEF CheckTxids
  <2> QED
    BY <1>3, <2>2, <2>3 DEF CheckTxids
<1>4. CASE CheckHeight(g)
  <2>1. MinPeer(g.peer) => Relies(g, "range", NoIds)
    BY <1>1, MinPeerIsBehind DEF Relies
  <2>2. CASE MinPeer(g.peer) /\ Step(g, "range", NoIds)
    BY <1>4, <2>1, <2>2, BehindStep DEF CheckHeight
  <2>3. CASE purges' = purges \ {g}
    BY <1>4, <2>3, BehindStep DEF CheckHeight
  <2> QED
    BY <1>4, <2>2, <2>3 DEF CheckHeight
<1>5. CASE RangeBelow(g)
  <2>1. \A t \in DOMAIN Below(g) : Below(g)[t] <= Threshold(g) - 1
    <3>1. score \in Partial(0 .. ordered)
      BY DEF TypeOK
    <3>2. {t \in DOMAIN score : score[t] <= Threshold(g) - 1} \in SUBSET DOMAIN score
      OBVIOUS
    <3> QED
      BY <3>1, <3>2, RestrictType DEF Below
  <2>2. Relies(g, "delete below", Below(g))
    BY <1>1, <1>5, <2>1 DEF RangeBelow, Behind, Relies
  <2>3. CASE Step(g, "delete below", Below(g))
    BY <1>5, <2>2, <2>3, BehindStep DEF RangeBelow
  <2>4. CASE purges' = purges \ {g}
    BY <1>5, <2>4, BehindStep DEF RangeBelow
  <2> QED
    BY <1>5, <2>3, <2>4 DEF RangeBelow
<1>6. CASE Del(g) \/ ZRem(g)
  <2> DEFINE after == IF g.pc = "delete txids" THEN "unindex txids" ELSE "unindex below"
  <2>1. Relies(g, after, g.ids)
    BY DEF Relies
  <2>2. CASE Step(g, after, g.ids)
    BY <1>6, <2>1, <2>2, BehindStep DEF Del, ZRem
  <2>3. CASE Ended(g)
    BY <1>2, <1>6, <2>3, BehindStep DEF Del, ZRem, Ended
  <2> QED
    BY <1>6, <2>2, <2>3 DEF Del, ZRem
<1> QED
  BY <1>3, <1>4, <1>5, <1>6 DEF Purge

(* The steps of the others leave the goroutines behind.                    *)
LEMMA BehindNext == TypeOK /\ PurgeIsBehind /\ [Next]_vars => PurgeIsBehind'
<1> SUFFICES ASSUME TypeOK, PurgeIsBehind, [Next]_vars PROVE PurgeIsBehind'
  OBVIOUS
<1> USE DEF batcherVars, storeVars, peerVars
<1>1. TypeOK'
  BY TypeNext
<1>2. \A g \in purges : Behind(g)
  BY DEF PurgeIsBehind, Behind
<1>3. CASE UNCHANGED vars
  BY <1>3 DEF vars, PurgeIsBehind, Threshold, TxsIn
<1>4. ASSUME Next, NEW p \in Peer, CommitBlock(p) PROVE PurgeIsBehind'
  <2>1. \A g \in purges : Behind(g)'
    BY <1>1, <1>2, <1>4, HeightGrows, BehindGrows
  <2>2. height'[p] = height[p] + 1 /\ height[p] \in Nat
    <3>1. height \in [Peer -> 0 .. ordered]
      BY DEF TypeOK
    <3> QED
      BY <1>4, <3>1, HeightType DEF CommitBlock, NextBlock
  <2>3. PICK n : n = height[p] + 1
    OBVIOUS
  <2>4. PICK pc \in {"txids", "height"} :
          \/ purges' = purges
          \/ purges' = purges \cup {[peer |-> p, block |-> n, ids |-> NoIds, pc |-> pc]}
    BY <1>4, <2>3 DEF CommitBlock, NextBlock
  <2>6. ASSUME NEW h, h = [peer |-> p, block |-> n, ids |-> NoIds, pc |-> pc]
        PROVE  Behind(h)'
    <3>1. h.peer = p /\ h.block = n /\ h.pc = pc
      BY <2>6
    <3>2. h.block <= height'[p]
      BY <2>2, <2>3, <3>1
    <3>3. h.pc \notin {"delete txids", "range", "delete below"}
      BY <2>4, <3>1
    <3> QED
      BY <3>1, <3>2, <3>3 DEF Behind
  <2>5. \A g \in purges' : Behind(g)'
    BY <2>1, <2>4, <2>6
  <2> QED
    BY <2>5 DEF PurgeIsBehind, Behind
<1>5. CASE Next /\ UNCHANGED <<height, purges>>
  BY <1>5 DEF PurgeIsBehind, Threshold, TxsIn
<1>6. ASSUME NEW g \in purges, Purge(g) PROVE PurgeIsBehind'
  BY <1>6, BehindPurge
<1> QED
  BY <1>3, <1>4, <1>5, <1>6
  DEF Next, Set, Listen, Tick, Flush, FlushMin, PipeHSet, PipeZAdd, PipeFails, Order, Retrieve

(* A Purge goroutine stays behind every peer from its check of the slowest *)
(* peer to its deletion, in any interleaving with commits, flushes and     *)
(* other goroutines (PurgeByTxids, PurgeBelowHeight).                      *)
THEOREM PurgeStaysBehind == Spec => []PurgeIsBehind
<1>1. Init => PurgeIsBehind
  BY DEF Init, PurgeIsBehind
<1> QED
  BY <1>1, TypeInit, TypeNext, BehindNext, PTL DEF Spec
-----------------------------------------------------------------------------
(* The state predicate under the action of DeletedWhenDone.                *)
Done(t) ==
    \/ \A p \in Peer : Committed(p, t)
    \/ \E g \in purges : /\ g.pc = "delete below" /\ t \in DOMAIN g.ids
                         /\ \A p \in Peer : g.ids[t] < height[p] - Retention

(* What Del removes is done with.                                          *)
LEMMA DeleteIsDone ==
  ASSUME TypeOK, PurgeIsBehind, NEW g \in purges, Del(g), NEW t \in hash \ hash'
  PROVE  Done(t)
<1>1. Behind(g) /\ t \in DOMAIN g.ids
  BY DEF PurgeIsBehind, Behind, Del
<1>2. \A p \in Peer : g.block <= height[p]
  BY <1>1 DEF Del, Behind
<1>3. CASE g.pc = "delete txids"
  <2>1. t \in TxsIn(g.block)
    BY <1>1, <1>3 DEF Behind
  <2>2. g.block \in DOMAIN Block /\ t \in Block[g.block]
    BY <2>1 DEF TxsIn
  <2> QED
    BY <1>2, <2>2 DEF Done, Committed
<1>4. CASE g.pc = "delete below"
  <2>1. /\ g.block \in 0 .. ordered
        /\ g.ids \in Partial(Unread .. ordered)
    BY DEF TypeOK
  <2>2. PICK D \in SUBSET Tx : g.ids \in [D -> Unread .. ordered]
    BY <2>1 DEF Partial
  <2>3. g.ids[t] \in Int /\ g.block \in Int /\ Retention \in Int
    BY <1>1, <2>1, <2>2, StoreAssumption, HeightType DEF Unread
  <2>4. g.ids[t] <= g.block - Retention - 1
    BY <1>1, <1>4 DEF Behind, Threshold
  <2>5. \A p \in Peer : height[p] \in Int
    BY HeightType
  <2>6. \A p \in Peer : g.ids[t] < height[p] - Retention
    BY <1>2, <2>3, <2>4, <2>5
  <2> QED
    BY <1>1, <1>4, <2>6 DEF Done
<1> QED
  BY <1>3, <1>4 DEF Del

(* A write set is deleted only when every committing peer has committed    *)
(* its transaction, or when it was indexed at a height that even the       *)
(* slowest peer has left behind by more than the retention (PurgeByTxids,  *)
(* PurgeBelowHeight of the key-value store).                               *)
THEOREM NothingNeededIsDeleted == Spec => DeletedWhenDone
<1>1. ASSUME TypeOK, PurgeIsBehind, [Next]_vars
      PROVE  [\A t \in hash \ hash' : Done(t)]_vars
  <2> SUFFICES ASSUME Next, NEW t \in hash \ hash' PROVE Done(t)
    BY <1>1
  <2> USE DEF batcherVars, storeVars, peerVars
  <2>1. PICK g \in purges : Del(g)
    BY DEF Next, Set, Listen, Tick, Flush, FlushMin, PipeHSet, PipeZAdd, PipeFails, Order, Retrieve,
           CommitBlock, Purge, CheckTxids, CheckHeight, RangeBelow, ZRem
  <2> QED
    BY <1>1, <2>1, DeleteIsDone
<1> QED
  BY <1>1, TypeCorrect, PurgeStaysBehind, PTL DEF Spec, DeletedWhenDone, Done

=============================================================================
