---------------------------- MODULE TransientStore ----------------------------
(***************************************************************************)
(* Private write sets in the key-value store that the peers of an          *)
(* organisation share (core/transientstore/keyvaluestore.go and            *)
(* keyvaluestorebatcher.go; Purge of gossip/privdata; SetHeight of         *)
(* statesqldb): endorsers persist them through a batcher, committing peers *)
(* retrieve them with a block, publish their height and purge.             *)
(*                                                                         *)
(* The store (Redis) is external: each command is atomic, other clients    *)
(* come between the commands of a pipeline, one that fails has executed a  *)
(* beginning of them, a read may come from a replica. The level database   *)
(* that Persist also writes to is left out: with a key-value store nothing *)
(* is read from it. All peers have joined the channel (committed block 0)  *)
(* before the first endorsement.                                           *)
(***************************************************************************)
EXTENDS Integers, Sequences, FiniteSets, Functions

CONSTANTS Peer,        \* committing peers: naturals, in the order of their ids
          Call,        \* calls of Persist
          TxOf,        \* Call -> transaction
          Block,       \* Block[n] = transactions of block n
          Retention,   \* transientBlockRetention
          QueueSize,   \* endorserbatchchannelbuffer
          MaxFault     \* bound on failing calls of the store

Tx == {TxOf[c] : c \in Call}
Unread == -1

ASSUME StoreAssumption ==
    /\ Peer \subseteq Nat
    /\ Retention \in Nat \ {0} /\ QueueSize \in Nat \ {0} /\ MaxFault \in Nat
    /\ Block \in Seq(SUBSET Tx)
    /\ \A m, n \in DOMAIN Block : m # n => Block[m] \cap Block[n] = {}

VARIABLES call,     \* state of a call: "idle", "waiting", "stored" or "failed"
          queue,    \* kb.channel
          batch,    \* kb.batch
          flushes,  \* running flushBatchToRedis: calls, the height read, calls stored
          hash,     \* store: transactions with a hash of write sets
          score,    \* store: txns_by_block
          height,   \* store: heights
          ordered,  \* blocks of the channel
          got,      \* what a peer retrieved for its next block, or NotYet
          purges,   \* running Purge goroutines; ids carry the scores the range query saw
          faults

batcherVars == <<queue, batch, flushes>>
storeVars == <<hash, score>>
peerVars == <<height, ordered, got, purges>>
vars == <<call, batcherVars, storeVars, peerVars, faults>>

NotYet == {"not yet"}
NoIds == [t \in {} |-> Unread]
-----------------------------------------------------------------------------
Init ==
    /\ call = [c \in Call |-> "idle"]
    /\ queue = << >> /\ batch = << >> /\ flushes = {}
    /\ hash = {} /\ score = [t \in {} |-> 0]
    /\ height = [p \in Peer |-> 0]
    /\ ordered = 0
    /\ got = [p \in Peer |-> NotYet]
    /\ purges = {}
    /\ faults = 0

Fault == faults < MaxFault /\ faults' = faults + 1

(* Faulty variant: a peer that leads purges as well.                       *)
AnyMinPeer(p) == p \in Peer

(* GetMinHeight: the first of the heights, ordered by height and peer id.  *)
MinPeer(p) ==
    \A q \in Peer : height[p] < height[q] \/ (height[p] = height[q] /\ p <= q)

-----------------------------------------------------------------------------
(* Faulty variant: the queue is not bounded.                               *)
UnboundedSet(c) ==
    /\ call[c] = "idle"
    /\ queue' = Append(queue, c) /\ call' = [call EXCEPT ![c] = "waiting"]
    /\ UNCHANGED <<batch, flushes, storeVars, peerVars, faults>>

(***************************************************************************)
(* The batcher. Persist of the store only logs the error of Set, so a call *)
(* that failed returns like one that was stored.                           *)
(***************************************************************************)
Set(c) ==
    /\ call[c] = "idle"
    /\ IF Len(queue) < QueueSize
       THEN queue' = Append(queue, c) /\ call' = [call EXCEPT ![c] = "waiting"]
       ELSE call' = [call EXCEPT ![c] = "failed"] /\ UNCHANGED queue
    /\ UNCHANGED <<batch, flushes, storeVars, peerVars, faults>>

Listen ==
    /\ queue # << >>
    /\ batch' = Append(batch, Head(queue))
    /\ queue' = Tail(queue)
    /\ UNCHANGED <<call, flushes, storeVars, peerVars, faults>>

Tick ==
    /\ batch # << >>
    /\ flushes' = flushes \cup {[calls |-> batch, min |-> Unread, sent |-> 0]}
    /\ batch' = << >>
    /\ UNCHANGED <<call, queue, storeVars, peerVars, faults>>

Answer(f, a) == call' = [c \in Call |-> IF c \in Range(f.calls) THEN a ELSE call[c]]

(* Faulty variant: the callers are not told that there is no height.       *)
SilentFlushMin(f) ==
    /\ f.min = Unread
    /\ \/ /\ \E p \in Peer :
               MinPeer(p) /\ flushes' = (flushes \ {f}) \cup {[f EXCEPT !.min = height[p]]}
          /\ UNCHANGED faults
       \/ /\ Fault
          /\ flushes' = flushes \ {f}
    /\ UNCHANGED <<call, queue, batch, storeVars, peerVars>>

(* GetMinHeight of a flush; without a height the whole batch fails.        *)
FlushMin(f) ==
    /\ f.min = Unread
    /\ \/ /\ \E p \in Peer :
               MinPeer(p) /\ flushes' = (flushes \ {f}) \cup {[f EXCEPT !.min = height[p]]}
          /\ UNCHANGED <<call, faults>>
       \/ /\ Fault
          /\ flushes' = flushes \ {f}
          /\ Answer(f, "failed")
    /\ UNCHANGED <<queue, batch, storeVars, peerVars>>

TxsOf(calls) == {TxOf[c] : c \in Range(calls)}

ZAdd(txs, h) == [t \in DOMAIN score \cup txs |-> IF t \in txs THEN h ELSE score[t]]

(* Exec: the hashes one by one, then the index by height.                  *)
PipeHSet(f) ==
    /\ f.min # Unread /\ f.sent < Len(f.calls)
    /\ hash' = hash \cup {TxOf[f.calls[f.sent + 1]]}
    /\ flushes' = (flushes \ {f}) \cup {[f EXCEPT !.sent = @ + 1]}
    /\ UNCHANGED <<call, queue, batch, score, peerVars, faults>>

PipeZAdd(f) ==
    /\ f.min # Unread /\ f.sent = Len(f.calls)
    /\ score' = ZAdd(TxsOf(f.calls), f.min)
    /\ flushes' = flushes \ {f}
    /\ Answer(f, "stored")
    /\ UNCHANGED <<queue, batch, hash, peerVars, faults>>

(* Exec returns an error after any number of commands, the last included.  *)
PipeFails(f) ==
    /\ f.min # Unread /\ Fault
    /\ flushes' = flushes \ {f}
    /\ Answer(f, "failed")
    /\ \/ UNCHANGED score
       \/ f.sent = Len(f.calls) /\ score' = ZAdd(TxsOf(f.calls), f.min)
    /\ UNCHANGED <<queue, batch, hash, peerVars>>
-----------------------------------------------------------------------------
(* A block is ordered once the endorsements of its transactions returned.  *)
Order ==
    /\ ordered < Len(Block)
    /\ \A c \in Call : TxOf[c] \in Block[ordered + 1] => call[c] \in {"stored", "failed"}
    /\ ordered' = ordered + 1
    /\ UNCHANGED <<call, batcherVars, storeVars, height, got, purges, faults>>

NextBlock(p) == height[p] + 1

TxsIn(n) == IF n \in DOMAIN Block THEN Block[n] ELSE {}

(* RetrievePvtdata: what the store, or its replica, has for the next block.*)
Retrieve(p) ==
    LET txs == TxsIn(NextBlock(p))
    IN  /\ got[p] = NotYet /\ NextBlock(p) <= ordered
        /\ \E seen \in SUBSET (txs \cap hash) :
             got' = [got EXCEPT ![p] = seen]
        /\ UNCHANGED <<call, batcherVars, storeVars, height, ordered, purges, faults>>

(* CommitLegacy of the block: ApplyUpdates publishes the height, and Purge *)
(* starts in a goroutine of its own. What is missing may have been pulled  *)
(* from other peers; the ids are purged if there was any private data.     *)
CommitBlock(p) ==
    /\ got[p] # NotYet
    /\ height' = [height EXCEPT ![p] = NextBlock(p)]
    /\ got' = [got EXCEPT ![p] = NotYet]
    /\ \E pulled \in SUBSET (TxsIn(NextBlock(p)) \ got[p]) :
         LET none == got[p] \cup pulled = {}
         IN  purges' = IF none /\ NextBlock(p) <= Retention THEN purges
                       ELSE purges \cup {[peer |-> p, block |-> NextBlock(p), ids |-> NoIds,
                                          pc |-> IF none THEN "height" ELSE "txids"]}
    /\ UNCHANGED <<call, batcherVars, storeVars, ordered, faults>>

Step(g, pc, ids) == purges' = (purges \ {g}) \cup {[g EXCEPT !.pc = pc, !.ids = ids]}

(* PurgeByTxids, before its deletion: only the slowest peer goes on.       *)
CheckTxids(g) ==
    /\ g.pc = "txids"
    /\ \/ /\ MinPeer(g.peer)
          /\ Step(g, "delete txids", [t \in TxsIn(g.block) |-> Unread])
          /\ UNCHANGED faults
       \/ /\ Fault \/ (~MinPeer(g.peer) /\ UNCHANGED faults)
          /\ Step(g, "height", NoIds)
    /\ UNCHANGED <<call, batcherVars, storeVars, height, ordered, got>>

Threshold(g) == g.block - Retention

(* PurgeBelowHeight, before its range query.                               *)
CheckHeight(g) ==
    /\ g.pc = "height"
    /\ \/ /\ g.block > Retention /\ MinPeer(g.peer)
          /\ Step(g, "range", NoIds)
          /\ UNCHANGED faults
       \/ /\ Fault \/ ((g.block <= Retention \/ ~MinPeer(g.peer)) /\ UNCHANGED faults)
          /\ purges' = purges \ {g}
    /\ UNCHANGED <<call, batcherVars, storeVars, height, ordered, got>>

(* ZRangeByScore from -inf to the threshold - 1.                           *)
Below(g) == Restrict(score, {t \in DOMAIN score : score[t] <= Threshold(g) - 1})

RangeBelow(g) ==
    /\ g.pc = "range"
    /\ \/ Step(g, "delete below", Below(g)) /\ UNCHANGED faults
       \/ Fault /\ purges' = purges \ {g}
    /\ UNCHANGED <<call, batcherVars, storeVars, height, ordered, got>>

(* The pipeline of either purge: the hashes, then the index entries. After *)
(* PurgeByTxids comes PurgeBelowHeight, also when it failed.               *)
Ended(g) ==
    IF g.pc \in {"delete txids", "unindex txids"}
    THEN Step(g, "height", NoIds) ELSE purges' = purges \ {g}

Del(g) ==
    /\ g.pc \in {"delete txids", "delete below"}
    /\ \/ /\ hash' = hash \ DOMAIN g.ids
          /\ Step(g, IF g.pc = "delete txids" THEN "unindex txids" ELSE "unindex below", g.ids)
          /\ UNCHANGED faults
       \/ /\ Fault /\ Ended(g)
          /\ UNCHANGED hash
    /\ UNCHANGED <<call, batcherVars, score, height, ordered, got>>

ZRem(g) ==
    /\ g.pc \in {"unindex txids", "unindex below"}
    /\ Ended(g)
    /\ \/ score' = Restrict(score, DOMAIN score \ DOMAIN g.ids) /\ UNCHANGED faults
       \/ Fault /\ UNCHANGED score
    /\ UNCHANGED <<call, batcherVars, hash, height, ordered, got>>
-----------------------------------------------------------------------------
Flush(f) == FlushMin(f) \/ PipeHSet(f) \/ PipeZAdd(f) \/ PipeFails(f)

Purge(g) == CheckTxids(g) \/ CheckHeight(g) \/ RangeBelow(g) \/ Del(g) \/ ZRem(g)

Next ==
    \/ \E c \in Call : Set(c)
    \/ Listen
    \/ Tick
    \/ \E f \in flushes : Flush(f)
    \/ Order
    \/ \E p \in Peer : Retrieve(p) \/ CommitBlock(p)
    \/ \E g \in purges : Purge(g)

Spec == Init /\ [][Next]_vars

(* The goroutines run, and blocks that were ordered are committed.         *)
FairSpec ==
    /\ Spec
    /\ WF_vars(Listen) /\ WF_vars(Tick)
    /\ WF_vars(\E f \in flushes : Flush(f))
    /\ WF_vars(\E g \in purges : Purge(g))
    /\ \A p \in Peer : WF_vars(Retrieve(p) \/ CommitBlock(p))
-----------------------------------------------------------------------------
Partial(S) == UNION {[D -> S] : D \in SUBSET Tx}

PurgePc == {"txids", "delete txids", "unindex txids", "height", "range",
            "delete below", "unindex below"}

TypeOK ==
    /\ call \in [Call -> {"idle", "waiting", "stored", "failed"}]
    /\ queue \in Seq(Call) /\ Len(queue) <= QueueSize /\ batch \in Seq(Call)
    /\ flushes \subseteq [calls : Seq(Call), min : {Unread} \cup 0 .. ordered, sent : Nat]
    /\ \A f \in flushes : f.sent <= Len(f.calls)
    /\ hash \subseteq Tx /\ score \in Partial(0 .. ordered)
    /\ height \in [Peer -> 0 .. ordered]
    /\ got \in [Peer -> {NotYet} \cup SUBSET Tx]
    /\ \A p \in Peer : got[p] # NotYet => NextBlock(p) <= ordered
    /\ ordered \in 0 .. Len(Block) /\ faults \in 0 .. MaxFault
    /\ purges \subseteq [peer : Peer, block : 0 .. ordered, ids : Partial(Unread .. ordered),
                         pc : PurgePc]

Committed(p, t) == \E n \in DOMAIN Block : t \in Block[n] /\ n <= height[p]

(***************************************************************************)
(* What a Purge goroutine relies on from its check to its deletion: its    *)
(* block is committed by every peer, the ids it will delete are those of   *)
(* the block, or were indexed below the threshold.                         *)
(***************************************************************************)
PurgeIsBehind ==
    \A g \in purges :
      /\ g.block <= height[g.peer]
      /\ g.pc \in {"delete txids", "range", "delete below"} =>
           \A p \in Peer : g.block <= height[p]
      /\ g.pc = "delete txids" => DOMAIN g.ids = TxsIn(g.block)
      /\ g.pc = "delete below" =>
           \A t \in DOMAIN g.ids : g.ids[t] <= Threshold(g) - 1

(***************************************************************************)
(* A hash is deleted only when every committing peer has committed its     *)
(* transaction, or when the range query saw it indexed at a height that    *)
(* even the slowest peer has left behind by more than the retention;       *)
(* whatever happens between the check of the slowest peer, the query and   *)
(* the deletion (PurgeByTxids, PurgeBelowHeight).                          *)
(***************************************************************************)
DeletedWhenDone ==
    [][\A t \in hash \ hash' :
         \/ \A p \in Peer : Committed(p, t)
         \/ \E g \in purges : /\ g.pc = "delete below" /\ t \in DOMAIN g.ids
                              /\ \A p \in Peer : g.ids[t] < height[p] - Retention]_vars

(* Every call of Set gets an answer, also when the flush of its batch fails*)
(* (ResponseChan of flushBatchToRedis).                                    *)
EveryCallReturns == \A c \in Call : call[c] = "waiting" ~> call[c] \in {"stored", "failed"}
=============================================================================
