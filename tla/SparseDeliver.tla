---------------------------- MODULE SparseDeliver ----------------------------
(***************************************************************************)
(* Delivery of org chains: SparseChain together with the deliver streams   *)
(* that read its chains through orgCacheIterator                           *)
(* (common/sparseblocks/sparseblockchain.go). A stream takes blocks from   *)
(* the cache or has them rebuilt from the stores, and sleeps on a          *)
(* condition variable until the heads it can see reach the next block.     *)
(*                                                                         *)
(* Numbers are unsigned 64-bit in the code: Height() - 1 wraps at height 0 *)
(* to MaxUint64, which stands here for any number above every height.      *)
(***************************************************************************)
EXTENDS SparseChain, Integers, FiniteSets

CONSTANTS Readers,    \* deliver streams
          MaxUint64,  \* what 0 - 1 wraps to
          MaxSeen     \* bound: deliveries the history remembers

ASSUME ReadersAssumption ==
    /\ MaxUint64 \in Nat /\ MaxUint64 > MaxFat + 1
    /\ MaxSeen \in Nat

VARIABLES reader,     \* reader -> its iterator
          delivered   \* history: some of what was ever handed to a peer

dvars == <<vars, reader, delivered>>

(* Faulty variant: the subtraction is taken to be signed.                  *)
SignedWrap(n) == 0 - 1 + n

(* Height() - 1 in unsigned arithmetic.                                    *)
Wrap(n) == IF n = 0 THEN MaxUint64 ELSE n - 1

(* OrgChainStore.Height.                                                   *)
OrgHeight(c) ==
    IF c \in DOMAIN VisibleHeader.heads THEN VisibleHeader.heads[c].num + 1 ELSE 0

Closed == [pc |-> "closed", chain |-> ChannelChain, num |-> 0, max |-> 0]

(* The two ways on in Next: the block is known to exist, or is awaited.    *)
AtNext(c, num, max) ==
    [pc |-> IF max < num THEN "check" ELSE "get", chain |-> c, num |-> num, max |-> max]
-----------------------------------------------------------------------------
(***************************************************************************)
(* The block Get returns: the cached one; up to the savepoint the fat      *)
(* block; otherwise the one assembleOrgBlock makes from the stored         *)
(* details, whose block type is not restored and whose SPARSE_TXN_FILTER   *)
(* is not wrapped in a Metadata message.                                   *)
(***************************************************************************)
FatBlock(n) ==
    [num |-> n, prev |-> SubSeq(FatHash(n), 1, n), data |-> FatData(n),
     lastConfig |-> FatLastConfig(n), btype |-> "message",
     wrapped |-> FALSE, filter |-> << >>]

AssembledBlock(c, k) ==
    LET d == StoredDetails(c, k)
    IN  [num |-> d.num, prev |-> d.prev, data |-> d.data,
         lastConfig |-> d.lastConfig, btype |-> "message",
         wrapped |-> FALSE, filter |-> d.filter]

GetBlock(c, k) ==
    IF <<c, k>> \in DOMAIN cache THEN cache[<<c, k>>]
    ELSE IF k <= savepoint THEN FatBlock(k)
    ELSE AssembledBlock(c, k)

(* extractSparseFilter on the peer: block 0 has none, an unwrapped filter  *)
(* unmarshals to an empty Metadata value and counts as missing.            *)
PeerFilter(b) == IF b.num # 0 /\ b.wrapped THEN <<b.data[1], b.filter>> ELSE << >>

(* The height a peer commits the i-th transaction of the block at          *)
(* (validateAndPrepareLtxBatch).                                           *)
CommitHeight(b, i) ==
    IF PeerFilter(b) # << >> THEN <<b.data[1], b.data[2][i]>> ELSE <<b.num, i>>

Delivery(c, b) ==
    [chain |-> c, num |-> b.num, hash |-> HeaderHash(b.prev, b.num, b.data),
     heights |-> [i \in 1 .. Len(b.data[2]) |-> CommitHeight(b, i)]]
-----------------------------------------------------------------------------
DInit == Init /\ reader = [r \in Readers |-> Closed] /\ delivered = {}

(***************************************************************************)
(* A stream is opened: oldest, newest, next commit or a given number that  *)
(* is not above the height. The genesis block has been appended.           *)
(***************************************************************************)
OpenStream(r, c, start) ==
    /\ pc # "panic" /\ fat # << >> /\ reader[r].pc = "closed"
    /\ start \in 0 .. OrgHeight(c) \cup {Wrap(OrgHeight(c))}
    /\ reader' = [reader EXCEPT ![r] = AtNext(c, start, Wrap(OrgHeight(c)))]
    /\ UNCHANGED <<vars, delivered>>

(* Faulty variant: the condition lets the block at the height through.     *)
EarlyCheckHeight(r) ==
    /\ pc # "panic" /\ reader[r].pc = "check"
    /\ LET height == OrgHeight(reader[r].chain)
       IN  reader' = IF height < reader[r].num
                     THEN [reader EXCEPT ![r].pc = "park"]
                     ELSE [reader EXCEPT ![r].pc = "get", ![r].max = reader[r].num]
    /\ UNCHANGED <<vars, delivered>>

(* One evaluation of the loop condition of waitForBlock, without the lock. *)
CheckHeight(r) ==
    /\ pc # "panic" /\ reader[r].pc = "check"
    /\ LET height == OrgHeight(reader[r].chain)
       IN  reader' = IF height <= reader[r].num
                     THEN [reader EXCEPT ![r].pc = "park"]
                     ELSE [reader EXCEPT ![r].pc = "get", ![r].max = height - 1]
    /\ UNCHANGED <<vars, delivered>>

(* L.Lock and Wait: from here on a Broadcast reaches the stream.           *)
Park(r) ==
    /\ pc # "panic" /\ reader[r].pc = "park"
    /\ reader' = [reader EXCEPT ![r].pc = "asleep"]
    /\ UNCHANGED <<vars, delivered>>

(***************************************************************************)
(* The block is fetched and handed out. When the stores have no details    *)
(* for it, assembleOrgBlock dereferences nil and the process panics.       *)
(***************************************************************************)
Present(c, k) == <<c, k>> \in DOMAIN cache \/ InStores(c, k)

GetNext(r) ==
    LET c == reader[r].chain
        k == reader[r].num
    IN  /\ pc # "panic" /\ reader[r].pc = "get"
        /\ \/ /\ Present(c, k)
              /\ \/ delivered' = delivered
                 \/ /\ Cardinality(delivered) < MaxSeen
                    /\ delivered' = delivered \cup {Delivery(c, GetBlock(c, k))}
              /\ reader' = [reader EXCEPT ![r] = AtNext(c, k + 1, @.max)]
              /\ UNCHANGED vars
           \/ /\ ~Present(c, k)
              /\ pc' = "panic"
              /\ UNCHANGED <<ledgerVars, storeVars, cache, container, chHeader, isStart,
                             cur, syncTo, out, todo, boundVars, reader, delivered>>

(* The peer goes away.                                                     *)
CloseStream(r) ==
    /\ pc # "panic" /\ reader[r].pc # "closed"
    /\ reader' = [reader EXCEPT ![r] = Closed]
    /\ UNCHANGED <<vars, delivered>>

(* Faulty variant: the heads are published without a Broadcast.            *)
SilentPublish == PublishHeads /\ UNCHANGED <<reader, delivered>>

(* PublishHeads holds the condition's lock while it broadcasts.            *)
PublishAndWake ==
    /\ PublishHeads
    /\ reader' = [r \in Readers |->
                    IF reader[r].pc = "asleep"
                    THEN [reader[r] EXCEPT !.pc = "check"] ELSE reader[r]]
    /\ UNCHANGED delivered

RestartAll ==
    /\ Restart
    /\ reader' = [r \in Readers |-> Closed]
    /\ UNCHANGED delivered

(* The steps of SparseChain that readers only see in its state.            *)
ChainStep ==
    /\ \/ \E b \in Bodies \cup {GenesisBody} : AddBlock(b)
       \/ SendBlock
       \/ Processor /\ pc # "publish"
       \/ StoreFailure \/ CreateFailure
       \/ \E e \in DOMAIN cache : Evict(e)
    /\ UNCHANGED <<reader, delivered>>

ReaderStep(r) == CheckHeight(r) \/ Park(r) \/ GetNext(r)

DNext ==
    \/ ChainStep
    \/ PublishAndWake
    \/ RestartAll
    \/ \E r \in Readers :
         \/ \E c \in ConfigOrgList, s \in 0 .. MaxFat \cup {MaxUint64} : OpenStream(r, c, s)
         \/ ReaderStep(r)
         \/ CloseStream(r)

DSpec == DInit /\ [][DNext]_dvars

(* Every goroutine is scheduled again; streams stay open while they may.   *)
FairDSpec ==
    /\ DSpec
    /\ WF_dvars(SendBlock /\ UNCHANGED <<reader, delivered>>)
    /\ WF_dvars((Processor /\ pc # "publish" /\ UNCHANGED <<reader, delivered>>)
                \/ PublishAndWake)
    /\ \A r \in Readers : WF_dvars(ReaderStep(r))
-----------------------------------------------------------------------------
(* An iterator is in one of its states, at numbers of the width modelled.  *)
DTypeOK ==
    reader \in [Readers -> [pc : {"closed", "check", "park", "asleep", "get"},
                            chain : ConfigOrgList,
                            num : 0 .. MaxUint64, max : 0 .. MaxUint64]]

(***************************************************************************)
(* No fork: a block handed to a peer before its head was saved, or from a  *)
(* cache, is the block that the saved chain has at that number, now and    *)
(* after any crash and reprocessing.                                       *)
(***************************************************************************)
DeliveredIsSaved ==
    \A d \in delivered :
        d.num \in BlocksOf(headDB, d.chain) => d.hash = StoredHash(d.chain, d.num)

(***************************************************************************)
(* A stream that learnt a height of its chain (no wrapped subtraction)     *)
(* asks only for blocks that the cache or the stores have.                 *)
(***************************************************************************)
KnownHeightIsPresent ==
    \A r \in Readers :
        reader[r].pc = "get" /\ reader[r].max # MaxUint64
            => Present(reader[r].chain, reader[r].num)

(***************************************************************************)
(* A peer commits the transactions of a block at the same heights whether  *)
(* the block came from the cache or was assembled again.                   *)
(***************************************************************************)
AssembledIsSameBlock ==
    \A r \in Readers, d \in delivered :
        LET now == Delivery(d.chain, GetBlock(d.chain, d.num))
        IN  /\ reader[r].pc = "get"
            /\ reader[r].chain = d.chain /\ reader[r].num = d.num
            /\ Present(d.chain, d.num) /\ now.hash = d.hash
            => now.heights = d.heights

(***************************************************************************)
(* A stream that is asleep when heads reaching its block are published is  *)
(* woken and gets the block, unless it is closed or the process restarts.  *)
(***************************************************************************)
SleeperIsServed ==
    \A r \in Readers, n \in 0 .. MaxFat :
        (/\ reader[r].pc = "asleep" /\ reader[r].num = n
         /\ pc = "publish" /\ reader[r].chain \in DOMAIN chHeader.heads
         /\ chHeader.heads[reader[r].chain].num >= n)
            ~> (reader[r].num > n \/ reader[r].pc = "closed" \/ pc = "panic")

(***************************************************************************)
(* waitForBlock returns once the block it waits for is reached.            *)
(***************************************************************************)
WaitEnds ==
    \A r \in Readers, n \in 0 .. MaxFat :
        (/\ reader[r].pc \in {"check", "park", "asleep"} /\ reader[r].num = n
         /\ OrgHeight(reader[r].chain) > n)
            ~> (reader[r].pc \in {"get", "closed"} \/ reader[r].num # n)
=============================================================================
