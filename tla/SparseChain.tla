----------------------------- MODULE SparseChain -----------------------------
(***************************************************************************)
(* The sparse-block processor of one channel of the ordering node          *)
(* (common/sparseblocks, common/ledger/blockledger/fileledger).            *)
(*                                                                         *)
(* The consenter appends fat blocks to the file ledger; each appended      *)
(* block is also sent through the bounded channel sparseCh to a goroutine, *)
(* processFatBlocks, which splits it into one block per org chain (the     *)
(* chain of the channel, which committing peers follow, and the chain      *)
(* "lpeer", which lite peers follow), stores an index and the data needed  *)
(* to rebuild the blocks, publishes the new heads to readers and finally   *)
(* saves them. Only the fat ledger and the stores survive a crash.         *)
(*                                                                         *)
(* Blocks are numbered from 0; block n of the fat ledger is fat[n + 1] and *)
(* is the sequence of its transactions.                                    *)
(***************************************************************************)
EXTENDS OrgRouting, OrdererMVCC

CONSTANTS Txns,            \* transactions
          GenesisBody,     \* transactions of block 0
          Bodies,          \* transactions of the blocks that may follow
          VanillaLedgers,  \* ledgers the node may have had before the processor
          MvccApplicable,  \* the orderer's MvccEnabled setting
          QuietSwitch,     \* TRUE: nothing is appended while chains are begun
          ChanCap,         \* sparseChanBufferSize
          MaxFat,          \* bound: blocks ever appended
          MaxCrash,        \* bound: crashes of the process
          MaxFault         \* bound: failed writes to the metadata store

ASSUME TxnsAssumption ==
    \A tx \in Txns :
        /\ tx.type \in {"config", "lifecycle", "endorser", "other"}
        /\ tx.orgs \subseteq Chains
        /\ tx.writes \subseteq Keys
        /\ ~HasRWSet(tx) => tx.writes = {} /\ DOMAIN tx.reads = {}

ASSUME BodiesAssumption ==
    /\ Bodies \cup {GenesisBody} \subseteq Seq(Txns) \ {<< >>}
    /\ VanillaLedgers \subseteq Seq(Bodies \cup {GenesisBody})
    /\ \A l \in VanillaLedgers : l # << >> => l[1] = GenesisBody
    /\ \A l \in VanillaLedgers : Len(l) <= MaxFat
    /\ Len(GenesisBody) = 1 /\ GenesisBody[1].type = "config"

ASSUME ParametersAssumption ==
    /\ MvccApplicable \in BOOLEAN /\ QuietSwitch \in BOOLEAN
    /\ ChanCap \in Nat \ {0}
    /\ MaxFat \in Nat /\ MaxCrash \in Nat /\ MaxFault \in Nat

VARIABLES
    fat,        \* the fat ledger (persistent)
    sending,    \* Append is between AddBlock and "sparseCh <- block"
    sparseCh,   \* the channel's buffer: fat block numbers
    headDB,     \* persisted ChannelHeadInfo
    index,      \* persisted <<chain, org block number>> -> fat block number
    merkle,     \* persisted fat block number -> (chain -> OrgBlockDetails)
    savepoint,  \* persisted savepoint; 0 when there is none
    versions,   \* the orderer's version database
    cache,      \* per-chain block caches: <<chain, number>> -> org block
    container,  \* channelHeaderContainer: the heads readers see
    pc,         \* where processFatBlocks is
    chHeader,   \* its chHeader; newChHeader while a block is stored
    isStart,    \* its isSparseChainStart
    cur,        \* number of the fat block it is working on
    syncTo,     \* number of the fat block it received
    out,        \* org blocks made of cur and not yet published
    todo,       \* chains whose block of out is still to be stored
    crashes,    \* crashes so far
    faults      \* failed writes so far

ledgerVars == <<fat, sending, sparseCh>>
storeVars  == <<headDB, index, merkle, savepoint, versions>>
procVars   == <<pc, chHeader, isStart, cur, syncTo, out, todo>>
boundVars  == <<crashes, faults>>
vars == <<ledgerVars, storeVars, cache, container, procVars, boundVars>>
-----------------------------------------------------------------------------
(* A write to a key-value store.                                           *)
Put(f, x, v) == [y \in DOMAIN f \cup {x} |-> IF y = x THEN v ELSE f[y]]

EmptyMap == [x \in {} |-> 0]

(* The zero ChannelHeadInfoProto: no head at all.                          *)
EmptyHeader == [last |-> 0, heads |-> EmptyMap]

HasHeads(h) == DOMAIN h.heads # {}

Height == Len(fat)

(***************************************************************************)
(* Block hashes. A collision-free hash of a header (number, previous hash, *)
(* data hash) determines all the headers before it: it is modelled as the  *)
(* sequence of <<number, data>> pairs it covers. The data of a block is    *)
(* named by the fat block it comes from and the indices taken from it.     *)
(***************************************************************************)
HeaderHash(prev, num, data) == Append(prev, <<num, data>>)

FatData(n) == <<n, [i \in 1 .. Len(fat[n + 1]) |-> i]>>

FatHash(n) == [i \in 1 .. n + 1 |-> <<i - 1, FatData(i - 1)>>]

IsConfigBlock(n) == Len(fat[n + 1]) = 1 /\ fat[n + 1][1].type = "config"

(* The LAST_CONFIG index the block writer puts into fat block n.           *)
FatLastConfig(n) ==
    CHOOSE m \in 0 .. n :
        IsConfigBlock(m) /\ \A k \in m + 1 .. n : ~IsConfigBlock(k)
-----------------------------------------------------------------------------
(* orgBlock.BlockType as createOrgBlocks sets it.                          *)
BlockType(n) ==
    CASE IsConfigBlock(n) -> "config"
      [] ~IsConfigBlock(n) /\ \E i \in 1 .. Len(fat[n + 1]) :
                                 fat[n + 1][i].type = "lifecycle" -> "lifecycle"
      [] OTHER -> "message"

(***************************************************************************)
(* The header createOrgBlocks starts from. Without heads the two chains    *)
(* begin at the savepoint block, whose number and hash become their heads; *)
(* a chain of block 0 begins empty.                                        *)
(***************************************************************************)
BaseHeader(n) ==
    IF HasHeads(chHeader) \/ n = 0
    THEN chHeader
    ELSE [last  |-> savepoint,
          heads |-> [c \in ConfigOrgList |->
              [num        |-> savepoint,
               hash       |-> FatHash(savepoint),
               src        |-> savepoint,
               lastConfig |-> IF IsConfigBlock(savepoint)
                              THEN n ELSE FatLastConfig(savepoint)]]]

(* createNextBlock: the block after the head of its chain, if it has one.  *)
CreateNextBlock(c, n, base) ==
    [num  |-> IF c \in DOMAIN base.heads THEN base.heads[c].num + 1 ELSE 0,
     prev |-> IF c \in DOMAIN base.heads THEN base.heads[c].hash ELSE << >>,
     data |-> <<n, TxnIdxList(c, fat[n + 1])>>]

(* addMetadataFields: LAST_CONFIG and the filter, wrapped in a Metadata.   *)
AddMetadataFields(b, btype, lastConfig, filter) ==
    [num |-> b.num, prev |-> b.prev, data |-> b.data, btype |-> btype,
     lastConfig |-> lastConfig, wrapped |-> TRUE, filter |-> filter]

(* Faulty variant: the number of the fat block is the last configuration.  *)
FatNumberOrgBlock(c, n, base, status) ==
    LET b    == CreateNextBlock(c, n, base)
        idxs == b.data[2]
    IN  AddMetadataFields(b, BlockType(n),
                          IF IsConfigBlock(n) THEN n ELSE base.heads[c].lastConfig,
                          [i \in 1 .. Len(idxs) |-> status[idxs[i]]])

(* storeOrgBlockSkeleton: a config block is its own last configuration.    *)
MakeOrgBlock(c, n, base, status) ==
    LET b    == CreateNextBlock(c, n, base)
        idxs == b.data[2]
    IN  AddMetadataFields(b, BlockType(n),
                          IF IsConfigBlock(n) THEN b.num ELSE base.heads[c].lastConfig,
                          [i \in 1 .. Len(idxs) |-> status[idxs[i]]])

(* Faulty variant: the head keeps the previous hash of its block.          *)
StaleHeadOfBlock(b, n) ==
    [num |-> b.num, hash |-> b.prev, src |-> n, lastConfig |-> b.lastConfig]

(* The new head of the chain that block b extends.                         *)
HeadOfBlock(b, n) ==
    [num        |-> b.num,
     hash       |-> HeaderHash(b.prev, b.num, b.data),
     src        |-> n,
     lastConfig |-> b.lastConfig]

(* newChHeader, from the header the blocks were made with.                 *)
NewHeader(base, blocks, n) ==
    [last  |-> n,
     heads |-> [c \in DOMAIN base.heads \cup DOMAIN blocks |->
                  IF c \in DOMAIN blocks
                  THEN HeadOfBlock(blocks[c], n) ELSE base.heads[c]]]

(* Faulty variant: the block's own hash is kept as its previous hash.      *)
OwnHashDetails(b) ==
    [num |-> b.num, prev |-> HeaderHash(b.prev, b.num, b.data), data |-> b.data,
     lastConfig |-> b.lastConfig, filter |-> b.filter]

(* OrgBlockDetailsProto: what is kept of an org block besides its cache    *)
(* entry; its transactions are only named by their indices.                *)
Details(b) ==
    [num |-> b.num, prev |-> b.prev, data |-> b.data,
     lastConfig |-> b.lastConfig, filter |-> b.filter]
-----------------------------------------------------------------------------
Init ==
    /\ fat \in VanillaLedgers /\ sending = FALSE /\ sparseCh = << >>
    /\ headDB = EmptyHeader
    /\ index = EmptyMap /\ merkle = EmptyMap /\ savepoint = 0
    /\ versions = EmptyMap
    /\ cache = EmptyMap
    /\ container = EmptyHeader
    /\ pc = "boot" /\ chHeader = EmptyHeader /\ isStart = FALSE
    /\ cur = 0 /\ syncTo = 0 /\ out = EmptyMap /\ todo = {}
    /\ crashes = 0 /\ faults = 0

(***************************************************************************)
(* Environment assumption of QuietSwitch: from the moment a process starts *)
(* on a ledger that has blocks and no saved heads, until heads are saved,  *)
(* the consenter appends at most the one block the processor waits for.    *)
(***************************************************************************)
MayAppend ==
    \/ ~QuietSwitch
    \/ Height = 0
    \/ HasHeads(headDB)
    \/ Height = 1 /\ pc # "boot"

(* FileLedger.Append, first half: the block is on disk.                    *)
AddBlock(b) ==
    /\ pc # "panic" /\ ~sending
    /\ Height < MaxFat /\ MayAppend
    /\ fat = << >> => b = GenesisBody
    /\ fat' = Append(fat, b)
    /\ sending' = TRUE
    /\ UNCHANGED <<sparseCh, storeVars, cache, container, procVars, boundVars>>

(* Faulty variant: the send does not wait for room in the channel.         *)
UnboundedSendBlock ==
    /\ pc # "panic" /\ sending
    /\ sparseCh' = Append(sparseCh, Height - 1)
    /\ sending' = FALSE
    /\ UNCHANGED <<fat, storeVars, cache, container, procVars, boundVars>>

(* FileLedger.Append, second half: blocks while the channel is full.       *)
SendBlock ==
    /\ pc # "panic" /\ sending
    /\ Len(sparseCh) < ChanCap
    /\ sparseCh' = Append(sparseCh, Height - 1)
    /\ sending' = FALSE
    /\ UNCHANGED <<fat, storeVars, cache, container, procVars, boundVars>>

(* Faulty variant: the number of the last block is not restored.           *)
ForgetfulStartProcessor ==
    /\ pc = "boot"
    /\ chHeader' = [headDB EXCEPT !.last = 0]
    /\ isStart' = (~HasHeads(headDB) /\ Height >= 2)
    /\ cur' = IF ~HasHeads(headDB) /\ Height >= 2 THEN Height - 1 ELSE cur
    /\ pc' = "loop"
    /\ UNCHANGED <<ledgerVars, storeVars, cache, container, syncTo, out, todo, boundVars>>

(***************************************************************************)
(* processFatBlocks up to its loop. GetLastProcessedBlk seeks Height - 2;  *)
(* below height 2 the subtraction wraps and the seek finds nothing.        *)
(***************************************************************************)
StartProcessor ==
    /\ pc = "boot"
    /\ chHeader' = headDB
    /\ isStart' = (~HasHeads(headDB) /\ Height >= 2)
    /\ cur' = IF ~HasHeads(headDB) /\ Height >= 2 THEN Height - 1 ELSE cur
    /\ pc' = "loop"
    /\ UNCHANGED <<ledgerVars, storeVars, cache, container, syncTo, out, todo, boundVars>>

(* The first pass of the loop after a switch reads the ledger itself.      *)
ReadStartBlock ==
    /\ pc = "loop" /\ isStart
    /\ isStart' = FALSE
    /\ syncTo' = cur
    /\ pc' = "savepoint"
    /\ UNCHANGED <<ledgerVars, storeVars, cache, container, chHeader, cur, out, todo, boundVars>>

(* Faulty variant: blocks missed while the process was down are skipped.   *)
GapReceiveBlock ==
    /\ pc = "loop" /\ ~isStart
    /\ sparseCh # << >>
    /\ sparseCh' = Tail(sparseCh)
    /\ syncTo' = Head(sparseCh)
    /\ cur' = Head(sparseCh)
    /\ pc' = "savepoint"
    /\ UNCHANGED <<fat, sending, storeVars, cache, container, chHeader, isStart, out, todo, boundVars>>

(***************************************************************************)
(* "fatBlock = <-sparseCh": a block beyond the next one makes syncOrderer  *)
(* work through the ledger up to it; a block at or below the last one      *)
(* processed is not told apart and is processed again.                     *)
(***************************************************************************)
ReceiveBlock ==
    /\ pc = "loop" /\ ~isStart
    /\ sparseCh # << >>
    /\ sparseCh' = Tail(sparseCh)
    /\ syncTo' = Head(sparseCh)
    /\ cur' = IF Head(sparseCh) > chHeader.last + 1
              THEN chHeader.last + 1 ELSE Head(sparseCh)
    /\ pc' = "savepoint"
    /\ UNCHANGED <<fat, sending, storeVars, cache, container, chHeader, isStart, out, todo, boundVars>>

(* createOrgBlocks without heads: the savepoint is taken from the height   *)
(* the ledger has by now, and is persisted before anything else.           *)
AppendSavePoint ==
    /\ pc = "savepoint"
    /\ savepoint' = IF ~HasHeads(chHeader) /\ cur # 0 THEN Height - 2 ELSE savepoint
    /\ pc' = "create"
    /\ UNCHANGED <<ledgerVars, headDB, index, merkle, versions, cache, container,
                   chHeader, isStart, cur, syncTo, out, todo, boundVars>>

(***************************************************************************)
(* The rest of createOrgBlocks: the versions of the block are applied,     *)
(* then the org blocks are made. A chain with no head yet makes            *)
(* storeOrgBlockSkeleton dereference a nil head, except in a config block. *)
(***************************************************************************)
CreateOrgBlocks ==
    LET body == fat[cur + 1]
        base == BaseHeader(cur)
        res  == ValidateBlock(versions, cur, body)
        status == IF MvccApplicable THEN res.status
                  ELSE [i \in 1 .. Len(body) |-> "VALID"]
    IN  /\ pc = "create"
        /\ versions' = IF MvccApplicable THEN ApplyBatch(versions, res.written) ELSE versions
        /\ IF IsConfigBlock(cur) \/ TouchedChains(body) \subseteq DOMAIN base.heads
           THEN /\ out' = [c \in TouchedChains(body) |-> MakeOrgBlock(c, cur, base, status)]
                /\ todo' = TouchedChains(body)
                /\ chHeader' = NewHeader(base, out', cur)
                /\ pc' = "store"
           ELSE /\ pc' = "panic"
                /\ UNCHANGED <<out, todo, chHeader>>
        /\ UNCHANGED <<ledgerVars, headDB, index, merkle, savepoint, cache, container,
                       isStart, cur, syncTo, boundVars>>

(* storeBlockData, one org block: the cache, then the persistent index.    *)
StoreOrgBlock(c) ==
    /\ pc = "store" /\ c \in todo
    /\ cache' = Put(cache, <<c, out[c].num>>, out[c])
    /\ index' = Put(index, <<c, out[c].num>>, cur)
    /\ todo' = todo \ {c}
    /\ UNCHANGED <<ledgerVars, headDB, merkle, savepoint, versions, container,
                   pc, chHeader, isStart, cur, syncTo, out, boundVars>>

(* Faulty variant: the details are stored under the last saved number.     *)
MisfiledMerkleInfo ==
    /\ pc = "store" /\ todo = {}
    /\ merkle' = Put(merkle, headDB.last, [c \in DOMAIN out |-> Details(out[c])])
    /\ pc' = "publish"
    /\ UNCHANGED <<ledgerVars, headDB, index, savepoint, versions, cache, container,
                   chHeader, isStart, cur, syncTo, out, todo, boundVars>>

(* storeBlockData, the details of all org blocks of the fat block.         *)
AppendOrgMerkleInfo ==
    /\ pc = "store" /\ todo = {}
    /\ merkle' = Put(merkle, cur, [c \in DOMAIN out |-> Details(out[c])])
    /\ pc' = "publish"
    /\ UNCHANGED <<ledgerVars, headDB, index, savepoint, versions, cache, container,
                   chHeader, isStart, cur, syncTo, out, todo, boundVars>>

(* The heads become visible to readers, who are woken by the Broadcast.    *)
PublishHeads ==
    /\ pc = "publish"
    /\ container' = chHeader
    /\ pc' = "save"
    /\ UNCHANGED <<ledgerVars, storeVars, cache, chHeader, isStart, cur, syncTo, out, todo, boundVars>>

(* Faulty variant: syncOrderer ends after its first block.                 *)
SingleSyncSave ==
    /\ pc = "save"
    /\ headDB' = chHeader
    /\ pc' = "loop"
    /\ out' = EmptyMap
    /\ UNCHANGED <<ledgerVars, index, merkle, savepoint, versions, cache, container,
                   chHeader, isStart, cur, syncTo, todo, boundVars>>

(* SaveChannelHeadInfo, then the next block of a sync or the next receive. *)
SaveChannelHeadInfo ==
    /\ pc = "save"
    /\ headDB' = chHeader
    /\ cur' = IF cur < syncTo THEN cur + 1 ELSE cur
    /\ pc' = IF cur < syncTo THEN "savepoint" ELSE "loop"
    /\ out' = EmptyMap
    /\ UNCHANGED <<ledgerVars, index, merkle, savepoint, versions, cache, container,
                   chHeader, isStart, syncTo, todo, boundVars>>

(***************************************************************************)
(* A write of storeBlockData fails: the goroutine ends, or, inside         *)
(* syncOrderer, panics. An org block whose index is not written is in the  *)
(* cache already.                                                          *)
(***************************************************************************)
StoreFailure ==
    /\ pc \in {"store", "save"} /\ faults < MaxFault
    /\ faults' = faults + 1
    /\ \/ pc = "store" /\ \E c \in todo : cache' = Put(cache, <<c, out[c].num>>, out[c])
       \/ (pc = "store" => todo = {}) /\ cache' = cache
    /\ pc' = IF cur < syncTo THEN "panic" ELSE "stopped"
    /\ UNCHANGED <<ledgerVars, storeVars, container,
                   chHeader, isStart, cur, syncTo, out, todo, crashes>>

(* A write of createOrgBlocks, the savepoint or the batch of versions,     *)
(* fails and the process panics.                                           *)
CreateFailure ==
    /\ \/ pc = "savepoint" /\ ~HasHeads(chHeader) /\ cur # 0
       \/ pc = "create" /\ MvccApplicable
    /\ faults < MaxFault
    /\ faults' = faults + 1
    /\ pc' = "panic"
    /\ UNCHANGED <<ledgerVars, storeVars, cache, container,
                   chHeader, isStart, cur, syncTo, out, todo, crashes>>

(* fastcache drops an entry when it needs the room.                        *)
Evict(e) ==
    /\ e \in DOMAIN cache
    /\ cache' = [x \in DOMAIN cache \ {e} |-> cache[x]]
    /\ UNCHANGED <<ledgerVars, storeVars, container, procVars, boundVars>>

(* The process ends, by a crash or a panic, and is started again.          *)
Restart ==
    /\ \/ pc = "panic" /\ crashes' = crashes
       \/ pc # "panic" /\ crashes < MaxCrash /\ crashes' = crashes + 1
    /\ sending' = FALSE /\ sparseCh' = << >>
    /\ cache' = EmptyMap /\ container' = EmptyHeader
    /\ pc' = "boot" /\ chHeader' = EmptyHeader /\ isStart' = FALSE
    /\ cur' = 0 /\ syncTo' = 0 /\ out' = EmptyMap /\ todo' = {}
    /\ UNCHANGED <<fat, storeVars, faults>>

(* The steps of processFatBlocks.                                          *)
Processor ==
    \/ StartProcessor \/ ReadStartBlock \/ ReceiveBlock
    \/ AppendSavePoint \/ CreateOrgBlocks
    \/ \E c \in Chains : StoreOrgBlock(c)
    \/ AppendOrgMerkleInfo \/ PublishHeads \/ SaveChannelHeadInfo

Next ==
    \/ \E b \in Bodies \cup {GenesisBody} : AddBlock(b)
    \/ SendBlock
    \/ Processor
    \/ StoreFailure \/ CreateFailure
    \/ \E e \in DOMAIN cache : Evict(e)
    \/ Restart

Spec == Init /\ [][Next]_vars

(* The goroutines that append and that process are always scheduled again. *)
FairSpec == Spec /\ WF_vars(SendBlock) /\ WF_vars(Processor)
-----------------------------------------------------------------------------
(***************************************************************************)
(* What the stores say about block k of chain c when it is not in the      *)
(* cache (retriveOrgBlockByNum): up to the savepoint it is the fat block   *)
(* itself, after it the index names the fat block it was cut from.         *)
(***************************************************************************)
InStores(c, k) ==
    IF k <= savepoint
    THEN k < Height
    ELSE /\ <<c, k>> \in DOMAIN index
         /\ index[<<c, k>>] < Height
         /\ index[<<c, k>>] \in DOMAIN merkle
         /\ c \in DOMAIN merkle[index[<<c, k>>]]

StoredDetails(c, k) == merkle[index[<<c, k>>]][c]

StoredData(c, k) == IF k <= savepoint THEN FatData(k) ELSE StoredDetails(c, k).data

StoredHash(c, k) ==
    IF k <= savepoint THEN FatHash(k)
    ELSE HeaderHash(StoredDetails(c, k).prev, k, StoredDetails(c, k).data)

(* The heads a reader sees (OrgChainStore.Height).                         *)
VisibleHeader == IF HasHeads(container) THEN container ELSE headDB

(* Numbers of the blocks of chain c up to its head in header h.            *)
BlocksOf(h, c) == IF c \in DOMAIN h.heads THEN 0 .. h.heads[c].num ELSE {}
-----------------------------------------------------------------------------
(* Every variable has the type of the field or the store it stands for.    *)
TypeOK ==
    /\ fat \in Seq(Bodies \cup {GenesisBody}) /\ Height <= MaxFat
    /\ sending \in BOOLEAN
    /\ sparseCh \in Seq(Nat) /\ Len(sparseCh) <= ChanCap
    /\ DOMAIN index \subseteq Chains \X Nat
    /\ \A e \in DOMAIN index : index[e] \in Nat
    /\ DOMAIN merkle \subseteq Nat
    /\ savepoint \in Nat
    /\ DOMAIN cache \subseteq Chains \X Nat
    /\ pc \in {"boot", "loop", "savepoint", "create", "store", "publish",
               "save", "stopped", "panic"}
    /\ isStart \in BOOLEAN
    /\ cur \in Nat /\ syncTo \in Nat
    /\ todo \subseteq Chains
    /\ crashes \in 0 .. MaxCrash /\ faults \in 0 .. MaxFault
    /\ \A h \in {headDB, container, chHeader} :
          /\ h.last \in Nat
          /\ DOMAIN h.heads \subseteq Chains
          /\ \A c \in DOMAIN h.heads : h.heads[c].num \in Nat

(***************************************************************************)
(* Every block a reader may ask for, below the published heads and below   *)
(* the saved ones, can be rebuilt from the stores at any moment, whatever  *)
(* was evicted and wherever the process stopped; assembleOrgBlock has no   *)
(* error path of its own and dereferences what it looks up.                *)
(***************************************************************************)
Retrievable ==
    \A h \in {headDB, container} : \A c \in Chains :
        \A k \in BlocksOf(h, c) :
            /\ InStores(c, k)
            /\ k > savepoint => StoredDetails(c, k).num = k

(***************************************************************************)
(* Each org chain is linked by hashes as it is served: the previous hash   *)
(* kept for a block is the hash of the block before it, across the         *)
(* boundary of the savepoint too, and the head holds the hash of the last  *)
(* block, so the next block will be linked to it.                          *)
(***************************************************************************)
HashLinked ==
    \A h \in {headDB, container} : \A c \in DOMAIN h.heads :
        /\ h.heads[c].hash = StoredHash(c, h.heads[c].num)
        /\ \A k \in BlocksOf(h, c) :
              k > savepoint => StoredDetails(c, k).prev = StoredHash(c, k - 1)

(***************************************************************************)
(* What is below a saved head never changes again: no later step, crash or *)
(* reprocessing alters the data, the hash, the LAST_CONFIG index or the    *)
(* statuses of a block that the persisted heads cover.                     *)
(***************************************************************************)
SavedBlocksImmutable ==
    [][\A c \in Chains : \A k \in BlocksOf(headDB, c) :
          /\ k \in BlocksOf(headDB', c)
          /\ StoredHash(c, k)' = StoredHash(c, k)
          /\ k > savepoint => StoredDetails(c, k)' = StoredDetails(c, k)]_vars

(***************************************************************************)
(* The processor implements the org chains: what the stores hold below the *)
(* saved heads is the fat chain up to the savepoint followed by the        *)
(* projection of every later fat block, each exactly once.                 *)
(***************************************************************************)
StoredChain(c) ==
    [k \in 1 .. headDB.heads[c].num + 1 |-> StoredData(c, k - 1)]

OC == INSTANCE OrgChains WITH
        LogBodies <- Bodies \cup {GenesisBody},
        InitialLogs <- VanillaLedgers,
        log <- fat,
        upto <- IF HasHeads(headDB) THEN headDB.last + 1 ELSE 0,
        chain <- [c \in DOMAIN headDB.heads |-> StoredChain(c)]

ImplementsOrgChains == OC!ASpec

(* Fat block n is in the hands of Append or in the channel.                *)
Handed(n) ==
    \/ sending /\ Height = n + 1
    \/ \E i \in 1 .. Len(sparseCh) : sparseCh[i] = n

(***************************************************************************)
(* A block handed to the processor is eventually covered by the published  *)
(* heads, together with every block before it, unless the process ends     *)
(* first: the bounded channel and the catch-up of syncOrderer lose none.   *)
(***************************************************************************)
CaughtUp ==
    \A n \in 0 .. MaxFat - 1, x \in 0 .. MaxCrash :
        (Handed(n) /\ crashes = x)
            ~> (\/ HasHeads(container) /\ container.last >= n
                \/ crashes > x \/ pc = "panic")

(***************************************************************************)
(* The LAST_CONFIG index of an org block names the latest configuration    *)
(* block of its own chain, whose numbers are not those of the fat chain,   *)
(* also when the chain was cut again after a crash (createOrgBlocks,       *)
(* storeOrgBlockSkeleton). One exception: a chain begun right after a      *)
(* configuration block names the block after it instead.                   *)
(***************************************************************************)
LastConfigIsConfig ==
    \A c \in Chains : \A k \in BlocksOf(headDB, c) :
        k > savepoint =>
            LET m == StoredDetails(c, k).lastConfig
            IN  /\ m <= k
                /\ \/ IsConfigBlock(StoredData(c, m)[1])
                   \/ m = savepoint + 1 /\ IsConfigBlock(savepoint)
                /\ \A j \in m + 1 .. k : ~IsConfigBlock(StoredData(c, j)[1])

(* The saved org blocks give transaction i of fat block n status VALID.    *)
SavedValid(n, i) ==
    /\ n \in DOMAIN merkle /\ n <= headDB.last
    /\ \E c \in DOMAIN merkle[n] : \E p \in 1 .. Len(merkle[n][c].filter) :
          merkle[n][c].data[2][p] = i /\ merkle[n][c].filter[p] = "VALID"

(* The saved valid transactions, by position.                              *)
ValidTxns ==
    {t \in UNION {{n} \X (1 .. Len(fat[n + 1])) : n \in 0 .. Height - 1} :
        SavedValid(t[1], t[2])}

TxnAt(t) == fat[t[1] + 1][t[2]]

Before(t, u) == t[1] < u[1] \/ (t[1] = u[1] /\ t[2] < u[2])

(***************************************************************************)
(* No lost update: when the orderer checks versions, two transactions that *)
(* read the same earlier version of a key are not both marked valid if the *)
(* first of them writes the key, unless a valid transaction in between     *)
(* deletes it. The block's own writes and the recorded versions together   *)
(* have to catch the second one. Stated while no crash and no failed write *)
(* made the process check a block again, against its own recorded writes.  *)
(***************************************************************************)
NoLostUpdate ==
    MvccApplicable /\ crashes = 0 /\ faults = 0 /\ HasHeads(headDB) =>
        \A t, u \in ValidTxns :
            \A k \in DOMAIN TxnAt(t).reads \cap DOMAIN TxnAt(u).reads \cap PublicKeys :
                LET v == TxnAt(t).reads[k]
                IN  /\ Before(t, u) /\ TxnAt(u).reads[k] = v
                    /\ v = NilVersion \/ v[1] < t[1]
                    /\ k \in TxnAt(t).writes \ TxnAt(t).deletes
                    => \E d \in ValidTxns :
                          Before(t, d) /\ Before(d, u) /\ k \in TxnAt(d).deletes
=============================================================================
