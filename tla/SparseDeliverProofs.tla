-------------------------- MODULE SparseDeliverProofs --------------------------
(***************************************************************************)
(* Proofs about the delivery of org chains. A stream may hand out a block  *)
(* before the head that covers it is saved, and the block may be cut again *)
(* after a crash: the invariant says that the block to come is fixed by    *)
(* the saved heads and the fat ledger alone, and that nothing else is in   *)
(* the cache or ahead of the heads in the stores. For any number of        *)
(* streams, crashes and failed writes, when chains are begun while nothing *)
(* is appended (QuietSwitch).                                              *)
(***************************************************************************)
EXTENDS SparseDeliver, SparseChainProofs

(* The fat block to be cut after the saved heads, and the block of chain c *)
(* it will be cut into.                                                    *)
NextFat == IF HasHeads(headDB) THEN headDB.last + 1 ELSE savepoint + 1

NextNum(c) == IF HasHeads(headDB) THEN headDB.heads[c].num + 1 ELSE savepoint + 1

NextHash(c) ==
    HeaderHash(IF HasHeads(headDB) THEN headDB.heads[c].hash ELSE FatHash(savepoint),
               NextNum(c), <<NextFat, TxnIdxList(c, fat[NextFat + 1])>>)

(* The fat block is there, for good, and has transactions of chain c.      *)
NextReady(c) ==
    /\ NextFat < Height
    /\ ~HasHeads(headDB) => savepoint + 2 = Height
    /\ c \in TouchedChains(fat[NextFat + 1])

(* Hash x is the one that block k of chain c has, or will have.            *)
Pledged(c, k, x) ==
    \/ k <= savepoint /\ k < Height /\ x = FatHash(k)
    \/ k > savepoint /\ k \in BlocksOf(headDB, c) /\ x = StoredHash(c, k)
    \/ k = NextNum(c) /\ NextReady(c) /\ x = NextHash(c)

(* Chains are begun at the block before the last one.                      *)
BeginAt == ~HasHeads(headDB) => savepoint = 0 \/ savepoint + 2 = Height

(* Every org block consumed a fat block.                                   *)
HeadsBehind ==
    \A h \in {headDB, container} : \A c \in DOMAIN h.heads : h.heads[c].num <= h.last

CacheAhead ==
    \A c \in ConfigOrgList, k \in Nat :
        <<c, k>> \in DOMAIN cache =>
            LET b == cache[<<c, k>>]
            IN  b.num = k /\ Pledged(c, k, HeaderHash(b.prev, k, b.data))

(* What a crash left in the stores beyond the saved heads.                 *)
IndexAhead ==
    \A c \in ConfigOrgList, k \in Nat :
        <<c, k>> \in DOMAIN index /\ k > savepoint /\ k \notin BlocksOf(headDB, c) =>
            k = NextNum(c) /\ index[<<c, k>>] = NextFat /\ NextReady(c)

MerkleAhead ==
    /\ \A n \in DOMAIN merkle :
         IF HasHeads(headDB) THEN n <= NextFat
         ELSE n = 0 \/ (n = NextFat /\ savepoint + 2 = Height)
    /\ \A c \in ConfigOrgList :
         NextFat \in DOMAIN merkle /\ c \in DOMAIN merkle[NextFat] =>
            LET d == merkle[NextFat][c]
            IN  /\ NextReady(c) /\ d.num = NextNum(c)
                /\ HeaderHash(d.prev, d.num, d.data) = NextHash(c)

AheadInv == BeginAt /\ HeadsBehind /\ CacheAhead /\ IndexAhead /\ MerkleAhead

StreamType ==
    [pc : {"closed", "check", "park", "asleep", "get"}, chain : ConfigOrgList,
     num : 0 .. MaxUint64, max : 0 .. MaxUint64]

(* A stream knows no more of its chain than the visible heads say.         *)
StreamOK(s) ==
    /\ s \in StreamType
    /\ s.pc # "closed" /\ s.max # MaxUint64 => s.max < OrgHeight(s.chain)
    /\ s.pc = "get" => s.num <= s.max

StreamsOK == reader \in [Readers -> StreamType] /\ \A r \in Readers : StreamOK(reader[r])

DeliveredPledged ==
    \A d \in delivered :
        d.chain \in ConfigOrgList /\ d.num \in Nat /\ Pledged(d.chain, d.num, d.hash)

ChainInv == IInv /\ ContentInv /\ AheadInv

DInv == ChainInv /\ StreamsOK /\ DeliveredPledged
-----------------------------------------------------------------------------
(* What one step of the processor changes of the ledger and the heads.     *)
LEMMA StepKinds ==
  ASSUME IInv, Next
  PROVE  /\ fat' = fat \/ \E b \in Bodies \cup {GenesisBody} : AddBlock(b)
         /\ savepoint' = savepoint \/ AppendSavePoint
         /\ headDB' = headDB \/ SaveChannelHeadInfo
BY DEF Next, Processor, AddBlock, SendBlock, StartProcessor, ReadStartBlock, ReceiveBlock,
   AppendSavePoint, CreateOrgBlocks, StoreOrgBlock, AppendOrgMerkleInfo, PublishHeads,
   SaveChannelHeadInfo, StoreFailure, CreateFailure, Evict, Restart, ledgerVars, storeVars

(* What is used of the invariants at every step.                           *)
LEMMA BasicFacts ==
  ASSUME IInv, ContentInv
  PROVE  /\ Height \in Nat /\ Len(fat) = Height /\ savepoint \in Nat
         /\ savepoint = 0 \/ savepoint < Height
         /\ headDB.last \in Nat
         /\ HasHeads(headDB) => headDB.last < Height
         /\ HasHeads(headDB) => ConfigOrgList \subseteq DOMAIN headDB.heads
         /\ \A c \in DOMAIN headDB.heads :
              /\ c \in Chains /\ HasHeads(headDB)
              /\ headDB.heads[c].num \in Nat /\ headDB.heads[c].num >= savepoint
              /\ headDB.heads[c].hash = StoredHash(c, headDB.heads[c].num)
         /\ ConfigOrgList \subseteq Chains /\ NextFat \in Nat /\ NextFat # 0
<1>1. Height \in Nat /\ Len(fat) = Height /\ savepoint \in Nat /\ headDB.last \in Nat
  BY DEF IInv, TypeOK, Height
<1>2. savepoint = 0 \/ savepoint < Height
  BY DEF IInv, LedgerInv
<1>3. HasHeads(headDB) => headDB.last < Height /\ ConfigOrgList \subseteq DOMAIN headDB.heads
  BY DEF IInv, Anchored
<1>4. \A c \in DOMAIN headDB.heads :
              /\ c \in Chains /\ HasHeads(headDB)
              /\ headDB.heads[c].num \in Nat /\ headDB.heads[c].num >= savepoint
              /\ headDB.heads[c].hash = StoredHash(c, headDB.heads[c].num)
  BY DEF IInv, TypeOK, ContentInv, Linked, HeadSound, HasHeads
<1>5. ConfigOrgList \subseteq Chains /\ NextFat \in Nat /\ NextFat # 0
  BY <1>1, ChainsAssumption DEF ConfigOrgList, NextFat
<1> QED
  BY <1>1, <1>2, <1>3, <1>4, <1>5

(* While no heads are saved and there is more than the genesis block,      *)
(* nothing is appended.                                                    *)
LEMMA NothingAppended ==
  ASSUME QuietSwitch, IInv, ~HasHeads(headDB), NEW b \in Bodies \cup {GenesisBody}, AddBlock(b)
  PROVE  Height < 2
<1>1. MayAppend
  BY DEF AddBlock
<1>2. Height = 0 \/ Height = 1
  BY <1>1 DEF MayAppend
<1> QED
  BY <1>2

(* The savepoint only moves to the beginning of the chains.                *)
LEMMA SavePointStep ==
  ASSUME IInv, ContentInv, BeginAt, AppendSavePoint
  PROVE  /\ UNCHANGED <<fat, headDB, index, merkle, cache, container>>
         /\ savepoint' \in Nat /\ savepoint' >= savepoint
         /\ savepoint' # savepoint =>
              ~HasHeads(headDB) /\ savepoint' + 2 = Height /\ savepoint = 0
         /\ savepoint + 2 = Height /\ ~HasHeads(headDB) => savepoint' = savepoint
<1>1. /\ pc = "savepoint" /\ chHeader = headDB
      /\ savepoint' = IF ~HasHeads(chHeader) /\ cur # 0 THEN Height - 2 ELSE savepoint
      /\ UNCHANGED <<fat, headDB, index, merkle, cache, container>>
  BY DEF AppendSavePoint, ledgerVars, IInv, WorkInv, AtRest
<1>2. Height \in Nat /\ savepoint \in Nat /\ cur \in Nat
  BY DEF IInv, TypeOK, Height
<1>3. ~HasHeads(headDB) /\ cur # 0 => cur = Height - 1
  BY <1>1 DEF IInv, WorkInv
<1> QED
  BY <1>1, <1>2, <1>3 DEF BeginAt

(* Fat blocks keep their content through every step.                       *)
LEMMA FatKept ==
  ASSUME IInv, Next
  PROVE  /\ Height' \in Nat /\ Height' >= Height
         /\ \A i \in 1 .. Height : fat'[i] = fat[i]
         /\ \A k \in Nat : k < Height => FatHash(k)' = FatHash(k)
<1>1. Height \in Nat /\ Len(fat) = Height /\ TypeOK
  BY DEF IInv, TypeOK, Height
<1>2. CASE fat' = fat
  BY <1>1, <1>2 DEF Height, FatHash, FatData
<1>3. ASSUME NEW b \in Bodies \cup {GenesisBody}, AddBlock(b)
      PROVE  /\ Height' \in Nat /\ Height' >= Height
             /\ \A i \in 1 .. Height : fat'[i] = fat[i]
             /\ \A k \in Nat : k < Height => FatHash(k)' = FatHash(k)
  <2>1. fat' = Append(fat, b)
    BY <1>3 DEF AddBlock
  <2>2. /\ Height' \in Nat /\ Height' >= Height
        /\ \A i \in 1 .. Height : fat'[i] = fat[i]
    BY <1>1, <2>1 DEF TypeOK, Height
  <2>3. \A k \in Nat : k < Height => FatHash(k)' = FatHash(k)
    BY <1>1, <2>1, FatHashStable
  <2> QED
    BY <2>2, <2>3
<1> QED
  BY <1>2, <1>3, StepKinds

(* The block after the heads, when the save is of the block it is cut from *)
(* and when the save is of block 0 of a new channel.                       *)
LEMMA SavedIsNext ==
  ASSUME IInv, ContentInv, SaveChannelHeadInfo
  PROVE  /\ UNCHANGED <<fat, savepoint, index, merkle, cache, container>>
         /\ headDB' = chHeader /\ HasHeads(chHeader) /\ chHeader.last = cur
         /\ cur = NextFat \/ (cur = 0 /\ ~HasHeads(headDB) /\ savepoint = 0)
         /\ DOMAIN chHeader.heads = DOMAIN SavedBase.heads \cup DOMAIN out
         /\ DOMAIN out = TouchedChains(fat[cur + 1]) /\ cur \in Nat /\ cur < Height
         /\ \A c \in DOMAIN chHeader.heads :
              chHeader.heads[c] = IF c \in DOMAIN out THEN HeadOfBlock(out[c], cur)
                                  ELSE SavedBase.heads[c]
<1>1. /\ pc = "save" /\ headDB' = chHeader
      /\ UNCHANGED <<fat, savepoint, index, merkle, cache, container>>
  BY DEF SaveChannelHeadInfo, ledgerVars
<1>2. HasHeads(chHeader) /\ chHeader.last = cur
  BY <1>1 DEF IInv, StoreInv
<1>3. /\ cur \in Nat /\ cur < Height /\ Height \in Nat /\ savepoint \in Nat
      /\ cur = 0 => savepoint = 0 \/ HasHeads(headDB)
      /\ HasHeads(headDB) => cur # 0
  BY <1>1, StoringFacts DEF ContentInv
<1>4. cur = NextFat \/ (cur = 0 /\ ~HasHeads(headDB) /\ savepoint = 0)
  BY <1>1, <1>3 DEF ContentInv, Made, NextFat
<1>5. chHeader = NewHeader(SavedBase, out, cur) /\ DOMAIN out = TouchedChains(fat[cur + 1])
  BY <1>1 DEF ContentInv, Made
<1>6. /\ DOMAIN chHeader.heads = DOMAIN SavedBase.heads \cup DOMAIN out
      /\ \A c \in DOMAIN chHeader.heads :
              chHeader.heads[c] = IF c \in DOMAIN out THEN HeadOfBlock(out[c], cur)
                                  ELSE SavedBase.heads[c]
  BY <1>5 DEF NewHeader
<1> QED
  BY <1>1, <1>2, <1>3, <1>4, <1>5, <1>6

(* A block that is being stored is the next one of its chain, or block 0   *)
(* of a new channel.                                                       *)
LEMMA OutIsNext ==
  ASSUME IInv, ContentInv, pc \in {"store", "publish", "save"},
         NEW c \in ConfigOrgList, c \in DOMAIN out
  PROVE  /\ out[c].num \in Nat
         /\ \/ /\ cur = NextFat /\ out[c].num = NextNum(c) /\ NextReady(c)
               /\ HeaderHash(out[c].prev, out[c].num, out[c].data) = NextHash(c)
            \/ /\ cur = 0 /\ ~HasHeads(headDB) /\ savepoint = 0 /\ Height > 0
               /\ out[c].num = 0
               /\ HeaderHash(out[c].prev, out[c].num, out[c].data) = FatHash(0)
<1>1. /\ cur \in Nat /\ cur < Height /\ Height \in Nat /\ savepoint \in Nat
      /\ cur = 0 => savepoint = 0 \/ HasHeads(headDB)
      /\ HasHeads(headDB) => cur # 0 /\ SavedBase = headDB
  BY StoringFacts DEF ContentInv
<1>2. /\ out[c].num = CreateNextBlock(c, cur, SavedBase).num
      /\ out[c].prev = CreateNextBlock(c, cur, SavedBase).prev
      /\ out[c].data = <<cur, TxnIdxList(c, fat[cur + 1])>>
      /\ c \in TouchedChains(fat[cur + 1])
  BY DEF ContentInv, Made, CutFrom
<1>3. CASE HasHeads(headDB)
  <2>1. cur = headDB.last + 1 /\ SavedBase = headDB /\ c \in DOMAIN headDB.heads
    BY <1>1, <1>3, BasicFacts DEF ContentInv, Made
  <2>2. /\ out[c].num = headDB.heads[c].num + 1 /\ out[c].prev = headDB.heads[c].hash
        /\ headDB.heads[c].num \in Nat
    BY <1>2, <2>1, BasicFacts DEF CreateNextBlock
  <2> QED
    BY <1>1, <1>2, <1>3, <2>1, <2>2 DEF NextFat, NextNum, NextReady, NextHash
<1>4. CASE ~HasHeads(headDB) /\ cur # 0
  <2>1. savepoint = cur - 1 /\ Height = cur + 1
    BY <1>4 DEF ContentInv, Made
  <2>2. /\ c \in DOMAIN SavedBase.heads /\ SavedBase.heads[c].num = savepoint
        /\ SavedBase.heads[c].hash = FatHash(savepoint)
    BY <1>4 DEF SavedBase
  <2>3. out[c].num = savepoint + 1 /\ out[c].prev = FatHash(savepoint)
    BY <1>2, <2>2 DEF CreateNextBlock
  <2> QED
    BY <1>1, <1>2, <1>4, <2>1, <2>3 DEF NextFat, NextNum, NextReady, NextHash
<1>5. CASE ~HasHeads(headDB) /\ cur = 0
  <2>1. SavedBase = headDB /\ c \notin DOMAIN SavedBase.heads
    BY <1>5 DEF SavedBase, HasHeads
  <2>2. out[c].num = 0 /\ out[c].prev = << >>
    BY <1>2, <2>1 DEF CreateNextBlock
  <2>3. /\ FatData(0) = <<0, TxnIdxList(c, fat[0 + 1])>>
        /\ HeaderHash(<< >>, 0, FatData(0)) = FatHash(0)
    BY <1>1, GenesisBlock DEF IInv
  <2>4. out[c].data = FatData(0)
    BY <1>2, <1>5, <2>3
  <2> QED
    BY <1>1, <1>5, <2>2, <2>3, <2>4
<1> QED
  BY <1>3, <1>4, <1>5

(* When the next block is saved, it is the one that was promised.          *)
LEMMA NextIsSaved ==
  ASSUME QuietSwitch, IInv, ContentInv, SaveChannelHeadInfo,
         NEW c \in ConfigOrgList, NextReady(c), NEW k, k = NextNum(c)
  PROVE  /\ cur = NextFat =>
              /\ k \in BlocksOf(headDB, c)' /\ k > savepoint
              /\ StoredHash(c, k)' = NextHash(c)
         /\ cur # NextFat =>
              /\ HasHeads(headDB)' /\ NextFat' = NextFat /\ NextNum(c)' = NextNum(c)
              /\ NextReady(c)' /\ NextHash(c)' = NextHash(c)
<1>1. /\ UNCHANGED <<fat, savepoint, index, merkle>> /\ pc = "save"
      /\ headDB' = chHeader /\ HasHeads(chHeader) /\ chHeader.last = cur
      /\ cur = NextFat \/ (cur = 0 /\ ~HasHeads(headDB) /\ savepoint = 0)
      /\ DOMAIN chHeader.heads = DOMAIN SavedBase.heads \cup DOMAIN out
      /\ DOMAIN out = TouchedChains(fat[cur + 1]) /\ cur \in Nat /\ cur < Height
      /\ \A d \in DOMAIN out : chHeader.heads[d] = HeadOfBlock(out[d], cur)
  BY SavedIsNext DEF SaveChannelHeadInfo
<1>2. Linked(chHeader)
  BY <1>1, NewHeadsLinked DEF ContentInv
<1>3. ASSUME cur = NextFat
      PROVE  /\ k \in BlocksOf(headDB, c)' /\ k > savepoint
             /\ StoredHash(c, k)' = NextHash(c)
  <2>1. c \in DOMAIN out
    BY <1>1, <1>3 DEF NextReady
  <2>2. /\ out[c].num \in Nat /\ out[c].num = k
        /\ HeaderHash(out[c].prev, out[c].num, out[c].data) = NextHash(c)
    BY <1>1, <1>3, <2>1, OutIsNext, BasicFacts
  <2>3. /\ c \in DOMAIN chHeader.heads /\ chHeader.heads[c].num = k
        /\ chHeader.heads[c].hash = NextHash(c)
    <3>1. c \in DOMAIN chHeader.heads /\ chHeader.heads[c] = HeadOfBlock(out[c], cur)
      BY <1>1, <2>1
    <3> QED
      BY <2>2, <3>1 DEF HeadOfBlock
  <2>4. StoredHash(c, k) = NextHash(c)
    BY <1>2, <2>3 DEF Linked, HeadSound
  <2>5. k > savepoint
    BY <1>1, BasicFacts DEF NextNum
  <2>6. StoredHash(c, k)' = StoredHash(c, k)
    BY <1>1 DEF StoredHash, StoredDetails, HeaderHash, FatHash, FatData
  <2> QED
    BY <1>1, <2>2, <2>3, <2>4, <2>5, <2>6 DEF BlocksOf
<1>4. ASSUME cur # NextFat
      PROVE  /\ HasHeads(headDB)' /\ NextFat' = NextFat /\ NextNum(c)' = NextNum(c)
             /\ NextReady(c)' /\ NextHash(c)' = NextHash(c)
  <2>1. cur = 0 /\ ~HasHeads(headDB) /\ savepoint = 0 /\ NextFat = 1 /\ NextNum(c) = 1
    BY <1>1, <1>4 DEF NextFat, NextNum
  <2>2. TouchedChains(fat[0 + 1]) = ConfigOrgList
    BY <1>1, <2>1, GenesisBlock DEF IInv
  <2>3. c \in DOMAIN out
    BY <1>1, <2>1, <2>2
  <2>4. out[c].num = 0 /\ HeaderHash(out[c].prev, out[c].num, out[c].data) = FatHash(0)
    BY <1>1, <1>4, <2>1, <2>3, OutIsNext
  <2>5. headDB'.heads[c].num = 0 /\ headDB'.heads[c].hash = FatHash(0)
    <3>1. headDB'.heads[c] = HeadOfBlock(out[c], cur)
      BY <1>1, <2>3
    <3> QED
      BY <2>4, <3>1 DEF HeadOfBlock
  <2>6. HasHeads(headDB)' /\ headDB'.last = 0
    BY <1>1, <2>1 DEF HasHeads
  <2>7. NextFat' = NextFat /\ NextNum(c)' = NextNum(c)
    BY <2>1, <2>5, <2>6 DEF NextFat, NextNum
  <2>8. NextReady(c)'
    BY <1>1, <2>6, <2>7 DEF NextReady, Height
  <2>9. NextHash(c)' = NextHash(c)
    BY <1>1, <2>1, <2>5, <2>6, <2>7 DEF NextHash, HeaderHash
  <2> QED
    BY <2>6, <2>7, <2>8, <2>9
<1> QED
  BY <1>3, <1>4

(* The next block does not change while no heads are saved.                *)
LEMMA NextKept ==
  ASSUME QuietSwitch, IInv, ContentInv, BeginAt, Next, headDB' = headDB,
         NEW c \in ConfigOrgList, NextReady(c)
  PROVE  /\ savepoint' = savepoint /\ NextFat' = NextFat /\ NextNum(c)' = NextNum(c)
         /\ NextReady(c)' /\ NextHash(c)' = NextHash(c)
<1>1. savepoint' = savepoint
  BY StepKinds, SavePointStep DEF NextReady
<1>2. NextFat' = NextFat /\ NextNum(c)' = NextNum(c) /\ (HasHeads(headDB)' <=> HasHeads(headDB))
  BY <1>1 DEF NextFat, NextNum, HasHeads
<1>3. fat'[NextFat' + 1] = fat[NextFat + 1] /\ Height' >= Height /\ Height' \in Nat
  BY <1>2, FatKept, BasicFacts DEF NextReady
<1>4. ~HasHeads(headDB) => Height' = Height /\ FatHash(savepoint)' = FatHash(savepoint)
  <2>1. ~HasHeads(headDB) => fat' = fat
    BY StepKinds, NothingAppended, BasicFacts DEF NextReady
  <2> QED
    BY <1>1, <2>1 DEF Height, FatHash, FatData
<1>5. NextReady(c)'
  BY <1>1, <1>2, <1>3, <1>4, BasicFacts DEF NextReady
<1>6. NextHash(c)' = NextHash(c)
  BY <1>1, <1>2, <1>3, <1>4 DEF NextHash, HeaderHash
<1> QED
  BY <1>1, <1>2, <1>5, <1>6

(* A promised block stays promised.                                        *)
LEMMA PledgeKept ==
  ASSUME QuietSwitch, IInv, ContentInv, BeginAt, Next,
         NEW c \in ConfigOrgList, NEW k \in Nat, NEW x, Pledged(c, k, x)
  PROVE  Pledged(c, k, x)'
<1>1. CASE k <= savepoint /\ k < Height /\ x = FatHash(k)
  <2>1. savepoint' >= savepoint /\ savepoint' \in Nat
    BY StepKinds, SavePointStep, BasicFacts
  <2>2. Height' >= Height /\ Height' \in Nat /\ FatHash(k)' = FatHash(k)
    BY <1>1, FatKept
  <2> QED
    BY <1>1, <2>1, <2>2, BasicFacts DEF Pledged
<1>2. CASE k > savepoint /\ k \in BlocksOf(headDB, c) /\ x = StoredHash(c, k)
  <2>1. c \in Chains /\ HasHeads(headDB)
    BY <1>2, BasicFacts DEF BlocksOf, HasHeads
  <2>2. k \in BlocksOf(headDB, c)' /\ StoredHash(c, k)' = StoredHash(c, k)
    BY <1>2, <2>1, SavedBlockKept
  <2>3. savepoint' = savepoint
    BY <2>1, StepKinds, SavePointStep
  <2> QED
    BY <1>2, <2>2, <2>3 DEF Pledged
<1>3. CASE k = NextNum(c) /\ NextReady(c) /\ x = NextHash(c)
  <2>1. CASE SaveChannelHeadInfo
    <3>1. savepoint' = savepoint
      BY <2>1, SavedIsNext
    <3>2. CASE cur = NextFat
      BY <1>3, <2>1, <3>1, <3>2, NextIsSaved DEF Pledged
    <3>3. CASE cur # NextFat
      BY <1>3, <2>1, <3>3, NextIsSaved DEF Pledged
    <3> QED
      BY <3>2, <3>3
  <2>2. CASE headDB' = headDB
    BY <1>3, <2>2, NextKept DEF Pledged
  <2> QED
    BY <2>1, <2>2, StepKinds
<1> QED
  BY <1>1, <1>2, <1>3 DEF Pledged

(* Chains are begun at the same block again after a crash.                 *)
LEMMA BeginAtStep ==
  ASSUME QuietSwitch, IInv, ContentInv, BeginAt, Next
  PROVE  BeginAt'
<1> SUFFICES ASSUME ~HasHeads(headDB)' PROVE savepoint' = 0 \/ savepoint' + 2 = Height'
  BY DEF BeginAt
<1>1. headDB' = headDB
  BY StepKinds, SavedIsNext
<1>2. ~HasHeads(headDB)
  BY <1>1
<1>3. CASE AppendSavePoint
  BY <1>2, <1>3, SavePointStep DEF BeginAt, Height
<1>4. CASE savepoint' = savepoint /\ fat' = fat
  BY <1>2, <1>4 DEF BeginAt, Height
<1>5. CASE savepoint' = savepoint /\ \E b \in Bodies \cup {GenesisBody} : AddBlock(b)
  <2>1. Height < 2
    BY <1>2, <1>5, NothingAppended
  <2> QED
    BY <1>2, <1>5, <2>1, BasicFacts DEF BeginAt
<1> QED
  BY <1>3, <1>4, <1>5, StepKinds

(* The heads that are made stay behind the fat block they are made of.     *)
LEMMA NewHeadsBehind ==
  ASSUME IInv, ContentInv, HeadsBehind, pc \in {"publish", "save"},
         NEW c \in DOMAIN chHeader.heads
  PROVE  chHeader.heads[c].num <= chHeader.last
<1>1. /\ cur \in Nat /\ cur < Height /\ Height \in Nat /\ savepoint \in Nat
      /\ cur = 0 => savepoint = 0 \/ HasHeads(headDB)
      /\ HasHeads(headDB) => cur # 0 /\ SavedBase = headDB
  BY StoringFacts DEF ContentInv
<1>2. /\ chHeader = NewHeader(SavedBase, out, cur)
      /\ \A d \in DOMAIN out : CutFrom(d, out[d])
      /\ HasHeads(headDB) => cur = headDB.last + 1
      /\ ~HasHeads(headDB) /\ cur # 0 => savepoint = cur - 1
  BY DEF ContentInv, Made
<1>3. /\ chHeader.last = cur
      /\ chHeader.heads[c] = IF c \in DOMAIN out THEN HeadOfBlock(out[c], cur)
                             ELSE SavedBase.heads[c]
      /\ c \notin DOMAIN out => c \in DOMAIN SavedBase.heads
  BY <1>2 DEF NewHeader
<1>4. \A d \in DOMAIN SavedBase.heads : SavedBase.heads[d].num \in Nat /\ SavedBase.heads[d].num < cur
  <2>1. CASE HasHeads(headDB)
    <3>1. \A d \in DOMAIN headDB.heads : headDB.heads[d].num <= headDB.last
      BY DEF HeadsBehind
    <3>2. headDB.last \in Nat /\ \A d \in DOMAIN headDB.heads : headDB.heads[d].num \in Nat
      BY BasicFacts
    <3>3. SavedBase = headDB /\ cur = headDB.last + 1
      BY <1>1, <1>2, <2>1
    <3> QED
      BY <3>1, <3>2, <3>3
  <2>2. CASE ~HasHeads(headDB) /\ cur = 0
    BY <2>2 DEF SavedBase, HasHeads
  <2>3. CASE ~HasHeads(headDB) /\ cur # 0
    BY <1>1, <1>2, <2>3 DEF SavedBase
  <2> QED
    BY <2>1, <2>2, <2>3
<1>5. CASE c \in DOMAIN out
  <2>1. chHeader.heads[c].num = out[c].num
    BY <1>3, <1>5 DEF HeadOfBlock
  <2>2. out[c].num = CreateNextBlock(c, cur, SavedBase).num
    BY <1>2, <1>5 DEF CutFrom
  <2>3. out[c].num = IF c \in DOMAIN SavedBase.heads THEN SavedBase.heads[c].num + 1 ELSE 0
    BY <2>2 DEF CreateNextBlock
  <2> QED
    BY <1>1, <1>3, <1>4, <2>1, <2>3
<1>6. CASE c \notin DOMAIN out
  BY <1>1, <1>3, <1>4, <1>6
<1> QED
  BY <1>5, <1>6

(* Saved and published heads stay behind the fat chain.                    *)
LEMMA HeadsBehindStep ==
  ASSUME IInv, ContentInv, HeadsBehind, Next
  PROVE  HeadsBehind'
<1>1. headDB' = headDB \/ (pc = "save" /\ headDB' = chHeader)
  BY StepKinds DEF SaveChannelHeadInfo
<1>2. \/ container' = container \/ container' = EmptyHeader
      \/ pc = "publish" /\ container' = chHeader
  BY DEF Next, Processor, AddBlock, SendBlock, StartProcessor, ReadStartBlock, ReceiveBlock,
     AppendSavePoint, CreateOrgBlocks, StoreOrgBlock, AppendOrgMerkleInfo, PublishHeads,
     SaveChannelHeadInfo, StoreFailure, CreateFailure, Evict, Restart
<1>3. pc \in {"publish", "save"} =>
        \A c \in DOMAIN chHeader.heads : chHeader.heads[c].num <= chHeader.last
  BY NewHeadsBehind
<1>4. DOMAIN EmptyHeader.heads = {}
  BY DEF EmptyHeader, EmptyMap
<1>5. \A c \in DOMAIN headDB'.heads : headDB'.heads[c].num <= headDB'.last
  BY <1>1, <1>3 DEF HeadsBehind
<1>6. \A c \in DOMAIN container'.heads : container'.heads[c].num <= container'.last
  BY <1>2, <1>3, <1>4 DEF HeadsBehind
<1> QED
  BY <1>5, <1>6 DEF HeadsBehind

(* A cached block is a promised one.                                       *)
LEMMA CacheAheadStep ==
  ASSUME QuietSwitch, IInv, ContentInv, BeginAt, CacheAhead, Next
  PROVE  CacheAhead'
<1> SUFFICES ASSUME NEW c \in ConfigOrgList, NEW k \in Nat, <<c, k>> \in DOMAIN cache'
             PROVE  (/\ cache[<<c, k>>].num = k
                     /\ Pledged(c, k, HeaderHash(cache[<<c, k>>].prev, k, cache[<<c, k>>].data)))'
  BY DEF CacheAhead
<1>1. CASE <<c, k>> \in DOMAIN cache /\ cache'[<<c, k>>] = cache[<<c, k>>]
  <2> DEFINE x == HeaderHash(cache[<<c, k>>].prev, k, cache[<<c, k>>].data)
  <2>1. cache[<<c, k>>].num = k /\ Pledged(c, k, x)
    BY <1>1 DEF CacheAhead
  <2>2. PICK y : y = x
    OBVIOUS
  <2>3. Pledged(c, k, y)'
    BY <2>1, <2>2, PledgeKept
  <2>4. y = HeaderHash(cache'[<<c, k>>].prev, k, cache'[<<c, k>>].data)
    BY <1>1, <2>2
  <2> QED
    BY <1>1, <2>1, <2>3, <2>4 DEF Pledged, HeaderHash
<1>2. CASE /\ pc = "store" /\ c \in DOMAIN out /\ k = out[c].num
           /\ cache'[<<c, k>>] = out[c]
  <2> DEFINE x == HeaderHash(out[c].prev, out[c].num, out[c].data)
  <2>1. Pledged(c, k, x)
    <3>1. \/ k = NextNum(c) /\ NextReady(c) /\ x = NextHash(c)
          \/ savepoint = 0 /\ Height > 0 /\ k = 0 /\ x = FatHash(0)
      BY <1>2, OutIsNext
    <3> QED
      BY <3>1 DEF Pledged
  <2>2. PICK y : y = x
    OBVIOUS
  <2>3. Pledged(c, k, y)'
    BY <2>1, <2>2, PledgeKept
  <2>4. y = HeaderHash(cache'[<<c, k>>].prev, k, cache'[<<c, k>>].data)
    BY <1>2, <2>2
  <2> QED
    BY <1>2, <2>3, <2>4 DEF Pledged, HeaderHash
<1>3. \/ cache' = cache \/ cache' = EmptyMap
      \/ \E e \in DOMAIN cache : cache' = [z \in DOMAIN cache \ {e} |-> cache[z]]
      \/ pc = "store" /\ \E d \in todo : cache' = Put(cache, <<d, out[d].num>>, out[d])
  BY DEF Next, Processor, AddBlock, SendBlock, StartProcessor, ReadStartBlock, ReceiveBlock,
     AppendSavePoint, CreateOrgBlocks, StoreOrgBlock, AppendOrgMerkleInfo, PublishHeads,
     SaveChannelHeadInfo, StoreFailure, CreateFailure, Evict, Restart
<1>4. ASSUME pc = "store", NEW d \in todo, cache' = Put(cache, <<d, out[d].num>>, out[d])
      PROVE  \/ <<c, k>> \in DOMAIN cache /\ cache'[<<c, k>>] = cache[<<c, k>>]
             \/ /\ pc = "store" /\ c \in DOMAIN out /\ k = out[c].num
                /\ cache'[<<c, k>>] = out[c]
  <2>1. d \in DOMAIN out
    BY <1>4 DEF IInv, WrittenInv
  <2> QED
    BY <1>4, <2>1 DEF Put
<1> QED
  BY <1>1, <1>2, <1>3, <1>4 DEF EmptyMap

(* The index beyond the saved heads names the next block only.             *)
LEMMA IndexAheadStep ==
  ASSUME QuietSwitch, IInv, ContentInv, BeginAt, IndexAhead, Next
  PROVE  IndexAhead'
<1> SUFFICES ASSUME NEW c \in ConfigOrgList, NEW k \in Nat, <<c, k>> \in DOMAIN index',
                    k > savepoint', k \notin BlocksOf(headDB, c)'
             PROVE  k = NextNum(c)' /\ index'[<<c, k>>] = NextFat' /\ NextReady(c)'
  BY DEF IndexAhead
<1>1. CASE <<c, k>> \in DOMAIN index /\ index'[<<c, k>>] = index[<<c, k>>]
  <2>1. k > savepoint
    BY StepKinds, SavePointStep, BasicFacts
  <2>2. k \notin BlocksOf(headDB, c)
    BY SavedBlockKept, BasicFacts
  <2>3. k = NextNum(c) /\ index[<<c, k>>] = NextFat /\ NextReady(c)
    BY <1>1, <2>1, <2>2 DEF IndexAhead
  <2>4. CASE SaveChannelHeadInfo
    BY <1>1, <2>3, <2>4, NextIsSaved
  <2>5. CASE headDB' = headDB
    BY <1>1, <2>3, <2>5, NextKept
  <2> QED
    BY <2>4, <2>5, StepKinds
<1>2. ASSUME NEW d \in Chains, StoreOrgBlock(d)
      PROVE  \/ <<c, k>> \in DOMAIN index /\ index'[<<c, k>>] = index[<<c, k>>]
             \/ k = NextNum(c)' /\ index'[<<c, k>>] = NextFat' /\ NextReady(c)'
  <2>1. /\ pc = "store" /\ d \in todo /\ index' = Put(index, <<d, out[d].num>>, cur)
        /\ headDB' = headDB /\ savepoint' = savepoint /\ d \in DOMAIN out
    BY <1>2 DEF StoreOrgBlock, IInv, WrittenInv
  <2>2. CASE <<c, k>> = <<d, out[d].num>>
    <3>1. c = d /\ k = out[c].num /\ index'[<<c, k>>] = cur
      BY <2>1, <2>2 DEF Put
    <3>2. cur = NextFat /\ k = NextNum(c) /\ NextReady(c)
      BY <2>1, <3>1, OutIsNext, BasicFacts
    <3> QED
      BY <2>1, <3>1, <3>2, NextKept
  <2>3. CASE <<c, k>> # <<d, out[d].num>>
    BY <2>1, <2>3 DEF Put
  <2> QED
    BY <2>2, <2>3
<1>3. index' = index \/ \E d \in Chains : StoreOrgBlock(d)
  BY DEF Next, Processor, AddBlock, SendBlock, StartProcessor, ReadStartBlock, ReceiveBlock,
     AppendSavePoint, CreateOrgBlocks, AppendOrgMerkleInfo, PublishHeads,
     SaveChannelHeadInfo, StoreFailure, CreateFailure, Evict, Restart, storeVars
<1> QED
  BY <1>1, <1>2, <1>3

(* The details beyond the saved heads are those of the next block.         *)
LEMMA MerkleAheadStep ==
  ASSUME QuietSwitch, IInv, ContentInv, BeginAt, MerkleAhead, Next
  PROVE  MerkleAhead'
<1> DEFINE MayHold(n) == IF HasHeads(headDB) THEN n <= NextFat
                      ELSE n = 0 \/ (n = NextFat /\ savepoint + 2 = Height)
           Right(c, d) == /\ NextReady(c) /\ d.num = NextNum(c)
                          /\ HeaderHash(d.prev, d.num, d.data) = NextHash(c)
           Rest(c) == NextFat \in DOMAIN merkle /\ c \in DOMAIN merkle[NextFat]
                         => Right(c, merkle[NextFat][c])
<1>0. /\ \A n \in DOMAIN merkle : MayHold(n)
      /\ \A c \in ConfigOrgList : Rest(c)
  BY DEF MerkleAhead
<1>1. CASE SaveChannelHeadInfo
  <2>1. /\ UNCHANGED <<fat, savepoint, merkle>> /\ HasHeads(headDB)' /\ cur \in Nat
        /\ headDB'.last = cur /\ (cur = NextFat \/ (cur = 0 /\ ~HasHeads(headDB) /\ savepoint = 0))
    BY <1>1, SavedIsNext DEF HasHeads
  <2>2. NextFat' = cur + 1
    BY <2>1 DEF NextFat
  <2>3. DOMAIN merkle \subseteq Nat
    BY DEF IInv, TypeOK
  <2>4. \A n \in DOMAIN merkle' : MayHold(n)'
    <3>1. NextFat = IF HasHeads(headDB) THEN headDB.last + 1 ELSE savepoint + 1
      BY DEF NextFat
    <3>2. \A n \in DOMAIN merkle : n <= cur + 1
      BY <1>0, <2>1, <2>3, <3>1, BasicFacts
    <3> QED
      BY <2>1, <2>2, <3>2
  <2>5. ASSUME NEW c \in ConfigOrgList, NextFat' \in DOMAIN merkle', c \in DOMAIN merkle'[NextFat']
        PROVE  Right(c, merkle[NextFat][c])'
    <3>1. cur # NextFat
      <4> SUFFICES ASSUME cur = NextFat PROVE FALSE
        OBVIOUS
      <4>1. MayHold(cur + 1)
        BY <1>0, <2>1, <2>2, <2>5
      <4> QED
        BY <2>1, <4>1
    <3>2. NextFat' = NextFat
      BY <2>1, <2>2, <3>1 DEF NextFat
    <3>3. Right(c, merkle[NextFat][c])
      BY <1>0, <2>1, <2>5, <3>2
    <3>4. NextReady(c)' /\ NextNum(c)' = NextNum(c) /\ NextHash(c)' = NextHash(c)
      BY <1>1, <3>1, <3>3, NextIsSaved
    <3>5. merkle'[NextFat'][c] = merkle[NextFat][c]
      BY <2>1, <3>2
    <3> QED
      BY <3>3, <3>4, <3>5 DEF HeaderHash
  <2> QED
    BY <2>4, <2>5 DEF MerkleAhead
<1>2. CASE headDB' = headDB /\ merkle' = merkle
  <2>1. HasHeads(headDB)' <=> HasHeads(headDB)
    BY <1>2 DEF HasHeads
  <2>2. \A n \in DOMAIN merkle : MayHold(n)'
    <3>1. CASE HasHeads(headDB)
      <4>1. NextFat' = NextFat
        BY <1>2, <2>1, <3>1 DEF NextFat
      <4> QED
        BY <1>0, <2>1, <3>1, <4>1
    <3>2. CASE ~HasHeads(headDB)
      <4> SUFFICES ASSUME NEW n \in DOMAIN merkle, n # 0
                   PROVE  n = NextFat' /\ savepoint' + 2 = Height'
        BY <2>1, <3>2
      <4>1. n = NextFat /\ savepoint + 2 = Height
        BY <1>0, <3>2
      <4>2. savepoint' = savepoint
        BY <3>2, <4>1, StepKinds, SavePointStep
      <4>3. fat' = fat
        BY <3>2, <4>1, StepKinds, NothingAppended, BasicFacts
      <4> QED
        BY <2>1, <3>2, <4>1, <4>2, <4>3 DEF NextFat, Height
    <3> QED
      BY <3>1, <3>2
  <2>3. ASSUME NEW c \in ConfigOrgList, NextFat' \in DOMAIN merkle', c \in DOMAIN merkle'[NextFat']
        PROVE  Right(c, merkle[NextFat][c])'
    <3>1. NextFat' = NextFat
      <4>1. CASE HasHeads(headDB)
        BY <1>2, <2>1, <4>1 DEF NextFat
      <4>2. CASE ~HasHeads(headDB)
        <5>1. NextFat' = savepoint' + 1 /\ NextFat = savepoint + 1
          BY <2>1, <4>2 DEF NextFat
        <5>2. savepoint' \in Nat
          BY StepKinds, SavePointStep, BasicFacts
        <5>3. PICK n \in DOMAIN merkle : n = NextFat'
          BY <1>2, <2>3
        <5>4. n = 0 \/ n = NextFat
          BY <1>0, <4>2
        <5>5. \A s \in Nat : s + 1 # 0
          OBVIOUS
        <5>6. savepoint' + 1 # 0
          BY <5>2, <5>5
        <5> QED
          BY <5>1, <5>3, <5>4, <5>6
      <4> QED
        BY <4>1, <4>2
    <3>2. Right(c, merkle[NextFat][c])
      BY <1>0, <1>2, <2>3, <3>1
    <3>3. NextReady(c)' /\ NextNum(c)' = NextNum(c) /\ NextHash(c)' = NextHash(c)
      BY <1>2, <3>2, NextKept
    <3>4. merkle'[NextFat'][c] = merkle[NextFat][c]
      BY <1>2, <3>1
    <3> QED
      BY <3>2, <3>3, <3>4 DEF HeaderHash
  <2> QED
    BY <1>2, <2>2, <2>3 DEF MerkleAhead
<1>3. CASE AppendOrgMerkleInfo
  <2>1. /\ pc = "store" /\ merkle' = Put(merkle, cur, [c \in DOMAIN out |-> Details(out[c])])
        /\ UNCHANGED <<fat, savepoint, headDB>>
    BY <1>3 DEF AppendOrgMerkleInfo, ledgerVars
  <2>2. /\ HasHeads(headDB)' <=> HasHeads(headDB)
        /\ NextFat' = NextFat /\ Height' = Height
    BY <2>1 DEF HasHeads, NextFat, Height
  <2>3. /\ DOMAIN merkle' = DOMAIN merkle \cup {cur}
        /\ merkle'[cur] = [c \in DOMAIN out |-> Details(out[c])]
        /\ \A n \in DOMAIN merkle : n # cur => merkle'[n] = merkle[n]
    BY <2>1 DEF Put
  <2>4. MayHold(cur)
    <3>1. /\ cur \in Nat /\ cur < Height /\ Height \in Nat /\ savepoint \in Nat
          /\ cur = 0 => savepoint = 0 \/ HasHeads(headDB)
      BY <2>1, StoringFacts DEF ContentInv
    <3>2. /\ HasHeads(headDB) => cur = headDB.last + 1
          /\ ~HasHeads(headDB) /\ cur # 0 => savepoint = cur - 1 /\ Height = cur + 1
      BY <2>1 DEF ContentInv, Made
    <3> QED
      BY <3>1, <3>2 DEF NextFat
  <2>5. \A n \in DOMAIN merkle' : MayHold(n)'
    <3>1. \A n \in DOMAIN merkle' : MayHold(n)
      BY <1>0, <2>3, <2>4
    <3> QED
      BY <2>1, <2>2, <3>1
  <2>6. ASSUME NEW c \in ConfigOrgList, NextFat' \in DOMAIN merkle', c \in DOMAIN merkle'[NextFat']
        PROVE  Right(c, merkle[NextFat][c])'
    <3>1. PICK d : d = merkle'[NextFat'][c]
      OBVIOUS
    <3>2. Right(c, d)
      <4>1. CASE NextFat = cur
        <5>1. c \in DOMAIN out /\ d = Details(out[c])
          BY <2>2, <2>3, <2>6, <3>1, <4>1
        <5>2. d.num = out[c].num /\ d.prev = out[c].prev /\ d.data = out[c].data
          BY <5>1 DEF Details
        <5>3. /\ NextReady(c) /\ out[c].num = NextNum(c)
              /\ HeaderHash(out[c].prev, out[c].num, out[c].data) = NextHash(c)
          BY <2>1, <4>1, <5>1, OutIsNext, BasicFacts
        <5> QED
          BY <5>2, <5>3
      <4>2. CASE NextFat # cur
        BY <1>0, <2>2, <2>3, <2>6, <3>1, <4>2
      <4> QED
        BY <4>1, <4>2
    <3>3. NextReady(c)' /\ NextNum(c)' = NextNum(c) /\ NextHash(c)' = NextHash(c)
      BY <2>1, <3>2, NextKept
    <3> QED
      BY <3>1, <3>2, <3>3 DEF HeaderHash
  <2> QED
    BY <2>5, <2>6 DEF MerkleAhead
<1>4. merkle' = merkle \/ AppendOrgMerkleInfo
  BY DEF Next, Processor, AddBlock, SendBlock, StartProcessor, ReadStartBlock, ReceiveBlock,
     AppendSavePoint, CreateOrgBlocks, StoreOrgBlock, PublishHeads,
     SaveChannelHeadInfo, StoreFailure, CreateFailure, Evict, Restart, storeVars
<1> QED
  BY <1>1, <1>2, <1>3, <1>4, StepKinds
-----------------------------------------------------------------------------
(* The hash of a fat block is the hash of its header.                      *)
LEMMA FatBlockHash ==
  ASSUME NEW k \in Nat
  PROVE  HeaderHash(FatBlock(k).prev, FatBlock(k).num, FatBlock(k).data) = FatHash(k)
<1> DEFINE e(i) == <<i - 1, FatData(i - 1)>>
           S == {e(i) : i \in 1 .. k + 1}
           f == [i \in 1 .. k + 1 |-> e(i)]
           g == [i \in 1 .. k |-> e(i)]
<1>1. FatHash(k) = f
  BY DEF FatHash
<1>2. f \in Seq(S) /\ Len(f) = k + 1
  <2>1. \A i \in 1 .. k + 1 : e(i) \in S
    OBVIOUS
  <2> HIDE DEF e, S
  <2>2. f \in [1 .. k + 1 -> S]
    BY <2>1
  <2> QED
    BY <2>2
<1>3. SubSeq(f, 1, k) = g
  <2>1. /\ Len(SubSeq(f, 1, k)) = k /\ SubSeq(f, 1, k) \in Seq(S)
        /\ \A i \in 1 .. k : SubSeq(f, 1, k)[i] = f[i]
    <3> HIDE DEF f, S
    <3> QED
      BY <1>2, SubSeqProperties
  <2>2. g \in Seq(S) /\ Len(g) = k /\ \A i \in 1 .. k : g[i] = f[i]
    <3>1. \A i \in 1 .. k : e(i) \in S /\ i \in 1 .. k + 1
      OBVIOUS
    <3> HIDE DEF e, S
    <3>2. g \in [1 .. k -> S] /\ \A i \in 1 .. k : g[i] = f[i]
      BY <3>1
    <3> QED
      BY <3>2
  <2> HIDE DEF f, g, S
  <2> QED
    BY <2>1, <2>2, SeqEqual
<1>4. g \in [1 .. k -> S]
  OBVIOUS
<1>5. Append(g, <<k, FatData(k)>>)
        = [i \in 1 .. k + 1 |-> IF i = k + 1 THEN <<k, FatData(k)>> ELSE g[i]]
  <2> HIDE DEF g, S
  <2> QED
    BY <1>4, AppendOne
<1>6. \A i \in 1 .. k + 1 : f[i] = IF i = k + 1 THEN <<k, FatData(k)>> ELSE g[i]
  OBVIOUS
<1>7. f = [i \in 1 .. k + 1 |-> IF i = k + 1 THEN <<k, FatData(k)>> ELSE g[i]]
  BY <1>6
<1>8. Append(SubSeq(FatHash(k), 1, k), <<k, FatData(k)>>) = FatHash(k)
  <2> HIDE DEF f, g, S
  <2> QED
    BY <1>1, <1>3, <1>5, <1>7
<1> QED
  BY <1>8 DEF FatBlock, HeaderHash

(* A promised block has a fat block for it.                                *)
LEMMA PledgedBound ==
  ASSUME IInv, ContentInv, HeadsBehind, NEW c \in ConfigOrgList, NEW k \in Nat,
         NEW x, Pledged(c, k, x)
  PROVE  k < Height
<1>1. \A d \in DOMAIN headDB.heads : headDB.heads[d].num <= headDB.last
  BY DEF HeadsBehind
<1>2. CASE k \in BlocksOf(headDB, c)
  <2>1. c \in DOMAIN headDB.heads /\ k <= headDB.heads[c].num
    BY <1>2 DEF BlocksOf
  <2>2. headDB.heads[c].num <= headDB.last /\ headDB.last < Height /\ headDB.heads[c].num \in Nat
    BY <1>1, <2>1, BasicFacts
  <2> QED
    BY <2>1, <2>2, BasicFacts
<1>3. CASE k = NextNum(c) /\ NextReady(c)
  <2>1. NextFat < Height
    BY <1>3 DEF NextReady
  <2>2. NextNum(c) <= NextFat
    <3>1. CASE HasHeads(headDB)
      <4>1. c \in DOMAIN headDB.heads /\ headDB.heads[c].num \in Nat /\ headDB.last \in Nat
        BY <3>1, BasicFacts
      <4> QED
        BY <1>1, <3>1, <4>1 DEF NextNum, NextFat
    <3>2. CASE ~HasHeads(headDB)
      BY <3>2, BasicFacts DEF NextNum, NextFat
    <3> QED
      BY <3>1, <3>2
  <2> QED
    BY <1>3, <2>1, <2>2, BasicFacts
<1> QED
  BY <1>2, <1>3 DEF Pledged

(* What Get returns is the block with the number asked for, as promised.   *)
LEMMA GetIsPledged ==
  ASSUME IInv, ContentInv, AheadInv, NEW c \in ConfigOrgList, NEW k \in Nat, Present(c, k)
  PROVE  LET b == GetBlock(c, k)
         IN  b.num = k /\ Pledged(c, k, HeaderHash(b.prev, b.num, b.data))
<1>1. CASE <<c, k>> \in DOMAIN cache
  BY <1>1 DEF AheadInv, CacheAhead, GetBlock
<1>2. CASE <<c, k>> \notin DOMAIN cache /\ k <= savepoint
  <2>1. GetBlock(c, k) = FatBlock(k) /\ k < Height
    BY <1>2 DEF GetBlock, Present, InStores
  <2>2. FatBlock(k).num = k
    BY DEF FatBlock
  <2>3. HeaderHash(FatBlock(k).prev, FatBlock(k).num, FatBlock(k).data) = FatHash(k)
    BY FatBlockHash
  <2> QED
    BY <1>2, <2>1, <2>2, <2>3 DEF Pledged
<1>3. CASE <<c, k>> \notin DOMAIN cache /\ ~(k <= savepoint)
  <2>1. /\ GetBlock(c, k) = AssembledBlock(c, k)
        /\ <<c, k>> \in DOMAIN index /\ index[<<c, k>>] \in DOMAIN merkle
        /\ c \in DOMAIN merkle[index[<<c, k>>]]
    BY <1>3 DEF GetBlock, Present, InStores
  <2> DEFINE d == StoredDetails(c, k)
             b == AssembledBlock(c, k)
  <2>2. b.num = d.num /\ b.prev = d.prev /\ b.data = d.data
    BY DEF AssembledBlock
  <2>3. d.num = k /\ Pledged(c, k, HeaderHash(d.prev, k, d.data))
    <3>1. CASE k \in BlocksOf(headDB, c)
      <4>1. c \in DOMAIN headDB.heads /\ k \in savepoint + 1 .. headDB.heads[c].num
        BY <1>3, <3>1, BasicFacts DEF BlocksOf
      <4>2. Backed(c, k, headDB.last)
        BY <4>1 DEF IInv, Covered
      <4>3. d.num = k
        BY <4>2 DEF Backed, StoredDetails
      <4>4. StoredHash(c, k) = HeaderHash(d.prev, k, d.data)
        BY <1>3 DEF StoredHash
      <4> HIDE DEF d
      <4> QED
        BY <1>3, <3>1, <4>3, <4>4, BasicFacts DEF Pledged
    <3>2. CASE k \notin BlocksOf(headDB, c)
      <4>1. k = NextNum(c) /\ index[<<c, k>>] = NextFat /\ NextReady(c)
        BY <1>3, <2>1, <3>2, BasicFacts DEF AheadInv, IndexAhead
      <4>2. d = merkle[NextFat][c]
        BY <4>1 DEF StoredDetails
      <4>3. d.num = NextNum(c) /\ HeaderHash(d.prev, d.num, d.data) = NextHash(c)
        BY <2>1, <4>1, <4>2 DEF AheadInv, MerkleAhead
      <4> HIDE DEF d
      <4> QED
        BY <4>1, <4>3 DEF Pledged
    <3> QED
      BY <3>1, <3>2
  <2> HIDE DEF d, b
  <2>4. b.num = k /\ Pledged(c, k, HeaderHash(b.prev, b.num, b.data))
    BY <2>2, <2>3
  <2> QED
    BY <2>1, <2>4 DEF b
<1> QED
  BY <1>1, <1>2, <1>3

(* The visible heads only grow while the process runs.                     *)
LEMMA HeightGrows ==
  ASSUME IInv, Next, container' # EmptyHeader \/ container' = container, NEW c
  PROVE  OrgHeight(c)' >= OrgHeight(c)
<1>1. \/ headDB' = headDB /\ container' = container
      \/ headDB' = headDB /\ pc = "publish" /\ container' = chHeader
      \/ headDB' = chHeader /\ pc = "save" /\ container' = container
  BY DEF Next, Processor, AddBlock, SendBlock, StartProcessor, ReadStartBlock, ReceiveBlock,
     AppendSavePoint, CreateOrgBlocks, StoreOrgBlock, AppendOrgMerkleInfo, PublishHeads,
     SaveChannelHeadInfo, StoreFailure, CreateFailure, Evict, Restart, storeVars
<1>2. \A h \in {headDB, container, chHeader} : \A d \in DOMAIN h.heads : h.heads[d].num \in Nat
  BY DEF IInv, TypeOK
<1>3. CASE headDB' = headDB /\ container' = container
  <2>1. VisibleHeader' = VisibleHeader /\ VisibleHeader \in {headDB, container}
    BY <1>3 DEF VisibleHeader
  <2> QED
    BY <1>2, <2>1 DEF OrgHeight
<1>4. CASE headDB' = headDB /\ pc = "publish" /\ container' = chHeader
  <2>1. /\ HasHeads(chHeader) /\ (HasHeads(container) => container = headDB)
        /\ \A d \in DOMAIN headDB.heads :
              d \in DOMAIN chHeader.heads /\ headDB.heads[d].num <= chHeader.heads[d].num
    BY <1>4 DEF IInv, StoreInv
  <2>2. VisibleHeader = headDB /\ VisibleHeader' = chHeader
    BY <1>4, <2>1 DEF VisibleHeader
  <2> QED
    BY <1>2, <2>1, <2>2 DEF OrgHeight
<1>5. CASE headDB' = chHeader /\ pc = "save" /\ container' = container
  <2>1. HasHeads(container)
    BY <1>5 DEF IInv, StoreInv
  <2>2. VisibleHeader' = container /\ VisibleHeader = container
    BY <1>5, <2>1 DEF VisibleHeader
  <2> QED
    BY <1>2, <2>2 DEF OrgHeight
<1> QED
  BY <1>1, <1>3, <1>4, <1>5
-----------------------------------------------------------------------------
(* Every step of the processor keeps the invariant of the chains.          *)
LEMMA ChainInvStep ==
  ASSUME QuietSwitch, ChainInv, Next
  PROVE  ChainInv'
<1>1. IInv'
  BY NextIInv DEF ChainInv
<1>2. ContentInv'
  BY LinkedStep, MadeStep, BeginningStep DEF ContentInv, ChainInv
<1>3. AheadInv'
  BY BeginAtStep, HeadsBehindStep, CacheAheadStep, IndexAheadStep, MerkleAheadStep
     DEF AheadInv, ChainInv
<1> QED
  BY <1>1, <1>2, <1>3 DEF ChainInv

(* A stream changes nothing of the chain, or stops the process.            *)
StreamEffect ==
    /\ UNCHANGED <<ledgerVars, storeVars, cache, container, chHeader, isStart,
                   cur, syncTo, out, todo, boundVars>>
    /\ pc' \in {pc, "panic"}

(* The chain invariant and the promises do not depend on the streams.      *)
LEMMA StreamChainInv ==
  ASSUME ChainInv, StreamEffect
  PROVE  ChainInv' /\ \A x : \A c \in ConfigOrgList, k \in Nat : Pledged(c, k, x) => Pledged(c, k, x)'
<1>0. /\ UNCHANGED <<fat, sending, sparseCh, headDB, index, merkle, savepoint, versions>>
      /\ UNCHANGED <<cache, container, chHeader, isStart, cur, syncTo, out, todo, crashes, faults>>
      /\ pc' \in {pc, "panic"}
  BY DEF StreamEffect, ledgerVars, storeVars, boundVars
<1>1. IInv'
  <2>1. TypeOK' /\ QueueInv' /\ LedgerInv'
    BY <1>0 DEF ChainInv, IInv, TypeOK, QueueInv, LedgerInv, NextOut, InSend, Height
  <2>2. /\ Anchored(headDB)' /\ Anchored(container)' /\ Anchored(chHeader)'
        /\ Covered(headDB)' /\ Covered(container)'
    BY <1>0 DEF ChainInv, IInv, Anchored, Covered, Backed, HasHeads, Height
  <2>3. BootInv' /\ LoopInv' /\ WorkInv'
    BY <1>0 DEF ChainInv, IInv, BootInv, LoopInv, WorkInv, AtRest, HasHeads, NextOut, InSend,
       Height, Quiescent
  <2>4. StoreInv'
    BY <1>0 DEF ChainInv, IInv, StoreInv, HasHeads, NextOut, InSend, Height
  <2>5. WrittenInv'
    BY <1>0 DEF ChainInv, IInv, WrittenInv, Details
  <2> QED
    BY <2>1, <2>2, <2>3, <2>4, <2>5 DEF IInv
<1>2. ContentInv'
  <2>1. Linked(headDB)' /\ Linked(container)'
    <3>1. \A h : Linked(h) => Linked(h)'
      BY <1>0, LinkedUnchanged
    <3>2. PICK h, g : h = headDB' /\ g = container'
      OBVIOUS
    <3>3. Linked(h)' /\ Linked(g)'
      BY <1>0, <3>1, <3>2 DEF ChainInv, ContentInv
    <3> QED
      BY <3>2, <3>3 DEF Linked
  <2>2. CASE pc' = pc
    <3>1. Made'
      <4>1. SavedBase' = SavedBase
        BY <1>0 DEF SavedBase, HasHeads, FatHash, FatData, IsConfigBlock, FatLastConfig
      <4>2. \A c, b : CutFrom(c, b)' <=> CutFrom(c, b)
        BY <1>0, <4>1 DEF CutFrom, CreateNextBlock, IsConfigBlock
      <4>3. NewHeader(SavedBase, out, cur)' = NewHeader(SavedBase, out, cur)
        BY <1>0, <4>1 DEF NewHeader, HeadOfBlock, HeaderHash
      <4> QED
        BY <1>0, <2>2, <4>1, <4>2, <4>3
           DEF ChainInv, ContentInv, Made, HasHeads, Height, IsConfigBlock
    <3>2. Beginning'
      BY <1>0, <2>2 DEF ChainInv, ContentInv, Beginning, HasHeads, Height
    <3> QED
      BY <2>1, <3>1, <3>2 DEF ContentInv
  <2>3. CASE pc' = "panic"
    <3>1. Made' /\ Beginning'
      BY <1>0, <2>3 DEF ChainInv, ContentInv, Made, Beginning, HasHeads, Height
    <3> QED
      BY <2>1, <3>1 DEF ContentInv
  <2> QED
    BY <1>0, <2>2, <2>3
<1>3. /\ NextFat' = NextFat /\ Height' = Height /\ (HasHeads(headDB)' <=> HasHeads(headDB))
      /\ \A k : FatHash(k)' = FatHash(k)
  BY <1>0 DEF NextFat, Height, HasHeads, FatHash, FatData
<1>4. \A c, k : /\ NextNum(c)' = NextNum(c) /\ NextHash(c)' = NextHash(c)
                /\ NextReady(c)' <=> NextReady(c)
                /\ StoredHash(c, k)' = StoredHash(c, k)
                /\ BlocksOf(headDB, c)' = BlocksOf(headDB, c)
  <2>1. \A c : NextNum(c)' = NextNum(c) /\ (NextReady(c)' <=> NextReady(c))
    BY <1>0, <1>3 DEF NextNum, NextReady
  <2>2. \A c : NextHash(c)' = NextHash(c)
    BY <1>0, <1>3, <2>1 DEF NextHash, HeaderHash
  <2>3. \A c, k : StoredHash(c, k)' = StoredHash(c, k)
    BY <1>0, <1>3 DEF StoredHash, StoredDetails, HeaderHash
  <2>4. \A c : BlocksOf(headDB, c)' = BlocksOf(headDB, c)
    BY <1>0 DEF BlocksOf
  <2> QED
    BY <2>1, <2>2, <2>3, <2>4
<1>5. \A c, k, x : Pledged(c, k, x)' <=> Pledged(c, k, x)
  BY <1>0, <1>3, <1>4 DEF Pledged
<1>6. AheadInv'
  <2>1. BeginAt' /\ HeadsBehind'
    BY <1>0, <1>3 DEF ChainInv, AheadInv, BeginAt, HeadsBehind
  <2>2. CacheAhead'
    <3> SUFFICES ASSUME NEW c \in ConfigOrgList, NEW k \in Nat, <<c, k>> \in DOMAIN cache'
                 PROVE  (/\ cache[<<c, k>>].num = k
                         /\ Pledged(c, k, HeaderHash(cache[<<c, k>>].prev, k,
                                                     cache[<<c, k>>].data)))'
      BY DEF CacheAhead
    <3>1. PICK y : y = HeaderHash(cache[<<c, k>>].prev, k, cache[<<c, k>>].data)
      OBVIOUS
    <3>2. cache[<<c, k>>].num = k /\ Pledged(c, k, y)
      BY <1>0, <3>1 DEF ChainInv, AheadInv, CacheAhead
    <3>3. Pledged(c, k, y)'
      BY <1>5, <3>2
    <3>4. y = HeaderHash(cache[<<c, k>>].prev, k, cache[<<c, k>>].data)'
      BY <1>0, <3>1 DEF HeaderHash
    <3> QED
      BY <1>0, <3>2, <3>3, <3>4 DEF Pledged
  <2>3. IndexAhead'
    BY <1>0, <1>3, <1>4 DEF ChainInv, AheadInv, IndexAhead
  <2>4. MerkleAhead'
    BY <1>0, <1>3, <1>4 DEF ChainInv, AheadInv, MerkleAhead, HeaderHash
  <2> QED
    BY <2>1, <2>2, <2>3, <2>4 DEF AheadInv
<1> QED
  BY <1>1, <1>2, <1>5, <1>6 DEF ChainInv

(* A height never exceeds the number of fat blocks.                        *)
LEMMA HeightBound ==
  ASSUME ChainInv, NEW c
  PROVE  OrgHeight(c) \in 0 .. MaxFat
<1>1. /\ Height <= MaxFat /\ Height \in Nat
      /\ \A h \in {headDB, container} :
            h.last \in Nat /\ \A d \in DOMAIN h.heads : h.heads[d].num \in Nat
  BY DEF ChainInv, IInv, TypeOK, Height
<1>2. \A h \in {headDB, container} :
        \A d \in DOMAIN h.heads : h.heads[d].num <= h.last /\ h.last < Height
  BY DEF ChainInv, IInv, Anchored, HasHeads, AheadInv, HeadsBehind
<1>3. VisibleHeader \in {headDB, container}
  BY DEF VisibleHeader
<1>4. CASE c \in DOMAIN VisibleHeader.heads
  <2>1. /\ VisibleHeader.heads[c].num \in Nat /\ VisibleHeader.last \in Nat
        /\ VisibleHeader.heads[c].num <= VisibleHeader.last /\ VisibleHeader.last < Height
    BY <1>1, <1>2, <1>3, <1>4
  <2> QED
    BY <1>1, <1>4, <2>1, ParametersAssumption DEF OrgHeight
<1>5. CASE c \notin DOMAIN VisibleHeader.heads
  BY <1>5, ParametersAssumption DEF OrgHeight
<1> QED
  BY <1>4, <1>5

HeightOK == \A c : OrgHeight(c) \in 0 .. MaxFat

(* The same for the state before and the state after a step.               *)
LEMMA HeightsBounded == (ChainInv => HeightOK) /\ (ChainInv' => HeightOK')
<1>1. ChainInv => HeightOK
  BY HeightBound DEF HeightOK
<1> QED
  BY <1>1, PTL

(* A stream stays as it is said to be while its height does not shrink.    *)
LEMMA StreamKept ==
  ASSUME ChainInv, ChainInv', NEW s, StreamOK(s), \A c : OrgHeight(c)' >= OrgHeight(c)
  PROVE  StreamOK(s)'
<1>1. OrgHeight(s.chain) \in Nat /\ OrgHeight(s.chain)' \in Nat
  BY HeightsBounded, ParametersAssumption DEF HeightOK
<1>2. OrgHeight(s.chain)' >= OrgHeight(s.chain)
  OBVIOUS
<1>3. s.max \in Nat
  BY DEF StreamOK, StreamType
<1> QED
  BY <1>1, <1>2, <1>3 DEF StreamOK

(* A stream that goes on in Next.                                          *)
LEMMA AtNextOK ==
  ASSUME ChainInv, NEW c \in ConfigOrgList, NEW n \in 0 .. MaxUint64,
         NEW m \in 0 .. MaxUint64, m # MaxUint64 => m < OrgHeight(c)
  PROVE  StreamOK(AtNext(c, n, m))
BY ReadersAssumption DEF StreamOK, StreamType, AtNext

(* Streams that are not touched stay as they are said to be.               *)
LEMMA StreamsKept ==
  ASSUME ChainInv, ChainInv', StreamsOK, reader' = reader,
         \A c : OrgHeight(c)' >= OrgHeight(c)
  PROVE  StreamsOK'
<1>1. \A s : StreamOK(s) => StreamOK(s)'
  BY StreamKept
<1>2. ASSUME NEW r \in Readers PROVE StreamOK(reader[r])'
  <2>1. PICK s : s = reader[r]
    OBVIOUS
  <2>2. StreamOK(s)'
    BY <1>1, <2>1 DEF StreamsOK
  <2> QED
    BY <2>1, <2>2 DEF StreamOK
<1> QED
  BY <1>2 DEF StreamsOK

(* One stream moves.                                                       *)
LEMMA OneStreamMoves ==
  ASSUME ChainInv, ChainInv', StreamsOK, NEW r \in Readers, NEW s, StreamOK(s),
         reader' = [reader EXCEPT ![r] = s], \A c : OrgHeight(c)' >= OrgHeight(c)
  PROVE  StreamsOK'
<1>1. \A t : StreamOK(t) => StreamOK(t)'
  BY StreamKept
<1>2. reader' \in [Readers -> StreamType]
  BY DEF StreamsOK, StreamOK
<1>3. ASSUME NEW q \in Readers PROVE StreamOK(reader[q])'
  <2>1. PICK t : t = reader'[q]
    OBVIOUS
  <2>2. StreamOK(t)
    BY <2>1 DEF StreamsOK
  <2>3. StreamOK(t)'
    BY <1>1, <2>2
  <2> QED
    BY <2>1, <2>3 DEF StreamOK
<1> QED
  BY <1>2, <1>3 DEF StreamsOK

(* What the heads say of a height stays when the stores of heads do.       *)
LEMMA HeightSame ==
  ASSUME ChainInv, headDB' = headDB, container' = container
  PROVE  \A c : OrgHeight(c)' >= OrgHeight(c)
<1>1. \A c : OrgHeight(c)' = OrgHeight(c) /\ OrgHeight(c) \in Int
  BY HeightsBounded, ParametersAssumption DEF OrgHeight, VisibleHeader, HasHeads, HeightOK
<1> QED
  BY <1>1

(* The steps of the processor keep the streams and what they delivered.    *)
LEMMA ProcessorStepInv ==
  ASSUME QuietSwitch, DInv, ChainStep \/ PublishAndWake \/ RestartAll
  PROVE  DInv'
<1>0. IInv /\ ContentInv /\ BeginAt /\ StreamsOK /\ ChainInv
  BY DEF DInv, ChainInv, AheadInv
<1>1. Next /\ delivered' = delivered
  BY DEF ChainStep, PublishAndWake, RestartAll, Next, Processor
<1>2. ChainInv'
  BY <1>0, <1>1, ChainInvStep
<1>3. DeliveredPledged'
  <2> SUFFICES ASSUME NEW d \in delivered
               PROVE  (d.chain \in ConfigOrgList /\ d.num \in Nat
                         /\ Pledged(d.chain, d.num, d.hash))'
    BY <1>1 DEF DeliveredPledged
  <2>1. d.chain \in ConfigOrgList /\ d.num \in Nat /\ Pledged(d.chain, d.num, d.hash)
    BY DEF DInv, DeliveredPledged
  <2>2. Pledged(d.chain, d.num, d.hash)'
    BY <1>0, <1>1, <2>1, PledgeKept
  <2> QED
    BY <2>1, <2>2
<1>4. CASE ChainStep
  <2>1. container' = container /\ reader' = reader
    BY <1>4 DEF ChainStep, Processor, AddBlock, SendBlock, StartProcessor, ReadStartBlock,
       ReceiveBlock, AppendSavePoint, CreateOrgBlocks, StoreOrgBlock, AppendOrgMerkleInfo,
       PublishHeads, SaveChannelHeadInfo, StoreFailure, CreateFailure, Evict
  <2>2. \A c : OrgHeight(c)' >= OrgHeight(c)
    BY <1>0, <1>1, <2>1, HeightGrows
  <2> QED
    BY <1>0, <1>2, <1>3, <2>1, <2>2, StreamsKept DEF DInv
<1>5. CASE PublishAndWake
  <2>1. /\ pc = "publish" /\ container' = chHeader /\ HasHeads(chHeader)
        /\ reader' = [r \in Readers |-> IF reader[r].pc = "asleep"
                                        THEN [reader[r] EXCEPT !.pc = "check"] ELSE reader[r]]
    BY <1>0, <1>5 DEF PublishAndWake, PublishHeads, IInv, StoreInv
  <2>2. container' # EmptyHeader
    BY <2>1 DEF HasHeads, EmptyHeader, EmptyMap
  <2>3. \A c : OrgHeight(c)' >= OrgHeight(c)
    BY <1>0, <1>1, <2>2, HeightGrows
  <2>4. \A t : StreamOK(t) => StreamOK(t)'
    BY <1>0, <1>2, <2>3, StreamKept
  <2>5. ASSUME NEW q \in Readers PROVE StreamOK(reader'[q]) /\ reader'[q] \in StreamType
    <3>1. StreamOK(reader[q])
      BY <1>0 DEF StreamsOK
    <3>2. CASE reader[q].pc = "asleep"
      <4>1. PICK s : s = reader[q]
        OBVIOUS
      <4>2. s \in StreamType /\ s.pc = "asleep" /\ StreamOK(s)
        BY <3>1, <3>2, <4>1 DEF StreamOK
      <4>3. [s EXCEPT !.pc = "check"] \in StreamType
        BY <4>2 DEF StreamType
      <4>4. StreamOK([s EXCEPT !.pc = "check"])
        BY <4>2, <4>3 DEF StreamOK, StreamType
      <4> QED
        BY <2>1, <3>2, <4>1, <4>3, <4>4
    <3>3. CASE reader[q].pc # "asleep"
      BY <2>1, <3>1, <3>3 DEF StreamOK
    <3> QED
      BY <3>2, <3>3
  <2>6. reader' \in [Readers -> StreamType]
    BY <2>1, <2>5
  <2>7. ASSUME NEW q \in Readers PROVE StreamOK(reader[q])'
    <3>1. PICK t : t = reader'[q]
      OBVIOUS
    <3>2. StreamOK(t)'
      BY <2>4, <2>5, <3>1
    <3> QED
      BY <3>1, <3>2 DEF StreamOK
  <2>8. StreamsOK'
    BY <2>6, <2>7 DEF StreamsOK
  <2> QED
    BY <1>2, <1>3, <2>8 DEF DInv
<1>6. CASE RestartAll
  <2>1. reader' = [r \in Readers |-> Closed]
    BY <1>6 DEF RestartAll
  <2>2. StreamsOK'
    BY <2>1, ReadersAssumption, ParametersAssumption
       DEF StreamsOK, StreamOK, StreamType, Closed, ConfigOrgList
  <2> QED
    BY <1>2, <1>3, <2>2 DEF DInv
<1> QED
  BY <1>4, <1>5, <1>6

(* The steps of a stream keep the invariant.                               *)
LEMMA StreamStepInv ==
  ASSUME DInv, NEW r \in Readers,
         \/ \E c \in ConfigOrgList, n \in 0 .. MaxFat \cup {MaxUint64} : OpenStream(r, c, n)
         \/ ReaderStep(r) \/ CloseStream(r)
  PROVE  DInv'
<1>0. ChainInv /\ StreamsOK /\ StreamOK(reader[r]) /\ reader[r] \in StreamType
  BY DEF DInv, StreamsOK, StreamOK
<1>1. StreamEffect
  BY DEF OpenStream, ReaderStep, CheckHeight, Park, GetNext, CloseStream, StreamEffect, vars,
     procVars
<1>2. ChainInv' /\ \A x : \A c \in ConfigOrgList, k \in Nat : Pledged(c, k, x) => Pledged(c, k, x)'
  BY <1>0, <1>1, StreamChainInv
<1>3. \A c : OrgHeight(c)' >= OrgHeight(c)
  BY <1>0, <1>1, HeightSame DEF StreamEffect, storeVars
<1>4. \A c : OrgHeight(c) \in 0 .. MaxFat
  BY <1>0, HeightsBounded DEF HeightOK
<1>5. /\ reader[r].chain \in ConfigOrgList /\ reader[r].num \in 0 .. MaxUint64
      /\ reader[r].max \in 0 .. MaxUint64
      /\ MaxUint64 \in Nat /\ MaxFat \in Nat /\ MaxUint64 > MaxFat + 1
  BY <1>0, ReadersAssumption, ParametersAssumption DEF StreamType
<1>6. StreamsOK'
  <2>1. ASSUME NEW s, StreamOK(s), reader' = [reader EXCEPT ![r] = s] PROVE StreamsOK'
    BY <1>0, <1>2, <1>3, <2>1, OneStreamMoves
  <2>2. ASSUME NEW c \in ConfigOrgList, NEW n \in 0 .. MaxFat \cup {MaxUint64}, OpenStream(r, c, n)
        PROVE  StreamsOK'
    <3> DEFINE m == Wrap(OrgHeight(c))
    <3>1. OrgHeight(c) \in 0 .. MaxFat
      BY <1>4
    <3>2. m \in 0 .. MaxUint64 /\ (m # MaxUint64 => m < OrgHeight(c))
      BY <1>5, <3>1 DEF Wrap
    <3>3. n \in 0 .. MaxUint64
      BY <1>5
    <3>4. reader' = [reader EXCEPT ![r] = AtNext(c, n, m)]
      BY <2>2 DEF OpenStream
    <3> HIDE DEF m
    <3>5. StreamOK(AtNext(c, n, m))
      BY <1>0, <3>2, <3>3, AtNextOK
    <3> QED
      BY <2>1, <3>4, <3>5
  <2>3. CASE CheckHeight(r)
    <3> DEFINE h == OrgHeight(reader[r].chain)
    <3>1. h \in 0 .. MaxFat /\ reader[r].pc = "check"
      BY <1>4, <2>3 DEF CheckHeight
    <3>2. reader' = IF h <= reader[r].num THEN [reader EXCEPT ![r].pc = "park"]
                    ELSE [reader EXCEPT ![r].pc = "get", ![r].max = h - 1]
      BY <2>3 DEF CheckHeight
    <3>3. CASE h <= reader[r].num
      <4>1. reader' = [reader EXCEPT ![r] = [reader[r] EXCEPT !.pc = "park"]]
        BY <3>2, <3>3
      <4>2. StreamOK([reader[r] EXCEPT !.pc = "park"])
        BY <1>0, <3>1 DEF StreamOK, StreamType
      <4> QED
        BY <2>1, <4>1, <4>2
    <3>4. CASE ~(h <= reader[r].num)
      <4>1. reader' = [reader EXCEPT ![r] = [reader[r] EXCEPT !.pc = "get", !.max = h - 1]]
        BY <1>0, <3>2, <3>4 DEF StreamsOK
      <4>2. h - 1 \in 0 .. MaxUint64 /\ reader[r].num <= h - 1 /\ h - 1 < h
        BY <1>5, <3>1, <3>4
      <4>3. [reader[r] EXCEPT !.pc = "get", !.max = h - 1] \in StreamType
        BY <1>0, <4>2 DEF StreamType
      <4>4. StreamOK([reader[r] EXCEPT !.pc = "get", !.max = h - 1])
        BY <1>0, <4>2, <4>3 DEF StreamOK, StreamType
      <4> QED
        BY <2>1, <4>1, <4>4
    <3> QED
      BY <3>3, <3>4
  <2>4. CASE Park(r)
    <3>1. reader[r].pc = "park" /\ reader' = [reader EXCEPT ![r] = [reader[r] EXCEPT !.pc = "asleep"]]
      BY <2>4 DEF Park
    <3>2. StreamOK([reader[r] EXCEPT !.pc = "asleep"])
      BY <1>0, <3>1 DEF StreamOK, StreamType
    <3> QED
      BY <2>1, <3>1, <3>2
  <2>5. CASE GetNext(r)
    <3> DEFINE c == reader[r].chain
               k == reader[r].num
               m == reader[r].max
    <3>1. CASE reader' = reader
      BY <1>0, <1>2, <1>3, <3>1, StreamsKept
    <3>2. CASE Present(c, k) /\ reader' = [reader EXCEPT ![r] = AtNext(c, k + 1, m)]
      <4>1. k \in Nat /\ c \in ConfigOrgList /\ reader[r].pc = "get"
        BY <1>5, <2>5 DEF GetNext
      <4>2. PICK x : Pledged(c, k, x)
        BY <1>0, <3>2, <4>1, GetIsPledged DEF ChainInv
      <4>3. k < Height
        BY <1>0, <4>1, <4>2, PledgedBound DEF ChainInv, AheadInv
      <4>4. Height <= MaxFat /\ Height \in Nat
        BY <1>0 DEF ChainInv, IInv, TypeOK, Height
      <4>5. k + 1 \in 0 .. MaxUint64
        BY <1>5, <4>1, <4>3, <4>4
      <4>6. m # MaxUint64 => m < OrgHeight(c)
        BY <1>0, <4>1 DEF StreamOK
      <4>7. StreamOK(AtNext(c, k + 1, m))
        BY <1>0, <1>5, <4>1, <4>5, <4>6, AtNextOK
      <4> QED
        BY <2>1, <3>2, <4>7
    <3> QED
      BY <2>5, <3>1, <3>2 DEF GetNext
  <2>6. CASE CloseStream(r)
    <3>1. reader' = [reader EXCEPT ![r] = Closed]
      BY <2>6 DEF CloseStream
    <3>2. StreamOK(Closed)
      BY <1>5 DEF StreamOK, StreamType, Closed, ConfigOrgList
    <3> QED
      BY <2>1, <3>1, <3>2
  <2> QED
    BY <2>2, <2>3, <2>4, <2>5, <2>6 DEF ReaderStep
<1>7. DeliveredPledged'
  <2> SUFFICES ASSUME NEW d \in delivered'
               PROVE  (d.chain \in ConfigOrgList /\ d.num \in Nat
                         /\ Pledged(d.chain, d.num, d.hash))'
    BY DEF DeliveredPledged
  <2>1. d.chain \in ConfigOrgList /\ d.num \in Nat /\ Pledged(d.chain, d.num, d.hash)
    <3>1. CASE d \in delivered
      BY <3>1 DEF DInv, DeliveredPledged
    <3>2. CASE d \notin delivered
      <4> DEFINE c == reader[r].chain
                 k == reader[r].num
                 b == GetBlock(c, k)
      <4>1. Present(c, k) /\ d = Delivery(c, b)
        BY <3>2 DEF OpenStream, ReaderStep, CheckHeight, Park, GetNext, CloseStream
      <4>2. b.num = k /\ Pledged(c, k, HeaderHash(b.prev, b.num, b.data))
        BY <1>0, <1>5, <4>1, GetIsPledged DEF ChainInv
      <4>3. d.chain = c /\ d.num = b.num /\ d.hash = HeaderHash(b.prev, b.num, b.data)
        BY <4>1 DEF Delivery
      <4> HIDE DEF b
      <4> QED
        BY <1>5, <4>2, <4>3
    <3> QED
      BY <3>1, <3>2
  <2> QED
    BY <1>2, <2>1
<1> QED
  BY <1>2, <1>6, <1>7 DEF DInv
-----------------------------------------------------------------------------
(* At every moment the streams know no more than the visible heads, and    *)
(* all that is cached, stored ahead of the heads or delivered is what the  *)
(* saved heads and the fat ledger determine (orgCacheIterator.Next).       *)
THEOREM DeliverInvariance ==
  ASSUME QuietSwitch
  PROVE  DSpec => []DInv
<1>1. DInit => DInv
  <2> SUFFICES ASSUME DInit PROVE DInv
    OBVIOUS
  <2>1. Init /\ IInv
    BY InitIInv DEF DInit
  <2>2. ContentInv
    BY <2>1 DEF Init, ContentInv, Linked, Made, Beginning, EmptyHeader, EmptyMap
  <2>3. AheadInv
    BY <2>1 DEF Init, AheadInv, BeginAt, HeadsBehind, CacheAhead, IndexAhead, MerkleAhead,
       EmptyHeader, EmptyMap
  <2>4. StreamsOK
    BY ReadersAssumption, ParametersAssumption
       DEF DInit, StreamsOK, StreamOK, StreamType, Closed, ConfigOrgList
  <2>5. DeliveredPledged
    BY DEF DInit, DeliveredPledged
  <2> QED
    BY <2>1, <2>2, <2>3, <2>4, <2>5 DEF DInv, ChainInv
<1>2. DInv /\ [DNext]_dvars => DInv'
  <2> SUFFICES ASSUME DInv, [DNext]_dvars PROVE DInv'
    OBVIOUS
  <2>1. CASE UNCHANGED dvars
    <3>1. StreamEffect /\ reader' = reader /\ delivered' = delivered
      BY <2>1 DEF dvars, vars, procVars, StreamEffect
    <3>2. /\ ChainInv'
          /\ \A x : \A c \in ConfigOrgList, k \in Nat : Pledged(c, k, x) => Pledged(c, k, x)'
      BY <3>1, StreamChainInv DEF DInv
    <3>3. \A c : OrgHeight(c)' >= OrgHeight(c)
      BY <3>1, HeightSame DEF DInv, StreamEffect, storeVars
    <3>4. StreamsOK'
      BY <3>1, <3>2, <3>3, StreamsKept DEF DInv
    <3>5. DeliveredPledged'
      BY <3>1, <3>2 DEF DInv, DeliveredPledged
    <3> QED
      BY <3>2, <3>4, <3>5 DEF DInv
  <2>2. CASE DNext
    BY <2>2, ProcessorStepInv, StreamStepInv DEF DNext
  <2> QED
    BY <2>1, <2>2
<1> QED
  BY <1>1, <1>2, PTL DEF DSpec

(* An iterator's numbers stay in the width modelled, the successor of the  *)
(* wrapped number is never taken (orgCacheIterator.Next, Height() - 1).    *)
THEOREM IteratorTypeCorrect ==
  ASSUME QuietSwitch
  PROVE  DSpec => []DTypeOK
<1>1. DInv => DTypeOK
  BY DEF DInv, StreamsOK, StreamType, DTypeOK
<1> QED
  BY <1>1, DeliverInvariance, PTL

(* A stream that learnt a height asks only for blocks that can be read, so *)
(* that assembleOrgBlock never dereferences missing details for it.        *)
THEOREM KnownHeightAlwaysPresent ==
  ASSUME QuietSwitch
  PROVE  DSpec => []KnownHeightIsPresent
<1>1. DInv => KnownHeightIsPresent
  <2> SUFFICES ASSUME DInv, NEW r \in Readers, reader[r].pc = "get", reader[r].max # MaxUint64
               PROVE  Present(reader[r].chain, reader[r].num)
    BY DEF KnownHeightIsPresent
  <2> DEFINE c == reader[r].chain
             k == reader[r].num
             m == reader[r].max
  <2>1. /\ c \in ConfigOrgList /\ k \in Nat /\ m \in Nat
        /\ m < OrgHeight(c) /\ k <= m
    BY ReadersAssumption DEF DInv, StreamsOK, StreamOK, StreamType
  <2>2. VisibleHeader \in {headDB, container} /\ c \in Chains
    BY <2>1, ChainsAssumption DEF VisibleHeader, ConfigOrgList
  <2>3. k \in BlocksOf(VisibleHeader, c)
    <3>1. c \in DOMAIN VisibleHeader.heads /\ VisibleHeader.heads[c].num \in Nat
      <4>1. c \in DOMAIN VisibleHeader.heads
        BY <2>1 DEF OrgHeight
      <4> QED
        BY <2>2, <4>1 DEF DInv, ChainInv, IInv, TypeOK
    <3>2. OrgHeight(c) = VisibleHeader.heads[c].num + 1
      BY <3>1 DEF OrgHeight
    <3> HIDE DEF c, k, m
    <3>3. k <= VisibleHeader.heads[c].num
      BY <2>1, <3>1, <3>2
    <3> QED
      BY <2>1, <3>1, <3>3 DEF BlocksOf
  <2>4. InStores(c, k)
    <3> HIDE DEF c, k, m
    <3>1. Retrievable
      BY IInvRetrievable DEF DInv, ChainInv
    <3> QED
      BY <2>2, <2>3, <3>1 DEF Retrievable
  <2> QED
    BY <2>4 DEF Present
<1> QED
  BY <1>1, DeliverInvariance, PTL

(* No fork: what a peer was handed, from the cache or the stores, before   *)
(* or after its head was saved, is what the saved chain has at that number *)
(* after any crash and reprocessing.                                       *)
THEOREM DeliveredAlwaysSaved ==
  ASSUME QuietSwitch
  PROVE  DSpec => []DeliveredIsSaved
<1>1. DInv => DeliveredIsSaved
  <2> SUFFICES ASSUME DInv, NEW d \in delivered, d.num \in BlocksOf(headDB, d.chain)
               PROVE  d.hash = StoredHash(d.chain, d.num)
    BY DEF DeliveredIsSaved
  <2>1. /\ d.chain \in ConfigOrgList /\ d.num \in Nat /\ Pledged(d.chain, d.num, d.hash)
        /\ IInv /\ ContentInv
    BY DEF DInv, DeliveredPledged, ChainInv
  <2>2. d.chain \in DOMAIN headDB.heads /\ d.num <= headDB.heads[d.chain].num
    <3>1. PICK c, k : c = d.chain /\ k = d.num
      OBVIOUS
    <3>2. k \in BlocksOf(headDB, c)
      BY <3>1
    <3>3. c \in DOMAIN headDB.heads /\ k <= headDB.heads[c].num
      BY <3>2 DEF BlocksOf
    <3> QED
      BY <3>1, <3>3
  <2>3. HasHeads(headDB) /\ headDB.heads[d.chain].num \in Nat
    BY <2>1, <2>2, BasicFacts
  <2>4. d.num # NextNum(d.chain)
    BY <2>1, <2>2, <2>3 DEF NextNum
  <2> QED
    BY <2>1, <2>4 DEF Pledged, StoredHash
<1> QED
  BY <1>1, DeliverInvariance, PTL
=============================================================================
