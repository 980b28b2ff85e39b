-------------------------- MODULE SparseChainProofs --------------------------
(***************************************************************************)
(* Proofs about SparseChain, for every set of chains, transactions and     *)
(* blocks, every channel capacity and every number of crashes and failed   *)
(* writes.                                                                 *)
(***************************************************************************)
EXTENDS SparseChainInv, Recursion, SequenceTheorems, TLAPS

USE DEF Height, HasHeads

(* A node that starts on any earlier ledger has nothing stored yet.        *)
LEMMA InitIInv == Init => IInv
<1> SUFFICES ASSUME Init PROVE IInv
  OBVIOUS
<1>a. fat \in Seq(Bodies \cup {GenesisBody}) /\ Len(fat) <= MaxFat
  BY BodiesAssumption DEF Init
<1>b. sparseCh \in Seq(Nat) /\ Len(sparseCh) <= ChanCap
  BY ParametersAssumption DEF Init
<1>c. \A h \in {headDB, container, chHeader} :
          h.last \in Nat /\ DOMAIN h.heads = {}
  BY DEF Init, EmptyHeader, EmptyMap
<1>d. DOMAIN index = {} /\ DOMAIN merkle = {} /\ DOMAIN cache = {}
  BY DEF Init, EmptyMap
<1>e. /\ sending \in BOOLEAN /\ isStart \in BOOLEAN /\ savepoint \in Nat
      /\ cur \in Nat /\ syncTo \in Nat /\ todo \subseteq Chains /\ pc = "boot"
  BY DEF Init
<1>f. crashes \in 0 .. MaxCrash /\ faults \in 0 .. MaxFault
  BY ParametersAssumption DEF Init
<1>1. TypeOK
  BY <1>a, <1>b, <1>c, <1>d, <1>e, <1>f DEF TypeOK
<1>2. QueueInv /\ LedgerInv
  BY BodiesAssumption, <1>1
  DEF Init, QueueInv, LedgerInv, NextOut, InSend, TypeOK
<1>3. /\ Anchored(headDB) /\ Anchored(container) /\ Anchored(chHeader)
      /\ Covered(headDB) /\ Covered(container)
  BY DEF Init, Anchored, Covered, EmptyHeader, EmptyMap
<1>4. BootInv /\ LoopInv /\ WorkInv /\ StoreInv /\ WrittenInv
  BY DEF Init, BootInv, LoopInv, WorkInv, StoreInv, WrittenInv, EmptyHeader, EmptyMap, Quiescent
<1> QED
  BY <1>1, <1>2, <1>3, <1>4 DEF IInv

(* A new fat block does not touch what the saved heads rely on.            *)
LEMMA AddBlockInv ==
  ASSUME QuietSwitch, IInv, NEW b \in Bodies \cup {GenesisBody}, AddBlock(b)
  PROVE  IInv'
<1> USE DEF IInv, AddBlock
<1> DEFINE B == Bodies \cup {GenesisBody}
<1>0. /\ fat \in Seq(B) /\ fat' \in Seq(B) /\ Len(fat') = Len(fat) + 1
      /\ fat # << >> => fat'[1] = fat[1]
      /\ fat = << >> => fat'[1] = GenesisBody
      /\ Len(fat) \in Nat
  BY DEF TypeOK
<1>1. TypeOK'
  BY <1>0, ParametersAssumption DEF TypeOK, storeVars, procVars, boundVars
<1>2. NextOut' = NextOut /\ NextOut \in Int
  BY <1>0 DEF NextOut, InSend, TypeOK
<1>3. QueueInv' /\ LedgerInv'
  BY <1>0, <1>2 DEF QueueInv, LedgerInv, storeVars, TypeOK
<1>4. /\ Anchored(headDB)' /\ Anchored(container)' /\ Anchored(chHeader)'
      /\ Covered(headDB)' /\ Covered(container)'
  BY <1>0 DEF Anchored, Covered, Backed, storeVars, procVars, TypeOK
<1>a. Len(fat) = 0 \/ HasHeads(headDB) \/ (Len(fat) = 1 /\ pc # "boot")
  BY DEF MayAppend
<1>5. BootInv'
  BY <1>0, <1>2, <1>a DEF BootInv, Quiescent, storeVars, procVars
<1>b. LoopInv'
  BY <1>0, <1>2, <1>a DEF LoopInv, AtRest, Quiescent, storeVars, procVars
<1>6. WorkInv'
  <2>1. ~HasHeads(headDB) /\ pc \in {"savepoint", "create"} => cur = 0
    <3> cur \in Nat
      BY DEF TypeOK
    <3> QED
      BY <1>0, <1>a DEF WorkInv
  <2> QED
    BY <1>2, <2>1 DEF WorkInv, AtRest, storeVars, procVars
<1>7. StoreInv' /\ WrittenInv'
  BY <1>0, <1>2 DEF StoreInv, WrittenInv, TypeOK, storeVars, procVars
<1> QED
  BY <1>1, <1>3, <1>4, <1>5, <1>b, <1>6, <1>7

(* The block sent is the next one the channel has to hold.                 *)
LEMMA SendBlockInv ==
  ASSUME IInv, SendBlock
  PROVE  IInv'
<1> USE DEF IInv, SendBlock
<1>0. /\ sparseCh \in Seq(Nat) /\ Len(fat) \in Nat /\ Len(sparseCh) \in Nat
      /\ Len(sparseCh') = Len(sparseCh) + 1
      /\ \A i \in 1 .. Len(sparseCh) : sparseCh'[i] = sparseCh[i]
      /\ sparseCh'[Len(sparseCh) + 1] = Len(fat) - 1
  BY DEF TypeOK
<1>1. NextOut' = NextOut /\ NextOut \in Int /\ NextOut = Len(fat) - 1 - Len(sparseCh)
  BY <1>0 DEF NextOut, InSend, TypeOK
<1>2. QueueInv'
  <2> SUFFICES ASSUME NEW i \in 1 .. Len(sparseCh) + 1
               PROVE  sparseCh'[i] = NextOut + i - 1
    BY <1>0, <1>1 DEF QueueInv
  <2>1. CASE i \in 1 .. Len(sparseCh)
    BY <1>0, <2>1 DEF QueueInv
  <2>2. CASE i = Len(sparseCh) + 1
    BY <1>0, <1>1, <2>2
  <2> QED
    BY <1>0, <2>1, <2>2
<1>3. Len(fat) - 1 \in Nat
  BY <1>0, <1>1 DEF QueueInv
<1>a. sparseCh' \in Seq(Nat) /\ Len(sparseCh') <= ChanCap
  BY <1>0, <1>3, ParametersAssumption
<1>4. TypeOK'
  BY <1>a DEF TypeOK, storeVars, procVars, boundVars
<1>5. /\ LedgerInv'
      /\ Anchored(headDB)' /\ Anchored(container)' /\ Anchored(chHeader)'
      /\ Covered(headDB)' /\ Covered(container)'
  BY DEF LedgerInv, Anchored, Covered, Backed, storeVars, procVars
<1>6. BootInv' /\ LoopInv' /\ WorkInv'
  BY <1>1 DEF BootInv, LoopInv, WorkInv, AtRest, Quiescent, storeVars, procVars
<1>7. StoreInv' /\ WrittenInv'
  BY <1>1 DEF StoreInv, WrittenInv, storeVars, procVars
<1> QED
  BY <1>2, <1>4, <1>5, <1>6, <1>7

(* The processor takes up the saved header, or the last block.             *)
LEMMA StartProcessorInv ==
  ASSUME IInv, StartProcessor
  PROVE  IInv'
<1> USE DEF IInv, StartProcessor
<1>0. Len(fat) \in Nat /\ Len(fat') = Len(fat) /\ cur \in Nat
  BY DEF TypeOK, ledgerVars
<1>a. cur' \in Nat /\ isStart' \in BOOLEAN
  BY <1>0
<1>1. TypeOK'
  BY <1>a DEF TypeOK, ledgerVars, storeVars, boundVars
<1>2. NextOut' = NextOut /\ Quiescent' = Quiescent
  BY DEF NextOut, InSend, Quiescent, ledgerVars
<1>3. QueueInv' /\ LedgerInv'
  BY <1>2 DEF QueueInv, LedgerInv, ledgerVars, storeVars
<1>4. /\ Anchored(headDB)' /\ Anchored(container)' /\ Anchored(chHeader)'
      /\ Covered(headDB)' /\ Covered(container)'
  BY DEF Anchored, Covered, Backed, ledgerVars, storeVars
<1>5. LoopInv'
  <2>1. AtRest' /\ HasHeads(headDB') = HasHeads(headDB) /\ headDB' = headDB
    BY DEF BootInv, AtRest, storeVars
  <2>2. CASE ~HasHeads(headDB) /\ Len(fat) >= 2
    <3>1. isStart' = TRUE /\ cur' = Len(fat) - 1 /\ pc' = "loop" /\ Quiescent
      BY <2>2 DEF BootInv
    <3> QED
      BY <1>0, <1>2, <2>1, <2>2, <3>1 DEF LoopInv
  <2>3. CASE ~(~HasHeads(headDB) /\ Len(fat) >= 2)
    <3>1. isStart' = FALSE /\ pc' = "loop"
      BY <2>3
    <3>2. IF HasHeads(headDB) THEN headDB.last < NextOut ELSE Len(fat) <= 2
      BY <1>0, <2>3 DEF BootInv
    <3> QED
      BY <1>0, <1>2, <2>1, <3>1, <3>2 DEF LoopInv
  <2> QED
    BY <2>2, <2>3
<1>6. BootInv' /\ WorkInv' /\ StoreInv' /\ WrittenInv'
  BY DEF BootInv, WorkInv, StoreInv, WrittenInv
<1> QED
  BY <1>1, <1>3, <1>4, <1>5, <1>6

(* On a quiet ledger the block read is still the last one.                 *)
LEMMA ReadStartBlockInv ==
  ASSUME IInv, ReadStartBlock
  PROVE  IInv'
<1> USE DEF IInv, ReadStartBlock
<1>0. Len(fat) \in Nat /\ cur \in Nat
  BY DEF TypeOK
<1>1. TypeOK'
  BY DEF TypeOK, ledgerVars, storeVars, boundVars
<1>2. NextOut' = NextOut /\ Quiescent' = Quiescent
  BY DEF NextOut, InSend, Quiescent, ledgerVars
<1>3. QueueInv' /\ LedgerInv'
  BY <1>2 DEF QueueInv, LedgerInv, ledgerVars, storeVars
<1>4. /\ Anchored(headDB)' /\ Anchored(container)' /\ Anchored(chHeader)'
      /\ Covered(headDB)' /\ Covered(container)'
  BY DEF Anchored, Covered, Backed, ledgerVars, storeVars
<1>5. WorkInv'
  <2>1. NextOut = Len(fat) /\ cur = Len(fat) - 1 /\ ~HasHeads(headDB) /\ Quiescent /\ AtRest
    BY <1>0 DEF LoopInv, Quiescent, NextOut, InSend
  <2> QED
    BY <1>0, <1>2, <2>1 DEF WorkInv, AtRest, ledgerVars, storeVars
<1>6. BootInv' /\ LoopInv' /\ StoreInv' /\ WrittenInv'
  BY DEF BootInv, LoopInv, StoreInv, WrittenInv
<1> QED
  BY <1>1, <1>3, <1>4, <1>5, <1>6

(* What is received lies after the header; the gap is worked through.      *)
LEMMA ReceiveBlockInv ==
  ASSUME IInv, ReceiveBlock
  PROVE  IInv'
<1> USE DEF IInv, ReceiveBlock
<1>0. /\ sparseCh \in Seq(Nat) /\ Len(sparseCh) \in Nat /\ Len(sparseCh) >= 1
      /\ sparseCh' \in Seq(Nat) /\ Len(sparseCh') = Len(sparseCh) - 1
      /\ \A i \in 1 .. Len(sparseCh) - 1 : sparseCh'[i] = sparseCh[i + 1]
      /\ Head(sparseCh) = sparseCh[1] /\ Head(sparseCh) \in Nat
  BY DEF TypeOK
<1>a. Len(fat) \in Nat /\ chHeader.last \in Nat /\ ChanCap \in Nat
  BY ParametersAssumption DEF TypeOK
<1>b. cur' \in Nat /\ syncTo' \in Nat /\ Len(sparseCh') <= ChanCap
  BY <1>0, <1>a DEF TypeOK
<1>1. TypeOK'
  BY <1>0, <1>b DEF TypeOK, storeVars, boundVars
<1>2. NextOut' = NextOut + 1 /\ NextOut \in Int /\ Head(sparseCh) = NextOut
  BY <1>0, <1>a DEF NextOut, InSend, QueueInv
<1>3. QueueInv'
  <2> SUFFICES ASSUME NEW i \in 1 .. Len(sparseCh) - 1
               PROVE  sparseCh'[i] = NextOut + 1 + i - 1
    BY <1>0, <1>2 DEF QueueInv
  <2>1. i + 1 \in 1 .. Len(sparseCh)
    BY <1>0
  <2> QED
    BY <1>0, <1>2, <2>1 DEF QueueInv
<1>4. /\ LedgerInv'
      /\ Anchored(headDB)' /\ Anchored(container)' /\ Anchored(chHeader)'
      /\ Covered(headDB)' /\ Covered(container)'
  BY DEF LedgerInv, Anchored, Covered, Backed, storeVars
<1>5. WorkInv'
  <2>1. /\ AtRest /\ chHeader = headDB
        /\ HasHeads(headDB) => headDB.last < NextOut
        /\ ~HasHeads(headDB) => Len(fat) <= 2
    BY DEF LoopInv, AtRest
  <2>2. CASE HasHeads(headDB)
    BY <1>0, <1>a, <1>2, <2>1, <2>2 DEF WorkInv, AtRest, storeVars
  <2>3. CASE ~HasHeads(headDB)
    <3>1. NextOut < Len(fat) /\ syncTo' = NextOut /\ cur' = NextOut
      BY <1>0, <1>a, <1>2, <2>1, <2>3 DEF NextOut, InSend
    <3>2. cur' # 0 => Quiescent' /\ cur' = Len(fat) - 1
      <4> SUFFICES ASSUME cur' # 0 PROVE Quiescent' /\ cur' = Len(fat) - 1
        OBVIOUS
      <4>1. Len(fat) = 2 /\ NextOut = 1
        <5>1. NextOut \in Int /\ NextOut >= 1 /\ Len(fat) <= 2
          BY <1>b, <1>2, <2>1, <2>3, <3>1
        <5>2. NextOut < Len(fat) /\ Len(fat) \in Int
          BY <1>a, <3>1
        <5>3. \A m, n \in Int : 1 <= m /\ m < n /\ n <= 2 => n = 2 /\ m = 1
          OBVIOUS
        <5> QED
          BY <5>1, <5>2, <5>3, Zenon
      <4>2. Len(sparseCh) = 1 /\ ~sending
        BY <1>0, <4>1 DEF NextOut, InSend
      <4>3. sparseCh' = << >>
        BY <1>0, <4>2
      <4> QED
        BY <3>1, <4>1, <4>2, <4>3 DEF Quiescent
    <3> QED
      BY <1>2, <2>1, <2>3, <3>1, <3>2 DEF WorkInv, AtRest, storeVars
  <2> QED
    BY <2>2, <2>3
<1>6. BootInv' /\ LoopInv' /\ StoreInv' /\ WrittenInv'
  BY DEF BootInv, LoopInv, StoreInv, WrittenInv
<1> QED
  BY <1>1, <1>3, <1>4, <1>5, <1>6

(* The savepoint only moves before there are heads.                        *)
LEMMA AppendSavePointInv ==
  ASSUME IInv, AppendSavePoint
  PROVE  IInv'
<1> USE DEF IInv, AppendSavePoint
<1>0. /\ Len(fat) \in Nat /\ Len(fat') = Len(fat) /\ cur \in Nat /\ savepoint \in Nat
      /\ chHeader = headDB /\ (HasHeads(container) => container = headDB)
  BY DEF TypeOK, ledgerVars, WorkInv, AtRest
<1>a. savepoint' # savepoint =>
        ~HasHeads(headDB) /\ cur \in Nat \ {0} /\ cur = Len(fat) - 1 /\ savepoint' = cur - 1
  BY <1>0 DEF WorkInv
<1>b. savepoint' \in Nat /\ (savepoint' = 0 \/ savepoint' < Len(fat))
  BY <1>0, <1>a DEF LedgerInv
<1>1. TypeOK'
  BY <1>b DEF TypeOK, ledgerVars, boundVars
<1>2. NextOut' = NextOut /\ Quiescent' = Quiescent
  BY DEF NextOut, InSend, Quiescent, ledgerVars
<1>3. QueueInv' /\ LedgerInv'
  BY <1>b, <1>2 DEF QueueInv, LedgerInv, ledgerVars
<1>4. /\ Anchored(headDB)' /\ Anchored(container)' /\ Anchored(chHeader)'
  BY DEF Anchored, ledgerVars
<1>5. Covered(headDB)' /\ Covered(container)'
  BY <1>0, <1>a DEF Covered, Backed
<1>6. WorkInv'
  BY <1>0, <1>2 DEF WorkInv, AtRest, ledgerVars
<1>7. BootInv' /\ LoopInv' /\ StoreInv' /\ WrittenInv'
  BY DEF BootInv, LoopInv, StoreInv, WrittenInv
<1> QED
  BY <1>1, <1>3, <1>4, <1>5, <1>6, <1>7

(* A config block reaches exactly the two chains of the channel.           *)
LEMMA TouchedByConfig ==
  ASSUME NEW n \in Nat, IsConfigBlock(n)
  PROVE  TouchedChains(fat[n + 1]) = ConfigOrgList
<1>1. Len(fat[n + 1]) = 1 /\ OrgList(fat[n + 1][1]) = ConfigOrgList
  BY DEF IsConfigBlock, OrgList
<1>2. ConfigOrgList \subseteq Chains
  BY ChainsAssumption DEF ConfigOrgList
<1> QED
  BY <1>1, <1>2 DEF TouchedChains

(* The new header goes one block beyond the saved one, per chain.          *)
LEMMA CreateOrgBlocksInv ==
  ASSUME IInv, CreateOrgBlocks
  PROVE  IInv'
<1> DEFINE T == TouchedChains(fat[cur + 1])
           base == BaseHeader(cur)
<1>0. /\ UNCHANGED <<ledgerVars, headDB, index, merkle, savepoint, cache, container,
                     isStart, cur, syncTo, boundVars>>
      /\ pc = "create"
  BY DEF CreateOrgBlocks
<1>1. /\ Len(fat) \in Nat /\ cur \in Nat /\ syncTo \in Nat /\ savepoint \in Nat
      /\ chHeader = headDB /\ (HasHeads(container) => container = headDB)
      /\ cur <= syncTo /\ syncTo < NextOut
      /\ \A c \in DOMAIN headDB.heads : headDB.heads[c].num \in Nat
      /\ headDB.last \in Nat /\ DOMAIN headDB.heads \subseteq Chains
  BY <1>0 DEF IInv, TypeOK, WorkInv, AtRest
<1>2. NextOut \in Int /\ NextOut <= Len(fat)
  BY <1>1 DEF IInv, TypeOK, NextOut, InSend
<1>3. NextOut' = NextOut /\ Len(fat') = Len(fat) /\ Quiescent' = Quiescent
  BY <1>0 DEF NextOut, InSend, Quiescent, ledgerVars
<1>4. /\ QueueInv' /\ LedgerInv' /\ Anchored(headDB)' /\ Anchored(container)'
      /\ Covered(headDB)' /\ Covered(container)'
  BY <1>0, <1>3 DEF IInv, QueueInv, LedgerInv, Anchored, Covered, Backed, ledgerVars
<1>5. ~isStart'
  BY <1>0 DEF IInv, LoopInv
<1>6. CASE pc' = "panic" /\ UNCHANGED <<out, todo, chHeader>>
  <2>1. TypeOK'
    BY <1>0, <1>6 DEF IInv, TypeOK, ledgerVars, boundVars
  <2>2. Anchored(chHeader)'
    BY <1>0, <1>6 DEF IInv, Anchored, ledgerVars
  <2>3. BootInv' /\ LoopInv' /\ WorkInv' /\ StoreInv' /\ WrittenInv'
    BY <1>5, <1>6 DEF BootInv, LoopInv, WorkInv, StoreInv, WrittenInv
  <2> QED
    BY <1>4, <2>1, <2>2, <2>3 DEF IInv
<1>7. CASE /\ IsConfigBlock(cur) \/ T \subseteq DOMAIN base.heads
           /\ pc' = "store" /\ todo' = T
           /\ chHeader' = NewHeader(base, out', cur)
           /\ \E status : out' = [c \in T |-> MakeOrgBlock(c, cur, base, status)]
  <2>1. /\ T \subseteq Chains
        /\ IsConfigBlock(cur) => T = ConfigOrgList
    BY <1>1, TouchedByConfig DEF TouchedChains
  <2>2. /\ DOMAIN out' = T
        /\ \A c \in T : out'[c].num = IF c \in DOMAIN base.heads
                                      THEN base.heads[c].num + 1 ELSE 0
    BY <1>7 DEF MakeOrgBlock, CreateNextBlock, AddMetadataFields
  <2>3. /\ chHeader'.last = cur
        /\ DOMAIN chHeader'.heads = DOMAIN base.heads \cup T
        /\ \A c \in DOMAIN base.heads \cup T :
              chHeader'.heads[c].num = IF c \in T THEN out'[c].num ELSE base.heads[c].num
    BY <1>7, <2>2 DEF NewHeader, HeadOfBlock
  <2>4. cur < Len(fat)
    BY <1>1, <1>2
  <2>5. /\ ConfigOrgList \subseteq DOMAIN chHeader'.heads
        /\ DOMAIN base.heads \subseteq Chains
        /\ \A c \in DOMAIN base.heads : base.heads[c].num \in Nat
        /\ \A c \in DOMAIN chHeader'.heads : chHeader'.heads[c].num \in Nat
        /\ \A c \in DOMAIN headDB.heads :
              /\ c \in DOMAIN chHeader'.heads
              /\ headDB.heads[c].num <= chHeader'.heads[c].num
        /\ \A c \in T : c \in DOMAIN headDB.heads => out'[c].num > headDB.heads[c].num
        /\ \A c \in DOMAIN chHeader'.heads :
              \A k \in savepoint + 1 .. chHeader'.heads[c].num :
                 ~(c \in T /\ k = out'[c].num)
                    => c \in DOMAIN headDB.heads /\ k <= headDB.heads[c].num
    <3>1. CASE HasHeads(headDB)
      <4>1. base = headDB /\ ConfigOrgList \subseteq DOMAIN headDB.heads
        BY <1>1, <3>1 DEF BaseHeader, IInv, Anchored
      <4>2. T \subseteq DOMAIN headDB.heads
        BY <1>7, <2>1, <4>1
      <4>3. \A c \in T : out'[c].num = headDB.heads[c].num + 1
        BY <2>2, <4>1, <4>2
      <4>4. DOMAIN chHeader'.heads = DOMAIN headDB.heads
        BY <2>3, <4>1, <4>2
      <4>5. \A c \in DOMAIN headDB.heads :
              chHeader'.heads[c].num = IF c \in T THEN headDB.heads[c].num + 1
                                                 ELSE headDB.heads[c].num
        BY <2>3, <4>1, <4>3
      <4> HIDE DEF T, base
      <4>6. \A c \in DOMAIN headDB.heads :
              /\ headDB.heads[c].num \in Nat
              /\ chHeader'.heads[c].num \in Nat
              /\ headDB.heads[c].num <= chHeader'.heads[c].num
        <5> SUFFICES ASSUME NEW c \in DOMAIN headDB.heads,
                            NEW n \in Nat, n = headDB.heads[c].num
                     PROVE  chHeader'.heads[c].num \in Nat /\ n <= chHeader'.heads[c].num
          BY <1>1
        <5>1. chHeader'.heads[c].num \in {n, n + 1}
          BY <4>5
        <5> QED
          BY <5>1
      <4>7. \A c \in DOMAIN headDB.heads :
              \A k \in savepoint + 1 .. chHeader'.heads[c].num :
                 ~(c \in T /\ k = out'[c].num) => k <= headDB.heads[c].num
        <5> SUFFICES ASSUME NEW c \in DOMAIN headDB.heads,
                            NEW n \in Nat, n = headDB.heads[c].num,
                            NEW k \in savepoint + 1 .. chHeader'.heads[c].num,
                            ~(c \in T /\ k = out'[c].num)
                     PROVE  k <= n
          BY <1>1
        <5>1. CASE c \in T
          <6>1. chHeader'.heads[c].num = n + 1 /\ out'[c].num = n + 1
            BY <4>3, <4>5, <5>1
          <6>2. savepoint \in Nat
            BY <1>1
          <6>3. k \in savepoint + 1 .. n + 1 /\ k # n + 1
            BY <5>1, <6>1
          <6> QED
            BY <6>2, <6>3
        <5>2. CASE c \notin T
          BY <1>1, <4>5, <5>2
        <5> QED
          BY <5>1, <5>2
      <4>8. \A c \in T : out'[c].num > headDB.heads[c].num
        BY <1>1, <4>2, <4>3
      <4> QED
        BY <1>1, <4>1, <4>2, <4>4, <4>6, <4>7, <4>8
    <3>2. CASE ~HasHeads(headDB) /\ cur = 0
      <4>1. base.heads = headDB.heads /\ DOMAIN base.heads = {}
        BY <1>1, <3>2 DEF BaseHeader
      <4>2. IsConfigBlock(cur)
        BY <1>1, <2>4, <3>2, BodiesAssumption DEF IInv, LedgerInv, IsConfigBlock, TypeOK
      <4>3. T = ConfigOrgList
        BY <2>1, <4>2
      <4>4. \A c \in T : out'[c].num = 0 /\ chHeader'.heads[c].num = 0
        BY <2>2, <2>3, <4>1
      <4> QED
        BY <1>1, <2>2, <2>3, <4>1, <4>3, <4>4
    <3>3. CASE ~HasHeads(headDB) /\ cur # 0
      <4>1. DOMAIN base.heads = ConfigOrgList /\ \A c \in ConfigOrgList : base.heads[c].num = savepoint
        BY <1>1, <3>3 DEF BaseHeader
      <4>2. T \subseteq ConfigOrgList /\ ConfigOrgList \subseteq Chains
        BY <1>7, <2>1, <4>1, ChainsAssumption DEF ConfigOrgList
      <4>3. \A c \in ConfigOrgList :
               chHeader'.heads[c].num = IF c \in T THEN savepoint + 1 ELSE savepoint
        BY <2>2, <2>3, <4>1, <4>2
      <4> QED
        BY <1>1, <2>2, <2>3, <3>3, <4>1, <4>2, <4>3
    <3> QED
      BY <3>1, <3>2, <3>3
  <2>6. HasHeads(chHeader')
    BY <2>5 DEF ConfigOrgList
  <2>7. TypeOK'
    <3>1. DOMAIN chHeader'.heads \subseteq Chains /\ chHeader'.last \in Nat
      BY <1>1, <2>1, <2>3, <2>5
    <3> QED
      BY <1>0, <1>7, <2>1, <2>5, <3>1 DEF IInv, TypeOK, ledgerVars, boundVars
  <2>8. Anchored(chHeader)'
    BY <1>3, <2>3, <2>4, <2>5 DEF Anchored
  <2>9. StoreInv'
    <3>1. HasHeads(headDB) => headDB.last < cur
      BY <1>0, <1>1 DEF IInv, WorkInv
    <3>2. \A c \in T : out'[c].num \in Nat /\ chHeader'.heads[c].num = out'[c].num
      BY <2>3, <2>5
    <3> QED
      BY <1>0, <1>1, <1>3, <1>7, <2>2, <2>3, <2>5, <2>6, <3>1, <3>2 DEF StoreInv
  <2>10. BootInv' /\ LoopInv' /\ WorkInv' /\ WrittenInv'
    BY <1>5, <1>7, <2>2 DEF BootInv, LoopInv, WorkInv, WrittenInv
  <2> QED
    BY <1>4, <2>7, <2>8, <2>9, <2>10 DEF IInv
<1> QED
  BY <1>6, <1>7 DEF CreateOrgBlocks

(* Index entries are written above the saved heads only.                   *)
LEMMA StoreOrgBlockInv ==
  ASSUME IInv, NEW d \in Chains, StoreOrgBlock(d)
  PROVE  IInv'
<1> DEFINE e == <<d, out[d].num>>
<1>0. /\ UNCHANGED <<ledgerVars, headDB, merkle, savepoint, versions, container,
                     pc, chHeader, isStart, cur, syncTo, out, boundVars>>
      /\ pc = "store" /\ d \in todo /\ todo' = todo \ {d}
  BY DEF StoreOrgBlock
<1>1. /\ DOMAIN index' = DOMAIN index \cup {e} /\ index'[e] = cur
      /\ \A x \in DOMAIN index : x # e => index'[x] = index[x]
      /\ DOMAIN cache' = DOMAIN cache \cup {e}
  BY DEF StoreOrgBlock, Put
<1>2. /\ d \in DOMAIN out /\ out[d].num \in Nat
      /\ d \in DOMAIN headDB.heads => out[d].num > headDB.heads[d].num
      /\ HasHeads(container) => container = headDB
  BY <1>0 DEF IInv, StoreInv, WrittenInv
<1>3. TypeOK'
  <2>1. e \in Chains \X Nat /\ cur \in Nat
    BY <1>2 DEF IInv, TypeOK
  <2>2. DOMAIN index' \subseteq Chains \X Nat /\ DOMAIN cache' \subseteq Chains \X Nat
    BY <1>1, <2>1 DEF IInv, TypeOK
  <2>3. \A x \in DOMAIN index' : index'[x] \in Nat
    BY <1>1, <2>1 DEF IInv, TypeOK
  <2>4. todo' \subseteq Chains
    BY <1>0 DEF IInv, TypeOK
  <2> QED
    BY <1>0, <2>2, <2>3, <2>4 DEF IInv, TypeOK, ledgerVars, boundVars
<1>4. NextOut' = NextOut
  BY <1>0 DEF NextOut, InSend, ledgerVars
<1>5. QueueInv' /\ LedgerInv' /\ Anchored(headDB)' /\ Anchored(container)' /\ Anchored(chHeader)'
  BY <1>0, <1>4 DEF IInv, QueueInv, LedgerInv, Anchored, ledgerVars
<1>6. Covered(headDB)'
  <2> SUFFICES ASSUME NEW c \in DOMAIN headDB.heads,
                      NEW k \in savepoint + 1 .. headDB.heads[c].num
               PROVE  Backed(c, k, headDB.last)'
    BY <1>0 DEF Covered
  <2>1. Backed(c, k, headDB.last)
    BY DEF IInv, Covered
  <2>2. headDB.heads[c].num \in Nat /\ savepoint \in Nat
    BY DEF IInv, TypeOK
  <2>3. <<c, k>> # e
    BY <1>2, <2>2
  <2> QED
    BY <1>0, <1>1, <2>1, <2>3 DEF Backed
<1>7. Covered(container)'
  <2>1. CASE HasHeads(container)
    <3>1. container' = headDB'
      BY <1>0, <1>2, <2>1
    <3> QED
      BY <1>6, <3>1 DEF Covered, Backed
  <2>2. CASE ~HasHeads(container)
    BY <1>0, <2>2 DEF Covered
  <2> QED
    BY <2>1, <2>2
<1>8. StoreInv'
  BY <1>0, <1>4 DEF IInv, StoreInv
<1>9. WrittenInv'
  BY <1>0, <1>1, <1>2 DEF IInv, WrittenInv
<1>10. BootInv' /\ LoopInv' /\ WorkInv'
  BY <1>0 DEF IInv, BootInv, LoopInv, WorkInv
<1> QED
  BY <1>3, <1>5, <1>6, <1>7, <1>8, <1>9, <1>10 DEF IInv

(* Details are written for a fat block no saved head relies on.            *)
LEMMA AppendOrgMerkleInfoInv ==
  ASSUME IInv, AppendOrgMerkleInfo
  PROVE  IInv'
<1>0. /\ UNCHANGED <<ledgerVars, headDB, index, savepoint, versions, cache, container,
                     chHeader, isStart, cur, syncTo, out, todo, boundVars>>
      /\ pc = "store" /\ todo = {} /\ pc' = "publish"
  BY DEF AppendOrgMerkleInfo
<1>1. /\ DOMAIN merkle' = DOMAIN merkle \cup {cur}
      /\ merkle'[cur] = [c \in DOMAIN out |-> Details(out[c])]
      /\ \A x \in DOMAIN merkle : x # cur => merkle'[x] = merkle[x]
  BY DEF AppendOrgMerkleInfo, Put
<1>2. /\ HasHeads(headDB) => headDB.last < cur
      /\ HasHeads(container) => container = headDB
      /\ cur \in Nat /\ headDB.last \in Nat
      /\ \A x \in DOMAIN index : index[x] \in Nat
  BY <1>0 DEF IInv, StoreInv, TypeOK
<1>3. TypeOK'
  BY <1>0, <1>1, <1>2 DEF IInv, TypeOK, ledgerVars, boundVars
<1>4. NextOut' = NextOut
  BY <1>0 DEF NextOut, InSend, ledgerVars
<1>5. QueueInv' /\ LedgerInv' /\ Anchored(headDB)' /\ Anchored(container)' /\ Anchored(chHeader)'
  BY <1>0, <1>4 DEF IInv, QueueInv, LedgerInv, Anchored, ledgerVars
<1>6. Covered(headDB)'
  <2> SUFFICES ASSUME NEW c \in DOMAIN headDB.heads,
                      NEW k \in savepoint + 1 .. headDB.heads[c].num
               PROVE  Backed(c, k, headDB.last)'
    BY <1>0 DEF Covered
  <2>1. Backed(c, k, headDB.last)
    BY DEF IInv, Covered
  <2>2. index[<<c, k>>] # cur
    BY <1>2, <2>1 DEF Backed
  <2> QED
    BY <1>0, <1>1, <2>1, <2>2 DEF Backed
<1>7. Covered(container)'
  <2>1. CASE HasHeads(container)
    <3>1. container' = headDB'
      BY <1>0, <1>2, <2>1
    <3> QED
      BY <1>6, <3>1 DEF Covered, Backed
  <2>2. CASE ~HasHeads(container)
    BY <1>0, <2>2 DEF Covered
  <2> QED
    BY <2>1, <2>2
<1>8. StoreInv'
  BY <1>0, <1>4 DEF IInv, StoreInv
<1>9. WrittenInv'
  BY <1>0, <1>1 DEF IInv, WrittenInv
<1>10. BootInv' /\ LoopInv' /\ WorkInv'
  BY <1>0 DEF IInv, BootInv, LoopInv, WorkInv
<1> QED
  BY <1>3, <1>5, <1>6, <1>7, <1>8, <1>9, <1>10 DEF IInv

(* Once the details are written, the stores cover the new heads.           *)
LEMMA NewHeadsCovered ==
  ASSUME IInv, pc \in {"publish", "save"}
  PROVE  Covered(chHeader)
<1> SUFFICES ASSUME NEW c \in DOMAIN chHeader.heads,
                    NEW k \in savepoint + 1 .. chHeader.heads[c].num
             PROVE  Backed(c, k, cur)
  BY DEF Covered, IInv, StoreInv
<1>0. cur \in Nat /\ headDB.last \in Nat /\ savepoint \in Nat /\ \A x \in DOMAIN index : index[x] \in Nat
  BY DEF IInv, TypeOK
<1>1. CASE c \in DOMAIN out /\ k = out[c].num
  <2>1. <<c, k>> \in DOMAIN index /\ index[<<c, k>>] = cur
    BY <1>1 DEF IInv, WrittenInv
  <2>2. cur \in DOMAIN merkle /\ c \in DOMAIN merkle[cur] /\ merkle[cur][c].num = k
    BY <1>1 DEF IInv, WrittenInv, Details
  <2> QED
    BY <1>0, <2>1, <2>2 DEF Backed
<1>2. CASE ~(c \in DOMAIN out /\ k = out[c].num)
  <2>1. c \in DOMAIN headDB.heads /\ k <= headDB.heads[c].num
    BY <1>2 DEF IInv, StoreInv
  <2>2. headDB.last < cur /\ headDB.heads[c].num \in Nat
    BY <2>1 DEF IInv, StoreInv, TypeOK
  <2>3. k \in savepoint + 1 .. headDB.heads[c].num
    BY <1>0, <2>1, <2>2
  <2>4. Backed(c, k, headDB.last)
    BY <2>1, <2>3 DEF IInv, Covered
  <2> QED
    BY <1>0, <2>2, <2>4 DEF Backed
<1> QED
  BY <1>1, <1>2

(* Heads are published when the stores cover them.                         *)
LEMMA PublishHeadsInv ==
  ASSUME IInv, PublishHeads
  PROVE  IInv'
<1>0. /\ UNCHANGED <<ledgerVars, storeVars, cache, chHeader, isStart, cur, syncTo,
                     out, todo, boundVars>>
      /\ pc = "publish" /\ pc' = "save" /\ container' = chHeader
  BY DEF PublishHeads
<1>1. TypeOK'
  BY <1>0 DEF IInv, TypeOK, ledgerVars, storeVars, boundVars
<1>2. NextOut' = NextOut
  BY <1>0 DEF NextOut, InSend, ledgerVars
<1>3. QueueInv' /\ LedgerInv' /\ Anchored(headDB)' /\ Anchored(container)' /\ Anchored(chHeader)'
  BY <1>0, <1>2 DEF IInv, QueueInv, LedgerInv, Anchored, ledgerVars, storeVars
<1>4. Covered(headDB)' /\ Covered(container)'
  BY <1>0, NewHeadsCovered DEF IInv, Covered, Backed, storeVars
<1>5. StoreInv' /\ WrittenInv'
  BY <1>0, <1>2 DEF IInv, StoreInv, WrittenInv, storeVars
<1>6. BootInv' /\ LoopInv' /\ WorkInv'
  BY <1>0 DEF IInv, BootInv, LoopInv, WorkInv
<1> QED
  BY <1>1, <1>3, <1>4, <1>5, <1>6 DEF IInv

(* The published heads become the saved ones.                              *)
LEMMA SaveChannelHeadInfoInv ==
  ASSUME IInv, SaveChannelHeadInfo
  PROVE  IInv'
<1>0. /\ UNCHANGED <<ledgerVars, index, merkle, savepoint, versions, cache, container,
                     chHeader, isStart, syncTo, todo, boundVars>>
      /\ pc = "save" /\ headDB' = chHeader
      /\ cur < syncTo => cur' = cur + 1 /\ pc' = "savepoint"
      /\ ~(cur < syncTo) => cur' = cur /\ pc' = "loop"
  BY DEF SaveChannelHeadInfo
<1>1. /\ cur \in Nat /\ syncTo \in Nat /\ cur <= syncTo /\ syncTo < NextOut
      /\ HasHeads(chHeader) /\ chHeader.last = cur /\ container = chHeader /\ ~isStart
  BY <1>0 DEF IInv, StoreInv, TypeOK, LoopInv
<1>2. TypeOK'
  BY <1>0, <1>1 DEF IInv, TypeOK, ledgerVars, boundVars
<1>3. NextOut' = NextOut
  BY <1>0 DEF NextOut, InSend, ledgerVars
<1>4. QueueInv' /\ LedgerInv' /\ Anchored(headDB)' /\ Anchored(container)' /\ Anchored(chHeader)'
  BY <1>0, <1>3 DEF IInv, QueueInv, LedgerInv, Anchored, ledgerVars
<1>5. Covered(headDB)' /\ Covered(container)'
  BY <1>0, <1>1, NewHeadsCovered DEF Covered, Backed
<1>6. CASE cur < syncTo
  <2>1. cur + 1 <= syncTo
    BY <1>1, <1>6
  <2>2. WorkInv'
    BY <1>0, <1>1, <1>3, <1>6, <2>1 DEF WorkInv, AtRest
  <2>3. BootInv' /\ LoopInv' /\ StoreInv' /\ WrittenInv'
    BY <1>0, <1>1, <1>6 DEF BootInv, LoopInv, StoreInv, WrittenInv
  <2> QED
    BY <1>2, <1>4, <1>5, <2>2, <2>3 DEF IInv
<1>7. CASE ~(cur < syncTo)
  <2>1. cur = syncTo
    BY <1>1, <1>7
  <2>2. LoopInv'
    BY <1>0, <1>1, <1>3, <1>7, <2>1 DEF LoopInv, AtRest
  <2>3. BootInv' /\ WorkInv' /\ StoreInv' /\ WrittenInv'
    BY <1>0, <1>7 DEF BootInv, WorkInv, StoreInv, WrittenInv
  <2> QED
    BY <1>2, <1>4, <1>5, <2>2, <2>3 DEF IInv
<1> QED
  BY <1>6, <1>7

(* A failed write leaves the stores covering the same heads.               *)
LEMMA FailureInv ==
  ASSUME IInv, StoreFailure \/ CreateFailure
  PROVE  IInv'
<1>0. /\ UNCHANGED <<ledgerVars, storeVars, container,
                     chHeader, isStart, cur, syncTo, out, todo, crashes>>
      /\ pc \in {"savepoint", "create", "store", "save"} /\ pc' \in {"panic", "stopped"}
      /\ faults < MaxFault /\ faults' = faults + 1
  BY DEF StoreFailure, CreateFailure
<1>1. faults' \in 0 .. MaxFault
  BY <1>0, ParametersAssumption DEF IInv, TypeOK
<1>a. DOMAIN cache' \subseteq Chains \X Nat
  <2>1. CASE cache' = cache
    BY <2>1 DEF IInv, TypeOK
  <2>2. CASE pc = "store" /\ \E c \in todo : cache' = Put(cache, <<c, out[c].num>>, out[c])
    <3>1. PICK c \in todo : cache' = Put(cache, <<c, out[c].num>>, out[c])
      BY <2>2
    <3>2. c \in Chains /\ out[c].num \in Nat
      BY <2>2 DEF IInv, TypeOK, StoreInv, WrittenInv
    <3> QED
      BY <3>1, <3>2 DEF Put, IInv, TypeOK
  <2> QED
    BY <2>1, <2>2 DEF StoreFailure, CreateFailure
<1>2. TypeOK'
  BY <1>0, <1>1, <1>a DEF IInv, TypeOK, ledgerVars, storeVars
<1>3. NextOut' = NextOut
  BY <1>0 DEF NextOut, InSend, ledgerVars
<1>4. QueueInv' /\ LedgerInv' /\ Anchored(headDB)' /\ Anchored(container)' /\ Anchored(chHeader)'
  BY <1>0, <1>3 DEF IInv, QueueInv, LedgerInv, Anchored, ledgerVars, storeVars
<1>5. Covered(headDB)' /\ Covered(container)'
  BY <1>0 DEF IInv, Covered, Backed, storeVars
<1>6. BootInv' /\ LoopInv' /\ WorkInv' /\ StoreInv' /\ WrittenInv'
  BY <1>0 DEF IInv, BootInv, LoopInv, WorkInv, StoreInv, WrittenInv
<1> QED
  BY <1>2, <1>4, <1>5, <1>6 DEF IInv

(* Only what the stores hold survives, and it suffices.                    *)
LEMMA RestartInv ==
  ASSUME IInv, Restart
  PROVE  IInv'
<1>0. /\ UNCHANGED <<fat, storeVars, faults>>
      /\ crashes' = crashes \/ (crashes < MaxCrash /\ crashes' = crashes + 1)
      /\ sending' = FALSE /\ sparseCh' = << >>
      /\ cache' = EmptyMap /\ container' = EmptyHeader
      /\ pc' = "boot" /\ chHeader' = EmptyHeader /\ isStart' = FALSE
      /\ cur' = 0 /\ syncTo' = 0 /\ out' = EmptyMap /\ todo' = {}
  BY DEF Restart
<1>1. Len(fat) \in Nat /\ ~HasHeads(EmptyHeader) /\ EmptyHeader.last = 0 /\ DOMAIN EmptyMap = {}
  BY DEF IInv, TypeOK, EmptyHeader, EmptyMap
<1>2. crashes' \in 0 .. MaxCrash
  BY <1>0, ParametersAssumption DEF IInv, TypeOK
<1>a. sparseCh' \in Seq(Nat) /\ Len(sparseCh') <= ChanCap
  BY <1>0, ParametersAssumption
<1>b. \A h \in {headDB', container', chHeader'} :
          /\ h.last \in Nat
          /\ DOMAIN h.heads \subseteq Chains
          /\ \A c \in DOMAIN h.heads : h.heads[c].num \in Nat
  BY <1>0, <1>1 DEF IInv, TypeOK, storeVars
<1>c. /\ fat' = fat /\ index' = index /\ merkle' = merkle /\ savepoint' = savepoint
      /\ faults' = faults /\ DOMAIN cache' = {}
  BY <1>0, <1>1 DEF storeVars
<1>d. sending' \in BOOLEAN /\ isStart' \in BOOLEAN /\ cur' \in Nat /\ syncTo' \in Nat
  BY <1>0
<1>3. TypeOK'
  BY <1>0, <1>2, <1>a, <1>b, <1>c, <1>d DEF IInv, TypeOK
<1>4. NextOut' = Len(fat)
  BY <1>0, <1>1 DEF NextOut, InSend
<1>5. QueueInv' /\ LedgerInv'
  BY <1>0, <1>1, <1>4 DEF IInv, QueueInv, LedgerInv, storeVars
<1>6. /\ Anchored(headDB)' /\ Anchored(container)' /\ Anchored(chHeader)'
      /\ Covered(headDB)' /\ Covered(container)'
  BY <1>0, <1>1 DEF IInv, Anchored, Covered, Backed, storeVars
<1>7. BootInv'
  BY <1>0, <1>1, <1>4 DEF IInv, BootInv, Anchored, Quiescent, storeVars
<1>8. LoopInv' /\ WorkInv' /\ StoreInv' /\ WrittenInv'
  BY <1>0 DEF LoopInv, WorkInv, StoreInv, WrittenInv
<1> QED
  BY <1>3, <1>5, <1>6, <1>7, <1>8 DEF IInv

(* Steps that change at most the cache.                                    *)
LEMMA CacheStepInv ==
  ASSUME IInv, DOMAIN cache' \subseteq DOMAIN cache,
         UNCHANGED <<ledgerVars, storeVars, container, procVars, boundVars>>
  PROVE  IInv'
<1>1. TypeOK'
  BY DEF IInv, TypeOK, ledgerVars, storeVars, procVars, boundVars
<1>2. NextOut' = NextOut /\ Quiescent' = Quiescent
  BY DEF NextOut, InSend, Quiescent, ledgerVars
<1>3. /\ QueueInv' /\ LedgerInv'
      /\ Anchored(headDB)' /\ Anchored(container)' /\ Anchored(chHeader)'
      /\ Covered(headDB)' /\ Covered(container)'
  BY <1>2 DEF IInv, QueueInv, LedgerInv, Anchored, Covered, Backed, ledgerVars, storeVars, procVars
<1>4. BootInv' /\ LoopInv'
  BY <1>2 DEF IInv, BootInv, LoopInv, AtRest, ledgerVars, storeVars, procVars
<1>5. WorkInv'
  BY <1>2 DEF IInv, WorkInv, AtRest, ledgerVars, storeVars, procVars
<1>6. StoreInv' /\ WrittenInv'
  BY <1>2 DEF IInv, StoreInv, WrittenInv, ledgerVars, storeVars, procVars
<1> QED
  BY <1>1, <1>3, <1>4, <1>5, <1>6 DEF IInv

(* Every step preserves the invariant.                                     *)
LEMMA NextIInv ==
  ASSUME QuietSwitch, IInv, [Next]_vars
  PROVE  IInv'
<1>1. CASE \E b \in Bodies \cup {GenesisBody} : AddBlock(b)
  BY <1>1, AddBlockInv
<1>2. CASE SendBlock
  BY <1>2, SendBlockInv
<1>3. CASE Processor
  BY <1>3, StartProcessorInv, ReadStartBlockInv, ReceiveBlockInv, AppendSavePointInv,
     CreateOrgBlocksInv, StoreOrgBlockInv, AppendOrgMerkleInfoInv, PublishHeadsInv,
     SaveChannelHeadInfoInv DEF Processor
<1>4. CASE StoreFailure \/ CreateFailure
  BY <1>4, FailureInv
<1>5. CASE \E e \in DOMAIN cache : Evict(e)
  BY <1>5, CacheStepInv DEF Evict
<1>6. CASE Restart
  BY <1>6, RestartInv
<1>7. CASE UNCHANGED vars
  BY <1>7, CacheStepInv DEF vars
<1> QED
  BY <1>1, <1>2, <1>3, <1>4, <1>5, <1>6, <1>7 DEF Next

(***************************************************************************)
(* The inductive invariant holds in every reachable state when chains are  *)
(* only begun on a quiet ledger.                                           *)
(***************************************************************************)
THEOREM InductiveInvariance ==
  ASSUME QuietSwitch
  PROVE  Spec => []IInv
<1>1. Init => IInv
  BY InitIInv
<1>2. IInv /\ [Next]_vars => IInv'
  BY NextIInv
<1> QED
  BY <1>1, <1>2, PTL DEF Spec

(***************************************************************************)
(* Type correctness: in particular the processor never works on a negative *)
(* block number and the channel never holds more than sparseChanBufferSize *)
(* blocks (FileLedger.Append waits).                                       *)
(***************************************************************************)
THEOREM TypeCorrectness ==
  ASSUME QuietSwitch
  PROVE  Spec => []TypeOK
<1>1. IInv => TypeOK
  BY DEF IInv
<1> QED
  BY <1>1, InductiveInvariance, PTL

(* Covered heads can be rebuilt block by block.                            *)
LEMMA IInvRetrievable == IInv => Retrievable
<1> SUFFICES ASSUME IInv,
                    NEW h \in {headDB, container},
                    NEW c \in Chains,
                    NEW k \in BlocksOf(h, c)
             PROVE  /\ InStores(c, k)
                    /\ k > savepoint => StoredDetails(c, k).num = k
  BY DEF Retrievable
<1>1. c \in DOMAIN h.heads /\ k \in 0 .. h.heads[c].num
  BY DEF BlocksOf
<1>2. /\ h.heads[c].num \in Nat /\ h.last \in Nat /\ savepoint \in Nat /\ Len(fat) \in Nat
      /\ \A x \in DOMAIN index : index[x] \in Nat
  BY <1>1 DEF IInv, TypeOK
<1>3. h.last < Len(fat) /\ Covered(h)
  BY <1>1 DEF IInv, Anchored
<1>4. CASE k <= savepoint
  BY <1>1, <1>2, <1>3, <1>4 DEF IInv, LedgerInv, InStores
<1>5. CASE ~(k <= savepoint)
  <2>1. k \in savepoint + 1 .. h.heads[c].num
    BY <1>1, <1>2, <1>5
  <2>2. Backed(c, k, h.last)
    BY <1>1, <1>3, <2>1 DEF Covered
  <2>3. index[<<c, k>>] < Len(fat)
    BY <1>2, <1>3, <2>2 DEF Backed
  <2> QED
    BY <1>5, <2>2, <2>3 DEF Backed, InStores, StoredDetails
<1> QED
  BY <1>4, <1>5

(***************************************************************************)
(* Every block below the published and below the saved heads can be        *)
(* rebuilt from the stores (retriveOrgBlockByNum, assembleOrgBlock) in     *)
(* every reachable state, after any number of crashes, failed writes and   *)
(* cache evictions.                                                        *)
(***************************************************************************)
THEOREM AlwaysRetrievable ==
  ASSUME QuietSwitch
  PROVE  Spec => []Retrievable
<1>1. IInv => Retrievable
  BY IInvRetrievable
<1> QED
  BY <1>1, InductiveInvariance, PTL

(* Whole fat blocks keep their data and hash when the ledger grows.        *)
LEMMA FatHashStable ==
  ASSUME TypeOK, NEW b \in Bodies \cup {GenesisBody}, fat' = Append(fat, b),
         NEW k \in Nat, k < Len(fat)
  PROVE  FatHash(k)' = FatHash(k)
<1>1. Len(fat) \in Nat /\ \A i \in 1 .. Len(fat) : fat'[i] = fat[i]
  BY DEF TypeOK
<1>2. \A i \in 1 .. k + 1 : FatData(i - 1)' = FatData(i - 1)
  <2> SUFFICES ASSUME NEW i \in 1 .. k + 1
               PROVE  FatData(i - 1)' = FatData(i - 1)
    OBVIOUS
  <2>1. i - 1 + 1 = i /\ i \in 1 .. Len(fat)
    BY <1>1
  <2>2. fat'[i - 1 + 1] = fat[i - 1 + 1]
    BY <1>1, <2>1
  <2> QED
    BY <2>2 DEF FatData
<1> QED
  BY <1>2 DEF FatHash

(* One saved block through one step.                                       *)
LEMMA SavedBlockKept ==
  ASSUME QuietSwitch, IInv, Next, NEW c \in Chains, NEW k \in BlocksOf(headDB, c)
  PROVE  /\ k \in BlocksOf(headDB', c)
         /\ StoredHash(c, k)' = StoredHash(c, k)
         /\ k > savepoint => StoredDetails(c, k)' = StoredDetails(c, k)
<1>1. /\ c \in DOMAIN headDB.heads /\ k \in 0 .. headDB.heads[c].num
      /\ headDB.heads[c].num \in Nat /\ headDB.last \in Nat /\ savepoint \in Nat
      /\ Len(fat) \in Nat /\ HasHeads(headDB)
      /\ \A x \in DOMAIN index : index[x] \in Nat
  BY DEF BlocksOf, IInv, TypeOK
<1>2. headDB.last < Len(fat) /\ savepoint < Len(fat)
  BY <1>1 DEF IInv, Anchored, LedgerInv
<1>3. k > savepoint => Backed(c, k, headDB.last)
  BY <1>1 DEF IInv, Covered
<1>4. CASE \E b \in Bodies \cup {GenesisBody} : AddBlock(b)
  <2>1. PICK b \in Bodies \cup {GenesisBody} : AddBlock(b)
    BY <1>4
  <2>2. /\ headDB' = headDB /\ index' = index /\ merkle' = merkle /\ savepoint' = savepoint
        /\ fat' = Append(fat, b)
    BY <2>1 DEF AddBlock, storeVars
  <2>3. StoredDetails(c, k)' = StoredDetails(c, k)
    BY <2>2 DEF StoredDetails
  <2>4. k <= savepoint => FatHash(k)' = FatHash(k)
    BY <1>1, <1>2, <2>2, FatHashStable DEF IInv
  <2> QED
    BY <2>2, <2>3, <2>4 DEF StoredHash, HeaderHash, BlocksOf
<1>5. CASE \E d \in Chains : StoreOrgBlock(d)
  <2>1. PICK d \in Chains : StoreOrgBlock(d)
    BY <1>5
  <2>2. /\ headDB' = headDB /\ merkle' = merkle /\ savepoint' = savepoint /\ fat' = fat
        /\ pc = "store" /\ d \in todo
        /\ index' = Put(index, <<d, out[d].num>>, cur)
    BY <2>1 DEF StoreOrgBlock, ledgerVars
  <2>3. out[d].num \in Nat /\ (d \in DOMAIN headDB.heads => out[d].num > headDB.heads[d].num)
    BY <2>2 DEF IInv, StoreInv, WrittenInv
  <2>4. <<c, k>> # <<d, out[d].num>>
    BY <1>1, <2>3
  <2>5. k > savepoint => index'[<<c, k>>] = index[<<c, k>>]
    BY <1>3, <2>2, <2>4 DEF Put, Backed
  <2>6. k > savepoint => StoredDetails(c, k)' = StoredDetails(c, k)
    BY <2>2, <2>5 DEF StoredDetails
  <2>7. FatHash(k)' = FatHash(k)
    BY <2>2 DEF FatHash, FatData
  <2> QED
    BY <1>1, <2>2, <2>6, <2>7 DEF StoredHash, HeaderHash, BlocksOf
<1>6. CASE AppendOrgMerkleInfo
  <2>1. /\ headDB' = headDB /\ index' = index /\ savepoint' = savepoint /\ fat' = fat
        /\ pc = "store" /\ merkle' = Put(merkle, cur, [x \in DOMAIN out |-> Details(out[x])])
    BY <1>6 DEF AppendOrgMerkleInfo, ledgerVars
  <2>2. headDB.last < cur /\ cur \in Nat
    BY <1>1, <2>1 DEF IInv, StoreInv, TypeOK
  <2>3. k > savepoint => index[<<c, k>>] # cur /\ index[<<c, k>>] \in DOMAIN merkle
    BY <1>1, <1>3, <2>2 DEF Backed
  <2>4. k > savepoint => StoredDetails(c, k)' = StoredDetails(c, k)
    BY <2>1, <2>3 DEF StoredDetails, Put
  <2>5. FatHash(k)' = FatHash(k)
    BY <2>1 DEF FatHash, FatData
  <2> QED
    BY <1>1, <2>1, <2>4, <2>5 DEF StoredHash, HeaderHash, BlocksOf
<1>7. CASE SaveChannelHeadInfo
  <2>1. /\ headDB' = chHeader /\ index' = index /\ merkle' = merkle
        /\ savepoint' = savepoint /\ fat' = fat /\ pc = "save"
    BY <1>7 DEF SaveChannelHeadInfo, ledgerVars
  <2>2. /\ c \in DOMAIN chHeader.heads /\ headDB.heads[c].num <= chHeader.heads[c].num
        /\ chHeader.heads[c].num \in Nat
    BY <1>1, <2>1 DEF IInv, StoreInv, TypeOK
  <2>3. k \in BlocksOf(headDB', c)
    BY <1>1, <2>1, <2>2 DEF BlocksOf
  <2>4. StoredDetails(c, k)' = StoredDetails(c, k) /\ FatHash(k)' = FatHash(k)
    BY <2>1 DEF StoredDetails, FatHash, FatData
  <2> QED
    BY <2>1, <2>3, <2>4 DEF StoredHash, HeaderHash
<1>8. CASE /\ headDB' = headDB /\ index' = index /\ merkle' = merkle
           /\ savepoint' = savepoint /\ fat' = fat
  <2>1. StoredDetails(c, k)' = StoredDetails(c, k) /\ FatHash(k)' = FatHash(k)
    BY <1>8 DEF StoredDetails, FatHash, FatData
  <2> QED
    BY <1>8, <2>1 DEF StoredHash, HeaderHash, BlocksOf
<1>9. AppendSavePoint => savepoint' = savepoint
  BY <1>1 DEF AppendSavePoint, IInv, WorkInv, AtRest
<1>10. \/ \E b \in Bodies \cup {GenesisBody} : AddBlock(b)
       \/ \E d \in Chains : StoreOrgBlock(d)
       \/ AppendOrgMerkleInfo
       \/ SaveChannelHeadInfo
       \/ /\ headDB' = headDB /\ index' = index /\ merkle' = merkle
          /\ savepoint' = savepoint /\ fat' = fat
  BY <1>9 DEF Next, Processor, SendBlock, StartProcessor, ReadStartBlock, ReceiveBlock,
     AppendSavePoint, CreateOrgBlocks, PublishHeads, StoreFailure, CreateFailure, Evict,
     Restart, ledgerVars, storeVars
<1> QED
  BY <1>4, <1>5, <1>6, <1>7, <1>8, <1>10

(***************************************************************************)
(* No step, crash or reprocessing changes what a saved head covers: the    *)
(* hash of every block and the stored details of every org block stay what *)
(* SaveChannelHeadInfo made durable.                                       *)
(***************************************************************************)
THEOREM SavedBlocksNeverChange ==
  ASSUME QuietSwitch
  PROVE  Spec => SavedBlocksImmutable
<1> DEFINE Kept == \A c \in Chains : \A k \in BlocksOf(headDB, c) :
                     /\ k \in BlocksOf(headDB', c)
                     /\ StoredHash(c, k)' = StoredHash(c, k)
                     /\ k > savepoint => StoredDetails(c, k)' = StoredDetails(c, k)
<1>1. IInv /\ [Next]_vars => [Kept]_vars
  BY SavedBlockKept
<1> QED
  BY <1>1, InductiveInvariance, PTL DEF Spec, SavedBlocksImmutable
-----------------------------------------------------------------------------
(***************************************************************************)
(* What the processor stores: the org chains are linked by hashes, every   *)
(* block names the last configuration of its own chain, the chains are the *)
(* projections OrgChains promises, and no update is lost, when chains are  *)
(* begun while nothing is appended (QuietSwitch).                          *)
(***************************************************************************)
HIDE DEF Height, HasHeads

(* The number of the fat block that block k of chain c was cut from.       *)
Source(c, k) == StoredData(c, k)[1]

(* Block m is the last configuration at block k of chain c.                *)
ConfigAt(c, k, m) ==
    /\ m \in 0 .. k
    /\ \/ IsConfigBlock(Source(c, m))
       \/ m = savepoint + 1 /\ IsConfigBlock(savepoint)
    /\ \A j \in m + 1 .. k : ~IsConfigBlock(Source(c, j))

(* What is stored of a block after the savepoint.                          *)
Sound(c, k) ==
    /\ StoredDetails(c, k).prev = StoredHash(c, k - 1)
    /\ Source(c, k) \in 0 .. Height - 1
    /\ ConfigAt(c, k, StoredDetails(c, k).lastConfig)

(* A head holds the hash and the last configuration of the last block; the *)
(* head of a chain begun at a configuration block names the block to come. *)
HeadSound(c, hd) ==
    /\ hd.num \in Nat /\ hd.num >= savepoint
    /\ hd.hash = StoredHash(c, hd.num)
    /\ \/ ConfigAt(c, hd.num, hd.lastConfig)
       \/ /\ hd.num = savepoint /\ hd.lastConfig = savepoint + 1
          /\ IsConfigBlock(savepoint)

Linked(h) ==
    \A c \in DOMAIN h.heads :
        /\ HeadSound(c, h.heads[c])
        /\ \A k \in savepoint + 1 .. h.heads[c].num : Sound(c, k)

(* The header the blocks of cur were made with, while they are stored.     *)
SavedBase ==
    IF HasHeads(headDB) \/ cur = 0
    THEN headDB
    ELSE [last  |-> savepoint,
          heads |-> [c \in ConfigOrgList |->
              [num        |-> savepoint,
               hash       |-> FatHash(savepoint),
               src        |-> savepoint,
               lastConfig |-> IF IsConfigBlock(savepoint)
                              THEN cur ELSE FatLastConfig(savepoint)]]]

(* Block b is the one cut from fat block cur for chain c.                  *)
CutFrom(c, b) ==
    /\ b.num = CreateNextBlock(c, cur, SavedBase).num
    /\ b.prev = CreateNextBlock(c, cur, SavedBase).prev
    /\ b.data = <<cur, TxnIdxList(c, fat[cur + 1])>>
    /\ b.lastConfig = IF IsConfigBlock(cur) THEN b.num ELSE SavedBase.heads[c].lastConfig

(* While a block is stored, the processor holds what it was cut into.      *)
Made ==
    pc \in {"store", "publish", "save"} =>
        /\ DOMAIN out = TouchedChains(fat[cur + 1])
        /\ \A c \in DOMAIN out : CutFrom(c, out[c])
        /\ chHeader = NewHeader(SavedBase, out, cur)
        /\ IsConfigBlock(cur) \/ DOMAIN out \subseteq DOMAIN SavedBase.heads
        /\ HasHeads(headDB) => cur = headDB.last + 1
        /\ ~HasHeads(headDB) /\ cur # 0 => savepoint = cur - 1 /\ Height = cur + 1

(* Chains are begun at a block that has a successor, or at block 0.        *)
Beginning ==
    ~HasHeads(headDB) =>
        /\ savepoint = 0 \/ savepoint + 2 <= Height
        /\ pc \in {"savepoint", "create", "store", "publish", "save"} /\ cur = 0 => Height <= 2

ContentInv == Linked(headDB) /\ Linked(container) /\ Made /\ Beginning
-----------------------------------------------------------------------------
(* The one transaction of a body goes to a chain it is routed to.          *)
LEMMA IdxOfOne ==
  ASSUME NEW c, NEW b, Len(b) = 1, c \in OrgList(b[1])
  PROVE  TxnIdxList(c, b) = <<1>>
<1> DEFINE Def(f) == f = [i \in 0 .. Len(b) |->
                            IF i = 0 THEN << >>
                            ELSE IF c \in OrgList(b[i]) THEN Append(f[i - 1], i) ELSE f[i - 1]]
           g == [i \in 0 .. 1 |-> IF i = 0 THEN << >> ELSE <<1>>]
           h == CHOOSE f : Def(f)
<1>1. Def(g)
  <2>1. g[0] = << >> /\ g[1] = Append(g[1 - 1], 1)
    OBVIOUS
  <2>2. \A i \in 0 .. 1 : g[i] = IF i = 0 THEN << >>
                                 ELSE IF c \in OrgList(b[i]) THEN Append(g[i - 1], i) ELSE g[i - 1]
    BY <2>1
  <2> QED
    BY <2>2
<1>2. Def(h)
  <2> HIDE DEF Def, g
  <2> QED
    BY <1>1
<1>3. h[0] = << >> /\ h[1] = Append(h[0], 1)
  <2> HIDE DEF h
  <2> QED
    BY <1>2
<1>4. TxnIdxList(c, b) = h[1]
  BY DEF TxnIdxList
<1>5. Append(<< >>, 1) = <<1>>
  OBVIOUS
<1> HIDE DEF h
<1> QED
  BY <1>3, <1>4, <1>5

(* The genesis block is a configuration block, and its org blocks hold all *)
(* of it.                                                                  *)
LEMMA GenesisBlock ==
  ASSUME TypeOK, LedgerInv, Height > 0
  PROVE  /\ IsConfigBlock(0) /\ TouchedChains(fat[0 + 1]) = ConfigOrgList
         /\ \A c \in ConfigOrgList :
              /\ FatData(0) = <<0, TxnIdxList(c, fat[0 + 1])>>
              /\ HeaderHash(<< >>, 0, FatData(0)) = FatHash(0)
<1>1. fat[0 + 1] = GenesisBody
  BY DEF TypeOK, LedgerInv, Height
<1>2. IsConfigBlock(0)
  BY <1>1, BodiesAssumption DEF IsConfigBlock
<1>3. TouchedChains(fat[0 + 1]) = ConfigOrgList
  BY <1>2, TouchedByConfig
<1>4. ASSUME NEW c \in ConfigOrgList
      PROVE  /\ FatData(0) = <<0, TxnIdxList(c, fat[0 + 1])>>
             /\ HeaderHash(<< >>, 0, FatData(0)) = FatHash(0)
  <2>1. Len(fat[0 + 1]) = 1 /\ OrgList(fat[0 + 1][1]) = ConfigOrgList
    BY <1>1, BodiesAssumption DEF OrgList
  <2>2. TxnIdxList(c, fat[0 + 1]) = <<1>>
    BY <2>1, IdxOfOne
  <2>3. [i \in 1 .. 1 |-> i] = <<1>>
    OBVIOUS
  <2>4. FatData(0) = <<0, <<1>>>>
    BY <2>1, <2>3 DEF FatData
  <2> DEFINE d == FatData(0)
  <2>5. FatHash(0) = [i \in 1 .. 1 |-> <<0, d>>]
    BY DEF FatHash
  <2> HIDE DEF d
  <2>6. Append(<< >>, <<0, d>>) = [i \in 1 .. 1 |-> <<0, d>>]
    OBVIOUS
  <2> QED
    BY <2>2, <2>4, <2>5, <2>6 DEF HeaderHash, d
<1> QED
  BY <1>2, <1>3, <1>4

(* There is a last configuration up to any fat block.                      *)
LEMMA LastConfigExists ==
  ASSUME NEW n \in Nat, IsConfigBlock(0)
  PROVE  /\ FatLastConfig(n) \in 0 .. n /\ IsConfigBlock(FatLastConfig(n))
         /\ \A k \in FatLastConfig(n) + 1 .. n : ~IsConfigBlock(k)
<1> DEFINE T == {m \in 0 .. n : IsConfigBlock(m)}
           P(m) == IsConfigBlock(m) /\ \A k \in m + 1 .. n : ~IsConfigBlock(k)
<1>1. T \subseteq 0 .. n /\ 0 \in T
  OBVIOUS
<1>2. PICK x \in T : \A y \in T : y <= x
  <2> HIDE DEF T
  <2> QED
    BY <1>1, GreatestNat
<1>3. x \in 0 .. n /\ P(x)
  BY <1>2
<1>4. FatLastConfig(n) = CHOOSE m \in 0 .. n : P(m)
  BY DEF FatLastConfig
<1>5. FatLastConfig(n) \in 0 .. n /\ P(FatLastConfig(n))
  <2> HIDE DEF P
  <2> QED
    BY <1>3, <1>4
<1> QED
  BY <1>5

(* A stored block and a head keep their content when the blocks up to them *)
(* keep theirs.                                                            *)
LEMMA Framed ==
  ASSUME NEW c, NEW n \in Nat, savepoint \in Nat,
         savepoint' = savepoint, Height \in Nat, Height' \in Nat, Height' >= Height,
         IsConfigBlock(savepoint)' = IsConfigBlock(savepoint),
         \A k \in 0 .. n :
            /\ StoredHash(c, k)' = StoredHash(c, k)
            /\ Source(c, k)' = Source(c, k)
            /\ IsConfigBlock(Source(c, k))' = IsConfigBlock(Source(c, k))
            /\ k > savepoint => StoredDetails(c, k)' = StoredDetails(c, k)
  PROVE  /\ \A k \in savepoint + 1 .. n : Sound(c, k) => Sound(c, k)'
         /\ \A hd : hd.num = n /\ HeadSound(c, hd) => HeadSound(c, hd)'
<1>1. ASSUME NEW k \in 0 .. n, NEW m, ConfigAt(c, k, m)
      PROVE  ConfigAt(c, k, m)'
  <2>1. m \in 0 .. n /\ \A j \in m + 1 .. k : j \in 0 .. n
    BY <1>1 DEF ConfigAt
  <2> QED
    BY <1>1, <2>1 DEF ConfigAt
<1>2. ASSUME NEW k \in savepoint + 1 .. n, Sound(c, k)
      PROVE  Sound(c, k)'
  <2>1. k \in 0 .. n /\ k - 1 \in 0 .. n /\ k > savepoint
    OBVIOUS
  <2>2. StoredDetails(c, k)' = StoredDetails(c, k)
    BY <2>1
  <2>3. StoredDetails(c, k)'.prev = StoredHash(c, k - 1)'
    BY <1>2, <2>1, <2>2 DEF Sound
  <2>4. Source(c, k)' \in 0 .. Height' - 1
    BY <1>2, <2>1 DEF Sound
  <2>5. ConfigAt(c, k, StoredDetails(c, k).lastConfig)'
    BY <1>1, <1>2, <2>1, <2>2 DEF Sound
  <2> QED
    BY <2>3, <2>4, <2>5 DEF Sound
<1>3. ASSUME NEW hd, hd.num = n, HeadSound(c, hd)
      PROVE  HeadSound(c, hd)'
  <2>1. hd.hash = StoredHash(c, hd.num)'
    BY <1>3 DEF HeadSound
  <2>2. ConfigAt(c, hd.num, hd.lastConfig) => ConfigAt(c, hd.num, hd.lastConfig)'
    BY <1>1, <1>3
  <2> QED
    BY <1>3, <2>1, <2>2 DEF HeadSound
<1> QED
  BY <1>2, <1>3

(* What is used of the invariant while a block is stored.                  *)
LEMMA StoringFacts ==
  ASSUME IInv, Made, Beginning, pc \in {"store", "publish", "save"}
  PROVE  /\ cur \in Nat /\ Height \in Nat /\ savepoint \in Nat /\ cur < Height
         /\ cur = 0 => savepoint = 0 \/ HasHeads(headDB)
         /\ DOMAIN out \subseteq Chains
         /\ HasHeads(headDB) => cur # 0 /\ SavedBase = headDB
<1>1. /\ cur \in Nat /\ Height \in Nat /\ savepoint \in Nat /\ syncTo \in Nat
      /\ Len(sparseCh) \in Nat /\ cur <= syncTo /\ syncTo < NextOut /\ headDB.last \in Nat
  BY DEF IInv, TypeOK, StoreInv, Height
<1>2. cur < Height
  BY <1>1 DEF NextOut, InSend, Height
<1>3. DOMAIN out \subseteq Chains
  BY DEF IInv, TypeOK, Made, TouchedChains
<1>4. cur = 0 => savepoint = 0 \/ HasHeads(headDB)
  BY <1>1 DEF Beginning
<1>5. HasHeads(headDB) => cur # 0 /\ SavedBase = headDB
  BY <1>1 DEF Made, SavedBase
<1> QED
  BY <1>1, <1>2, <1>3, <1>4, <1>5

(* The header that blocks are made with is linked, when there is one.      *)
LEMMA BaseLinked ==
  ASSUME IInv, Linked(headDB), Made, Beginning, pc \in {"store", "publish", "save"}
  PROVE  Linked(SavedBase)
<1>1. CASE HasHeads(headDB) \/ cur = 0
  BY <1>1 DEF SavedBase
<1>2. CASE ~HasHeads(headDB) /\ cur # 0
  <2>1. /\ savepoint = cur - 1 /\ Height = cur + 1 /\ cur \in Nat /\ savepoint \in Nat
        /\ Height > 0
    BY <1>2, StoringFacts DEF Made
  <2>2. DOMAIN SavedBase.heads = ConfigOrgList
    BY <1>2 DEF SavedBase
  <2> SUFFICES ASSUME NEW c \in ConfigOrgList
               PROVE  /\ HeadSound(c, SavedBase.heads[c])
                      /\ \A k \in savepoint + 1 .. SavedBase.heads[c].num : Sound(c, k)
    BY <2>2 DEF Linked
  <2>3. /\ SavedBase.heads[c].num = savepoint
        /\ SavedBase.heads[c].hash = FatHash(savepoint)
        /\ SavedBase.heads[c].lastConfig = IF IsConfigBlock(savepoint)
                                           THEN cur ELSE FatLastConfig(savepoint)
    BY <1>2 DEF SavedBase
  <2>4. StoredHash(c, savepoint) = FatHash(savepoint)
    BY <2>1 DEF StoredHash
  <2>5. \A k \in 0 .. savepoint : Source(c, k) = k
    BY <2>1 DEF Source, StoredData, FatData
  <2>6. CASE IsConfigBlock(savepoint)
    BY <2>1, <2>3, <2>4, <2>6 DEF HeadSound
  <2>7. CASE ~IsConfigBlock(savepoint)
    <3>1. IsConfigBlock(0)
      BY <2>1, GenesisBlock DEF IInv
    <3>2. ConfigAt(c, savepoint, FatLastConfig(savepoint))
      BY <2>1, <2>5, <3>1, LastConfigExists DEF ConfigAt
    <3> QED
      BY <2>1, <2>3, <2>4, <2>7, <3>2 DEF HeadSound
  <2> QED
    BY <2>6, <2>7
<1> QED
  BY <1>1, <1>2

(* Once the details are written, the new header is linked too.             *)
LEMMA NewHeadsLinked ==
  ASSUME IInv, Linked(headDB), Made, Beginning, pc \in {"publish", "save"}
  PROVE  Linked(chHeader)
<1>1. /\ cur \in Nat /\ Height \in Nat /\ savepoint \in Nat /\ cur < Height
      /\ cur = 0 => savepoint = 0 \/ HasHeads(headDB)
  BY StoringFacts
<1>2. Linked(SavedBase)
  BY BaseLinked
<1>3. /\ chHeader = NewHeader(SavedBase, out, cur)
      /\ \A c \in DOMAIN out : CutFrom(c, out[c])
      /\ IsConfigBlock(cur) \/ DOMAIN out \subseteq DOMAIN SavedBase.heads
      /\ DOMAIN out = TouchedChains(fat[cur + 1])
  BY DEF Made
<1>4. /\ DOMAIN chHeader.heads = DOMAIN SavedBase.heads \cup DOMAIN out
      /\ \A c \in DOMAIN chHeader.heads :
            chHeader.heads[c] = IF c \in DOMAIN out THEN HeadOfBlock(out[c], cur)
                                ELSE SavedBase.heads[c]
  BY <1>3 DEF NewHeader
<1>5. ASSUME NEW c \in DOMAIN out
      PROVE  /\ HeadSound(c, chHeader.heads[c])
             /\ \A k \in savepoint + 1 .. chHeader.heads[c].num : Sound(c, k)
  <2>1. /\ <<c, out[c].num>> \in DOMAIN index /\ index[<<c, out[c].num>>] = cur
        /\ merkle[cur] = [d \in DOMAIN out |-> Details(out[d])]
    BY DEF IInv, WrittenInv
  <2>2. StoredDetails(c, out[c].num) = Details(out[c])
    BY <2>1 DEF StoredDetails
  <2>3. /\ chHeader.heads[c].num = out[c].num
        /\ chHeader.heads[c].hash = HeaderHash(out[c].prev, out[c].num, out[c].data)
        /\ chHeader.heads[c].lastConfig = out[c].lastConfig
    <3>1. c \in DOMAIN chHeader.heads
      BY <1>4
    <3>2. chHeader.heads[c] = HeadOfBlock(out[c], cur)
      BY <1>4, <3>1
    <3> QED
      BY <3>2 DEF HeadOfBlock
  <2>4. /\ out[c].num = CreateNextBlock(c, cur, SavedBase).num
        /\ out[c].prev = CreateNextBlock(c, cur, SavedBase).prev
        /\ out[c].data = <<cur, TxnIdxList(c, fat[cur + 1])>>
        /\ out[c].lastConfig = IF IsConfigBlock(cur) THEN out[c].num
                               ELSE SavedBase.heads[c].lastConfig
    BY <1>3 DEF CutFrom
  <2>5. CASE c \in DOMAIN SavedBase.heads
    <3> DEFINE n == SavedBase.heads[c].num
    <3>1. /\ HeadSound(c, SavedBase.heads[c])
          /\ \A k \in savepoint + 1 .. n : Sound(c, k)
      BY <1>2, <2>5 DEF Linked
    <3>2. /\ n \in Nat /\ n >= savepoint /\ SavedBase.heads[c].hash = StoredHash(c, n)
          /\ out[c].num = n + 1 /\ out[c].prev = StoredHash(c, n)
      BY <2>4, <2>5, <3>1 DEF HeadSound, CreateNextBlock
    <3> HIDE DEF n
    <3>3. ~(n + 1 <= savepoint) /\ (n + 1) - 1 = n
      BY <1>1, <3>2
    <3>4. /\ StoredDetails(c, n + 1).prev = out[c].prev
          /\ StoredDetails(c, n + 1).data = out[c].data
          /\ StoredDetails(c, n + 1).lastConfig = out[c].lastConfig
      BY <2>2, <3>2 DEF Details
    <3>5. Source(c, n + 1) = cur
      BY <2>4, <3>3, <3>4 DEF Source, StoredData
    <3>6. ConfigAt(c, n + 1, out[c].lastConfig)
      <4>1. CASE IsConfigBlock(cur)
        BY <2>4, <3>2, <3>5, <4>1 DEF ConfigAt
      <4>2. CASE ~IsConfigBlock(cur)
        <5> DEFINE m == SavedBase.heads[c].lastConfig
        <5>1. \/ ConfigAt(c, n, m)
              \/ n = savepoint /\ m = savepoint + 1 /\ IsConfigBlock(savepoint)
          BY <3>1 DEF HeadSound, n
        <5>2. out[c].lastConfig = m
          BY <2>4, <4>2
        <5> HIDE DEF m
        <5>3. CASE ConfigAt(c, n, m)
          <6>1. \A j \in m + 1 .. n + 1 : j \in m + 1 .. n \/ j = n + 1
            BY <3>2, <5>3 DEF ConfigAt
          <6>2. m \in 0 .. n + 1
            BY <3>2, <5>3 DEF ConfigAt
          <6> QED
            BY <3>5, <4>2, <5>2, <5>3, <6>1, <6>2 DEF ConfigAt
        <5>4. CASE n = savepoint /\ m = savepoint + 1 /\ IsConfigBlock(savepoint)
          BY <1>1, <5>2, <5>4 DEF ConfigAt
        <5> QED
          BY <5>1, <5>3, <5>4
      <4> QED
        BY <4>1, <4>2
    <3>7. Sound(c, n + 1)
      BY <1>1, <3>2, <3>3, <3>4, <3>5, <3>6 DEF Sound
    <3>8. StoredHash(c, n + 1) = HeaderHash(out[c].prev, n + 1, out[c].data)
      BY <3>3, <3>4 DEF StoredHash
    <3>9. HeadSound(c, chHeader.heads[c])
      BY <1>1, <2>3, <3>2, <3>6, <3>8 DEF HeadSound
    <3>10. \A k \in savepoint + 1 .. n + 1 : k \in savepoint + 1 .. n \/ k = n + 1
      BY <1>1, <3>2
    <3> QED
      BY <2>3, <3>1, <3>2, <3>7, <3>9, <3>10
  <2>6. CASE c \notin DOMAIN SavedBase.heads
    <3>1. c \in ConfigOrgList
      BY <1>1, <1>3, <2>6, TouchedByConfig
    <3>2. ~HasHeads(headDB) /\ cur = 0 /\ savepoint = 0
      BY <1>1, <2>6, <3>1 DEF SavedBase, IInv, Anchored
    <3>3. out[c].num = 0 /\ out[c].prev = << >> /\ out[c].lastConfig = 0
      BY <1>3, <2>4, <2>6 DEF CreateNextBlock
    <3>4. /\ out[c].data = FatData(0) /\ HeaderHash(<< >>, 0, FatData(0)) = FatHash(0)
          /\ IsConfigBlock(0)
      BY <1>1, <2>4, <3>1, <3>2, GenesisBlock DEF IInv
    <3>5. StoredHash(c, 0) = FatHash(0) /\ Source(c, 0) = 0
      BY <3>2 DEF StoredHash, Source, StoredData, FatData
    <3>6. ConfigAt(c, 0, 0)
      BY <3>4, <3>5 DEF ConfigAt
    <3> QED
      BY <2>3, <3>2, <3>3, <3>4, <3>5, <3>6 DEF HeadSound
  <2> QED
    BY <2>5, <2>6
<1>6. ASSUME NEW c \in DOMAIN chHeader.heads, c \notin DOMAIN out
      PROVE  /\ HeadSound(c, chHeader.heads[c])
             /\ \A k \in savepoint + 1 .. chHeader.heads[c].num : Sound(c, k)
  BY <1>2, <1>4, <1>6 DEF Linked
<1> QED
  BY <1>5, <1>6 DEF Linked
-----------------------------------------------------------------------------
(* Every step keeps where chains are begun.                                *)
LEMMA BeginningStep ==
  ASSUME QuietSwitch, IInv, Beginning, [Next]_vars
  PROVE  Beginning'
<1> DEFINE Work == {"savepoint", "create", "store", "publish", "save"}
<1>0. /\ Len(fat) \in Nat /\ savepoint \in Nat /\ cur \in Nat
      /\ pc = "loop" \/ pc \in Work \/ pc \in {"boot", "stopped", "panic"}
  BY DEF IInv, TypeOK
<1>1. ASSUME NEW b \in Bodies \cup {GenesisBody}, AddBlock(b)
      PROVE  Beginning'
  <2>1. UNCHANGED <<headDB, savepoint, pc, cur>> /\ fat' = Append(fat, b) /\ MayAppend
    BY <1>1 DEF AddBlock, storeVars, procVars
  <2>2. Len(fat') = Len(fat) + 1
    BY <2>1 DEF IInv, TypeOK
  <2> QED
    BY <1>0, <2>1, <2>2 DEF Beginning, MayAppend, Height
<1>2. ASSUME ReadStartBlock PROVE Beginning'
  <2>1. UNCHANGED <<fat, headDB, savepoint, cur>> /\ cur = Height - 1 /\ Height >= 2
    BY <1>2 DEF ReadStartBlock, ledgerVars, storeVars, IInv, LoopInv
  <2> QED
    BY <1>0, <2>1 DEF Beginning, Height
<1>3. ASSUME ReceiveBlock PROVE Beginning'
  <2>1. UNCHANGED <<fat, headDB, savepoint>> /\ (~HasHeads(headDB) => Height <= 2)
    BY <1>3 DEF ReceiveBlock, storeVars, IInv, LoopInv
  <2> QED
    BY <2>1 DEF Beginning, Height
<1>4. ASSUME AppendSavePoint PROVE Beginning'
  <2>1. /\ UNCHANGED <<fat, headDB, cur>> /\ pc = "savepoint" /\ chHeader = headDB
        /\ savepoint' = IF ~HasHeads(headDB) /\ cur # 0 THEN Height - 2 ELSE savepoint
        /\ ~HasHeads(headDB) /\ cur # 0 => cur = Height - 1
    BY <1>4 DEF AppendSavePoint, ledgerVars, IInv, WorkInv, AtRest
  <2> QED
    BY <1>0, <2>1 DEF Beginning, Height
<1>5. ASSUME SaveChannelHeadInfo PROVE Beginning'
  <2>1. headDB' = chHeader /\ HasHeads(chHeader)
    BY <1>5 DEF SaveChannelHeadInfo, IInv, StoreInv
  <2> QED
    BY <2>1 DEF Beginning
<1>6. ASSUME UNCHANGED <<fat, headDB, savepoint>>,
             pc' \in Work => pc \in Work /\ cur' = cur
      PROVE  Beginning'
  BY <1>6 DEF Beginning, Height
<1>7. ASSUME \/ SendBlock \/ StartProcessor \/ CreateOrgBlocks
             \/ (\E c \in Chains : StoreOrgBlock(c))
             \/ AppendOrgMerkleInfo \/ PublishHeads \/ StoreFailure \/ CreateFailure
             \/ (\E e \in DOMAIN cache : Evict(e)) \/ Restart \/ UNCHANGED vars
      PROVE  Beginning'
  <2>1. UNCHANGED <<fat, headDB, savepoint>>
    BY <1>7 DEF SendBlock, StartProcessor, CreateOrgBlocks, StoreOrgBlock, AppendOrgMerkleInfo,
       PublishHeads, StoreFailure, CreateFailure, Evict, Restart, vars, ledgerVars, storeVars
  <2>2. pc' \in Work => pc \in Work /\ cur' = cur
    BY <1>7 DEF SendBlock, StartProcessor, CreateOrgBlocks, StoreOrgBlock, AppendOrgMerkleInfo,
       PublishHeads, StoreFailure, CreateFailure, Evict, Restart, vars, procVars
  <2> QED
    BY <1>6, <2>1, <2>2
<1> QED
  BY <1>1, <1>2, <1>3, <1>4, <1>5, <1>7 DEF Next, Processor

(* Every step keeps what the processor holds of the block it stores.       *)
LEMMA MadeStep ==
  ASSUME QuietSwitch, IInv, Made, [Next]_vars
  PROVE  Made'
<1> DEFINE Storing == {"store", "publish", "save"}
<1>0. Len(fat) \in Nat /\ savepoint \in Nat /\ cur \in Nat
  BY DEF IInv, TypeOK
<1>1. ASSUME NEW b \in Bodies \cup {GenesisBody}, AddBlock(b)
      PROVE  Made'
  <2>1. /\ UNCHANGED <<headDB, savepoint, pc, cur, out, chHeader>>
        /\ fat' = Append(fat, b) /\ MayAppend
    BY <1>1 DEF AddBlock, storeVars, procVars
  <2> SUFFICES ASSUME pc \in Storing PROVE Made'
    BY <2>1 DEF Made
  <2>2. cur < Len(fat)
    <3>1. /\ cur <= syncTo /\ syncTo < NextOut /\ syncTo \in Nat /\ Len(sparseCh) \in Nat
      BY DEF IInv, TypeOK, StoreInv
    <3> QED
      BY <1>0, <3>1 DEF NextOut, InSend, Height
  <2>3. fat'[cur + 1] = fat[cur + 1]
    BY <1>0, <2>1, <2>2 DEF IInv, TypeOK
  <2>4. IsConfigBlock(cur)' = IsConfigBlock(cur)
    BY <2>1, <2>3 DEF IsConfigBlock
  <2>5. HasHeads(headDB) \/ cur = 0
    BY <1>0, <2>1 DEF Made, MayAppend, Height
  <2>6. SavedBase' = SavedBase /\ SavedBase = headDB
    BY <2>1, <2>5 DEF SavedBase
  <2>7. \A c \in DOMAIN out : CutFrom(c, out[c])'
    BY <2>1, <2>3, <2>4, <2>6 DEF Made, CutFrom, CreateNextBlock
  <2> QED
    BY <2>1, <2>3, <2>4, <2>5, <2>6, <2>7 DEF Made, NewHeader, HeadOfBlock
<1>2. ASSUME CreateOrgBlocks PROVE Made'
  <2>1. /\ UNCHANGED <<fat, headDB, savepoint, cur>> /\ pc = "create"
        /\ pc' \in {"store", "panic"}
    BY <1>2 DEF CreateOrgBlocks, ledgerVars
  <2> SUFFICES ASSUME pc' = "store" PROVE Made'
    BY <2>1 DEF Made
  <2> DEFINE T == TouchedChains(fat[cur + 1])
  <2>2. PICK status :
          /\ IsConfigBlock(cur) \/ T \subseteq DOMAIN BaseHeader(cur).heads
          /\ out' = [c \in T |-> MakeOrgBlock(c, cur, BaseHeader(cur), status)]
          /\ chHeader' = NewHeader(BaseHeader(cur), out', cur)
    BY <1>2 DEF CreateOrgBlocks
  <2>3. /\ chHeader = headDB /\ (HasHeads(headDB) => cur = headDB.last + 1)
        /\ ~HasHeads(headDB) /\ cur # 0 => savepoint = cur - 1 /\ cur = Height - 1
    BY <2>1 DEF IInv, WorkInv, AtRest
  <2>4. BaseHeader(cur) = SavedBase /\ SavedBase' = SavedBase
    BY <2>1, <2>3 DEF BaseHeader, SavedBase, FatHash, FatData, FatLastConfig, IsConfigBlock
  <2>5. IsConfigBlock(cur)' = IsConfigBlock(cur) /\ T' = T /\ Height' = Height
    BY <2>1 DEF IsConfigBlock, Height
  <2>6. ASSUME NEW c \in T PROVE CutFrom(c, out[c])'
    <3>1. out'[c] = MakeOrgBlock(c, cur, SavedBase, status)
      BY <2>2, <2>4
    <3>2. /\ out'[c].num = CreateNextBlock(c, cur, SavedBase).num
          /\ out'[c].prev = CreateNextBlock(c, cur, SavedBase).prev
          /\ out'[c].data = CreateNextBlock(c, cur, SavedBase).data
          /\ out'[c].lastConfig = IF IsConfigBlock(cur) THEN CreateNextBlock(c, cur, SavedBase).num
                                  ELSE SavedBase.heads[c].lastConfig
      BY <3>1 DEF MakeOrgBlock, AddMetadataFields
    <3>3. /\ CreateNextBlock(c, cur, SavedBase).data = <<cur, TxnIdxList(c, fat[cur + 1])>>
          /\ CreateNextBlock(c, cur, SavedBase)' = CreateNextBlock(c, cur, SavedBase)
      BY <2>1, <2>4 DEF CreateNextBlock
    <3> QED
      BY <2>1, <2>4, <2>5, <3>2, <3>3 DEF CutFrom
  <2>7. DOMAIN out' = T
    BY <2>2
  <2>8. ~HasHeads(headDB) /\ cur # 0 => savepoint = cur - 1 /\ Height = cur + 1
    BY <1>0, <2>3 DEF Height
  <2> HIDE DEF T
  <2>9. chHeader' = NewHeader(SavedBase, out, cur)'
    BY <2>1, <2>2, <2>4 DEF NewHeader, HeadOfBlock
  <2>10. DOMAIN out' = TouchedChains(fat[cur + 1])'
    BY <2>5, <2>7 DEF T
  <2>11. IsConfigBlock(cur)' \/ DOMAIN out' \subseteq DOMAIN SavedBase'.heads
    BY <2>2, <2>4, <2>5, <2>7
  <2>12. /\ HasHeads(headDB)' => cur' = headDB'.last + 1
         /\ ~HasHeads(headDB)' /\ cur' # 0 => savepoint' = cur' - 1 /\ Height' = cur' + 1
    BY <2>1, <2>3, <2>5, <2>8
  <2>13. \A c \in DOMAIN out' : CutFrom(c, out[c])'
    BY <2>6, <2>7
  <2> QED
    BY <2>9, <2>10, <2>11, <2>12, <2>13 DEF Made
<1>3. ASSUME UNCHANGED <<fat, headDB, savepoint, cur, out, chHeader>>,
             pc' \in Storing => pc \in Storing
      PROVE  Made'
  <2>1. /\ SavedBase' = SavedBase /\ IsConfigBlock(cur)' = IsConfigBlock(cur)
        /\ \A c \in DOMAIN out : CutFrom(c, out[c])' = CutFrom(c, out[c])
    BY <1>3 DEF SavedBase, FatHash, FatData, FatLastConfig, IsConfigBlock, CutFrom, CreateNextBlock
  <2> QED
    BY <1>3, <2>1 DEF Made, NewHeader, HeadOfBlock, Height
<1>4. ASSUME \/ SendBlock \/ (\E c \in Chains : StoreOrgBlock(c)) \/ AppendOrgMerkleInfo
             \/ PublishHeads \/ (\E e \in DOMAIN cache : Evict(e)) \/ UNCHANGED vars
      PROVE  Made'
  <2>1. /\ UNCHANGED <<fat, headDB, savepoint, cur, out, chHeader>>
        /\ pc' \in Storing => pc \in Storing
    BY <1>4 DEF SendBlock, StoreOrgBlock, AppendOrgMerkleInfo, PublishHeads, Evict, vars,
       ledgerVars, storeVars, procVars
  <2> QED
    BY <1>3, <2>1
<1>5. ASSUME \/ StartProcessor \/ ReadStartBlock \/ ReceiveBlock \/ AppendSavePoint
             \/ SaveChannelHeadInfo \/ StoreFailure \/ CreateFailure \/ Restart
      PROVE  Made'
  <2>1. pc' \notin Storing
    BY <1>5 DEF StartProcessor, ReadStartBlock, ReceiveBlock, AppendSavePoint,
       SaveChannelHeadInfo, StoreFailure, CreateFailure, Restart
  <2> QED
    BY <2>1 DEF Made
<1> QED
  BY <1>1, <1>2, <1>4, <1>5 DEF Next, Processor

(* A header stays linked while its stores do not change.                   *)
LEMMA LinkedUnchanged ==
  ASSUME NEW h, Linked(h), UNCHANGED <<fat, index, merkle, savepoint>>
  PROVE  Linked(h)'
<1>1. \A c, k : /\ StoredDetails(c, k)' = StoredDetails(c, k)
                /\ StoredHash(c, k)' = StoredHash(c, k)
                /\ Source(c, k)' = Source(c, k)
                /\ IsConfigBlock(Source(c, k))' = IsConfigBlock(Source(c, k))
  BY DEF StoredDetails, StoredHash, Source, StoredData, FatHash, FatData, IsConfigBlock
<1>2. IsConfigBlock(savepoint)' = IsConfigBlock(savepoint) /\ Height' = Height
  BY DEF IsConfigBlock, Height
<1>3. \A c, k, m : ConfigAt(c, k, m)' <=> ConfigAt(c, k, m)
  BY <1>1, <1>2 DEF ConfigAt
<1>4. \A c, k : Sound(c, k)' <=> Sound(c, k)
  BY <1>1, <1>2, <1>3 DEF Sound
<1>5. \A c, hd : HeadSound(c, hd)' <=> HeadSound(c, hd)
  BY <1>1, <1>2, <1>3 DEF HeadSound
<1> QED
  BY <1>4, <1>5 DEF Linked

(* A header stays linked when the ledger grows.                            *)
LEMMA LinkedGrows ==
  ASSUME TypeOK, LedgerInv, NEW h, Linked(h), HasHeads(h) => Height > 0,
         NEW b \in Bodies \cup {GenesisBody}, fat' = Append(fat, b),
         UNCHANGED <<index, merkle, savepoint>>
  PROVE  Linked(h)'
<1> SUFFICES ASSUME NEW c \in DOMAIN h.heads
             PROVE  (/\ HeadSound(c, h.heads[c])
                     /\ \A k \in savepoint + 1 .. h.heads[c].num : Sound(c, k))'
  BY DEF Linked
<1> DEFINE n == h.heads[c].num
<1>1. /\ Len(fat) \in Nat /\ savepoint \in Nat /\ Len(fat') = Len(fat) + 1
      /\ \A i \in 1 .. Len(fat) : fat'[i] = fat[i]
  BY DEF TypeOK
<1>2. /\ n \in Nat /\ HeadSound(c, h.heads[c])
      /\ \A k \in savepoint + 1 .. n : Sound(c, k)
  BY DEF Linked, HeadSound
<1>3. savepoint < Len(fat)
  BY <1>1 DEF HasHeads, LedgerInv, Height
<1>4. \A j \in 0 .. Len(fat) - 1 : IsConfigBlock(j)' = IsConfigBlock(j)
  <2> SUFFICES ASSUME NEW j \in 0 .. Len(fat) - 1
               PROVE  IsConfigBlock(j)' = IsConfigBlock(j)
    OBVIOUS
  <2>1. fat'[j + 1] = fat[j + 1]
    BY <1>1
  <2> QED
    BY <2>1 DEF IsConfigBlock
<1>5. \A k : StoredDetails(c, k)' = StoredDetails(c, k)
  BY DEF StoredDetails
<1>6. ASSUME NEW k \in 0 .. n
      PROVE  /\ StoredHash(c, k)' = StoredHash(c, k)
             /\ Source(c, k)' = Source(c, k)
             /\ IsConfigBlock(Source(c, k))' = IsConfigBlock(Source(c, k))
  <2>1. CASE k <= savepoint
    <3>1. k \in Nat /\ k < Len(fat)
      BY <1>1, <1>2, <1>3, <2>1
    <3>2. FatHash(k)' = FatHash(k)
      BY <3>1, FatHashStable
    <3>3. Source(c, k) = k /\ Source(c, k)' = k
      BY <2>1 DEF Source, StoredData, FatData
    <3>4. IsConfigBlock(Source(c, k))' = IsConfigBlock(k)'
      BY <3>3 DEF IsConfigBlock
    <3> QED
      BY <1>1, <1>4, <2>1, <3>1, <3>2, <3>3, <3>4 DEF StoredHash
  <2>2. CASE ~(k <= savepoint)
    <3>1. k \in savepoint + 1 .. n
      BY <1>1, <1>2, <2>2
    <3>2. Source(c, k) \in 0 .. Len(fat) - 1
      BY <1>2, <3>1 DEF Sound, Height
    <3>3. Source(c, k)' = Source(c, k) /\ StoredHash(c, k)' = StoredHash(c, k)
      BY <1>5, <2>2 DEF Source, StoredData, StoredHash, HeaderHash
    <3> DEFINE j == Source(c, k)
    <3>4. IsConfigBlock(Source(c, k))' = IsConfigBlock(Source(c, k))
      <4>1. fat'[Source(c, k)' + 1] = fat[Source(c, k) + 1]
        <5> HIDE DEF j
        <5>1. j + 1 \in 1 .. Len(fat)
          BY <1>1, <3>2 DEF j
        <5>2. fat'[j + 1] = fat[j + 1]
          BY <1>1, <5>1
        <5> QED
          BY <3>3, <5>2 DEF j
      <4> QED
        BY <4>1 DEF IsConfigBlock
    <3> QED
      BY <3>3, <3>4
  <2> QED
    BY <2>1, <2>2
<1>7. /\ IsConfigBlock(savepoint)' = IsConfigBlock(savepoint)
      /\ Height \in Nat /\ Height' \in Nat /\ Height' >= Height
  <2>1. fat'[savepoint' + 1] = fat[savepoint + 1]
    BY <1>1, <1>3
  <2> QED
    BY <1>1, <2>1 DEF IsConfigBlock, Height
<1>8. /\ \A k \in savepoint + 1 .. n : Sound(c, k) => Sound(c, k)'
      /\ \A hd : hd.num = n /\ HeadSound(c, hd) => HeadSound(c, hd)'
  <2> HIDE DEF n
  <2> QED
    BY <1>1, <1>2, <1>5, <1>6, <1>7, Framed
<1>9. HeadSound(c, h.heads[c])'
  BY <1>2, <1>8
<1>10. \A k \in savepoint + 1 .. n : Sound(c, k)'
  BY <1>2, <1>8
<1> QED
  BY <1>9, <1>10

(* The saved header stays linked while the blocks of the next one are      *)
(* written.                                                                *)
LEMMA LinkedWhileStored ==
  ASSUME QuietSwitch, IInv, Linked(headDB), Next,
         UNCHANGED <<fat, savepoint, headDB>>
  PROVE  Linked(headDB)'
<1> SUFFICES ASSUME NEW c \in DOMAIN headDB.heads
             PROVE  (/\ HeadSound(c, headDB.heads[c])
                     /\ \A k \in savepoint + 1 .. headDB.heads[c].num : Sound(c, k))'
  BY DEF Linked
<1> DEFINE n == headDB.heads[c].num
<1>1. /\ Len(fat) \in Nat /\ savepoint \in Nat /\ c \in Chains
  BY DEF IInv, TypeOK
<1>2. /\ n \in Nat /\ HeadSound(c, headDB.heads[c])
      /\ \A k \in savepoint + 1 .. n : Sound(c, k)
  BY DEF Linked, HeadSound
<1>3. ASSUME NEW k \in 0 .. n
      PROVE  /\ StoredHash(c, k)' = StoredHash(c, k)
             /\ k > savepoint => StoredDetails(c, k)' = StoredDetails(c, k)
  BY <1>1, SavedBlockKept DEF BlocksOf
<1>4. ASSUME NEW k \in 0 .. n
      PROVE  /\ Source(c, k)' = Source(c, k)
             /\ IsConfigBlock(Source(c, k))' = IsConfigBlock(Source(c, k))
  <2>1. StoredData(c, k)' = StoredData(c, k)
    BY <1>1, <1>2, <1>3 DEF StoredData, FatData
  <2> QED
    BY <2>1 DEF Source, IsConfigBlock
<1>5. /\ IsConfigBlock(savepoint)' = IsConfigBlock(savepoint)
      /\ Height \in Nat /\ Height' \in Nat /\ Height' >= Height
  BY <1>1 DEF IsConfigBlock, Height
<1>6. /\ \A k \in savepoint + 1 .. n : Sound(c, k) => Sound(c, k)'
      /\ \A hd : hd.num = n /\ HeadSound(c, hd) => HeadSound(c, hd)'
  <2> HIDE DEF n
  <2> QED
    BY <1>1, <1>2, <1>3, <1>4, <1>5, Framed
<1>7. HeadSound(c, headDB.heads[c])'
  BY <1>2, <1>6
<1>8. \A k \in savepoint + 1 .. n : Sound(c, k)'
  BY <1>2, <1>6
<1> QED
  BY <1>7, <1>8

(* Every step keeps the saved and the published headers linked.            *)
LEMMA LinkedStep ==
  ASSUME QuietSwitch, IInv, Linked(headDB), Linked(container), Made, Beginning, [Next]_vars
  PROVE  Linked(headDB)' /\ Linked(container)'
<1>0. TypeOK /\ LedgerInv /\ headDB.last \in Nat /\ container.last \in Nat
  BY DEF IInv, TypeOK
<1>1. ASSUME NEW b \in Bodies \cup {GenesisBody}, AddBlock(b)
      PROVE  Linked(headDB)' /\ Linked(container)'
  <2>1. UNCHANGED <<headDB, container, savepoint, index, merkle>> /\ fat' = Append(fat, b)
    BY <1>1 DEF AddBlock, storeVars
  <2>2. /\ HasHeads(headDB) => Height > 0
        /\ HasHeads(container) => Height > 0
    BY <1>0 DEF IInv, TypeOK, Anchored, Height
  <2>3. \A h : Linked(h) /\ (HasHeads(h) => Height > 0) => Linked(h)'
    BY <1>0, <2>1, LinkedGrows
  <2> QED
    BY <2>1, <2>2, <2>3 DEF Linked
<1>2. ASSUME (\E c \in Chains : StoreOrgBlock(c)) \/ AppendOrgMerkleInfo
      PROVE  Linked(headDB)' /\ Linked(container)'
  <2>1. UNCHANGED <<fat, headDB, container, savepoint>> /\ pc = "store" /\ Next
    BY <1>2 DEF StoreOrgBlock, AppendOrgMerkleInfo, ledgerVars, Next, Processor
  <2>2. Linked(headDB)'
    BY <2>1, LinkedWhileStored
  <2>3. HasHeads(container) => container' = headDB'
    BY <2>1 DEF IInv, StoreInv
  <2>4. CASE HasHeads(container)
    BY <2>2, <2>3, <2>4 DEF Linked
  <2>5. CASE ~HasHeads(container)
    BY <2>1, <2>2, <2>5 DEF HasHeads, Linked
  <2> QED
    BY <2>4, <2>5
<1>3. ASSUME UNCHANGED <<fat, index, merkle, savepoint>>,
             headDB' = headDB \/ (pc = "save" /\ headDB' = chHeader),
             \/ container' = container \/ container' = EmptyHeader
             \/ pc = "publish" /\ container' = chHeader
      PROVE  Linked(headDB)' /\ Linked(container)'
  <2>1. \A h : Linked(h) => Linked(h)'
    BY <1>3, LinkedUnchanged
  <2>2. pc \in {"publish", "save"} => Linked(chHeader)
    BY NewHeadsLinked
  <2>3. Linked(EmptyHeader)
    BY DEF Linked, EmptyHeader, EmptyMap
  <2>4. Linked(headDB') /\ Linked(container')
    BY <1>3, <2>2, <2>3
  <2>5. PICK h, g : h = headDB' /\ g = container'
    OBVIOUS
  <2>6. Linked(h)' /\ Linked(g)'
    BY <2>1, <2>4, <2>5
  <2> QED
    BY <2>5, <2>6 DEF Linked
<1>4. ASSUME AppendSavePoint PROVE Linked(headDB)' /\ Linked(container)'
  <2>1. /\ UNCHANGED <<fat, index, merkle, headDB, container>> /\ pc = "savepoint"
        /\ chHeader = headDB /\ (HasHeads(container) => container = headDB)
        /\ HasHeads(headDB) => savepoint' = savepoint
    BY <1>4 DEF AppendSavePoint, ledgerVars, IInv, WorkInv, AtRest
  <2>2. CASE HasHeads(headDB)
    BY <1>3, <2>1, <2>2
  <2>3. CASE ~HasHeads(headDB)
    BY <2>1, <2>3 DEF HasHeads, Linked
  <2> QED
    BY <2>2, <2>3
<1>5. ASSUME \/ SendBlock \/ StartProcessor \/ ReadStartBlock \/ ReceiveBlock \/ CreateOrgBlocks
             \/ PublishHeads \/ SaveChannelHeadInfo \/ StoreFailure \/ CreateFailure
             \/ (\E e \in DOMAIN cache : Evict(e)) \/ Restart \/ UNCHANGED vars
      PROVE  Linked(headDB)' /\ Linked(container)'
  <2>1. UNCHANGED <<fat, index, merkle, savepoint>>
    BY <1>5 DEF SendBlock, StartProcessor, ReadStartBlock, ReceiveBlock, CreateOrgBlocks,
       PublishHeads, SaveChannelHeadInfo, StoreFailure, CreateFailure, Evict, Restart, vars,
       ledgerVars, storeVars
  <2>2. headDB' = headDB \/ (pc = "save" /\ headDB' = chHeader)
    BY <1>5 DEF SendBlock, StartProcessor, ReadStartBlock, ReceiveBlock, CreateOrgBlocks,
       PublishHeads, SaveChannelHeadInfo, StoreFailure, CreateFailure, Evict, Restart, vars, storeVars
  <2>3. \/ container' = container \/ container' = EmptyHeader
        \/ pc = "publish" /\ container' = chHeader
    BY <1>5 DEF SendBlock, StartProcessor, ReadStartBlock, ReceiveBlock, CreateOrgBlocks,
       PublishHeads, SaveChannelHeadInfo, StoreFailure, CreateFailure, Evict, Restart, vars
  <2> QED
    BY <1>3, <2>1, <2>2, <2>3
<1> QED
  BY <1>1, <1>2, <1>4, <1>5 DEF Next, Processor
-----------------------------------------------------------------------------
(* The content of the stores is as the inductive invariant says at every   *)
(* point of the loop, before and after a crash (createOrgBlocks,           *)
(* storeBlockData, SaveChannelHeadInfo).                                   *)
THEOREM ContentInvariance ==
  ASSUME QuietSwitch
  PROVE  Spec => []ContentInv
<1>1. Init => ContentInv
  <2> SUFFICES ASSUME Init PROVE ContentInv
    OBVIOUS
  <2>1. Linked(headDB) /\ Linked(container)
    BY DEF Init, Linked, EmptyHeader, EmptyMap
  <2>2. Made /\ Beginning
    BY DEF Init, Made, Beginning
  <2> QED
    BY <2>1, <2>2 DEF ContentInv
<1>2. IInv /\ ContentInv /\ [Next]_vars => ContentInv'
  BY LinkedStep, MadeStep, BeginningStep DEF ContentInv
<1> QED
  BY <1>1, <1>2, InductiveInvariance, PTL DEF Spec

(* Each org chain is linked by hashes below the saved and the published    *)
(* heads, across the savepoint and whatever was cut again after a crash,   *)
(* for every ledger and any number of crashes (createNextBlock).           *)
THEOREM AlwaysHashLinked ==
  ASSUME QuietSwitch
  PROVE  Spec => []HashLinked
<1>1. IInv /\ ContentInv => HashLinked
  <2> SUFFICES ASSUME IInv, ContentInv,
                      NEW h \in {headDB, container}, NEW c \in DOMAIN h.heads
               PROVE  /\ h.heads[c].hash = StoredHash(c, h.heads[c].num)
                      /\ \A k \in BlocksOf(h, c) :
                            k > savepoint => StoredDetails(c, k).prev = StoredHash(c, k - 1)
    BY DEF HashLinked
  <2>1. Linked(h) /\ savepoint \in Nat
    BY DEF ContentInv, IInv, TypeOK
  <2>2. /\ h.heads[c].hash = StoredHash(c, h.heads[c].num) /\ h.heads[c].num \in Nat
        /\ \A k \in savepoint + 1 .. h.heads[c].num :
              StoredDetails(c, k).prev = StoredHash(c, k - 1)
    BY <2>1 DEF Linked, HeadSound, Sound
  <2>3. BlocksOf(h, c) = 0 .. h.heads[c].num
    BY DEF BlocksOf
  <2> QED
    BY <2>1, <2>2, <2>3
<1> QED
  BY <1>1, InductiveInvariance, ContentInvariance, PTL

(* The LAST_CONFIG index of a saved org block names the latest             *)
(* configuration block of its own chain, for every ledger and any number   *)
(* of crashes, but for a chain begun right after a configuration block     *)
(* (storeOrgBlockSkeleton).                                                *)
THEOREM AlwaysLastConfig ==
  ASSUME QuietSwitch
  PROVE  Spec => []LastConfigIsConfig
<1>1. IInv /\ ContentInv => LastConfigIsConfig
  <2> SUFFICES ASSUME IInv, ContentInv,
                      NEW c \in Chains, NEW k \in BlocksOf(headDB, c), k > savepoint
               PROVE  LET m == StoredDetails(c, k).lastConfig
                      IN  /\ m <= k
                          /\ \/ IsConfigBlock(StoredData(c, m)[1])
                             \/ m = savepoint + 1 /\ IsConfigBlock(savepoint)
                          /\ \A j \in m + 1 .. k : ~IsConfigBlock(StoredData(c, j)[1])
    BY DEF LastConfigIsConfig
  <2>1. c \in DOMAIN headDB.heads /\ k \in 0 .. headDB.heads[c].num
    BY DEF BlocksOf
  <2>2. Linked(headDB) /\ savepoint \in Nat
    BY DEF ContentInv, IInv, TypeOK
  <2>3. headDB.heads[c].num \in Nat
    BY <2>1, <2>2 DEF Linked, HeadSound
  <2>4. Sound(c, k)
    BY <2>1, <2>2, <2>3 DEF Linked
  <2>5. k \in Nat
    BY <2>1, <2>3
  <2> DEFINE m == StoredDetails(c, k).lastConfig
  <2>6. ConfigAt(c, k, m)
    BY <2>4 DEF Sound
  <2> HIDE DEF m
  <2>7. m <= k
    BY <2>5, <2>6 DEF ConfigAt
  <2> QED
    BY <2>6, <2>7 DEF ConfigAt, Source, m
<1> QED
  BY <1>1, InductiveInvariance, ContentInvariance, PTL
-----------------------------------------------------------------------------
(***************************************************************************)
(* Refinement of OrgChains.                                                *)
(***************************************************************************)

(* The number of fat blocks and the org chains the saved heads stand for.  *)
SavedUpto == IF HasHeads(headDB) THEN headDB.last + 1 ELSE 0
SavedChain == [c \in DOMAIN headDB.heads |-> StoredChain(c)]

(* Both modules route transactions alike.                                  *)
LEMMA SameRouting ==
  ASSUME NEW c, NEW b
  PROVE  /\ OC!TxnIdxList(c, b) = TxnIdxList(c, b)
         /\ OC!TouchedChains(b) = TouchedChains(b)
         /\ OC!ConfigOrgList = ConfigOrgList
<1>1. OC!ConfigOrgList = ConfigOrgList
  BY DEF OC!ConfigOrgList, ConfigOrgList
<1>2. OC!TxnIdxList(c, b) = TxnIdxList(c, b)
  BY DEF OC!TxnIdxList, TxnIdxList, OC!OrgList, OrgList, ConfigOrgList, OC!ConfigOrgList
<1>3. OC!TouchedChains(b) = TouchedChains(b)
  BY DEF OC!TouchedChains, TouchedChains, OC!OrgList, OrgList, ConfigOrgList, OC!ConfigOrgList
<1> QED
  BY <1>1, <1>2, <1>3

(* Steps that do not save heads keep the saved chains.                     *)
LEMMA SavedChainKept ==
  ASSUME QuietSwitch, IInv, ContentInv, Next, headDB' = headDB
  PROVE  SavedUpto' = SavedUpto /\ SavedChain' = SavedChain
<1>1. SavedUpto' = SavedUpto
  BY DEF SavedUpto
<1>2. ASSUME NEW c \in DOMAIN headDB.heads PROVE StoredChain(c)' = StoredChain(c)
  <2> DEFINE n == headDB.heads[c].num
  <2>1. /\ c \in Chains /\ n \in Nat /\ savepoint \in Nat /\ HasHeads(headDB)
        /\ headDB.last \in Nat /\ Len(fat) \in Nat
    BY DEF IInv, TypeOK, HasHeads
  <2>2. savepoint < Len(fat)
    BY <2>1 DEF IInv, LedgerInv, Anchored, Height
  <2>3. savepoint' = savepoint /\ \A i \in 1 .. Len(fat) : fat'[i] = fat[i]
    <3>1. CASE \E b \in Bodies \cup {GenesisBody} : AddBlock(b)
      BY <3>1 DEF AddBlock, storeVars, IInv, TypeOK
    <3>2. CASE AppendSavePoint
      BY <2>1, <3>2 DEF AppendSavePoint, ledgerVars, IInv, WorkInv, AtRest
    <3>3. CASE ~AppendSavePoint /\ ~\E b \in Bodies \cup {GenesisBody} : AddBlock(b)
      <4>1. UNCHANGED <<fat, savepoint>>
        BY <3>3 DEF Next, Processor, SendBlock, StartProcessor, ReadStartBlock, ReceiveBlock,
           CreateOrgBlocks, StoreOrgBlock, AppendOrgMerkleInfo, PublishHeads,
           SaveChannelHeadInfo, StoreFailure, CreateFailure, Evict, Restart, ledgerVars, storeVars
      <4> QED
        BY <4>1
    <3> QED
      BY <3>1, <3>2, <3>3
  <2>4. ASSUME NEW k \in 0 .. n PROVE StoredData(c, k)' = StoredData(c, k)
    <3>1. CASE k <= savepoint
      <4>1. fat'[k + 1] = fat[k + 1]
        BY <2>1, <2>2, <2>3, <3>1
      <4> QED
        BY <2>3, <3>1, <4>1 DEF StoredData, FatData
    <3>2. CASE ~(k <= savepoint)
      <4>1. StoredDetails(c, k)' = StoredDetails(c, k)
        BY <2>1, <3>2, SavedBlockKept DEF BlocksOf
      <4> QED
        BY <2>3, <3>2, <4>1 DEF StoredData
    <3> QED
      BY <3>1, <3>2
  <2> HIDE DEF n
  <2>5. \A k \in 1 .. n + 1 : k - 1 \in 0 .. n
    BY <2>1
  <2>6. StoredChain(c) = [k \in 1 .. n + 1 |-> StoredData(c, k - 1)]
    BY DEF StoredChain, n
  <2>7. StoredChain(c)' = [k \in 1 .. n + 1 |-> StoredData(c, k - 1)']
    BY DEF StoredChain, n
  <2> QED
    BY <2>4, <2>5, <2>6, <2>7
<1> QED
  BY <1>1, <1>2 DEF SavedChain

(* The chains of the header that the blocks of cur are made with.          *)
BaseChain ==
    [c \in DOMAIN SavedBase.heads |->
        [k \in 1 .. SavedBase.heads[c].num + 1 |-> StoredData(c, k - 1)]]

(* One element more at the end of a function on 1 .. n.                    *)
LEMMA AppendOne ==
  ASSUME NEW n \in Nat, NEW S, NEW f \in [1 .. n -> S], NEW x
  PROVE  Append(f, x) = [k \in 1 .. n + 1 |-> IF k = n + 1 THEN x ELSE f[k]]
<1>1. f \in Seq(S) /\ Len(f) = n
  OBVIOUS
<1>2. Append(f, x) \in Seq(S \cup {x})
  <2>1. f \in Seq(S \cup {x})
    BY <1>1
  <2> QED
    BY <2>1
<1>3. /\ Len(Append(f, x)) = n + 1
      /\ \A k \in 1 .. n + 1 : Append(f, x)[k] = IF k = n + 1 THEN x ELSE f[k]
  BY <1>1
<1> DEFINE g == Append(f, x)
<1>4. g \in [1 .. n + 1 -> S \cup {x}]
  BY <1>2, <1>3, LenProperties
<1>5. \A k \in 1 .. n + 1 : g[k] = IF k = n + 1 THEN x ELSE f[k]
  BY <1>3
<1> HIDE DEF g
<1>6. g = [k \in 1 .. n + 1 |-> IF k = n + 1 THEN x ELSE f[k]]
  BY <1>4, <1>5
<1> QED
  BY <1>6 DEF g

(* Saving the heads adds the projection of the block to the chains.        *)
LEMMA SaveExtends ==
  ASSUME QuietSwitch, IInv, ContentInv, SaveChannelHeadInfo
  PROVE  SavedChain' = OC!Extended(BaseChain, cur)
<1>0. /\ pc = "save" /\ headDB' = chHeader /\ UNCHANGED <<fat, index, merkle, savepoint>>
  BY DEF SaveChannelHeadInfo, ledgerVars
<1>1. /\ cur \in Nat /\ Height \in Nat /\ savepoint \in Nat /\ cur < Height
      /\ cur = 0 => savepoint = 0 \/ HasHeads(headDB)
  BY <1>0, StoringFacts DEF ContentInv
<1>2. Linked(SavedBase)
  BY <1>0, BaseLinked DEF ContentInv
<1>3. /\ chHeader = NewHeader(SavedBase, out, cur)
      /\ \A c \in DOMAIN out : CutFrom(c, out[c])
      /\ IsConfigBlock(cur) \/ DOMAIN out \subseteq DOMAIN SavedBase.heads
      /\ DOMAIN out = TouchedChains(fat[cur + 1])
  BY <1>0 DEF Made, ContentInv
<1> DEFINE T == TouchedChains(fat[cur + 1])
           D == DOMAIN SavedBase.heads
           NewChain(c) == [k \in 1 .. chHeader.heads[c].num + 1 |-> StoredData(c, k - 1)]
           Ext(c) == IF c \notin T THEN BaseChain[c]
                     ELSE Append(IF c \in D THEN BaseChain[c] ELSE << >>,
                                 <<cur, TxnIdxList(c, fat[cur + 1])>>)
<1>4. /\ DOMAIN chHeader.heads = D \cup T
      /\ \A c \in D \cup T :
            chHeader.heads[c] = IF c \in T THEN HeadOfBlock(out[c], cur) ELSE SavedBase.heads[c]
  BY <1>3 DEF NewHeader
<1>5. DOMAIN BaseChain = D
  BY DEF BaseChain
<1>6. SavedChain' = [c \in D \cup T |-> NewChain(c)]
  <2>1. \A c, k : StoredData(c, k)' = StoredData(c, k)
    BY <1>0 DEF StoredData, StoredDetails, FatData
  <2>2. \A c : StoredChain(c)' = NewChain(c)
    BY <1>0, <2>1 DEF StoredChain
  <2> QED
    BY <1>0, <1>4, <2>2 DEF SavedChain
<1>7. ASSUME NEW c \in D \cup T PROVE NewChain(c) = Ext(c)
  <2>1. CASE c \notin T
    <3>1. chHeader.heads[c] = SavedBase.heads[c] /\ c \in D
      BY <1>4, <2>1
    <3>2. BaseChain[c] = [k \in 1 .. SavedBase.heads[c].num + 1 |-> StoredData(c, k - 1)]
      BY <3>1 DEF BaseChain
    <3> QED
      BY <2>1, <3>1, <3>2
  <2>2. CASE c \in T
    <3> DEFINE d == <<cur, TxnIdxList(c, fat[cur + 1])>>
    <3>1. /\ <<c, out[c].num>> \in DOMAIN index /\ index[<<c, out[c].num>>] = cur
          /\ merkle[cur] = [x \in DOMAIN out |-> Details(out[x])]
      BY <1>0, <1>3, <2>2 DEF IInv, WrittenInv
    <3>2. StoredDetails(c, out[c].num) = Details(out[c])
      BY <1>3, <2>2, <3>1 DEF StoredDetails
    <3>3. /\ out[c].num = CreateNextBlock(c, cur, SavedBase).num
          /\ out[c].data = d /\ StoredDetails(c, out[c].num).data = d
      BY <1>3, <2>2, <3>2 DEF CutFrom, Details
    <3>4. chHeader.heads[c] = HeadOfBlock(out[c], cur)
      BY <1>4, <2>2
    <3>5. chHeader.heads[c].num = out[c].num
      BY <3>4 DEF HeadOfBlock
    <3>6. CASE c \in D
      <4> DEFINE n == SavedBase.heads[c].num
                 f == [k \in 1 .. n + 1 |-> StoredData(c, k - 1)]
                 S == {StoredData(c, k - 1) : k \in 1 .. n + 1}
      <4>1. n \in Nat /\ n >= savepoint /\ out[c].num = n + 1
        BY <1>2, <3>3, <3>6 DEF Linked, HeadSound, CreateNextBlock
      <4>2. BaseChain[c] = f
        BY <3>6 DEF BaseChain
      <4>3. StoredData(c, n + 1) = d
        <5> HIDE DEF n, d
        <5>1. ~(n + 1 <= savepoint)
          BY <1>1, <4>1
        <5> QED
          BY <3>3, <4>1, <5>1 DEF StoredData
      <4>4. f \in [1 .. n + 1 -> S]
        OBVIOUS
      <4>5. Append(f, d) = [k \in 1 .. (n + 1) + 1 |-> IF k = (n + 1) + 1 THEN d ELSE f[k]]
        <5> HIDE DEF f, S, n, d
        <5>1. \A m \in Nat : f \in [1 .. m -> S] =>
                Append(f, d) = [k \in 1 .. m + 1 |-> IF k = m + 1 THEN d ELSE f[k]]
          BY AppendOne
        <5>2. n + 1 \in Nat
          BY <4>1
        <5> QED
          BY <4>4, <5>1, <5>2
      <4>6. NewChain(c) = [k \in 1 .. (n + 1) + 1 |-> StoredData(c, k - 1)]
        BY <3>5, <4>1
      <4>7. \A k \in 1 .. (n + 1) + 1 :
              StoredData(c, k - 1) = IF k = (n + 1) + 1 THEN d ELSE f[k]
        <5> HIDE DEF n, d
        <5>1. \A k \in 1 .. (n + 1) + 1 : k = (n + 1) + 1 \/ k \in 1 .. n + 1
          BY <4>1
        <5>2. ((n + 1) + 1) - 1 = n + 1
          BY <4>1
        <5> QED
          BY <4>3, <5>1, <5>2
      <4> HIDE DEF f, n, d, NewChain
      <4>8. NewChain(c) = Append(f, d)
        BY <4>5, <4>6, <4>7
      <4> QED
        BY <2>2, <3>6, <4>2, <4>8 DEF d
    <3>7. CASE c \notin D
      <4>1. c \in ConfigOrgList
        BY <1>1, <1>3, <2>2, <3>7, TouchedByConfig
      <4>2. ~HasHeads(headDB) /\ cur = 0 /\ savepoint = 0
        BY <1>1, <3>7, <4>1 DEF SavedBase, IInv, Anchored
      <4>3. out[c].num = 0
        BY <3>3, <3>7 DEF CreateNextBlock
      <4>4. d = FatData(0)
        BY <1>1, <4>1, <4>2, GenesisBlock DEF IInv
      <4>5. StoredData(c, 1 - 1) = FatData(0)
        BY <4>2 DEF StoredData
      <4>6. NewChain(c) = [k \in 1 .. 1 |-> StoredData(c, k - 1)]
        BY <3>5, <4>3
      <4> HIDE DEF d
      <4>7. [k \in 1 .. 1 |-> StoredData(c, k - 1)] = Append(<< >>, d)
        BY <4>4, <4>5
      <4> QED
        BY <2>2, <3>7, <4>6, <4>7 DEF d
    <3> QED
      BY <3>6, <3>7
  <2> QED
    BY <2>1, <2>2
<1>8. OC!Extended(BaseChain, cur) = [c \in D \cup T |-> Ext(c)]
  BY <1>5, SameRouting DEF OC!Extended
<1> HIDE DEF Ext, NewChain, D, T
<1> QED
  BY <1>6, <1>7, <1>8

(* Saving the heads is a step of OrgChains: the next block is projected,   *)
(* or the chains are begun on a ledger that already has blocks.            *)
LEMMA SaveRefines ==
  ASSUME QuietSwitch, IInv, ContentInv, SaveChannelHeadInfo
  PROVE  OC!Extend \/ OC!TakeOver
<1>0. /\ pc = "save" /\ headDB' = chHeader /\ fat' = fat
      /\ HasHeads(chHeader) /\ chHeader.last = cur
  BY DEF SaveChannelHeadInfo, ledgerVars, IInv, StoreInv
<1>1. /\ cur \in Nat /\ Len(fat) \in Nat /\ cur < Len(fat) /\ savepoint \in Nat
      /\ HasHeads(headDB) => cur # 0 /\ SavedBase = headDB
      /\ HasHeads(headDB) => cur = headDB.last + 1
      /\ ~HasHeads(headDB) /\ cur # 0 => savepoint = cur - 1 /\ Len(fat) = cur + 1
  BY <1>0, StoringFacts DEF Made, ContentInv, Height
<1>2. SavedChain' = OC!Extended(BaseChain, cur) /\ SavedUpto' = cur + 1
  BY <1>0, SaveExtends DEF SavedUpto
<1>3. CASE HasHeads(headDB) \/ cur = 0
  <2>1. SavedBase = headDB /\ SavedUpto = cur
    BY <1>1, <1>3 DEF SavedBase, SavedUpto
  <2>2. BaseChain = SavedChain
    BY <2>1 DEF BaseChain, SavedChain, StoredChain
  <2>3. SavedUpto = 0 \/ SavedChain # [c \in {} |-> << >>]
    <3>1. DOMAIN SavedChain = DOMAIN headDB.heads
      BY DEF SavedChain
    <3> QED
      BY <1>3, <2>1, <3>1 DEF HasHeads
  <2>4. OC!Extend
    BY <1>0, <1>1, <1>2, <2>1, <2>2, <2>3 DEF OC!Extend, SavedUpto, SavedChain
  <2> QED
    BY <2>4
<1>4. CASE ~HasHeads(headDB) /\ cur # 0
  <2>1. savepoint = Len(fat) - 2 /\ cur = Len(fat) - 1 /\ Len(fat) >= 2
    BY <1>1, <1>4
  <2>2. BaseChain = OC!TakenOver(Len(fat) - 2)
    <3>1. /\ DOMAIN SavedBase.heads = ConfigOrgList
          /\ \A c \in ConfigOrgList : SavedBase.heads[c].num = savepoint
      BY <1>4 DEF SavedBase
    <3>2. ASSUME NEW c, NEW k \in 1 .. savepoint + 1
          PROVE  StoredData(c, k - 1) = <<k - 1, OC!AllOf(fat[k])>>
      <4>1. k - 1 <= savepoint /\ (k - 1) + 1 = k
        BY <1>1
      <4> QED
        BY <4>1 DEF StoredData, FatData, OC!AllOf
    <3>3. BaseChain = [c \in ConfigOrgList |->
                         [k \in 1 .. savepoint + 1 |-> StoredData(c, k - 1)]]
      BY <3>1 DEF BaseChain
    <3>4. OC!TakenOver(savepoint) = [c \in ConfigOrgList |->
                         [k \in 1 .. savepoint + 1 |-> <<k - 1, OC!AllOf(fat[k])>>]]
      BY SameRouting DEF OC!TakenOver
    <3>5. \A c : [k \in 1 .. savepoint + 1 |-> StoredData(c, k - 1)]
                   = [k \in 1 .. savepoint + 1 |-> <<k - 1, OC!AllOf(fat[k])>>]
      BY <3>2
    <3>6. BaseChain = OC!TakenOver(savepoint)
      BY <3>3, <3>4, <3>5
    <3> QED
      BY <2>1, <3>6
  <2>3. SavedUpto = 0
    BY <1>4 DEF SavedUpto
  <2>4. SavedChain' = OC!Extended(OC!TakenOver(Len(fat) - 2), Len(fat) - 1) /\ SavedUpto' = Len(fat)
    BY <1>1, <1>2, <2>1, <2>2
  <2> QED
    BY <1>0, <2>1, <2>3, <2>4 DEF OC!TakeOver, SavedUpto, SavedChain
<1> QED
  BY <1>3, <1>4

(***************************************************************************)
(* The processor implements the org chains, for every ledger, through      *)
(* crashes, failed writes and blocks that are cut again: the chains below  *)
(* the saved heads hold the fat chain up to the savepoint and then every   *)
(* later fat block, each exactly once (processFatBlocks, syncOrderer).     *)
(***************************************************************************)
THEOREM ProcessorImplementsOrgChains ==
  ASSUME QuietSwitch
  PROVE  Spec => ImplementsOrgChains
<1>1. Init => OC!AInit
  <2> SUFFICES ASSUME Init PROVE OC!AInit
    OBVIOUS
  <2>1. headDB = EmptyHeader /\ DOMAIN headDB.heads = {} /\ fat \in VanillaLedgers
    BY DEF Init, EmptyHeader, EmptyMap
  <2>2. [c \in DOMAIN headDB.heads |-> StoredChain(c)] = [c \in {} |-> << >>]
    BY <2>1
  <2> QED
    BY <2>1, <2>2 DEF OC!AInit, HasHeads
<1>2. ASSUME IInv, ContentInv, [Next]_vars
      PROVE  [OC!ANext]_<<fat, SavedUpto, SavedChain>>
  <2>1. CASE SaveChannelHeadInfo
    BY <1>2, <2>1, SaveRefines DEF OC!ANext
  <2>2. CASE \E b \in Bodies \cup {GenesisBody} : AddBlock(b)
    <3>1. PICK b \in Bodies \cup {GenesisBody} : AddBlock(b)
      BY <2>2
    <3>2. fat' = Append(fat, b) /\ headDB' = headDB /\ Next
      BY <3>1 DEF AddBlock, storeVars, Next
    <3>3. SavedUpto' = SavedUpto /\ SavedChain' = SavedChain
      BY <1>2, <3>2, SavedChainKept
    <3> QED
      BY <3>2, <3>3 DEF OC!ANext, OC!AppendLog, SavedUpto, SavedChain
  <2>3. CASE Next /\ headDB' = headDB /\ fat' = fat
    BY <1>2, <2>3, SavedChainKept
  <2>4. CASE UNCHANGED vars
    <3>1. UNCHANGED <<fat, headDB, index, merkle, savepoint>>
      BY <2>4 DEF vars, ledgerVars, storeVars
    <3>2. \A c : StoredChain(c)' = StoredChain(c)
      BY <3>1 DEF StoredChain, StoredData, StoredDetails, FatData
    <3> QED
      BY <3>1, <3>2 DEF SavedUpto, SavedChain
  <2>5. \/ SaveChannelHeadInfo \/ (\E b \in Bodies \cup {GenesisBody} : AddBlock(b))
        \/ (Next /\ headDB' = headDB /\ fat' = fat) \/ UNCHANGED vars
    BY <1>2 DEF Next, Processor, SendBlock, StartProcessor, ReadStartBlock, ReceiveBlock,
       AppendSavePoint, CreateOrgBlocks, StoreOrgBlock, AppendOrgMerkleInfo, PublishHeads,
       StoreFailure, CreateFailure, Evict, Restart, ledgerVars, storeVars
  <2> QED
    BY <2>1, <2>2, <2>3, <2>4, <2>5
<1>3. OC!ASpec <=> OC!AInit /\ [][OC!ANext]_<<fat, SavedUpto, SavedChain>>
  BY DEF OC!ASpec, SavedUpto, SavedChain
<1> QED
  BY <1>1, <1>2, <1>3, InductiveInvariance, ContentInvariance, PTL DEF Spec, ImplementsOrgChains
-----------------------------------------------------------------------------
(***************************************************************************)
(* No lost update. A position of the fat ledger is marked when an org      *)
(* block, stored or about to be stored, gives its transaction status VALID.*)
(***************************************************************************)
MarkedIn(r, i) ==
    \E c \in DOMAIN r : \E p \in 1 .. Len(r[c].filter) :
        r[c].data[2][p] = i /\ r[c].filter[p] = "VALID"

Marked(t) ==
    \/ t[1] \in DOMAIN merkle /\ MarkedIn(merkle[t[1]], t[2])
    \/ pc = "store" /\ t[1] = cur /\ MarkedIn(out, t[2])

Positions == UNION {{n} \X (1 .. Len(fat[n + 1])) : n \in 0 .. Height - 1}

Marks == {t \in Positions : Marked(t)}

(* What t wrote to k, or something later, is the recorded version of k.    *)
Recorded(t, k) ==
    /\ k \in DOMAIN versions /\ versions[k] \in Nat \X Nat
    /\ versions[k][1] > t[1] \/ (versions[k][1] = t[1] /\ versions[k][2] >= t[2] - 1)

Deleted(t, k) == \E d \in Marks : Before(t, d) /\ k \in TxnAt(d).deletes

RecordsKept ==
    \A t \in Marks : \A k \in TxnAt(t).writes \ TxnAt(t).deletes : Recorded(t, k) \/ Deleted(t, k)

(* A marked transaction that read a version from before the marked write   *)
(* of t comes after a marked deletion.                                     *)
StaleReadsExcused ==
    \A t, u \in Marks : \A k \in DOMAIN TxnAt(u).reads \cap PublicKeys :
        LET v == TxnAt(u).reads[k]
        IN  /\ Before(t, u)
            /\ v = NilVersion \/ v[1] < t[1]
            /\ k \in TxnAt(t).writes \ TxnAt(t).deletes
            => \E d \in Marks : Before(t, d) /\ Before(d, u) /\ k \in TxnAt(d).deletes

(* Details are stored for saved blocks and for the one being stored.       *)
StoredInOrder ==
    \A n \in DOMAIN merkle :
        \/ HasHeads(headDB) /\ n <= headDB.last
        \/ pc \in {"publish", "save"} /\ n = cur

(***************************************************************************)
(* A block that names a chain without a head makes the process panic after *)
(* its versions were applied. It is the next block after every restart, so *)
(* nothing is marked any more.                                             *)
(***************************************************************************)
Unroutable(n, chains) == ~IsConfigBlock(n) /\ ~(TouchedChains(fat[n + 1]) \subseteq chains)

Stuck ==
    /\ pc \in {"boot", "loop", "savepoint", "create", "panic"}
    /\ HasHeads(headDB) =>
         headDB.last + 1 < Height /\ Unroutable(headDB.last + 1, DOMAIN headDB.heads)
    /\ ~HasHeads(headDB) =>
         /\ Height >= 2 /\ Quiescent /\ Unroutable(Height - 1, ConfigOrgList)
         /\ pc = "loop" => isStart
         /\ pc \in {"savepoint", "create"} => cur = Height - 1

Clean == pc \notin {"panic", "stopped"} /\ RecordsKept

VersionInv ==
    MvccApplicable /\ crashes = 0 /\ faults = 0 =>
        StoredInOrder /\ StaleReadsExcused /\ (Clean \/ Stuck)
-----------------------------------------------------------------------------
(***************************************************************************)
(* What the check of one fat block returns (ValidateBlock).                *)
(***************************************************************************)
Statuses == {"VALID", "MVCC_READ_CONFLICT"}

(* The batch of writes of a block, by key.                                 *)
Batch == UNION {[D -> [version : Nat \X Nat, isDelete : BOOLEAN]] : D \in SUBSET Keys}

Outcome == [status : Seq(Statuses), written : Batch]

NoOutcome == [status |-> << >>, written |-> [k \in {} |-> NilVersion]]

CheckStep(vs, n, r, tx, i) ==
    LET ok == HasRWSet(tx) => ValidateReadSets(vs, r.written, tx)
    IN  [status  |-> Append(r.status, IF ok THEN "VALID" ELSE "MVCC_READ_CONFLICT"),
         written |-> IF ok /\ HasRWSet(tx) THEN ApplyWrites(r.written, tx, <<n, i - 1>>)
                     ELSE r.written]

LEMMA NoOutcomeType == NoOutcome \in Outcome
<1>1. << >> \in Seq(Statuses)
  OBVIOUS
<1>2. [k \in {} |-> NilVersion] \in [{} -> [version : Nat \X Nat, isDelete : BOOLEAN]]
  OBVIOUS
<1>3. [k \in {} |-> NilVersion] \in Batch
  BY <1>2 DEF Batch
<1> QED
  BY <1>1, <1>3 DEF NoOutcome, Outcome

LEMMA CheckStepType ==
  ASSUME NEW vs, NEW n \in Nat, NEW r \in Outcome, NEW tx \in Txns, NEW i \in Nat \ {0}
  PROVE  CheckStep(vs, n, r, tx, i) \in Outcome
<1> DEFINE R == [version : Nat \X Nat, isDelete : BOOLEAN]
           w == ApplyWrites(r.written, tx, <<n, i - 1>>)
<1>1. PICK D \in SUBSET Keys : r.written \in [D -> R]
  BY DEF Outcome, Batch
<1>2. tx.writes \subseteq Keys /\ <<n, i - 1>> \in Nat \X Nat
  BY TxnsAssumption
<1>3. w \in [D \cup tx.writes -> R]
  BY <1>1, <1>2 DEF ApplyWrites
<1>4. w \in Batch
  <2>1. D \cup tx.writes \in SUBSET Keys
    BY <1>2
  <2> HIDE DEF w
  <2> QED
    BY <1>3, <2>1 DEF Batch
<1> HIDE DEF w
<1>5. \A x \in Statuses : Append(r.status, x) \in Seq(Statuses)
  BY AppendProperties DEF Outcome
<1>6. "VALID" \in Statuses /\ "MVCC_READ_CONFLICT" \in Statuses
  BY DEF Statuses
<1>7. r.written \in Batch
  BY DEF Outcome
<1> QED
  BY <1>4, <1>5, <1>6, <1>7 DEF CheckStep, Outcome, w

LEMMA CheckDef ==
  ASSUME NEW vs, NEW n \in Nat, NEW txs \in Seq(Txns)
  PROVE  \E f \in [0 .. Len(txs) -> Outcome] :
            /\ f[0] = NoOutcome
            /\ \A i \in 1 .. Len(txs) : f[i] = CheckStep(vs, n, f[i - 1], txs[i], i)
            /\ ValidateBlock(vs, n, txs) = f[Len(txs)]
<1> DEFINE m == Len(txs)
           G == [x \in Outcome \X (1 .. m) |-> CheckStep(vs, n, x[1], txs[x[2]], x[2])]
           Def(f) == f = [i \in 0 .. m |-> IF i = 0 THEN NoOutcome
                                           ELSE CheckStep(vs, n, f[i - 1], txs[i], i)]
           g == CHOOSE f : Def(f)
<1>0. m \in Nat /\ (\A i \in 1 .. m : txs[i] \in Txns) /\ NoOutcome \in Outcome
  BY NoOutcomeType, LenProperties, ElementOfSeq
<1>1. G \in [Outcome \X (1 .. m) -> Outcome]
  <2> SUFFICES ASSUME NEW r \in Outcome, NEW i \in 1 .. m
               PROVE  CheckStep(vs, n, r, txs[i], i) \in Outcome
    OBVIOUS
  <2>1. i \in Nat \ {0} /\ txs[i] \in Txns
    BY <1>0
  <2> QED
    BY <2>1, CheckStepType
<1>2. PICK f : f \in Recursive(Outcome, NoOutcome, G, m)
  <2> HIDE DEF G, m
  <2> QED
    BY <1>0, <1>1, RecursionExists
<1>3. f \in [0 .. m -> Outcome] /\ f[0] = NoOutcome /\ \A i \in 1 .. m : f[i] = G[<<f[i - 1], i>>]
  BY <1>2 DEF Recursive
<1>4. ASSUME NEW i \in 1 .. m PROVE f[i] = CheckStep(vs, n, f[i - 1], txs[i], i)
  <2>1. f[i - 1] \in Outcome
    BY <1>0, <1>3
  <2>2. G[<<f[i - 1], i>>] = CheckStep(vs, n, f[i - 1], txs[i], i)
    BY <2>1
  <2> QED
    BY <1>3, <2>2
<1>5. Def(f)
  <2> HIDE DEF G, m
  <2>1. \A i \in 0 .. m : f[i] = IF i = 0 THEN NoOutcome
                                 ELSE CheckStep(vs, n, f[i - 1], txs[i], i)
    BY <1>0, <1>3, <1>4
  <2> QED
    BY <1>3, <2>1
<1>6. ValidateBlock(vs, n, txs) = g[m]
  BY DEF ValidateBlock, CheckStep, NoOutcome
<1>7. Def(g)
  <2> HIDE DEF Def
  <2> QED
    BY <1>5
<1>8. /\ DOMAIN g = 0 .. m /\ g[0] = NoOutcome
      /\ \A i \in 1 .. m : g[i] = CheckStep(vs, n, g[i - 1], txs[i], i)
  <2> HIDE DEF m, g
  <2> QED
    BY <1>0, <1>7
<1> HIDE DEF g
<1>9. \A i \in 0 .. m : g[i] \in Outcome
  <2> DEFINE P == {i \in Nat : i <= m => g[i] \in Outcome}
  <2> HIDE DEF m
  <2>1. 0 \in P
    BY <1>0, <1>8
  <2>2. ASSUME NEW i \in Nat, i \in P PROVE i + 1 \in P
    <3> SUFFICES ASSUME i + 1 <= m PROVE g[i + 1] \in Outcome
      OBVIOUS
    <3>1. i + 1 \in 1 .. m /\ i + 1 \in Nat \ {0} /\ (i + 1) - 1 = i /\ g[i] \in Outcome
      BY <1>0, <2>2
    <3>2. g[i + 1] = CheckStep(vs, n, g[i], txs[i + 1], i + 1) /\ txs[i + 1] \in Txns
      BY <1>0, <1>8, <3>1
    <3> QED
      BY <3>1, <3>2, CheckStepType
  <2>3. Nat \subseteq P
    <3> HIDE DEF P
    <3> QED
      BY <2>1, <2>2, SetInduction
  <2> QED
    BY <1>0, <2>3
<1>10. g \in [0 .. m -> Outcome]
  <2> HIDE DEF m
  <2>1. g = [i \in 0 .. m |-> g[i]]
    BY <1>7, <1>8
  <2> QED
    BY <1>9, <2>1
<1> HIDE DEF m
<1> QED
  BY <1>6, <1>8, <1>10 DEF m

(***************************************************************************)
(* After m transactions: an entry of the batch is that of the last valid   *)
(* writer of its key, every key a valid transaction wrote has one, and a   *)
(* valid transaction read no key that an earlier one wrote, and public     *)
(* keys in the recorded version.                                           *)
(***************************************************************************)
LastWriter(n, txs, r, m, k, i) ==
    /\ r.status[i] = "VALID" /\ k \in txs[i].writes
    /\ r.written[k] = [version |-> <<n, i - 1>>, isDelete |-> k \in txs[i].deletes]
    /\ \A j \in i + 1 .. m : r.status[j] = "VALID" => k \notin txs[j].writes

ReadsCurrent(vs, txs, r, i) ==
    \A k \in DOMAIN txs[i].reads :
        /\ \A j \in 1 .. i - 1 : r.status[j] = "VALID" => k \notin txs[j].writes
        /\ k \in PublicKeys /\ k \in DOMAIN vs => vs[k] = txs[i].reads[k]

Judged(vs, n, txs, r, m) ==
    /\ Len(r.status) = m
    /\ \A k \in DOMAIN r.written : \E i \in 1 .. m : LastWriter(n, txs, r, m, k, i)
    /\ \A i \in 1 .. m : r.status[i] = "VALID" =>
         txs[i].writes \subseteq DOMAIN r.written /\ ReadsCurrent(vs, txs, r, i)

LEMMA JudgedStep ==
  ASSUME NEW vs, NEW n \in Nat, NEW txs \in Seq(Txns), NEW m \in Nat, m + 1 <= Len(txs),
         NEW r \in Outcome, Judged(vs, n, txs, r, m)
  PROVE  Judged(vs, n, txs, CheckStep(vs, n, r, txs[m + 1], m + 1), m + 1)
<1> DEFINE tx == txs[m + 1]
           q == CheckStep(vs, n, r, tx, m + 1)
           ok == HasRWSet(tx) => ValidateReadSets(vs, r.written, tx)
           x == IF ok THEN "VALID" ELSE "MVCC_READ_CONFLICT"
<1>0. /\ tx \in Txns /\ (~HasRWSet(tx) => tx.writes = {} /\ DOMAIN tx.reads = {})
      /\ (m + 1) - 1 = m /\ r.status \in Seq(Statuses) /\ x \in Statuses /\ Len(r.status) = m
  <2>1. m + 1 \in 1 .. Len(txs)
    BY LenProperties
  <2>2. tx \in Txns
    BY <2>1, ElementOfSeq
  <2> QED
    BY <2>2, TxnsAssumption DEF Outcome, Statuses, Judged
<1>1. /\ q.status = Append(r.status, x)
      /\ q.written = IF ok /\ HasRWSet(tx) THEN ApplyWrites(r.written, tx, <<n, m>>) ELSE r.written
  BY <1>0 DEF CheckStep
<1> HIDE DEF q, tx
<1>2. /\ Len(q.status) = m + 1 /\ q.status[m + 1] = x
      /\ \A i \in 1 .. m : q.status[i] = r.status[i]
  BY <1>0, <1>1, AppendProperties
<1>3. \A i \in 1 .. m + 1 : i = m + 1 \/ i \in 1 .. m
  OBVIOUS
<1>4. CASE ok
  <2>1. x = "VALID" /\ q.status[m + 1] = "VALID"
    BY <1>2, <1>4
  <2>2. /\ DOMAIN q.written = DOMAIN r.written \cup tx.writes
        /\ \A k \in DOMAIN q.written :
             q.written[k] = IF k \in tx.writes
                            THEN [version |-> <<n, m>>, isDelete |-> k \in tx.deletes]
                            ELSE r.written[k]
    <3>1. CASE HasRWSet(tx)
      BY <1>1, <1>4, <3>1 DEF ApplyWrites
    <3>2. CASE ~HasRWSet(tx)
      BY <1>0, <1>1, <3>2
    <3> QED
      BY <3>1, <3>2
  <2>3. \A k \in DOMAIN tx.reads : k \notin DOMAIN r.written
                                   /\ (k \in PublicKeys /\ k \in DOMAIN vs => vs[k] = tx.reads[k])
    BY <1>0, <1>4 DEF ValidateReadSets, ValidateKVRead
  <2>4. ASSUME NEW k \in DOMAIN q.written
        PROVE  \E i \in 1 .. m + 1 : LastWriter(n, txs, q, m + 1, k, i)
    <3>1. CASE k \in tx.writes
      <4>1. \A j \in (m + 1) + 1 .. m + 1 : FALSE
        OBVIOUS
      <4>2. LastWriter(n, txs, q, m + 1, k, m + 1)
        BY <1>0, <2>1, <2>2, <2>4, <3>1, <4>1 DEF LastWriter, tx
      <4> QED
        BY <4>2
    <3>2. CASE k \notin tx.writes
      <4>1. k \in DOMAIN r.written /\ q.written[k] = r.written[k]
        BY <2>2, <2>4, <3>2
      <4>2. PICK i \in 1 .. m : LastWriter(n, txs, r, m, k, i)
        BY <4>1 DEF Judged
      <4>3. \A j \in i + 1 .. m + 1 : q.status[j] = "VALID" => k \notin txs[j].writes
        <5> SUFFICES ASSUME NEW j \in i + 1 .. m + 1, q.status[j] = "VALID"
                     PROVE  k \notin txs[j].writes
          OBVIOUS
        <5>1. j = m + 1 \/ (j \in i + 1 .. m /\ j \in 1 .. m)
          OBVIOUS
        <5> QED
          BY <1>2, <3>2, <4>2, <5>1 DEF LastWriter, tx
      <4>4. LastWriter(n, txs, q, m + 1, k, i)
        BY <1>2, <4>1, <4>2, <4>3 DEF LastWriter
      <4>5. i \in 1 .. m + 1
        OBVIOUS
      <4> QED
        BY <4>4, <4>5
    <3> QED
      BY <3>1, <3>2
  <2>5. ASSUME NEW i \in 1 .. m + 1, q.status[i] = "VALID"
        PROVE  txs[i].writes \subseteq DOMAIN q.written /\ ReadsCurrent(vs, txs, q, i)
    <3>1. CASE i = m + 1
      <4>1. txs[i].writes \subseteq DOMAIN q.written
        BY <2>2, <3>1 DEF tx
      <4>2. ASSUME NEW k \in DOMAIN tx.reads, NEW j \in 1 .. m, q.status[j] = "VALID"
            PROVE  k \notin txs[j].writes
        <5>1. txs[j].writes \subseteq DOMAIN r.written
          BY <1>2, <4>2 DEF Judged
        <5> QED
          BY <2>3, <5>1
      <4>3. ReadsCurrent(vs, txs, q, i)
        BY <1>0, <2>3, <3>1, <4>2 DEF ReadsCurrent, tx
      <4> QED
        BY <4>1, <4>3
    <3>2. CASE i \in 1 .. m
      <4>1. txs[i].writes \subseteq DOMAIN r.written /\ ReadsCurrent(vs, txs, r, i)
        BY <1>2, <2>5, <3>2 DEF Judged
      <4>2. \A j \in 1 .. i - 1 : j \in 1 .. m
        BY <3>2
      <4> QED
        BY <1>2, <2>2, <4>1, <4>2 DEF ReadsCurrent
    <3> QED
      BY <1>3, <3>1, <3>2
  <2> QED
    BY <1>2, <2>4, <2>5 DEF Judged, q, tx
<1>5. CASE ~ok
  <2>1. q.written = r.written /\ q.status[m + 1] # "VALID"
    BY <1>1, <1>2, <1>5
  <2>2. ASSUME NEW k \in DOMAIN q.written
        PROVE  \E i \in 1 .. m + 1 : LastWriter(n, txs, q, m + 1, k, i)
    <3>1. PICK i \in 1 .. m : LastWriter(n, txs, r, m, k, i)
      BY <2>1, <2>2 DEF Judged
    <3>2. ASSUME NEW j \in i + 1 .. m + 1, q.status[j] = "VALID"
          PROVE  k \notin txs[j].writes
      <4>1. j = m + 1 \/ (j \in i + 1 .. m /\ j \in 1 .. m)
        OBVIOUS
      <4> QED
        BY <1>2, <2>1, <3>1, <3>2, <4>1 DEF LastWriter
    <3>3. LastWriter(n, txs, q, m + 1, k, i)
      BY <1>2, <2>1, <3>1, <3>2 DEF LastWriter
    <3>4. i \in 1 .. m + 1
      OBVIOUS
    <3> QED
      BY <3>3, <3>4
  <2>3. ASSUME NEW i \in 1 .. m + 1, q.status[i] = "VALID"
        PROVE  txs[i].writes \subseteq DOMAIN q.written /\ ReadsCurrent(vs, txs, q, i)
    <3>1. i \in 1 .. m /\ r.status[i] = "VALID"
      BY <1>2, <1>3, <2>1, <2>3
    <3>2. txs[i].writes \subseteq DOMAIN r.written /\ ReadsCurrent(vs, txs, r, i)
      BY <3>1 DEF Judged
    <3>3. \A j \in 1 .. i - 1 : j \in 1 .. m
      BY <3>1
    <3> QED
      BY <1>2, <2>1, <3>2, <3>3 DEF ReadsCurrent
  <2> QED
    BY <1>2, <2>2, <2>3 DEF Judged, q, tx
<1> QED
  BY <1>4, <1>5

LEMMA CheckResult ==
  ASSUME NEW vs, NEW n \in Nat, NEW txs \in Seq(Txns)
  PROVE  /\ ValidateBlock(vs, n, txs) \in Outcome
         /\ Judged(vs, n, txs, ValidateBlock(vs, n, txs), Len(txs))
<1>0. Len(txs) \in Nat
  BY LenProperties
<1>1. PICK f \in [0 .. Len(txs) -> Outcome] :
        /\ f[0] = NoOutcome
        /\ \A i \in 1 .. Len(txs) : f[i] = CheckStep(vs, n, f[i - 1], txs[i], i)
        /\ ValidateBlock(vs, n, txs) = f[Len(txs)]
  BY CheckDef
<1> DEFINE P == {m \in Nat : m <= Len(txs) => Judged(vs, n, txs, f[m], m)}
<1>2. 0 \in P
  <2>1. Judged(vs, n, txs, NoOutcome, 0)
    BY DEF Judged, NoOutcome
  <2> QED
    BY <1>1, <2>1
<1>3. ASSUME NEW m \in Nat, m \in P PROVE m + 1 \in P
  <2> SUFFICES ASSUME m + 1 <= Len(txs) PROVE Judged(vs, n, txs, f[m + 1], m + 1)
    OBVIOUS
  <2>1. m + 1 \in 1 .. Len(txs) /\ m \in 0 .. Len(txs) /\ (m + 1) - 1 = m
    BY <1>0
  <2>2. f[m + 1] = CheckStep(vs, n, f[m], txs[m + 1], m + 1) /\ f[m] \in Outcome
    BY <1>1, <2>1
  <2>3. Judged(vs, n, txs, f[m], m)
    BY <1>0, <1>3
  <2> QED
    BY <2>2, <2>3, JudgedStep
<1>4. Nat \subseteq P
  <2> HIDE DEF P
  <2> QED
    BY <1>2, <1>3, SetInduction
<1>5. Len(txs) \in P /\ Len(txs) \in 0 .. Len(txs)
  BY <1>0, <1>4
<1> QED
  BY <1>1, <1>5

(***************************************************************************)
(* The indices a chain gets are positions of the body, and a transaction   *)
(* routed to the chain is among them.                                      *)
(***************************************************************************)
RouteStep(c, b, s, i) == IF c \in OrgList(b[i]) THEN Append(s, i) ELSE s

LEMMA TxnIdxListIs ==
  ASSUME NEW c, NEW b, Len(b) \in Nat
  PROVE  /\ TxnIdxList(c, b) \in Seq(1 .. Len(b))
         /\ \A i \in 1 .. Len(b) : c \in OrgList(b[i]) =>
              \E p \in 1 .. Len(TxnIdxList(c, b)) : TxnIdxList(c, b)[p] = i
<1> DEFINE m == Len(b)
           T == Seq(1 .. m)
           G == [x \in T \X (1 .. m) |-> RouteStep(c, b, x[1], x[2])]
           Def(f) == f = [i \in 0 .. m |-> IF i = 0 THEN << >> ELSE RouteStep(c, b, f[i - 1], i)]
           g == CHOOSE f : Def(f)
           Routed(s, i) == /\ s \in T
                           /\ \A j \in 1 .. i : c \in OrgList(b[j]) => \E p \in 1 .. Len(s) : s[p] = j
<1>0. m \in Nat /\ << >> \in T
  OBVIOUS
<1>1. \A s \in T, i \in 1 .. m : RouteStep(c, b, s, i) \in T
  BY AppendProperties DEF RouteStep
<1>2. G \in [T \X (1 .. m) -> T]
  <2> HIDE DEF T, m
  <2> QED
    BY <1>1
<1>3. PICK f : f \in Recursive(T, << >>, G, m)
  <2> HIDE DEF G, m, T
  <2> QED
    BY <1>0, <1>2, RecursionExists
<1>4. f \in [0 .. m -> T] /\ f[0] = << >> /\ \A i \in 1 .. m : f[i] = G[<<f[i - 1], i>>]
  <2> HIDE DEF G, m, T
  <2> QED
    BY <1>3 DEF Recursive
<1>5. ASSUME NEW i \in 1 .. m PROVE f[i] = RouteStep(c, b, f[i - 1], i)
  <2> HIDE DEF T
  <2>1. f[i - 1] \in T
    BY <1>0, <1>4
  <2>2. G[<<f[i - 1], i>>] = RouteStep(c, b, f[i - 1], i)
    BY <2>1
  <2> QED
    BY <1>4, <2>2
<1>6. Def(f)
  <2> HIDE DEF G, m, T
  <2>1. \A i \in 0 .. m : f[i] = IF i = 0 THEN << >> ELSE RouteStep(c, b, f[i - 1], i)
    BY <1>0, <1>4, <1>5
  <2> QED
    BY <1>4, <2>1
<1>7. TxnIdxList(c, b) = g[m]
  BY DEF TxnIdxList, RouteStep
<1>8. Def(g)
  <2> HIDE DEF Def
  <2> QED
    BY <1>6
<1>9. g[0] = << >> /\ \A i \in 1 .. m : g[i] = RouteStep(c, b, g[i - 1], i)
  <2> HIDE DEF m, g
  <2> QED
    BY <1>0, <1>8
<1> HIDE DEF g
<1> DEFINE P == {i \in Nat : i <= m => Routed(g[i], i)}
<1>10. 0 \in P
  <2>1. \A j \in 1 .. 0 : FALSE
    OBVIOUS
  <2>2. Routed(g[0], 0)
    BY <1>0, <1>9, <2>1
  <2> HIDE DEF Routed
  <2> QED
    BY <2>2
<1>11. ASSUME NEW i \in Nat, i \in P PROVE i + 1 \in P
  <2> SUFFICES ASSUME i + 1 <= m PROVE Routed(g[i + 1], i + 1)
    OBVIOUS
  <2>1. i + 1 \in 1 .. m /\ (i + 1) - 1 = i /\ Routed(g[i], i)
    BY <1>0, <1>11
  <2> DEFINE s == g[i]
             q == g[i + 1]
  <2>2. q = RouteStep(c, b, s, i + 1) /\ s \in T /\ q \in T
    BY <1>1, <1>9, <2>1
  <2>3. Len(s) \in Nat
    BY <2>2, LenProperties
  <2>4. /\ \A p \in 1 .. Len(s) : p \in 1 .. Len(q) /\ q[p] = s[p]
        /\ c \in OrgList(b[i + 1]) => \E p \in 1 .. Len(q) : q[p] = i + 1
    <3>1. CASE c \in OrgList(b[i + 1])
      <4>1. q = Append(s, i + 1)
        BY <2>2, <3>1 DEF RouteStep
      <4>2. s \in Seq(1 .. m) /\ i + 1 \in 1 .. m
        BY <2>1, <2>2
      <4> HIDE DEF m, T, q, s
      <4>3. Len(q) = Len(s) + 1 /\ q[Len(s) + 1] = i + 1 /\ \A p \in 1 .. Len(s) : q[p] = s[p]
        BY <4>1, <4>2, AppendProperties
      <4> QED
        BY <2>3, <4>3
    <3>2. CASE c \notin OrgList(b[i + 1])
      BY <2>2, <3>2 DEF RouteStep
    <3> QED
      BY <3>1, <3>2
  <2>5. ASSUME NEW j \in 1 .. i + 1, c \in OrgList(b[j])
        PROVE  \E p \in 1 .. Len(q) : q[p] = j
    <3>1. CASE j = i + 1
      BY <2>4, <2>5, <3>1
    <3>2. CASE j \in 1 .. i
      <4>1. PICK p \in 1 .. Len(s) : s[p] = j
        BY <2>1, <2>5, <3>2
      <4> HIDE DEF q, s
      <4> QED
        BY <2>4, <4>1
    <3> QED
      BY <3>1, <3>2
  <2> QED
    BY <2>2, <2>5
<1>12. Nat \subseteq P
  <2> HIDE DEF P
  <2> QED
    BY <1>10, <1>11, SetInduction
<1>13. Routed(g[m], m)
  BY <1>0, <1>12
<1> QED
  BY <1>7, <1>13

(* A transaction with a read-write set goes to some chain.                 *)
LEMMA RoutedSomewhere ==
  ASSUME NEW tx \in Txns, HasRWSet(tx)
  PROVE  \E c \in Chains : c \in OrgList(tx)
<1>1. tx.orgs \subseteq Chains /\ ChannelChain \in Chains
  BY TxnsAssumption, ChainsAssumption
<1>2. CASE tx.type = "lifecycle"
  <2>1. OrgList(tx) = ConfigOrgList
    BY <1>2 DEF OrgList
  <2> QED
    BY <1>1, <2>1 DEF ConfigOrgList
<1>3. CASE tx.type = "endorser" /\ tx.orgs # {}
  <2>1. OrgList(tx) = tx.orgs
    BY <1>3 DEF OrgList
  <2> QED
    BY <1>1, <1>3, <2>1
<1>4. CASE tx.type = "endorser" /\ tx.orgs = {}
  <2>1. OrgList(tx) = {ChannelChain}
    BY <1>4 DEF OrgList
  <2> QED
    BY <1>1, <2>1
<1> QED
  BY <1>2, <1>3, <1>4 DEF HasRWSet
-----------------------------------------------------------------------------
(***************************************************************************)
(* The marks, step by step.                                                *)
(***************************************************************************)
LEMMA PositionIn ==
  ASSUME NEW f, NEW h \in Nat, NEW t
  PROVE  t \in UNION {{n} \X (1 .. Len(f[n + 1])) : n \in 0 .. h - 1}
           <=> t \in Nat \X Nat /\ t[1] < h /\ t[2] \in 1 .. Len(f[t[1] + 1])
<1>1. ASSUME NEW n \in 0 .. h - 1, t \in {n} \X (1 .. Len(f[n + 1]))
      PROVE  t \in Nat \X Nat /\ t[1] < h /\ t[2] \in 1 .. Len(f[t[1] + 1])
  BY <1>1
<1>2. ASSUME t \in Nat \X Nat, t[1] < h, t[2] \in 1 .. Len(f[t[1] + 1])
      PROVE  t[1] \in 0 .. h - 1 /\ t \in {t[1]} \X (1 .. Len(f[t[1] + 1]))
  BY <1>2
<1> QED
  BY <1>1, <1>2

LEMMA PositionIs ==
  ASSUME NEW t, TypeOK
  PROVE  t \in Positions <=> /\ t \in Nat \X Nat /\ t[1] < Height
                             /\ t[2] \in 1 .. Len(fat[t[1] + 1])
<1>1. Height \in Nat
  BY LenProperties DEF TypeOK, Height
<1> QED
  BY <1>1, PositionIn DEF Positions

LEMMA BodyTypes ==
  ASSUME TypeOK, NEW n \in Nat, n < Height
  PROVE  fat[n + 1] \in Seq(Txns) /\ Len(fat[n + 1]) \in Nat
<1>1. n + 1 \in 1 .. Len(fat) /\ fat \in Seq(Bodies \cup {GenesisBody})
  BY LenProperties DEF TypeOK, Height
<1>2. fat[n + 1] \in Bodies \cup {GenesisBody}
  BY <1>1, ElementOfSeq
<1>3. fat[n + 1] \in Seq(Txns)
  BY <1>2, BodiesAssumption
<1> QED
  BY <1>3, LenProperties

LEMMA MarksUnchanged ==
  ASSUME fat' = fat, merkle' = merkle,
         \/ pc = "store" /\ pc' = "store" /\ cur' = cur /\ out' = out
         \/ pc # "store" /\ pc' # "store"
  PROVE  Marks' = Marks /\ \A t \in Marks : TxnAt(t)' = TxnAt(t)
<1>1. Positions' = Positions /\ \A t : TxnAt(t)' = TxnAt(t)
  BY DEF Positions, Height, TxnAt
<1>2. \A t : Marked(t)' = Marked(t)
  BY DEF Marked, MarkedIn
<1> QED
  BY <1>1, <1>2 DEF Marks

LEMMA SameMarks ==
  ASSUME Marks' = Marks, \A t \in Marks : TxnAt(t)' = TxnAt(t)
  PROVE  /\ StaleReadsExcused => StaleReadsExcused'
         /\ versions' = versions /\ RecordsKept => RecordsKept'
<1>1. StaleReadsExcused => StaleReadsExcused'
  BY DEF StaleReadsExcused
<1>2. ASSUME versions' = versions, RecordsKept PROVE RecordsKept'
  BY <1>2 DEF RecordsKept, Recorded, Deleted
<1> QED
  BY <1>1, <1>2

(* The block being created is beyond all that is marked.                   *)
LEMMA CreateMarks ==
  ASSUME IInv, StoredInOrder, CreateOrgBlocks, pc' = "store", MvccApplicable
  PROVE  LET body == fat[cur + 1]
             res  == ValidateBlock(versions, cur, body)
         IN  /\ cur \in Nat /\ cur < Height /\ body \in Seq(Txns)
             /\ \A t \in Marks : t[1] < cur
             /\ Marks \subseteq Marks'
             /\ \A t \in Marks' : t \in Marks \/ (/\ t[1] = cur /\ t[2] \in 1 .. Len(body)
                                                  /\ res.status[t[2]] = "VALID")
             /\ \A i \in 1 .. Len(body) : res.status[i] = "VALID" /\ HasRWSet(body[i])
                                            => <<cur, i>> \in Marks'
<1> DEFINE body == fat[cur + 1]
           res == ValidateBlock(versions, cur, body)
<1>0. /\ TypeOK /\ pc = "create" /\ cur \in Nat /\ Height \in Nat /\ headDB.last \in Nat
      /\ HasHeads(headDB) => headDB.last < cur
      /\ cur < Height
  <2>1. TypeOK /\ pc = "create" /\ cur \in Nat /\ Height \in Nat /\ headDB.last \in Nat
        /\ syncTo \in Nat /\ cur <= syncTo /\ syncTo < NextOut /\ Len(sparseCh) \in Nat
        /\ (HasHeads(headDB) => cur = headDB.last + 1)
    BY LenProperties DEF IInv, CreateOrgBlocks, WorkInv, TypeOK, Height
  <2> QED
    BY <2>1 DEF NextOut, InSend
<1>1. body \in Seq(Txns) /\ Len(body) \in Nat
  BY <1>0, BodyTypes
<1>2. /\ res \in Outcome /\ Len(res.status) = Len(body)
  BY <1>0, <1>1, CheckResult DEF Judged
<1>3. /\ fat' = fat /\ merkle' = merkle /\ cur' = cur
      /\ out' = [c \in TouchedChains(body) |-> MakeOrgBlock(c, cur, BaseHeader(cur), res.status)]
  BY <1>0 DEF CreateOrgBlocks, ledgerVars
<1> HIDE DEF res
<1>4. ASSUME NEW c \in TouchedChains(body)
      PROVE  /\ out'[c].data[2] = TxnIdxList(c, body)
             /\ Len(out'[c].filter) = Len(TxnIdxList(c, body))
             /\ \A p \in 1 .. Len(TxnIdxList(c, body)) :
                  /\ TxnIdxList(c, body)[p] \in 1 .. Len(body)
                  /\ out'[c].filter[p] = res.status[TxnIdxList(c, body)[p]]
  <2> DEFINE idxs == TxnIdxList(c, body)
             flt == [p \in 1 .. Len(idxs) |-> res.status[idxs[p]]]
  <2>1. idxs \in Seq(1 .. Len(body)) /\ Len(idxs) \in Nat
    BY <1>1, TxnIdxListIs, LenProperties
  <2>2. out'[c].data[2] = idxs /\ out'[c].filter = flt
    BY <1>3, <1>4 DEF MakeOrgBlock, AddMetadataFields, CreateNextBlock
  <2> HIDE DEF idxs
  <2>3. Len(flt) = Len(idxs) /\ \A p \in 1 .. Len(idxs) : flt[p] = res.status[idxs[p]]
    BY <2>1
  <2>4. \A p \in 1 .. Len(idxs) : idxs[p] \in 1 .. Len(body)
    BY <2>1, ElementOfSeq
  <2> QED
    BY <2>2, <2>3, <2>4 DEF idxs
<1>5. ASSUME NEW i, MarkedIn(out', i)
      PROVE  i \in 1 .. Len(body) /\ res.status[i] = "VALID"
  <2>1. PICK c \in DOMAIN out' : \E p \in 1 .. Len(out'[c].filter) :
          out'[c].data[2][p] = i /\ out'[c].filter[p] = "VALID"
    BY <1>5 DEF MarkedIn
  <2>2. PICK p \in 1 .. Len(out'[c].filter) :
          out'[c].data[2][p] = i /\ out'[c].filter[p] = "VALID"
    BY <2>1
  <2>3. c \in TouchedChains(body)
    BY <1>3
  <2> QED
    BY <1>4, <2>2, <2>3
<1>6. ASSUME NEW i \in 1 .. Len(body), res.status[i] = "VALID", HasRWSet(body[i])
      PROVE  MarkedIn(out', i)
  <2>1. body[i] \in Txns
    BY <1>1, <1>6, ElementOfSeq
  <2>2. PICK c \in Chains : c \in OrgList(body[i])
    BY <1>6, <2>1, RoutedSomewhere
  <2>3. c \in TouchedChains(body)
    BY <1>6, <2>2 DEF TouchedChains
  <2>4. PICK p \in 1 .. Len(TxnIdxList(c, body)) : TxnIdxList(c, body)[p] = i
    BY <1>1, <1>6, <2>2, TxnIdxListIs
  <2>5. c \in DOMAIN out' /\ p \in 1 .. Len(out'[c].filter)
        /\ out'[c].data[2][p] = i /\ out'[c].filter[p] = "VALID"
    BY <1>3, <1>4, <1>6, <2>3, <2>4
  <2> QED
    BY <2>5 DEF MarkedIn
<1>7. Positions' = Positions /\ \A t : TxnAt(t)' = TxnAt(t)
  BY <1>3 DEF Positions, Height, TxnAt
<1>8. \A t : Marked(t)' <=> \/ t[1] \in DOMAIN merkle /\ MarkedIn(merkle[t[1]], t[2])
                            \/ t[1] = cur /\ MarkedIn(out', t[2])
  BY <1>3 DEF Marked, MarkedIn
<1>9. \A t : Marked(t) <=> t[1] \in DOMAIN merkle /\ MarkedIn(merkle[t[1]], t[2])
  BY <1>0 DEF Marked
<1>10. ASSUME NEW t \in Marks PROVE t[1] < cur
  <2>1. t[1] \in DOMAIN merkle /\ t[1] \in Nat
    BY <1>0, <1>9, <1>10, PositionIs DEF Marks
  <2> QED
    BY <1>0, <2>1 DEF StoredInOrder
<1>11. Marks \subseteq Marks'
  BY <1>7, <1>8, <1>9 DEF Marks
<1>12. ASSUME NEW t \in Marks'
       PROVE  t \in Marks \/ (t[1] = cur /\ t[2] \in 1 .. Len(body) /\ res.status[t[2]] = "VALID")
  BY <1>5, <1>7, <1>8, <1>9, <1>12 DEF Marks
<1>13. ASSUME NEW i \in 1 .. Len(body), res.status[i] = "VALID", HasRWSet(body[i])
       PROVE  <<cur, i>> \in Marks'
  <2> SUFFICES ASSUME NEW t, t = <<cur, i>> PROVE t \in Marks'
    OBVIOUS
  <2>1. t \in Positions
    BY <1>0, <1>1, PositionIs
  <2>2. t[1] = cur /\ MarkedIn(out', t[2])
    BY <1>6, <1>13
  <2>3. Marked(t)'
    BY <1>8, <2>2
  <2> QED
    BY <1>7, <2>1, <2>3 DEF Marks
<1> QED
  BY <1>0, <1>1, <1>10, <1>11, <1>12, <1>13 DEF res

(* The batch of a block, applied to the recorded versions.                 *)
LEMMA BatchApplied ==
  ASSUME NEW vs, NEW w, NEW k
  PROVE  /\ k \notin DOMAIN w => /\ k \in DOMAIN ApplyBatch(vs, w) <=> k \in DOMAIN vs
                                 /\ k \in DOMAIN vs => ApplyBatch(vs, w)[k] = vs[k]
         /\ k \in DOMAIN w /\ ~w[k].isDelete => /\ k \in DOMAIN ApplyBatch(vs, w)
                                                /\ ApplyBatch(vs, w)[k] = w[k].version
  BY DEF ApplyBatch

(* A block that is cut keeps both: the versions recorded for what is       *)
(* marked, and the excuses of stale reads.                                 *)
LEMMA CreateKeepsRecords ==
  ASSUME IInv, StoredInOrder, StaleReadsExcused, RecordsKept,
         CreateOrgBlocks, pc' = "store", MvccApplicable
  PROVE  RecordsKept' /\ StaleReadsExcused'
<1> DEFINE body == fat[cur + 1]
           res == ValidateBlock(versions, cur, body)
<1>1. /\ cur \in Nat /\ cur < Height /\ body \in Seq(Txns) /\ Len(body) \in Nat
      /\ \A t \in Marks : t[1] < cur
      /\ Marks \subseteq Marks'
      /\ \A t \in Marks' : t \in Marks \/ (/\ t[1] = cur /\ t[2] \in 1 .. Len(body)
                                           /\ res.status[t[2]] = "VALID")
      /\ \A i \in 1 .. Len(body) : res.status[i] = "VALID" /\ HasRWSet(body[i])
                                     => <<cur, i>> \in Marks'
  BY CreateMarks, LenProperties
<1>2. res \in Outcome /\ Judged(versions, cur, body, res, Len(body))
  BY <1>1, CheckResult
<1>3. versions' = ApplyBatch(versions, res.written) /\ fat' = fat
  BY DEF CreateOrgBlocks, ledgerVars
<1> HIDE DEF res
<1>4. \A t : TxnAt(t)' = TxnAt(t)
  BY <1>3 DEF TxnAt
<1>5. ASSUME NEW t \in Marks, TypeOK PROVE t[1] \in Nat /\ t[2] \in Nat
  BY <1>5, PositionIs DEF Marks
<1>6. TypeOK
  BY DEF IInv
<1>7. \A i \in 1 .. Len(body) : TxnAt(<<cur, i>>) = body[i]
  BY DEF TxnAt
<1>8. \A t : t[1] = cur => TxnAt(t) = body[t[2]]
  BY DEF TxnAt
<1> HIDE DEF body
<1>9. ASSUME NEW i \in 1 .. Len(body), NEW k \in body[i].writes
      PROVE  HasRWSet(body[i])
  <2>1. body[i] \in Txns
    BY <1>1, ElementOfSeq
  <2> QED
    BY <1>9, <2>1, TxnsAssumption
<1>10. ASSUME NEW t \in Marks', NEW k \in TxnAt(t).writes \ TxnAt(t).deletes
       PROVE  Recorded(t, k)' \/ Deleted(t, k)'
  <2>1. CASE k \in DOMAIN res.written
    <3>1. PICK i \in 1 .. Len(body) : LastWriter(cur, body, res, Len(body), k, i)
      BY <1>2, <2>1 DEF Judged
    <3>2. /\ res.status[i] = "VALID" /\ k \in body[i].writes /\ i \in Nat
          /\ res.written[k] = [version |-> <<cur, i - 1>>, isDelete |-> k \in body[i].deletes]
          /\ \A j \in i + 1 .. Len(body) : res.status[j] = "VALID" => k \notin body[j].writes
      BY <3>1 DEF LastWriter
    <3>3. \/ t[1] \in Nat /\ t[1] < cur
          \/ t[1] = cur /\ t[2] \in Nat /\ t[2] <= i /\ (t[2] = i => k \notin body[i].deletes)
      <4>1. CASE t \in Marks
        BY <1>1, <1>5, <1>6, <4>1
      <4>2. CASE t[1] = cur /\ t[2] \in 1 .. Len(body) /\ res.status[t[2]] = "VALID"
        <5>1. k \in body[t[2]].writes /\ k \notin body[t[2]].deletes
          BY <1>8, <1>10, <4>2
        <5>2. t[2] \notin i + 1 .. Len(body)
          BY <3>2, <4>2, <5>1
        <5> QED
          BY <1>1, <3>2, <4>2, <5>1, <5>2
      <4> QED
        BY <1>1, <4>1, <4>2
    <3>4. CASE k \in body[i].deletes
      <4>1. <<cur, i>> \in Marks'
        BY <1>1, <1>9, <3>2
      <4>2. Before(t, <<cur, i>>)
        BY <3>2, <3>3, <3>4 DEF Before
      <4>3. k \in TxnAt(<<cur, i>>).deletes
        BY <1>7, <3>4
      <4>4. \E d \in Marks' : Before(t, d) /\ k \in TxnAt(d).deletes
        BY <4>1, <4>2, <4>3
      <4>5. \E d \in Marks' : Before(t, d) /\ k \in TxnAt(d)'.deletes
        BY <1>4, <4>4
      <4> QED
        BY <4>5 DEF Deleted
    <3>5. CASE k \notin body[i].deletes
      <4>0. res.written[k].version = <<cur, i - 1>> /\ ~res.written[k].isDelete
        <5>1. (k \in body[i].deletes) = FALSE
          BY <3>5
        <5>2. res.written[k] = [version |-> <<cur, i - 1>>, isDelete |-> FALSE]
          BY <3>2, <5>1, Zenon
        <5>3. res.written[k].version = <<cur, i - 1>>
          BY <5>2
        <5>4. ~res.written[k].isDelete
          BY <5>2
        <5> QED
          BY <5>3, <5>4
      <4>1. k \in DOMAIN versions' /\ versions'[k] = <<cur, i - 1>>
        BY <1>3, <2>1, <4>0, BatchApplied
      <4>2. versions'[k] \in Nat \X Nat /\ versions'[k][1] = cur /\ versions'[k][2] = i - 1
        BY <1>1, <3>2, <4>1
      <4>3. cur > t[1] \/ (cur = t[1] /\ i - 1 >= t[2] - 1)
        BY <1>1, <3>2, <3>3
      <4> QED
        BY <4>1, <4>2, <4>3 DEF Recorded
    <3> QED
      BY <3>4, <3>5
  <2>2. CASE k \notin DOMAIN res.written
    <3>1. t \in Marks
      <4>1. ASSUME t[1] = cur, t[2] \in 1 .. Len(body), res.status[t[2]] = "VALID" PROVE FALSE
        <5>1. body[t[2]].writes \subseteq DOMAIN res.written
          BY <1>2, <4>1 DEF Judged
        <5> QED
          BY <1>8, <1>10, <2>2, <4>1, <5>1
      <4> QED
        BY <1>1, <4>1
    <3>2. CASE Recorded(t, k)
      <4>1. k \in DOMAIN versions' /\ versions'[k] = versions[k]
        BY <1>3, <2>2, <3>2, BatchApplied DEF Recorded
      <4> QED
        BY <3>2, <4>1 DEF Recorded
    <3>3. CASE Deleted(t, k)
      BY <1>1, <1>4, <3>3 DEF Deleted
    <3> QED
      BY <1>10, <3>1, <3>2, <3>3 DEF RecordsKept
  <2> QED
    BY <2>1, <2>2
<1>11. RecordsKept'
  BY <1>4, <1>10 DEF RecordsKept
<1>12. ASSUME NEW t \in Marks', NEW u \in Marks', NEW k \in DOMAIN TxnAt(u).reads \cap PublicKeys,
              NEW v, v = TxnAt(u).reads[k],
              Before(t, u), v = NilVersion \/ v[1] < t[1],
              k \in TxnAt(t).writes \ TxnAt(t).deletes
       PROVE  \E d \in Marks' : Before(t, d) /\ Before(d, u) /\ k \in TxnAt(d).deletes
  <2>1. CASE u \in Marks
    <3>1. t \in Marks
      <4>1. u[1] \in Nat /\ u[1] < cur /\ (t[1] < u[1] \/ t[1] = u[1])
        BY <1>1, <1>5, <1>6, <1>12, <2>1 DEF Before
      <4>2. t[1] # cur
        BY <1>1, <4>1
      <4> QED
        BY <1>1, <4>2
    <3>2. \E d \in Marks : Before(t, d) /\ Before(d, u) /\ k \in TxnAt(d).deletes
      BY <1>12, <2>1, <3>1 DEF StaleReadsExcused
    <3> QED
      BY <1>1, <3>2
  <2>2. CASE u[1] = cur /\ u[2] \in 1 .. Len(body) /\ res.status[u[2]] = "VALID"
    <3>1. /\ k \in DOMAIN body[u[2]].reads /\ v = body[u[2]].reads[k] /\ k \in PublicKeys
          /\ \A j \in 1 .. u[2] - 1 : res.status[j] = "VALID" => k \notin body[j].writes
          /\ k \in DOMAIN versions => versions[k] = v
      <4>1. ReadsCurrent(versions, body, res, u[2])
        BY <1>2, <2>2 DEF Judged
      <4>2. k \in DOMAIN body[u[2]].reads /\ v = body[u[2]].reads[k] /\ k \in PublicKeys
        BY <1>8, <1>12, <2>2
      <4> QED
        BY <4>1, <4>2 DEF ReadsCurrent
    <3>2. CASE t \in Marks
      <4>1. t[1] \in Nat /\ t[1] < cur
        BY <1>1, <1>5, <1>6, <3>2
      <4>2. ~Recorded(t, k)
        <5> SUFFICES ASSUME Recorded(t, k) PROVE FALSE
          OBVIOUS
        <5>1. v \in Nat \X Nat /\ v[1] >= t[1]
          BY <3>1, <4>1 DEF Recorded
        <5>2. v # << >>
          BY <5>1
        <5> QED
          BY <1>12, <4>1, <5>1, <5>2 DEF NilVersion
      <4>3. Deleted(t, k)
        BY <1>12, <3>2, <4>2 DEF RecordsKept
      <4>4. PICK d \in Marks : Before(t, d) /\ k \in TxnAt(d).deletes
        BY <4>3 DEF Deleted
      <4>5. Before(d, u)
        BY <1>1, <2>2, <4>4 DEF Before
      <4> QED
        BY <1>1, <4>4, <4>5
    <3>3. CASE t[1] = cur /\ t[2] \in 1 .. Len(body) /\ res.status[t[2]] = "VALID"
      <4>1. t[2] \in 1 .. u[2] - 1
        BY <1>1, <1>12, <2>2, <3>3 DEF Before
      <4>2. k \in body[t[2]].writes
        BY <1>8, <1>12, <3>3
      <4> QED
        BY <3>1, <3>3, <4>1, <4>2
    <3> QED
      BY <1>1, <3>2, <3>3
  <2> QED
    BY <1>1, <2>1, <2>2
<1>13. StaleReadsExcused'
  <2> SUFFICES ASSUME NEW t \in Marks', NEW u \in Marks',
                      NEW k \in DOMAIN TxnAt(u)'.reads \cap PublicKeys,
                      Before(t, u),
                      TxnAt(u)'.reads[k] = NilVersion \/ TxnAt(u)'.reads[k][1] < t[1],
                      k \in TxnAt(t)'.writes \ TxnAt(t)'.deletes
               PROVE  \E d \in Marks' : Before(t, d) /\ Before(d, u) /\ k \in TxnAt(d)'.deletes
    BY DEF StaleReadsExcused
  <2>1. \E d \in Marks' : Before(t, d) /\ Before(d, u) /\ k \in TxnAt(d).deletes
    BY <1>4, <1>12
  <2> QED
    BY <1>4, <2>1
<1> QED
  BY <1>11, <1>13

(* An appended block is not marked.                                        *)
LEMMA AppendMarks ==
  ASSUME IInv, StoredInOrder, NEW b \in Bodies \cup {GenesisBody}, AddBlock(b)
  PROVE  Marks' = Marks /\ \A t \in Marks : TxnAt(t)' = TxnAt(t)
<1>1. /\ TypeOK /\ fat \in Seq(Bodies \cup {GenesisBody}) /\ Height \in Nat /\ Len(fat) = Height
      /\ fat' = Append(fat, b)
      /\ UNCHANGED <<merkle, pc, cur, out>>
  BY LenProperties DEF IInv, TypeOK, Height, AddBlock, storeVars, procVars
<1>3. Height' = Height + 1 /\ \A n \in Nat : n < Height => fat'[n + 1] = fat[n + 1]
  <2>1. /\ Len(fat') = Len(fat) + 1
        /\ \A i \in 1 .. Len(fat) : fat'[i] = fat[i]
    BY <1>1, AppendProperties
  <2> QED
    BY <1>1, <2>1 DEF Height
<1>4. \A t : Marked(t)' = Marked(t)
  BY <1>1 DEF Marked, MarkedIn
<1>5. ASSUME NEW t, Marked(t), t[1] \in Nat PROVE t[1] < Height
  <2>1. /\ headDB.last \in Nat /\ (HasHeads(headDB) => headDB.last < Height)
        /\ cur \in Nat /\ (pc \in {"store", "publish", "save"} => cur < Height)
    <3>1. /\ cur \in Nat /\ syncTo \in Nat /\ Len(sparseCh) \in Nat /\ headDB.last \in Nat
          /\ (HasHeads(headDB) => headDB.last < Height)
          /\ (pc \in {"store", "publish", "save"} => cur <= syncTo /\ syncTo < NextOut)
      BY LenProperties DEF IInv, TypeOK, Anchored, StoreInv
    <3> QED
      BY <1>1, <3>1 DEF NextOut, InSend
  <2> QED
    BY <1>1, <1>5, <2>1 DEF Marked, StoredInOrder
<1>6. ASSUME NEW t, Marked(t)
      PROVE  t \in Positions' <=> t \in Positions
  <2>1. t \in Positions <=> /\ t \in Nat \X Nat /\ t[1] < Height
                            /\ t[2] \in 1 .. Len(fat[t[1] + 1])
    BY <1>1, PositionIs
  <2>2. t \in Positions' <=> /\ t \in Nat \X Nat /\ t[1] < Height'
                             /\ t[2] \in 1 .. Len(fat'[t[1] + 1])
    <3>1. Height' \in Nat
      BY <1>1, <1>3
    <3>2. Positions' = UNION {{n} \X (1 .. Len(fat'[n + 1])) : n \in 0 .. Height' - 1}
      BY DEF Positions
    <3> QED
      BY <3>1, <3>2, PositionIn
  <2>3. t \in Nat \X Nat => t[1] < Height /\ t[1] < Height' /\ fat'[t[1] + 1] = fat[t[1] + 1]
    BY <1>1, <1>3, <1>5, <1>6
  <2> QED
    BY <2>1, <2>2, <2>3
<1>7. Marks' = Marks
  BY <1>4, <1>6 DEF Marks
<1>8. ASSUME NEW t \in Marks PROVE TxnAt(t)' = TxnAt(t)
  <2>1. t[1] \in Nat /\ t[1] < Height
    BY <1>1, <1>8, PositionIs DEF Marks
  <2> QED
    BY <1>3, <2>1 DEF TxnAt
<1> QED
  BY <1>7, <1>8

(* Storing the details of a block moves its marks to the store.            *)
LEMMA StoreMarks ==
  ASSUME IInv, StoredInOrder, AppendOrgMerkleInfo
  PROVE  Marks' = Marks /\ \A t \in Marks : TxnAt(t)' = TxnAt(t)
<1>1. /\ pc = "store" /\ pc' = "publish" /\ fat' = fat
      /\ merkle' = Put(merkle, cur, [c \in DOMAIN out |-> Details(out[c])])
  BY DEF AppendOrgMerkleInfo, ledgerVars
<1>2. cur \notin DOMAIN merkle
  <2>1. cur \in Nat /\ headDB.last \in Nat /\ (HasHeads(headDB) => headDB.last < cur)
    BY <1>1 DEF IInv, TypeOK, StoreInv
  <2> QED
    BY <1>1, <2>1 DEF StoredInOrder
<1> DEFINE r == [c \in DOMAIN out |-> Details(out[c])]
<1>3. \A i : MarkedIn(r, i) <=> MarkedIn(out, i)
  <2>1. DOMAIN r = DOMAIN out /\ \A c \in DOMAIN out : r[c].filter = out[c].filter /\ r[c].data = out[c].data
    BY DEF Details
  <2> HIDE DEF r
  <2> QED
    BY <2>1 DEF MarkedIn
<1> HIDE DEF r
<1>4. /\ DOMAIN merkle' = DOMAIN merkle \cup {cur}
      /\ \A n \in DOMAIN merkle' : merkle'[n] = IF n = cur THEN r ELSE merkle[n]
  BY <1>1 DEF Put, r
<1>5. ASSUME NEW t PROVE Marked(t)' <=> Marked(t)
  <2>1. Marked(t)' <=> t[1] \in DOMAIN merkle' /\ MarkedIn(merkle'[t[1]], t[2])
    BY <1>1 DEF Marked, MarkedIn
  <2>2. CASE t[1] = cur
    BY <1>1, <1>2, <1>3, <1>4, <2>1, <2>2 DEF Marked
  <2>3. CASE t[1] # cur
    BY <1>4, <2>1, <2>3 DEF Marked
  <2> QED
    BY <2>2, <2>3
<1>6. Positions' = Positions /\ \A t : TxnAt(t)' = TxnAt(t)
  BY <1>1 DEF Positions, Height, TxnAt
<1> QED
  BY <1>5, <1>6 DEF Marks

(* Failed writes and crashes are counted; a panic is restarted uncounted.  *)
LEMMA Uncounted ==
  ASSUME TypeOK, [Next]_vars, crashes' = 0, faults' = 0
  PROVE  /\ crashes = 0 /\ faults = 0
         /\ ~StoreFailure /\ ~CreateFailure
         /\ Restart => pc = "panic"
<1>1. crashes \in Nat /\ faults \in Nat
  BY ParametersAssumption DEF TypeOK
<1>2. ~StoreFailure /\ ~CreateFailure
  BY <1>1 DEF StoreFailure, CreateFailure
<1>3. Restart => pc = "panic"
  BY <1>1 DEF Restart
<1>4. faults' = faults
  BY <1>2 DEF Next, vars, boundVars, AddBlock, SendBlock, Processor, StartProcessor, ReadStartBlock,
     ReceiveBlock, AppendSavePoint, CreateOrgBlocks, StoreOrgBlock, AppendOrgMerkleInfo,
     PublishHeads, SaveChannelHeadInfo, Evict, Restart
<1>5. crashes' = crashes
  BY <1>2, <1>3 DEF Next, vars, boundVars, AddBlock, SendBlock, Processor, StartProcessor,
     ReadStartBlock, ReceiveBlock, AppendSavePoint, CreateOrgBlocks, StoreOrgBlock,
     AppendOrgMerkleInfo, PublishHeads, SaveChannelHeadInfo, Evict, Restart
<1> QED
  BY <1>2, <1>3, <1>4, <1>5

(* Steps that neither cut a block nor write its details or the heads.      *)
QuietSteps ==
    \/ SendBlock \/ StartProcessor \/ ReadStartBlock \/ ReceiveBlock \/ AppendSavePoint
    \/ (\E c \in Chains : StoreOrgBlock(c)) \/ PublishHeads
    \/ (\E e \in DOMAIN cache : Evict(e))
    \/ (Restart /\ pc = "panic")
    \/ UNCHANGED vars

LEMMA QuietFrame ==
  ASSUME QuietSteps
  PROVE  /\ UNCHANGED <<fat, merkle, versions, headDB>>
         /\ \/ pc = "store" /\ pc' = "store" /\ cur' = cur /\ out' = out
            \/ pc # "store" /\ pc' # "store"
         /\ pc \in {"publish", "save"} => pc' \in {"publish", "save"} /\ cur' = cur
         /\ pc \notin {"panic", "stopped"} => pc' \notin {"panic", "stopped"}
<1> USE DEF ledgerVars, storeVars, procVars
<1>1. CASE SendBlock
  BY <1>1 DEF SendBlock
<1>2. CASE StartProcessor
  BY <1>2 DEF StartProcessor
<1>3. CASE ReadStartBlock
  BY <1>3 DEF ReadStartBlock
<1>4. CASE ReceiveBlock
  BY <1>4 DEF ReceiveBlock
<1>5. CASE AppendSavePoint
  BY <1>5 DEF AppendSavePoint
<1>6. CASE \E c \in Chains : StoreOrgBlock(c)
  BY <1>6 DEF StoreOrgBlock
<1>7. CASE PublishHeads
  BY <1>7 DEF PublishHeads
<1>8. CASE \E e \in DOMAIN cache : Evict(e)
  BY <1>8 DEF Evict
<1>9. CASE Restart /\ pc = "panic"
  BY <1>9 DEF Restart
<1>10. CASE UNCHANGED vars
  BY <1>10 DEF vars
<1> QED
  BY <1>1, <1>2, <1>3, <1>4, <1>5, <1>6, <1>7, <1>8, <1>9, <1>10 DEF QuietSteps

(* A block without a chain to go to stays the next one.                    *)
LEMMA QuietStuck ==
  ASSUME IInv, Stuck, QuietSteps
  PROVE  Stuck'
<1>1. fat' = fat /\ headDB' = headDB /\ Height' = Height
  BY QuietFrame DEF Height
<1>2. \A n, S : Unroutable(n, S)' = Unroutable(n, S)
  BY <1>1 DEF Unroutable, IsConfigBlock
<1>3. pc' \in {"boot", "loop", "savepoint", "create", "panic"}
  BY DEF Stuck, QuietSteps, SendBlock, StartProcessor, ReadStartBlock, ReceiveBlock,
     AppendSavePoint, StoreOrgBlock, PublishHeads, Evict, Restart, procVars, vars
<1>4. CASE HasHeads(headDB)
  <2>1. HasHeads(headDB)'
    BY <1>1, <1>4 DEF HasHeads
  <2> QED
    BY <1>1, <1>2, <1>3, <1>4, <2>1 DEF Stuck
<1>5. CASE ~HasHeads(headDB)
  <2>0. ~HasHeads(headDB)'
    BY <1>1, <1>5 DEF HasHeads
  <2>1. Height >= 2 /\ Quiescent /\ Unroutable(Height - 1, ConfigOrgList)
        /\ (pc = "loop" => isStart) /\ (pc \in {"savepoint", "create"} => cur = Height - 1)
    BY <1>5 DEF Stuck
  <2>2. (pc = "loop" /\ isStart => cur = Height - 1)
    BY DEF IInv, LoopInv
  <2>3. ~SendBlock /\ ~ReceiveBlock
    BY <2>1 DEF SendBlock, ReceiveBlock, Quiescent
  <2>4. Quiescent' /\ (pc' = "loop" => isStart') /\ (pc' \in {"savepoint", "create"} => cur' = cur)
        /\ (pc' \in {"savepoint", "create"} => (pc = "loop" /\ isStart) \/ pc \in {"savepoint", "create"})
    <3> USE DEF ledgerVars, storeVars, procVars, Quiescent
    <3>2. CASE StartProcessor
      BY <1>5, <2>1, <3>2 DEF StartProcessor
    <3>3. CASE ReadStartBlock
      BY <2>1, <3>3 DEF ReadStartBlock
    <3>5. CASE AppendSavePoint
      BY <2>1, <3>5 DEF AppendSavePoint
    <3>6. CASE \E c \in Chains : StoreOrgBlock(c)
      BY <2>1, <3>6 DEF StoreOrgBlock
    <3>7. CASE PublishHeads
      BY <2>1, <3>7 DEF PublishHeads
    <3>8. CASE \E e \in DOMAIN cache : Evict(e)
      BY <2>1, <3>8 DEF Evict
    <3>9. CASE Restart /\ pc = "panic"
      BY <2>1, <3>9 DEF Restart
    <3>10. CASE UNCHANGED vars
      BY <2>1, <3>10 DEF vars
    <3> QED
      BY <2>3, <3>2, <3>3, <3>5, <3>6, <3>7, <3>8, <3>9, <3>10 DEF QuietSteps
  <2> QED
    BY <1>1, <1>2, <1>3, <2>0, <2>1, <2>2, <2>4 DEF Stuck
<1> QED
  BY <1>4, <1>5

LEMMA QuietVersions ==
  ASSUME IInv, StoredInOrder, StaleReadsExcused, Clean \/ Stuck, QuietSteps
  PROVE  StoredInOrder' /\ StaleReadsExcused' /\ (Clean' \/ Stuck')
<1>1. /\ UNCHANGED <<fat, merkle, versions, headDB>>
      /\ \/ pc = "store" /\ pc' = "store" /\ cur' = cur /\ out' = out
         \/ pc # "store" /\ pc' # "store"
      /\ pc \in {"publish", "save"} => pc' \in {"publish", "save"} /\ cur' = cur
      /\ pc \notin {"panic", "stopped"} => pc' \notin {"panic", "stopped"}
  BY QuietFrame
<1>2. Marks' = Marks /\ \A t \in Marks : TxnAt(t)' = TxnAt(t)
  BY <1>1, MarksUnchanged
<1>3. StaleReadsExcused' /\ (RecordsKept => RecordsKept')
  BY <1>1, <1>2, SameMarks
<1>4. StoredInOrder'
  BY <1>1 DEF StoredInOrder, HasHeads
<1>5. Clean => Clean'
  BY <1>1, <1>3 DEF Clean
<1> QED
  BY <1>3, <1>4, <1>5, QuietStuck

LEMMA AppendVersions ==
  ASSUME QuietSwitch, IInv, StoredInOrder, StaleReadsExcused, Clean \/ Stuck,
         NEW b \in Bodies \cup {GenesisBody}, AddBlock(b)
  PROVE  StoredInOrder' /\ StaleReadsExcused' /\ (Clean' \/ Stuck')
<1>1. UNCHANGED <<headDB, merkle, versions, pc, cur, isStart>> /\ fat' = Append(fat, b)
  BY DEF AddBlock, storeVars, procVars
<1>2. Marks' = Marks /\ \A t \in Marks : TxnAt(t)' = TxnAt(t)
  BY AppendMarks
<1>3. StaleReadsExcused' /\ (RecordsKept => RecordsKept')
  BY <1>1, <1>2, SameMarks
<1>4. StoredInOrder'
  BY <1>1 DEF StoredInOrder, HasHeads
<1>5. Clean => Clean'
  BY <1>1, <1>3 DEF Clean
<1>6. ASSUME Stuck PROVE Stuck'
  <2>1. HasHeads(headDB)
    BY <1>6 DEF Stuck, AddBlock, MayAppend
  <2>2. /\ headDB.last + 1 < Height /\ Unroutable(headDB.last + 1, DOMAIN headDB.heads)
        /\ pc \in {"boot", "loop", "savepoint", "create", "panic"}
        /\ headDB.last \in Nat /\ Height \in Nat /\ fat \in Seq(Bodies \cup {GenesisBody})
    BY <1>6, <2>1, LenProperties DEF Stuck, IInv, TypeOK, Height
  <2>3. Height' = Height + 1 /\ \A i \in 1 .. Height : fat'[i] = fat[i]
    BY <1>1, <2>2, AppendProperties DEF Height
  <2> DEFINE n == headDB.last + 1
  <2>4. n + 1 \in 1 .. Height /\ n < Height'
    BY <2>2, <2>3
  <2> HIDE DEF n
  <2>5. fat'[n + 1] = fat[n + 1]
    BY <2>3, <2>4
  <2>6. Unroutable(n, DOMAIN headDB.heads) => Unroutable(n, DOMAIN headDB.heads)'
    <3>1. n' = n
      BY <1>1 DEF n
    <3> QED
      BY <1>1, <2>5, <3>1 DEF Unroutable, IsConfigBlock
  <2>7. HasHeads(headDB)'
    BY <1>1, <2>1 DEF HasHeads
  <2> QED
    BY <1>1, <2>2, <2>4, <2>6, <2>7 DEF Stuck, n
<1> QED
  BY <1>3, <1>4, <1>5, <1>6

(* The block being cut panics exactly when the processor is stuck.         *)
LEMMA CreateVersions ==
  ASSUME IInv, StoredInOrder, StaleReadsExcused, Clean \/ Stuck, MvccApplicable, CreateOrgBlocks
  PROVE  StoredInOrder' /\ StaleReadsExcused' /\ (Clean' \/ Stuck')
<1>0. /\ TypeOK /\ LedgerInv /\ pc = "create" /\ chHeader = headDB
      /\ cur \in Nat /\ Height \in Nat /\ headDB.last \in Nat
      /\ HasHeads(headDB) => cur = headDB.last + 1
      /\ ~HasHeads(headDB) /\ cur # 0 => Quiescent /\ cur = Height - 1
      /\ cur < Height
  <2>1. /\ TypeOK /\ LedgerInv /\ pc = "create" /\ chHeader = headDB
        /\ cur \in Nat /\ Height \in Nat /\ headDB.last \in Nat
        /\ syncTo \in Nat /\ cur <= syncTo /\ syncTo < NextOut /\ Len(sparseCh) \in Nat
        /\ HasHeads(headDB) => cur = headDB.last + 1
        /\ ~HasHeads(headDB) /\ cur # 0 => Quiescent /\ cur = Height - 1
    BY LenProperties DEF IInv, CreateOrgBlocks, WorkInv, AtRest, TypeOK, Height
  <2> QED
    BY <2>1 DEF NextOut, InSend
<1>1. /\ UNCHANGED <<fat, sending, sparseCh, headDB, merkle, cur>> /\ Height' = Height
      /\ pc' \in {"store", "panic"}
  BY DEF CreateOrgBlocks, ledgerVars, Height
<1>2. StoredInOrder'
  BY <1>0, <1>1 DEF StoredInOrder, HasHeads
<1>3. /\ HasHeads(headDB) => DOMAIN BaseHeader(cur).heads = DOMAIN headDB.heads
      /\ ~HasHeads(headDB) /\ cur # 0 => DOMAIN BaseHeader(cur).heads = ConfigOrgList
  BY <1>0 DEF BaseHeader
<1>4. pc' = "panic" <=> Unroutable(cur, DOMAIN BaseHeader(cur).heads)
  BY DEF CreateOrgBlocks, Unroutable
<1>5. ~HasHeads(headDB) /\ cur = 0 => pc' = "store"
  <2>1. IsConfigBlock(0)
    BY <1>0, GenesisBlock
  <2> QED
    BY <1>1, <1>4, <2>1 DEF Unroutable
<1>6. CASE pc' = "store"
  <2>1. ~Stuck
    <3>1. CASE HasHeads(headDB)
      BY <1>0, <1>3, <1>4, <1>6, <3>1 DEF Stuck
    <3>2. CASE ~HasHeads(headDB)
      <4>1. ASSUME Stuck PROVE cur = Height - 1 /\ cur # 0 /\ Unroutable(Height - 1, ConfigOrgList)
        BY <1>0, <3>2, <4>1 DEF Stuck
      <4> QED
        BY <1>3, <1>4, <1>6, <3>2, <4>1
    <3> QED
      BY <3>1, <3>2
  <2>2. Clean
    BY <2>1
  <2>3. RecordsKept' /\ StaleReadsExcused'
    BY <1>6, <2>2, CreateKeepsRecords DEF Clean
  <2> QED
    BY <1>2, <1>6, <2>3 DEF Clean
<1>7. CASE pc' = "panic"
  <2>1. StaleReadsExcused'
    BY <1>0, <1>1, <1>7, MarksUnchanged, SameMarks
  <2>2. \A S : Unroutable(cur, S)' <=> Unroutable(cur, S)
    BY <1>1 DEF Unroutable, IsConfigBlock
  <2>3. CASE HasHeads(headDB)
    <3>1. Unroutable(cur, DOMAIN headDB.heads)' /\ HasHeads(headDB)'
      BY <1>1, <1>3, <1>4, <1>7, <2>3 DEF Unroutable, IsConfigBlock, HasHeads
    <3>2. headDB'.last + 1 = cur' /\ cur' < Height'
      BY <1>0, <1>1, <2>3
    <3>3. Stuck'
      BY <1>7, <3>1, <3>2 DEF Stuck
    <3> QED
      BY <1>2, <2>1, <3>3
  <2>4. CASE ~HasHeads(headDB)
    <3>1. cur # 0 /\ Quiescent /\ cur = Height - 1
      BY <1>0, <1>5, <1>7, <2>4
    <3>2. Unroutable(cur, ConfigOrgList)' /\ ~HasHeads(headDB)' /\ Quiescent'
      BY <1>1, <1>3, <1>4, <1>7, <2>2, <2>4, <3>1 DEF HasHeads, Quiescent, Unroutable, IsConfigBlock
    <3>3. cur' = Height' - 1 /\ Height' >= 2
      BY <1>0, <1>1, <3>1
    <3>4. Stuck'
      BY <1>7, <3>2, <3>3 DEF Stuck
    <3> QED
      BY <1>2, <2>1, <3>4
  <2> QED
    BY <2>3, <2>4
<1> QED
  BY <1>1, <1>6, <1>7

LEMMA StoreVersions ==
  ASSUME IInv, StoredInOrder, StaleReadsExcused, Clean \/ Stuck,
         AppendOrgMerkleInfo \/ SaveChannelHeadInfo
  PROVE  StoredInOrder' /\ StaleReadsExcused' /\ (Clean' \/ Stuck')
<1>1. CASE AppendOrgMerkleInfo
  <2>1. /\ UNCHANGED <<headDB, versions, cur>> /\ pc = "store" /\ pc' = "publish"
        /\ DOMAIN merkle' = DOMAIN merkle \cup {cur}
    BY <1>1 DEF AppendOrgMerkleInfo, Put
  <2>2. Clean
    BY <2>1 DEF Stuck
  <2>3. StaleReadsExcused' /\ RecordsKept'
    BY <1>1, <2>1, <2>2, StoreMarks, SameMarks DEF Clean
  <2>4. StoredInOrder'
    BY <2>1 DEF StoredInOrder, HasHeads
  <2> QED
    BY <2>1, <2>3, <2>4 DEF Clean
<1>2. CASE SaveChannelHeadInfo
  <2>1. /\ UNCHANGED <<fat, merkle, versions>> /\ headDB' = chHeader
        /\ pc = "save" /\ pc' \in {"savepoint", "loop"}
    BY <1>2 DEF SaveChannelHeadInfo, ledgerVars
  <2>2. Clean
    BY <2>1 DEF Stuck
  <2>3. StaleReadsExcused' /\ RecordsKept'
    BY <2>1, <2>2, MarksUnchanged, SameMarks DEF Clean
  <2>4. /\ HasHeads(chHeader) /\ chHeader.last = cur /\ cur \in Nat /\ headDB.last \in Nat
        /\ HasHeads(headDB) => headDB.last < cur
        /\ DOMAIN merkle \subseteq Nat
    BY <2>1 DEF IInv, StoreInv, TypeOK
  <2>5. StoredInOrder'
    BY <2>1, <2>4 DEF StoredInOrder, HasHeads
  <2> QED
    BY <2>1, <2>3, <2>5 DEF Clean
<1> QED
  BY <1>1, <1>2

LEMMA VersionStep ==
  ASSUME QuietSwitch, IInv, VersionInv, [Next]_vars
  PROVE  VersionInv'
<1> SUFFICES ASSUME MvccApplicable, crashes' = 0, faults' = 0
             PROVE  StoredInOrder' /\ StaleReadsExcused' /\ (Clean' \/ Stuck')
  BY DEF VersionInv
<1>1. TypeOK
  BY DEF IInv
<1>2. /\ crashes = 0 /\ faults = 0
      /\ ~StoreFailure /\ ~CreateFailure
      /\ Restart => pc = "panic"
  BY <1>1, Uncounted
<1>3. StoredInOrder /\ StaleReadsExcused /\ (Clean \/ Stuck)
  BY <1>2 DEF VersionInv
<1>4. CASE \E b \in Bodies \cup {GenesisBody} : AddBlock(b)
  BY <1>3, <1>4, AppendVersions
<1>5. CASE CreateOrgBlocks
  BY <1>3, <1>5, CreateVersions
<1>6. CASE AppendOrgMerkleInfo \/ SaveChannelHeadInfo
  BY <1>3, <1>6, StoreVersions
<1>7. CASE QuietSteps
  BY <1>3, <1>7, QuietVersions
<1> QED
  BY <1>2, <1>4, <1>5, <1>6, <1>7 DEF Next, Processor, QuietSteps

LEMMA InitVersions == Init => VersionInv
<1> SUFFICES ASSUME Init PROVE StoredInOrder /\ StaleReadsExcused /\ Clean
  BY DEF VersionInv
<1>1. DOMAIN merkle = {} /\ pc = "boot"
  BY DEF Init, EmptyMap
<1>2. Marks = {}
  BY <1>1 DEF Marks, Marked
<1> QED
  BY <1>1, <1>2 DEF StoredInOrder, StaleReadsExcused, Clean, RecordsKept

(***************************************************************************)
(* Until a crash or a failed write, the recorded versions and the batch of *)
(* the block catch every stale read of a marked write (createOrgBlocks     *)
(* with its check and ApplyBatch), whatever blocks were appended and       *)
(* wherever the process panicked on a block it cannot route.               *)
(***************************************************************************)
THEOREM VersionsInvariance ==
  ASSUME QuietSwitch
  PROVE  Spec => []VersionInv
<1>1. Init => VersionInv
  BY InitVersions
<1>2. IInv /\ VersionInv /\ [Next]_vars => VersionInv'
  BY VersionStep
<1> QED
  BY <1>1, <1>2, InductiveInvariance, PTL DEF Spec

LEMMA VersionsExclude == IInv /\ VersionInv => NoLostUpdate
<1> SUFFICES ASSUME IInv, VersionInv, MvccApplicable, crashes = 0, faults = 0, HasHeads(headDB),
                    NEW t \in ValidTxns, NEW u \in ValidTxns,
                    NEW k \in DOMAIN TxnAt(t).reads \cap DOMAIN TxnAt(u).reads \cap PublicKeys,
                    Before(t, u), TxnAt(u).reads[k] = TxnAt(t).reads[k],
                    TxnAt(t).reads[k] = NilVersion \/ TxnAt(t).reads[k][1] < t[1],
                    k \in TxnAt(t).writes \ TxnAt(t).deletes
             PROVE  \E d \in ValidTxns :
                       Before(t, d) /\ Before(d, u) /\ k \in TxnAt(d).deletes
  BY DEF NoLostUpdate
<1>1. TypeOK /\ StoredInOrder /\ StaleReadsExcused
  BY DEF IInv, VersionInv
<1>2. ValidTxns \subseteq Marks /\ \A d \in ValidTxns : d[1] <= headDB.last
  BY DEF ValidTxns, SavedValid, Marks, Positions, Marked, MarkedIn
<1>3. PICK d \in Marks : Before(t, d) /\ Before(d, u) /\ k \in TxnAt(d).deletes
  BY <1>1, <1>2 DEF StaleReadsExcused
<1>4. d[1] <= headDB.last
  <2>1. d[1] \in Nat /\ u[1] \in Nat /\ headDB.last \in Nat
    <3>1. d \in Positions /\ u \in Positions
      BY <1>2 DEF Marks
    <3>2. d \in Nat \X Nat /\ u \in Nat \X Nat
      BY <1>1, <3>1, PositionIs
    <3>3. headDB.last \in Nat
      BY <1>1 DEF TypeOK
    <3> QED
      BY <3>2, <3>3
  <2> QED
    BY <1>2, <1>3, <2>1 DEF Before
<1>5. d[1] \in DOMAIN merkle /\ MarkedIn(merkle[d[1]], d[2])
  <2>1. ~(pc = "store" /\ d[1] = cur)
    <3>1. cur \in Nat /\ headDB.last \in Nat /\ (pc = "store" => headDB.last < cur)
      BY <1>1 DEF IInv, StoreInv, TypeOK
    <3> QED
      BY <1>4, <3>1
  <2> QED
    BY <2>1 DEF Marks, Marked
<1>6. d \in ValidTxns
  BY <1>4, <1>5 DEF ValidTxns, SavedValid, Marks, Positions, MarkedIn
<1> QED
  BY <1>3, <1>6

(***************************************************************************)
(* No update is lost: of two saved transactions that read the same version *)
(* of a key, the earlier of which writes it, the later one is not VALID    *)
(* unless a valid transaction between them deletes the key. The proof is   *)
(* for every content of the blocks and every number of keys, against what  *)
(* validateKVRead, ApplyWriteSet and ApplyBatch do.                        *)
(***************************************************************************)
THEOREM NoUpdateLost ==
  ASSUME QuietSwitch
  PROVE  Spec => []NoLostUpdate
<1>1. IInv /\ VersionInv => NoLostUpdate
  BY VersionsExclude
<1> QED
  BY <1>1, InductiveInvariance, VersionsInvariance, PTL
=============================================================================
