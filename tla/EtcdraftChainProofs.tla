------------------------- MODULE EtcdraftChainProofs -------------------------
(***************************************************************************)
(* The committed blocks are one chain, every ordering node writes it       *)
(* without a gap, no block exceeds the limits of a batch, and none holds   *)
(* an update of a configuration that was replaced before (EtcdraftChain),  *)
(* for any nodes, transactions, elections, crashes, snapshots and blocks   *)
(* in flight. The theorems are about behaviours in which no snapshot       *)
(* reaches beyond the entries its node has read ([]SnapshotsRead): a       *)
(* snapshot taken while entries are read again after a restart carries an  *)
(* index ahead of its block, and that the code does not exclude.           *)
(***************************************************************************)
EXTENDS EtcdraftChain, Recursion, SequenceTheorems, FiniteSetTheorems, TLAPS

(***************************************************************************)
(* Types.                                                                  *)
(***************************************************************************)
Tx == NormalTx \cup ConfigTx

(* A configuration change names its transaction in the data of its block.  *)
LogEntry ==
    {e \in [term : Nat, type : {"empty", "block", "conf"}, blk : Block, known : SUBSET Tx] :
        e.type = "conf" => e.blk.data # << >>}

Written == [blk : Block, idx : Nat]

Snapshot == [idx : Nat, blk : Block, conf : SUBSET Tx]

Messages == [tx : Tx, seq : Nat]

(* A cutter with no messages has counted no bytes.                         *)
Receiver == {r \in [msgs : Seq(Messages), bytes : Nat] : r.msgs = << >> => r.bytes = 0}

(* Batches are never empty: each begins with a message.                    *)
Batches == {bs \in Seq(Seq(Messages)) : \A i \in DOMAIN bs : bs[i] # << >>}

Chain ==
    [lead : Node \cup {Nil}, justElected : BOOLEAN, configInflight : BOOLEAN,
     confChange : Tx \cup {Nil}, blockInflight : Nat, last : Block, applied : Nat,
     raftIndex : Nat, bc : Block \cup {Nil}, propC : Seq(Block),
     proposer : {"none", "running", "quit"}, open : BOOLEAN, read : Nat,
     conf : SUBSET Tx, confProps : SUBSET Tx]

Types ==
    /\ mode \in BOOLEAN /\ term \in 0 .. MaxTerm
    /\ crashes \in Nat /\ snaps \in Nat
    /\ unsent \subseteq Tx
    /\ raft \in [Node -> [role : {"follower", "candidate", "leader"}, lead : Node \cup {Nil},
                         term : 0 .. MaxTerm, pending : Nat]]
    /\ log \in [Node -> Seq(LogEntry)]
    /\ committed \in Seq(LogEntry)
    /\ chain \in [Node -> Chain]
    /\ ledger \in [Node -> Seq(Written)]
    /\ snap \in [Node -> Snapshot]
    /\ cutter \in [Node -> Receiver]
    /\ outbox \in [Node -> Batches]
    /\ net \subseteq [to : Node, batches : Batches \ {<< >>}]

(***************************************************************************)
(* The latest block among the first i entries of a log.                    *)
(***************************************************************************)
Tip(s) ==
    LET tip[i \in 0 .. Len(s)] ==
            IF i = 0 THEN Genesis
            ELSE IF s[i].type = "block" THEN s[i].blk ELSE tip[i - 1]
    IN  tip

(* Every block of a log extends the block before it.                       *)
Chained(s) ==
    \A i \in DOMAIN s :
        s[i].type = "block" => s[i].blk = NextBlock(Tip(s)[i - 1], s[i].blk.data)

Extends(t, s) == Len(s) <= Len(t) /\ \A i \in 1 .. Len(s) : t[i] = s[i]

(***************************************************************************)
(* Terms. A leader whose log lacks a committed entry was deposed: an entry *)
(* of a later term is committed, which none of its own can equal.          *)
(***************************************************************************)
Deposed(n) == \E i \in DOMAIN committed : committed[i].term > raft[n].term

TermOK(n) ==
    /\ raft[n].term <= term
    /\ \A i \in DOMAIN log[n] : log[n][i].term <= term
    /\ raft[n].role = "leader" =>
         /\ raft[n].lead = n
         /\ \A i \in DOMAIN log[n] : log[n][i].term <= raft[n].term
         /\ Deposed(n) \/ Extends(log[n], committed)
    /\ Latest(n) => /\ \E i \in DOMAIN log[n] : log[n][i].term = term
                    /\ \A m \in Node : Latest(m) => m = n

TermInv ==
    /\ \A n \in Node : TermOK(n)
    /\ \A i \in DOMAIN committed : committed[i].term <= term

(***************************************************************************)
(* A log that has all committed entries, and may win an election, is a     *)
(* chain. That of a deposed leader need not be.                            *)
(***************************************************************************)
LogInv ==
    /\ Chained(committed)
    /\ \A n \in Node : Extends(log[n], committed) => Chained(log[n])

(***************************************************************************)
(* A node serves requests as leader. What it has in flight extends its log,*)
(* up to the block it creates the next one from.                           *)
(***************************************************************************)
Serving(n, c) == c.lead = n /\ ~c.justElected

Leads(t, q, b) ==
    /\ \A i \in DOMAIN q : q[i] = NextBlock(IF i = 1 THEN t ELSE q[i - 1], q[i].data)
    /\ b = IF q = << >> THEN t ELSE q[Len(q)]

Leading(n, c, msgs) ==
    /\ Serving(n, c) => c.bc # Nil
    /\ ~Serving(n, c) => c.propC = << >> /\ (~mode => msgs = << >>)
    /\ c.lead = n /\ c.justElected => ~c.open
    /\ Len(c.propC) <= MaxInflightBlocks + 1
    /\ Serving(n, c) /\ raft[n].role = "leader" /\ Extends(log[n], committed)
         => Leads(Tip(log[n])[Len(log[n])], c.propC, c.bc)

LeaderOK(n) == Leading(n, chain[n], cutter[n].msgs)

LeaderInv == \A n \in Node : LeaderOK(n)

(***************************************************************************)
(* A ledger holds the committed blocks up to its last one. An index, of    *)
(* the applied entry or in the metadata of a block, is never ahead of the  *)
(* blocks: what it says is applied is written.                             *)
(***************************************************************************)
Num(s, i) == Tip(s)[i].num

InLog(s, b) == \E i \in 0 .. Len(s) : b = Tip(s)[i]

WrittenOK(s, e, k) ==
    /\ InLog(s, e.blk) /\ e.blk.num = k
    /\ e.idx <= Len(s) /\ Num(s, e.idx) <= k

Ledgered(c, l) ==
    /\ l # << >>
    /\ \A k \in DOMAIN l : WrittenOK(committed, l[k], k - 1)
    /\ c.last = l[Len(l)].blk

LedgerOK(n) == Ledgered(chain[n], ledger[n])

SnapshotOK(s, sn) == sn.idx <= Len(s) /\ sn.blk = Tip(s)[sn.idx]

(* An index up to which the blocks are written.                            *)
Reached(s, i, b) == i <= Len(s) /\ Num(s, i) <= b.num

Indexed(c, sn) ==
    /\ c.read <= c.applied
    /\ Reached(committed, c.applied, c.last) /\ Reached(committed, c.raftIndex, c.last)
    /\ SnapshotOK(committed, sn) /\ sn.blk.num <= c.last.num

IndexOK(n) == Indexed(chain[n], snap[n])

WriteInv == \A n \in Node : LedgerOK(n) /\ IndexOK(n)

IInv == Types /\ TermInv /\ LogInv /\ LeaderInv /\ WriteInv
-----------------------------------------------------------------------------
(***************************************************************************)
(* Logs and the blocks in them.                                            *)
(***************************************************************************)
LEMMA GenesisType == Genesis \in Block /\ Genesis.num = 0
<1>1. << >> \in Seq(Seq(Tx)) /\ << >> \in Seq(Tx)
  BY EmptySeq
<1> QED  BY <1>1 DEF Genesis, Block, Tx

LEMMA HashType ==
  ASSUME NEW b \in Block
  PROVE  Hash(b) \in Seq(Seq(Tx))
<1>1. CASE b.num = 0
  BY <1>1, EmptySeq DEF Hash
<1>2. CASE b.num # 0
  <2>1. b.prev \in Seq(Seq(Tx)) /\ b.data \in Seq(Tx)
    BY DEF Block, Tx
  <2>2. Append(b.prev, b.data) \in Seq(Seq(Tx))
    BY <2>1, AppendProperties
  <2> QED  BY <1>2, <2>2 DEF Hash
<1> QED  BY <1>1, <1>2

LEMMA NextBlockType ==
  ASSUME NEW b \in Block, NEW d \in Seq(Tx)
  PROVE  /\ NextBlock(b, d) \in Block
         /\ NextBlock(b, d).num = b.num + 1 /\ NextBlock(b, d).data = d
<1>1. Hash(b) \in Seq(Seq(Tx))
  BY HashType
<1>2. b.num + 1 \in Nat
  BY DEF Block
<1> QED  BY <1>1, <1>2 DEF NextBlock, Block, Tx

LEMMA EntryType ==
  ASSUME NEW t \in Nat, NEW type \in {"empty", "block", "conf"}, NEW b \in Block,
         type = "conf" => b.data # << >>, NEW known \in SUBSET Tx
  PROVE  /\ Entry(t, type, b, known) \in LogEntry
         /\ Entry(t, type, b, known).term = t /\ Entry(t, type, b, known).type = type
         /\ Entry(t, type, b, known).blk = b /\ Entry(t, type, b, known).known = known
BY DEF Entry, LogEntry

(* What one more entry makes of the latest block.                          *)
TipStep(b, e) == IF e.type = "block" THEN e.blk ELSE b

LEMMA TipDef ==
  ASSUME NEW s \in Seq(LogEntry)
  PROVE  /\ Tip(s) \in [0 .. Len(s) -> Block]
         /\ Tip(s)[0] = Genesis
         /\ \A i \in 1 .. Len(s) : Tip(s)[i] = TipStep(Tip(s)[i - 1], s[i])
<1> DEFINE m == Len(s)
           G == [x \in Block \X (1 .. m) |-> TipStep(x[1], s[x[2]])]
           Def(f) == f = [i \in 0 .. m |-> IF i = 0 THEN Genesis ELSE TipStep(f[i - 1], s[i])]
<1>0. m \in Nat /\ \A i \in 1 .. m : s[i] \in LogEntry
  OBVIOUS
<1>1. G \in [Block \X (1 .. m) -> Block]
  <2> SUFFICES ASSUME NEW b \in Block, NEW i \in 1 .. m PROVE TipStep(b, s[i]) \in Block
    OBVIOUS
  <2> QED  BY <1>0 DEF TipStep, LogEntry
<1>2. PICK f : f \in Recursive(Block, Genesis, G, m)
  <2> HIDE DEF G, m
  <2> QED  BY <1>0, <1>1, GenesisType, RecursionExists
<1>3. f \in [0 .. m -> Block] /\ f[0] = Genesis /\ \A i \in 1 .. m : f[i] = G[<<f[i - 1], i>>]
  BY <1>2 DEF Recursive
<1>4. ASSUME NEW i \in 1 .. m PROVE f[i] = TipStep(f[i - 1], s[i])
  <2>1. f[i - 1] \in Block
    BY <1>0, <1>3
  <2>2. G[<<f[i - 1], i>>] = TipStep(f[i - 1], s[i])
    BY <2>1
  <2> QED  BY <1>3, <2>2
<1>5. Def(f)
  <2> HIDE DEF G, m
  <2>1. \A i \in 0 .. m : f[i] = IF i = 0 THEN Genesis ELSE TipStep(f[i - 1], s[i])
    BY <1>0, <1>3, <1>4
  <2> QED  BY <1>3, <2>1
<1>6. Tip(s) = CHOOSE g : Def(g)
  BY DEF Tip, TipStep
<1>7. Def(Tip(s))
  <2> HIDE DEF Def
  <2> QED  BY <1>5, <1>6
<1>8. /\ DOMAIN Tip(s) = 0 .. m /\ Tip(s)[0] = Genesis
      /\ \A i \in 1 .. m : Tip(s)[i] = TipStep(Tip(s)[i - 1], s[i])
  <2> HIDE DEF m
  <2> QED  BY <1>0, <1>7
<1>9. \A i \in 0 .. m : Tip(s)[i] \in Block
  <2> DEFINE P == {i \in Nat : i <= m => Tip(s)[i] \in Block}
  <2> HIDE DEF m
  <2>1. 0 \in P
    BY <1>8, GenesisType
  <2>2. ASSUME NEW i \in Nat, i \in P PROVE i + 1 \in P
    <3> SUFFICES ASSUME i + 1 <= m PROVE Tip(s)[i + 1] \in Block
      OBVIOUS
    <3>1. i + 1 \in 1 .. m /\ (i + 1) - 1 = i /\ Tip(s)[i] \in Block
      BY <1>0, <2>2
    <3>2. Tip(s)[i + 1] = TipStep(Tip(s)[i], s[i + 1]) /\ s[i + 1] \in LogEntry
      BY <1>0, <1>8, <3>1
    <3> QED  BY <3>1, <3>2 DEF TipStep, LogEntry
  <2>3. Nat \subseteq P
    <3> HIDE DEF P
    <3> QED  BY <2>1, <2>2, SetInduction
  <2> QED  BY <1>0, <2>3
<1> QED
  <2> HIDE DEF m
  <2>1. Tip(s) = [i \in 0 .. m |-> Tip(s)[i]]
    BY <1>7, <1>8
  <2> QED  BY <1>8, <1>9, <2>1 DEF m

(* A log and a longer one have the same blocks where both have entries.    *)
LEMMA TipPrefix ==
  ASSUME NEW s \in Seq(LogEntry), NEW t \in Seq(LogEntry), Extends(t, s)
  PROVE  \A i \in 0 .. Len(s) : Tip(t)[i] = Tip(s)[i]
<1>0. Len(s) \in Nat /\ Len(t) \in Nat /\ Len(s) <= Len(t)
  BY DEF Extends
<1> DEFINE P == {i \in Nat : i <= Len(s) => Tip(t)[i] = Tip(s)[i]}
<1>1. 0 \in P
  BY TipDef
<1>2. ASSUME NEW i \in Nat, i \in P PROVE i + 1 \in P
  <2> SUFFICES ASSUME i + 1 <= Len(s) PROVE Tip(t)[i + 1] = Tip(s)[i + 1]
    OBVIOUS
  <2>1. /\ i + 1 \in 1 .. Len(s) /\ i + 1 \in 1 .. Len(t) /\ (i + 1) - 1 = i
        /\ Tip(t)[i] = Tip(s)[i]
    BY <1>0, <1>2
  <2>2. t[i + 1] = s[i + 1]
    BY <2>1 DEF Extends
  <2>3. Tip(t)[i + 1] = TipStep(Tip(t)[i], t[i + 1]) /\ Tip(s)[i + 1] = TipStep(Tip(s)[i], s[i + 1])
    BY <2>1, TipDef
  <2> QED  BY <2>1, <2>2, <2>3
<1>3. Nat \subseteq P
  <2> HIDE DEF P
  <2> QED  BY <1>1, <1>2, SetInduction
<1> QED  BY <1>0, <1>3

(* In a chain the latest block stays or is followed by one of a higher     *)
(* number.                                                                 *)
LEMMA TipGrows ==
  ASSUME NEW s \in Seq(LogEntry), Chained(s), NEW i \in 0 .. Len(s), NEW j \in i .. Len(s)
  PROVE  Tip(s)[j] = Tip(s)[i] \/ Tip(s)[j].num > Tip(s)[i].num
<1>0. Len(s) \in Nat /\ \A k \in 0 .. Len(s) : Tip(s)[k] \in Block /\ Tip(s)[k].num \in Nat
  BY TipDef, LenProperties DEF Block
<1> DEFINE P == {d \in Nat : i + d <= Len(s) =>
                   Tip(s)[i + d] = Tip(s)[i] \/ Tip(s)[i + d].num > Tip(s)[i].num}
<1>1. 0 \in P
  OBVIOUS
<1>2. ASSUME NEW d \in Nat, d \in P PROVE d + 1 \in P
  <2> DEFINE k == i + d
  <2> SUFFICES ASSUME k + 1 <= Len(s)
               PROVE  Tip(s)[k + 1] = Tip(s)[i] \/ Tip(s)[k + 1].num > Tip(s)[i].num
    BY i + (d + 1) = k + 1
  <2>1. k \in 0 .. Len(s) /\ k + 1 \in 1 .. Len(s) /\ (k + 1) - 1 = k
    BY <1>0
  <2>2. Tip(s)[k] = Tip(s)[i] \/ Tip(s)[k].num > Tip(s)[i].num
    BY <1>2, <2>1
  <2> HIDE DEF k
  <2>3. Tip(s)[k + 1] = TipStep(Tip(s)[k], s[k + 1]) /\ s[k + 1] \in LogEntry
    BY <2>1, TipDef
  <2>4. CASE s[k + 1].type = "block"
    <3>1. s[k + 1].blk = NextBlock(Tip(s)[k], s[k + 1].blk.data)
      BY <2>1, <2>4 DEF Chained
    <3>2. s[k + 1].blk.data \in Seq(Tx)
      BY <2>3 DEF LogEntry, Block, Tx
    <3>3. s[k + 1].blk.num = Tip(s)[k].num + 1
      BY <1>0, <2>1, <3>1, <3>2, NextBlockType
    <3> QED  BY <1>0, <2>1, <2>2, <2>3, <2>4, <3>3 DEF TipStep
  <2>5. CASE s[k + 1].type # "block"
    BY <2>2, <2>3, <2>5 DEF TipStep
  <2> QED  BY <2>4, <2>5
<1>3. Nat \subseteq P
  <2> HIDE DEF P
  <2> QED  BY <1>1, <1>2, SetInduction
<1>4. j - i \in Nat /\ i + (j - i) = j
  BY <1>0
<1>5. j - i \in P
  <2> HIDE DEF P
  <2> QED  BY <1>3, <1>4
<1> QED  BY <1>0, <1>4, <1>5

(* So the blocks of a chain are told apart by their numbers.               *)
LEMMA TipByNumber ==
  ASSUME NEW s \in Seq(LogEntry), Chained(s), NEW i \in 0 .. Len(s), NEW j \in 0 .. Len(s)
  PROVE  /\ i <= j => Tip(s)[i].num <= Tip(s)[j].num
         /\ Tip(s)[i].num = Tip(s)[j].num => Tip(s)[i] = Tip(s)[j]
<1>0. Len(s) \in Nat /\ \A k \in 0 .. Len(s) : Tip(s)[k].num \in Nat
  BY TipDef, LenProperties DEF Block
<1>1. CASE i <= j
  <2>1. j \in i .. Len(s)
    BY <1>0, <1>1
  <2> QED  BY <1>0, <2>1, TipGrows
<1>2. CASE j < i
  <2>1. i \in j .. Len(s)
    BY <1>0, <1>2
  <2> QED  BY <1>0, <1>2, <2>1, TipGrows
<1> QED  BY <1>0, <1>1, <1>2

LEMMA ExtendsOrder ==
  ASSUME NEW s \in Seq(LogEntry), NEW t \in Seq(LogEntry), NEW u \in Seq(LogEntry)
  PROVE  /\ Extends(s, s)
         /\ Extends(t, s) /\ Extends(u, t) => Extends(u, s)
         /\ IsPrefix(s, t) => Extends(t, s)
         /\ Extends(t, s) /\ Len(t) <= Len(s) => t = s
<1>0. Len(s) \in Nat /\ Len(t) \in Nat /\ Len(u) \in Nat
  OBVIOUS
<1>1. Extends(s, s) /\ (Extends(t, s) /\ Extends(u, t) => Extends(u, s))
  BY <1>0 DEF Extends
<1>2. IsPrefix(s, t) => Extends(t, s)
  BY <1>0 DEF Extends, IsPrefix
<1>3. Extends(t, s) /\ Len(t) <= Len(s) => t = s
  BY <1>0, SeqEqual DEF Extends
<1> QED  BY <1>1, <1>2, <1>3

LEMMA ChainedPrefix ==
  ASSUME NEW s \in Seq(LogEntry), NEW t \in Seq(LogEntry), Extends(t, s), Chained(t)
  PROVE  Chained(s)
<1> SUFFICES ASSUME NEW i \in DOMAIN s, s[i].type = "block"
             PROVE  s[i].blk = NextBlock(Tip(s)[i - 1], s[i].blk.data)
  BY DEF Chained
<1>1. i \in 1 .. Len(s) /\ i \in DOMAIN t /\ t[i] = s[i] /\ i - 1 \in 0 .. Len(s)
  BY DEF Extends
<1>2. Tip(t)[i - 1] = Tip(s)[i - 1]
  BY <1>1, TipPrefix
<1> QED  BY <1>1, <1>2 DEF Chained

LEMMA AppendLog ==
  ASSUME NEW s \in Seq(LogEntry), NEW e \in LogEntry
  PROVE  /\ Append(s, e) \in Seq(LogEntry) /\ Extends(Append(s, e), s)
         /\ Len(Append(s, e)) = Len(s) + 1
         /\ Tip(Append(s, e))[Len(s) + 1] = TipStep(Tip(s)[Len(s)], e)
         /\ Chained(s) /\ (e.type = "block" => e.blk = NextBlock(Tip(s)[Len(s)], e.blk.data))
              => Chained(Append(s, e))
<1> DEFINE t == Append(s, e)
<1>0. /\ t \in Seq(LogEntry) /\ Len(t) = Len(s) + 1 /\ t[Len(s) + 1] = e
      /\ \A i \in 1 .. Len(s) : t[i] = s[i]
      /\ Len(s) \in Nat
  BY AppendProperties
<1> HIDE DEF t
<1>1. Extends(t, s)
  BY <1>0 DEF Extends
<1>2. \A i \in 0 .. Len(s) : Tip(t)[i] = Tip(s)[i]
  BY <1>0, <1>1, TipPrefix
<1>3. Tip(t)[Len(s) + 1] = TipStep(Tip(s)[Len(s)], e)
  <2>1. Len(s) + 1 \in 1 .. Len(t) /\ (Len(s) + 1) - 1 = Len(s) /\ Len(s) \in 0 .. Len(s)
    BY <1>0
  <2>2. Tip(t)[Len(s) + 1] = TipStep(Tip(t)[Len(s)], t[Len(s) + 1])
    BY <1>0, <2>1, TipDef
  <2> QED  BY <1>0, <1>2, <2>1, <2>2
<1>4. ASSUME Chained(s), e.type = "block" => e.blk = NextBlock(Tip(s)[Len(s)], e.blk.data)
      PROVE  Chained(t)
  <2> SUFFICES ASSUME NEW i \in DOMAIN t, t[i].type = "block"
               PROVE  t[i].blk = NextBlock(Tip(t)[i - 1], t[i].blk.data)
    BY DEF Chained
  <2>1. CASE i \in 1 .. Len(s)
    <3>1. i \in DOMAIN s /\ i - 1 \in 0 .. Len(s) /\ t[i] = s[i]
      BY <1>0, <2>1
    <3> QED  BY <1>2, <1>4, <3>1 DEF Chained
  <2>2. CASE i = Len(s) + 1
    BY <1>0, <1>2, <1>4, <2>2
  <2> QED  BY <1>0, <2>1, <2>2
<1> QED  BY <1>0, <1>1, <1>3, <1>4 DEF t
-----------------------------------------------------------------------------
(***************************************************************************)
(* What selecting messages and creating blocks return.                     *)
(***************************************************************************)
KeepStep(r, x, S) == IF x \in S THEN Append(r, x) ELSE r

LEMMA KeepDef ==
  ASSUME NEW T, NEW s \in Seq(T), NEW S
  PROVE  \E f \in [0 .. Len(s) -> Seq(T)] :
            /\ f[0] = << >> /\ \A i \in 1 .. Len(s) : f[i] = KeepStep(f[i - 1], s[i], S)
            /\ Keep(s, S) = f[Len(s)]
<1> DEFINE m == Len(s)
           G == [x \in Seq(T) \X (1 .. m) |-> KeepStep(x[1], s[x[2]], S)]
           Def(f) == f = [i \in 0 .. m |-> IF i = 0 THEN << >> ELSE KeepStep(f[i - 1], s[i], S)]
           g == CHOOSE f : Def(f)
<1>0. m \in Nat /\ (\A i \in 1 .. m : s[i] \in T) /\ << >> \in Seq(T)
  OBVIOUS
<1>1. G \in [Seq(T) \X (1 .. m) -> Seq(T)]
  <2> SUFFICES ASSUME NEW r \in Seq(T), NEW i \in 1 .. m PROVE KeepStep(r, s[i], S) \in Seq(T)
    OBVIOUS
  <2> QED  BY <1>0, AppendProperties DEF KeepStep
<1>2. PICK f : f \in Recursive(Seq(T), << >>, G, m)
  <2> HIDE DEF G, m
  <2> QED  BY <1>0, <1>1, RecursionExists
<1>3. f \in [0 .. m -> Seq(T)] /\ f[0] = << >> /\ \A i \in 1 .. m : f[i] = G[<<f[i - 1], i>>]
  BY <1>2 DEF Recursive
<1>4. ASSUME NEW i \in 1 .. m PROVE f[i] = KeepStep(f[i - 1], s[i], S)
  <2>1. f[i - 1] \in Seq(T)
    BY <1>0, <1>3
  <2>2. G[<<f[i - 1], i>>] = KeepStep(f[i - 1], s[i], S)
    BY <2>1
  <2> QED  BY <1>3, <2>2
<1>5. Def(f)
  <2> HIDE DEF G, m
  <2>1. \A i \in 0 .. m : f[i] = IF i = 0 THEN << >> ELSE KeepStep(f[i - 1], s[i], S)
    BY <1>0, <1>3, <1>4
  <2> QED  BY <1>3, <2>1
<1>6. Keep(s, S) = g[m]
  BY DEF Keep, KeepStep
<1>7. Def(g)
  <2> HIDE DEF Def
  <2> QED  BY <1>5
<1>8. /\ DOMAIN g = 0 .. m /\ g[0] = << >>
      /\ \A i \in 1 .. m : g[i] = KeepStep(g[i - 1], s[i], S)
  <2> HIDE DEF m, g
  <2> QED  BY <1>0, <1>7
<1> HIDE DEF g
<1>9. \A i \in 0 .. m : g[i] \in Seq(T)
  <2> DEFINE P == {i \in Nat : i <= m => g[i] \in Seq(T)}
  <2> HIDE DEF m
  <2>1. 0 \in P
    BY <1>0, <1>8
  <2>2. ASSUME NEW i \in Nat, i \in P PROVE i + 1 \in P
    <3> SUFFICES ASSUME i + 1 <= m PROVE g[i + 1] \in Seq(T)
      OBVIOUS
    <3>1. i + 1 \in 1 .. m /\ (i + 1) - 1 = i /\ g[i] \in Seq(T)
      BY <1>0, <2>2
    <3>2. g[i + 1] = KeepStep(g[i], s[i + 1], S) /\ s[i + 1] \in T
      BY <1>0, <1>8, <3>1
    <3> QED  BY <3>1, <3>2, AppendProperties DEF KeepStep
  <2>3. Nat \subseteq P
    <3> HIDE DEF P
    <3> QED  BY <2>1, <2>2, SetInduction
  <2> QED  BY <1>0, <2>3
<1>10. g \in [0 .. m -> Seq(T)]
  <2> HIDE DEF m
  <2>1. g = [i \in 0 .. m |-> g[i]]
    BY <1>7, <1>8
  <2> QED  BY <1>9, <2>1
<1> HIDE DEF m
<1> QED  BY <1>6, <1>8, <1>10 DEF m

(* Selecting keeps the type.                                               *)
LEMMA KeepType ==
  ASSUME NEW T, NEW s \in Seq(T), NEW S
  PROVE  Keep(s, S) \in Seq(T)
<1>1. PICK f \in [0 .. Len(s) -> Seq(T)] : Keep(s, S) = f[Len(s)]
  BY KeepDef
<1>2. Len(s) \in 0 .. Len(s)
  BY LenProperties
<1> QED  BY <1>1, <1>2

(* Creating blocks leaves alone what was applied and who leads.            *)
SamePlace(d, c) ==
    /\ d.lead = c.lead /\ d.justElected = c.justElected /\ d.open = c.open
    /\ d.last = c.last /\ d.applied = c.applied
    /\ d.raftIndex = c.raftIndex /\ d.read = c.read /\ d.confChange = c.confChange

LEMMA CreateBlockEffect ==
  ASSUME NEW c \in Chain, c.bc \in Block, NEW d \in Seq(Tx)
  PROVE  /\ CreateBlock(c, d) \in Chain
         /\ CreateBlock(c, d).bc = NextBlock(c.bc, d) /\ CreateBlock(c, d).bc \in Block
         /\ CreateBlock(c, d).propC = Append(c.propC, NextBlock(c.bc, d))
         /\ SamePlace(CreateBlock(c, d), c)
<1> DEFINE b == NextBlock(c.bc, d)
           q == Append(c.propC, b)
           k == c.configInflight \/ IsConfigBlock(b)
<1>1. b \in Block
  BY NextBlockType
<1>2. q \in Seq(Block)
  BY <1>1, AppendProperties DEF Chain
<1>3. k \in BOOLEAN /\ c.blockInflight + 1 \in Nat
  BY DEF IsConfigBlock, IsConfigData, Chain
<1>4. CreateBlock(c, d) = [c EXCEPT !.bc = b, !.propC = q, !.blockInflight = c.blockInflight + 1,
                                    !.configInflight = k]
  BY DEF CreateBlock, Chain
<1> HIDE DEF b, q, k
<1>5. CreateBlock(c, d) \in Chain
  BY <1>1, <1>2, <1>3, <1>4 DEF Chain
<1>6. /\ CreateBlock(c, d).bc = b /\ CreateBlock(c, d).propC = q
      /\ SamePlace(CreateBlock(c, d), c)
  BY <1>4 DEF Chain, SamePlace
<1> QED  BY <1>1, <1>5, <1>6 DEF b, q

(* A queue of linked blocks stays one when the next block is added.        *)
LEMMA LeadsAppend ==
  ASSUME NEW t \in Block, NEW q \in Seq(Block), NEW b \in Block, NEW d \in Seq(Tx),
         Leads(t, q, b)
  PROVE  Leads(t, Append(q, NextBlock(b, d)), NextBlock(b, d))
<1> DEFINE x == NextBlock(b, d)
           r == Append(q, x)
<1>1. x \in Block /\ x.data = d
  BY NextBlockType
<1>2. /\ r \in Seq(Block) /\ Len(r) = Len(q) + 1 /\ r[Len(q) + 1] = x /\ r # << >>
      /\ \A i \in 1 .. Len(q) : r[i] = q[i]
      /\ Len(q) \in Nat
  BY <1>1, AppendProperties, LenProperties
<1>3. x = NextBlock(b, x.data)
  BY <1>1
<1> HIDE DEF x, r
<1>4. ASSUME NEW i \in DOMAIN r
      PROVE  r[i] = NextBlock(IF i = 1 THEN t ELSE r[i - 1], r[i].data)
  <2>1. CASE i \in 1 .. Len(q)
    <3>1. i \in DOMAIN q /\ r[i] = q[i] /\ (i # 1 => r[i - 1] = q[i - 1])
      BY <1>2, <2>1
    <3> QED  BY <3>1 DEF Leads
  <2>2. CASE i = Len(q) + 1
    <3>1. CASE q = << >>
      BY <1>2, <1>3, <2>2, <3>1 DEF Leads
    <3>2. CASE q # << >>
      <4>1. i # 1 /\ i - 1 = Len(q) /\ Len(q) \in 1 .. Len(q)
        BY <1>2, <2>2, <3>2, EmptySeq
      <4>2. r[i - 1] = b
        BY <1>2, <3>2, <4>1 DEF Leads
      <4> QED  BY <1>2, <1>3, <2>2, <4>1, <4>2
    <3> QED  BY <3>1, <3>2
  <2> QED  BY <1>2, <2>1, <2>2
<1> QED  BY <1>2, <1>4 DEF Leads, x, r

(* propose: every batch becomes a block after the one before it.           *)
(* The rounds of the loop that creates blocks.                             *)
LEMMA CreateBlocksDef ==
  ASSUME NEW c \in Chain, c.bc \in Block, NEW datas \in Seq(Seq(Tx))
  PROVE  \E f \in [0 .. Len(datas) -> {x \in Chain : x.bc \in Block}] :
            /\ f[0] = c /\ \A i \in 1 .. Len(datas) : f[i] = CreateBlock(f[i - 1], datas[i])
            /\ CreateBlocks(c, datas) = f[Len(datas)]
<1> DEFINE m == Len(datas)
           S == {x \in Chain : x.bc \in Block}
           G == [x \in S \X (1 .. m) |-> CreateBlock(x[1], datas[x[2]])]
           Def(f) == f = [i \in 0 .. m |-> IF i = 0 THEN c ELSE CreateBlock(f[i - 1], datas[i])]
           g == CHOOSE f : Def(f)
<1>0. m \in Nat /\ (\A i \in 1 .. m : datas[i] \in Seq(Tx)) /\ c \in S
  OBVIOUS
<1>1. G \in [S \X (1 .. m) -> S]
  <2> SUFFICES ASSUME NEW x \in S, NEW i \in 1 .. m PROVE CreateBlock(x, datas[i]) \in S
    OBVIOUS
  <2> QED  BY <1>0, CreateBlockEffect
<1>2. PICK f : f \in Recursive(S, c, G, m)
  <2> HIDE DEF G, m, S
  <2> QED  BY <1>0, <1>1, RecursionExists
<1>3. f \in [0 .. m -> S] /\ f[0] = c /\ \A i \in 1 .. m : f[i] = G[<<f[i - 1], i>>]
  BY <1>2 DEF Recursive
<1>4. ASSUME NEW i \in 1 .. m PROVE f[i] = CreateBlock(f[i - 1], datas[i])
  <2> HIDE DEF S, m, G
  <2>1. f[i - 1] \in S
    BY <1>0, <1>3
  <2> USE DEF G
  <2>2. G[<<f[i - 1], i>>] = CreateBlock(f[i - 1], datas[i])
    BY <2>1
  <2> QED  BY <1>3, <2>2
<1>5. Def(f)
  <2> HIDE DEF G, m, S
  <2>1. \A i \in 0 .. m : f[i] = IF i = 0 THEN c ELSE CreateBlock(f[i - 1], datas[i])
    BY <1>0, <1>3, <1>4
  <2> QED  BY <1>3, <2>1
<1>6. CreateBlocks(c, datas) = g[m]
  BY DEF CreateBlocks
<1>7. Def(g)
  <2> HIDE DEF Def
  <2> QED  BY <1>5
<1>8. /\ DOMAIN g = 0 .. m /\ g[0] = c
      /\ \A i \in 1 .. m : g[i] = CreateBlock(g[i - 1], datas[i])
  <2> HIDE DEF m, g
  <2> QED  BY <1>0, <1>7
<1> HIDE DEF g
<1>9. \A i \in 0 .. m : g[i] \in S
  <2> DEFINE P == {i \in Nat : i <= m => g[i] \in S}
  <2> HIDE DEF m
  <2>1. 0 \in P
    BY <1>0, <1>8
  <2>2. ASSUME NEW i \in Nat, i \in P PROVE i + 1 \in P
    <3> SUFFICES ASSUME i + 1 <= m PROVE g[i + 1] \in S
      OBVIOUS
    <3>1. i + 1 \in 1 .. m /\ (i + 1) - 1 = i /\ g[i] \in S
      BY <1>0, <2>2
    <3>2. g[i + 1] = CreateBlock(g[i], datas[i + 1]) /\ datas[i + 1] \in Seq(Tx)
      BY <1>0, <1>8, <3>1
    <3> QED  BY <3>1, <3>2, CreateBlockEffect
  <2>3. Nat \subseteq P
    <3> HIDE DEF P
    <3> QED  BY <2>1, <2>2, SetInduction
  <2> QED  BY <1>0, <2>3
<1>10. g \in [0 .. m -> S]
  <2> HIDE DEF m, S
  <2>1. g = [i \in 0 .. m |-> g[i]]
    BY <1>7, <1>8
  <2> QED  BY <1>9, <2>1
<1> HIDE DEF m, S
<1> QED  BY <1>6, <1>8, <1>10 DEF m, S

LEMMA CreateBlocksEffect ==
  ASSUME NEW c \in Chain, c.bc \in Block, NEW datas \in Seq(Seq(Tx))
  PROVE  /\ CreateBlocks(c, datas) \in Chain
         /\ CreateBlocks(c, datas).bc \in Block
         /\ Len(CreateBlocks(c, datas).propC) = Len(c.propC) + Len(datas)
         /\ SamePlace(CreateBlocks(c, datas), c)
         /\ \A t \in Block : Leads(t, c.propC, c.bc) =>
              Leads(t, CreateBlocks(c, datas).propC, CreateBlocks(c, datas).bc)
<1> DEFINE m == Len(datas)
<1>0. m \in Nat /\ (\A i \in 1 .. m : datas[i] \in Seq(Tx))
  OBVIOUS
<1>1. PICK g \in [0 .. m -> {x \in Chain : x.bc \in Block}] :
        /\ g[0] = c /\ \A i \in 1 .. m : g[i] = CreateBlock(g[i - 1], datas[i])
        /\ CreateBlocks(c, datas) = g[m]
  BY CreateBlocksDef
<1>6. CreateBlocks(c, datas) = g[m]
  BY <1>1
<1>8. g[0] = c /\ \A i \in 1 .. m : g[i] = CreateBlock(g[i - 1], datas[i])
  BY <1>1
<1> DEFINE Good(i) ==
             /\ g[i] \in Chain /\ g[i].bc \in Block /\ Len(g[i].propC) = Len(c.propC) + i
             /\ SamePlace(g[i], c)
             /\ \A t \in Block : Leads(t, c.propC, c.bc) => Leads(t, g[i].propC, g[i].bc)
<1>9. Good(m)
  <2> DEFINE P == {i \in Nat : i <= m => Good(i)}
  <2> HIDE DEF m
  <2>1. 0 \in P
    <3>1. Len(c.propC) \in Nat
      BY LenProperties DEF Chain
    <3> QED  BY <1>8, <3>1 DEF SamePlace
  <2>2. ASSUME NEW i \in Nat, i \in P PROVE i + 1 \in P
    <3> HIDE DEF Good
    <3> SUFFICES ASSUME i + 1 <= m PROVE Good(i + 1)
      OBVIOUS
    <3>1. i + 1 \in 1 .. m /\ (i + 1) - 1 = i /\ Good(i)
      BY <1>0, <2>2
    <3> DEFINE y == g[i]
               d == datas[i + 1]
               z == g[i + 1]
    <3>2. z = CreateBlock(y, d) /\ d \in Seq(Tx)
      BY <1>0, <1>8, <3>1
    <3>3. /\ y \in Chain /\ y.bc \in Block /\ Len(y.propC) = Len(c.propC) + i /\ SamePlace(y, c)
          /\ \A t \in Block : Leads(t, c.propC, c.bc) => Leads(t, y.propC, y.bc)
      BY <3>1 DEF Good
    <3> HIDE DEF y, d, z
    <3>4. /\ z \in Chain /\ z.bc \in Block /\ z.bc = NextBlock(y.bc, d)
          /\ z.propC = Append(y.propC, NextBlock(y.bc, d)) /\ SamePlace(z, y)
      BY <3>2, <3>3, CreateBlockEffect
    <3>5. y.propC \in Seq(Block) /\ Len(c.propC) \in Nat
      BY <3>3, LenProperties DEF Chain
    <3>6. Len(z.propC) = Len(c.propC) + (i + 1)
      <4>1. NextBlock(y.bc, d) \in Block
        BY <3>4
      <4>2. Len(z.propC) = Len(y.propC) + 1
        BY <3>4, <3>5, <4>1, AppendProperties
      <4>3. Len(y.propC) = Len(c.propC) + i
        BY <3>3
      <4>4. \A a, k \in Nat : (a + k) + 1 = a + (k + 1)
        OBVIOUS
      <4> QED  BY <3>5, <4>2, <4>3, <4>4
    <3>7. \A t \in Block : Leads(t, c.propC, c.bc) => Leads(t, z.propC, z.bc)
      BY <3>2, <3>3, <3>4, <3>5, LeadsAppend
    <3>8. SamePlace(z, c)
      BY <3>3, <3>4 DEF SamePlace
    <3> QED  BY <3>4, <3>6, <3>7, <3>8 DEF Good, z
  <2>3. Nat \subseteq P
    <3> HIDE DEF P
    <3> QED  BY <2>1, <2>2, SetInduction
  <2>4. m \in P
    <3> HIDE DEF P
    <3> QED  BY <1>0, <2>3
  <2> QED  BY <1>0, <2>4
<1> QED  BY <1>6, <1>9
-----------------------------------------------------------------------------
(***************************************************************************)
(* The logs: which steps of raft keep terms and chains in order.           *)
(***************************************************************************)
LEMMA LogTypes ==
  ASSUME Types, NEW n \in Node
  PROVE  /\ log[n] \in Seq(LogEntry) /\ Len(log[n]) \in Nat /\ DOMAIN log[n] = 1 .. Len(log[n])
         /\ \A i \in DOMAIN log[n] : log[n][i] \in LogEntry /\ log[n][i].term \in Nat
         /\ committed \in Seq(LogEntry) /\ Len(committed) \in Nat
         /\ DOMAIN committed = 1 .. Len(committed)
         /\ \A i \in DOMAIN committed : committed[i] \in LogEntry /\ committed[i].term \in Nat
         /\ raft[n].term \in Nat /\ term \in Nat /\ MaxTerm \in Nat
<1>1. log[n] \in Seq(LogEntry) /\ committed \in Seq(LogEntry)
  BY DEF Types
<1>2. raft[n].term \in Nat /\ term \in Nat /\ MaxTerm \in Nat
  BY ChainAssumption DEF Types
<1>3. \A s \in Seq(LogEntry) : /\ Len(s) \in Nat /\ DOMAIN s = 1 .. Len(s)
                               /\ \A i \in DOMAIN s : s[i] \in LogEntry
  BY LenProperties, ElementOfSeq
<1>4. \A e \in LogEntry : e.term \in Nat
  BY DEF LogEntry
<1> QED  BY <1>1, <1>2, <1>3, <1>4

(* A node that is no leader takes a log.                                   *)
LEMMA FollowerLogs ==
  ASSUME Types, TermInv, LogInv, NEW n \in Node,
         committed' = committed, term' = term,
         \A m \in Node \ {n} : log'[m] = log[m] /\ raft'[m] = raft[m],
         raft'[n].role # "leader", raft'[n].term <= term,
         \A i \in DOMAIN log'[n] : log'[n][i].term <= term,
         Extends(log'[n], committed) => Chained(log'[n])
  PROVE  TermInv' /\ LogInv'
<1>1. ~Latest(n)' /\ \A m \in Node \ {n} : Latest(m)' <=> Latest(m)
  BY DEF Latest
<1>2. ASSUME NEW m \in Node PROVE TermOK(m)'
  <2>1. CASE m = n
    BY <1>1, <2>1 DEF TermOK
  <2>2. CASE m # n
    BY <1>1, <2>2 DEF TermOK, TermInv, Deposed, Extends
  <2> QED  BY <2>1, <2>2
<1>3. ASSUME NEW m \in Node, Extends(log[m], committed)' PROVE Chained(log[m])'
  <2>1. CASE m = n
    BY <1>3, <2>1
  <2>2. CASE m # n
    BY <1>3, <2>2 DEF LogInv, Extends
  <2> QED  BY <2>1, <2>2
<1>4. Chained(committed)' <=> Chained(committed)
  BY DEF Chained, Tip
<1> QED  BY <1>2, <1>3, <1>4 DEF TermInv, LogInv

(* A leader appends an entry of its term. Only one that was not deposed    *)
(* has to append a block that extends its log.                             *)
LEMMA LeaderLogs ==
  ASSUME Types, TermInv, LogInv, NEW n \in Node, NEW e \in LogEntry,
         committed' = committed, term' = term,
         \A m \in Node \ {n} : log'[m] = log[m] /\ raft'[m] = raft[m],
         raft[n].role = "leader", raft'[n].role = "leader", raft'[n].term = raft[n].term,
         raft'[n].lead = raft[n].lead, e.term = raft[n].term, log'[n] = Append(log[n], e),
         Extends(log[n], committed) /\ e.type = "block"
            => e.blk = NextBlock(Tip(log[n])[Len(log[n])], e.blk.data)
  PROVE  /\ TermInv' /\ LogInv'
         /\ Extends(log[n], committed)' => Extends(log[n], committed)
<1> DEFINE t == Append(log[n], e)
<1>0. /\ t \in Seq(LogEntry) /\ Extends(t, log[n]) /\ Len(t) = Len(log[n]) + 1
      /\ t[Len(log[n]) + 1] = e /\ \A i \in 1 .. Len(log[n]) : t[i] = log[n][i]
      /\ DOMAIN t = 1 .. Len(log[n]) + 1
  BY LogTypes, AppendLog, AppendProperties, LenProperties
<1>1. \A i \in DOMAIN t : t[i].term <= raft[n].term
  <2> SUFFICES ASSUME NEW i \in DOMAIN t PROVE t[i].term <= raft[n].term
    OBVIOUS
  <2>1. CASE i = Len(log[n]) + 1
    BY <1>0, <2>1, LogTypes
  <2>2. CASE i \in 1 .. Len(log[n])
    BY <1>0, <2>2, LogTypes DEF TermInv, TermOK
  <2> QED  BY <1>0, <2>1, <2>2, LogTypes
<1>2. Extends(t, committed) => Extends(log[n], committed)
  <2> SUFFICES ASSUME Extends(t, committed), Deposed(n) PROVE FALSE
    BY DEF TermInv, TermOK
  <2>1. PICK i \in DOMAIN committed : committed[i].term > raft[n].term
    BY DEF Deposed
  <2>2. t[i] = committed[i] /\ i \in DOMAIN t
    BY <1>0, LogTypes DEF Extends
  <2>3. raft[n].term \in Nat /\ committed[i].term \in Nat
    BY LogTypes
  <2> HIDE DEF t
  <2> QED  BY <1>1, <2>1, <2>2, <2>3
<1>3. Extends(log[n], committed) => Extends(t, committed) /\ Chained(t)
  <2> SUFFICES ASSUME Extends(log[n], committed) PROVE Extends(t, committed) /\ Chained(t)
    OBVIOUS
  <2>1. Chained(log[n])
    BY DEF LogInv
  <2> QED  BY <1>0, <2>1, AppendLog, ExtendsOrder, LogTypes
<1> HIDE DEF t
<1>4. log'[n] = t
  BY DEF t
<1>5. \A m \in Node : Latest(m)' <=> Latest(m)
  BY DEF Latest
<1>6. ASSUME NEW m \in Node PROVE TermOK(m)'
  <2>1. CASE m = n
    <3>1. raft[n].term <= term /\ raft[n].term \in Nat /\ term \in Nat
      BY LogTypes DEF TermInv, TermOK
    <3>2. \A i \in DOMAIN t : t[i].term \in Nat
      <4>1. \A i \in DOMAIN t : t[i] \in LogEntry
        BY <1>0, ElementOfSeq, LenProperties
      <4> QED  BY <4>1 DEF LogEntry
    <3>3. \A i \in DOMAIN t : t[i].term <= term
      BY <1>1, <3>1, <3>2
    <3>4. Deposed(n)' \/ Extends(log[n], committed)'
      <4>1. Deposed(n)' <=> Deposed(n)
        BY DEF Deposed
      <4>2. Extends(log[n], committed)' <=> Extends(t, committed)
        BY <1>4 DEF Extends
      <4> QED  BY <1>3, <4>1, <4>2 DEF TermInv, TermOK
    <3>5. Latest(n)' => \E i \in DOMAIN log'[n] : log'[n][i].term = term'
      <4> SUFFICES ASSUME Latest(n) PROVE \E i \in DOMAIN t : t[i].term = term
        BY <1>4, <1>5
      <4>1. PICK i \in DOMAIN log[n] : log[n][i].term = term
        BY DEF TermInv, TermOK
      <4>2. i \in 1 .. Len(log[n]) /\ Len(log[n]) \in Nat
        BY LogTypes
      <4>3. i \in DOMAIN t /\ t[i] = log[n][i]
        BY <1>0, <4>2
      <4> QED  BY <4>1, <4>3
    <3> QED  BY <1>1, <1>4, <1>5, <2>1, <3>1, <3>3, <3>4, <3>5 DEF TermInv, TermOK
  <2>2. CASE m # n
    BY <1>5, <2>2 DEF TermOK, TermInv, Deposed, Extends
  <2> QED  BY <2>1, <2>2
<1>7. ASSUME NEW m \in Node, Extends(log[m], committed)' PROVE Chained(log[m])'
  <2>1. CASE m = n
    <3>1. Extends(t, committed)
      BY <1>4, <1>7, <2>1 DEF Extends
    <3> QED  BY <1>2, <1>3, <1>4, <2>1, <3>1
  <2>2. CASE m # n
    BY <1>7, <2>2 DEF LogInv, Extends
  <2> QED  BY <2>1, <2>2
<1>8. Chained(committed)' <=> Chained(committed)
  BY DEF Chained, Tip
<1>9. Extends(log[n], committed)' => Extends(log[n], committed)
  BY <1>2, <1>4 DEF Extends
<1> QED  BY <1>6, <1>7, <1>8, <1>9 DEF TermInv, LogInv

LEMMA ElectLogs ==
  ASSUME Types, TermInv, LogInv, NEW n \in Node, Elect(n)
  PROVE  TermInv' /\ LogInv'
<1> DEFINE e == Entry(term + 1, "empty", Genesis, {})
           t == Append(log[n], e)
<1>0. /\ log' = [log EXCEPT ![n] = t] /\ committed' = committed /\ term' = term + 1
      /\ raft' = [raft EXCEPT ![n] = [role |-> "leader", lead |-> n, term |-> term + 1,
                                      pending |-> Len(log[n])]]
  BY DEF Elect, Types
<1>1. e \in LogEntry /\ e.term = term + 1 /\ e.type # "block" /\ term \in Nat
  <2>1. term + 1 \in Nat /\ term \in Nat
    BY LogTypes
  <2> QED  BY <2>1, GenesisType, EntryType
<1>2. Extends(log[n], committed)
  BY LogTypes, ExtendsOrder DEF Elect
<1>3. /\ t \in Seq(LogEntry) /\ Len(t) = Len(log[n]) + 1 /\ Extends(t, log[n])
      /\ t[Len(log[n]) + 1] = e /\ \A i \in 1 .. Len(log[n]) : t[i] = log[n][i]
      /\ DOMAIN t = 1 .. Len(log[n]) + 1
  BY <1>1, LogTypes, AppendLog, AppendProperties, LenProperties
<1>4. Extends(t, committed) /\ Chained(t)
  <2>1. Chained(log[n])
    BY <1>2 DEF LogInv
  <2> QED  BY <1>1, <1>2, <1>3, <2>1, AppendLog, ExtendsOrder, LogTypes
<1>5. \A i \in DOMAIN t : t[i].term <= term + 1
  <2> SUFFICES ASSUME NEW i \in DOMAIN t PROVE t[i].term <= term + 1
    OBVIOUS
  <2>1. CASE i = Len(log[n]) + 1
    BY <1>1, <1>3, <2>1
  <2>2. CASE i \in 1 .. Len(log[n])
    <3>1. i \in DOMAIN log[n] /\ log[n][i].term \in Nat /\ log[n][i].term <= term
      BY <2>2, LogTypes DEF TermInv, TermOK
    <3> QED  BY <1>1, <1>3, <2>2, <3>1
  <2> QED  BY <1>3, <2>1, <2>2, LogTypes
<1>6. t[Len(log[n]) + 1].term = term + 1 /\ Len(log[n]) + 1 \in DOMAIN t
  BY <1>1, <1>3, LogTypes
<1> HIDE DEF t, e
<1>7. log'[n] = t /\ raft'[n].role = "leader" /\ raft'[n].lead = n /\ raft'[n].term = term + 1
  BY <1>0 DEF Types
<1>8. \A m \in Node \ {n} : log'[m] = log[m] /\ raft'[m] = raft[m] /\ ~Latest(m)'
  <2> SUFFICES ASSUME NEW m \in Node \ {n}
               PROVE  log'[m] = log[m] /\ raft'[m] = raft[m] /\ ~Latest(m)'
    OBVIOUS
  <2>1. log'[m] = log[m] /\ raft'[m] = raft[m]
    BY <1>0 DEF Types
  <2>2. raft[m].term <= term /\ raft[m].term \in Nat
    BY LogTypes DEF TermInv, TermOK
  <2> QED  BY <1>0, <1>1, <2>1, <2>2 DEF Latest
<1>9. ASSUME NEW m \in Node PROVE TermOK(m)'
  <2>1. CASE m = n
    <3>1. Extends(log[n], committed)'
      BY <1>0, <1>4, <1>7 DEF Extends
    <3> QED  BY <1>0, <1>1, <1>5, <1>6, <1>7, <1>8, <2>1, <3>1 DEF TermOK
  <2>2. CASE m # n
    <3>1. raft[m].term <= term /\ raft[m].term \in Nat
      BY LogTypes DEF TermInv, TermOK
    <3>2. ASSUME NEW i \in DOMAIN log[m] PROVE log[m][i].term <= term + 1
      BY <1>1, LogTypes DEF TermInv, TermOK
    <3> QED  BY <1>0, <1>1, <1>8, <2>2, <3>1, <3>2 DEF TermOK, TermInv, Deposed, Extends
  <2> QED  BY <2>1, <2>2
<1>10. ASSUME NEW m \in Node, Extends(log[m], committed)' PROVE Chained(log[m])'
  <2>1. CASE m = n
    BY <1>4, <1>7, <2>1
  <2>2. CASE m # n
    BY <1>0, <1>8, <1>10, <2>2 DEF LogInv, Extends
  <2> QED  BY <2>1, <2>2
<1>11. Chained(committed)' <=> Chained(committed)
  BY <1>0 DEF Chained, Tip
<1>12. ASSUME NEW i \in DOMAIN committed PROVE committed[i].term <= term + 1
  BY <1>1, LogTypes DEF TermInv
<1> QED  BY <1>0, <1>9, <1>10, <1>11, <1>12 DEF TermInv, LogInv

(* Committing makes every other leader a deposed one.                      *)
LEMMA CommitLogs ==
  ASSUME Types, TermInv, LogInv, NEW l \in Node, Commit(l)
  PROVE  /\ TermInv' /\ LogInv' /\ Extends(committed', committed)
         /\ \A n \in Node : Extends(log[n], committed)' => Extends(log[n], committed)
<1>0. committed' = log[l] /\ UNCHANGED <<term, raft, log>> /\ Latest(l)
  BY DEF Commit
<1>1. PICK k \in DOMAIN log[l] : log[l][k].term = term
  BY <1>0 DEF TermInv, TermOK
<1>2. Extends(log[l], committed)
  <2>1. ~Deposed(l)
    <3> SUFFICES ASSUME Deposed(l) PROVE FALSE
      OBVIOUS
    <3>1. PICK i \in DOMAIN committed : committed[i].term > term
      BY <1>0 DEF Deposed, Latest
    <3>2. committed[i].term <= term /\ committed[i].term \in Nat /\ term \in Nat
      BY LogTypes DEF TermInv
    <3> QED  BY <3>1, <3>2
  <2> QED  BY <1>0, <2>1 DEF TermInv, TermOK, Latest
<1>3. \A m \in Node : Latest(m)' <=> Latest(m)
  BY <1>0 DEF Latest
<1>4. ASSUME NEW n \in Node, Extends(log[n], committed)'
      PROVE  Extends(log[n], committed) /\ Chained(log[n])'
  <2>1. Extends(log[n], log[l])
    BY <1>0, <1>4 DEF Extends
  <2>2. Extends(log[n], committed)
    BY <1>2, <2>1, ExtendsOrder, LogTypes
  <2> QED  BY <1>0, <2>2 DEF LogInv
<1>5. ASSUME NEW n \in Node PROVE TermOK(n)'
  <2>1. CASE n = l
    <3>1. Extends(log[n], committed)'
      BY <1>0, <2>1, ExtendsOrder, LogTypes
    <3> QED  BY <1>0, <1>3, <2>1, <3>1 DEF TermOK, TermInv
  <2>2. CASE n # l /\ raft[n].role = "leader"
    <3>1. raft[n].term # term
      BY <1>0, <2>2 DEF TermInv, TermOK, Latest
    <3>2. raft[n].term < term
      BY <3>1, LogTypes DEF TermInv, TermOK
    <3>3. Deposed(n)'
      BY <1>0, <1>1, <3>2 DEF Deposed
    <3> QED  BY <1>0, <1>3, <3>3 DEF TermOK, TermInv
  <2>3. CASE raft[n].role # "leader"
    BY <1>0, <1>3, <2>3 DEF TermOK, TermInv
  <2> QED  BY <2>1, <2>2, <2>3
<1>6. Chained(committed)'
  <2>1. Chained(log[l])
    BY <1>2 DEF LogInv
  <2> QED  BY <1>0, <2>1
<1>7. \A i \in DOMAIN committed' : committed'[i].term <= term'
  BY <1>0 DEF TermInv, TermOK
<1> QED  BY <1>0, <1>2, <1>4, <1>5, <1>6, <1>7 DEF TermInv, LogInv
-----------------------------------------------------------------------------
(***************************************************************************)
(* What a step leaves alone.                                               *)
(***************************************************************************)

(* More committed entries change no block and no index.                    *)
LEMMA ChainKept ==
  ASSUME NEW s \in Seq(LogEntry), NEW t \in Seq(LogEntry), Extends(t, s)
  PROVE  /\ Len(s) \in Nat /\ Len(t) \in Nat /\ Len(s) <= Len(t)
         /\ \A i \in 0 .. Len(s) : Tip(t)[i] = Tip(s)[i] /\ Num(t, i) = Num(s, i)
         /\ \A b : InLog(s, b) => InLog(t, b)
         /\ \A e \in Written : \A k : WrittenOK(s, e, k) => WrittenOK(t, e, k)
         /\ \A sn \in Snapshot : SnapshotOK(s, sn) => SnapshotOK(t, sn)
         /\ \A i \in Nat : \A b : Reached(s, i, b) => Reached(t, i, b)
<1>1. Len(s) \in Nat /\ Len(t) \in Nat /\ Len(s) <= Len(t)
  BY LenProperties DEF Extends
<1>2. \A i \in 0 .. Len(s) : Tip(t)[i] = Tip(s)[i] /\ Num(t, i) = Num(s, i)
  BY TipPrefix DEF Num
<1>3. ASSUME NEW b, InLog(s, b) PROVE InLog(t, b)
  <2>1. PICK i \in 0 .. Len(s) : b = Tip(s)[i]
    BY <1>3 DEF InLog
  <2>2. i \in 0 .. Len(t) /\ b = Tip(t)[i]
    BY <1>1, <1>2, <2>1
  <2> QED  BY <2>2 DEF InLog
<1>4. ASSUME NEW i \in Nat, i <= Len(s) PROVE i <= Len(t) /\ Num(t, i) = Num(s, i) /\ Tip(t)[i] = Tip(s)[i]
  BY <1>1, <1>2, <1>4
<1>5. ASSUME NEW e \in Written, NEW k, WrittenOK(s, e, k) PROVE WrittenOK(t, e, k)
  <2>1. e.idx \in Nat
    BY DEF Written
  <2> QED  BY <1>3, <1>4, <1>5, <2>1 DEF WrittenOK
<1>6. ASSUME NEW sn \in Snapshot, SnapshotOK(s, sn) PROVE SnapshotOK(t, sn)
  <2>1. sn.idx \in Nat
    BY DEF Snapshot
  <2> QED  BY <1>4, <1>6, <2>1 DEF SnapshotOK
<1>7. ASSUME NEW i \in Nat, NEW b, Reached(s, i, b) PROVE Reached(t, i, b)
  BY <1>4, <1>7 DEF Reached
<1> QED  BY <1>1, <1>2, <1>3, <1>5, <1>6, <1>7

(* Where a node is in the log.                                             *)
SameIndex(d, c) ==
    d.last = c.last /\ d.applied = c.applied /\ d.raftIndex = c.raftIndex /\ d.read = c.read

LEMMA WriteFrame ==
  ASSUME Types, NEW m \in Node, LedgerOK(m), IndexOK(m),
         committed' \in Seq(LogEntry), Extends(committed', committed),
         ledger'[m] = ledger[m], snap'[m] = snap[m], SameIndex(chain'[m], chain[m])
  PROVE  LedgerOK(m)' /\ IndexOK(m)'
<1>0. /\ committed \in Seq(LogEntry) /\ ledger[m] \in Seq(Written) /\ snap[m] \in Snapshot
      /\ chain[m].applied \in Nat /\ chain[m].raftIndex \in Nat
  BY DEF Types, Chain
<1>1. ASSUME NEW k \in DOMAIN ledger[m] PROVE WrittenOK(committed', ledger[m][k], k - 1)
  <2>1. ledger[m][k] \in Written /\ WrittenOK(committed, ledger[m][k], k - 1)
    BY <1>0, ElementOfSeq, LenProperties DEF LedgerOK, Ledgered
  <2> QED  BY <1>0, <2>1, ChainKept
<1>2. LedgerOK(m)'
  BY <1>1 DEF LedgerOK, Ledgered, SameIndex
<1>3. SnapshotOK(committed', snap[m])
  BY <1>0, ChainKept DEF IndexOK, Indexed
<1>4. /\ Reached(committed', chain[m].applied, chain[m].last)
      /\ Reached(committed', chain[m].raftIndex, chain[m].last)
  BY <1>0, ChainKept DEF IndexOK, Indexed
<1> QED  BY <1>2, <1>3, <1>4 DEF IndexOK, Indexed, SameIndex

(* What a node does as leader.                                             *)
SameLead(d, c) ==
    /\ d.lead = c.lead /\ d.justElected = c.justElected /\ d.open = c.open
    /\ d.bc = c.bc /\ d.propC = c.propC

LEMMA LeaderFrame ==
  ASSUME NEW m \in Node, LeaderOK(m), mode' = mode,
         SameLead(chain'[m], chain[m]), cutter'[m].msgs = cutter[m].msgs,
         raft'[m].role = "leader" =>
           /\ raft[m].role = "leader" /\ log'[m] = log[m]
           /\ Extends(log[m], committed)' => Extends(log[m], committed)
  PROVE  LeaderOK(m)'
<1>1. Serving(m, chain[m])' <=> Serving(m, chain[m])
  BY DEF Serving, SameLead
<1>2. /\ (Serving(m, chain[m]) => chain[m].bc # Nil)'
      /\ (~Serving(m, chain[m]) => /\ chain[m].propC = << >>
                                   /\ ~mode => cutter[m].msgs = << >>)'
      /\ (chain[m].lead = m /\ chain[m].justElected => ~chain[m].open)'
      /\ (Len(chain[m].propC) <= MaxInflightBlocks + 1)'
  BY <1>1 DEF LeaderOK, Leading, SameLead
<1>3. ASSUME Serving(m, chain[m])', raft'[m].role = "leader", Extends(log[m], committed)'
      PROVE  Leads(Tip(log[m])[Len(log[m])], chain[m].propC, chain[m].bc)'
  <2>1. Leads(Tip(log[m])[Len(log[m])], chain[m].propC, chain[m].bc)
    BY <1>1, <1>3 DEF LeaderOK, Leading
  <2> QED  BY <1>3, <2>1 DEF SameLead
<1> QED  BY <1>2, <1>3 DEF LeaderOK, Leading
-----------------------------------------------------------------------------
(***************************************************************************)
(* The steps of raft.                                                      *)
(***************************************************************************)
LEMMA RaftKeeps ==
  ASSUME IInv, NEW n \in Node, Raft(n)
  PROVE  IInv'
<1>0. Types /\ TermInv /\ LogInv /\ LeaderInv /\ WriteInv
  BY DEF IInv
<1>1. UNCHANGED <<mode, chain, ledger, snap, inputVars, crashes, snaps>>
  BY DEF Raft, Timeout, Elect, Replicate, Commit
<1>2. UNCHANGED <<cutter, outbox, net, unsent>>
  BY <1>1 DEF inputVars
<1>3. CASE Timeout(n)
  <2>1. /\ UNCHANGED <<term, log, committed>>
        /\ raft' = [raft EXCEPT ![n].role = "candidate", ![n].lead = Nil]
    BY <1>3 DEF Timeout
  <2>2. raft' \in [Node -> [role : {"follower", "candidate", "leader"}, lead : Node \cup {Nil},
                            term : 0 .. MaxTerm, pending : Nat]]
    <3>1. raft \in [Node -> [role : {"follower", "candidate", "leader"},
                            lead : Node \cup {Nil}, term : 0 .. MaxTerm, pending : Nat]]
      BY <1>0 DEF Types
    <3> QED  BY <2>1, <3>1
  <2>3. Types'
    BY <1>0, <1>1, <1>2, <2>1, <2>2 DEF Types
  <2>4. /\ raft'[n].role # "leader" /\ raft'[n].term = raft[n].term
        /\ \A m \in Node \ {n} : raft'[m] = raft[m]
    BY <1>0, <2>1 DEF Types
  <2>5. TermInv' /\ LogInv'
    <3>1. raft'[n].term <= term /\ \A i \in DOMAIN log[n] : log[n][i].term <= term
      BY <1>0, <2>4 DEF TermInv, TermOK
    <3>2. Extends(log[n], committed) => Chained(log[n])
      BY <1>0 DEF LogInv
    <3> QED  BY <1>0, <2>1, <2>4, <3>1, <3>2, FollowerLogs
  <2>6. LeaderInv'
    <3> SUFFICES ASSUME NEW m \in Node PROVE LeaderOK(m)'
      BY DEF LeaderInv
    <3>1. raft'[m].role = "leader" => raft[m].role = "leader"
      BY <2>4
    <3>2. LeaderOK(m)
      BY <1>0 DEF LeaderInv
    <3>3. Extends(log[m], committed)' => Extends(log[m], committed)
      BY <2>1
    <3> QED  BY <1>1, <1>2, <2>1, <3>1, <3>2, <3>3, LeaderFrame DEF SameLead
  <2>7. WriteInv'
    BY <1>0, <1>1, <2>1, ExtendsOrder, WriteFrame DEF WriteInv, SameIndex, Types
  <2> QED  BY <2>3, <2>5, <2>6, <2>7 DEF IInv
<1>4. CASE Elect(n)
  <2>1. /\ log' = [log EXCEPT ![n] = Append(log[n], Entry(term + 1, "empty", Genesis, {}))]
        /\ committed' = committed /\ term' = term + 1 /\ term < MaxTerm
        /\ raft' = [raft EXCEPT ![n] = [role |-> "leader", lead |-> n, term |-> term + 1,
                                        pending |-> Len(log[n])]]
        /\ chain[n].lead = Nil
    BY <1>0, <1>4 DEF Elect, Types
  <2>2. Append(log[n], Entry(term + 1, "empty", Genesis, {})) \in Seq(LogEntry)
    <3>1. Entry(term + 1, "empty", Genesis, {}) \in LogEntry
      <4>1. term + 1 \in Nat
        BY <1>0, LogTypes
      <4> QED  BY <4>1, GenesisType, EntryType
    <3> QED  BY <1>0, <3>1, LogTypes, AppendProperties
  <2>3. Types'
    <3>1. term' \in 0 .. MaxTerm /\ Len(log[n]) \in Nat
      <4>1. term \in Nat /\ MaxTerm \in Nat /\ Len(log[n]) \in Nat
        BY <1>0, LogTypes
      <4> QED  BY <2>1, <4>1
    <3>2. raft' \in [Node -> [role : {"follower", "candidate", "leader"}, lead : Node \cup {Nil},
                              term : 0 .. MaxTerm, pending : Nat]]
      BY <1>0, <2>1, <3>1 DEF Types
    <3>3. log' \in [Node -> Seq(LogEntry)]
      BY <1>0, <2>1, <2>2 DEF Types
    <3> QED  BY <1>0, <1>1, <1>2, <2>1, <3>1, <3>2, <3>3 DEF Types
  <2>4. LeaderInv'
    <3> SUFFICES ASSUME NEW m \in Node PROVE LeaderOK(m)'
      BY DEF LeaderInv
    <3>1. LeaderOK(m)
      BY <1>0 DEF LeaderInv
    <3>2. CASE m = n
      <4>1. ~Serving(n, chain[n]) /\ ~Serving(n, chain[n])'
        BY <1>1, <2>1, ChainAssumption DEF Serving
      <4> QED  BY <1>1, <1>2, <3>1, <3>2, <4>1 DEF LeaderOK, Leading
    <3>3. CASE m # n
      <4>1. raft'[m] = raft[m] /\ log'[m] = log[m]
        BY <1>0, <2>1, <3>3 DEF Types
      <4>2. Extends(log[m], committed)' => Extends(log[m], committed)
        BY <2>1, <4>1
      <4> QED  BY <1>1, <1>2, <2>1, <3>1, <4>1, <4>2, LeaderFrame DEF SameLead
    <3> QED  BY <3>2, <3>3
  <2>5. WriteInv'
    BY <1>0, <1>1, <2>1, ExtendsOrder, WriteFrame DEF WriteInv, SameIndex, Types
  <2> QED  BY <1>0, <1>4, <2>3, <2>4, <2>5, ElectLogs DEF IInv
<1>5. CASE Replicate(n)
  <2>1. PICK l \in Node \ {n} :
          /\ Latest(l) /\ log' = [log EXCEPT ![n] = log[l]]
          /\ raft' = [raft EXCEPT ![n] = [@ EXCEPT !.role = "follower", !.lead = l, !.term = term]]
          /\ UNCHANGED <<term, committed>>
    BY <1>5 DEF Replicate
  <2>2. raft' \in [Node -> [role : {"follower", "candidate", "leader"}, lead : Node \cup {Nil},
                            term : 0 .. MaxTerm, pending : Nat]]
    <3>1. /\ raft \in [Node -> [role : {"follower", "candidate", "leader"},
                               lead : Node \cup {Nil}, term : 0 .. MaxTerm, pending : Nat]]
          /\ term \in 0 .. MaxTerm
      BY <1>0 DEF Types
    <3> QED  BY <2>1, <3>1
  <2>3. Types'
    BY <1>0, <1>1, <1>2, <2>1, <2>2 DEF Types
  <2>4. /\ raft'[n].role # "leader" /\ raft'[n].term = term /\ log'[n] = log[l]
        /\ \A m \in Node \ {n} : raft'[m] = raft[m] /\ log'[m] = log[m]
    BY <1>0, <2>1 DEF Types
  <2>5. TermInv' /\ LogInv'
    <3>1. raft'[n].term <= term /\ \A i \in DOMAIN log'[n] : log'[n][i].term <= term
      BY <1>0, <2>4, LogTypes DEF TermInv, TermOK
    <3>2. Extends(log'[n], committed) => Chained(log'[n])
      BY <1>0, <2>4 DEF LogInv
    <3> QED  BY <1>0, <2>1, <2>4, <3>1, <3>2, FollowerLogs
  <2>6. LeaderInv'
    <3> SUFFICES ASSUME NEW m \in Node PROVE LeaderOK(m)'
      BY DEF LeaderInv
    <3>1. raft'[m].role = "leader" => /\ raft[m].role = "leader" /\ log'[m] = log[m]
                                      /\ Extends(log[m], committed)' => Extends(log[m], committed)
      BY <2>1, <2>4
    <3>2. LeaderOK(m)
      BY <1>0 DEF LeaderInv
    <3> QED  BY <1>1, <1>2, <3>1, <3>2, LeaderFrame DEF SameLead
  <2>7. WriteInv'
    BY <1>0, <1>1, <2>1, ExtendsOrder, WriteFrame DEF WriteInv, SameIndex, Types
  <2> QED  BY <2>3, <2>5, <2>6, <2>7 DEF IInv
<1>6. CASE Commit(n)
  <2>1. committed' = log[n] /\ UNCHANGED <<term, raft, log>>
    BY <1>6 DEF Commit
  <2>2. Types'
    BY <1>0, <1>1, <1>2, <2>1 DEF Types
  <2>3. /\ TermInv' /\ LogInv' /\ Extends(committed', committed)
        /\ \A m \in Node : Extends(log[m], committed)' => Extends(log[m], committed)
    BY <1>0, <1>6, CommitLogs
  <2>4. LeaderInv'
    BY <1>0, <1>1, <1>2, <2>1, <2>3, LeaderFrame DEF LeaderInv, SameLead
  <2>5. WriteInv'
    <3>1. committed' \in Seq(LogEntry)
      BY <2>2 DEF Types
    <3> QED  BY <1>0, <1>1, <2>3, <3>1, WriteFrame DEF WriteInv, SameIndex
  <2> QED  BY <2>2, <2>3, <2>4, <2>5 DEF IInv
<1> QED  BY <1>3, <1>4, <1>5, <1>6 DEF Raft
-----------------------------------------------------------------------------
(***************************************************************************)
(* Applying.                                                               *)
(***************************************************************************)
LEMMA AfterApplyEffect ==
  ASSUME Types, NEW n \in Node, NEW c \in Chain
  PROVE  /\ AfterApply(n, c) \in Chain /\ SameIndex(AfterApply(n, c), c)
         /\ AfterApply(n, c).lead = c.lead /\ AfterApply(n, c).propC = c.propC
         /\ \/ /\ AfterApply(n, c).justElected = c.justElected /\ AfterApply(n, c).bc = c.bc
               /\ c.justElected => AfterApply(n, c).open = c.open
            \/ /\ c.justElected /\ ~AfterApply(n, c).justElected
               /\ Len(log[n]) <= c.applied /\ AfterApply(n, c).bc = c.last
<1>0. Len(log[n]) \in Nat /\ c.applied \in Nat
  BY LogTypes DEF Chain
<1>1. CASE c.justElected /\ (Len(log[n]) > c.applied \/ c.configInflight)
  <2>1. AfterApply(n, c) = c
    BY <1>1 DEF AfterApply
  <2> QED  BY <2>1 DEF SameIndex
<1>2. CASE c.justElected /\ ~(Len(log[n]) > c.applied \/ c.configInflight)
  <2>1. AfterApply(n, c) = [c EXCEPT !.bc = c.last, !.open = TRUE, !.justElected = FALSE]
    BY <1>2 DEF AfterApply
  <2>2. Len(log[n]) <= c.applied
    BY <1>0, <1>2
  <2>3. /\ AfterApply(n, c).bc = c.last /\ ~AfterApply(n, c).justElected
        /\ SameIndex(AfterApply(n, c), c)
    BY <2>1 DEF SameIndex, Chain
  <2> QED  BY <1>2, <2>1, <2>2, <2>3 DEF Chain
<1>3. CASE ~c.justElected
  <2> DEFINE o == IF c.configInflight THEN FALSE
                  ELSE c.open \/ c.blockInflight < MaxInflightBlocks
  <2>1. AfterApply(n, c) = [c EXCEPT !.open = o]
    BY <1>3 DEF AfterApply, Chain
  <2>2. o \in BOOLEAN
    OBVIOUS
  <2> HIDE DEF o
  <2> QED  BY <1>3, <2>1, <2>2 DEF SameIndex, Chain
<1> QED  BY <1>1, <1>2, <1>3

(* A leader that has applied its whole log goes on from its last block,    *)
(* which is the last of the log.                                           *)
LEMMA AfterApplyLeading ==
  ASSUME IInv, NEW n \in Node, NEW c \in Chain, NEW msgs, Leading(n, c, msgs),
         InLog(committed, c.last), Reached(committed, c.applied, c.last)
  PROVE  Leading(n, AfterApply(n, c), msgs)
<1> DEFINE d == AfterApply(n, c)
<1>0. Types /\ LogInv
  BY DEF IInv
<1>1. /\ d \in Chain /\ SameIndex(d, c) /\ d.lead = c.lead /\ d.propC = c.propC
      /\ \/ /\ d.justElected = c.justElected /\ d.bc = c.bc
            /\ c.justElected => d.open = c.open
         \/ /\ c.justElected /\ ~d.justElected
            /\ Len(log[n]) <= c.applied /\ d.bc = c.last
  BY <1>0, AfterApplyEffect
<1> SUFFICES Leading(n, d, msgs)
  OBVIOUS
<1> HIDE DEF d
<1>2. CASE /\ d.justElected = c.justElected /\ d.bc = c.bc
           /\ c.justElected => d.open = c.open
  BY <1>1, <1>2 DEF Leading, Serving
<1>3. CASE /\ c.justElected /\ ~d.justElected
           /\ Len(log[n]) <= c.applied /\ d.bc = c.last
  <2>1. c.propC = << >> /\ (~mode => msgs = << >>)
    BY <1>3 DEF Leading, Serving
  <2>2. d.bc # Nil
    BY <1>3, ChainAssumption DEF Chain
  <2>3. ASSUME Extends(log[n], committed)
        PROVE  d.bc = Tip(log[n])[Len(log[n])]
    <3>1. Len(committed) <= Len(log[n]) /\ Len(log[n]) \in Nat /\ Len(committed) \in Nat
      BY <1>0, <2>3, LogTypes DEF Extends
    <3>2. c.applied <= Len(committed) /\ c.applied \in Nat
      BY DEF Reached, Chain
    <3>3. log[n] = committed /\ c.applied = Len(committed)
      BY <1>0, <1>3, <2>3, <3>1, <3>2, ExtendsOrder, LogTypes
    <3>4. PICK i \in 0 .. Len(committed) : c.last = Tip(committed)[i]
      BY DEF InLog
    <3>5. Len(committed) \in 0 .. Len(committed) /\ i <= Len(committed)
      BY <3>1
    <3>6. Chained(committed) /\ committed \in Seq(LogEntry)
      BY <1>0, LogTypes DEF LogInv
    <3>7. Tip(committed)[i].num <= Tip(committed)[Len(committed)].num
      BY <3>5, <3>6, TipByNumber
    <3>8. Tip(committed)[Len(committed)].num <= Tip(committed)[i].num
      BY <3>3, <3>4 DEF Reached, Num
    <3>9. Tip(committed)[i].num \in Nat /\ Tip(committed)[Len(committed)].num \in Nat
      BY <3>5, <3>6, TipDef DEF Block
    <3>10. Tip(committed)[i] = Tip(committed)[Len(committed)]
      BY <3>5, <3>6, <3>7, <3>8, <3>9, TipByNumber
    <3> QED  BY <1>3, <3>3, <3>4, <3>10
  <2>4. Len(<< >>) = 0 /\ 0 <= MaxInflightBlocks + 1
    BY ChainAssumption
  <2>5. Extends(log[n], committed) => Leads(Tip(log[n])[Len(log[n])], << >>, d.bc)
    BY <2>3 DEF Leads
  <2> QED  BY <1>1, <1>3, <2>1, <2>2, <2>4, <2>5 DEF Leading, Serving
<1> QED  BY <1>1, <1>2, <1>3

LEMMA AdvanceEffect ==
  ASSUME NEW c \in Chain, c.read <= c.applied
  PROVE  /\ Advance(c) \in Chain /\ SameLead(Advance(c), c)
         /\ Advance(c).last = c.last /\ Advance(c).raftIndex = c.raftIndex
         /\ Advance(c).read = c.read + 1 /\ Advance(c).read <= Advance(c).applied
         /\ Advance(c).applied = IF c.applied > c.read THEN c.applied ELSE c.read + 1
<1> DEFINE a == IF c.applied > c.read + 1 THEN c.applied ELSE c.read + 1
<1>1. c.read \in Nat /\ c.applied \in Nat
  BY DEF Chain
<1>2. Advance(c) = [c EXCEPT !.read = c.read + 1, !.applied = a]
  BY DEF Advance, Chain
<1>3. a \in Nat /\ c.read + 1 \in Nat /\ c.read + 1 <= a
      /\ a = IF c.applied > c.read THEN c.applied ELSE c.read + 1
  BY <1>1
<1> HIDE DEF a
<1> QED  BY <1>2, <1>3 DEF Chain, SameLead

(***************************************************************************)
(* A step of one node: only its own part has to be looked at.              *)
(***************************************************************************)
LEMMA OwnStep ==
  ASSUME IInv, Types', NEW n \in Node, mode' = mode, committed' = committed, TermInv', LogInv',
         \A m \in Node \ {n} :
            /\ chain'[m] = chain[m] /\ ledger'[m] = ledger[m] /\ snap'[m] = snap[m]
            /\ cutter'[m] = cutter[m] /\ raft'[m] = raft[m] /\ log'[m] = log[m],
         LeaderOK(n)', LedgerOK(n)', IndexOK(n)'
  PROVE  IInv'
<1>0. Types /\ LeaderInv /\ WriteInv
  BY DEF IInv
<1>1. ASSUME NEW m \in Node PROVE LeaderOK(m)'
  <2>1. CASE m = n
    BY <2>1
  <2>2. CASE m # n
    <3>1. LeaderOK(m)
      BY <1>0 DEF LeaderInv
    <3>2. Extends(log[m], committed)' => Extends(log[m], committed)
      BY <2>2
    <3> QED  BY <2>2, <3>1, <3>2, LeaderFrame DEF SameLead
  <2> QED  BY <2>1, <2>2
<1>2. ASSUME NEW m \in Node PROVE LedgerOK(m)' /\ IndexOK(m)'
  <2>1. CASE m = n
    BY <2>1
  <2>2. CASE m # n
    <3>1. committed \in Seq(LogEntry) /\ Extends(committed', committed)
      BY <1>0, ExtendsOrder DEF Types
    <3> QED  BY <1>0, <2>2, <3>1, WriteFrame DEF WriteInv, SameIndex
  <2> QED  BY <2>1, <2>2
<1> QED  BY <1>1, <1>2 DEF IInv, LeaderInv, WriteInv

(* The same, when raft does not move.                                      *)
LEMMA LocalStep ==
  ASSUME IInv, NEW n \in Node, NEW X \in Chain,
         UNCHANGED <<mode, raftVars>>,
         chain' = [chain EXCEPT ![n] = X],
         ledger' \in [Node -> Seq(Written)], snap' \in [Node -> Snapshot],
         cutter' \in [Node -> Receiver], outbox' \in [Node -> Batches],
         net' \subseteq [to : Node, batches : Batches \ {<< >>}], unsent' \subseteq Tx,
         crashes' \in Nat, snaps' \in Nat,
         \A m \in Node \ {n} :
            ledger'[m] = ledger[m] /\ snap'[m] = snap[m] /\ cutter'[m] = cutter[m],
         Leading(n, X, cutter'[n].msgs), Ledgered(X, ledger'[n]), Indexed(X, snap'[n])
  PROVE  IInv'
<1>0. Types /\ TermInv /\ LogInv
  BY DEF IInv
<1>1. UNCHANGED <<mode, term, raft, log, committed>>
  BY DEF raftVars
<1>2. /\ chain' \in [Node -> Chain] /\ chain'[n] = X
      /\ \A m \in Node \ {n} : chain'[m] = chain[m]
  BY <1>0 DEF Types
<1>3. Types'
  BY <1>0, <1>1, <1>2 DEF Types
<1>4. TermInv' /\ LogInv'
  <2>1. TermInv'
    BY <1>0, <1>1 DEF TermInv, TermOK, Deposed, Latest, Extends
  <2>2. LogInv'
    BY <1>0, <1>1 DEF LogInv
  <2> QED  BY <2>1, <2>2
<1>5. LeaderOK(n)'
  BY <1>1, <1>2 DEF LeaderOK, Leading
<1>6. LedgerOK(n)' /\ IndexOK(n)'
  BY <1>1, <1>2 DEF LedgerOK, IndexOK, Ledgered, Indexed
<1> QED  BY <1>1, <1>2, <1>3, <1>4, <1>5, <1>6, OwnStep

LEMMA GreatestExists ==
  ASSUME NEW n \in Nat, NEW S \in SUBSET (1 .. n), S # {}
  PROVE  \E i \in S : \A j \in S : j <= i
<1> DEFINE P == {k \in Nat : \A T \in SUBSET (1 .. k) :
                               T # {} => \E i \in T : \A j \in T : j <= i}
<1>1. 0 \in P
  <2>1. 1 .. 0 = {}
    OBVIOUS
  <2>2. \A T \in SUBSET (1 .. 0) : T = {}
    BY <2>1, Zenon
  <2> QED  BY <2>2, Zenon
<1>2. ASSUME NEW k \in Nat, k \in P PROVE k + 1 \in P
  <2> SUFFICES ASSUME NEW T \in SUBSET (1 .. k + 1), T # {}
               PROVE  \E i \in T : \A j \in T : j <= i
    OBVIOUS
  <2>1. CASE k + 1 \in T
    BY <2>1
  <2>2. CASE k + 1 \notin T
    <3>1. T \in SUBSET (1 .. k)
      BY <2>2
    <3> QED  BY <1>2, <3>1
  <2> QED  BY <2>1, <2>2
<1>3. Nat \subseteq P
  <2> HIDE DEF P
  <2> QED  BY <1>1, <1>2, SetInduction
<1>4. n \in P
  <2> HIDE DEF P
  <2> QED  BY <1>3
<1> QED  BY <1>4

LEMMA BecomeLeaderEffect ==
  ASSUME NEW c \in Chain
  PROVE  /\ BecomeLeader(c) \in Chain /\ SameIndex(BecomeLeader(c), c)
         /\ BecomeLeader(c).justElected /\ ~BecomeLeader(c).open /\ BecomeLeader(c).propC = << >>
<1> DEFINE cc == InFlightConfChange(c)
           d  == [c EXCEPT !.blockInflight = 0, !.justElected = TRUE, !.open = FALSE,
                           !.propC = << >>, !.proposer = "running"]
<1>1. cc \in Tx \cup {Nil}
  <2> DEFINE h == Hash(c.last)
             missing == {i \in DOMAIN h : IsConfigData(h[i]) /\ h[i][1] \in MemberTx \ c.conf}
             latest == CHOOSE i \in missing : \A j \in missing : j <= i
  <2>1. h \in Seq(Seq(Tx))
    BY HashType DEF Chain
  <2>2. cc = IF c.confChange # Nil THEN c.confChange
             ELSE IF IsConfigBlock(c.last) /\ missing # {} THEN h[latest][1] ELSE Nil
    BY DEF InFlightConfChange
  <2> HIDE DEF cc, h
  <2>3. Len(h) \in Nat /\ missing \subseteq 1 .. Len(h)
    BY <2>1, LenProperties
  <2>4. \A i \in missing : h[i][1] \in Tx
    BY ChainAssumption DEF Tx
  <2> HIDE DEF missing
  <2>5. missing # {} => latest \in missing
    BY <2>3, GreatestExists
  <2>6. c.confChange \in Tx \cup {Nil}
    BY DEF Chain
  <2> HIDE DEF latest
  <2> QED  BY <2>2, <2>4, <2>5, <2>6
<1>2. << >> \in Seq(Block)
  BY EmptySeq
<1>3. /\ d \in Chain /\ SameIndex(d, c)
      /\ d.justElected /\ ~d.open /\ d.propC = << >> /\ d.confProps = c.confProps
  BY <1>2 DEF Chain, SameIndex
<1> DEFINE e == [d EXCEPT !.confProps = d.confProps \cup {cc}, !.confChange = cc,
                          !.configInflight = TRUE]
<1>4. BecomeLeader(c) = IF cc = Nil THEN d ELSE e
  BY <1>3 DEF BecomeLeader, Chain
<1> HIDE DEF cc, d
<1>5. cc # Nil => /\ e \in Chain /\ SameIndex(e, d)
                  /\ e.justElected = d.justElected /\ e.open = d.open /\ e.propC = d.propC
  BY <1>1, <1>3 DEF Chain, SameIndex
<1> HIDE DEF e
<1>6. cc # Nil => SameIndex(e, c)
  BY <1>3, <1>5 DEF SameIndex
<1> QED  BY <1>3, <1>4, <1>5, <1>6

LEMMA BecomeFollowerEffect ==
  ASSUME NEW c \in Chain
  PROVE  /\ BecomeFollower(c) \in Chain /\ SameIndex(BecomeFollower(c), c)
         /\ BecomeFollower(c).propC = << >>
<1>1. << >> \in Seq(Block)
  BY EmptySeq
<1> QED  BY <1>1 DEF BecomeFollower, Chain, SameIndex

LEMMA ApplySoftKeeps ==
  ASSUME IInv, NEW n \in Node, ApplySoft(n)
  PROVE  IInv'
<1> DEFINE c    == chain[n]
           new  == raft[n].lead
           lost == c.lead = n /\ new # n
           d    == IF new = n /\ c.lead # n THEN BecomeLeader(c)
                   ELSE IF lost THEN BecomeFollower(c) ELSE c
           e    == [d EXCEPT !.lead = new]
           r    == IF ~lost THEN cutter[n]
                   ELSE IF mode THEN [cutter[n] EXCEPT !.bytes = 0] ELSE EmptyReceiver
<1>0. Types /\ LogInv /\ Leading(n, c, cutter[n].msgs)
      /\ Ledgered(c, ledger[n]) /\ Indexed(c, snap[n])
  BY DEF IInv, LeaderInv, LeaderOK, WriteInv, LedgerOK, IndexOK
<1>1. /\ new # c.lead /\ chain' = [chain EXCEPT ![n] = AfterApply(n, e)]
      /\ cutter' = [cutter EXCEPT ![n] = r]
      /\ UNCHANGED <<mode, raftVars, ledger, snap, outbox, net, unsent, crashes, snaps>>
  BY <1>0 DEF ApplySoft, Types
<1>2. c \in Chain /\ cutter[n] \in Receiver /\ new \in Node \cup {Nil} /\ mode \in BOOLEAN
  BY <1>0 DEF Types
<1>3. r \in Receiver /\ (~lost => r.msgs = cutter[n].msgs) /\ (lost /\ ~mode => r.msgs = << >>)
  <2>1. EmptyReceiver \in Receiver /\ EmptyReceiver.msgs = << >>
    BY EmptySeq DEF EmptyReceiver, Receiver
  <2> QED  BY <1>2, <2>1 DEF Receiver
<1>4. /\ d \in Chain /\ SameIndex(d, c)
      /\ new = n /\ c.lead # n => d.justElected /\ ~d.open /\ d.propC = << >>
      /\ lost => d.propC = << >>
      /\ ~(new = n /\ c.lead # n) /\ ~lost => d = c
  BY <1>2, BecomeLeaderEffect, BecomeFollowerEffect DEF SameIndex
<1> HIDE DEF d, r
<1>5. /\ e \in Chain /\ SameIndex(e, c) /\ e.lead = new
      /\ e.justElected = d.justElected /\ e.open = d.open /\ e.propC = d.propC
  BY <1>2, <1>4 DEF Chain, SameIndex
<1> HIDE DEF e
<1>6. Leading(n, e, r.msgs)
  <2>1. Len(<< >>) = 0 /\ 0 <= MaxInflightBlocks + 1
    BY ChainAssumption
  <2>2. CASE new = n /\ c.lead # n
    BY <1>0, <1>3, <1>4, <1>5, <2>1, <2>2 DEF Leading, Serving
  <2>3. CASE lost
    BY <1>0, <1>3, <1>4, <1>5, <2>1, <2>3 DEF Leading, Serving
  <2>4. CASE new # n /\ c.lead # n
    BY <1>0, <1>3, <1>4, <1>5, <2>4 DEF Leading, Serving
  <2> QED  BY <1>1, <2>2, <2>3, <2>4
<1>7. Ledgered(e, ledger[n]) /\ Indexed(e, snap[n])
  BY <1>0, <1>5 DEF Ledgered, Indexed, SameIndex
<1>8. InLog(committed, e.last) /\ Reached(committed, e.applied, e.last)
  <2>1. Len(ledger[n]) \in DOMAIN ledger[n]
    BY <1>0, <1>7, EmptySeq, LenProperties DEF Types, Ledgered
  <2> QED  BY <1>7, <2>1 DEF Ledgered, Indexed, WrittenOK
<1> DEFINE X == AfterApply(n, e)
<1>9. Leading(n, X, r.msgs)
  BY <1>5, <1>6, <1>8, AfterApplyLeading
<1>10. X \in Chain /\ SameIndex(X, e)
  BY <1>0, <1>5, AfterApplyEffect
<1> HIDE DEF X
<1>11. Ledgered(X, ledger[n]) /\ Indexed(X, snap[n])
  BY <1>7, <1>10 DEF Ledgered, Indexed, SameIndex
<1>12. /\ cutter' \in [Node -> Receiver] /\ cutter'[n] = r
       /\ \A m \in Node \ {n} : cutter'[m] = cutter[m]
  BY <1>0, <1>1, <1>3 DEF Types
<1>13. /\ ledger' \in [Node -> Seq(Written)] /\ snap' \in [Node -> Snapshot]
       /\ outbox' \in [Node -> Batches] /\ net' \subseteq [to : Node, batches : Batches \ {<< >>}]
       /\ unsent' \subseteq Tx /\ crashes' \in Nat /\ snaps' \in Nat
  BY <1>0, <1>1 DEF Types
<1>14. chain' = [chain EXCEPT ![n] = X] /\ UNCHANGED <<mode, raftVars, ledger, snap>>
  BY <1>1 DEF X
<1> QED  BY <1>9, <1>10, <1>11, <1>12, <1>13, <1>14, LocalStep

(* The next entry of a node, and the block it leads to.                    *)
LEMMA ReadEntry ==
  ASSUME IInv, NEW n \in Node, CanRead(n)
  PROVE  /\ chain[n] \in Chain /\ chain[n].read \in Nat /\ chain[n].applied \in Nat
         /\ chain[n].read <= chain[n].applied
         /\ chain[n].read \in 0 .. Len(committed) /\ chain[n].read + 1 \in 0 .. Len(committed)
         /\ NextEntry(n) \in LogEntry
         /\ NextEntry(n).type = "block" =>
              /\ NextEntry(n).blk = Tip(committed)[chain[n].read + 1]
              /\ NextEntry(n).blk.num = Num(committed, chain[n].read) + 1
         /\ NextEntry(n).type # "block" =>
              Num(committed, chain[n].read + 1) = Num(committed, chain[n].read)
<1> DEFINE r == chain[n].read
           e == NextEntry(n)
<1>0. Types /\ Chained(committed)
  BY DEF IInv, LogInv
<1>1. /\ chain[n] \in Chain /\ r \in Nat /\ chain[n].applied \in Nat
      /\ r <= chain[n].applied
  BY <1>0 DEF IInv, WriteInv, IndexOK, Indexed, Types, Chain
<1>2. committed \in Seq(LogEntry) /\ Len(committed) \in Nat
  BY <1>0, LogTypes
<1>3. r \in 0 .. Len(committed) /\ r + 1 \in 0 .. Len(committed) /\ r + 1 \in 1 .. Len(committed)
  BY <1>1, <1>2 DEF CanRead
<1>4. e = committed[r + 1] /\ e \in LogEntry
  BY <1>2, <1>3, ElementOfSeq DEF NextEntry
<1>5. Tip(committed)[r + 1] = TipStep(Tip(committed)[r], e) /\ Tip(committed)[r] \in Block
  <2>1. (r + 1) - 1 = r
    BY <1>1
  <2> HIDE DEF r, e
  <2> QED  BY <1>2, <1>3, <1>4, <2>1, TipDef
<1>6. ASSUME e.type = "block"
      PROVE  e.blk = Tip(committed)[r + 1] /\ e.blk.num = Num(committed, r) + 1
  <2>1. e.blk = Tip(committed)[r + 1]
    BY <1>5, <1>6 DEF TipStep
  <2>2. e.blk = NextBlock(Tip(committed)[r], e.blk.data)
    <3>1. r + 1 \in DOMAIN committed /\ (r + 1) - 1 = r
      BY <1>1, <1>2, <1>3
    <3> QED  BY <1>0, <1>4, <1>6, <3>1 DEF Chained
  <2>3. e.blk.data \in Seq(Tx)
    BY <1>4 DEF LogEntry, Block, Tx
  <2>4. NextBlock(Tip(committed)[r], e.blk.data).num = Tip(committed)[r].num + 1
    BY <1>5, <2>3, NextBlockType
  <2> HIDE DEF r, e
  <2> QED  BY <2>1, <2>2, <2>4 DEF Num
<1>7. e.type # "block" => Num(committed, r + 1) = Num(committed, r)
  BY <1>5 DEF TipStep, Num
<1> QED  BY <1>1, <1>3, <1>4, <1>6, <1>7

LEMMA AdvanceIndexed ==
  ASSUME IInv, NEW n \in Node, CanRead(n),
         chain[n].applied > chain[n].read \/ Num(committed, chain[n].read + 1) <= chain[n].last.num
  PROVE  LET c == Advance(chain[n])
         IN  /\ c \in Chain /\ Leading(n, c, cutter[n].msgs)
             /\ Ledgered(c, ledger[n]) /\ Indexed(c, snap[n])
<1> DEFINE c == Advance(chain[n])
<1>0. /\ Types /\ Leading(n, chain[n], cutter[n].msgs)
      /\ Ledgered(chain[n], ledger[n]) /\ Indexed(chain[n], snap[n])
  BY DEF IInv, LeaderInv, LeaderOK, WriteInv, LedgerOK, IndexOK
<1>1. /\ chain[n] \in Chain /\ chain[n].read \in Nat /\ chain[n].applied \in Nat
      /\ chain[n].read <= chain[n].applied /\ chain[n].read + 1 \in 0 .. Len(committed)
  BY ReadEntry
<1>2. /\ c \in Chain /\ SameLead(c, chain[n])
      /\ c.last = chain[n].last /\ c.raftIndex = chain[n].raftIndex
      /\ c.read = chain[n].read + 1 /\ c.read <= c.applied
      /\ c.applied = IF chain[n].applied > chain[n].read THEN chain[n].applied
                     ELSE chain[n].read + 1
  BY <1>1, AdvanceEffect
<1> HIDE DEF c
<1>3. Leading(n, c, cutter[n].msgs)
  BY <1>0, <1>2 DEF Leading, Serving, SameLead
<1>4. Reached(committed, c.applied, c.last)
  <2>1. CASE chain[n].applied > chain[n].read
    BY <1>0, <1>2, <2>1 DEF Indexed
  <2>2. CASE ~(chain[n].applied > chain[n].read)
    BY <1>1, <1>2, <2>2 DEF Reached
  <2> QED  BY <2>1, <2>2
<1>5. Ledgered(c, ledger[n]) /\ Indexed(c, snap[n])
  BY <1>0, <1>2, <1>4 DEF Ledgered, Indexed
<1> QED  BY <1>2, <1>3, <1>5 DEF c

(* A snapshot that does not reach beyond the entries read is taken at the  *)
(* entry just read.                                                        *)
LEMMA SnapshotBehind ==
  ASSUME Types, SnapshotsRead', NEW n \in Node, NEW d \in Chain,
         chain' = [chain EXCEPT ![n] = AfterApply(n, d)]
  PROVE  snap'[n].idx <= d.read
<1>1. AfterApply(n, d).read = d.read
  BY AfterApplyEffect DEF SameIndex
<1>2. chain'[n] = AfterApply(n, d)
  BY DEF Types
<1> QED  BY <1>1, <1>2 DEF SnapshotsRead

LEMMA AdvanceReads ==
  ASSUME IInv, NEW n \in Node, CanRead(n)
  PROVE  Advance(chain[n]).read <= Advance(chain[n]).applied
<1>1. /\ chain[n] \in Chain /\ chain[n].read \in Nat /\ chain[n].applied \in Nat
      /\ chain[n].read <= chain[n].applied
  BY ReadEntry
<1>2. /\ Advance(chain[n]).read = chain[n].read + 1
      /\ Advance(chain[n]).applied = IF chain[n].applied > chain[n].read THEN chain[n].applied
                                     ELSE chain[n].read + 1
  BY <1>1, AdvanceEffect
<1> QED  BY <1>1, <1>2

LEMMA SnapshotTaken ==
  ASSUME IInv, NEW n \in Node, CanRead(n), NextEntry(n).type = "block",
         NEW d \in Chain, d.read = chain[n].read + 1, Reached(committed, d.applied, d.last),
         d.read <= d.applied, snap'[n].idx <= d.read,
         SnapshotOK(committed, snap[n]), snap[n].blk.num <= d.last.num, MaybeSnapshot(n, d)
  PROVE  /\ snap' \in [Node -> Snapshot] /\ snaps' \in Nat
         /\ SnapshotOK(committed, snap'[n]) /\ snap'[n].blk.num <= d.last.num
         /\ \A m \in Node \ {n} : snap'[m] = snap[m]
<1>0. snap \in [Node -> Snapshot] /\ snaps \in Nat
  BY DEF IInv, Types
<1>1. CASE UNCHANGED <<snap, snaps>>
  BY <1>0, <1>1
<1>2. CASE ~UNCHANGED <<snap, snaps>>
  <2> DEFINE s == [idx |-> d.applied, blk |-> NextEntry(n).blk, conf |-> d.conf]
  <2>0. snaps > 0 /\ snap' = [snap EXCEPT ![n] = s] /\ snaps' = snaps - 1
    BY <1>2 DEF MaybeSnapshot
  <2>1. d.applied = d.read
    <3>1. snap'[n].idx = d.applied
      BY <1>0, <2>0
    <3>2. d.applied \in Nat /\ d.read \in Nat
      BY DEF Chain
    <3> QED  BY <3>1, <3>2
  <2>2. /\ NextEntry(n).blk = Tip(committed)[d.applied] /\ NextEntry(n) \in LogEntry
        /\ d.applied <= Len(committed)
    BY <2>1, ReadEntry DEF Reached
  <2>3. s \in Snapshot /\ SnapshotOK(committed, s)
    BY <2>2 DEF Snapshot, SnapshotOK, LogEntry, Chain
  <2>4. s.blk.num <= d.last.num
    BY <2>2 DEF Reached, Num
  <2> HIDE DEF s
  <2> QED  BY <1>0, <2>0, <2>3, <2>4
<1> QED  BY <1>1, <1>2

(* The last block of a ledger is a committed one.                          *)
LEMMA LastInLog ==
  ASSUME NEW c, NEW l \in Seq(Written), Ledgered(c, l)
  PROVE  /\ Len(l) \in Nat /\ Len(l) \in DOMAIN l /\ DOMAIN l = 1 .. Len(l)
         /\ InLog(committed, c.last) /\ c.last.num = Len(l) - 1
<1>1. Len(l) \in Nat /\ Len(l) \in DOMAIN l /\ DOMAIN l = 1 .. Len(l)
  BY EmptySeq, LenProperties DEF Ledgered
<1>2. WrittenOK(committed, l[Len(l)], Len(l) - 1)
  BY <1>1 DEF Ledgered
<1> QED  BY <1>1, <1>2 DEF Ledgered, WrittenOK

(* The end of every case of apply.                                         *)
LEMMA ApplyEnds ==
  ASSUME IInv, NEW n \in Node, NEW d \in Chain,
         chain' = [chain EXCEPT ![n] = AfterApply(n, d)],
         UNCHANGED <<mode, raftVars, inputVars, crashes>>,
         ledger' \in [Node -> Seq(Written)], snap' \in [Node -> Snapshot], snaps' \in Nat,
         \A m \in Node \ {n} : ledger'[m] = ledger[m] /\ snap'[m] = snap[m],
         Leading(n, d, cutter[n].msgs), Ledgered(d, ledger'[n]), Indexed(d, snap'[n])
  PROVE  IInv'
<1>0. Types
  BY DEF IInv
<1> DEFINE X == AfterApply(n, d)
<1>1. InLog(committed, d.last) /\ Reached(committed, d.applied, d.last)
  <2>1. ledger'[n] \in Seq(Written)
    OBVIOUS
  <2> QED  BY <2>1, LastInLog DEF Indexed
<1>2. Leading(n, X, cutter[n].msgs)
  BY <1>1, AfterApplyLeading
<1>3. X \in Chain /\ SameIndex(X, d)
  BY <1>0, AfterApplyEffect
<1> HIDE DEF X
<1>4. Ledgered(X, ledger'[n]) /\ Indexed(X, snap'[n])
  BY <1>3 DEF Ledgered, Indexed, SameIndex
<1>5. UNCHANGED <<cutter, outbox, net, unsent, mode, raftVars, crashes>>
  BY DEF inputVars
<1>6. /\ cutter' \in [Node -> Receiver] /\ outbox' \in [Node -> Batches]
      /\ net' \subseteq [to : Node, batches : Batches \ {<< >>}]
      /\ unsent' \subseteq Tx /\ crashes' \in Nat
  BY <1>0, <1>5 DEF Types
<1>7. chain' = [chain EXCEPT ![n] = X] /\ Leading(n, X, cutter'[n].msgs)
  BY <1>2, <1>5 DEF X
<1> QED  BY <1>3, <1>4, <1>5, <1>6, <1>7, LocalStep

LEMMA SkipEntryKeeps ==
  ASSUME IInv, SnapshotsRead', NEW n \in Node, SkipEntry(n)
  PROVE  IInv'
<1> DEFINE c == chain[n]
           d == Advance(c)
           e == NextEntry(n)
<1>0. Types
  BY DEF IInv
<1>1. /\ CanRead(n) /\ chain' = [chain EXCEPT ![n] = AfterApply(n, d)]
      /\ UNCHANGED <<mode, raftVars, ledger, inputVars, crashes>>
      /\ \/ e.type = "empty" /\ UNCHANGED <<snap, snaps>>
         \/ /\ e.type = "block"
            /\ c.read + 1 <= c.applied \/ e.blk.num <= c.last.num
            /\ MaybeSnapshot(n, d)
  BY DEF SkipEntry
<1>2. /\ c \in Chain /\ c.read \in Nat /\ c.applied \in Nat /\ c.read <= c.applied
      /\ c.read + 1 \in 0 .. Len(committed)
      /\ e.type = "block" => e.blk = Tip(committed)[c.read + 1]
      /\ e.type # "block" => Num(committed, c.read + 1) = Num(committed, c.read)
  BY <1>1, ReadEntry
<1>3. c.applied > c.read \/ Num(committed, c.read + 1) <= c.last.num
  <2> HIDE DEF c, e
  <2>1. CASE c.applied > c.read
    BY <2>1
  <2>2. CASE e.type = "empty" /\ c.applied = c.read
    <3>1. Num(committed, c.read) <= c.last.num
      BY <2>2 DEF IInv, WriteInv, IndexOK, Indexed, Reached, c
    <3> QED  BY <1>2, <2>2, <3>1
  <2>3. CASE e.type = "block" /\ c.applied = c.read
    BY <1>1, <1>2, <2>3 DEF Num
  <2> QED  BY <1>1, <1>2, <2>1, <2>2, <2>3
<1>4. /\ d \in Chain /\ Leading(n, d, cutter[n].msgs)
      /\ Ledgered(d, ledger[n]) /\ Indexed(d, snap[n])
  BY <1>1, <1>3, AdvanceIndexed
<1>5. d.read = c.read + 1 /\ d.read <= d.applied /\ snap'[n].idx <= d.read
  BY <1>0, <1>1, <1>2, <1>4, AdvanceEffect, AdvanceReads, SnapshotBehind
<1> HIDE DEF d
<1>6. /\ snap' \in [Node -> Snapshot] /\ snaps' \in Nat
      /\ SnapshotOK(committed, snap'[n]) /\ snap'[n].blk.num <= d.last.num
      /\ \A m \in Node \ {n} : snap'[m] = snap[m]
  <2>1. CASE UNCHANGED <<snap, snaps>>
    BY <1>0, <1>4, <2>1 DEF Types, Indexed
  <2>2. CASE e.type = "block" /\ MaybeSnapshot(n, d)
    BY <1>1, <1>4, <1>5, <2>2, SnapshotTaken DEF Indexed
  <2> QED  BY <1>1, <2>1, <2>2
<1>7. Indexed(d, snap'[n])
  BY <1>4, <1>6 DEF Indexed
<1>8. ledger' = ledger /\ ledger \in [Node -> Seq(Written)]
  BY <1>0, <1>1 DEF Types
<1> QED  BY <1>1, <1>4, <1>6, <1>7, <1>8, ApplyEnds

LEMMA ApplyConfChangeKeeps ==
  ASSUME IInv, NEW n \in Node, ApplyConfChange(n)
  PROVE  IInv'
<1> DEFINE c == Advance(chain[n])
           t == NextEntry(n).blk.data[1]
           d == [c EXCEPT !.conf = @ \cup {t}]
           f == IF c.confChange # t THEN d
                ELSE [d EXCEPT !.confChange = Nil, !.configInflight = FALSE]
<1>0. Types
  BY DEF IInv
<1>1. /\ CanRead(n) /\ NextEntry(n).type = "conf"
      /\ chain' = [chain EXCEPT ![n] = AfterApply(n, f)]
      /\ UNCHANGED <<mode, raftVars, ledger, snap, inputVars, crashes, snaps>>
  BY DEF ApplyConfChange
<1>2. /\ NextEntry(n) \in LogEntry /\ chain[n].read \in Nat /\ chain[n].applied \in Nat
      /\ chain[n].read <= chain[n].applied
      /\ Num(committed, chain[n].read + 1) = Num(committed, chain[n].read)
  BY <1>1, ReadEntry
<1>3. t \in Tx
  <2>1. NextEntry(n).blk.data \in Seq(Tx) /\ NextEntry(n).blk.data # << >>
    BY <1>1, <1>2 DEF LogEntry, Block, Tx
  <2>2. 1 \in 1 .. Len(NextEntry(n).blk.data)
    BY <2>1, EmptySeq
  <2> QED  BY <2>1, <2>2, ElementOfSeq
<1>4. chain[n].applied > chain[n].read \/ Num(committed, chain[n].read + 1) <= chain[n].last.num
  <2>1. Num(committed, chain[n].applied) <= chain[n].last.num
    BY DEF IInv, WriteInv, IndexOK, Indexed, Reached
  <2> QED  BY <1>2, <2>1
<1>5. /\ c \in Chain /\ Leading(n, c, cutter[n].msgs)
      /\ Ledgered(c, ledger[n]) /\ Indexed(c, snap[n])
  BY <1>1, <1>4, AdvanceIndexed
<1> HIDE DEF c, t
<1>6. f \in Chain /\ SameLead(f, c) /\ SameIndex(f, c)
  BY <1>3, <1>5 DEF Chain, SameLead, SameIndex
<1> HIDE DEF f
<1>7. Leading(n, f, cutter[n].msgs) /\ Ledgered(f, ledger[n]) /\ Indexed(f, snap[n])
  BY <1>5, <1>6 DEF Leading, Serving, Ledgered, Indexed, SameLead, SameIndex
<1>8. /\ ledger' = ledger /\ ledger \in [Node -> Seq(Written)]
      /\ snap' = snap /\ snap \in [Node -> Snapshot] /\ snaps' \in Nat
  BY <1>0, <1>1 DEF Types
<1> QED  BY <1>1, <1>6, <1>7, <1>8, ApplyEnds

LEMMA WroteBlockEffect ==
  ASSUME NEW c \in Chain, NEW b \in Block
  PROVE  /\ WroteBlock(c, b) \in Chain /\ SameLead(WroteBlock(c, b), c)
         /\ WroteBlock(c, b).last = b /\ WroteBlock(c, b).applied = c.applied
         /\ WroteBlock(c, b).read = c.read
         /\ WroteBlock(c, b).raftIndex \in {c.read, c.raftIndex}
<1> DEFINE k == IF c.blockInflight > 0 THEN c.blockInflight - 1 ELSE 0
           d == [c EXCEPT !.last = b, !.blockInflight = k]
<1>1. k \in Nat
  BY DEF Chain
<1>2. WroteBlock(c, b) =
        IF ~IsConfigBlock(b) THEN [d EXCEPT !.raftIndex = c.read]
        ELSE IF b.data[1] \in MemberTx
        THEN [d EXCEPT !.confProps = @ \cup {b.data[1]}, !.confChange = b.data[1],
                       !.configInflight = TRUE]
        ELSE [d EXCEPT !.configInflight = FALSE]
  BY DEF WroteBlock, Chain
<1> HIDE DEF k
<1>3. /\ d \in Chain /\ SameLead(d, c) /\ d.last = b /\ d.applied = c.applied /\ d.read = c.read
      /\ d.raftIndex = c.raftIndex
  BY <1>1 DEF Chain, SameLead
<1> HIDE DEF d
<1>4. c.read \in Nat /\ MemberTx \subseteq Tx
  BY ChainAssumption DEF Chain, Tx
<1>5. CASE ~IsConfigBlock(b)
  <2>1. WroteBlock(c, b) = [d EXCEPT !.raftIndex = c.read]
    BY <1>2, <1>5
  <2>2. [d EXCEPT !.raftIndex = c.read].raftIndex = c.read
    BY <1>3 DEF Chain
  <2> QED  BY <1>3, <1>4, <2>1, <2>2 DEF Chain, SameLead
<1>6. CASE IsConfigBlock(b) /\ b.data[1] \in MemberTx
  <2> DEFINE t == b.data[1]
             q == d.confProps \cup {t}
  <2>1. WroteBlock(c, b) = [d EXCEPT !.confProps = q, !.confChange = t, !.configInflight = TRUE]
    BY <1>2, <1>3, <1>6 DEF Chain
  <2>2. t \in Tx /\ q \subseteq Tx
    BY <1>3, <1>4, <1>6 DEF Chain
  <2> HIDE DEF t, q
  <2>3. WroteBlock(c, b) \in Chain
    BY <1>3, <2>1, <2>2 DEF Chain
  <2>4. /\ SameLead(WroteBlock(c, b), d) /\ SameIndex(WroteBlock(c, b), d)
    BY <1>3, <2>1, <2>2 DEF Chain, SameLead, SameIndex
  <2> QED  BY <1>3, <2>3, <2>4 DEF SameLead, SameIndex
<1>7. CASE IsConfigBlock(b) /\ b.data[1] \notin MemberTx
  <2>1. WroteBlock(c, b) = [d EXCEPT !.configInflight = FALSE]
    BY <1>2, <1>7
  <2> QED  BY <1>3, <2>1 DEF Chain, SameLead
<1> QED  BY <1>5, <1>6, <1>7

(* One more entry on a ledger.                                             *)
LEMMA LedgerAppend ==
  ASSUME NEW c, NEW d, NEW l \in Seq(Written), NEW e \in Written,
         Ledgered(c, l), WrittenOK(committed, e, Len(l)), d.last = e.blk
  PROVE  /\ l \o <<e>> \in Seq(Written) /\ Append(l, e) = l \o <<e>>
         /\ Ledgered(d, l \o <<e>>)
<1> DEFINE r == Append(l, e)
<1>1. /\ r \in Seq(Written) /\ r # << >> /\ Len(r) = Len(l) + 1 /\ r[Len(l) + 1] = e
      /\ \A i \in 1 .. Len(l) : r[i] = l[i]
      /\ r = l \o <<e>> /\ DOMAIN r = 1 .. Len(r) /\ Len(l) \in Nat
  BY AppendProperties, AppendIsConcat, LenProperties
<1> HIDE DEF r
<1>2. ASSUME NEW k \in DOMAIN r PROVE WrittenOK(committed, r[k], k - 1)
  <2>1. CASE k \in 1 .. Len(l)
    <3>1. k \in DOMAIN l /\ r[k] = l[k]
      BY <1>1, <2>1
    <3> QED  BY <3>1 DEF Ledgered
  <2>2. CASE k = Len(l) + 1
    <3>1. k - 1 = Len(l) /\ r[k] = e
      BY <1>1, <2>2
    <3> QED  BY <3>1
  <2> QED  BY <1>1, <2>1, <2>2
<1>3. Ledgered(d, r)
  BY <1>1, <1>2 DEF Ledgered
<1> QED  BY <1>1, <1>3 DEF r

LEMMA ApplyBlockKeeps ==
  ASSUME IInv, SnapshotsRead', NEW n \in Node, ApplyBlock(n)
  PROVE  IInv'
<1> DEFINE o == chain[n]
           c == Advance(o)
           b == NextEntry(n).blk
           d == WroteBlock(c, b)
           e == [blk |-> b, idx |-> d.raftIndex]
<1>0. /\ Types /\ Leading(n, o, cutter[n].msgs)
      /\ Ledgered(o, ledger[n]) /\ Indexed(o, snap[n])
  BY DEF IInv, LeaderInv, LeaderOK, WriteInv, LedgerOK, IndexOK
<1>1. /\ CanRead(n) /\ NextEntry(n).type = "block" /\ c.read > o.applied /\ b.num = c.last.num + 1
      /\ ledger' = [ledger EXCEPT ![n] = ledger[n] \o <<e>>]
      /\ chain' = [chain EXCEPT ![n] = AfterApply(n, d)]
      /\ MaybeSnapshot(n, d) /\ UNCHANGED <<mode, raftVars, inputVars, crashes>>
  BY DEF ApplyBlock, WriteBlocks
<1>2. /\ o \in Chain /\ o.read \in Nat /\ o.applied \in Nat /\ o.read <= o.applied
      /\ o.read + 1 \in 0 .. Len(committed)
      /\ NextEntry(n) \in LogEntry /\ b = Tip(committed)[o.read + 1]
  BY <1>1, ReadEntry
<1>3. b \in Block
  BY <1>2 DEF LogEntry
<1>4. /\ c \in Chain /\ SameLead(c, o) /\ c.last = o.last /\ c.raftIndex = o.raftIndex
      /\ c.read = o.read + 1 /\ c.applied = IF o.applied > o.read THEN o.applied ELSE o.read + 1
  BY <1>2, AdvanceEffect
<1> HIDE DEF c, b
<1>5. o.applied = o.read /\ c.applied = o.read + 1
  BY <1>1, <1>2, <1>4
<1>6. /\ d \in Chain /\ SameLead(d, c) /\ d.last = b /\ d.applied = c.applied
      /\ d.read = c.read /\ d.raftIndex \in {c.read, c.raftIndex}
  BY <1>3, <1>4, WroteBlockEffect
<1> HIDE DEF d
<1>7. /\ Len(ledger[n]) \in Nat /\ o.last.num = Len(ledger[n]) - 1 /\ b.num = Len(ledger[n])
      /\ ledger[n] \in Seq(Written)
  <2>1. ledger[n] \in Seq(Written)
    BY <1>0 DEF Types
  <2>2. Len(ledger[n]) \in Nat /\ o.last.num = Len(ledger[n]) - 1
    BY <1>0, <2>1, LastInLog
  <2> QED  BY <1>1, <1>4, <2>1, <2>2
<1>8. Reached(committed, o.read + 1, b)
  BY <1>2, <1>3 DEF Reached, Num, Block
<1>9. Reached(committed, d.raftIndex, b) /\ d.raftIndex \in Nat
  <2>1. CASE d.raftIndex = c.read
    BY <1>2, <1>4, <1>8, <2>1
  <2>2. CASE d.raftIndex = c.raftIndex
    <3>1. Num(committed, o.raftIndex) <= o.last.num /\ o.raftIndex <= Len(committed)
      BY <1>0 DEF Indexed, Reached
    <3>2. Num(committed, o.raftIndex) \in Nat /\ o.raftIndex \in Nat
      <4>1. o.raftIndex \in Nat /\ committed \in Seq(LogEntry) /\ Len(committed) \in Nat
        BY <1>0, <1>2, LogTypes DEF Chain
      <4>2. o.raftIndex \in 0 .. Len(committed)
        BY <3>1, <4>1
      <4> QED  BY <4>1, <4>2, TipDef DEF Num, Block
    <3> HIDE DEF o
    <3> QED  BY <1>4, <1>7, <2>2, <3>1, <3>2 DEF Reached
  <2> QED  BY <1>6, <2>1, <2>2
<1>10. e \in Written /\ WrittenOK(committed, e, Len(ledger[n])) /\ d.last = e.blk
  <2>1. InLog(committed, b)
    BY <1>2 DEF InLog
  <2> QED  BY <1>3, <1>6, <1>7, <1>9, <2>1 DEF Written, WrittenOK, Reached
<1> HIDE DEF e
<1>11. ledger[n] \o <<e>> \in Seq(Written) /\ Ledgered(d, ledger[n] \o <<e>>)
  BY <1>0, <1>7, <1>10, LedgerAppend
<1>12. /\ ledger' \in [Node -> Seq(Written)] /\ ledger'[n] = ledger[n] \o <<e>>
       /\ \A m \in Node \ {n} : ledger'[m] = ledger[m]
  BY <1>0, <1>1, <1>11 DEF Types
<1>13. Leading(n, d, cutter[n].msgs)
  BY <1>0, <1>4, <1>6 DEF Leading, Serving, SameLead
<1>14. Reached(committed, d.applied, d.last)
  BY <1>5, <1>6, <1>8
<1>15. SnapshotOK(committed, snap[n]) /\ snap[n].blk.num <= d.last.num
  <2>1. SnapshotOK(committed, snap[n]) /\ snap[n].blk.num <= o.last.num /\ snap[n].blk.num \in Nat
    BY <1>0 DEF Indexed, Types, Snapshot, Block
  <2> HIDE DEF o
  <2> QED  BY <1>6, <1>7, <2>1
<1>16. /\ snap' \in [Node -> Snapshot] /\ snaps' \in Nat
       /\ SnapshotOK(committed, snap'[n]) /\ snap'[n].blk.num <= d.last.num
       /\ \A m \in Node \ {n} : snap'[m] = snap[m]
  <2>1. d.read <= d.applied
    BY <1>2, <1>4, <1>5, <1>6
  <2>2. snap'[n].idx <= d.read
    BY <1>0, <1>1, <1>6, SnapshotBehind
  <2> QED  BY <1>1, <1>4, <1>6, <1>14, <1>15, <2>1, <2>2, SnapshotTaken
<1>17. Indexed(d, snap'[n])
  BY <1>2, <1>4, <1>5, <1>6, <1>9, <1>14, <1>16 DEF Indexed
<1> QED  BY <1>1, <1>6, <1>11, <1>12, <1>13, <1>16, <1>17, ApplyEnds
-----------------------------------------------------------------------------
(***************************************************************************)
(* Proposing.                                                              *)
(***************************************************************************)

(* The first block of a queue extends the log, and the rest extends it.    *)
LEMMA LeadsPop ==
  ASSUME NEW t \in Block, NEW q \in Seq(Block), NEW b, q # << >>, Leads(t, q, b)
  PROVE  Head(q) = NextBlock(t, Head(q).data) /\ Leads(Head(q), Tail(q), b)
<1> DEFINE r == Tail(q)
           h == Head(q)
<1>1. /\ r \in Seq(Block) /\ Len(r) = Len(q) - 1 /\ \A i \in 1 .. Len(r) : r[i] = q[i + 1]
      /\ Len(q) \in Nat \ {0} /\ Len(r) \in Nat /\ DOMAIN r = 1 .. Len(r) /\ DOMAIN q = 1 .. Len(q)
  BY HeadTailProperties, EmptySeq, LenProperties
<1>2. h = q[1] /\ 1 \in DOMAIN q
  BY <1>1
<1> HIDE DEF r, h
<1>3. h = NextBlock(t, h.data)
  BY <1>2 DEF Leads
<1>4. ASSUME NEW i \in DOMAIN r
      PROVE  r[i] = NextBlock(IF i = 1 THEN h ELSE r[i - 1], r[i].data)
  <2>1. i \in 1 .. Len(r) /\ i + 1 \in DOMAIN q /\ i + 1 # 1 /\ (i + 1) - 1 = i
    BY <1>1
  <2>2. q[i + 1] = NextBlock(q[i], q[i + 1].data)
    BY <2>1 DEF Leads
  <2>3. CASE i = 1
    BY <1>1, <1>2, <2>1, <2>2, <2>3
  <2>4. CASE i # 1
    <3>1. i - 1 \in 1 .. Len(r) /\ (i - 1) + 1 = i
      BY <1>1, <2>1, <2>4
    <3>2. r[i - 1] = q[i] /\ r[i] = q[i + 1]
      BY <1>1, <2>1, <3>1
    <3> QED  BY <2>2, <2>4, <3>2
  <2> QED  BY <2>3, <2>4
<1>5. b = IF r = << >> THEN h ELSE r[Len(r)]
  <2>1. b = q[Len(q)]
    BY DEF Leads
  <2>2. CASE r = << >>
    <3>1. Len(q) = 1
      BY <1>1, <2>2, EmptySeq
    <3> QED  BY <1>2, <2>1, <2>2, <3>1
  <2>3. CASE r # << >>
    <3>1. Len(r) \in 1 .. Len(r) /\ Len(r) + 1 = Len(q)
      BY <1>1, <2>3, EmptySeq
    <3>2. r[Len(r)] = q[Len(q)]
      BY <1>1, <3>1
    <3> QED  BY <2>1, <2>3, <3>2
  <2> QED  BY <2>2, <2>3
<1> QED  BY <1>3, <1>4, <1>5 DEF Leads, r, h

LEMMA ProposeKeeps ==
  ASSUME IInv, NEW n \in Node, Propose(n)
  PROVE  IInv'
<1> DEFINE c == chain[n]
           q == c.propC
           e == Entry(raft[n].term, "block", Head(q), chain[n].conf)
           p == IF raft[n].role = "leader" THEN c.proposer ELSE "quit"
<1>0. /\ Types /\ TermInv /\ LogInv /\ Leading(n, c, cutter[n].msgs)
      /\ Ledgered(c, ledger[n]) /\ Indexed(c, snap[n])
  BY DEF IInv, LeaderInv, LeaderOK, WriteInv, LedgerOK, IndexOK
<1>1. c \in Chain /\ q \in Seq(Block) /\ q # << >>
  BY <1>0 DEF Types, Chain, Propose
<1>2. /\ Head(q) \in Block /\ Tail(q) \in Seq(Block) /\ Len(Tail(q)) = Len(q) - 1
      /\ Len(q) \in Nat
  BY <1>1, HeadTailProperties, LenProperties
<1>3. Serving(n, c) /\ c.bc # Nil
  BY <1>0, <1>1 DEF Leading
<1>4. UNCHANGED <<mode, term, raft, committed, ledger, snap, inputVars, crashes, snaps>>
  BY DEF Propose
<1>5. UNCHANGED <<cutter, outbox, net, unsent>>
  BY <1>4 DEF inputVars
<1>6. chain' = [chain EXCEPT ![n] = [c EXCEPT !.propC = Tail(q), !.proposer = p]]
      /\ IF raft[n].role = "leader" THEN log' = [log EXCEPT ![n] = Append(log[n], e)]
         ELSE UNCHANGED log
  <2>1. [c EXCEPT !.propC = Tail(@)] = [c EXCEPT !.propC = Tail(q)]
    BY <1>1 DEF Chain
  <2>2. raft[n].role = "leader" => raft[n].lead = n
    BY <1>0 DEF TermInv, TermOK
  <2>3. CASE raft[n].role = "leader"
    <3>1. /\ chain' = [chain EXCEPT ![n] = [c EXCEPT !.propC = Tail(q)]]
          /\ log' = [log EXCEPT ![n] = Append(log[n], e)]
      BY <1>0, <2>1, <2>2, <2>3 DEF Propose, Types
    <3>2. [c EXCEPT !.propC = Tail(q)] = [c EXCEPT !.propC = Tail(q), !.proposer = c.proposer]
      BY <1>1 DEF Chain
    <3> QED  BY <2>3, <3>1, <3>2
  <2>4. CASE raft[n].role # "leader"
    <3>1. chain' = [chain EXCEPT ![n] = [[c EXCEPT !.propC = Tail(q)] EXCEPT !.proposer = "quit"]]
          /\ UNCHANGED log
      BY <2>1, <2>4 DEF Propose
    <3>2. [[c EXCEPT !.propC = Tail(q)] EXCEPT !.proposer = "quit"]
            = [c EXCEPT !.propC = Tail(q), !.proposer = "quit"]
      BY <1>1 DEF Chain
    <3> QED  BY <2>4, <3>1, <3>2
  <2> QED  BY <2>3, <2>4
<1> DEFINE X == [c EXCEPT !.propC = Tail(q), !.proposer = p]
<1>7. /\ X \in Chain /\ X.propC = Tail(q) /\ X.lead = c.lead /\ X.bc = c.bc /\ X.open = c.open
      /\ X.justElected = c.justElected /\ SameIndex(X, c)
  <2>1. p \in {"none", "running", "quit"}
    BY <1>1 DEF Chain
  <2> HIDE DEF p, c, q
  <2> QED  BY <1>1, <1>2, <2>1 DEF Chain, SameIndex, q
<1> HIDE DEF X
<1>8. /\ chain' \in [Node -> Chain] /\ chain'[n] = X
      /\ \A m \in Node \ {n} : chain'[m] = chain[m]
  BY <1>0, <1>6, <1>7 DEF Types, X
<1>9. /\ e \in LogEntry /\ e.term = raft[n].term /\ e.type = "block" /\ e.blk = Head(q)
  <2>1. chain[n].conf \in SUBSET Tx
    BY <1>1 DEF Chain
  <2> QED  BY <1>0, <1>2, <2>1, LogTypes, EntryType
<1> HIDE DEF e
<1>10. /\ Append(log[n], e) \in Seq(LogEntry) /\ Len(Append(log[n], e)) = Len(log[n]) + 1
       /\ Tip(Append(log[n], e))[Len(log[n]) + 1] = Head(q)
  BY <1>0, <1>9, LogTypes, AppendLog DEF TipStep
<1>11. Tip(log[n])[Len(log[n])] \in Block
  <2>1. Len(log[n]) \in 0 .. Len(log[n])
    BY <1>0, LogTypes
  <2> QED  BY <1>0, <2>1, TipDef, LogTypes
<1>12. ASSUME raft[n].role = "leader", Extends(log[n], committed)
       PROVE  Head(q) = NextBlock(Tip(log[n])[Len(log[n])], Head(q).data)
              /\ Leads(Head(q), Tail(q), c.bc)
  <2>1. Leads(Tip(log[n])[Len(log[n])], q, c.bc)
    BY <1>0, <1>3, <1>12 DEF Leading
  <2> QED  BY <1>1, <1>11, <2>1, LeadsPop
<1>13. /\ TermInv' /\ LogInv'
       /\ raft[n].role = "leader" =>
            (Extends(log[n], committed)' => Extends(log[n], committed))
       /\ log' \in [Node -> Seq(LogEntry)] /\ \A m \in Node \ {n} : log'[m] = log[m]
  <2>1. CASE raft[n].role = "leader"
    <3>1. log' = [log EXCEPT ![n] = Append(log[n], e)]
      BY <1>6, <2>1
    <3>2. /\ log'[n] = Append(log[n], e) /\ log' \in [Node -> Seq(LogEntry)]
          /\ \A m \in Node \ {n} : log'[m] = log[m]
      BY <1>0, <1>10, <3>1 DEF Types
    <3> QED  BY <1>0, <1>4, <1>9, <1>12, <2>1, <3>2, LeaderLogs
  <2>2. CASE raft[n].role # "leader"
    <3>1. log' = log /\ log \in [Node -> Seq(LogEntry)]
      BY <1>0, <1>6, <2>2 DEF Types
    <3>2. raft[n].term <= term /\ (\A i \in DOMAIN log[n] : log[n][i].term <= term)
          /\ (Extends(log[n], committed) => Chained(log[n]))
      BY <1>0 DEF TermInv, TermOK, LogInv
    <3> QED  BY <1>0, <1>4, <2>2, <3>1, <3>2, FollowerLogs
  <2> QED  BY <2>1, <2>2
<1>14. Types'
  BY <1>0, <1>4, <1>5, <1>8, <1>13 DEF Types
<1>15. LeaderOK(n)'
  <2>1. Serving(n, X)
    BY <1>3, <1>7 DEF Serving
  <2>2. Len(Tail(q)) <= MaxInflightBlocks + 1
    <3>1. Len(q) <= MaxInflightBlocks + 1
      BY <1>0 DEF Leading
    <3> HIDE DEF q
    <3> QED  BY <1>2, <3>1, ChainAssumption
  <2>3. ASSUME raft'[n].role = "leader", Extends(log[n], committed)'
        PROVE  Leads(Tip(log[n])[Len(log[n])], chain[n].propC, chain[n].bc)'
    <3>1. raft[n].role = "leader" /\ Extends(log[n], committed)
      BY <1>4, <1>13, <2>3
    <3>2. log'[n] = Append(log[n], e)
      BY <1>0, <1>6, <3>1 DEF Types
    <3>3. Tip(log'[n])[Len(log'[n])] = Head(q)
      BY <1>10, <3>2
    <3>4. chain'[n].propC = Tail(q) /\ chain'[n].bc = c.bc
      BY <1>7, <1>8
    <3> QED  BY <1>12, <3>1, <3>3, <3>4
  <2>4. (Serving(n, chain[n]))' /\ chain'[n].bc # Nil /\ ~chain'[n].justElected
        /\ chain'[n].propC = Tail(q)
    BY <1>3, <1>7, <1>8, <2>1 DEF Serving
  <2> QED  BY <2>2, <2>3, <2>4 DEF LeaderOK, Leading
<1>16. LedgerOK(n)' /\ IndexOK(n)'
  <2>1. Ledgered(X, ledger[n]) /\ Indexed(X, snap[n])
    BY <1>0, <1>7 DEF Ledgered, Indexed, SameIndex
  <2> QED  BY <1>4, <1>8, <2>1 DEF LedgerOK, IndexOK, Ledgered, Indexed
<1> QED  BY <1>4, <1>5, <1>8, <1>13, <1>14, <1>15, <1>16, OwnStep

LEMMA ProposeConfChangeKeeps ==
  ASSUME IInv, NEW n \in Node, ProposeConfChange(n)
  PROVE  IInv'
<1> DEFINE c == chain[n]
           refused == raft[n].pending > c.read
<1>0. /\ Types /\ TermInv /\ LogInv /\ LeaderOK(n)
      /\ Ledgered(c, ledger[n]) /\ Indexed(c, snap[n])
  BY DEF IInv, LeaderInv, WriteInv, LedgerOK, IndexOK
<1>1. c \in Chain
  BY <1>0 DEF Types
<1>2. PICK t \in c.confProps :
        /\ chain' = [chain EXCEPT ![n].confProps = @ \ {t}]
        /\ IF raft[n].role # "leader" THEN UNCHANGED <<raft, log>>
           ELSE /\ log' = [log EXCEPT ![n] = Append(@,
                       IF refused THEN Entry(raft[n].term, "empty", Genesis, {})
                       ELSE Entry(raft[n].term, "conf", [Genesis EXCEPT !.data = <<t>>], {}))]
                /\ raft' = [raft EXCEPT ![n].pending = IF refused THEN @ ELSE Len(log[n]) + 1]
        /\ UNCHANGED <<mode, term, committed, ledger, snap, inputVars, crashes, snaps>>
  BY DEF ProposeConfChange
<1> DEFINE cfg == [Genesis EXCEPT !.data = <<t>>]
           e == IF refused THEN Entry(raft[n].term, "empty", Genesis, {})
                ELSE Entry(raft[n].term, "conf", cfg, {})
           p == IF refused THEN raft[n].pending ELSE Len(log[n]) + 1
           X == [c EXCEPT !.confProps = c.confProps \ {t}]
<1>3. UNCHANGED <<cutter, outbox, net, unsent, mode, term, committed, ledger, snap, crashes, snaps>>
  BY <1>2 DEF inputVars
<1>4. t \in Tx
  BY <1>1 DEF Chain
<1>5. cfg \in Block /\ cfg.data # << >>
  <2>1. <<t>> \in Seq(Tx) /\ <<t>> # << >>
    BY <1>4
  <2>2. cfg = [num |-> 0, prev |-> << >>, data |-> <<t>>]
    BY DEF Genesis
  <2>3. << >> \in Seq(Seq(Tx))
    BY EmptySeq
  <2> HIDE DEF cfg
  <2> QED  BY <2>1, <2>2, <2>3 DEF Block, Tx
<1>6. e \in LogEntry /\ e.term = raft[n].term /\ e.type # "block"
  <2> HIDE DEF cfg, refused
  <2>1. raft[n].term \in Nat
    BY <1>0, LogTypes
  <2>2. /\ Entry(raft[n].term, "empty", Genesis, {}) \in LogEntry
        /\ Entry(raft[n].term, "empty", Genesis, {}).term = raft[n].term
        /\ Entry(raft[n].term, "empty", Genesis, {}).type = "empty"
    BY <2>1, GenesisType, EntryType
  <2>3. /\ Entry(raft[n].term, "conf", cfg, {}) \in LogEntry
        /\ Entry(raft[n].term, "conf", cfg, {}).term = raft[n].term
        /\ Entry(raft[n].term, "conf", cfg, {}).type = "conf"
    BY <1>5, <2>1, EntryType
  <2> QED  BY <2>2, <2>3
<1>7. p \in Nat
  BY <1>0, LogTypes DEF Types
<1>8. /\ chain' = [chain EXCEPT ![n] = X] /\ X \in Chain /\ SameLead(X, c) /\ SameIndex(X, c)
  <2>1. chain' = [chain EXCEPT ![n] = X]
    BY <1>0, <1>2 DEF Types
  <2>2. c.confProps \ {t} \subseteq Tx
    BY <1>1 DEF Chain
  <2>3. X \in Chain /\ SameLead(X, c) /\ SameIndex(X, c)
    BY <1>1, <2>2 DEF Chain, SameLead, SameIndex
  <2> QED  BY <2>1, <2>3
<1> HIDE DEF X, e, p
<1>9. /\ chain' \in [Node -> Chain] /\ chain'[n] = X
      /\ \A m \in Node \ {n} : chain'[m] = chain[m]
  BY <1>0, <1>8 DEF Types
<1>10. CASE raft[n].role # "leader"
  <2>1. UNCHANGED <<raft, log>>
    BY <1>2, <1>10
  <2>2. TermInv' /\ LogInv'
    <3>1. raft[n].term <= term /\ (\A i \in DOMAIN log[n] : log[n][i].term <= term)
          /\ (Extends(log[n], committed) => Chained(log[n]))
      BY <1>0 DEF TermInv, TermOK, LogInv
    <3> QED  BY <1>0, <1>3, <1>10, <2>1, <3>1, FollowerLogs
  <2>3. Types'
    BY <1>0, <1>3, <1>9, <2>1 DEF Types
  <2>4. LeaderOK(n)'
    BY <1>0, <1>3, <1>8, <1>9, <1>10, <2>1, LeaderFrame
  <2>5. LedgerOK(n)' /\ IndexOK(n)'
    BY <1>0, <1>3, <1>8, <1>9 DEF LedgerOK, IndexOK, Ledgered, Indexed, SameIndex
  <2> QED  BY <1>3, <1>9, <2>1, <2>2, <2>3, <2>4, <2>5, OwnStep
<1>11. CASE raft[n].role = "leader"
  <2> DEFINE R == [raft[n] EXCEPT !.pending = p]
             T == [role : {"follower", "candidate", "leader"}, lead : Node \cup {Nil},
                   term : 0 .. MaxTerm, pending : Nat]
  <2>1. log' = [log EXCEPT ![n] = Append(log[n], e)] /\ raft' = [raft EXCEPT ![n] = R]
    BY <1>0, <1>2, <1>11 DEF Types, e, p
  <2>2. /\ R \in T /\ R.role = "leader" /\ R.term = raft[n].term /\ R.lead = raft[n].lead
    <3>1. raft[n] \in T
      BY <1>0 DEF Types
    <3> QED  BY <1>7, <1>11, <3>1
  <2> HIDE DEF R
  <2>3. /\ Append(log[n], e) \in Seq(LogEntry) /\ Len(Append(log[n], e)) = Len(log[n]) + 1
        /\ Tip(Append(log[n], e))[Len(log[n]) + 1] = Tip(log[n])[Len(log[n])]
    BY <1>0, <1>6, LogTypes, AppendLog DEF TipStep
  <2>4. /\ log' \in [Node -> Seq(LogEntry)] /\ log'[n] = Append(log[n], e)
        /\ raft' \in [Node -> T] /\ raft'[n] = R
        /\ \A m \in Node \ {n} : log'[m] = log[m] /\ raft'[m] = raft[m]
    BY <1>0, <2>1, <2>2, <2>3 DEF Types
  <2>5. /\ TermInv' /\ LogInv'
        /\ Extends(log[n], committed)' => Extends(log[n], committed)
    BY <1>0, <1>3, <1>6, <1>11, <2>2, <2>4, LeaderLogs
  <2>6. Types'
    BY <1>0, <1>3, <1>9, <2>4 DEF Types
  <2>7. LeaderOK(n)'
    <3>1. Tip(log'[n])[Len(log'[n])] = Tip(log[n])[Len(log[n])]
      BY <2>3, <2>4
    <3>2. Serving(n, chain[n])' <=> Serving(n, c)
      BY <1>8, <1>9 DEF Serving, SameLead
    <3>3. chain'[n].propC = c.propC /\ chain'[n].bc = c.bc /\ chain'[n].open = c.open
          /\ chain'[n].lead = c.lead /\ chain'[n].justElected = c.justElected
      BY <1>8, <1>9 DEF SameLead
    <3> HIDE DEF c
    <3>4. Leading(n, c, cutter[n].msgs)
      BY <1>0 DEF LeaderOK, c
    <3> QED  BY <1>3, <1>11, <2>5, <3>1, <3>2, <3>3, <3>4 DEF LeaderOK, Leading
  <2>8. LedgerOK(n)' /\ IndexOK(n)'
    BY <1>0, <1>3, <1>8, <1>9 DEF LedgerOK, IndexOK, Ledgered, Indexed, SameIndex
  <2> QED  BY <1>3, <1>9, <2>4, <2>5, <2>6, <2>7, <2>8, OwnStep
<1> QED  BY <1>10, <1>11
-----------------------------------------------------------------------------
(***************************************************************************)
(* Catching up.                                                            *)
(***************************************************************************)

(* Blocks pulled from a longer ledger continue a ledger.                   *)
LEMMA LedgerPull ==
  ASSUME NEW c, NEW x, NEW d, NEW l \in Seq(Written), NEW r \in Seq(Written),
         Ledgered(c, l), Ledgered(x, r), NEW b \in Nat, Len(l) < b, b <= Len(r),
         d.last = Last(SubSeq(r, Len(l) + 1, b)).blk
  PROVE  /\ l \o SubSeq(r, Len(l) + 1, b) \in Seq(Written)
         /\ Ledgered(d, l \o SubSeq(r, Len(l) + 1, b))
         /\ d.last \in Block /\ d.last.num = b - 1
<1> DEFINE a == Len(l)
           es == SubSeq(r, a + 1, b)
           t == l \o es
<1>0. /\ a \in Nat /\ Len(r) \in Nat /\ DOMAIN l = 1 .. a /\ DOMAIN r = 1 .. Len(r)
      /\ a # 0
  BY LenProperties, EmptySeq DEF Ledgered
<1>1. /\ es \in Seq(Written) /\ Len(es) = b - a /\ \A i \in 1 .. b - a : es[i] = r[a + i]
  <2>1. \A i \in a + 1 .. b : r[i] \in Written
    BY <1>0, ElementOfSeq
  <2>2. /\ es \in Seq(Written) /\ Len(es) = (IF a + 1 <= b THEN b - (a + 1) + 1 ELSE 0)
        /\ \A i \in 1 .. b - (a + 1) + 1 : es[i] = r[(a + 1) + i - 1]
    <3> HIDE DEF a
    <3> QED  BY <1>0, <2>1, SubSeqProperties
  <2>3. a + 1 <= b /\ b - (a + 1) + 1 = b - a
    BY <1>0
  <2> HIDE DEF a, es
  <2>4. \A i \in 1 .. b - a : (a + 1) + i - 1 = a + i
    BY <1>0
  <2> QED  BY <2>2, <2>3, <2>4
<1> HIDE DEF es
<1>2. /\ t \in Seq(Written) /\ Len(t) = a + Len(es)
      /\ \A i \in 1 .. a + Len(es) : t[i] = IF i <= a THEN l[i] ELSE es[i - a]
      /\ DOMAIN t = 1 .. Len(t)
  BY <1>1, ConcatProperties, LenProperties
<1> HIDE DEF a, t
<1>3. Len(t) = b /\ t # << >> /\ DOMAIN t = 1 .. b
  BY <1>0, <1>1, <1>2, EmptySeq
<1>4. ASSUME NEW k \in 1 .. b PROVE t[k] = IF k <= a THEN l[k] ELSE r[k]
  <2>1. CASE k <= a
    BY <1>0, <1>1, <1>2, <2>1
  <2>2. CASE k > a
    <3>1. k - a \in 1 .. b - a /\ a + (k - a) = k
      BY <1>0, <2>2
    <3>2. t[k] = es[k - a]
      BY <1>0, <1>1, <1>2, <2>2
    <3>3. es[k - a] = r[k]
      BY <1>1, <3>1
    <3> QED  BY <1>0, <2>2, <3>2, <3>3
  <2> QED  BY <1>0, <2>1, <2>2
<1>5. ASSUME NEW k \in 1 .. b PROVE WrittenOK(committed, t[k], k - 1)
  <2>1. CASE k <= a
    BY <1>0, <1>4, <2>1 DEF Ledgered
  <2>2. CASE k > a
    BY <1>0, <1>4, <2>2 DEF Ledgered
  <2> QED  BY <1>0, <2>1, <2>2
<1>6. b \in 1 .. b /\ b > a
  BY <1>0 DEF a
<1>7. d.last = r[b].blk
  <2>1. Len(es) \in 1 .. b - a /\ a + Len(es) = b
    BY <1>0, <1>1, <1>6
  <2>2. es[Len(es)] = r[b]
    BY <1>1, <2>1
  <2> QED  BY <2>2 DEF Last, es, a
<1>8. t[b] = r[b]
  BY <1>0, <1>4, <1>6
<1>9. Ledgered(d, t)
  BY <1>3, <1>5, <1>7, <1>8 DEF Ledgered
<1>10. d.last \in Block /\ d.last.num = b - 1
  <2>1. r[b] \in Written
    BY <1>0, <1>6, ElementOfSeq
  <2>2. WrittenOK(committed, t[b], b - 1)
    BY <1>5, <1>6
  <2> QED  BY <1>7, <1>8, <2>1, <2>2 DEF Written, WrittenOK
<1> QED  BY <1>2, <1>9, <1>10 DEF t, es, a

(* The node then has the block it caught up with, and where it is in the   *)
(* log does not change.                                                    *)
CaughtUp(X, c, b) ==
    /\ X \in Chain /\ SameLead(X, c)
    /\ X.applied = c.applied /\ X.raftIndex = c.raftIndex /\ X.read = c.read
    /\ X.last.num >= c.last.num /\ X.last.num >= b.num

LEMMA CatchUpEffect ==
  ASSUME IInv, NEW n \in Node, NEW c \in Chain, NEW e \in Written,
         Ledgered(c, ledger[n]), WrittenOK(committed, e, e.blk.num), CatchUp(n, c, e)
  PROVE  \E X \in Chain :
            /\ chain' = [chain EXCEPT ![n] = X] /\ CaughtUp(X, c, e.blk)
            /\ ledger' \in [Node -> Seq(Written)] /\ Ledgered(X, ledger'[n])
            /\ \A m \in Node \ {n} : ledger'[m] = ledger[m]
<1> DEFINE l == ledger[n]
<1>0. /\ ledger \in [Node -> Seq(Written)] /\ l \in Seq(Written)
      /\ e.blk \in Block /\ e.blk.num \in Nat /\ c.last \in Block /\ c.last.num \in Nat
  BY DEF IInv, Types, Written, Chain, Block
<1>1. Len(l) \in Nat /\ c.last.num = Len(l) - 1
  BY <1>0, LastInLog
<1> DEFINE Z(es) == [c EXCEPT !.last = Last(es).blk]
<1>2. ASSUME NEW es, ledger' = [ledger EXCEPT ![n] = l \o es], chain' = [chain EXCEPT ![n] = Z(es)],
             l \o es \in Seq(Written), Ledgered(Z(es), l \o es),
             Last(es).blk \in Block, Last(es).blk.num >= e.blk.num, e.blk.num > c.last.num
      PROVE  \E X \in Chain :
               /\ chain' = [chain EXCEPT ![n] = X] /\ CaughtUp(X, c, e.blk)
               /\ ledger' \in [Node -> Seq(Written)] /\ Ledgered(X, ledger'[n])
               /\ \A m \in Node \ {n} : ledger'[m] = ledger[m]
  <2>1. /\ ledger' \in [Node -> Seq(Written)] /\ ledger'[n] = l \o es
        /\ \A m \in Node \ {n} : ledger'[m] = ledger[m]
    BY <1>0, <1>2
  <2>2. Last(es).blk.num \in Nat /\ Last(es).blk.num >= c.last.num
    <3>1. Last(es).blk.num \in Nat
      BY <1>2 DEF Block
    <3> QED  BY <1>0, <1>2, <3>1
  <2>3. Z(es) \in Chain /\ CaughtUp(Z(es), c, e.blk)
    BY <1>2, <2>2 DEF Chain, CaughtUp, SameLead
  <2> HIDE DEF Z
  <2> QED  BY <1>2, <2>1, <2>3
<1>3. CASE /\ c.last.num >= e.blk.num
           /\ chain' = [chain EXCEPT ![n] = c]
           /\ UNCHANGED ledger
  <2>1. CaughtUp(c, c, e.blk)
    BY <1>0, <1>3 DEF CaughtUp, SameLead
  <2> QED  BY <1>0, <1>3, <2>1
<1>4. CASE /\ c.last.num + 1 = e.blk.num
           /\ WriteBlocks(n, <<e>>) /\ chain' = [chain EXCEPT ![n] = Z(<<e>>)]
  <2>1. Last(<<e>>) = e
    BY DEF Last
  <2>2. ledger' = [ledger EXCEPT ![n] = l \o <<e>>]
    BY <1>4 DEF WriteBlocks
  <2>3. Z(<<e>>).last = e.blk
    BY <2>1 DEF Chain
  <2>4. e.blk.num = Len(l) /\ e.blk.num > c.last.num
    BY <1>0, <1>1, <1>4
  <2>5. l \o <<e>> \in Seq(Written) /\ Ledgered(Z(<<e>>), l \o <<e>>)
    <3> HIDE DEF Z
    <3> QED  BY <1>0, <2>3, <2>4, LedgerAppend
  <2>6. Last(<<e>>).blk \in Block /\ Last(<<e>>).blk.num >= e.blk.num
    BY <1>0, <2>1
  <2> HIDE DEF Z
  <2> QED  BY <1>2, <1>4, <2>2, <2>4, <2>5, <2>6
<1>5. ASSUME c.last.num + 1 < e.blk.num, NEW m \in Node \ {n}, Len(ledger[m]) > e.blk.num,
             WriteBlocks(n, SubSeq(ledger[m], c.last.num + 2, e.blk.num + 1)),
             chain' = [chain EXCEPT ![n] = Z(SubSeq(ledger[m], c.last.num + 2, e.blk.num + 1))]
      PROVE  \E X \in Chain :
               /\ chain' = [chain EXCEPT ![n] = X] /\ CaughtUp(X, c, e.blk)
               /\ ledger' \in [Node -> Seq(Written)] /\ Ledgered(X, ledger'[n])
               /\ \A k \in Node \ {n} : ledger'[k] = ledger[k]
  <2> DEFINE r == ledger[m]
             b == e.blk.num + 1
             es == SubSeq(r, Len(l) + 1, b)
  <2>1. r \in Seq(Written) /\ Ledgered(chain[m], r) /\ Len(r) \in Nat
    BY <1>0, LenProperties DEF IInv, WriteInv, LedgerOK
  <2>2. b \in Nat /\ Len(l) < b /\ b <= Len(r) /\ c.last.num + 2 = Len(l) + 1 /\ b - 1 = e.blk.num
        /\ e.blk.num > c.last.num
    <3> HIDE DEF l
    <3> QED  BY <1>0, <1>1, <1>5, <2>1
  <2>3. ledger' = [ledger EXCEPT ![n] = l \o es] /\ chain' = [chain EXCEPT ![n] = Z(es)]
    <3> HIDE DEF Z
    <3> QED  BY <1>5, <2>2 DEF WriteBlocks
  <2>4. Z(es).last = Last(es).blk
    BY DEF Chain
  <2> HIDE DEF Z, b, r, l
  <2>5. /\ l \o es \in Seq(Written) /\ Ledgered(Z(es), l \o es)
        /\ Z(es).last \in Block /\ Z(es).last.num = b - 1
    BY <1>0, <2>1, <2>2, <2>4, LedgerPull DEF l
  <2> HIDE DEF es
  <2>6. Last(es).blk.num >= e.blk.num /\ Last(es).blk \in Block
    BY <1>0, <2>2, <2>4, <2>5
  <2> QED  BY <1>2, <2>2, <2>3, <2>5, <2>6
<1> QED
  <2> HIDE DEF l
  <2> QED  BY <1>3, <1>4, <1>5 DEF CatchUp

(* An index that was reached is reached with more blocks.                  *)
LEMMA ReachedMore ==
  ASSUME NEW s \in Seq(LogEntry), NEW i \in Nat, NEW a \in Block, NEW b \in Block,
         Reached(s, i, a), b.num >= a.num
  PROVE  Reached(s, i, b)
<1>1. i \in 0 .. Len(s)
  BY LenProperties DEF Reached
<1>2. Num(s, i) \in Nat /\ a.num \in Nat /\ b.num \in Nat
  BY <1>1, TipDef DEF Num, Block
<1> QED  BY <1>2 DEF Reached

(* A node that catches up stays in place.                                  *)
LEMMA CaughtUpIndexed ==
  ASSUME IInv, NEW c \in Chain, NEW X \in Chain, NEW b \in Block, NEW sn \in Snapshot,
         CaughtUp(X, c, b), c.read <= c.applied, Reached(committed, c.raftIndex, c.last),
         Reached(committed, c.applied, c.last) \/ Reached(committed, c.applied, b),
         SnapshotOK(committed, sn), sn.blk.num <= c.last.num \/ sn.blk.num <= b.num
  PROVE  Indexed(X, sn)
<1>0. /\ committed \in Seq(LogEntry) /\ c.last \in Block /\ X.last \in Block
      /\ c.applied \in Nat /\ c.raftIndex \in Nat /\ sn.blk \in Block
  BY DEF IInv, Types, Chain, Snapshot
<1>1. /\ X.applied = c.applied /\ X.raftIndex = c.raftIndex /\ X.read = c.read
      /\ X.last.num >= c.last.num /\ X.last.num >= b.num
  BY DEF CaughtUp
<1>2. Reached(committed, c.raftIndex, X.last) /\ Reached(committed, c.applied, X.last)
  BY <1>0, <1>1, ReachedMore
<1>3. sn.blk.num <= X.last.num
  <2>1. \A x \in Block : x.num \in Nat
    BY DEF Block
  <2>2. sn.blk.num \in Nat /\ X.last.num \in Nat /\ c.last.num \in Nat /\ b.num \in Nat
    BY <1>0, <2>1
  <2> QED  BY <1>1, <2>2
<1> QED  BY <1>1, <1>2, <1>3 DEF Indexed

LEMMA SuspectEvictionKeeps ==
  ASSUME IInv, NEW n \in Node, SuspectEviction(n)
  PROVE  IInv'
<1> DEFINE c == chain[n]
<1>0. /\ Types /\ Leading(n, c, cutter[n].msgs)
      /\ Ledgered(c, ledger[n]) /\ Indexed(c, snap[n])
  BY DEF IInv, LeaderInv, LeaderOK, WriteInv, LedgerOK, IndexOK
<1>1. PICK m \in Node \ {n} : \E k \in DOMAIN ledger[m] :
        /\ CatchUp(n, c, ledger[m][k])
        /\ UNCHANGED <<mode, raftVars, snap, inputVars, crashes, snaps>>
  BY DEF SuspectEviction
<1>2. PICK k \in DOMAIN ledger[m] :
        /\ CatchUp(n, c, ledger[m][k])
        /\ UNCHANGED <<mode, raftVars, snap, inputVars, crashes, snaps>>
  BY <1>1
<1> DEFINE e == ledger[m][k]
<1>3. c \in Chain /\ c.last \in Block /\ snap[n] \in Snapshot /\ ledger[m] \in Seq(Written)
  BY <1>0 DEF Types, Chain
<1>4. e \in Written /\ e.blk \in Block
  <2>1. e \in Written
    BY <1>3, ElementOfSeq, LenProperties
  <2> HIDE DEF e
  <2> QED  BY <2>1 DEF Written
<1>5. WrittenOK(committed, e, e.blk.num)
  <2>1. WrittenOK(committed, e, k - 1)
    BY DEF IInv, WriteInv, LedgerOK, Ledgered
  <2> QED  BY <2>1 DEF WrittenOK
<1> HIDE DEF e
<1>6. PICK X \in Chain :
        /\ chain' = [chain EXCEPT ![n] = X] /\ CaughtUp(X, c, e.blk)
        /\ ledger' \in [Node -> Seq(Written)] /\ Ledgered(X, ledger'[n])
        /\ \A i \in Node \ {n} : ledger'[i] = ledger[i]
  BY <1>0, <1>2, <1>3, <1>4, <1>5, CatchUpEffect DEF e
<1>7. Indexed(X, snap[n])
  BY <1>0, <1>3, <1>4, <1>6, CaughtUpIndexed DEF Indexed
<1>8. Leading(n, X, cutter[n].msgs)
  BY <1>0, <1>6 DEF Leading, Serving, CaughtUp, SameLead
<1>9. UNCHANGED <<mode, raftVars, snap, cutter, outbox, net, unsent, crashes, snaps>>
  BY <1>2 DEF inputVars
<1>10. /\ snap' \in [Node -> Snapshot] /\ cutter' \in [Node -> Receiver]
       /\ outbox' \in [Node -> Batches] /\ net' \subseteq [to : Node, batches : Batches \ {<< >>}]
       /\ unsent' \subseteq Tx /\ crashes' \in Nat /\ snaps' \in Nat
  BY <1>0, <1>9 DEF Types
<1>11. Leading(n, X, cutter'[n].msgs) /\ Indexed(X, snap'[n])
  BY <1>7, <1>8, <1>9
<1> QED  BY <1>6, <1>9, <1>10, <1>11, LocalStep

LEMMA InstallSnapshotKeeps ==
  ASSUME IInv, NEW n \in Node, InstallSnapshot(n)
  PROVE  IInv'
<1>0. /\ Types /\ TermInv /\ LogInv /\ Leading(n, chain[n], cutter[n].msgs)
      /\ Ledgered(chain[n], ledger[n]) /\ Indexed(chain[n], snap[n])
  BY DEF IInv, LeaderInv, LeaderOK, WriteInv, LedgerOK, IndexOK
<1>1. PICK l \in Node \ {n} :
        LET s == [snap[l] EXCEPT !.conf = chain[l].conf]
        IN  /\ s.idx > chain[n].read
            /\ log' = [log EXCEPT ![n] = SubSeq(committed, 1, s.idx)]
            /\ raft' = [raft EXCEPT ![n] = [@ EXCEPT !.role = "follower", !.lead = l, !.term = term]]
            /\ snap' = [snap EXCEPT ![n] = s]
            /\ HandleSnapshot(n, [chain[n] EXCEPT !.read = s.idx, !.conf = s.conf], s)
            /\ UNCHANGED <<mode, term, committed, inputVars, crashes, snaps>>
  BY DEF InstallSnapshot
<1> DEFINE s == [snap[l] EXCEPT !.conf = chain[l].conf]
           c == [chain[n] EXCEPT !.read = s.idx, !.conf = s.conf]
           R == [raft[n] EXCEPT !.role = "follower", !.lead = l, !.term = term]
           T == [role : {"follower", "candidate", "leader"}, lead : Node \cup {Nil},
                 term : 0 .. MaxTerm, pending : Nat]
<1>2. /\ s.idx > chain[n].read /\ log' = [log EXCEPT ![n] = SubSeq(committed, 1, s.idx)]
      /\ raft' = [raft EXCEPT ![n] = R] /\ snap' = [snap EXCEPT ![n] = s]
      /\ HandleSnapshot(n, c, s)
      /\ UNCHANGED <<mode, term, committed, inputVars, crashes, snaps>>
  BY <1>0, <1>1 DEF Types
<1>3. UNCHANGED <<cutter, outbox, net, unsent>>
  BY <1>2 DEF inputVars
<1>4. /\ s \in Snapshot /\ SnapshotOK(committed, s) /\ s.idx \in Nat /\ s.blk \in Block
      /\ s.conf \subseteq Tx /\ s.idx <= Len(committed) /\ s.blk = Tip(committed)[s.idx]
  <2>1. snap[l] \in Snapshot /\ chain[l] \in Chain /\ SnapshotOK(committed, snap[l])
    BY <1>0 DEF Types, IInv, WriteInv, IndexOK, Indexed
  <2>2. s \in Snapshot /\ s.idx = snap[l].idx /\ s.blk = snap[l].blk
    BY <2>1 DEF Snapshot, Chain
  <2> HIDE DEF s
  <2> QED  BY <2>1, <2>2 DEF Snapshot, SnapshotOK
<1> HIDE DEF s
<1>5. /\ chain[n] \in Chain /\ c \in Chain /\ SameLead(c, chain[n]) /\ c.last = chain[n].last
      /\ c.applied = chain[n].applied /\ c.raftIndex = chain[n].raftIndex /\ c.read = s.idx
  <2>1. chain[n] \in Chain
    BY <1>0 DEF Types
  <2> QED  BY <1>4, <2>1 DEF Chain, SameLead
<1> HIDE DEF c
<1>6. Ledgered(c, ledger[n]) /\ Reached(committed, c.applied, c.last)
      /\ Reached(committed, c.raftIndex, c.last) /\ c.applied \in Nat /\ c.last \in Block
  BY <1>0, <1>5 DEF Ledgered, Indexed, Chain
<1>7. committed \in Seq(LogEntry) /\ Len(committed) \in Nat /\ Chained(committed)
  BY <1>0, LogTypes DEF LogInv
<1>8. s.blk.num = Num(committed, s.idx) /\ Reached(committed, s.idx, s.blk)
  <2>1. s.blk.num \in Nat
    BY <1>4 DEF Block
  <2> QED  BY <1>4, <2>1 DEF Num, Reached
<1>9. PICK X \in Chain :
        /\ chain' = [chain EXCEPT ![n] = X] /\ SameLead(X, c)
        /\ ledger' \in [Node -> Seq(Written)] /\ Ledgered(X, ledger'[n])
        /\ \A i \in Node \ {n} : ledger'[i] = ledger[i]
        /\ Indexed(X, s)
  <2>1. CASE s.idx <= c.applied
    <3>1. chain' = [chain EXCEPT ![n] = c] /\ UNCHANGED ledger
      BY <1>2, <2>1 DEF HandleSnapshot
    <3>2. s.blk.num <= c.last.num
      <4>1. s.idx \in 0 .. Len(committed) /\ c.applied \in 0 .. Len(committed)
        BY <1>4, <1>6, <1>7 DEF Reached
      <4>2. Num(committed, s.idx) <= Num(committed, c.applied)
        BY <1>7, <2>1, <4>1, TipByNumber DEF Num
      <4>3. /\ Num(committed, s.idx) \in Nat /\ Num(committed, c.applied) \in Nat
            /\ c.last.num \in Nat /\ Num(committed, c.applied) <= c.last.num
        BY <1>6, <1>7, <4>1, TipDef DEF Num, Block, Reached
      <4> QED  BY <1>8, <4>2, <4>3
    <3>3. Indexed(c, s)
      BY <1>4, <1>5, <1>6, <2>1, <3>2 DEF Indexed
    <3>4. ledger' \in [Node -> Seq(Written)] /\ SameLead(c, c)
      BY <1>0, <3>1 DEF Types, SameLead
    <3> QED  BY <1>5, <1>6, <3>1, <3>3, <3>4
  <2>2. CASE ~(s.idx <= c.applied)
    <3> DEFINE d == [c EXCEPT !.applied = s.idx]
               e == [blk |-> s.blk, idx |-> 0]
    <3>1. CatchUp(n, d, e)
      BY <1>2, <2>2 DEF HandleSnapshot
    <3>2. /\ d \in Chain /\ SameLead(d, c) /\ d.last = c.last /\ d.raftIndex = c.raftIndex
          /\ d.applied = s.idx /\ d.read = s.idx
      BY <1>4, <1>5 DEF Chain, SameLead
    <3>3. e \in Written /\ e.blk = s.blk /\ WrittenOK(committed, e, e.blk.num)
      <4>1. InLog(committed, s.blk)
        BY <1>4, <1>7 DEF InLog
      <4>2. Num(committed, 0) = 0 /\ 0 <= Len(committed) /\ 0 <= s.blk.num
        BY <1>4, <1>7, TipDef, GenesisType DEF Num, Block
      <4> QED  BY <1>4, <4>1, <4>2 DEF Written, WrittenOK
    <3> HIDE DEF d, e
    <3>4. Ledgered(d, ledger[n])
      BY <1>6, <3>2 DEF Ledgered
    <3>5. PICK X \in Chain :
            /\ chain' = [chain EXCEPT ![n] = X] /\ CaughtUp(X, d, s.blk)
            /\ ledger' \in [Node -> Seq(Written)] /\ Ledgered(X, ledger'[n])
            /\ \A i \in Node \ {n} : ledger'[i] = ledger[i]
      BY <3>1, <3>2, <3>3, <3>4, CatchUpEffect
    <3>6. Indexed(X, s)
      <4>1. d.read <= d.applied /\ s.blk.num <= s.blk.num
        BY <1>4, <3>2 DEF Block
      <4>2. Reached(committed, d.raftIndex, d.last) /\ Reached(committed, d.applied, s.blk)
        BY <1>6, <1>8, <3>2
      <4> QED  BY <1>4, <3>2, <3>5, <4>1, <4>2, CaughtUpIndexed
    <3>7. SameLead(X, c)
      BY <3>2, <3>5 DEF CaughtUp, SameLead
    <3> QED  BY <3>5, <3>6, <3>7
  <2> QED  BY <2>1, <2>2
<1>10. SameLead(X, chain[n])
  BY <1>5, <1>9 DEF SameLead
<1>11. /\ chain' \in [Node -> Chain] /\ chain'[n] = X
       /\ \A m \in Node \ {n} : chain'[m] = chain[m]
  BY <1>0, <1>9 DEF Types
<1>12. R \in T /\ R.role # "leader" /\ R.term = term
  <2>1. raft[n] \in T /\ term \in 0 .. MaxTerm
    BY <1>0 DEF Types
  <2> QED  BY <2>1
<1> HIDE DEF R
<1>13. /\ raft' \in [Node -> T] /\ raft'[n] = R /\ snap' \in [Node -> Snapshot] /\ snap'[n] = s
       /\ \A m \in Node \ {n} : raft'[m] = raft[m] /\ snap'[m] = snap[m]
  BY <1>0, <1>2, <1>4, <1>12 DEF Types
<1> DEFINE t == SubSeq(committed, 1, s.idx)
<1>14. /\ t \in Seq(LogEntry) /\ Len(t) = s.idx /\ \A i \in 1 .. s.idx : t[i] = committed[i]
       /\ DOMAIN t = 1 .. s.idx
  <2>1. \A i \in 1 .. s.idx : committed[i] \in LogEntry
    BY <1>4, <1>7, ElementOfSeq
  <2>2. /\ t \in Seq(LogEntry) /\ Len(t) = (IF 1 <= s.idx THEN s.idx - 1 + 1 ELSE 0)
        /\ \A i \in 1 .. s.idx - 1 + 1 : t[i] = committed[1 + i - 1]
    BY <1>4, <2>1, SubSeqProperties
  <2> HIDE DEF t
  <2>3. s.idx - 1 + 1 = s.idx /\ \A i \in 1 .. s.idx : 1 + i - 1 = i
    BY <1>4
  <2>4. Len(t) = s.idx
    BY <1>4, <2>2, <2>3
  <2> QED  BY <2>2, <2>3, <2>4, LenProperties
<1> HIDE DEF t
<1>15. Chained(t) /\ \A i \in DOMAIN t : t[i].term <= term
  <2>1. Extends(committed, t)
    BY <1>4, <1>14 DEF Extends
  <2>2. \A i \in 1 .. s.idx : i \in DOMAIN committed
    BY <1>0, <1>4, <1>7, LogTypes
  <2> QED  BY <1>0, <1>7, <1>14, <2>1, <2>2, ChainedPrefix DEF TermInv
<1>16. /\ log' \in [Node -> Seq(LogEntry)] /\ log'[n] = t
       /\ \A m \in Node \ {n} : log'[m] = log[m]
  BY <1>0, <1>2, <1>14 DEF Types, t
<1>17. TermInv' /\ LogInv'
  <2>1. raft'[n].term <= term /\ term \in Nat
    BY <1>0, <1>12, <1>13, LogTypes
  <2> QED  BY <1>0, <1>2, <1>12, <1>13, <1>15, <1>16, <2>1, FollowerLogs
<1>18. Types'
  BY <1>0, <1>2, <1>3, <1>9, <1>11, <1>13, <1>16 DEF Types
<1>19. LeaderOK(n)'
  <2>1. raft'[n].role # "leader"
    BY <1>12, <1>13
  <2>2. LeaderOK(n)
    BY <1>0 DEF LeaderOK
  <2> QED  BY <1>2, <1>3, <1>10, <1>11, <2>1, <2>2, LeaderFrame
<1>20. LedgerOK(n)' /\ IndexOK(n)'
  BY <1>2, <1>9, <1>11, <1>13 DEF LedgerOK, IndexOK, Ledgered, Indexed
<1> QED  BY <1>2, <1>3, <1>9, <1>11, <1>13, <1>16, <1>17, <1>18, <1>19, <1>20, OwnStep
-----------------------------------------------------------------------------
(***************************************************************************)
(* Restarts.                                                               *)
(***************************************************************************)

(* What is on disk lacks at most the last block.                           *)
LEMMA OnDiskEffect ==
  ASSUME IInv, NEW n \in Node, NEW d \in OnDisk(n)
  PROVE  /\ d \in Seq(Written) /\ Len(d) \in Nat /\ Len(d) >= 1 /\ Len(d) >= chain[n].last.num
         /\ Last(d) \in Written /\ WrittenOK(committed, Last(d), Len(d) - 1)
         /\ \A x : x.last = Last(d).blk => Ledgered(x, d)
<1> DEFINE l == ledger[n]
<1>0. l \in Seq(Written) /\ Ledgered(chain[n], l)
  BY DEF IInv, Types, WriteInv, LedgerOK
<1>1. /\ Len(l) \in Nat /\ Len(l) >= 1 /\ DOMAIN l = 1 .. Len(l)
      /\ chain[n].last.num = Len(l) - 1
  BY <1>0, LastInLog
<1> HIDE DEF l
<1>2. /\ d \in Seq(Written) /\ Len(d) \in 1 .. Len(l) /\ Len(d) >= Len(l) - 1
      /\ \A k \in 1 .. Len(d) : d[k] = l[k]
  <2>1. CASE d = l
    BY <1>0, <1>1, <2>1
  <2>2. CASE d # l
    <3>1. Len(l) # 1 /\ d = SubSeq(l, 1, Len(l) - 1)
      BY <2>2 DEF OnDisk, Front, l
    <3>2. \A i \in 1 .. Len(l) - 1 : l[i] \in Written
      BY <1>0, <1>1, ElementOfSeq
    <3>3. /\ d \in Seq(Written)
          /\ Len(d) = (IF 1 <= Len(l) - 1 THEN (Len(l) - 1) - 1 + 1 ELSE 0)
          /\ \A i \in 1 .. (Len(l) - 1) - 1 + 1 : d[i] = l[1 + i - 1]
      BY <1>1, <3>1, <3>2, SubSeqProperties
    <3>4. Len(d) = Len(l) - 1 /\ (Len(l) - 1) - 1 + 1 = Len(l) - 1
      BY <1>1, <3>1, <3>3
    <3>5. \A i \in 1 .. Len(l) - 1 : 1 + i - 1 = i
      BY <1>1
    <3> QED  BY <1>1, <3>1, <3>3, <3>4, <3>5
  <2> QED  BY <2>1, <2>2
<1>3. Len(d) \in Nat /\ Len(d) >= 1 /\ Len(d) >= chain[n].last.num /\ DOMAIN d = 1 .. Len(d)
      /\ d # << >>
  BY <1>1, <1>2, LenProperties, EmptySeq
<1>4. ASSUME NEW k \in 1 .. Len(d) PROVE WrittenOK(committed, d[k], k - 1)
  <2>1. k \in DOMAIN l /\ d[k] = l[k]
    BY <1>1, <1>2
  <2> QED  BY <1>0, <2>1 DEF Ledgered
<1>5. Len(d) \in 1 .. Len(d)
  BY <1>3
<1>6. Last(d) \in Written /\ WrittenOK(committed, Last(d), Len(d) - 1)
  BY <1>2, <1>4, <1>5, ElementOfSeq DEF Last
<1>7. ASSUME NEW x, x.last = Last(d).blk PROVE Ledgered(x, d)
  BY <1>3, <1>4, <1>7 DEF Ledgered, Last
<1> QED  BY <1>2, <1>3, <1>6, <1>7

LEMMA NewChainType ==
  ASSUME NEW e \in Written, NEW sn \in Snapshot
  PROVE  LET c == NewChain(e, sn)
         IN  /\ c \in Chain /\ c.lead = Nil /\ c.propC = << >>
             /\ c.last = e.blk /\ c.applied = e.idx /\ c.raftIndex = e.idx /\ c.read = sn.idx
<1>1. << >> \in Seq(Block)
  BY EmptySeq
<1> QED  BY <1>1 DEF NewChain, Chain, Written, Snapshot

(* A restart finds its place again: what the snapshot or the last block    *)
(* says is applied is on disk, or is the block of the snapshot.            *)
LEMMA RebootChain ==
  ASSUME IInv, NEW n \in Node, Reboot(n)
  PROVE  \E X \in Chain :
            /\ chain' = [chain EXCEPT ![n] = X] /\ X.lead = Nil /\ X.propC = << >>
            /\ ledger' \in [Node -> Seq(Written)] /\ Ledgered(X, ledger'[n])
            /\ \A m \in Node \ {n} : ledger'[m] = ledger[m]
            /\ Indexed(X, snap[n])
<1> DEFINE s == snap[n]
<1>0. /\ Types /\ Chained(committed) /\ s \in Snapshot /\ SnapshotOK(committed, s)
      /\ s.blk.num <= chain[n].last.num /\ chain[n] \in Chain
  BY DEF IInv, LogInv, Types, WriteInv, IndexOK, Indexed
<1> HIDE DEF s
<1>1. /\ s.idx \in Nat /\ s.blk \in Block /\ s.blk.num \in Nat /\ s.idx <= Len(committed)
      /\ s.blk = Tip(committed)[s.idx] /\ s.blk.num = Num(committed, s.idx)
      /\ committed \in Seq(LogEntry) /\ Len(committed) \in Nat
      /\ chain[n].last.num \in Nat
  BY <1>0, LogTypes DEF Snapshot, SnapshotOK, Num, Block, Chain
<1>2. PICK d \in OnDisk(n) :
        LET c == NewChain(Last(d), s)
        IN  IF s.idx <= c.applied \/ s.blk.num <= c.last.num
            THEN /\ chain' = [chain EXCEPT ![n] = [c EXCEPT !.applied =
                                                     IF s.idx <= @ THEN @ ELSE s.idx]]
                 /\ ledger' = [ledger EXCEPT ![n] = d]
            ELSE /\ chain' = [chain EXCEPT ![n] = [c EXCEPT !.applied = s.idx, !.last = s.blk]]
                 /\ ledger' = [ledger EXCEPT ![n] = Append(d, [blk |-> s.blk, idx |-> 0])]
  BY DEF Reboot, s
<1> DEFINE e == Last(d)
           c == NewChain(e, s)
<1>3. /\ d \in Seq(Written) /\ Len(d) \in Nat /\ Len(d) >= 1 /\ Len(d) >= chain[n].last.num
      /\ e \in Written /\ WrittenOK(committed, e, Len(d) - 1)
      /\ \A x : x.last = e.blk => Ledgered(x, d)
  BY OnDiskEffect
<1> HIDE DEF e
<1>4. /\ c \in Chain /\ c.lead = Nil /\ c.propC = << >>
      /\ c.last = e.blk /\ c.applied = e.idx /\ c.raftIndex = e.idx /\ c.read = s.idx
  BY <1>0, <1>3, NewChainType
<1>5. /\ e.idx \in Nat /\ e.blk.num = Len(d) - 1 /\ e.blk \in Block
      /\ Reached(committed, e.idx, e.blk)
  BY <1>3 DEF Written, WrittenOK, Reached
<1>6. ledger \in [Node -> Seq(Written)]
  BY <1>0 DEF Types
<1>7. CASE s.idx <= c.applied \/ s.blk.num <= c.last.num
  <2> DEFINE a == IF s.idx <= c.applied THEN c.applied ELSE s.idx
             X == [c EXCEPT !.applied = a]
  <2>1. chain' = [chain EXCEPT ![n] = X] /\ ledger' = [ledger EXCEPT ![n] = d]
    <3>1. [c EXCEPT !.applied = IF s.idx <= @ THEN @ ELSE s.idx] = X
      BY <1>4 DEF Chain
    <3> QED  BY <1>2, <1>7, <3>1 DEF e
  <2> HIDE DEF c
  <2>2. a \in Nat /\ s.idx <= a
    BY <1>1, <1>4, <1>5
  <2>3. s.blk.num <= e.blk.num
    <3>1. CASE s.idx <= e.idx
      <4>1. s.idx \in 0 .. Len(committed) /\ e.idx \in 0 .. Len(committed)
        BY <1>1, <1>5 DEF Reached
      <4>2. Num(committed, s.idx) <= Num(committed, e.idx)
        BY <1>0, <1>1, <3>1, <4>1, TipByNumber DEF Num
      <4>3. /\ Num(committed, s.idx) \in Nat /\ Num(committed, e.idx) \in Nat
            /\ e.blk.num \in Nat /\ Num(committed, e.idx) <= e.blk.num
        BY <1>1, <1>5, <4>1, TipDef DEF Num, Block, Reached
      <4> QED  BY <1>1, <4>2, <4>3
    <3>2. CASE s.blk.num <= e.blk.num
      BY <3>2
    <3> QED  BY <1>4, <1>7, <3>1, <3>2
  <2>4. Reached(committed, a, e.blk)
    <3>1. CASE s.idx <= e.idx
      BY <1>4, <1>5, <3>1
    <3>2. CASE ~(s.idx <= e.idx)
      BY <1>1, <1>4, <2>3, <3>2 DEF Reached
    <3> QED  BY <3>1, <3>2
  <2> HIDE DEF a
  <2>5. /\ X \in Chain /\ X.lead = Nil /\ X.propC = << >> /\ X.last = e.blk /\ X.applied = a
        /\ X.raftIndex = e.idx /\ X.read = s.idx
    BY <1>4, <2>2 DEF Chain
  <2> HIDE DEF X
  <2>6. Indexed(X, s)
    BY <1>0, <1>5, <2>2, <2>3, <2>4, <2>5 DEF Indexed
  <2>7. Ledgered(X, d)
    BY <1>3, <2>5
  <2>8. ledger' \in [Node -> Seq(Written)] /\ ledger'[n] = d
        /\ \A m \in Node \ {n} : ledger'[m] = ledger[m]
    BY <1>3, <1>6, <2>1
  <2> QED  BY <2>1, <2>5, <2>6, <2>7, <2>8 DEF s
<1>8. CASE ~(s.idx <= c.applied \/ s.blk.num <= c.last.num)
  <2> DEFINE X == [c EXCEPT !.applied = s.idx, !.last = s.blk]
             w == [blk |-> s.blk, idx |-> 0]
  <2>1. chain' = [chain EXCEPT ![n] = X] /\ ledger' = [ledger EXCEPT ![n] = Append(d, w)]
    BY <1>2, <1>8 DEF e
  <2>2. s.blk.num = Len(d)
    <3>1. s.blk.num > Len(d) - 1
      BY <1>1, <1>3, <1>4, <1>5, <1>8
    <3> QED  BY <1>0, <1>1, <1>3, <3>1
  <2> HIDE DEF c
  <2>3. /\ X \in Chain /\ X.lead = Nil /\ X.propC = << >> /\ X.last = s.blk /\ X.applied = s.idx
        /\ X.raftIndex = e.idx /\ X.read = s.idx
    BY <1>1, <1>4 DEF Chain
  <2> HIDE DEF X
  <2>4. w \in Written /\ w.blk = s.blk /\ WrittenOK(committed, w, Len(d))
    <3>1. InLog(committed, s.blk)
      BY <1>1 DEF InLog
    <3>2. Num(committed, 0) = 0 /\ 0 <= Len(committed) /\ 0 <= s.blk.num
      BY <1>1, TipDef, GenesisType DEF Num
    <3> QED  BY <1>1, <2>2, <3>1, <3>2 DEF Written, WrittenOK
  <2> HIDE DEF w
  <2>5. Append(d, w) \in Seq(Written) /\ Ledgered(X, Append(d, w))
    <3>1. Ledgered([last |-> e.blk], d)
      BY <1>3
    <3>2. X.last = w.blk
      BY <2>3, <2>4
    <3>3. d \o <<w>> \in Seq(Written) /\ Append(d, w) = d \o <<w>> /\ Ledgered(X, d \o <<w>>)
      BY <1>3, <2>4, <3>1, <3>2, LedgerAppend
    <3> QED  BY <3>3
  <2>6. Indexed(X, s)
    <3>1. Reached(committed, s.idx, s.blk)
      BY <1>1 DEF Reached
    <3>2. s.blk.num >= e.blk.num
      BY <1>3, <1>5, <2>2
    <3>3. Reached(committed, e.idx, s.blk)
      BY <1>1, <1>5, <3>2, ReachedMore
    <3> QED  BY <1>0, <1>1, <2>3, <3>1, <3>3 DEF Indexed
  <2>7. ledger' \in [Node -> Seq(Written)] /\ ledger'[n] = Append(d, w)
        /\ \A m \in Node \ {n} : ledger'[m] = ledger[m]
    BY <1>6, <2>1, <2>5
  <2> QED  BY <2>1, <2>3, <2>5, <2>6, <2>7 DEF s
<1> QED  BY <1>7, <1>8

LEMMA RebootKeeps ==
  ASSUME IInv, NEW n \in Node, Reboot(n),
         net' \subseteq [to : Node, batches : Batches \ {<< >>}], unsent' \subseteq Tx, crashes' \in Nat
  PROVE  IInv'
<1>0. /\ Types /\ TermInv /\ LogInv
  BY DEF IInv
<1> DEFINE R == [raft[n] EXCEPT !.role = "follower", !.lead = Nil]
           T == [role : {"follower", "candidate", "leader"}, lead : Node \cup {Nil},
                 term : 0 .. MaxTerm, pending : Nat]
<1>1. /\ raft' = [raft EXCEPT ![n] = R]
      /\ cutter' = [cutter EXCEPT ![n] = EmptyReceiver]
      /\ outbox' = [outbox EXCEPT ![n] = << >>]
      /\ UNCHANGED <<mode, term, log, committed, snap, snaps>>
  BY <1>0 DEF Reboot, Types
<1>2. PICK X \in Chain :
        /\ chain' = [chain EXCEPT ![n] = X] /\ X.lead = Nil /\ X.propC = << >>
        /\ ledger' \in [Node -> Seq(Written)] /\ Ledgered(X, ledger'[n])
        /\ \A m \in Node \ {n} : ledger'[m] = ledger[m]
        /\ Indexed(X, snap[n])
  BY RebootChain
<1>3. R \in T /\ R.role # "leader" /\ R.term = raft[n].term
  <2>1. raft[n] \in T
    BY <1>0 DEF Types
  <2> QED  BY <2>1
<1> HIDE DEF R
<1>4. /\ EmptyReceiver \in Receiver /\ EmptyReceiver.msgs = << >> /\ << >> \in Batches
  <2>1. << >> \in Seq(Messages) /\ << >> \in Seq(Seq(Messages)) /\ DOMAIN << >> = {}
    BY EmptySeq
  <2> QED  BY <2>1 DEF EmptyReceiver, Receiver, Batches
<1>5. /\ raft' \in [Node -> T] /\ raft'[n] = R /\ chain' \in [Node -> Chain] /\ chain'[n] = X
      /\ cutter' \in [Node -> Receiver] /\ cutter'[n] = EmptyReceiver
      /\ outbox' \in [Node -> Batches]
      /\ \A m \in Node \ {n} : /\ raft'[m] = raft[m] /\ chain'[m] = chain[m]
                               /\ cutter'[m] = cutter[m]
  BY <1>0, <1>1, <1>2, <1>3, <1>4 DEF Types
<1>6. Types'
  BY <1>0, <1>1, <1>2, <1>5 DEF Types
<1>7. TermInv' /\ LogInv'
  <2>1. raft[n].term <= term /\ (\A i \in DOMAIN log[n] : log[n][i].term <= term)
        /\ (Extends(log[n], committed) => Chained(log[n]))
    BY <1>0 DEF TermInv, TermOK, LogInv
  <2> QED  BY <1>0, <1>1, <1>3, <1>5, <2>1, FollowerLogs
<1>8. LeaderOK(n)'
  <2>1. ~Serving(n, X) /\ X.lead # n
    BY <1>2, ChainAssumption DEF Serving
  <2>2. Len(<< >>) = 0 /\ 0 <= MaxInflightBlocks + 1
    BY ChainAssumption
  <2> QED  BY <1>2, <1>4, <1>5, <2>1, <2>2 DEF LeaderOK, Leading, Serving
<1>9. LedgerOK(n)' /\ IndexOK(n)'
  BY <1>1, <1>2, <1>5 DEF LedgerOK, IndexOK, Ledgered, Indexed
<1> QED  BY <1>1, <1>2, <1>5, <1>6, <1>7, <1>8, <1>9, OwnStep
-----------------------------------------------------------------------------
(***************************************************************************)
(* Requests.                                                               *)
(***************************************************************************)
LEMMA ConfigsFinite ==
  ASSUME NEW b \in Block
  PROVE  IsFiniteSet(ConfigsUpTo(b))
<1> DEFINE h == Hash(b)
           J == {j \in DOMAIN h : IsConfigData(h[j])}
           K == {h[i][1] : i \in J}
<1>1. h \in Seq(Seq(Tx))
  BY HashType
<1> HIDE DEF h
<1>2. IsFiniteSet(DOMAIN h)
  <2>1. DOMAIN h = 1 .. Len(h) /\ Len(h) \in Int /\ 1 \in Int
    BY <1>1, LenProperties
  <2> QED  BY <2>1, FS_Interval
<1>3. IsFiniteSet(J)
  BY <1>2, FS_Subset
<1> DEFINE F == [i \in J |-> h[i][1]]
<1>4. K = {F[i] : i \in J}
  OBVIOUS
<1>5. F \in Surjection(J, K)
  BY DEF Surjection
<1>6. IsFiniteSet(K)
  <2> HIDE DEF F, J, K
  <2> QED  BY <1>3, <1>5, FS_Surjection
<1>7. ConfigsUpTo(b) = K
  BY DEF ConfigsUpTo, h
<1> QED  BY <1>6, <1>7

LEMMA SequenceType ==
  ASSUME NEW c \in Chain
  PROVE  Sequence(c) \in Nat
<1>1. c.last \in Block
  BY DEF Chain
<1> QED  BY <1>1, ConfigsFinite, FS_CardinalityType DEF Sequence

LEMMA TxsType ==
  ASSUME NEW batch \in Seq(Messages)
  PROVE  Txs(batch) \in Seq(Tx)
<1>1. DOMAIN batch = 1 .. Len(batch) /\ Len(batch) \in Nat
  BY LenProperties
<1>2. \A i \in DOMAIN batch : batch[i].tx \in Tx
  <2>1. \A i \in DOMAIN batch : batch[i] \in Messages
    BY <1>1, ElementOfSeq
  <2> QED  BY <2>1 DEF Messages
<1>3. Txs(batch) \in [1 .. Len(batch) -> Tx]
  BY <1>1, <1>2 DEF Txs
<1> QED  BY <1>1, <1>3, IsASeq

(* The data of the blocks made of batches.                                 *)
LEMMA DataOfBatches ==
  ASSUME NEW bs \in Batches
  PROVE  [i \in DOMAIN bs |-> Txs(bs[i])] \in Seq(Seq(Tx))
<1>1. bs \in Seq(Seq(Messages)) /\ DOMAIN bs = 1 .. Len(bs) /\ Len(bs) \in Nat
  BY LenProperties DEF Batches
<1>2. \A i \in DOMAIN bs : Txs(bs[i]) \in Seq(Tx)
  BY <1>1, ElementOfSeq, TxsType
<1>3. [i \in DOMAIN bs |-> Txs(bs[i])] \in [1 .. Len(bs) -> Seq(Tx)]
  BY <1>1, <1>2
<1> QED  BY <1>1, <1>3, IsASeq

LEMMA ValidDataType ==
  ASSUME NEW c, NEW batches \in Seq(Seq(Messages))
  PROVE  ValidData(c, batches) \in Seq(Seq(Tx))
<1> DEFINE S == {b \in Range(batches) : b[1].tx \notin ConfigTx \/ StillValid(c, b[1])}
           kept == Keep(batches, S)
           V(i) == {m \in Range(kept[i]) : StillValid(c, m)}
<1>1. kept \in Seq(Seq(Messages))
  BY KeepType
<1>2. ValidData(c, batches) = [i \in DOMAIN kept |-> Txs(Keep(kept[i], V(i)))]
  BY DEF ValidData
<1> HIDE DEF kept
<1>3. DOMAIN kept = 1 .. Len(kept) /\ Len(kept) \in Nat
  BY <1>1, LenProperties
<1>4. ASSUME NEW i \in DOMAIN kept PROVE Txs(Keep(kept[i], V(i))) \in Seq(Tx)
  <2>1. kept[i] \in Seq(Messages)
    BY <1>1, <1>3, ElementOfSeq
  <2> HIDE DEF V
  <2> QED  BY <2>1, KeepType, TxsType
<1>5. ValidData(c, batches) \in [1 .. Len(kept) -> Seq(Tx)]
  <2> HIDE DEF V
  <2> QED  BY <1>2, <1>3, <1>4
<1> QED  BY <1>3, <1>5, IsASeq

(* The cutter makes batches that have messages.                            *)
LEMMA OneBatch ==
  ASSUME NEW q \in Seq(Messages), q # << >>
  PROVE  <<q>> \in Batches \ {<< >>}
<1>1. <<q>> \in Seq(Seq(Messages)) /\ DOMAIN <<q>> = {1} /\ <<q>>[1] = q /\ Len(<<q>>) = 1
  OBVIOUS
<1>2. <<q>> # << >>
  BY <1>1
<1> QED  BY <1>1, <1>2 DEF Batches

LEMMA MoreBatches ==
  ASSUME NEW x \in Batches, NEW y \in Batches
  PROVE  x \o y \in Batches
<1>0. x \in Seq(Seq(Messages)) /\ y \in Seq(Seq(Messages))
      /\ (\A i \in 1 .. Len(x) : x[i] # << >>) /\ (\A i \in 1 .. Len(y) : y[i] # << >>)
      /\ Len(x) \in Nat /\ Len(y) \in Nat
  BY LenProperties DEF Batches
<1> DEFINE z == x \o y
<1>1. /\ z \in Seq(Seq(Messages)) /\ Len(z) = Len(x) + Len(y)
      /\ \A i \in 1 .. Len(x) + Len(y) : z[i] = IF i <= Len(x) THEN x[i] ELSE y[i - Len(x)]
      /\ DOMAIN z = 1 .. Len(z)
  BY <1>0, ConcatProperties, LenProperties
<1> HIDE DEF z
<1>2. ASSUME NEW i \in DOMAIN z PROVE z[i] # << >>
  <2>1. CASE i <= Len(x)
    <3>1. i \in 1 .. Len(x) /\ i \in 1 .. Len(x) + Len(y)
      BY <1>0, <1>1, <2>1
    <3>2. z[i] = x[i]
      BY <1>1, <2>1, <3>1
    <3> QED  BY <1>0, <3>1, <3>2
  <2>2. CASE i > Len(x)
    <3>1. i - Len(x) \in 1 .. Len(y)
      BY <1>0, <1>1, <2>2
    <3>2. z[i] = y[i - Len(x)]
      BY <1>0, <1>1, <2>2
    <3> QED  BY <1>0, <3>1, <3>2
  <2> QED  BY <1>0, <1>1, <2>1, <2>2
<1> QED  BY <1>1, <1>2 DEF Batches, z

LEMMA NoBatch == << >> \in Batches /\ EmptyReceiver \in Receiver /\ EmptyReceiver.msgs = << >>
<1>1. << >> \in Seq(Messages) /\ << >> \in Seq(Seq(Messages)) /\ DOMAIN << >> = {}
  BY EmptySeq
<1> QED  BY <1>1 DEF EmptyReceiver, Receiver, Batches

LEMMA PendingType ==
  ASSUME NEW r \in Receiver, NEW m \in Messages
  PROVE  PendingBatches(r) \in Batches /\ Append(PendingBatches(r), <<m>>) \in Batches
<1>1. r.msgs \in Seq(Messages)
  BY DEF Receiver
<1>2. PendingBatches(r) \in Batches
  BY <1>1, NoBatch, OneBatch DEF PendingBatches
<1>3. <<m>> \in Seq(Messages) /\ <<m>> # << >>
  OBVIOUS
<1>4. <<<<m>>>> \in Batches
  BY <1>3, OneBatch
<1>5. Append(PendingBatches(r), <<m>>) = PendingBatches(r) \o <<<<m>>>>
  <2>1. PendingBatches(r) \in Seq(Seq(Messages))
    BY <1>2 DEF Batches
  <2> QED  BY <1>3, <2>1, AppendIsConcat
<1> QED  BY <1>2, <1>4, <1>5, MoreBatches

LEMMA OrderedType ==
  ASSUME NEW r \in Receiver, NEW m \in Messages
  PROVE  Ordered(r, m).batches \in Batches /\ Ordered(r, m).rest \in Receiver
<1> DEFINE size  == MessageSize[m.tx]
           over  == r.bytes + size > PreferredMaxBytes
           base  == IF over THEN EmptyReceiver ELSE r
           added == [msgs |-> Append(base.msgs, m), bytes |-> base.bytes + size]
           full  == Len(added.msgs) >= MaxMessageCount
           x == IF over THEN <<r.msgs>> ELSE << >>
           y == IF full THEN <<added.msgs>> ELSE << >>
<1>0. /\ size \in Nat /\ PreferredMaxBytes \in Nat /\ r.msgs \in Seq(Messages) /\ r.bytes \in Nat
      /\ r.msgs = << >> => r.bytes = 0
  BY ChainAssumption, CutterAssumption DEF Messages, Receiver, Tx
<1>1. Ordered(r, m) =
        IF size > PreferredMaxBytes
        THEN [batches |-> Append(PendingBatches(r), <<m>>),
              rest    |-> IF r.msgs = << >> THEN r ELSE EmptyReceiver]
        ELSE [batches |-> x \o y, rest |-> IF full THEN EmptyReceiver ELSE added]
  BY DEF Ordered
<1> HIDE DEF size
<1>2. CASE size > PreferredMaxBytes
  <2>1. Ordered(r, m).batches = Append(PendingBatches(r), <<m>>)
        /\ Ordered(r, m).rest = IF r.msgs = << >> THEN r ELSE EmptyReceiver
    BY <1>1, <1>2
  <2> QED  BY <2>1, PendingType, NoBatch
<1>3. CASE ~(size > PreferredMaxBytes)
  <2>1. base \in Receiver
    BY NoBatch
  <2>2. over => r.msgs # << >>
    BY <1>0, <1>3
  <2> HIDE DEF base, over
  <2>3. base.msgs \in Seq(Messages) /\ base.bytes \in Nat
    BY <2>1 DEF Receiver
  <2> DEFINE q == Append(base.msgs, m)
  <2>4. q \in Seq(Messages) /\ q # << >>
    <3>1. q \in Seq(Messages) /\ Len(q) = Len(base.msgs) + 1 /\ Len(base.msgs) \in Nat
      BY <2>3, AppendProperties, LenProperties
    <3>2. Len(q) # 0
      <4> HIDE DEF q
      <4> QED  BY <3>1
    <3> QED  BY <3>1, <3>2, EmptySeq
  <2> HIDE DEF q
  <2>5. added = [msgs |-> q, bytes |-> base.bytes + size] /\ added.msgs = q
    BY DEF q
  <2>6. added \in Receiver
    BY <1>0, <2>3, <2>4, <2>5 DEF Receiver
  <2>7. x \in Batches /\ y \in Batches
    BY <1>0, <2>2, <2>4, <2>5, OneBatch, NoBatch
  <2> HIDE DEF added, x, y, full
  <2>8. Ordered(r, m).batches = x \o y /\ Ordered(r, m).rest = IF full THEN EmptyReceiver ELSE added
    BY <1>1, <1>3
  <2> QED  BY <2>6, <2>7, <2>8, MoreBatches, NoBatch
<1> QED  BY <1>2, <1>3

LEMMA OrderedMessageType ==
  ASSUME NEW r \in Receiver, NEW m \in Messages
  PROVE  OrderedMessage(r, m).batches \in Batches /\ OrderedMessage(r, m).rest \in Receiver
BY PendingType, OrderedType, NoBatch DEF OrderedMessage

(* Requests and transactions on their way.                                 *)
Request == [to : Node, batches : Batches \ {<< >>}]

(* A leader that serves creates blocks, or panics and restarts.            *)
LEMMA ProposeOrPanicKeeps ==
  ASSUME IInv, NEW n \in Node, Serving(n, chain[n]), NEW datas \in Seq(Seq(Tx)),
         NEW rest \in Receiver, NEW out \in [Node -> Batches], NEW o \in BOOLEAN,
         ProposeOrPanic(n, datas, [CreateBlocks(chain[n], datas) EXCEPT !.open = o], rest, out),
         net' \subseteq Request, unsent' \subseteq Tx, crashes' = crashes
  PROVE  IInv'
<1> DEFINE c == chain[n]
           d == CreateBlocks(c, datas)
           X == [d EXCEPT !.open = o]
<1>0. /\ Types /\ Leading(n, c, cutter[n].msgs)
      /\ Ledgered(c, ledger[n]) /\ Indexed(c, snap[n])
  BY DEF IInv, LeaderInv, LeaderOK, WriteInv, LedgerOK, IndexOK
<1>1. crashes' \in Nat /\ net' \subseteq [to : Node, batches : Batches \ {<< >>}]
  BY <1>0 DEF Types, Request
<1>2. CASE Reboot(n)
  BY <1>1, <1>2, RebootKeeps
<1>3. CASE /\ Len(chain[n].propC) + Len(datas) <= MaxInflightBlocks + 1
           /\ chain' = [chain EXCEPT ![n] = X] /\ cutter' = [cutter EXCEPT ![n] = rest]
           /\ outbox' = out /\ UNCHANGED <<mode, raftVars, ledger, snap, snaps>>
  <2>1. /\ chain' = [chain EXCEPT ![n] = X] /\ cutter' = [cutter EXCEPT ![n] = rest]
        /\ outbox' = out /\ UNCHANGED <<mode, raftVars, ledger, snap, snaps>>
    BY <1>3
  <2>2. c \in Chain /\ c.bc \in Block /\ c.propC \in Seq(Block)
    BY <1>0 DEF Types, Chain, Leading
  <2>3. /\ d \in Chain /\ d.bc \in Block /\ SamePlace(d, c)
        /\ Len(d.propC) = Len(c.propC) + Len(datas)
        /\ \A t \in Block : Leads(t, c.propC, c.bc) => Leads(t, d.propC, d.bc)
    BY <2>2, CreateBlocksEffect
  <2> HIDE DEF d
  <2>4. /\ X \in Chain /\ SameIndex(X, d) /\ X.lead = d.lead /\ X.justElected = d.justElected
        /\ X.bc = d.bc /\ X.propC = d.propC
    BY <2>3 DEF Chain, SameIndex
  <2> HIDE DEF X
  <2>5. SameIndex(X, c) /\ X.lead = c.lead /\ X.justElected = c.justElected
    BY <2>3, <2>4 DEF SameIndex, SamePlace
  <2>6. Len(X.propC) <= MaxInflightBlocks + 1
    <3>1. Len(c.propC) \in Nat /\ Len(datas) \in Nat /\ MaxInflightBlocks \in Nat
      BY <2>2, LenProperties, ChainAssumption
    <3> HIDE DEF c
    <3> QED  BY <1>3, <2>3, <2>4, <3>1 DEF c
  <2>7. X.bc # Nil
    BY <2>3, <2>4, ChainAssumption
  <2>8. ASSUME raft[n].role = "leader", Extends(log[n], committed)
        PROVE  Leads(Tip(log[n])[Len(log[n])], X.propC, X.bc)
    <3>1. Leads(Tip(log[n])[Len(log[n])], c.propC, c.bc)
      BY <1>0, <2>8 DEF Leading
    <3>2. Tip(log[n])[Len(log[n])] \in Block
      <4>1. Len(log[n]) \in 0 .. Len(log[n])
        BY <1>0, LogTypes
      <4> QED  BY <1>0, <4>1, TipDef, LogTypes
    <3> QED  BY <2>3, <2>4, <3>1, <3>2
  <2>9. /\ cutter' \in [Node -> Receiver] /\ cutter'[n] = rest
        /\ \A m \in Node \ {n} : cutter'[m] = cutter[m]
    BY <1>0, <2>1 DEF Types
  <2>10. Serving(n, X) /\ ~X.justElected
    BY <2>5 DEF Serving
  <2>11. Leading(n, X, cutter'[n].msgs)
    BY <2>6, <2>7, <2>8, <2>10 DEF Leading
  <2>12. Ledgered(X, ledger'[n]) /\ Indexed(X, snap'[n])
    BY <1>0, <2>1, <2>5 DEF Ledgered, Indexed, SameIndex
  <2>13. /\ ledger' \in [Node -> Seq(Written)] /\ snap' \in [Node -> Snapshot] /\ snaps' \in Nat
         /\ \A m \in Node \ {n} : ledger'[m] = ledger[m] /\ snap'[m] = snap[m]
    BY <1>0, <2>1 DEF Types
  <2> QED  BY <1>1, <2>1, <2>4, <2>9, <2>11, <2>12, <2>13, LocalStep
<1> QED  BY <1>2, <1>3 DEF ProposeOrPanic

(* A step that leaves the chain of the node alone.                         *)
LEMMA InputStep ==
  ASSUME IInv, NEW n \in Node, UNCHANGED <<mode, raftVars, chain, ledger, snap, crashes, snaps>>,
         NEW r \in Receiver, cutter' = [cutter EXCEPT ![n] = r],
         r.msgs = cutter[n].msgs \/ mode,
         outbox' \in [Node -> Batches], net' \subseteq Request, unsent' \subseteq Tx
  PROVE  IInv'
<1>0. /\ Types /\ Leading(n, chain[n], cutter[n].msgs)
      /\ Ledgered(chain[n], ledger[n]) /\ Indexed(chain[n], snap[n])
  BY DEF IInv, LeaderInv, LeaderOK, WriteInv, LedgerOK, IndexOK
<1>1. chain' = [chain EXCEPT ![n] = chain[n]] /\ chain[n] \in Chain
  BY <1>0 DEF Types
<1>2. /\ cutter' \in [Node -> Receiver] /\ cutter'[n] = r
      /\ \A m \in Node \ {n} : cutter'[m] = cutter[m]
  BY <1>0 DEF Types
<1>3. Leading(n, chain[n], cutter'[n].msgs)
  BY <1>0, <1>2 DEF Leading
<1>4. /\ ledger' \in [Node -> Seq(Written)] /\ snap' \in [Node -> Snapshot]
      /\ crashes' \in Nat /\ snaps' \in Nat
      /\ net' \subseteq [to : Node, batches : Batches \ {<< >>}]
  BY <1>0 DEF Types, Request
<1> QED  BY <1>0, <1>1, <1>2, <1>3, <1>4, LocalStep

LEMMA SubmitKeeps ==
  ASSUME IInv, NEW n \in Node, NEW batches \in Batches \ {<< >>}, NEW rest \in SUBSET Request,
         NEW out \in [Node -> Batches], Submit(n, batches, rest, out), unsent' \subseteq Tx
  PROVE  IInv'
<1> DEFINE c == chain[n]
<1>0. Types /\ Leading(n, c, cutter[n].msgs)
  BY DEF IInv, LeaderInv, LeaderOK
<1>1. c \in Chain /\ cutter[n] \in Receiver /\ crashes' = crashes /\ c.open
  BY <1>0 DEF Types, Submit
<1>2. CASE c.lead = n
  <2>1. ServeSubmit(n, batches, out) /\ net' = rest
    BY <1>2 DEF Submit
  <2>2. Serving(n, c)
    BY <1>0, <1>1, <1>2 DEF Leading, Serving
  <2> DEFINE m == batches[1][1]
             r == IF StillValid(c, m) THEN OrderedMessage(cutter[n], m)
                  ELSE [batches |-> << >>, rest |-> cutter[n]]
             datas == IF mode THEN ValidData(c, batches)
                      ELSE [i \in DOMAIN r.batches |-> Txs(r.batches[i])]
             o == ~CreateBlocks(c, datas).configInflight
                  /\ CreateBlocks(c, datas).blockInflight < MaxInflightBlocks
             q == IF mode THEN cutter[n] ELSE r.rest
  <2>3. ProposeOrPanic(n, datas, [CreateBlocks(c, datas) EXCEPT !.open = o], q, out)
    BY <2>1 DEF ServeSubmit, AfterSubmit
  <2>4. batches \in Seq(Seq(Messages)) /\ m \in Messages
    <3>1. batches \in Seq(Seq(Messages)) /\ batches # << >> /\ \A i \in DOMAIN batches : batches[i] # << >>
      BY DEF Batches
    <3>2. 1 \in 1 .. Len(batches) /\ DOMAIN batches = 1 .. Len(batches)
      BY <3>1, EmptySeq, LenProperties
    <3>3. batches[1] \in Seq(Messages) /\ batches[1] # << >>
      BY <3>1, <3>2, ElementOfSeq
    <3>4. 1 \in 1 .. Len(batches[1])
      BY <3>3, EmptySeq
    <3> QED  BY <3>1, <3>3, <3>4, ElementOfSeq
  <2> HIDE DEF m
  <2>5. r.batches \in Batches /\ r.rest \in Receiver
    BY <1>1, <2>4, OrderedMessageType, NoBatch
  <2> HIDE DEF r
  <2>6. [i \in DOMAIN r.batches |-> Txs(r.batches[i])] \in Seq(Seq(Tx))
    BY <2>5, DataOfBatches
  <2>7. datas \in Seq(Seq(Tx)) /\ q \in Receiver
    BY <1>1, <2>4, <2>5, <2>6, ValidDataType
  <2>8. o \in BOOLEAN
    OBVIOUS
  <2> HIDE DEF datas, q, o
  <2> QED  BY <1>1, <2>1, <2>2, <2>3, <2>7, <2>8, ProposeOrPanicKeeps
<1>3. CASE c.lead # n
  <2>1. /\ net' = rest \cup (IF c.lead = Nil THEN {} ELSE {[to |-> c.lead, batches |-> batches]})
        /\ outbox' = out /\ UNCHANGED <<mode, raftVars, chain, ledger, snap, cutter, snaps>>
    BY <1>3 DEF Submit
  <2>2. net' \subseteq Request
    BY <1>1, <2>1 DEF Chain, Request
  <2>3. cutter' = [cutter EXCEPT ![n] = cutter[n]]
    BY <1>0, <2>1 DEF Types
  <2> QED  BY <1>1, <2>1, <2>2, <2>3, InputStep
<1> QED  BY <1>2, <1>3

LEMMA InputKeeps ==
  ASSUME IInv, NEW n \in Node, Input(n)
  PROVE  IInv'
<1> DEFINE c == chain[n]
<1>0. Types /\ Leading(n, c, cutter[n].msgs)
  BY DEF IInv, LeaderInv, LeaderOK
<1>1. /\ c \in Chain /\ cutter[n] \in Receiver /\ cutter[n].msgs \in Seq(Messages)
      /\ outbox \in [Node -> Batches] /\ outbox[n] \in Batches
      /\ net \subseteq Request /\ unsent \subseteq Tx
  BY <1>0 DEF Types, Receiver, Request
<1>2. ASSUME NEW t \in unsent PROVE Message(n, t) \in Messages
  BY <1>1, SequenceType DEF Message, Messages
<1>3. CASE Order(n)
  <2>1. PICK t \in unsent : unsent' = unsent \ {t} /\ Submit(n, <<<<Message(n, t)>>>>, net, outbox)
    BY <1>3 DEF Order
  <2>2. <<Message(n, t)>> \in Seq(Messages) /\ <<Message(n, t)>> # << >>
    BY <1>2
  <2>3. <<<<Message(n, t)>>>> \in Batches \ {<< >>}
    BY <2>2, OneBatch
  <2> QED  BY <1>1, <2>1, <2>3, SubmitKeeps
<1>4. CASE BatchOrder(n)
  <2>1. PICK t \in unsent :
          LET r == OrderedMessage(cutter[n], Message(n, t))
          IN  /\ mode /\ unsent' = unsent \ {t}
              /\ cutter' = [cutter EXCEPT ![n] = r.rest]
              /\ outbox' = [outbox EXCEPT ![n] = r.batches]
              /\ UNCHANGED <<mode, raftVars, chain, ledger, snap, net, crashes, snaps>>
    BY <1>4 DEF BatchOrder
  <2> DEFINE r == OrderedMessage(cutter[n], Message(n, t))
  <2>2. r.batches \in Batches /\ r.rest \in Receiver
    BY <1>1, <1>2, OrderedMessageType
  <2> HIDE DEF r
  <2>3. /\ mode /\ unsent' = unsent \ {t} /\ cutter' = [cutter EXCEPT ![n] = r.rest]
        /\ outbox' = [outbox EXCEPT ![n] = r.batches]
        /\ UNCHANGED <<mode, raftVars, chain, ledger, snap, net, crashes, snaps>>
    BY <2>1 DEF r
  <2>4. outbox' \in [Node -> Batches]
    BY <1>1, <2>2, <2>3
  <2> QED  BY <1>1, <2>2, <2>3, <2>4, InputStep
<1>5. CASE BatchTimer(n)
  <2> DEFINE data == <<Txs(cutter[n].msgs)>>
  <2>1. /\ cutter[n].msgs # << >> /\ UNCHANGED <<net, unsent, crashes>>
    BY <1>5 DEF BatchTimer
  <2>2. CASE ~mode /\ ProposeOrPanic(n, data, CreateBlocks(c, data), EmptyReceiver, outbox)
    <3>1. data \in Seq(Seq(Tx))
      BY <1>1, TxsType
    <3>2. Serving(n, c) /\ c.bc \in Block
      BY <1>0, <1>1, <2>1, <2>2 DEF Leading, Chain
    <3> HIDE DEF data
    <3>3. CreateBlocks(c, data) \in Chain
      BY <1>1, <3>1, <3>2, CreateBlocksEffect
    <3> DEFINE o == CreateBlocks(c, data).open
    <3>4. CreateBlocks(c, data) = [CreateBlocks(c, data) EXCEPT !.open = o] /\ o \in BOOLEAN
      BY <3>3 DEF Chain
    <3> HIDE DEF o
    <3>5. ProposeOrPanic(n, data, [CreateBlocks(c, data) EXCEPT !.open = o], EmptyReceiver, outbox)
      BY <2>2, <3>4
    <3> QED  BY <1>1, <2>1, <3>1, <3>2, <3>4, <3>5, NoBatch, ProposeOrPanicKeeps
  <2>3. CASE /\ mode /\ outbox' = [outbox EXCEPT ![n] = <<cutter[n].msgs>>]
             /\ cutter' = [cutter EXCEPT ![n] = EmptyReceiver]
             /\ UNCHANGED <<mode, raftVars, chain, ledger, snap, snaps>>
    <3>1. <<cutter[n].msgs>> \in Batches
      BY <1>1, <2>1, OneBatch
    <3>2. outbox' \in [Node -> Batches]
      BY <1>1, <2>3, <3>1
    <3> QED  BY <1>1, <2>1, <2>3, <3>2, NoBatch, InputStep
  <2> QED  BY <1>5, <2>2, <2>3 DEF BatchTimer
<1>6. CASE SubmitBatches(n)
  <2>1. /\ outbox[n] # << >> /\ unsent' = unsent
        /\ Submit(n, outbox[n], net, [outbox EXCEPT ![n] = << >>])
    BY <1>6 DEF SubmitBatches
  <2>2. [outbox EXCEPT ![n] = << >>] \in [Node -> Batches]
    BY <1>1, NoBatch
  <2> QED  BY <1>1, <2>1, <2>2, SubmitKeeps
<1>7. CASE Receive(n)
  <2>1. PICK r \in net : Submit(n, r.batches, net \ {r}, outbox) /\ unsent' = unsent
    BY <1>7 DEF Receive
  <2>2. r.batches \in Batches \ {<< >>} /\ net \ {r} \in SUBSET Request
    BY <1>1 DEF Request
  <2> QED  BY <1>1, <2>1, <2>2, SubmitKeeps
<1> QED  BY <1>3, <1>4, <1>5, <1>6, <1>7 DEF Input
-----------------------------------------------------------------------------
(***************************************************************************)
(* The invariant.                                                          *)
(***************************************************************************)
LEMMA InitHolds == Init => IInv
<1> SUFFICES ASSUME Init PROVE IInv
  OBVIOUS
<1> DEFINE w == [blk |-> Genesis, idx |-> 0]
           l == <<w>>
           c == NewChain(w, NoSnapshot)
           T == [role : {"follower", "candidate", "leader"}, lead : Node \cup {Nil},
                 term : 0 .. MaxTerm, pending : Nat]
<1>1. /\ term = 0 /\ committed = << >> /\ net = {}
      /\ raft = [n \in Node |-> [role |-> "follower", lead |-> Nil, term |-> 0, pending |-> 0]]
      /\ log = [n \in Node |-> << >>] /\ ledger = [n \in Node |-> l]
      /\ snap = [n \in Node |-> NoSnapshot] /\ chain = [n \in Node |-> c]
      /\ cutter = [n \in Node |-> EmptyReceiver] /\ outbox = [n \in Node |-> << >>]
  BY DEF Init
<1>2. mode \in BOOLEAN /\ unsent \subseteq Tx /\ crashes \in Nat /\ snaps \in Nat
  BY ChainAssumption DEF Init, Tx
<1>3. /\ w \in Written /\ w.blk = Genesis /\ w.idx = 0
      /\ NoSnapshot \in Snapshot /\ NoSnapshot.idx = 0 /\ NoSnapshot.blk = Genesis
  BY GenesisType DEF Written, NoSnapshot, Snapshot
<1> HIDE DEF w
<1>4. l \in Seq(Written) /\ Len(l) = 1 /\ l # << >> /\ DOMAIN l = {1} /\ l[1] = w
  <2>1. l \in Seq(Written) /\ Len(l) = 1 /\ DOMAIN l = {1} /\ l[1] = w
    BY <1>3
  <2> QED  BY <2>1
<1> HIDE DEF l
<1>5. /\ c \in Chain /\ c.lead = Nil /\ c.propC = << >> /\ c.last = Genesis
      /\ c.applied = 0 /\ c.raftIndex = 0 /\ c.read = 0
  BY <1>3, NewChainType
<1> HIDE DEF c
<1>6. << >> \in Seq(LogEntry) /\ Len(<< >>) = 0 /\ DOMAIN << >> = {}
  BY EmptySeq
<1>7. Types
  <2>1. 0 \in 0 .. MaxTerm
    BY ChainAssumption
  <2>2. raft \in [Node -> T]
    BY <1>1, <2>1
  <2> QED  BY <1>1, <1>2, <1>3, <1>4, <1>5, <1>6, <2>1, <2>2, NoBatch DEF Types
<1>8. TermInv
  <2>1. \A n \in Node : raft[n].role = "follower" /\ raft[n].term = 0 /\ log[n] = << >>
    BY <1>1
  <2> QED  BY <1>1, <1>6, <2>1 DEF TermInv, TermOK, Latest
<1>9. LogInv
  <2>1. Chained(<< >>)
    BY <1>6 DEF Chained
  <2> QED  BY <1>1, <2>1 DEF LogInv
<1>10. LeaderInv
  <2> SUFFICES ASSUME NEW n \in Node PROVE Leading(n, c, << >>)
    BY <1>1, NoBatch DEF LeaderInv, LeaderOK
  <2>1. c.lead # n /\ ~Serving(n, c) /\ Len(<< >>) <= MaxInflightBlocks + 1
    BY <1>5, <1>6, ChainAssumption DEF Serving
  <2> QED  BY <1>5, <2>1 DEF Leading
<1>11. WriteInv
  <2>1. Tip(<< >>)[0] = Genesis /\ Num(<< >>, 0) = 0 /\ Genesis.num = 0
    BY <1>6, TipDef, GenesisType DEF Num
  <2>2. InLog(committed, Genesis) /\ Reached(committed, 0, Genesis)
    BY <1>1, <1>6, <2>1 DEF InLog, Reached
  <2>3. Ledgered(c, l)
    <3>1. WrittenOK(committed, w, 0)
      BY <1>1, <1>3, <1>6, <2>1, <2>2 DEF WrittenOK
    <3> QED  BY <1>3, <1>4, <1>5, <3>1 DEF Ledgered
  <2>4. Indexed(c, NoSnapshot)
    BY <1>1, <1>3, <1>5, <1>6, <2>1, <2>2 DEF Indexed, SnapshotOK
  <2> QED  BY <1>1, <2>3, <2>4 DEF WriteInv, LedgerOK, IndexOK
<1> QED  BY <1>7, <1>8, <1>9, <1>10, <1>11 DEF IInv

LEMMA StutterKeeps ==
  ASSUME IInv, UNCHANGED vars
  PROVE  IInv'
<1>1. /\ UNCHANGED <<mode, term, raft, log, committed, chain, ledger, snap, cutter, outbox, net,
                     unsent, crashes, snaps>>
  BY DEF vars, raftVars, inputVars
<1>2. Types'
  BY <1>1 DEF IInv, Types
<1>3. TermInv'
  BY <1>1 DEF IInv, TermInv, TermOK, Deposed, Latest, Extends
<1>4. LogInv'
  BY <1>1 DEF IInv, LogInv
<1>5. LeaderInv'
  BY <1>1 DEF IInv, LeaderInv, LeaderOK, Leading
<1>6. WriteInv'
  BY <1>1 DEF IInv, WriteInv, LedgerOK, IndexOK, Ledgered, Indexed
<1> QED  BY <1>2, <1>3, <1>4, <1>5, <1>6 DEF IInv

LEMMA StepKeeps ==
  ASSUME SnapshotsRead', IInv, Next
  PROVE  IInv'
<1>1. PICK n \in Node : \/ Raft(n) \/ Apply(n) \/ InstallSnapshot(n) \/ SuspectEviction(n)
                        \/ Propose(n) \/ ProposeConfChange(n) \/ Input(n) \/ Crash(n)
  BY DEF Next
<1>2. CASE Raft(n)
  BY <1>2, RaftKeeps
<1>3. CASE Apply(n)
  BY <1>3, ApplySoftKeeps, SkipEntryKeeps, ApplyBlockKeeps, ApplyConfChangeKeeps DEF Apply
<1>4. CASE InstallSnapshot(n)
  BY <1>4, InstallSnapshotKeeps
<1>5. CASE SuspectEviction(n)
  BY <1>5, SuspectEvictionKeeps
<1>6. CASE Propose(n)
  BY <1>6, ProposeKeeps
<1>7. CASE ProposeConfChange(n)
  BY <1>7, ProposeConfChangeKeeps
<1>8. CASE Input(n)
  BY <1>8, InputKeeps
<1>9. CASE Crash(n)
  <2>1. crashes > 0 /\ crashes' = crashes - 1 /\ Reboot(n) /\ UNCHANGED <<net, unsent>>
    BY <1>9 DEF Crash
  <2>2. crashes \in Nat /\ net \subseteq Request /\ unsent \subseteq Tx
    BY DEF IInv, Types, Request
  <2>3. /\ crashes' \in Nat /\ unsent' \subseteq Tx
        /\ net' \subseteq [to : Node, batches : Batches \ {<< >>}]
    BY <2>1, <2>2 DEF Request
  <2> QED  BY <2>1, <2>3, RebootKeeps
<1> QED  BY <1>1, <1>2, <1>3, <1>4, <1>5, <1>6, <1>7, <1>8, <1>9

(* The invariant above, through elections, applying, catch-up, proposing,  *)
(* requests, crashes and restarts (run, runBatch, writeBlock, Start).      *)
THEOREM ChainInvariance ==
  Spec /\ []SnapshotsRead => []IInv
<1>1. Init => IInv
  BY InitHolds
<1>2. IInv /\ SnapshotsRead' /\ [Next]_vars => IInv'
  BY StepKeeps, StutterKeeps
<1> QED  BY <1>1, <1>2, PTL DEF Spec
-----------------------------------------------------------------------------
(***************************************************************************)
(* What follows from it.                                                   *)
(***************************************************************************)
LEMMA TypesFollow ==
  ASSUME IInv
  PROVE  TypeOK
<1>1. Types
  BY DEF IInv
<1>2. ASSUME NEW n \in Node
      PROVE  /\ chain[n].lead \in Node \cup {Nil} /\ chain[n].blockInflight \in Nat
             /\ chain[n].applied \in chain[n].read .. Len(committed)
             /\ Len(chain[n].propC) <= MaxInflightBlocks + 1
             /\ chain[n].propC # << >> => chain[n].bc # Nil
  <2>1. chain[n] \in Chain /\ Leading(n, chain[n], cutter[n].msgs) /\ Indexed(chain[n], snap[n])
    BY <1>1 DEF IInv, Types, LeaderInv, LeaderOK, WriteInv, IndexOK
  <2>2. /\ chain[n].lead \in Node \cup {Nil} /\ chain[n].blockInflight \in Nat
        /\ chain[n].read \in Nat /\ chain[n].applied \in Nat
    BY <2>1 DEF Chain
  <2>3. chain[n].read <= chain[n].applied /\ chain[n].applied <= Len(committed)
    BY <2>1 DEF Indexed, Reached
  <2>4. Len(committed) \in Nat
    BY <1>1, LogTypes
  <2>5. chain[n].applied \in chain[n].read .. Len(committed)
    BY <2>2, <2>3, <2>4
  <2>6. Len(chain[n].propC) <= MaxInflightBlocks + 1 /\ (chain[n].propC # << >> => chain[n].bc # Nil)
    BY <2>1 DEF Leading
  <2> QED  BY <2>2, <2>5, <2>6
<1> QED  BY <1>1, <1>2 DEF TypeOK, Types, Tx

(* Every record, sequence and index of the chain is what its declaration   *)
(* says; an applied index is a committed one, and the channel of proposals *)
(* never holds more than MaxInflightBlocks blocks, next to the one that is *)
(* being proposed (propose in chain.go).                                   *)
THEOREM ChainTypeCorrect ==
  Spec /\ []SnapshotsRead => []TypeOK
<1>1. IInv => TypeOK
  BY TypesFollow
<1> QED  BY <1>1, ChainInvariance, PTL

LEMMA NoGapFollows ==
  ASSUME IInv
  PROVE  NoGap
<1> SUFFICES ASSUME NEW n \in Node, CanRead(n), NextEntry(n).type = "block",
                    chain[n].read + 1 > chain[n].applied
             PROVE  NextEntry(n).blk.num <= chain[n].last.num + 1
  BY DEF NoGap
<1>1. /\ chain[n] \in Chain /\ chain[n].read \in Nat /\ chain[n].applied \in Nat
      /\ chain[n].read <= chain[n].applied /\ chain[n].read \in 0 .. Len(committed)
      /\ NextEntry(n).blk.num = Num(committed, chain[n].read) + 1
  BY ReadEntry
<1>2. chain[n].applied = chain[n].read
  BY <1>1
<1>3. Num(committed, chain[n].read) <= chain[n].last.num
  BY <1>2 DEF IInv, WriteInv, IndexOK, Indexed, Reached
<1>4. Num(committed, chain[n].read) \in Nat /\ chain[n].last.num \in Nat
  <2>1. committed \in Seq(LogEntry)
    BY DEF IInv, Types
  <2> QED  BY <1>1, <2>1, TipDef DEF Num, Block, Chain
<1> QED  BY <1>1, <1>3, <1>4

(* In a behaviour without a snapshot beyond the entries its node has read, *)
(* no node meets a committed block beyond the next one of its ledger, for  *)
(* which writeBlock panics ("Got block, expect block"): what apply reads   *)
(* again after a restart, catchUp and lost last blocks open no gap.        *)
THEOREM ChainHasNoGap ==
  Spec /\ []SnapshotsRead => []NoGap
<1>1. IInv => NoGap
  BY NoGapFollows
<1> QED  BY <1>1, ChainInvariance, PTL

(* The blocks of a chain are numbered from 1, each extends the one before, *)
(* and the latest block of any beginning is among them under its number.   *)
Listed(s, es, i) ==
    /\ Len(es) = Num(s, i)
    /\ \A k \in 1 .. Len(es) :
         es[k].blk = NextBlock(IF k = 1 THEN Genesis ELSE es[k - 1].blk, es[k].blk.data)
    /\ \A j \in 0 .. i : Num(s, j) # 0 => es[Num(s, j)].blk = Tip(s)[j]

LEMMA ListedStep ==
  ASSUME NEW s \in Seq(LogEntry), Chained(s), NEW i \in Nat, i + 1 <= Len(s),
         NEW es \in Seq(LogEntry), Listed(s, es, i)
  PROVE  Listed(s, IF s[i + 1].type = "block" THEN Append(es, s[i + 1]) ELSE es, i + 1)
<1> DEFINE e == s[i + 1]
<1>0. /\ Len(s) \in Nat /\ i \in 0 .. Len(s) /\ i + 1 \in 0 .. Len(s) /\ i + 1 \in 1 .. Len(s)
      /\ DOMAIN s = 1 .. Len(s) /\ (i + 1) - 1 = i
      /\ \A j \in 0 .. i + 1 : j \in 0 .. Len(s) /\ (j = i + 1 \/ j \in 0 .. i)
  BY LenProperties
<1>1. /\ e \in LogEntry /\ Tip(s)[i + 1] = TipStep(Tip(s)[i], e)
      /\ \A j \in 0 .. Len(s) : Tip(s)[j] \in Block /\ Num(s, j) \in Nat /\ Num(s, j) = Tip(s)[j].num
  BY <1>0, TipDef, ElementOfSeq DEF Num, Block
<1>2. /\ Len(es) = Num(s, i) /\ Len(es) \in Nat
      /\ \A k \in 1 .. Len(es) :
           es[k].blk = NextBlock(IF k = 1 THEN Genesis ELSE es[k - 1].blk, es[k].blk.data)
      /\ \A j \in 0 .. i : Num(s, j) # 0 => es[Num(s, j)].blk = Tip(s)[j]
  BY LenProperties DEF Listed
<1> HIDE DEF e
<1>3. CASE e.type # "block"
  <2>1. Tip(s)[i + 1] = Tip(s)[i] /\ Num(s, i + 1) = Num(s, i) /\ i \in 0 .. i
    BY <1>1, <1>3 DEF TipStep, Num
  <2>2. ASSUME NEW j \in 0 .. i + 1, Num(s, j) # 0 PROVE es[Num(s, j)].blk = Tip(s)[j]
    BY <1>0, <1>2, <2>1, <2>2
  <2>3. Listed(s, es, i + 1)
    BY <1>2, <2>1, <2>2 DEF Listed
  <2> QED  BY <1>3, <2>3 DEF e
<1>4. CASE e.type = "block"
  <2> DEFINE t == Append(es, e)
             a == Len(es)
  <2>1. /\ t \in Seq(LogEntry) /\ Len(t) = a + 1 /\ t[a + 1] = e /\ \A k \in 1 .. a : t[k] = es[k]
    BY <1>1, AppendProperties
  <2> HIDE DEF t, a
  <2>2. a \in Nat /\ a = Num(s, i)
    BY <1>2 DEF a
  <2>3. e.blk = Tip(s)[i + 1] /\ e.blk = NextBlock(Tip(s)[i], e.blk.data)
    BY <1>0, <1>1, <1>4 DEF TipStep, Chained, e
  <2>4. Num(s, i + 1) = a + 1
    <3>1. e.blk.data \in Seq(Tx)
      BY <1>1 DEF LogEntry, Block, Tx
    <3>2. NextBlock(Tip(s)[i], e.blk.data).num = Tip(s)[i].num + 1
      BY <1>0, <1>1, <3>1, NextBlockType
    <3>3. Num(s, i) = Tip(s)[i].num /\ Num(s, i + 1) = Tip(s)[i + 1].num
      BY DEF Num
    <3> QED  BY <2>2, <2>3, <3>2, <3>3
  <2>5. ASSUME NEW k \in 1 .. Len(t)
        PROVE  t[k].blk = NextBlock(IF k = 1 THEN Genesis ELSE t[k - 1].blk, t[k].blk.data)
    <3>1. CASE k \in 1 .. a
      <4>1. t[k] = es[k]
        BY <2>1, <3>1
      <4>2. ASSUME k # 1 PROVE t[k - 1] = es[k - 1]
        <5>1. k - 1 \in 1 .. a
          BY <2>2, <3>1, <4>2
        <5> QED  BY <2>1, <5>1
      <4> QED  BY <1>2, <3>1, <4>1, <4>2 DEF a
    <3>2. CASE k = a + 1 /\ a = 0
      <4>1. Tip(s)[0] = Genesis /\ Tip(s)[0].num = 0 /\ 0 \in 0 .. Len(s)
        BY <1>0, TipDef, GenesisType
      <4>2. Tip(s)[i].num = 0
        BY <2>2, <3>2 DEF Num
      <4>3. Tip(s)[i] = Genesis
        BY <1>0, <4>1, <4>2, TipByNumber
      <4> QED  BY <2>1, <2>3, <3>2, <4>3
    <3>3. CASE k = a + 1 /\ a # 0
      <4>1. k # 1 /\ k - 1 = a /\ a \in 1 .. a /\ i \in 0 .. i
        BY <2>2, <3>3
      <4>2. t[k - 1].blk = Tip(s)[i]
        BY <1>2, <2>1, <2>2, <3>3, <4>1
      <4> QED  BY <2>1, <2>3, <3>3, <4>1, <4>2
    <3> QED  BY <2>1, <2>2, <3>1, <3>2, <3>3
  <2>6. ASSUME NEW j \in 0 .. i + 1, Num(s, j) # 0 PROVE t[Num(s, j)].blk = Tip(s)[j]
    <3>1. CASE j = i + 1
      BY <2>1, <2>3, <2>4, <3>1
    <3>2. CASE j \in 0 .. i
      <4>1. j <= i /\ j \in 0 .. Len(s)
        BY <1>0, <3>2
      <4>2. Num(s, j) <= Num(s, i) /\ Num(s, j) \in Nat
        BY <1>0, <1>1, <4>1, TipByNumber DEF Num
      <4>3. Num(s, j) \in 1 .. a
        BY <2>2, <2>6, <4>2
      <4> QED  BY <1>2, <2>1, <2>6, <3>2, <4>3
    <3> QED  BY <1>0, <3>1, <3>2
  <2>7. Listed(s, t, i + 1)
    BY <2>1, <2>4, <2>5, <2>6 DEF Listed
  <2> QED  BY <1>4, <2>7 DEF t, e
<1> QED  BY <1>3, <1>4

(* The committed blocks are the blocks of the committed log.               *)
LEMMA CommittedListed ==
  ASSUME IInv
  PROVE  LET es == Keep(committed, {e \in Range(committed) : e.type = "block"})
         IN  es \in Seq(LogEntry) /\ Listed(committed, es, Len(committed))
<1> DEFINE s == committed
           S == {e \in Range(s) : e.type = "block"}
<1>0. s \in Seq(LogEntry) /\ Len(s) \in Nat /\ DOMAIN s = 1 .. Len(s) /\ Chained(s)
  BY LenProperties DEF IInv, Types, LogInv
<1>1. \A i \in 1 .. Len(s) : s[i] \in S <=> s[i].type = "block"
  BY <1>0 DEF Range
<1> HIDE DEF S, s
<1>2. PICK f \in [0 .. Len(s) -> Seq(LogEntry)] :
        /\ f[0] = << >> /\ \A i \in 1 .. Len(s) : f[i] = KeepStep(f[i - 1], s[i], S)
        /\ Keep(s, S) = f[Len(s)]
  <2>1. s \in Seq(LogEntry)
    BY <1>0
  <2> QED  BY <2>1, KeepDef, ZenonT(60)
<1> DEFINE P == {i \in Nat : i <= Len(s) => Listed(s, f[i], i)}
<1>3. 0 \in P
  <2>1. Tip(s)[0] = Genesis /\ Num(s, 0) = 0
    BY <1>0, TipDef, GenesisType DEF Num
  <2>2. Len(<< >>) = 0 /\ 1 .. 0 = {} /\ 0 .. 0 = {0}
    OBVIOUS
  <2>3. Listed(s, << >>, 0)
    BY <2>1, <2>2 DEF Listed
  <2> QED  BY <1>2, <2>3
<1>4. ASSUME NEW i \in Nat, i \in P PROVE i + 1 \in P
  <2> SUFFICES ASSUME i + 1 <= Len(s) PROVE Listed(s, f[i + 1], i + 1)
    OBVIOUS
  <2>1. i + 1 \in 1 .. Len(s) /\ i \in 0 .. Len(s) /\ (i + 1) - 1 = i /\ Listed(s, f[i], i)
    BY <1>0, <1>4
  <2>2. f[i + 1] = KeepStep(f[i], s[i + 1], S) /\ f[i] \in Seq(LogEntry)
    BY <1>2, <2>1
  <2>3. f[i + 1] = IF s[i + 1].type = "block" THEN Append(f[i], s[i + 1]) ELSE f[i]
    BY <1>1, <2>1, <2>2 DEF KeepStep
  <2> QED  BY <1>0, <2>1, <2>2, <2>3, ListedStep
<1>5. Nat \subseteq P
  <2> HIDE DEF P
  <2> QED  BY <1>3, <1>4, SetInduction
<1>6. Listed(s, f[Len(s)], Len(s)) /\ f[Len(s)] \in Seq(LogEntry)
  <2>1. Len(s) \in P /\ Len(s) \in 0 .. Len(s)
    <3> HIDE DEF P
    <3> QED  BY <1>0, <1>5
  <2> QED  BY <1>0, <1>2, <2>1
<1> QED  BY <1>2, <1>6 DEF s, S

LEMMA OneChainFollows ==
  ASSUME IInv
  PROVE  OneChain
<1> DEFINE es == Keep(committed, {e \in Range(committed) : e.type = "block"})
           blocks == CommittedBlocks
           N == Len(committed)
<1>0. /\ es \in Seq(LogEntry) /\ Listed(committed, es, N)
  BY CommittedListed
<1>1. blocks = [i \in DOMAIN es |-> es[i].blk]
  BY DEF CommittedBlocks
<1> HIDE DEF es, blocks
<1>2. /\ Len(es) \in Nat /\ DOMAIN es = 1 .. Len(es) /\ Len(es) = Num(committed, N)
      /\ \A k \in 1 .. Len(es) :
           es[k].blk = NextBlock(IF k = 1 THEN Genesis ELSE es[k - 1].blk, es[k].blk.data)
      /\ \A j \in 0 .. N : Num(committed, j) # 0 =>
           es[Num(committed, j)].blk = Tip(committed)[j]
  BY <1>0, LenProperties DEF Listed
<1>3. /\ DOMAIN blocks = 1 .. Len(es) /\ \A k \in 1 .. Len(es) : blocks[k] = es[k].blk
  BY <1>1, <1>2
<1>4. Len(blocks) = Len(es)
  <2>1. blocks \in Seq(Block)
    <3>1. \A k \in 1 .. Len(es) : es[k] \in LogEntry
      BY <1>0, ElementOfSeq
    <3>2. \A k \in 1 .. Len(es) : es[k].blk \in Block
      BY <3>1 DEF LogEntry
    <3>3. blocks \in [1 .. Len(es) -> Block]
      BY <1>1, <1>2, <3>2
    <3> QED  BY <1>2, <3>3, IsASeq
  <2>2. DOMAIN blocks = 1 .. Len(blocks) /\ Len(blocks) \in Nat
    BY <2>1, LenProperties
  <2> QED  BY <1>2, <1>3, <2>2
<1>5. ASSUME NEW i \in DOMAIN blocks
      PROVE  blocks[i] = NextBlock(IF i = 1 THEN Genesis ELSE blocks[i - 1], blocks[i].data)
  <2>1. i \in 1 .. Len(es) /\ blocks[i] = es[i].blk
    BY <1>3
  <2>2. i # 1 => blocks[i - 1] = es[i - 1].blk
    <3> SUFFICES ASSUME i # 1 PROVE blocks[i - 1] = es[i - 1].blk
      OBVIOUS
    <3>1. i - 1 \in 1 .. Len(es)
      BY <1>2, <2>1
    <3> QED  BY <1>3, <3>1
  <2> QED  BY <1>2, <2>1, <2>2
<1>6. committed \in Seq(LogEntry) /\ N \in Nat /\ Chained(committed)
  BY LenProperties DEF IInv, Types, LogInv
<1>7. ASSUME NEW n \in Node, NEW k \in 2 .. Len(ledger[n])
      PROVE  ledger[n][k].blk = blocks[k - 1] /\ k - 1 <= Len(blocks)
  <2>1. ledger[n] \in Seq(Written) /\ Len(ledger[n]) \in Nat
    BY LenProperties DEF IInv, Types
  <2>2. k \in DOMAIN ledger[n] /\ k \in Nat /\ k - 1 # 0 /\ k - 1 \in Nat
    BY <2>1, LenProperties
  <2>3. WrittenOK(committed, ledger[n][k], k - 1)
    BY <2>2 DEF IInv, WriteInv, LedgerOK, Ledgered
  <2>4. PICK j \in 0 .. N : ledger[n][k].blk = Tip(committed)[j]
    BY <2>3 DEF WrittenOK, InLog
  <2>5. Num(committed, j) = k - 1
    BY <2>3, <2>4 DEF WrittenOK, Num
  <2>6. es[k - 1].blk = ledger[n][k].blk
    BY <1>2, <2>2, <2>4, <2>5
  <2>7. k - 1 <= Len(es)
    <3>1. N \in 0 .. N /\ j <= N
      BY <1>6
    <3>2. Num(committed, j) <= Num(committed, N)
      BY <1>6, <3>1, TipByNumber DEF Num
    <3> QED  BY <1>2, <2>5, <3>2
  <2>8. k - 1 \in 1 .. Len(es)
    BY <1>2, <2>2, <2>7
  <2> QED  BY <1>3, <1>4, <2>6, <2>7, <2>8
<1>8. ASSUME NEW n \in Node PROVE Len(ledger[n]) <= Len(blocks) + 1
  <2>1. Len(ledger[n]) \in Nat /\ Len(blocks) \in Nat
    BY <1>2, <1>4, LenProperties DEF IInv, Types
  <2>2. CASE Len(ledger[n]) >= 2
    <3>1. Len(ledger[n]) \in 2 .. Len(ledger[n])
      BY <2>1, <2>2
    <3>2. Len(ledger[n]) - 1 <= Len(blocks)
      BY <1>7, <3>1
    <3> QED  BY <2>1, <3>2
  <2> QED  BY <2>1, <2>2
<1> QED  BY <1>5, <1>7, <1>8 DEF OneChain, blocks

(* The committed blocks are one chain and every ledger is a beginning of   *)
(* it, through leader changes, blocks in flight, crashes, replayed entries,*)
(* snapshots and catch-up (justElected and appliedIndex in chain.go).      *)
THEOREM ChainIsOne ==
  Spec /\ []SnapshotsRead => []OneChain
<1>1. IInv => OneChain
  BY OneChainFollows
<1> QED  BY <1>1, ChainInvariance, PTL
-----------------------------------------------------------------------------
(***************************************************************************)
(* Batch limits. A block fits when it keeps the limits of its mode; with   *)
(* batching at the leader the byte counter of a cutter is the size of what *)
(* is pending.                                                             *)
(***************************************************************************)
Fits(md, d) ==
    /\ Len(d) <= MaxMessageCount
    /\ ~md /\ Len(d) > 1 => TotalSize(d) <= PreferredMaxBytes

LogFits(md, s) == \A i \in DOMAIN s : s[i].type = "block" => Fits(md, s[i].blk.data)

QueueFits(md, q) == \A i \in DOMAIN q : Fits(md, q[i].data)

CutterFits(md, r) ==
    /\ Len(r.msgs) < MaxMessageCount
    /\ ~md => r.bytes = TotalSize(Txs(r.msgs)) /\ r.bytes <= PreferredMaxBytes

Counted(bs) == \A i \in DOMAIN bs : Len(bs[i]) <= MaxMessageCount

LimitsOK(n) ==
    /\ LogFits(mode, log[n]) /\ QueueFits(mode, chain[n].propC)
    /\ CutterFits(mode, cutter[n]) /\ Counted(outbox[n])

(* From the cutter to the log, nothing exceeds the limits.                 *)
LimitInv ==
    /\ \A n \in Node : LimitsOK(n)
    /\ LogFits(mode, committed)
    /\ \A r \in net : Counted(r.batches)

(* The size of a block, message by message.                                *)
SizeStep(x, t) == x + MessageSize[t]

SizesTo(d, f) ==
    /\ f \in [0 .. Len(d) -> Nat] /\ f[0] = 0
    /\ \A i \in 1 .. Len(d) : f[i] = SizeStep(f[i - 1], d[i])

LEMMA SizeExists ==
  ASSUME NEW d \in Seq(Tx)
  PROVE  \E f : SizesTo(d, f)
<1> DEFINE m == Len(d)
           N == Nat
           G == [x \in N \X (1 .. m) |-> SizeStep(x[1], d[x[2]])]
<1>0. m \in Nat /\ 0 \in N /\ \A i \in 1 .. m : MessageSize[d[i]] \in Nat
  <2>1. \A i \in 1 .. m : d[i] \in Tx
    BY ElementOfSeq
  <2> QED  BY <2>1, LenProperties, ChainAssumption DEF Tx
<1> HIDE DEF N
<1>1. G \in [N \X (1 .. m) -> N]
  <2> SUFFICES ASSUME NEW r \in N, NEW i \in 1 .. m PROVE SizeStep(r, d[i]) \in N
    OBVIOUS
  <2> QED  BY <1>0 DEF SizeStep, N
<1>2. PICK f : f \in Recursive(N, 0, G, m)
  <2> HIDE DEF G, m
  <2> QED  BY <1>0, <1>1, RecursionExists
<1>3. f \in [0 .. m -> N] /\ f[0] = 0 /\ \A i \in 1 .. m : f[i] = G[<<f[i - 1], i>>]
  BY <1>2 DEF Recursive
<1>4. ASSUME NEW i \in 1 .. m PROVE f[i] = SizeStep(f[i - 1], d[i])
  <2>1. f[i - 1] \in N
    BY <1>0, <1>3
  <2>2. G[<<f[i - 1], i>>] = SizeStep(f[i - 1], d[i])
    BY <2>1
  <2> QED  BY <1>3, <2>2
<1> QED  BY <1>3, <1>4 DEF SizesTo, N

LEMMA SizeIs ==
  ASSUME NEW d \in Seq(Tx), NEW f, SizesTo(d, f)
  PROVE  TotalSize(d) = f[Len(d)] /\ TotalSize(d) \in Nat
<1> DEFINE m == Len(d)
           Def(h) == h = [i \in 0 .. m |-> IF i = 0 THEN 0 ELSE SizeStep(h[i - 1], d[i])]
           g == CHOOSE h : Def(h)
<1>0. /\ m \in Nat /\ f \in [0 .. m -> Nat] /\ f[0] = 0
      /\ \A i \in 1 .. m : f[i] = SizeStep(f[i - 1], d[i])
  BY LenProperties DEF SizesTo
<1>1. Def(f)
  <2> HIDE DEF m
  <2>1. \A i \in 0 .. m : f[i] = IF i = 0 THEN 0 ELSE SizeStep(f[i - 1], d[i])
    BY <1>0
  <2> QED  BY <1>0, <2>1
<1>2. TotalSize(d) = g[m]
  BY DEF TotalSize, SizeStep
<1>3. Def(g)
  <2> HIDE DEF Def
  <2> QED  BY <1>1
<1>4. /\ DOMAIN g = 0 .. m /\ g[0] = 0
      /\ \A i \in 1 .. m : g[i] = SizeStep(g[i - 1], d[i])
  <2> HIDE DEF m, g
  <2> QED  BY <1>0, <1>3
<1> HIDE DEF g, m
<1> DEFINE P == {i \in Nat : i <= m => g[i] = f[i]}
<1>5. 0 \in P
  BY <1>0, <1>4
<1>6. ASSUME NEW i \in Nat, i \in P PROVE i + 1 \in P
  <2> SUFFICES ASSUME i + 1 <= m PROVE g[i + 1] = f[i + 1]
    OBVIOUS
  <2>1. i + 1 \in 1 .. m /\ (i + 1) - 1 = i /\ g[i] = f[i]
    BY <1>0, <1>6
  <2>2. g[i + 1] = SizeStep(g[i], d[i + 1]) /\ f[i + 1] = SizeStep(f[i], d[i + 1])
    BY <1>0, <1>4, <2>1
  <2> QED  BY <2>1, <2>2
<1>7. Nat \subseteq P
  <2> HIDE DEF P
  <2> QED  BY <1>5, <1>6, SetInduction
<1>8. g[m] = f[m] /\ f[m] \in Nat
  BY <1>0, <1>7
<1> QED  BY <1>2, <1>8 DEF m

LEMMA SizeOfNone == TotalSize(<< >>) = 0
<1>1. << >> \in Seq(Tx) /\ Len(<< >>) = 0
  BY EmptySeq
<1> DEFINE f == [i \in 0 .. 0 |-> 0]
<1>2. f \in [0 .. 0 -> Nat] /\ f[0] = 0
  OBVIOUS
<1>3. SizesTo(<< >>, f)
  BY <1>1, <1>2 DEF SizesTo
<1> HIDE DEF f
<1> QED  BY <1>1, <1>2, <1>3, SizeIs

LEMMA SizeOfMore ==
  ASSUME NEW d \in Seq(Tx), NEW t \in Tx
  PROVE  /\ TotalSize(d) \in Nat
         /\ TotalSize(Append(d, t)) = TotalSize(d) + MessageSize[t]
<1> DEFINE e == Append(d, t)
           m == Len(d)
<1>1. PICK f : SizesTo(d, f)
  BY SizeExists
<1>2. /\ m \in Nat /\ e \in Seq(Tx) /\ Len(e) = m + 1 /\ e[m + 1] = t
      /\ \A i \in 1 .. m : e[i] = d[i]
  BY AppendProperties, LenProperties
<1>3. TotalSize(d) = f[m] /\ TotalSize(d) \in Nat /\ f[m] \in Nat
  BY <1>1, SizeIs
<1>4. MessageSize[t] \in Nat
  BY ChainAssumption DEF Tx
<1>5. f \in [0 .. m -> Nat] /\ f[0] = 0 /\ \A i \in 1 .. m : f[i] = SizeStep(f[i - 1], d[i])
  BY <1>1 DEF SizesTo
<1> HIDE DEF m, e
<1> DEFINE h == [i \in 0 .. m + 1 |-> IF i = m + 1 THEN f[m] + MessageSize[t] ELSE f[i]]
<1>6. h \in [0 .. m + 1 -> Nat] /\ h[0] = 0
  BY <1>2, <1>3, <1>4, <1>5
<1>7. ASSUME NEW i \in 1 .. m + 1 PROVE h[i] = SizeStep(h[i - 1], e[i])
  <2>1. i \in 0 .. m + 1 /\ i - 1 \in 0 .. m + 1 /\ i - 1 # m + 1
    BY <1>2
  <2>2. CASE i = m + 1
    <3>1. i - 1 = m /\ h[i] = f[m] + MessageSize[t] /\ h[i - 1] = f[m] /\ e[i] = t
      BY <1>2, <2>1, <2>2
    <3> QED  BY <3>1 DEF SizeStep
  <2>3. CASE i # m + 1
    <3>1. i \in 1 .. m
      BY <1>2, <2>3
    <3>2. h[i] = f[i] /\ h[i - 1] = f[i - 1] /\ e[i] = d[i]
      BY <1>2, <2>1, <2>3, <3>1
    <3> QED  BY <1>5, <3>1, <3>2
  <2> QED  BY <2>2, <2>3
<1>8. h[m + 1] = f[m] + MessageSize[t]
  BY <1>2
<1> HIDE DEF h
<1>9. SizesTo(e, h)
  BY <1>2, <1>6, <1>7 DEF SizesTo
<1>10. TotalSize(e) = h[m + 1]
  BY <1>2, <1>9, SizeIs
<1> QED  BY <1>3, <1>8, <1>10 DEF e

(* Selecting leaves no more, and nothing else.                             *)
LEMMA KeepLess ==
  ASSUME NEW T, NEW s \in Seq(T), NEW S
  PROVE  /\ Len(Keep(s, S)) <= Len(s)
         /\ \A i \in DOMAIN Keep(s, S) : \E j \in DOMAIN s : s[j] \in S /\ Keep(s, S)[i] = s[j]
<1> DEFINE m == Len(s)
<1>0. m \in Nat /\ (\A i \in 1 .. m : s[i] \in T) /\ DOMAIN s = 1 .. m
  BY LenProperties, ElementOfSeq
<1>1. PICK f \in [0 .. m -> Seq(T)] :
        /\ f[0] = << >> /\ \A i \in 1 .. m : f[i] = KeepStep(f[i - 1], s[i], S)
        /\ Keep(s, S) = f[m]
  BY KeepDef, ZenonT(60)
<1> HIDE DEF m
<1> DEFINE Less(i) == Len(f[i]) <= i /\ \A k \in DOMAIN f[i] : \E j \in 1 .. m : s[j] \in S /\ f[i][k] = s[j]
           P == {i \in Nat : i <= m => Less(i)}
<1>2. 0 \in P
  <2>1. Len(f[0]) = 0 /\ DOMAIN f[0] = {}
    BY <1>1, EmptySeq
  <2> QED  BY <2>1
<1>3. ASSUME NEW i \in Nat, i \in P PROVE i + 1 \in P
  <2> SUFFICES ASSUME i + 1 <= m PROVE Less(i + 1)
    OBVIOUS
  <2>1. i + 1 \in 1 .. m /\ (i + 1) - 1 = i /\ i \in 0 .. m /\ Less(i)
    BY <1>0, <1>3
  <2> DEFINE r == f[i]
             q == f[i + 1]
  <2>2. q = KeepStep(r, s[i + 1], S) /\ r \in Seq(T) /\ s[i + 1] \in T
    BY <1>0, <1>1, <2>1
  <2>3. Len(r) \in Nat /\ Len(r) <= i /\ DOMAIN r = 1 .. Len(r)
        /\ \A k \in 1 .. Len(r) : \E j \in 1 .. m : s[j] \in S /\ r[k] = s[j]
    BY <2>1, <2>2, LenProperties
  <2> HIDE DEF r, q
  <2>4. CASE s[i + 1] \in S
    <3>1. q = Append(r, s[i + 1])
      BY <2>2, <2>4 DEF KeepStep
    <3>2. /\ Len(q) = Len(r) + 1 /\ DOMAIN q = 1 .. Len(r) + 1 /\ q[Len(r) + 1] = s[i + 1]
          /\ \A k \in 1 .. Len(r) : q[k] = r[k]
      BY <2>2, <3>1, AppendProperties, LenProperties
    <3>3. ASSUME NEW k \in DOMAIN q PROVE \E j \in 1 .. m : s[j] \in S /\ q[k] = s[j]
      <4>1. CASE k = Len(r) + 1
        BY <2>1, <2>4, <3>2, <4>1
      <4>2. CASE k \in 1 .. Len(r)
        BY <2>3, <3>2, <4>2
      <4> QED  BY <2>3, <3>2, <4>1, <4>2
    <3>4. Len(q) <= i + 1
      BY <2>3, <3>2
    <3> QED  BY <3>3, <3>4 DEF q
  <2>5. CASE s[i + 1] \notin S
    <3>1. q = r
      BY <2>2, <2>5 DEF KeepStep
    <3>2. Len(q) <= i + 1
      BY <2>3, <3>1
    <3> QED  BY <2>3, <3>1, <3>2 DEF q
  <2> QED  BY <2>4, <2>5
<1>4. Nat \subseteq P
  <2> HIDE DEF P
  <2> QED  BY <1>2, <1>3, SetInduction
<1>5. Less(m)
  BY <1>0, <1>4
<1> QED  BY <1>0, <1>1, <1>5 DEF m

(***************************************************************************)
(* The cutter keeps the limits.                                            *)
(***************************************************************************)
BatchesFit(md, bs) == \A i \in DOMAIN bs : Fits(md, Txs(bs[i]))

LEMMA TxsLen ==
  ASSUME NEW q \in Seq(Messages)
  PROVE  Len(Txs(q)) = Len(q) /\ Len(q) \in Nat /\ Txs(q) \in Seq(Tx)
<1>1. DOMAIN q = 1 .. Len(q) /\ Len(q) \in Nat /\ Txs(q) \in Seq(Tx)
  BY LenProperties, TxsType
<1>2. DOMAIN Txs(q) = DOMAIN q
  BY DEF Txs
<1>3. DOMAIN Txs(q) = 1 .. Len(Txs(q)) /\ Len(Txs(q)) \in Nat
  BY <1>1, LenProperties
<1> QED  BY <1>1, <1>2, <1>3

LEMMA TxsAppend ==
  ASSUME NEW q \in Seq(Messages), NEW m \in Messages
  PROVE  Txs(Append(q, m)) = Append(Txs(q), m.tx)
<1> DEFINE x == Txs(Append(q, m))
           y == Append(Txs(q), m.tx)
<1>1. m.tx \in Tx /\ Txs(q) \in Seq(Tx) /\ Len(Txs(q)) = Len(q) /\ Len(q) \in Nat
  BY TxsLen DEF Messages
<1>2. /\ Append(q, m) \in Seq(Messages) /\ Len(Append(q, m)) = Len(q) + 1
      /\ Append(q, m)[Len(q) + 1] = m /\ \A i \in 1 .. Len(q) : Append(q, m)[i] = q[i]
      /\ DOMAIN Append(q, m) = 1 .. Len(q) + 1
  BY AppendProperties, LenProperties
<1>3. x \in Seq(Tx) /\ Len(x) = Len(q) + 1
  BY <1>2, TxsLen
<1>4. y \in Seq(Tx) /\ Len(y) = Len(q) + 1 /\ y[Len(q) + 1] = m.tx
      /\ \A i \in 1 .. Len(q) : y[i] = Txs(q)[i]
  BY <1>1, AppendProperties
<1>5. DOMAIN q = 1 .. Len(q)
  BY LenProperties
<1>6. ASSUME NEW i \in 1 .. Len(q) + 1 PROVE x[i] = y[i]
  <2>1. x[i] = Append(q, m)[i].tx
    BY <1>2 DEF Txs
  <2>2. CASE i = Len(q) + 1
    BY <1>2, <1>4, <2>1, <2>2
  <2>3. CASE i \in 1 .. Len(q)
    <3>1. Txs(q)[i] = q[i].tx
      BY <1>5, <2>3 DEF Txs
    <3> QED  BY <1>2, <1>4, <2>1, <2>3, <3>1
  <2> QED  BY <1>1, <2>2, <2>3
<1> HIDE DEF x, y
<1>7. x = y
  BY <1>3, <1>4, <1>6, SeqEqual
<1> QED  BY <1>7 DEF x, y

LEMMA PendingFits ==
  ASSUME NEW md, NEW r \in Receiver, CutterFits(md, r)
  PROVE  Fits(md, Txs(r.msgs)) /\ BatchesFit(md, <<r.msgs>>)
<1>1. r.msgs \in Seq(Messages)
  BY DEF Receiver
<1>2. Len(Txs(r.msgs)) = Len(r.msgs) /\ Len(r.msgs) \in Nat /\ MaxMessageCount \in Nat
  BY <1>1, TxsLen, CutterAssumption
<1>3. Fits(md, Txs(r.msgs))
  BY <1>2 DEF Fits, CutterFits
<1>4. DOMAIN <<r.msgs>> = {1} /\ <<r.msgs>>[1] = r.msgs
  OBVIOUS
<1> QED  BY <1>3, <1>4 DEF BatchesFit

LEMMA EmptyFits ==
  ASSUME NEW md
  PROVE  CutterFits(md, EmptyReceiver)
<1>1. MaxMessageCount \in Nat /\ MaxMessageCount >= 1 /\ PreferredMaxBytes \in Nat
  BY CutterAssumption
<1>2. EmptyReceiver.msgs = << >> /\ EmptyReceiver.bytes = 0 /\ << >> \in Seq(Messages) /\ Len(<< >>) = 0
  BY DEF EmptyReceiver
<1>3. Txs(<< >>) = << >>
  <2>1. Txs(<< >>) \in Seq(Tx) /\ Len(Txs(<< >>)) = 0
    BY <1>2, TxsLen
  <2> QED  BY <2>1, EmptySeq
<1> QED  BY <1>1, <1>2, <1>3, SizeOfNone DEF CutterFits

LEMMA SingleFits ==
  ASSUME NEW md, NEW m \in Messages
  PROVE  BatchesFit(md, <<<<m>>>>) /\ CutterFits(md, EmptyReceiver)
<1>1. MaxMessageCount \in Nat /\ MaxMessageCount >= 1 /\ PreferredMaxBytes \in Nat
  BY CutterAssumption
<1>2. <<m>> \in Seq(Messages) /\ Len(<<m>>) = 1
  OBVIOUS
<1>3. Len(Txs(<<m>>)) = 1
  BY <1>2, TxsLen
<1>4. Fits(md, Txs(<<m>>))
  <2> SUFFICES ASSUME NEW d, Len(d) = 1 PROVE Fits(md, d)
    BY <1>3
  <2> QED  BY <1>1 DEF Fits
<1>5. DOMAIN <<<<m>>>> = {1} /\ <<<<m>>>>[1] = <<m>>
  OBVIOUS
<1> QED  BY <1>4, <1>5, EmptyFits DEF BatchesFit

LEMMA BatchesFitMore ==
  ASSUME NEW md, NEW x \in Seq(Seq(Messages)), NEW y \in Seq(Seq(Messages)),
         BatchesFit(md, x), BatchesFit(md, y)
  PROVE  BatchesFit(md, x \o y)
<1> DEFINE z == x \o y
<1>1. /\ Len(x) \in Nat /\ Len(y) \in Nat /\ DOMAIN x = 1 .. Len(x) /\ DOMAIN y = 1 .. Len(y)
      /\ Len(z) = Len(x) + Len(y) /\ DOMAIN z = 1 .. Len(z)
      /\ \A i \in 1 .. Len(x) + Len(y) : z[i] = IF i <= Len(x) THEN x[i] ELSE y[i - Len(x)]
  BY ConcatProperties, LenProperties
<1> HIDE DEF z
<1>2. ASSUME NEW i \in DOMAIN z PROVE Fits(md, Txs(z[i]))
  <2>1. CASE i <= Len(x)
    <3>1. i \in DOMAIN x /\ z[i] = x[i]
      BY <1>1, <2>1
    <3> QED  BY <3>1 DEF BatchesFit
  <2>2. CASE i > Len(x)
    <3>1. i - Len(x) \in DOMAIN y /\ z[i] = y[i - Len(x)]
      BY <1>1, <2>2
    <3> QED  BY <3>1 DEF BatchesFit
  <2> QED  BY <1>1, <2>1, <2>2
<1> QED  BY <1>2 DEF BatchesFit, z

LEMMA PendingBatchesFit ==
  ASSUME NEW md, NEW r \in Receiver, NEW m \in Messages, CutterFits(md, r)
  PROVE  BatchesFit(md, Append(PendingBatches(r), <<m>>))
<1>1. PendingBatches(r) \in Seq(Seq(Messages)) /\ <<<<m>>>> \in Seq(Seq(Messages))
      /\ <<m>> \in Seq(Messages)
  <2>1. PendingBatches(r) \in Batches
    BY PendingType
  <2>2. PendingBatches(r) \in Seq(Seq(Messages))
    BY <2>1 DEF Batches
  <2>3. <<m>> \in Seq(Messages)
    OBVIOUS
  <2>4. <<<<m>>>> \in Seq(Seq(Messages))
    BY <2>3
  <2> QED  BY <2>2, <2>3, <2>4
<1>2. Append(PendingBatches(r), <<m>>) = PendingBatches(r) \o <<<<m>>>>
  BY <1>1, AppendIsConcat
<1>3. BatchesFit(md, << >>)
  BY DEF BatchesFit
<1>4. BatchesFit(md, PendingBatches(r))
  BY <1>3, PendingFits DEF PendingBatches
<1> QED  BY <1>1, <1>2, <1>4, SingleFits, BatchesFitMore

LEMMA OrderedFits ==
  ASSUME NEW md, NEW r \in Receiver, NEW m \in Messages, CutterFits(md, r)
  PROVE  BatchesFit(md, Ordered(r, m).batches) /\ CutterFits(md, Ordered(r, m).rest)
<1> DEFINE size  == MessageSize[m.tx]
           over  == r.bytes + size > PreferredMaxBytes
           base  == IF over THEN EmptyReceiver ELSE r
           added == [msgs |-> Append(base.msgs, m), bytes |-> base.bytes + size]
           full  == Len(added.msgs) >= MaxMessageCount
           x == IF over THEN <<r.msgs>> ELSE << >>
           y == IF full THEN <<added.msgs>> ELSE << >>
<1>0. /\ size \in Nat /\ PreferredMaxBytes \in Nat /\ r.msgs \in Seq(Messages) /\ r.bytes \in Nat
      /\ r.msgs = << >> => r.bytes = 0
      /\ MaxMessageCount \in Nat
  BY ChainAssumption, CutterAssumption DEF Messages, Receiver, Tx
<1>1. Ordered(r, m) =
        IF size > PreferredMaxBytes
        THEN [batches |-> Append(PendingBatches(r), <<m>>),
              rest    |-> IF r.msgs = << >> THEN r ELSE EmptyReceiver]
        ELSE [batches |-> x \o y, rest |-> IF full THEN EmptyReceiver ELSE added]
  BY DEF Ordered
<1>2. m.tx \in Tx /\ size = MessageSize[m.tx]
  BY DEF Messages
<1> HIDE DEF size
<1>3. CASE size > PreferredMaxBytes
  <2>1. Ordered(r, m).batches = Append(PendingBatches(r), <<m>>)
        /\ Ordered(r, m).rest = IF r.msgs = << >> THEN r ELSE EmptyReceiver
    BY <1>1, <1>3
  <2> QED  BY <2>1, PendingBatchesFit, SingleFits
<1>4. CASE ~(size > PreferredMaxBytes)
  <2>1. base \in Receiver /\ CutterFits(md, base)
    BY NoBatch, SingleFits
  <2>2. base.bytes \in Nat /\ base.bytes + size <= PreferredMaxBytes
    <3>1. CASE over
      BY <1>0, <1>4, <3>1 DEF EmptyReceiver
    <3>2. CASE ~over
      BY <1>0, <3>2
    <3> QED  BY <3>1, <3>2
  <2>3. BatchesFit(md, x)
    BY PendingFits DEF BatchesFit
  <2> HIDE DEF base, over
  <2> DEFINE q == Append(base.msgs, m)
  <2>4. base.msgs \in Seq(Messages)
    BY <2>1 DEF Receiver
  <2>5. q \in Seq(Messages) /\ Len(q) = Len(base.msgs) + 1 /\ Len(base.msgs) \in Nat
    BY <2>4, AppendProperties, LenProperties
  <2>6. Txs(q) = Append(Txs(base.msgs), m.tx) /\ Txs(base.msgs) \in Seq(Tx) /\ Len(Txs(q)) = Len(q)
    BY <2>4, <2>5, TxsAppend, TxsLen
  <2>7. TotalSize(Txs(q)) = TotalSize(Txs(base.msgs)) + size
    BY <1>2, <2>6, SizeOfMore
  <2>8. Len(q) <= MaxMessageCount /\ (~md => TotalSize(Txs(q)) = base.bytes + size)
    <3>1. Len(base.msgs) < MaxMessageCount /\ (~md => base.bytes = TotalSize(Txs(base.msgs)))
      BY <2>1 DEF CutterFits
    <3> HIDE DEF q
    <3> QED  BY <1>0, <2>5, <2>7, <3>1
  <2> HIDE DEF q
  <2>9. Fits(md, Txs(q))
    BY <2>2, <2>6, <2>8 DEF Fits
  <2>10. added = [msgs |-> q, bytes |-> base.bytes + size] /\ added.msgs = q
         /\ added.bytes = base.bytes + size
    BY DEF q
  <2>11. y = IF full THEN <<q>> ELSE << >>
    BY <2>10
  <2>12. full <=> Len(q) >= MaxMessageCount
    BY <2>10
  <2> HIDE DEF added, y, full
  <2>13. BatchesFit(md, y)
    <3>1. DOMAIN <<q>> = {1} /\ <<q>>[1] = q
      OBVIOUS
    <3>2. BatchesFit(md, <<q>>)
      BY <2>9, <3>1 DEF BatchesFit
    <3>3. BatchesFit(md, << >>)
      BY DEF BatchesFit
    <3> QED  BY <2>11, <3>2, <3>3
  <2>14. ~full => CutterFits(md, added)
    <3>1. ~full => Len(q) < MaxMessageCount
      BY <1>0, <2>5, <2>12
    <3>2. ~md => added.bytes = TotalSize(Txs(q)) /\ added.bytes <= PreferredMaxBytes
      BY <2>2, <2>8, <2>10
    <3> QED  BY <2>10, <3>1, <3>2 DEF CutterFits
  <2>15. x \in Seq(Seq(Messages)) /\ y \in Seq(Seq(Messages))
    <3>1. <<r.msgs>> \in Seq(Seq(Messages)) /\ << >> \in Seq(Seq(Messages))
      BY <1>0
    <3>2. <<q>> \in Seq(Seq(Messages))
      BY <2>5
    <3> QED  BY <2>11, <3>1, <3>2
  <2> HIDE DEF x
  <2>16. Ordered(r, m).batches = x \o y /\ Ordered(r, m).rest = IF full THEN EmptyReceiver ELSE added
    BY <1>1, <1>4
  <2> QED  BY <2>3, <2>13, <2>14, <2>15, <2>16, BatchesFitMore, SingleFits
<1> QED  BY <1>3, <1>4

LEMMA OrderedMessageFits ==
  ASSUME NEW md, NEW r \in Receiver, NEW m \in Messages, CutterFits(md, r)
  PROVE  /\ BatchesFit(md, OrderedMessage(r, m).batches)
         /\ CutterFits(md, OrderedMessage(r, m).rest)
BY OrderedFits, PendingBatchesFit, SingleFits DEF OrderedMessage

(* Batches that fit are counted, and revalidation only leaves out messages.*)
LEMMA FitIsCounted ==
  ASSUME NEW md, NEW bs \in Seq(Seq(Messages)), BatchesFit(md, bs)
  PROVE  Counted(bs)
<1> SUFFICES ASSUME NEW i \in DOMAIN bs PROVE Len(bs[i]) <= MaxMessageCount
  BY DEF Counted
<1>1. bs[i] \in Seq(Messages)
  BY LenProperties, ElementOfSeq
<1>2. Fits(md, Txs(bs[i])) /\ Len(Txs(bs[i])) = Len(bs[i])
  BY <1>1, TxsLen DEF BatchesFit
<1> QED  BY <1>2 DEF Fits

LEMMA ValidDataFits ==
  ASSUME NEW c, NEW batches \in Seq(Seq(Messages)), Counted(batches), NEW md, md
  PROVE  \A i \in DOMAIN ValidData(c, batches) : Fits(md, ValidData(c, batches)[i])
<1> DEFINE S == {b \in Range(batches) : b[1].tx \notin ConfigTx \/ StillValid(c, b[1])}
           kept == Keep(batches, S)
           V(i) == {m \in Range(kept[i]) : StillValid(c, m)}
<1>1. /\ kept \in Seq(Seq(Messages))
      /\ \A i \in DOMAIN kept : \E j \in DOMAIN batches : kept[i] = batches[j]
  <2> DEFINE T == Seq(Messages)
  <2>1. batches \in Seq(T)
    OBVIOUS
  <2> HIDE DEF S, T
  <2>2. kept \in Seq(T)
    BY <2>1, KeepType
  <2>3. \A i \in DOMAIN kept : \E j \in DOMAIN batches : kept[i] = batches[j]
    BY <2>1, KeepLess
  <2> QED  BY <2>2, <2>3 DEF T
<1>2. ValidData(c, batches) = [i \in DOMAIN kept |-> Txs(Keep(kept[i], V(i)))]
  BY DEF ValidData
<1> HIDE DEF kept
<1>3. ASSUME NEW i \in DOMAIN kept PROVE Fits(md, Txs(Keep(kept[i], V(i))))
  <2>1. kept[i] \in Seq(Messages)
    BY <1>1, LenProperties, ElementOfSeq
  <2>2. Len(kept[i]) <= MaxMessageCount /\ Len(kept[i]) \in Nat /\ MaxMessageCount \in Nat
    BY <1>1, <1>3, <2>1, LenProperties, CutterAssumption DEF Counted
  <2> HIDE DEF V
  <2>3. Keep(kept[i], V(i)) \in Seq(Messages) /\ Len(Keep(kept[i], V(i))) <= Len(kept[i])
    BY <2>1, KeepType, KeepLess
  <2>4. Len(Txs(Keep(kept[i], V(i)))) = Len(Keep(kept[i], V(i))) /\ Len(Keep(kept[i], V(i))) \in Nat
    BY <2>3, TxsLen
  <2> QED  BY <2>2, <2>3, <2>4 DEF Fits
<1> HIDE DEF V
<1> QED  BY <1>2, <1>3

(* The blocks made of data that fit.                                       *)
LEMMA CreateBlocksFit ==
  ASSUME NEW c \in Chain, c.bc \in Block, NEW datas \in Seq(Seq(Tx)), NEW md,
         QueueFits(md, c.propC), \A i \in DOMAIN datas : Fits(md, datas[i])
  PROVE  QueueFits(md, CreateBlocks(c, datas).propC)
<1> DEFINE m == Len(datas)
           S == {x \in Chain : x.bc \in Block}
<1>0. m \in Nat /\ \A i \in 1 .. m : datas[i] \in Seq(Tx) /\ Fits(md, datas[i])
  BY LenProperties, ElementOfSeq
<1>1. PICK g \in [0 .. m -> S] :
        /\ g[0] = c /\ \A i \in 1 .. m : g[i] = CreateBlock(g[i - 1], datas[i])
        /\ CreateBlocks(c, datas) = g[m]
  BY CreateBlocksDef
<1> HIDE DEF m
<1> DEFINE P == {i \in Nat : i <= m => QueueFits(md, g[i].propC)}
<1>2. 0 \in P
  BY <1>1
<1>3. ASSUME NEW i \in Nat, i \in P PROVE i + 1 \in P
  <2> SUFFICES ASSUME i + 1 <= m PROVE QueueFits(md, g[i + 1].propC)
    OBVIOUS
  <2>1. i + 1 \in 1 .. m /\ (i + 1) - 1 = i /\ i \in 0 .. m /\ QueueFits(md, g[i].propC)
    BY <1>0, <1>3
  <2> DEFINE y == g[i]
             d == datas[i + 1]
             z == g[i + 1]
  <2>2. z = CreateBlock(y, d) /\ d \in Seq(Tx) /\ Fits(md, d) /\ y \in Chain /\ y.bc \in Block
    BY <1>0, <1>1, <2>1
  <2> HIDE DEF y, d, z
  <2>3. z.propC = Append(y.propC, NextBlock(y.bc, d)) /\ y.propC \in Seq(Block)
        /\ NextBlock(y.bc, d) \in Block /\ NextBlock(y.bc, d).data = d
    <3>1. y.propC \in Seq(Block)
      BY <2>2 DEF Chain
    <3>2. NextBlock(y.bc, d) \in Block
      BY <2>2, NextBlockType
    <3>3. NextBlock(y.bc, d).data = d
      BY DEF NextBlock
    <3>4. z.propC = Append(y.propC, NextBlock(y.bc, d))
      BY <2>2 DEF CreateBlock, Chain
    <3> QED  BY <3>1, <3>2, <3>3, <3>4
  <2>4. QueueFits(md, z.propC)
    <3> DEFINE q == y.propC
    <3>1. /\ Len(q) \in Nat /\ DOMAIN q = 1 .. Len(q) /\ DOMAIN z.propC = 1 .. Len(q) + 1
          /\ z.propC[Len(q) + 1] = NextBlock(y.bc, d)
          /\ \A k \in 1 .. Len(q) : z.propC[k] = q[k]
      BY <2>3, AppendProperties, LenProperties
    <3>2. QueueFits(md, q)
      BY <2>1 DEF y
    <3> HIDE DEF q
    <3>3. ASSUME NEW k \in DOMAIN z.propC PROVE Fits(md, z.propC[k].data)
      <4>1. CASE k = Len(q) + 1
        BY <2>2, <2>3, <3>1, <4>1
      <4>2. CASE k \in 1 .. Len(q)
        BY <3>1, <3>2, <4>2 DEF QueueFits
      <4> QED  BY <3>1, <4>1, <4>2
    <3> QED  BY <3>3 DEF QueueFits
  <2> QED  BY <2>4 DEF z
<1>4. Nat \subseteq P
  <2> HIDE DEF P
  <2> QED  BY <1>2, <1>3, SetInduction
<1> QED  BY <1>0, <1>1, <1>4
-----------------------------------------------------------------------------
(***************************************************************************)
(* A step of one node keeps the limits.                                    *)
(***************************************************************************)
LEMMA LimitFrame ==
  ASSUME LimitInv, NEW n \in Node, mode' = mode, committed' = committed,
         \A m \in Node \ {n} : /\ log'[m] = log[m] /\ chain'[m] = chain[m]
                               /\ cutter'[m] = cutter[m] /\ outbox'[m] = outbox[m],
         LogFits(mode, log'[n]), QueueFits(mode, chain'[n].propC),
         CutterFits(mode, cutter'[n]), Counted(outbox'[n]),
         \A r \in net' : Counted(r.batches)
  PROVE  LimitInv'
<1>1. ASSUME NEW m \in Node PROVE LimitsOK(m)'
  <2>1. CASE m = n
    BY <2>1 DEF LimitsOK
  <2>2. CASE m # n
    <3>1. LimitsOK(m) /\ m \in Node \ {n}
      BY <2>2 DEF LimitInv
    <3>2. log'[m] = log[m] /\ chain'[m] = chain[m] /\ cutter'[m] = cutter[m] /\ outbox'[m] = outbox[m]
      BY <3>1
    <3> QED  BY <3>1, <3>2 DEF LimitsOK
  <2> QED  BY <2>1, <2>2
<1>2. LogFits(mode, committed)'
  BY DEF LimitInv
<1> QED  BY <1>1, <1>2 DEF LimitInv

LEMMA LimitParts ==
  ASSUME IInv, LimitInv, NEW n \in Node
  PROVE  /\ LogFits(mode, log[n]) /\ QueueFits(mode, chain[n].propC)
         /\ CutterFits(mode, cutter[n]) /\ Counted(outbox[n])
         /\ LogFits(mode, committed) /\ \A r \in net : Counted(r.batches)
         /\ Types /\ chain[n] \in Chain /\ log[n] \in Seq(LogEntry)
         /\ cutter[n] \in Receiver /\ outbox[n] \in Batches
BY DEF LimitInv, LimitsOK, IInv, Types

LEMMA NoneFits == \A md : QueueFits(md, << >>) /\ Counted(<< >>)
BY DEF QueueFits, Counted

(* A step of the chain of a node, whose queue stays or is discarded.       *)
LEMMA ChainStepFits ==
  ASSUME IInv, LimitInv, NEW n \in Node, NEW X, chain' = [chain EXCEPT ![n] = X],
         X.propC = chain[n].propC \/ X.propC = << >>,
         UNCHANGED <<mode, log, committed, cutter, outbox, net>>
  PROVE  LimitInv'
<1>1. /\ LogFits(mode, log[n]) /\ QueueFits(mode, chain[n].propC)
      /\ CutterFits(mode, cutter[n]) /\ Counted(outbox[n])
      /\ \A r \in net : Counted(r.batches)
  BY LimitParts
<1>2. chain'[n] = X /\ \A m \in Node \ {n} : chain'[m] = chain[m]
  BY LimitParts DEF Types
<1>3. QueueFits(mode, chain'[n].propC)
  BY <1>1, <1>2, NoneFits
<1> QED  BY <1>1, <1>2, <1>3, LimitFrame

(* A node takes a log that fits.                                           *)
LEMMA LogStepFits ==
  ASSUME IInv, LimitInv, NEW n \in Node, NEW s, log' = [log EXCEPT ![n] = s],
         LogFits(mode, s), UNCHANGED <<mode, committed, chain, cutter, outbox, net>>
  PROVE  LimitInv'
<1>1. /\ QueueFits(mode, chain[n].propC) /\ CutterFits(mode, cutter[n]) /\ Counted(outbox[n])
      /\ \A r \in net : Counted(r.batches)
  BY LimitParts
<1>2. log'[n] = s /\ \A m \in Node \ {n} : log'[m] = log[m]
  BY LimitParts DEF Types
<1> QED  BY <1>1, <1>2, LimitFrame

LEMMA LogFitsMore ==
  ASSUME NEW md, NEW s \in Seq(LogEntry), NEW e \in LogEntry, LogFits(md, s),
         e.type = "block" => Fits(md, e.blk.data)
  PROVE  LogFits(md, Append(s, e))
<1> DEFINE t == Append(s, e)
<1>1. /\ Len(s) \in Nat /\ DOMAIN s = 1 .. Len(s) /\ DOMAIN t = 1 .. Len(s) + 1
      /\ t[Len(s) + 1] = e /\ \A i \in 1 .. Len(s) : t[i] = s[i]
  BY AppendProperties, LenProperties
<1> HIDE DEF t
<1>2. ASSUME NEW i \in DOMAIN t, t[i].type = "block" PROVE Fits(md, t[i].blk.data)
  <2>1. CASE i = Len(s) + 1
    BY <1>1, <1>2, <2>1
  <2>2. CASE i \in 1 .. Len(s)
    BY <1>1, <1>2, <2>2 DEF LogFits
  <2> QED  BY <1>1, <2>1, <2>2
<1> QED  BY <1>2 DEF LogFits, t

LEMMA RaftFits ==
  ASSUME IInv, LimitInv, NEW n \in Node, Raft(n)
  PROVE  LimitInv'
<1>0. /\ LogFits(mode, log[n]) /\ Types /\ log[n] \in Seq(LogEntry)
  BY LimitParts
<1>1. CASE Timeout(n)
  <2>1. UNCHANGED <<mode, log, committed, chain, cutter, outbox, net>>
    BY <1>1 DEF Timeout, inputVars
  <2>2. log' = [log EXCEPT ![n] = log[n]]
    BY <1>0, <2>1 DEF Types
  <2> QED  BY <1>0, <2>1, <2>2, LogStepFits
<1>2. CASE Elect(n)
  <2> DEFINE e == Entry(term + 1, "empty", Genesis, {})
  <2>1. /\ UNCHANGED <<mode, committed, chain, cutter, outbox, net>>
        /\ log' = [log EXCEPT ![n] = Append(log[n], e)]
    BY <1>2 DEF Elect, inputVars
  <2>2. e \in LogEntry /\ e.type = "empty"
    BY <1>0, GenesisType, ChainAssumption DEF Types, Entry, LogEntry
  <2> HIDE DEF e
  <2>3. LogFits(mode, Append(log[n], e))
    BY <1>0, <2>2, LogFitsMore
  <2> QED  BY <2>1, <2>3, LogStepFits
<1>3. CASE Replicate(n)
  <2>1. PICK l \in Node : /\ UNCHANGED <<mode, committed, chain, cutter, outbox, net>>
                          /\ log' = [log EXCEPT ![n] = log[l]]
    BY <1>3 DEF Replicate, inputVars
  <2>2. LogFits(mode, log[l])
    BY LimitParts
  <2> QED  BY <2>1, <2>2, LogStepFits
<1>4. CASE Commit(n)
  <2>1. UNCHANGED <<mode, log, chain, cutter, outbox, net>> /\ committed' = log[n]
    BY <1>4 DEF Commit, inputVars
  <2>2. \A m \in Node : LimitsOK(m)'
    BY <2>1 DEF LimitInv, LimitsOK
  <2> QED  BY <1>0, <2>1, <2>2 DEF LimitInv
<1> QED  BY <1>1, <1>2, <1>3, <1>4 DEF Raft

LEMMA ApplySoftFits ==
  ASSUME IInv, LimitInv, NEW n \in Node, ApplySoft(n)
  PROVE  LimitInv'
<1> DEFINE c    == chain[n]
           new  == raft[n].lead
           lost == c.lead = n /\ new # n
           d    == IF new = n /\ c.lead # n THEN BecomeLeader(c)
                   ELSE IF lost THEN BecomeFollower(c) ELSE c
           e    == [d EXCEPT !.lead = new]
           r    == IF ~lost THEN cutter[n]
                   ELSE IF mode THEN [cutter[n] EXCEPT !.bytes = 0] ELSE EmptyReceiver
<1>0. /\ LogFits(mode, log[n]) /\ QueueFits(mode, c.propC)
      /\ CutterFits(mode, cutter[n]) /\ Counted(outbox[n])
      /\ (\A i \in net : Counted(i.batches))
      /\ Types /\ c \in Chain /\ cutter[n] \in Receiver
  BY LimitParts
<1>1. /\ chain' = [chain EXCEPT ![n] = AfterApply(n, e)]
      /\ cutter' = [cutter EXCEPT ![n] = r]
      /\ UNCHANGED <<mode, log, committed, outbox, net>>
  BY <1>0 DEF ApplySoft, Types, raftVars
<1>2. new \in Node \cup {Nil}
  BY <1>0 DEF Types
<1>3. d \in Chain /\ (d.propC = c.propC \/ d.propC = << >>)
  BY <1>0, <1>2, BecomeLeaderEffect, BecomeFollowerEffect
<1>4. CutterFits(mode, r)
  <2>1. CutterFits(mode, EmptyReceiver)
    BY EmptyFits
  <2>2. mode => CutterFits(mode, [cutter[n] EXCEPT !.bytes = 0])
    <3>1. [cutter[n] EXCEPT !.bytes = 0].msgs = cutter[n].msgs
      BY <1>0 DEF Receiver
    <3> QED  BY <1>0, <3>1 DEF CutterFits
  <2> QED  BY <1>0, <2>1, <2>2
<1> HIDE DEF d, r
<1>5. e \in Chain /\ e.propC = d.propC
  BY <1>2, <1>3 DEF Chain
<1> HIDE DEF e
<1>6. AfterApply(n, e).propC = e.propC
  BY <1>0, <1>5, AfterApplyEffect
<1>7. /\ chain'[n] = AfterApply(n, e) /\ cutter'[n] = r
      /\ \A m \in Node \ {n} : chain'[m] = chain[m] /\ cutter'[m] = cutter[m]
  BY <1>0, <1>1 DEF Types
<1>8. QueueFits(mode, chain'[n].propC)
  BY <1>0, <1>3, <1>5, <1>6, <1>7, NoneFits
<1> QED  BY <1>0, <1>1, <1>4, <1>7, <1>8, LimitFrame

LEMMA ApplyFits ==
  ASSUME IInv, LimitInv, NEW n \in Node, Apply(n)
  PROVE  LimitInv'
<1> DEFINE o == chain[n]
           c == Advance(o)
<1>0. Types
  BY LimitParts
<1>1. ASSUME CanRead(n) PROVE c \in Chain /\ c.propC = o.propC
  BY <1>1, ReadEntry, AdvanceEffect DEF SameLead
<1>2. ASSUME NEW d \in Chain, d.propC = o.propC, chain' = [chain EXCEPT ![n] = AfterApply(n, d)],
             UNCHANGED <<mode, raftVars, inputVars>>
      PROVE  LimitInv'
  <2>1. AfterApply(n, d).propC = o.propC
    BY <1>0, <1>2, AfterApplyEffect
  <2>2. UNCHANGED <<mode, log, committed, cutter, outbox, net>>
    BY <1>2 DEF raftVars, inputVars
  <2> QED  BY <1>2, <2>1, <2>2, ChainStepFits
<1>3. CASE ApplySoft(n)
  BY <1>3, ApplySoftFits
<1>4. CASE SkipEntry(n)
  <2>1. CanRead(n) /\ chain' = [chain EXCEPT ![n] = AfterApply(n, c)]
        /\ UNCHANGED <<mode, raftVars, inputVars>>
    BY <1>4 DEF SkipEntry
  <2> HIDE DEF c
  <2> QED  BY <1>1, <1>2, <2>1
<1>5. CASE ApplyBlock(n)
  <2> DEFINE b == NextEntry(n).blk
             d == WroteBlock(c, b)
  <2>1. CanRead(n) /\ chain' = [chain EXCEPT ![n] = AfterApply(n, d)]
        /\ UNCHANGED <<mode, raftVars, inputVars>>
    BY <1>5 DEF ApplyBlock
  <2>2. b \in Block
    BY <2>1, ReadEntry DEF LogEntry
  <2> HIDE DEF c, b
  <2>3. d \in Chain /\ d.propC = o.propC
    BY <1>1, <2>1, <2>2, WroteBlockEffect DEF SameLead
  <2> HIDE DEF d
  <2> QED  BY <1>2, <2>1, <2>3
<1>6. CASE ApplyConfChange(n)
  <2> DEFINE t == NextEntry(n).blk.data[1]
             d == [c EXCEPT !.conf = @ \cup {t}]
             f == IF c.confChange # t THEN d
                  ELSE [d EXCEPT !.confChange = Nil, !.configInflight = FALSE]
  <2>1. /\ CanRead(n) /\ NextEntry(n).type = "conf"
        /\ chain' = [chain EXCEPT ![n] = AfterApply(n, f)]
        /\ UNCHANGED <<mode, raftVars, inputVars>>
    BY <1>6 DEF ApplyConfChange
  <2>2. t \in Tx
    <3>1. NextEntry(n) \in LogEntry
      BY <2>1, ReadEntry
    <3>2. NextEntry(n).blk.data \in Seq(Tx) /\ NextEntry(n).blk.data # << >>
      BY <2>1, <3>1 DEF LogEntry, Block, Tx
    <3>3. 1 \in 1 .. Len(NextEntry(n).blk.data)
      BY <3>2, EmptySeq
    <3> QED  BY <3>2, <3>3, ElementOfSeq
  <2>3. c \in Chain /\ c.propC = o.propC
    BY <1>1, <2>1
  <2> HIDE DEF c, t
  <2>4. f \in Chain /\ f.propC = o.propC
    BY <2>2, <2>3 DEF Chain
  <2> HIDE DEF f
  <2> QED  BY <1>2, <2>1, <2>4
<1> QED  BY <1>3, <1>4, <1>5, <1>6 DEF Apply

(* Catching up leaves the queue alone.                                     *)
LEMMA CatchUpQueue ==
  ASSUME NEW n \in Node, NEW c \in Chain, NEW e, CatchUp(n, c, e)
  PROVE  \E X : chain' = [chain EXCEPT ![n] = X] /\ X.propC = c.propC
<1> DEFINE Z(es) == [c EXCEPT !.last = Last(es).blk]
<1>1. \A es : Z(es).propC = c.propC
  BY DEF Chain
<1> HIDE DEF Z
<1>2. \/ chain' = [chain EXCEPT ![n] = c]
      \/ \E es : chain' = [chain EXCEPT ![n] = Z(es)]
  BY DEF CatchUp, Z
<1> QED  BY <1>1, <1>2

LEMMA SuspectEvictionFits ==
  ASSUME IInv, LimitInv, NEW n \in Node, SuspectEviction(n)
  PROVE  LimitInv'
<1>1. PICK e : CatchUp(n, chain[n], e) /\ UNCHANGED <<mode, raftVars, inputVars>>
  BY DEF SuspectEviction
<1>2. chain[n] \in Chain
  BY LimitParts
<1>3. PICK X : chain' = [chain EXCEPT ![n] = X] /\ X.propC = chain[n].propC
  BY <1>1, <1>2, CatchUpQueue
<1>4. UNCHANGED <<mode, log, committed, cutter, outbox, net>>
  BY <1>1 DEF raftVars, inputVars
<1> QED  BY <1>3, <1>4, ChainStepFits

LEMMA InstallSnapshotFits ==
  ASSUME IInv, LimitInv, NEW n \in Node, InstallSnapshot(n)
  PROVE  LimitInv'
<1>0. /\ QueueFits(mode, chain[n].propC) /\ CutterFits(mode, cutter[n]) /\ Counted(outbox[n])
      /\ LogFits(mode, committed) /\ (\A r \in net : Counted(r.batches))
      /\ Types /\ chain[n] \in Chain
  BY LimitParts
<1>1. PICK l \in Node \ {n} :
        LET s == [snap[l] EXCEPT !.conf = chain[l].conf]
        IN  /\ s.idx > chain[n].read
            /\ log' = [log EXCEPT ![n] = SubSeq(committed, 1, s.idx)]
            /\ raft' = [raft EXCEPT ![n] = [@ EXCEPT !.role = "follower", !.lead = l, !.term = term]]
            /\ snap' = [snap EXCEPT ![n] = s]
            /\ HandleSnapshot(n, [chain[n] EXCEPT !.read = s.idx, !.conf = s.conf], s)
            /\ UNCHANGED <<mode, term, committed, inputVars, crashes, snaps>>
  BY ZenonT(30) DEF InstallSnapshot
<1> DEFINE s == [snap[l] EXCEPT !.conf = chain[l].conf]
           c == [chain[n] EXCEPT !.read = s.idx, !.conf = s.conf]
           t == SubSeq(committed, 1, s.idx)
<1>2. /\ log' = [log EXCEPT ![n] = t] /\ HandleSnapshot(n, c, s)
      /\ UNCHANGED <<mode, committed, cutter, outbox, net>>
  BY <1>1 DEF inputVars
<1>3. s.idx \in Nat /\ s.idx <= Len(committed) /\ s.conf \subseteq Tx
  <2>1. snap[l] \in Snapshot /\ chain[l] \in Chain /\ SnapshotOK(committed, snap[l])
    BY <1>0 DEF Types, IInv, WriteInv, IndexOK, Indexed
  <2> QED  BY <2>1 DEF Snapshot, Chain, SnapshotOK
<1> HIDE DEF s
<1>4. c \in Chain /\ c.propC = chain[n].propC
  BY <1>0, <1>3 DEF Chain
<1> HIDE DEF c
<1>5. PICK X : chain' = [chain EXCEPT ![n] = X] /\ X.propC = chain[n].propC
  <2>1. CASE chain' = [chain EXCEPT ![n] = c]
    BY <1>4, <2>1
  <2>2. CASE CatchUp(n, [c EXCEPT !.applied = s.idx], [blk |-> s.blk, idx |-> 0])
    <3> DEFINE d == [c EXCEPT !.applied = s.idx]
    <3>1. d \in Chain /\ d.propC = c.propC
      BY <1>3, <1>4 DEF Chain
    <3> HIDE DEF d
    <3>2. PICK X : chain' = [chain EXCEPT ![n] = X] /\ X.propC = d.propC
      BY <2>2, <3>1, CatchUpQueue DEF d
    <3> QED  BY <1>4, <3>1, <3>2
  <2> QED  BY <1>2, <2>1, <2>2 DEF HandleSnapshot
<1>6. LogFits(mode, t)
  <2>1. committed \in Seq(LogEntry) /\ Len(committed) \in Nat /\ DOMAIN committed = 1 .. Len(committed)
    BY <1>0, LenProperties DEF Types
  <2>2. DOMAIN t = 1 .. s.idx /\ \A i \in 1 .. s.idx : t[i] = committed[i]
    <3>1. Len(t) = s.idx /\ (\A i \in 1 .. s.idx : t[i] = committed[1 + i - 1]) /\ t \in Seq(LogEntry)
      BY <1>3, <2>1, SubSeqProperties
    <3>2. DOMAIN t = 1 .. Len(t)
      BY <3>1, LenProperties
    <3> HIDE DEF t
    <3> QED  BY <1>3, <3>1, <3>2
  <2> HIDE DEF t
  <2> QED  BY <1>0, <1>3, <2>1, <2>2 DEF LogFits
<1> HIDE DEF t
<1>7. /\ log'[n] = t /\ chain'[n] = X
      /\ \A m \in Node \ {n} : log'[m] = log[m] /\ chain'[m] = chain[m]
  BY <1>0, <1>2, <1>5 DEF Types
<1>8. QueueFits(mode, chain'[n].propC)
  BY <1>0, <1>5, <1>7
<1> QED  BY <1>0, <1>2, <1>6, <1>7, <1>8, LimitFrame

LEMMA ProposeFits ==
  ASSUME IInv, LimitInv, NEW n \in Node, Propose(n)
  PROVE  LimitInv'
<1> DEFINE c == chain[n]
           q == c.propC
           b == Head(q)
           d == [c EXCEPT !.propC = Tail(q)]
           f == [d EXCEPT !.proposer = "quit"]
           e == Entry(raft[n].term, "block", b, chain[n].conf)
<1>0. /\ LogFits(mode, log[n]) /\ QueueFits(mode, q)
      /\ CutterFits(mode, cutter[n]) /\ Counted(outbox[n])
      /\ (\A r \in net : Counted(r.batches))
      /\ Types /\ c \in Chain /\ log[n] \in Seq(LogEntry)
  BY LimitParts
<1>1. /\ q # << >> /\ UNCHANGED <<mode, committed, cutter, outbox, net>>
      /\ \/ log' = [log EXCEPT ![n] = Append(log[n], e)] /\ chain' = [chain EXCEPT ![n] = d]
         \/ log' = log /\ chain' = [chain EXCEPT ![n] = f]
  BY <1>0 DEF Propose, inputVars, Chain
<1>2. q \in Seq(Block)
  BY <1>0 DEF Chain
<1>3. /\ b \in Block /\ b = q[1] /\ Tail(q) \in Seq(Block) /\ Len(Tail(q)) = Len(q) - 1
      /\ (\A i \in 1 .. Len(Tail(q)) : Tail(q)[i] = q[i + 1]) /\ Len(q) \in Nat /\ Len(q) >= 1
      /\ DOMAIN q = 1 .. Len(q) /\ DOMAIN Tail(q) = 1 .. Len(Tail(q))
  <2>1. Len(q) \in Nat /\ DOMAIN q = 1 .. Len(q) /\ Len(q) # 0
    BY <1>1, <1>2, LenProperties, EmptySeq
  <2>2. 1 \in 1 .. Len(q)
    BY <2>1
  <2>3. b = q[1] /\ b \in Block
    BY <1>2, <2>2, ElementOfSeq DEF b
  <2> HIDE DEF q
  <2>4. Tail(q) \in Seq(Block) /\ Len(Tail(q)) = Len(q) - 1
        /\ \A i \in 1 .. Len(Tail(q)) : Tail(q)[i] = q[i + 1]
    BY <1>1, <1>2, HeadTailProperties
  <2>5. DOMAIN Tail(q) = 1 .. Len(Tail(q))
    BY <2>4, LenProperties
  <2> QED  BY <2>1, <2>2, <2>3, <2>4, <2>5
<1>4. /\ d \in Chain /\ d.propC = Tail(q) /\ f.propC = Tail(q)
  <2> DEFINE z == Tail(q)
  <2>1. z \in Seq(Block)
    BY <1>3
  <2> HIDE DEF z
  <2>2. [c EXCEPT !.propC = z] \in Chain /\ [c EXCEPT !.propC = z].propC = z
    BY <1>0, <2>1 DEF Chain
  <2>3. d = [c EXCEPT !.propC = z]
    BY DEF z
  <2> HIDE DEF d
  <2>4. d \in Chain /\ d.propC = z
    BY <2>2, <2>3
  <2>5. f.propC = z
    BY <2>4 DEF Chain
  <2> QED  BY <2>4, <2>5 DEF z
<1>5. e \in LogEntry /\ e.type = "block" /\ e.blk = b
  <2>1. raft[n].term \in Nat
    BY <1>0, ChainAssumption DEF Types
  <2>2. chain[n].conf \in SUBSET Tx
    BY <1>0 DEF Chain
  <2> HIDE DEF b
  <2> QED  BY <1>3, <2>1, <2>2, EntryType
<1> HIDE DEF b, d, f, e, q
<1>6. Fits(mode, b.data)
  BY <1>0, <1>3 DEF QueueFits
<1>7. QueueFits(mode, Tail(q))
  <2> SUFFICES ASSUME NEW i \in DOMAIN Tail(q) PROVE Fits(mode, Tail(q)[i].data)
    BY DEF QueueFits
  <2>1. i + 1 \in DOMAIN q /\ Tail(q)[i] = q[i + 1]
    BY <1>3
  <2> QED  BY <1>0, <2>1 DEF QueueFits
<1>8. LogFits(mode, Append(log[n], e))
  BY <1>0, <1>5, <1>6, LogFitsMore
<1>9. /\ LogFits(mode, log'[n]) /\ QueueFits(mode, chain'[n].propC)
      /\ \A m \in Node \ {n} : log'[m] = log[m] /\ chain'[m] = chain[m]
  <2>1. CASE log' = [log EXCEPT ![n] = Append(log[n], e)] /\ chain' = [chain EXCEPT ![n] = d]
    BY <1>0, <1>4, <1>7, <1>8, <2>1 DEF Types
  <2>2. CASE log' = log /\ chain' = [chain EXCEPT ![n] = f]
    BY <1>0, <1>4, <1>7, <2>2 DEF Types
  <2> QED  BY <1>1, <2>1, <2>2
<1> QED  BY <1>0, <1>1, <1>9, LimitFrame

LEMMA ProposeConfChangeFits ==
  ASSUME IInv, LimitInv, NEW n \in Node, ProposeConfChange(n)
  PROVE  LimitInv'
<1> DEFINE c == chain[n]
<1>0. /\ LogFits(mode, log[n]) /\ QueueFits(mode, c.propC)
      /\ CutterFits(mode, cutter[n]) /\ Counted(outbox[n])
      /\ (\A r \in net : Counted(r.batches))
      /\ Types /\ c \in Chain /\ log[n] \in Seq(LogEntry)
  BY LimitParts
<1>1. PICK t \in c.confProps :
        /\ chain' = [chain EXCEPT ![n].confProps = @ \ {t}]
        /\ \/ log' = log
           \/ log' = [log EXCEPT ![n] = Append(@, Entry(raft[n].term, "empty", Genesis, {}))]
           \/ log' = [log EXCEPT ![n] =
                        Append(@, Entry(raft[n].term, "conf", [Genesis EXCEPT !.data = <<t>>], {}))]
        /\ UNCHANGED <<mode, term, committed, ledger, snap, inputVars, crashes, snaps>>
  BY DEF ProposeConfChange
<1>2. UNCHANGED <<mode, committed, cutter, outbox, net>>
  BY <1>1 DEF inputVars
<1>3. ASSUME NEW type \in {"empty", "conf"}, NEW b \in Block, b.data # << >> \/ type = "empty"
      PROVE  LogFits(mode, Append(log[n], Entry(raft[n].term, type, b, {})))
  <2> DEFINE e == Entry(raft[n].term, type, b, {})
  <2>1. e \in LogEntry /\ e.type # "block"
    <3>1. raft[n].term \in Nat
      BY <1>0, ChainAssumption DEF Types
    <3> QED  BY <1>3, <3>1 DEF Entry, LogEntry
  <2> HIDE DEF e
  <2>2. LogFits(mode, Append(log[n], e))
    BY <1>0, <2>1, LogFitsMore
  <2> QED  BY <2>2 DEF e
<1>4. Genesis \in Block /\ [Genesis EXCEPT !.data = <<t>>] \in Block
      /\ [Genesis EXCEPT !.data = <<t>>].data # << >>
  <2>1. t \in Tx
    BY <1>0 DEF Chain
  <2>2. <<t>> \in Seq(Tx) /\ <<t>> # << >>
    BY <2>1
  <2> QED  BY <2>2, GenesisType DEF Genesis, Block, Tx
<1>5. /\ LogFits(mode, log'[n]) /\ \A m \in Node \ {n} : log'[m] = log[m]
  <2>1. CASE log' = log
    BY <1>0, <2>1
  <2>2. CASE log' = [log EXCEPT ![n] = Append(@, Entry(raft[n].term, "empty", Genesis, {}))]
    <3>1. LogFits(mode, Append(log[n], Entry(raft[n].term, "empty", Genesis, {})))
      BY <1>3, <1>4
    <3> QED  BY <1>0, <2>2, <3>1 DEF Types
  <2>3. CASE log' = [log EXCEPT ![n] =
                       Append(@, Entry(raft[n].term, "conf", [Genesis EXCEPT !.data = <<t>>], {}))]
    <3> DEFINE b == [Genesis EXCEPT !.data = <<t>>]
    <3>1. b \in Block /\ b.data # << >>
      BY <1>4
    <3> HIDE DEF b
    <3>2. LogFits(mode, Append(log[n], Entry(raft[n].term, "conf", b, {})))
      BY <1>3, <3>1
    <3>3. log' = [log EXCEPT ![n] = Append(log[n], Entry(raft[n].term, "conf", b, {}))]
      BY <2>3 DEF b
    <3> QED  BY <1>0, <3>2, <3>3 DEF Types
  <2> QED  BY <1>1, <2>1, <2>2, <2>3
<1>6. /\ chain'[n].propC = c.propC /\ \A m \in Node \ {n} : chain'[m] = chain[m]
  BY <1>0, <1>1 DEF Types, Chain
<1> QED  BY <1>0, <1>2, <1>5, <1>6, LimitFrame

LEMMA RebootFits ==
  ASSUME IInv, LimitInv, NEW n \in Node, Reboot(n), \A r \in net' : Counted(r.batches)
  PROVE  LimitInv'
<1>0. LogFits(mode, log[n]) /\ Types
  BY LimitParts
<1>1. PICK X : chain' = [chain EXCEPT ![n] = X] /\ X.propC = << >>
  BY RebootChain
<1>2. /\ cutter' = [cutter EXCEPT ![n] = EmptyReceiver] /\ outbox' = [outbox EXCEPT ![n] = << >>]
      /\ UNCHANGED <<mode, log, committed>>
  BY DEF Reboot
<1>3. /\ chain'[n] = X /\ cutter'[n] = EmptyReceiver /\ outbox'[n] = << >>
      /\ \A m \in Node \ {n} : /\ chain'[m] = chain[m] /\ cutter'[m] = cutter[m]
                               /\ outbox'[m] = outbox[m]
  BY <1>0, <1>1, <1>2 DEF Types
<1>4. CutterFits(mode, EmptyReceiver)
  BY EmptyFits
<1> QED  BY <1>0, <1>1, <1>2, <1>3, <1>4, NoneFits, LimitFrame

(* A leader proposes blocks for data that fit.                             *)
LEMMA ProposeOrPanicFits ==
  ASSUME IInv, LimitInv, NEW n \in Node, Serving(n, chain[n]), NEW datas \in Seq(Seq(Tx)),
         NEW rest \in Receiver, NEW out, NEW o \in BOOLEAN,
         ProposeOrPanic(n, datas, [CreateBlocks(chain[n], datas) EXCEPT !.open = o], rest, out),
         \A i \in DOMAIN datas : Fits(mode, datas[i]), CutterFits(mode, rest),
         \A m \in Node : Counted(out[m]), \A m \in Node \ {n} : out[m] = outbox[m],
         \A r \in net' : Counted(r.batches)
  PROVE  LimitInv'
<1> DEFINE c == chain[n]
           d == CreateBlocks(c, datas)
           X == [d EXCEPT !.open = o]
<1>0. LogFits(mode, log[n]) /\ QueueFits(mode, c.propC) /\ Types /\ c \in Chain
  BY LimitParts
<1>1. CASE Reboot(n)
  BY <1>1, RebootFits
<1>2. CASE /\ chain' = [chain EXCEPT ![n] = X] /\ cutter' = [cutter EXCEPT ![n] = rest]
           /\ outbox' = out /\ UNCHANGED <<mode, raftVars, ledger, snap, snaps>>
  <2>1. c.bc \in Block
    <3>1. Leading(n, c, cutter[n].msgs)
      BY DEF IInv, LeaderInv, LeaderOK
    <3> QED  BY <1>0, <3>1 DEF Leading, Chain
  <2>2. d \in Chain /\ QueueFits(mode, d.propC)
    BY <1>0, <2>1, CreateBlocksEffect, CreateBlocksFit
  <2> HIDE DEF d
  <2>3. X.propC = d.propC
    BY <2>2 DEF Chain
  <2> HIDE DEF X
  <2>4. /\ chain'[n] = X /\ cutter'[n] = rest
        /\ \A m \in Node \ {n} : chain'[m] = chain[m] /\ cutter'[m] = cutter[m]
    BY <1>0, <1>2 DEF Types
  <2>5. UNCHANGED <<mode, log, committed>> /\ outbox' = out
    BY <1>2 DEF raftVars
  <2> QED  BY <1>0, <2>2, <2>3, <2>4, <2>5, LimitFrame
<1> QED  BY <1>1, <1>2 DEF ProposeOrPanic

LEMMA SubmitFits ==
  ASSUME IInv, LimitInv, NEW n \in Node, NEW batches \in Batches \ {<< >>}, Counted(batches),
         NEW rest, \A i \in rest : Counted(i.batches),
         NEW out, \A m \in Node : Counted(out[m]), \A m \in Node \ {n} : out[m] = outbox[m],
         Submit(n, batches, rest, out)
  PROVE  LimitInv'
<1> DEFINE c == chain[n]
<1>0. /\ LogFits(mode, log[n]) /\ QueueFits(mode, c.propC) /\ CutterFits(mode, cutter[n])
      /\ Types /\ c \in Chain /\ cutter[n] \in Receiver /\ c.open
  BY LimitParts DEF Submit
<1>1. CASE c.lead = n
  <2>1. ServeSubmit(n, batches, out) /\ net' = rest
    BY <1>1 DEF Submit
  <2>2. Serving(n, c)
    <3>1. Leading(n, c, cutter[n].msgs)
      BY DEF IInv, LeaderInv, LeaderOK
    <3> QED  BY <1>0, <1>1, <3>1 DEF Leading, Serving, Chain
  <2> DEFINE m == batches[1][1]
             r == IF StillValid(c, m) THEN OrderedMessage(cutter[n], m)
                  ELSE [batches |-> << >>, rest |-> cutter[n]]
             datas == IF mode THEN ValidData(c, batches)
                      ELSE [i \in DOMAIN r.batches |-> Txs(r.batches[i])]
             q == IF mode THEN cutter[n] ELSE r.rest
             d == CreateBlocks(c, datas)
             o == ~d.configInflight /\ d.blockInflight < MaxInflightBlocks
  <2>3. ProposeOrPanic(n, datas, [d EXCEPT !.open = o], q, out)
    BY <2>1 DEF ServeSubmit, AfterSubmit
  <2>4. m \in Messages /\ batches \in Seq(Seq(Messages))
    <3>1. batches \in Seq(Seq(Messages)) /\ batches # << >> /\ \A i \in DOMAIN batches : batches[i] # << >>
      BY DEF Batches
    <3>2. 1 \in 1 .. Len(batches) /\ DOMAIN batches = 1 .. Len(batches)
      BY <3>1, EmptySeq, LenProperties
    <3>3. batches[1] \in Seq(Messages) /\ batches[1] # << >>
      BY <3>1, <3>2, ElementOfSeq
    <3>4. 1 \in 1 .. Len(batches[1])
      BY <3>3, EmptySeq
    <3> QED  BY <3>1, <3>3, <3>4, ElementOfSeq
  <2> HIDE DEF m
  <2>5. /\ r.batches \in Batches /\ r.rest \in Receiver
        /\ BatchesFit(mode, r.batches) /\ CutterFits(mode, r.rest)
    <3>1. CASE StillValid(c, m)
      BY <1>0, <2>4, <3>1, OrderedMessageType, OrderedMessageFits
    <3>2. CASE ~StillValid(c, m)
      BY <1>0, <3>2, NoBatch DEF BatchesFit
    <3> QED  BY <3>1, <3>2
  <2> HIDE DEF r
  <2> DEFINE ds == [i \in DOMAIN r.batches |-> Txs(r.batches[i])]
  <2>6. ds \in Seq(Seq(Tx)) /\ \A i \in DOMAIN ds : Fits(mode, ds[i])
    <3>1. ds \in Seq(Seq(Tx))
      BY <2>5, DataOfBatches
    <3>2. \A i \in DOMAIN ds : Fits(mode, ds[i])
      BY <2>5 DEF BatchesFit
    <3> QED  BY <3>1, <3>2
  <2>7. datas = IF mode THEN ValidData(c, batches) ELSE ds
    OBVIOUS
  <2> HIDE DEF datas, ds
  <2>8. datas \in Seq(Seq(Tx)) /\ \A i \in DOMAIN datas : Fits(mode, datas[i])
    <3>1. CASE mode
      <4>1. datas = ValidData(c, batches)
        BY <2>7, <3>1
      <4>2. ValidData(c, batches) \in Seq(Seq(Tx))
        BY <2>4, ValidDataType
      <4>3. \A i \in DOMAIN ValidData(c, batches) : Fits(mode, ValidData(c, batches)[i])
        BY <2>4, <3>1, ValidDataFits
      <4> QED  BY <4>1, <4>2, <4>3
    <3>2. CASE ~mode
      BY <2>6, <2>7, <3>2
    <3> QED  BY <3>1, <3>2
  <2>9. q \in Receiver /\ CutterFits(mode, q)
    BY <1>0, <2>5
  <2>10. o \in BOOLEAN /\ \A i \in net' : Counted(i.batches)
    BY <2>1
  <2> HIDE DEF q, o
  <2> QED  BY <2>2, <2>3, <2>8, <2>9, <2>10, ProposeOrPanicFits
<1>2. CASE c.lead # n
  <2>1. /\ net' = rest \cup (IF c.lead = Nil THEN {} ELSE {[to |-> c.lead, batches |-> batches]})
        /\ outbox' = out /\ UNCHANGED <<mode, log, committed, chain, cutter>>
    BY <1>2 DEF Submit, raftVars
  <2>2. \A i \in net' : Counted(i.batches)
    BY <2>1
  <2> QED  BY <1>0, <2>1, <2>2, LimitFrame
<1> QED  BY <1>1, <1>2

LEMMA InputFits ==
  ASSUME IInv, LimitInv, NEW n \in Node, Input(n)
  PROVE  LimitInv'
<1> DEFINE c == chain[n]
<1>0. /\ LogFits(mode, log[n]) /\ QueueFits(mode, c.propC)
      /\ CutterFits(mode, cutter[n]) /\ Counted(outbox[n])
      /\ (\A i \in net : Counted(i.batches)) /\ (\A m \in Node : Counted(outbox[m]))
      /\ Types /\ c \in Chain /\ cutter[n] \in Receiver /\ outbox[n] \in Batches
      /\ cutter[n].msgs \in Seq(Messages) /\ unsent \subseteq Tx
  BY LimitParts DEF Receiver, Types
<1>1. ASSUME NEW t \in unsent PROVE Message(n, t) \in Messages
  BY <1>0, SequenceType DEF Message, Messages
<1>2. CASE Order(n)
  <2>1. PICK t \in unsent : Submit(n, <<<<Message(n, t)>>>>, net, outbox)
    BY <1>2 DEF Order
  <2> DEFINE m == Message(n, t)
             bs == <<<<m>>>>
  <2>2. m \in Messages
    BY <1>1
  <2> HIDE DEF m
  <2>3. bs \in Batches \ {<< >>} /\ bs \in Seq(Seq(Messages)) /\ BatchesFit(mode, bs)
    <3>1. <<m>> \in Seq(Messages) /\ <<m>> # << >>
      BY <2>2
    <3>2. bs \in Batches \ {<< >>}
      BY <3>1, OneBatch
    <3>3. bs \in Seq(Seq(Messages))
      BY <3>1
    <3> QED  BY <2>2, <3>2, <3>3, SingleFits
  <2> HIDE DEF bs
  <2>4. Counted(bs)
    BY <2>3, FitIsCounted
  <2>5. Submit(n, bs, net, outbox)
    BY <2>1 DEF bs, m
  <2> QED  BY <1>0, <2>3, <2>4, <2>5, SubmitFits
<1>3. CASE BatchOrder(n)
  <2>1. PICK t \in unsent :
          LET r == OrderedMessage(cutter[n], Message(n, t))
          IN  /\ cutter' = [cutter EXCEPT ![n] = r.rest]
              /\ outbox' = [outbox EXCEPT ![n] = r.batches]
              /\ UNCHANGED <<mode, raftVars, chain, ledger, snap, net, crashes, snaps>>
    BY <1>3 DEF BatchOrder
  <2> DEFINE r == OrderedMessage(cutter[n], Message(n, t))
  <2>2. /\ r.batches \in Batches /\ r.batches \in Seq(Seq(Messages))
        /\ BatchesFit(mode, r.batches) /\ CutterFits(mode, r.rest)
    <3>1. r.batches \in Batches /\ BatchesFit(mode, r.batches) /\ CutterFits(mode, r.rest)
      BY <1>0, <1>1, OrderedMessageType, OrderedMessageFits
    <3> HIDE DEF r
    <3>2. r.batches \in Seq(Seq(Messages))
      BY <3>1 DEF Batches
    <3> QED  BY <3>1, <3>2
  <2> HIDE DEF r
  <2>3. /\ cutter' = [cutter EXCEPT ![n] = r.rest] /\ outbox' = [outbox EXCEPT ![n] = r.batches]
        /\ UNCHANGED <<mode, log, committed, chain, net>>
    BY <2>1 DEF r, raftVars
  <2>4. Counted(r.batches)
    BY <2>2, FitIsCounted
  <2>5. /\ cutter'[n] = r.rest /\ outbox'[n] = r.batches
        /\ \A m \in Node \ {n} : cutter'[m] = cutter[m] /\ outbox'[m] = outbox[m]
    BY <1>0, <2>3 DEF Types
  <2> QED  BY <1>0, <2>2, <2>3, <2>4, <2>5, LimitFrame
<1>4. CASE BatchTimer(n)
  <2> DEFINE data == <<Txs(cutter[n].msgs)>>
  <2>1. cutter[n].msgs # << >> /\ UNCHANGED <<net, unsent, crashes>>
    BY <1>4 DEF BatchTimer
  <2>2. CASE ~mode /\ ProposeOrPanic(n, data, CreateBlocks(c, data), EmptyReceiver, outbox)
    <3>1. data \in Seq(Seq(Tx)) /\ \A i \in DOMAIN data : Fits(mode, data[i])
      <4>1. Txs(cutter[n].msgs) \in Seq(Tx) /\ Fits(mode, Txs(cutter[n].msgs))
        BY <1>0, TxsType, PendingFits
      <4>2. DOMAIN data = {1} /\ data[1] = Txs(cutter[n].msgs)
        OBVIOUS
      <4>3. data \in Seq(Seq(Tx))
        BY <4>1
      <4> HIDE DEF data
      <4> QED  BY <4>1, <4>2, <4>3
    <3>2. Serving(n, c) /\ c.bc \in Block
      <4>1. Leading(n, c, cutter[n].msgs)
        BY DEF IInv, LeaderInv, LeaderOK
      <4> QED  BY <1>0, <2>1, <2>2, <4>1 DEF Leading, Chain
    <3> HIDE DEF data
    <3>3. CreateBlocks(c, data) \in Chain
      BY <1>0, <3>1, <3>2, CreateBlocksEffect
    <3> DEFINE o == CreateBlocks(c, data).open
    <3>4. CreateBlocks(c, data) = [CreateBlocks(c, data) EXCEPT !.open = o] /\ o \in BOOLEAN
      BY <3>3 DEF Chain
    <3> HIDE DEF o
    <3>5. ProposeOrPanic(n, data, [CreateBlocks(c, data) EXCEPT !.open = o], EmptyReceiver, outbox)
      BY <2>2, <3>4
    <3>6. \A i \in net' : Counted(i.batches)
      BY <1>0, <2>1
    <3> QED  BY <1>0, <3>1, <3>2, <3>4, <3>5, <3>6, NoBatch, EmptyFits, ProposeOrPanicFits
  <2>3. CASE /\ outbox' = [outbox EXCEPT ![n] = <<cutter[n].msgs>>]
             /\ cutter' = [cutter EXCEPT ![n] = EmptyReceiver]
             /\ UNCHANGED <<mode, raftVars, chain, ledger, snap, snaps>>
    <3>1. BatchesFit(mode, <<cutter[n].msgs>>) /\ <<cutter[n].msgs>> \in Seq(Seq(Messages))
      BY <1>0, PendingFits
    <3>2. Counted(<<cutter[n].msgs>>)
      BY <3>1, FitIsCounted
    <3>3. /\ outbox'[n] = <<cutter[n].msgs>> /\ cutter'[n] = EmptyReceiver
          /\ \A m \in Node \ {n} : cutter'[m] = cutter[m] /\ outbox'[m] = outbox[m]
      BY <1>0, <2>3 DEF Types
    <3>4. UNCHANGED <<mode, log, committed, chain, net>>
      BY <2>1, <2>3 DEF raftVars
    <3> QED  BY <1>0, <3>2, <3>3, <3>4, EmptyFits, LimitFrame
  <2> QED  BY <1>4, <2>2, <2>3 DEF BatchTimer
<1>5. CASE SubmitBatches(n)
  <2> DEFINE out == [outbox EXCEPT ![n] = << >>]
  <2>1. outbox[n] # << >> /\ Submit(n, outbox[n], net, out)
    BY <1>5 DEF SubmitBatches
  <2>2. (\A m \in Node : Counted(out[m])) /\ \A m \in Node \ {n} : out[m] = outbox[m]
    BY <1>0, NoneFits DEF Types
  <2> HIDE DEF out
  <2> QED  BY <1>0, <2>1, <2>2, SubmitFits
<1>6. CASE Receive(n)
  <2>1. PICK r \in net : Submit(n, r.batches, net \ {r}, outbox)
    BY <1>6 DEF Receive
  <2>2. r.batches \in Batches \ {<< >>} /\ Counted(r.batches)
    BY <1>0 DEF Types
  <2> QED  BY <1>0, <2>1, <2>2, SubmitFits
<1> QED  BY <1>2, <1>3, <1>4, <1>5, <1>6 DEF Input

LEMMA InitFits == Init => LimitInv
<1> SUFFICES ASSUME Init PROVE LimitInv
  OBVIOUS
<1>1. /\ committed = << >> /\ net = {} /\ log = [n \in Node |-> << >>]
      /\ chain = [n \in Node |-> NewChain([blk |-> Genesis, idx |-> 0], NoSnapshot)]
      /\ cutter = [n \in Node |-> EmptyReceiver] /\ outbox = [n \in Node |-> << >>]
  BY DEF Init
<1>2. LogFits(mode, << >>)
  BY DEF LogFits
<1>3. ASSUME NEW n \in Node PROVE LimitsOK(n)
  <2>1. log[n] = << >> /\ chain[n].propC = << >> /\ cutter[n] = EmptyReceiver /\ outbox[n] = << >>
    BY <1>1 DEF NewChain
  <2> QED  BY <1>2, <2>1, NoneFits, EmptyFits DEF LimitsOK
<1> QED  BY <1>1, <1>2, <1>3 DEF LimitInv

LEMMA StepFits ==
  ASSUME IInv, LimitInv, [Next]_vars
  PROVE  LimitInv'
<1>1. CASE UNCHANGED vars
  <2>1. UNCHANGED <<mode, log, committed, chain, cutter, outbox, net>>
    BY <1>1 DEF vars, raftVars, inputVars
  <2> QED  BY <2>1 DEF LimitInv, LimitsOK
<1>2. CASE Next
  <2>1. PICK n \in Node : \/ Raft(n) \/ Apply(n) \/ InstallSnapshot(n) \/ SuspectEviction(n)
                          \/ Propose(n) \/ ProposeConfChange(n) \/ Input(n) \/ Crash(n)
    BY <1>2 DEF Next
  <2>2. CASE Crash(n)
    <3>1. Reboot(n) /\ net' = net
      BY <2>2 DEF Crash
    <3>2. \A r \in net' : Counted(r.batches)
      BY <3>1, LimitParts
    <3> QED  BY <3>1, <3>2, RebootFits
  <2> QED  BY <2>1, <2>2, RaftFits, ApplyFits, InstallSnapshotFits, SuspectEvictionFits,
              ProposeFits, ProposeConfChangeFits, InputFits
<1> QED  BY <1>1, <1>2

LEMMA LimitsFollow ==
  ASSUME IInv, LimitInv
  PROVE  BatchLimits
<1> DEFINE S == {e \in Range(committed) : e.type = "block"}
           es == Keep(committed, S)
<1>1. CommittedBlocks = [i \in DOMAIN es |-> es[i].blk]
  BY DEF CommittedBlocks
<1>2. ASSUME NEW e \in S PROVE e.type = "block"
  OBVIOUS
<1>3. committed \in Seq(LogEntry) /\ LogFits(mode, committed)
  BY DEF IInv, Types, LimitInv
<1> HIDE DEF S
<1>4. \A i \in DOMAIN es : \E j \in DOMAIN committed : committed[j] \in S /\ es[i] = committed[j]
  BY <1>3, KeepLess
<1> HIDE DEF es
<1>5. ASSUME NEW i \in DOMAIN CommittedBlocks PROVE Fits(mode, CommittedBlocks[i].data)
  <2>1. i \in DOMAIN es /\ CommittedBlocks[i] = es[i].blk
    BY <1>1
  <2>2. PICK j \in DOMAIN committed : committed[j] \in S /\ es[i] = committed[j]
    BY <1>4, <2>1
  <2>3. Fits(mode, committed[j].blk.data)
    BY <1>2, <1>3, <2>2 DEF LogFits
  <2> QED  BY <2>1, <2>2, <2>3
<1> QED  BY <1>5 DEF BatchLimits, Fits

(* Nothing exceeds the limits on its way from the cutter to the log: what  *)
(* Ordered leaves pending, what Cut and the batcher submit, what propose   *)
(* queues and what raft holds, in both modes of batching and through a     *)
(* change of leader (blockcutter.go, propose and proposeBatch of chain.go).*)
THEOREM LimitsInvariance ==
  Spec /\ []SnapshotsRead => []LimitInv
<1>1. Init => LimitInv
  BY InitFits
<1>2. IInv /\ LimitInv /\ [Next]_vars => LimitInv'
  BY StepFits
<1> QED  BY <1>1, <1>2, ChainInvariance, PTL DEF Spec

(* No committed block has more than MaxMessageCount messages and, with     *)
(* batching at the leader, none of several messages has more than          *)
(* PreferredMaxBytes (Ordered and Cut of blockcutter.go).                  *)
THEOREM BatchesKeepLimits ==
  Spec /\ []SnapshotsRead => []BatchLimits
<1>1. IInv /\ LimitInv => BatchLimits
  BY LimitsFollow
<1> QED  BY <1>1, ChainInvariance, LimitsInvariance, PTL
-----------------------------------------------------------------------------
(***************************************************************************)
(* Outdated updates. A block is free when no configuration is in its       *)
(* history, its own data included, and clean when an outdated update in it *)
(* has no configuration before it. The history is in the block itself,     *)
(* so this is said of a block wherever it is.                              *)
(***************************************************************************)
NoConfig(h) == \A j \in DOMAIN h : ~IsConfigData(h[j])

Free(b) == NoConfig(Hash(b))

HasOutdated(d) == \E k \in DOMAIN d : d[k] \in Outdated

Clean(b) == HasOutdated(b.data) => NoConfig(b.prev)

LogClean(s) == \A i \in DOMAIN s : s[i].type = "block" => Clean(s[i].blk)

QueueClean(q) == \A i \in DOMAIN q : Clean(q[i])

(* A message with an outdated update was accepted before any               *)
(* configuration.                                                          *)
Dated == {m \in Messages : m.tx \in Outdated => m.seq = 0}

Plain == {m \in Dated : m.tx \notin ConfigTx}

(* A configuration comes last in a request.                                *)
DatedBatches ==
    {bs \in Seq(Seq(Dated)) : \A i \in DOMAIN bs : i = Len(bs) \/ bs[i] \in Seq(Plain)}

(***************************************************************************)
(* What a node knows of configurations. Before the first one is applied no *)
(* change of the consenters is in flight; at a serving leader the first    *)
(* one in flight closes submitC, and it has emptied the cutter.            *)
(***************************************************************************)
Current(n, c, msgs) ==
    /\ Free(c.last) => c.confChange = Nil
    /\ Serving(n, c) /\ Free(c.last) /\ ~Free(c.bc) => c.configInflight /\ ~c.open
    /\ Serving(n, c) /\ ~mode /\ ~Free(c.bc) => \A i \in DOMAIN msgs : msgs[i].tx \notin Outdated

OutdatedOK(n) ==
    /\ LogClean(log[n]) /\ QueueClean(chain[n].propC)
    /\ cutter[n].msgs \in Seq(Plain) /\ outbox[n] \in DatedBatches
    /\ Current(n, chain[n], cutter[n].msgs)

OutdatedInv ==
    /\ \A n \in Node : OutdatedOK(n)
    /\ LogClean(committed)
    /\ \A r \in net : r.batches \in DatedBatches

LEMMA FreeNext ==
  ASSUME NEW b \in Block, NEW d \in Seq(Tx)
  PROVE  /\ NextBlock(b, d).prev = Hash(b)
         /\ Free(NextBlock(b, d)) <=> Free(b) /\ ~IsConfigData(d)
<1> DEFINE h == Hash(b)
           g == Append(h, d)
<1>1. NextBlock(b, d).prev = h /\ NextBlock(b, d).data = d /\ NextBlock(b, d).num # 0
  BY DEF NextBlock, Block
<1>2. Hash(NextBlock(b, d)) = g
  BY <1>1 DEF Hash
<1>3. h \in Seq(Seq(Tx))
  BY HashType
<1> HIDE DEF h
<1>4. /\ Len(h) \in Nat /\ DOMAIN h = 1 .. Len(h) /\ DOMAIN g = 1 .. Len(h) + 1
      /\ g[Len(h) + 1] = d /\ \A i \in 1 .. Len(h) : g[i] = h[i]
  BY <1>3, AppendProperties, LenProperties
<1> HIDE DEF g
<1>5. NoConfig(g) <=> NoConfig(h) /\ ~IsConfigData(d)
  <2>1. ASSUME NoConfig(h), ~IsConfigData(d), NEW j \in DOMAIN g PROVE ~IsConfigData(g[j])
    <3>1. CASE j = Len(h) + 1
      BY <1>4, <2>1, <3>1
    <3>2. CASE j \in 1 .. Len(h)
      BY <1>4, <2>1, <3>2 DEF NoConfig
    <3> QED  BY <1>4, <3>1, <3>2
  <2>2. ASSUME NoConfig(g) PROVE ~IsConfigData(d)
    <3>1. Len(h) + 1 \in DOMAIN g
      BY <1>4
    <3> QED  BY <1>4, <2>2, <3>1 DEF NoConfig
  <2>3. ASSUME NoConfig(g), NEW j \in DOMAIN h PROVE ~IsConfigData(h[j])
    <3>1. j \in DOMAIN g /\ g[j] = h[j]
      BY <1>4
    <3> QED  BY <2>3, <3>1 DEF NoConfig
  <2> QED  BY <2>1, <2>2, <2>3 DEF NoConfig
<1> QED  BY <1>1, <1>2, <1>5 DEF Free, h

(* No configuration is in effect exactly when the last block is free.      *)
LEMMA FreeConfigs ==
  ASSUME NEW b
  PROVE  ConfigsUpTo(b) = {} <=> Free(b)
BY DEF ConfigsUpTo, Free, NoConfig

LEMMA FreeSequence ==
  ASSUME NEW c \in Chain
  PROVE  Sequence(c) = 0 <=> Free(c.last)
<1>1. IsFiniteSet(ConfigsUpTo(c.last))
  BY ConfigsFinite DEF Chain
<1>2. Sequence(c) = 0 <=> ConfigsUpTo(c.last) = {}
  BY <1>1, FS_EmptySet DEF Sequence
<1> QED  BY <1>2, FreeConfigs

(* What a block has in its history, a later one has.                       *)
LEMMA FreeBefore ==
  ASSUME NEW s \in Seq(LogEntry), Chained(s), NEW i \in 0 .. Len(s), NEW j \in 0 .. Len(s),
         i <= j, Free(Tip(s)[j])
  PROVE  Free(Tip(s)[i])
<1> DEFINE P == {k \in Nat : i + k <= Len(s) => (Free(Tip(s)[i + k]) => Free(Tip(s)[i]))}
<1>0. Len(s) \in Nat /\ DOMAIN s = 1 .. Len(s) /\ i \in Nat
  BY LenProperties
<1>1. 0 \in P
  BY <1>0
<1>2. ASSUME NEW k \in Nat, k \in P PROVE k + 1 \in P
  <2> SUFFICES ASSUME i + (k + 1) <= Len(s), Free(Tip(s)[i + (k + 1)]) PROVE Free(Tip(s)[i])
    OBVIOUS
  <2> DEFINE a == i + k
  <2>1. a + 1 = i + (k + 1) /\ (a + 1) - 1 = a /\ a \in 0 .. Len(s) /\ a + 1 \in 1 .. Len(s)
        /\ (Free(Tip(s)[a]) => Free(Tip(s)[i]))
    BY <1>0, <1>2
  <2> HIDE DEF a
  <2>2. /\ s[a + 1] \in LogEntry /\ Tip(s)[a] \in Block
        /\ Tip(s)[a + 1] = TipStep(Tip(s)[a], s[a + 1])
    BY <2>1, TipDef, ElementOfSeq
  <2>3. Free(Tip(s)[a + 1])
    BY <2>1
  <2>4. CASE s[a + 1].type # "block"
    BY <2>1, <2>2, <2>3, <2>4 DEF TipStep
  <2>5. CASE s[a + 1].type = "block"
    <3>1. Tip(s)[a + 1] = NextBlock(Tip(s)[a], s[a + 1].blk.data)
      BY <1>0, <2>1, <2>2, <2>5 DEF TipStep, Chained
    <3>2. s[a + 1].blk.data \in Seq(Tx)
      BY <2>2 DEF LogEntry, Block, Tx
    <3> QED  BY <2>1, <2>2, <2>3, <3>1, <3>2, FreeNext
  <2> QED  BY <2>4, <2>5
<1>3. Nat \subseteq P
  <2> HIDE DEF P
  <2> QED  BY <1>1, <1>2, SetInduction
<1>4. j - i \in Nat /\ i + (j - i) = j /\ j <= Len(s)
  BY <1>0
<1> DEFINE k == j - i
<1>5. k \in P
  BY <1>3, <1>4
<1> QED  BY <1>4, <1>5

LEMMA FreeLast ==
  ASSUME IInv, NEW a, NEW b, InLog(committed, a), InLog(committed, b), a.num <= b.num, Free(b)
  PROVE  Free(a)
<1>0. committed \in Seq(LogEntry) /\ Chained(committed) /\ Len(committed) \in Nat
  BY LenProperties DEF IInv, Types, LogInv
<1>1. PICK i \in 0 .. Len(committed) : a = Tip(committed)[i]
  BY DEF InLog
<1>2. PICK j \in 0 .. Len(committed) : b = Tip(committed)[j]
  BY DEF InLog
<1>3. CASE i <= j
  BY <1>0, <1>1, <1>2, <1>3, FreeBefore
<1>4. CASE ~(i <= j)
  <2>1. j <= i
    BY <1>0, <1>4
  <2>2. b.num <= a.num /\ a.num \in Nat /\ b.num \in Nat
    <3>1. b.num <= a.num
      BY <1>0, <1>1, <1>2, <2>1, TipByNumber
    <3>2. a \in Block /\ b \in Block
      BY <1>0, <1>1, <1>2, TipDef
    <3> QED  BY <3>1, <3>2 DEF Block
  <2>3. a.num = b.num
    BY <2>2
  <2> QED  BY <1>0, <1>1, <1>2, <2>3, TipByNumber
<1> QED  BY <1>3, <1>4

(***************************************************************************)
(* Messages and the data made of them.                                     *)
(***************************************************************************)
LEMMA MoreOf ==
  ASSUME NEW A, NEW B, A \subseteq B, NEW s \in Seq(A)
  PROVE  s \in Seq(B)
<1>1. Len(s) \in Nat /\ s \in [1 .. Len(s) -> A]
  BY LenProperties
<1>2. s \in [1 .. Len(s) -> B]
  BY <1>1
<1> QED  BY <1>1, <1>2, IsASeq

(* The cutter hands on what it was given.                                  *)
LEMMA OrderedFrom ==
  ASSUME NEW Good, NEW r \in Receiver, r.msgs \in Seq(Good), NEW m \in Good
  PROVE  /\ Ordered(r, m).batches \in Seq(Seq(Good)) /\ Ordered(r, m).rest.msgs \in Seq(Good)
<1> DEFINE size  == MessageSize[m.tx]
           over  == r.bytes + size > PreferredMaxBytes
           base  == IF over THEN EmptyReceiver ELSE r
           added == [msgs |-> Append(base.msgs, m), bytes |-> base.bytes + size]
           full  == Len(added.msgs) >= MaxMessageCount
           x == IF over THEN <<r.msgs>> ELSE << >>
           y == IF full THEN <<added.msgs>> ELSE << >>
           G == Seq(Good)
<1>1. Ordered(r, m) =
        IF size > PreferredMaxBytes
        THEN [batches |-> Append(PendingBatches(r), <<m>>),
              rest    |-> IF r.msgs = << >> THEN r ELSE EmptyReceiver]
        ELSE [batches |-> x \o y, rest |-> IF full THEN EmptyReceiver ELSE added]
  BY DEF Ordered
<1>2. EmptyReceiver.msgs = << >> /\ << >> \in G /\ <<m>> \in G
  BY DEF EmptyReceiver
<1>3. base.msgs \in G
  BY <1>2
<1>4. Append(base.msgs, m) \in G /\ added.msgs = Append(base.msgs, m)
  <2> HIDE DEF base
  <2> QED  BY <1>3, AppendProperties
<1>5. r.msgs \in G
  OBVIOUS
<1> HIDE DEF G, over, full, size, base
<1>6. << >> \in Seq(G) /\ <<r.msgs>> \in Seq(G) /\ <<Append(base.msgs, m)>> \in Seq(G)
  BY <1>4, <1>5
<1>7. x \in Seq(G) /\ y \in Seq(G)
  BY <1>4, <1>6
<1>8. PendingBatches(r) \in Seq(G)
  BY <1>6 DEF PendingBatches
<1>9. Append(PendingBatches(r), <<m>>) \in Seq(G)
  BY <1>2, <1>8, AppendProperties
<1> HIDE DEF x, y
<1>10. x \o y \in Seq(G)
  BY <1>7, ConcatProperties
<1>11. CASE size > PreferredMaxBytes
  <2>1. Ordered(r, m).batches = Append(PendingBatches(r), <<m>>)
        /\ Ordered(r, m).rest = IF r.msgs = << >> THEN r ELSE EmptyReceiver
    BY <1>1, <1>11
  <2>2. Ordered(r, m).rest.msgs \in G
    BY <1>2, <1>5, <2>1
  <2> QED  BY <1>9, <2>1, <2>2 DEF G
<1>12. CASE ~(size > PreferredMaxBytes)
  <2>1. Ordered(r, m).batches = x \o y
        /\ Ordered(r, m).rest = IF full THEN EmptyReceiver ELSE added
    BY <1>1, <1>12
  <2> HIDE DEF added
  <2>2. Ordered(r, m).rest.msgs \in G
    BY <1>2, <1>4, <2>1
  <2> QED  BY <1>10, <2>1, <2>2 DEF G
<1> QED  BY <1>11, <1>12

LEMMA PlainIsDated ==
  /\ Plain \subseteq Dated /\ Dated \subseteq Messages /\ Plain \subseteq Messages
  /\ Seq(Plain) \subseteq Seq(Dated) /\ Seq(Dated) \subseteq Seq(Messages)
<1>1. Plain \subseteq Dated /\ Dated \subseteq Messages
  BY DEF Plain, Dated
<1> QED  BY <1>1, MoreOf

LEMMA PlainBatches ==
  ASSUME NEW bs \in Seq(Seq(Plain))
  PROVE  bs \in DatedBatches
<1>1. bs \in Seq(Seq(Dated))
  BY PlainIsDated, MoreOf
<1>2. ASSUME NEW i \in DOMAIN bs PROVE bs[i] \in Seq(Plain)
  <2> DEFINE P == Seq(Plain)
  <2>1. bs \in Seq(P) /\ i \in 1 .. Len(bs)
    BY LenProperties
  <2> HIDE DEF P
  <2>2. bs[i] \in P
    BY <2>1, ElementOfSeq
  <2> QED  BY <2>2 DEF P
<1> QED  BY <1>1, <1>2 DEF DatedBatches

(* A configuration is added at the end.                                    *)
LEMMA ConfigAtEnd ==
  ASSUME NEW bs \in Seq(Seq(Plain)), NEW m \in Dated
  PROVE  Append(bs, <<m>>) \in DatedBatches
<1> DEFINE P == Seq(Plain)
           D == Seq(Dated)
           z == Append(bs, <<m>>)
<1>1. bs \in Seq(P) /\ bs \in Seq(D) /\ <<m>> \in D
  <2>1. bs \in Seq(D)
    BY PlainIsDated, MoreOf
  <2>2. <<m>> \in D
    OBVIOUS
  <2> QED  BY <2>1, <2>2
<1> HIDE DEF P, D
<1>2. /\ Len(bs) \in Nat /\ DOMAIN z = 1 .. Len(bs) + 1 /\ Len(z) = Len(bs) + 1
      /\ z \in Seq(D) /\ \A i \in 1 .. Len(bs) : z[i] = bs[i] /\ bs[i] \in P
  BY <1>1, AppendProperties, LenProperties, ElementOfSeq
<1> HIDE DEF z
<1>3. ASSUME NEW i \in DOMAIN z PROVE i = Len(z) \/ z[i] \in P
  <2>1. i = Len(bs) + 1 \/ i \in 1 .. Len(bs)
    BY <1>2
  <2> QED  BY <1>2, <2>1
<1> QED  BY <1>2, <1>3 DEF DatedBatches, P, D, z

LEMMA OrderedMessageDated ==
  ASSUME NEW r \in Receiver, r.msgs \in Seq(Plain), NEW m \in Dated
  PROVE  /\ OrderedMessage(r, m).batches \in DatedBatches
         /\ OrderedMessage(r, m).rest.msgs \in Seq(Plain)
<1>1. CASE m.tx \in ConfigTx
  <2>1. /\ OrderedMessage(r, m).batches = Append(PendingBatches(r), <<m>>)
        /\ OrderedMessage(r, m).rest.msgs = << >>
    BY <1>1 DEF OrderedMessage, EmptyReceiver
  <2>2. PendingBatches(r) \in Seq(Seq(Plain)) /\ << >> \in Seq(Plain)
    BY DEF PendingBatches
  <2> QED  BY <2>1, <2>2, ConfigAtEnd
<1>2. CASE m.tx \notin ConfigTx
  <2>1. OrderedMessage(r, m) = Ordered(r, m) /\ m \in Plain
    BY <1>2 DEF OrderedMessage, Plain
  <2>2. Ordered(r, m).batches \in Seq(Seq(Plain)) /\ Ordered(r, m).rest.msgs \in Seq(Plain)
    BY <2>1, OrderedFrom
  <2> QED  BY <2>1, <2>2, PlainBatches
<1> QED  BY <1>1, <1>2

(* An outdated update is still valid only before the first configuration.  *)
LEMMA ValidOutdated ==
  ASSUME NEW c \in Chain, NEW m \in Dated, StillValid(c, m), m.tx \in Outdated
  PROVE  Free(c.last)
<1>1. m.seq = 0
  BY DEF Dated
<1>2. Sequence(c) = 0
  BY <1>1, SequenceType DEF StillValid, Accepts
<1> QED  BY <1>2, FreeSequence

(* Selecting keeps the last element last.                                  *)
LEMMA KeepAtEnd ==
  ASSUME NEW T, NEW s \in Seq(T), NEW S, NEW k \in DOMAIN Keep(s, S)
  PROVE  \/ \E j \in 1 .. Len(s) - 1 : s[j] \in S /\ Keep(s, S)[k] = s[j]
         \/ k = Len(Keep(s, S)) /\ s # << >> /\ s[Len(s)] \in S /\ Keep(s, S)[k] = s[Len(s)]
<1> DEFINE m == Len(s)
<1>0. m \in Nat /\ (\A i \in 1 .. m : s[i] \in T) /\ DOMAIN s = 1 .. m
  BY LenProperties, ElementOfSeq
<1>1. PICK f \in [0 .. m -> Seq(T)] :
        /\ f[0] = << >> /\ \A i \in 1 .. m : f[i] = KeepStep(f[i - 1], s[i], S)
        /\ Keep(s, S) = f[m]
  BY KeepDef, ZenonT(60)
<1>2. CASE m = 0
  <2>1. Keep(s, S) = << >>
    BY <1>1, <1>2
  <2> QED  BY <2>1, EmptySeq
<1>3. CASE m # 0
  <2> DEFINE t == SubSeq(s, 1, m - 1)
             r == f[m - 1]
             q == f[m]
             In(i) == \A a \in DOMAIN f[i] : \E j \in 1 .. m - 1 : s[j] \in S /\ f[i][a] = s[j]
             P == {i \in Nat : i <= m - 1 => In(i)}
  <2> HIDE DEF m
  <2>1. 0 \in P
    <3>1. DOMAIN f[0] = {}
      BY <1>1, EmptySeq
    <3> QED  BY <3>1
  <2>2. ASSUME NEW i \in Nat, i \in P PROVE i + 1 \in P
    <3> SUFFICES ASSUME i + 1 <= m - 1 PROVE In(i + 1)
      OBVIOUS
    <3>1. i + 1 \in 1 .. m /\ (i + 1) - 1 = i /\ i \in 0 .. m /\ In(i) /\ i + 1 \in 1 .. m - 1
      BY <1>0, <2>2
    <3> DEFINE u == f[i]
               v == f[i + 1]
    <3>2. v = KeepStep(u, s[i + 1], S) /\ u \in Seq(T) /\ s[i + 1] \in T
      BY <1>0, <1>1, <3>1
    <3>3. Len(u) \in Nat /\ DOMAIN u = 1 .. Len(u)
          /\ \A a \in 1 .. Len(u) : \E j \in 1 .. m - 1 : s[j] \in S /\ u[a] = s[j]
      BY <3>1, <3>2, LenProperties
    <3> HIDE DEF u, v
    <3>4. CASE s[i + 1] \in S
      <4>1. /\ DOMAIN v = 1 .. Len(u) + 1 /\ v[Len(u) + 1] = s[i + 1]
            /\ \A a \in 1 .. Len(u) : v[a] = u[a]
        BY <3>2, <3>4, AppendProperties, LenProperties DEF KeepStep
      <4>2. ASSUME NEW a \in DOMAIN v PROVE \E j \in 1 .. m - 1 : s[j] \in S /\ v[a] = s[j]
        <5>1. CASE a = Len(u) + 1
          BY <3>1, <3>4, <4>1, <5>1
        <5>2. CASE a \in 1 .. Len(u)
          BY <3>3, <4>1, <5>2
        <5> QED  BY <3>3, <4>1, <5>1, <5>2
      <4> QED  BY <4>2 DEF v
    <3>5. CASE s[i + 1] \notin S
      <4>1. v = u
        BY <3>2, <3>5 DEF KeepStep
      <4> QED  BY <3>3, <4>1 DEF v
    <3> QED  BY <3>4, <3>5
  <2>3. Nat \subseteq P
    <3> HIDE DEF P
    <3> QED  BY <2>1, <2>2, SetInduction
  <2>4. /\ m \in 1 .. m /\ m - 1 \in 0 .. m /\ m - 1 \in Nat
    BY <1>0, <1>3
  <2>5. In(m - 1)
    BY <2>3, <2>4
  <2>6. q = KeepStep(r, s[m], S) /\ r \in Seq(T) /\ s[m] \in T /\ Keep(s, S) = q
    BY <1>0, <1>1, <2>4
  <2>7. Len(r) \in Nat /\ DOMAIN r = 1 .. Len(r)
        /\ \A a \in 1 .. Len(r) : \E j \in 1 .. m - 1 : s[j] \in S /\ r[a] = s[j]
    BY <2>5, <2>6, LenProperties
  <2> HIDE DEF r, q
  <2>8. s # << >>
    BY <1>0, <1>3, EmptySeq DEF m
  <2>9. CASE s[m] \in S
    <3>1. /\ DOMAIN q = 1 .. Len(r) + 1 /\ q[Len(r) + 1] = s[m] /\ Len(q) = Len(r) + 1
          /\ \A a \in 1 .. Len(r) : q[a] = r[a]
      BY <2>6, <2>9, AppendProperties, LenProperties DEF KeepStep
    <3>2. k \in DOMAIN q
      BY <2>6
    <3>3. CASE k = Len(r) + 1
      BY <2>6, <2>8, <2>9, <3>1, <3>3 DEF m
    <3>4. CASE k \in 1 .. Len(r)
      BY <2>6, <2>7, <3>1, <3>4 DEF m
    <3> QED  BY <2>7, <3>1, <3>2, <3>3, <3>4
  <2>10. CASE s[m] \notin S
    <3>1. q = r
      BY <2>6, <2>10 DEF KeepStep
    <3> QED  BY <2>6, <2>7, <3>1 DEF m
  <2> QED  BY <2>9, <2>10
<1> QED  BY <1>2, <1>3

(* Data with the configuration, if any, at the end.                        *)
InOrder(datas) == \A i \in DOMAIN datas : IsConfigData(datas[i]) => i = Len(datas)

LEMMA PlainData ==
  ASSUME NEW q \in Seq(Plain)
  PROVE  ~IsConfigData(Txs(q))
<1>1. q \in Seq(Messages) /\ DOMAIN q = 1 .. Len(q) /\ Len(q) \in Nat
  BY PlainIsDated, LenProperties
<1>2. Len(Txs(q)) = Len(q)
  BY <1>1, TxsLen
<1> SUFFICES ASSUME Len(q) = 1 PROVE Txs(q)[1] \notin ConfigTx
  BY <1>2 DEF IsConfigData
<1>3. 1 \in 1 .. Len(q)
  OBVIOUS
<1>4. q[1] \in Plain /\ Txs(q)[1] = q[1].tx
  BY <1>1, <1>3, ElementOfSeq DEF Txs
<1> QED  BY <1>4 DEF Plain

LEMMA SameLength ==
  ASSUME NEW T, NEW s \in Seq(T), NEW U, NEW t \in [DOMAIN s -> U]
  PROVE  Len(t) = Len(s) /\ DOMAIN t = DOMAIN s
<1>1. DOMAIN s = 1 .. Len(s) /\ Len(s) \in Nat
  BY LenProperties
<1>2. t \in Seq(U)
  BY <1>1, IsASeq
<1>3. DOMAIN t = 1 .. Len(t) /\ Len(t) \in Nat
  BY <1>2, LenProperties
<1>4. ASSUME NEW a \in Nat, NEW b \in Nat, 1 .. a = 1 .. b PROVE a = b
  <2>1. CASE a = 0 \/ b = 0
    BY <1>4, <2>1
  <2>2. CASE a # 0 /\ b # 0
    <3>1. a \in 1 .. a /\ b \in 1 .. b
      BY <2>2
    <3> QED  BY <1>4, <3>1
  <2> QED  BY <2>1, <2>2
<1>5. 1 .. Len(t) = 1 .. Len(s)
  BY <1>1, <1>3
<1> QED  BY <1>1, <1>3, <1>4, <1>5

LEMMA BatchesInOrder ==
  ASSUME NEW bs \in DatedBatches
  PROVE  InOrder([i \in DOMAIN bs |-> Txs(bs[i])])
<1> DEFINE ds == [i \in DOMAIN bs |-> Txs(bs[i])]
<1>1. bs \in Seq(Seq(Dated)) /\ \A i \in DOMAIN bs : i = Len(bs) \/ bs[i] \in Seq(Plain)
  BY DEF DatedBatches
<1>2. ds \in [DOMAIN bs -> {Txs(bs[i]) : i \in DOMAIN bs}]
  OBVIOUS
<1>3. Len(ds) = Len(bs)
  <2> HIDE DEF ds
  <2> QED  BY <1>1, <1>2, SameLength
<1>4. ASSUME NEW i \in DOMAIN ds, IsConfigData(ds[i]) PROVE i = Len(ds)
  BY <1>1, <1>3, <1>4, PlainData
<1> HIDE DEF ds
<1>5. InOrder(ds)
  BY <1>4 DEF InOrder
<1> QED  BY <1>5 DEF ds

(* What is left of a request after revalidation.                           *)
LEMMA ValidDataClean ==
  ASSUME NEW c \in Chain, NEW bs \in DatedBatches
  PROVE  /\ InOrder(ValidData(c, bs))
         /\ \A i \in DOMAIN ValidData(c, bs) : HasOutdated(ValidData(c, bs)[i]) => Free(c.last)
<1> DEFINE S == {b \in Range(bs) : b[1].tx \notin ConfigTx \/ StillValid(c, b[1])}
           kept == Keep(bs, S)
           V(i) == {m \in Range(kept[i]) : StillValid(c, m)}
           q(i) == Keep(kept[i], V(i))
           v == [i \in DOMAIN kept |-> Txs(q(i))]
           D == Seq(Dated)
<1>1. bs \in Seq(D) /\ DOMAIN bs = 1 .. Len(bs) /\ Len(bs) \in Nat
      /\ \A i \in DOMAIN bs : i = Len(bs) \/ bs[i] \in Seq(Plain)
  BY LenProperties DEF DatedBatches
<1>2. ValidData(c, bs) = v
  BY DEF ValidData
<1>3. ASSUME NEW i \in DOMAIN kept, NEW m \in V(i) PROVE StillValid(c, m)
  OBVIOUS
<1> HIDE DEF S, D, V
<1>4. kept \in Seq(D)
  BY <1>1, KeepType
<1>5. ASSUME NEW k \in DOMAIN kept, k # Len(kept) PROVE kept[k] \in Seq(Plain)
  <2>1. PICK j \in 1 .. Len(bs) - 1 : kept[k] = bs[j]
    BY <1>1, <1>5, KeepAtEnd
  <2>2. j \in DOMAIN bs /\ j # Len(bs)
    <3>1. ASSUME NEW a \in Nat, NEW i \in 1 .. a - 1 PROVE i \in 1 .. a /\ i # a
      OBVIOUS
    <3> QED  BY <1>1, <3>1, Zenon
  <2> QED  BY <1>1, <2>1, <2>2
<1> HIDE DEF kept
<1>6. Len(v) = Len(kept) /\ DOMAIN v = DOMAIN kept /\ \A i \in DOMAIN kept : v[i] = Txs(q(i))
  <2>1. v \in [DOMAIN kept -> {Txs(q(i)) : i \in DOMAIN kept}]
        /\ \A i \in DOMAIN kept : v[i] = Txs(q(i))
    OBVIOUS
  <2> HIDE DEF v, q
  <2> QED  BY <1>4, <2>1, SameLength
<1> HIDE DEF v
<1>7. ASSUME NEW i \in DOMAIN kept, i # Len(kept) PROVE ~IsConfigData(v[i])
  <2>1. q(i) \in Seq(Plain)
    BY <1>5, <1>7, KeepType
  <2> HIDE DEF q
  <2> QED  BY <1>6, <2>1, PlainData
<1>8. ASSUME NEW i \in DOMAIN kept, HasOutdated(v[i]) PROVE Free(c.last)
  <2> DEFINE x == kept[i]
             y == q(i)
  <2>1. x \in Seq(Dated) /\ DOMAIN x = 1 .. Len(x)
    <3>1. i \in 1 .. Len(kept)
      BY <1>4, LenProperties
    <3>2. x \in D
      BY <1>4, <3>1, ElementOfSeq
    <3> QED  BY <3>2, LenProperties DEF D
  <2> HIDE DEF x
  <2>2. \A k \in DOMAIN y : \E j \in DOMAIN x : x[j] \in V(i) /\ y[k] = x[j]
    BY <2>1, KeepLess DEF x
  <2> HIDE DEF y
  <2>3. PICK k \in DOMAIN y : y[k].tx \in Outdated
    <3>1. v[i] = Txs(y)
      BY <1>6 DEF y
    <3> QED  BY <1>8, <3>1 DEF HasOutdated, Txs
  <2>4. PICK j \in DOMAIN x : x[j] \in V(i) /\ y[k] = x[j]
    BY <2>2
  <2>5. x[j] \in Dated /\ StillValid(c, x[j])
    BY <1>3, <2>1, <2>4, ElementOfSeq
  <2> QED  BY <2>3, <2>4, <2>5, ValidOutdated
<1> QED  BY <1>2, <1>6, <1>7, <1>8 DEF InOrder

(***************************************************************************)
(* The blocks made of data in this order: only the last may be a           *)
(* configuration, and it is then in flight.                                *)
(***************************************************************************)
LEMMA QueueCleanMore ==
  ASSUME NEW q \in Seq(Block), NEW b \in Block, QueueClean(q), Clean(b)
  PROVE  QueueClean(Append(q, b))
<1> DEFINE t == Append(q, b)
<1>1. /\ Len(q) \in Nat /\ DOMAIN q = 1 .. Len(q) /\ DOMAIN t = 1 .. Len(q) + 1
      /\ t[Len(q) + 1] = b /\ \A i \in 1 .. Len(q) : t[i] = q[i]
  BY AppendProperties, LenProperties
<1> HIDE DEF t
<1>2. ASSUME NEW i \in DOMAIN t PROVE Clean(t[i])
  <2>1. CASE i = Len(q) + 1
    BY <1>1, <2>1
  <2>2. CASE i \in 1 .. Len(q)
    BY <1>1, <2>2 DEF QueueClean
  <2> QED  BY <1>1, <2>1, <2>2
<1> QED  BY <1>2 DEF QueueClean, t

LEMMA CreateBlocksClean ==
  ASSUME NEW c \in Chain, c.bc \in Block, NEW datas \in Seq(Seq(Tx)),
         QueueClean(c.propC), InOrder(datas),
         \A i \in DOMAIN datas : HasOutdated(datas[i]) => Free(c.bc)
  PROVE  /\ QueueClean(CreateBlocks(c, datas).propC)
         /\ c.configInflight => CreateBlocks(c, datas).configInflight
         /\ Free(c.bc) => \/ Free(CreateBlocks(c, datas).bc)
                          \/ /\ CreateBlocks(c, datas).configInflight
                             /\ datas # << >> /\ IsConfigData(datas[Len(datas)])
<1> DEFINE m == Len(datas)
           S == {x \in Chain : x.bc \in Block}
<1>0. m \in Nat /\ DOMAIN datas = 1 .. m
      /\ \A i \in 1 .. m : /\ datas[i] \in Seq(Tx) /\ (HasOutdated(datas[i]) => Free(c.bc))
                           /\ (IsConfigData(datas[i]) => i = m)
  BY LenProperties, ElementOfSeq DEF InOrder
<1>1. PICK g \in [0 .. m -> S] :
        /\ g[0] = c /\ \A i \in 1 .. m : g[i] = CreateBlock(g[i - 1], datas[i])
        /\ CreateBlocks(c, datas) = g[m]
  BY CreateBlocksDef
<1> HIDE DEF m
<1> DEFINE Q(x, i) == /\ QueueClean(x.propC) /\ (c.configInflight => x.configInflight)
                      /\ (Free(c.bc) => \/ Free(x.bc)
                                       \/ (x.configInflight /\ i = m /\ IsConfigData(datas[i]) /\ i # 0))
           P == {i \in Nat : i <= m => Q(g[i], i)}
<1>2. 0 \in P
  BY <1>1
<1>3. ASSUME NEW i \in Nat, i \in P PROVE i + 1 \in P
  <2> SUFFICES ASSUME i + 1 <= m PROVE Q(g[i + 1], i + 1)
    OBVIOUS
  <2>1. i + 1 \in 1 .. m /\ (i + 1) - 1 = i /\ i \in 0 .. m /\ Q(g[i], i) /\ i # m /\ i + 1 # 0
    BY <1>0, <1>3
  <2> DEFINE y == g[i]
             d == datas[i + 1]
             z == g[i + 1]
             b == NextBlock(y.bc, d)
  <2>2. z = CreateBlock(y, d) /\ d \in Seq(Tx) /\ y \in Chain /\ y.bc \in Block
        /\ (HasOutdated(d) => Free(c.bc)) /\ (IsConfigData(d) => i + 1 = m)
    BY <1>0, <1>1, <2>1
  <2>3. /\ QueueClean(y.propC) /\ (c.configInflight => y.configInflight)
        /\ (Free(c.bc) => Free(y.bc))
    BY <2>1
  <2> HIDE DEF y, z, b, Q
  <2>4. y.propC \in Seq(Block) /\ b \in Block /\ b.data = d /\ b.prev = Hash(y.bc)
        /\ (Free(b) <=> Free(y.bc) /\ ~IsConfigData(d))
    <3>1. y.propC \in Seq(Block)
      BY <2>2 DEF Chain
    <3>2. b \in Block /\ b.data = d
      BY <2>2, NextBlockType DEF b
    <3> QED  BY <2>2, <3>1, <3>2, FreeNext DEF b
  <2>5. z.propC = Append(y.propC, b) /\ z.bc = b
        /\ z.configInflight = (y.configInflight \/ IsConfigData(d))
    <3>1. IsConfigBlock(b) = IsConfigData(d)
      BY <2>4 DEF IsConfigBlock
    <3>2. z = [y EXCEPT !.bc = b, !.propC = Append(@, b), !.blockInflight = @ + 1,
                        !.configInflight = @ \/ IsConfigBlock(b)]
      BY <2>2 DEF CreateBlock, b
    <3> QED  BY <2>2, <3>1, <3>2 DEF Chain
  <2>6. Clean(b)
    BY <2>2, <2>3, <2>4 DEF Clean, Free
  <2>7. QueueClean(z.propC)
    BY <2>3, <2>4, <2>5, <2>6, QueueCleanMore
  <2>8. Q(z, i + 1)
    BY <2>1, <2>2, <2>3, <2>4, <2>5, <2>7 DEF Q
  <2> QED  BY <2>8 DEF z
<1>4. Nat \subseteq P
  <2> HIDE DEF P
  <2> QED  BY <1>2, <1>3, SetInduction
<1>5. Q(g[m], m)
  BY <1>0, <1>4
<1>6. m # 0 => datas # << >>
  BY EmptySeq DEF m
<1> DEFINE e == CreateBlocks(c, datas)
<1>7. Q(e, m)
  BY <1>1, <1>5
<1> HIDE DEF e
<1> QED  BY <1>6, <1>7 DEF m, e
-----------------------------------------------------------------------------
(***************************************************************************)
(* What a node knows of configurations, step by step.                      *)
(***************************************************************************)
SameConfig(d, c) == d.configInflight = c.configInflight /\ d.confChange = c.confChange

LEMMA LaterCurrent ==
  ASSUME NEW n, NEW c, NEW d, NEW msgs, Current(n, c, msgs), SameLead(d, c), SameConfig(d, c),
         Free(d.last) => Free(c.last)
  PROVE  Current(n, d, msgs)
BY DEF Current, SameLead, SameConfig, Serving

(* A node that does not serve has nothing to answer for.                   *)
LEMMA IdleCurrent ==
  ASSUME NEW n, NEW d, NEW msgs, ~Serving(n, d), Free(d.last) => d.confChange = Nil
  PROVE  Current(n, d, msgs)
BY DEF Current

(* A new leader serves from its last block; a configuration in flight      *)
(* closes submitC.                                                         *)
LEMMA AfterApplyCurrent ==
  ASSUME Types, NEW n \in Node, NEW c \in Chain, NEW msgs, Current(n, c, msgs),
         ~Serving(n, c) /\ ~mode => msgs = << >>
  PROVE  Current(n, AfterApply(n, c), msgs)
<1> DEFINE d == AfterApply(n, c)
<1>1. /\ d.last = c.last /\ d.lead = c.lead
      /\ \/ d.justElected = c.justElected /\ d.bc = c.bc
         \/ c.justElected /\ d.bc = c.last
  BY AfterApplyEffect DEF SameIndex
<1>2. SameConfig(d, c) /\ (~c.justElected /\ c.configInflight => ~d.open)
  BY DEF AfterApply, Chain, SameConfig
<1> SUFFICES Current(n, d, msgs)
  OBVIOUS
<1> HIDE DEF d
<1>3. CASE d.justElected = c.justElected /\ d.bc = c.bc
  BY <1>1, <1>2, <1>3 DEF Current, SameConfig, Serving
<1>4. CASE c.justElected /\ d.bc = c.last
  <2>1. ~mode => msgs = << >>
    BY <1>4 DEF Serving
  <2> QED  BY <1>1, <1>2, <1>4, <2>1 DEF Current, SameConfig
<1> QED  BY <1>1, <1>3, <1>4

(* A configuration a node has not applied is not resumed by it.            *)
LEMMA BecomeLeaderConfig ==
  ASSUME NEW c \in Chain, Free(c.last) => c.confChange = Nil
  PROVE  Free(c.last) => BecomeLeader(c).confChange = Nil
<1> SUFFICES ASSUME Free(c.last) PROVE BecomeLeader(c).confChange = Nil
  OBVIOUS
<1>1. c.confChange = Nil /\ \A i \in DOMAIN Hash(c.last) : ~IsConfigData(Hash(c.last)[i])
  BY DEF Free, NoConfig
<1>2. InFlightConfChange(c) = Nil
  BY <1>1 DEF InFlightConfChange
<1> QED  BY <1>1, <1>2 DEF BecomeLeader, Chain

LEMMA WroteBlockCurrent ==
  ASSUME NEW n, NEW c \in Chain, NEW b \in Block, NEW msgs, Current(n, c, msgs),
         Free(b) => Free(c.last) /\ ~IsConfigBlock(b)
  PROVE  Current(n, WroteBlock(c, b), msgs)
<1> DEFINE d == WroteBlock(c, b)
<1>1. SameLead(d, c) /\ d.last = b
  BY WroteBlockEffect
<1>2. ~IsConfigBlock(b) => SameConfig(d, c)
  BY DEF WroteBlock, Chain, SameConfig
<1> HIDE DEF d
<1>3. CASE Free(b)
  <2>1. Current(n, d, msgs)
    BY <1>1, <1>2, <1>3, LaterCurrent
  <2> QED  BY <2>1 DEF d
<1>4. CASE ~Free(b)
  BY <1>1, <1>4 DEF Current, SameLead, Serving, d
<1> QED  BY <1>3, <1>4

LEMMA LastBlock ==
  ASSUME IInv, NEW n \in Node
  PROVE  /\ InLog(committed, chain[n].last) /\ chain[n].last.num = Len(ledger[n]) - 1
         /\ chain[n].last \in Block /\ Len(ledger[n]) \in Nat
<1>1. ledger[n] \in Seq(Written) /\ Ledgered(chain[n], ledger[n]) /\ chain[n] \in Chain
  BY DEF IInv, Types, WriteInv, LedgerOK
<1>2. chain[n].last \in Block
  BY <1>1 DEF Chain
<1> QED  BY <1>1, <1>2, LastInLog

(* A node whose ledger has not become shorter has passed no fewer          *)
(* configurations.                                                         *)
LEMMA LaterLast ==
  ASSUME IInv, IInv', NEW n \in Node, committed' = committed,
         Len(ledger[n]) <= Len(ledger'[n]), Free(chain'[n].last)
  PROVE  Free(chain[n].last)
<1>1. /\ InLog(committed, chain[n].last) /\ chain[n].last.num = Len(ledger[n]) - 1
      /\ Len(ledger[n]) \in Nat
  BY LastBlock
<1> DEFINE l == ledger'[n]
           c == chain'[n]
<1>2. l \in Seq(Written) /\ Ledgered(c, l)
  BY DEF IInv, Types, WriteInv, LedgerOK, Ledgered, WrittenOK, InLog, Num
<1> HIDE DEF l, c
<1>3. InLog(committed, c.last) /\ c.last.num = Len(l) - 1 /\ Len(l) \in Nat
  BY <1>2, LastInLog
<1>4. Len(ledger[n]) <= Len(l) /\ Free(c.last)
  BY DEF l, c
<1>5. chain[n].last.num <= c.last.num
  BY <1>1, <1>3, <1>4
<1> QED  BY <1>1, <1>3, <1>4, <1>5, FreeLast

(* The block a node writes next.                                           *)
LEMMA NextBlockFree ==
  ASSUME IInv, NEW n \in Node, CanRead(n), NextEntry(n).type = "block",
         NextEntry(n).blk.num = chain[n].last.num + 1, Free(NextEntry(n).blk)
  PROVE  Free(chain[n].last) /\ ~IsConfigBlock(NextEntry(n).blk)
<1> DEFINE r == chain[n].read
           b == NextEntry(n).blk
           t == Tip(committed)[r]
<1>1. /\ r \in Nat /\ r \in 0 .. Len(committed) /\ r + 1 \in 0 .. Len(committed)
      /\ NextEntry(n) \in LogEntry /\ b = Tip(committed)[r + 1]
  BY ReadEntry
<1>2. committed \in Seq(LogEntry) /\ Chained(committed) /\ DOMAIN committed = 1 .. Len(committed)
      /\ Len(committed) \in Nat
  BY LenProperties DEF IInv, Types, LogInv
<1>3. r + 1 \in DOMAIN committed /\ (r + 1) - 1 = r
  BY <1>1, <1>2
<1>4. b = NextBlock(t, b.data) /\ t \in Block
  <2>1. committed[r + 1].type = "block" /\ b = committed[r + 1].blk
    BY DEF NextEntry
  <2>2. t \in Block
    BY <1>1, <1>2, TipDef
  <2> QED  BY <1>2, <1>3, <2>1, <2>2 DEF Chained
<1>5. b.data \in Seq(Tx) /\ b \in Block
  BY <1>1 DEF LogEntry, Block, Tx
<1>6. Free(b)
  OBVIOUS
<1>7. InLog(committed, b) /\ InLog(committed, chain[n].last) /\ chain[n].last.num <= b.num
  <2>1. InLog(committed, b)
    BY <1>1 DEF InLog
  <2>2. InLog(committed, chain[n].last) /\ chain[n].last.num \in Nat
    BY LastBlock DEF Block
  <2>3. b.num = chain[n].last.num + 1
    OBVIOUS
  <2> HIDE DEF b
  <2> QED  BY <2>1, <2>2, <2>3
<1> HIDE DEF b, t
<1>8. ~IsConfigData(b.data)
  BY <1>4, <1>5, <1>6, FreeNext
<1>9. Free(chain[n].last)
  BY <1>6, <1>7, FreeLast
<1> QED  BY <1>8, <1>9 DEF IsConfigBlock, b
-----------------------------------------------------------------------------
(***************************************************************************)
(* A step of one node lets no outdated update past a configuration.        *)
(***************************************************************************)
LEMMA OutdatedFrame ==
  ASSUME OutdatedInv, NEW n \in Node, mode' = mode, committed' = committed,
         \A m \in Node \ {n} : /\ log'[m] = log[m] /\ chain'[m] = chain[m]
                               /\ cutter'[m] = cutter[m] /\ outbox'[m] = outbox[m],
         LogClean(log'[n]), QueueClean(chain'[n].propC),
         cutter'[n].msgs \in Seq(Plain), outbox'[n] \in DatedBatches,
         Current(n, chain'[n], cutter'[n].msgs),
         \A r \in net' : r.batches \in DatedBatches
  PROVE  OutdatedInv'
<1>1. ASSUME NEW m \in Node PROVE OutdatedOK(m)'
  <2>1. CASE m = n
    BY <2>1 DEF OutdatedOK, Current
  <2>2. CASE m # n
    <3>1. OutdatedOK(m) /\ m \in Node \ {n}
      BY <2>2 DEF OutdatedInv
    <3>2. log'[m] = log[m] /\ chain'[m] = chain[m] /\ cutter'[m] = cutter[m] /\ outbox'[m] = outbox[m]
      BY <3>1
    <3> QED  BY <3>1, <3>2 DEF OutdatedOK, Current
  <2> QED  BY <2>1, <2>2
<1>2. LogClean(committed)'
  BY DEF OutdatedInv
<1> QED  BY <1>1, <1>2 DEF OutdatedInv

LEMMA OutdatedParts ==
  ASSUME IInv, OutdatedInv, NEW n \in Node
  PROVE  /\ LogClean(log[n]) /\ QueueClean(chain[n].propC)
         /\ cutter[n].msgs \in Seq(Plain) /\ outbox[n] \in DatedBatches
         /\ Current(n, chain[n], cutter[n].msgs)
         /\ LogClean(committed) /\ \A r \in net : r.batches \in DatedBatches
         /\ Types /\ chain[n] \in Chain /\ log[n] \in Seq(LogEntry)
         /\ cutter[n] \in Receiver /\ outbox[n] \in Batches
         /\ (~Serving(n, chain[n]) /\ ~mode => cutter[n].msgs = << >>)
<1>1. /\ LogClean(log[n]) /\ QueueClean(chain[n].propC)
      /\ cutter[n].msgs \in Seq(Plain) /\ outbox[n] \in DatedBatches
      /\ Current(n, chain[n], cutter[n].msgs)
      /\ LogClean(committed) /\ \A r \in net : r.batches \in DatedBatches
  BY DEF OutdatedInv, OutdatedOK
<1>2. /\ Types /\ chain[n] \in Chain /\ log[n] \in Seq(LogEntry)
      /\ cutter[n] \in Receiver /\ outbox[n] \in Batches
  BY DEF IInv, Types
<1>3. Leading(n, chain[n], cutter[n].msgs)
  BY DEF IInv, LeaderInv, LeaderOK
<1> QED  BY <1>1, <1>2, <1>3 DEF Leading

LEMMA NoneOutdated == QueueClean(<< >>) /\ << >> \in DatedBatches /\ EmptyReceiver.msgs \in Seq(Plain)
<1>1. << >> \in Seq(Seq(Plain)) /\ << >> \in Seq(Plain)
  OBVIOUS
<1>2. << >> \in DatedBatches
  BY <1>1, PlainBatches
<1>3. QueueClean(<< >>)
  BY DEF QueueClean
<1>4. EmptyReceiver.msgs = << >>
  BY DEF EmptyReceiver
<1> QED  BY <1>1, <1>2, <1>3, <1>4

LEMMA ChainStepClean ==
  ASSUME IInv, OutdatedInv, NEW n \in Node, NEW X, chain' = [chain EXCEPT ![n] = X],
         X.propC = chain[n].propC, Current(n, X, cutter[n].msgs),
         UNCHANGED <<mode, log, committed, cutter, outbox, net>>
  PROVE  OutdatedInv'
<1>1. /\ LogClean(log[n]) /\ QueueClean(chain[n].propC)
      /\ cutter[n].msgs \in Seq(Plain) /\ outbox[n] \in DatedBatches
      /\ \A r \in net : r.batches \in DatedBatches
  BY OutdatedParts
<1>2. chain'[n] = X /\ \A m \in Node \ {n} : chain'[m] = chain[m]
  BY OutdatedParts DEF Types
<1> QED  BY <1>1, <1>2, OutdatedFrame

LEMMA LogStepClean ==
  ASSUME IInv, OutdatedInv, NEW n \in Node, NEW s, log' = [log EXCEPT ![n] = s],
         LogClean(s), UNCHANGED <<mode, committed, chain, cutter, outbox, net>>
  PROVE  OutdatedInv'
<1>1. /\ QueueClean(chain[n].propC) /\ cutter[n].msgs \in Seq(Plain) /\ outbox[n] \in DatedBatches
      /\ Current(n, chain[n], cutter[n].msgs) /\ \A r \in net : r.batches \in DatedBatches
  BY OutdatedParts
<1>2. log'[n] = s /\ \A m \in Node \ {n} : log'[m] = log[m]
  BY OutdatedParts DEF Types
<1> QED  BY <1>1, <1>2, OutdatedFrame

LEMMA LogCleanMore ==
  ASSUME NEW s \in Seq(LogEntry), NEW e \in LogEntry, LogClean(s),
         e.type = "block" => Clean(e.blk)
  PROVE  LogClean(Append(s, e))
<1> DEFINE t == Append(s, e)
<1>1. /\ Len(s) \in Nat /\ DOMAIN s = 1 .. Len(s) /\ DOMAIN t = 1 .. Len(s) + 1
      /\ t[Len(s) + 1] = e /\ \A i \in 1 .. Len(s) : t[i] = s[i]
  BY AppendProperties, LenProperties
<1> HIDE DEF t
<1>2. ASSUME NEW i \in DOMAIN t, t[i].type = "block" PROVE Clean(t[i].blk)
  <2>1. CASE i = Len(s) + 1
    BY <1>1, <1>2, <2>1
  <2>2. CASE i \in 1 .. Len(s)
    BY <1>1, <1>2, <2>2 DEF LogClean
  <2> QED  BY <1>1, <2>1, <2>2
<1> QED  BY <1>2 DEF LogClean, t

LEMMA RaftClean ==
  ASSUME IInv, OutdatedInv, NEW n \in Node, Raft(n)
  PROVE  OutdatedInv'
<1>0. LogClean(log[n]) /\ Types /\ log[n] \in Seq(LogEntry)
  BY OutdatedParts
<1>1. CASE Timeout(n)
  <2>1. UNCHANGED <<mode, log, committed, chain, cutter, outbox, net>>
    BY <1>1 DEF Timeout, inputVars
  <2>2. log' = [log EXCEPT ![n] = log[n]]
    BY <1>0, <2>1 DEF Types
  <2> QED  BY <1>0, <2>1, <2>2, LogStepClean
<1>2. CASE Elect(n)
  <2> DEFINE e == Entry(term + 1, "empty", Genesis, {})
  <2>1. /\ UNCHANGED <<mode, committed, chain, cutter, outbox, net>>
        /\ log' = [log EXCEPT ![n] = Append(log[n], e)]
    BY <1>2 DEF Elect, inputVars
  <2>2. e \in LogEntry /\ e.type = "empty"
    BY <1>0, GenesisType, ChainAssumption DEF Types, Entry, LogEntry
  <2> HIDE DEF e
  <2>3. LogClean(Append(log[n], e))
    BY <1>0, <2>2, LogCleanMore
  <2> QED  BY <2>1, <2>3, LogStepClean
<1>3. CASE Replicate(n)
  <2>1. PICK l \in Node : /\ UNCHANGED <<mode, committed, chain, cutter, outbox, net>>
                          /\ log' = [log EXCEPT ![n] = log[l]]
    BY <1>3 DEF Replicate, inputVars
  <2>2. LogClean(log[l])
    BY OutdatedParts
  <2> QED  BY <2>1, <2>2, LogStepClean
<1>4. CASE Commit(n)
  <2>1. UNCHANGED <<mode, log, chain, cutter, outbox, net>> /\ committed' = log[n]
    BY <1>4 DEF Commit, inputVars
  <2>2. \A m \in Node : OutdatedOK(m)'
    BY <2>1 DEF OutdatedInv, OutdatedOK, Current
  <2> QED  BY <1>0, <2>1, <2>2 DEF OutdatedInv
<1> QED  BY <1>1, <1>2, <1>3, <1>4 DEF Raft

LEMMA ApplySoftClean ==
  ASSUME IInv, OutdatedInv, NEW n \in Node, ApplySoft(n)
  PROVE  OutdatedInv'
<1> DEFINE c    == chain[n]
           new  == raft[n].lead
           lost == c.lead = n /\ new # n
           d    == IF new = n /\ c.lead # n THEN BecomeLeader(c)
                   ELSE IF lost THEN BecomeFollower(c) ELSE c
           e    == [d EXCEPT !.lead = new]
           r    == IF ~lost THEN cutter[n]
                   ELSE IF mode THEN [cutter[n] EXCEPT !.bytes = 0] ELSE EmptyReceiver
<1>0. /\ LogClean(log[n]) /\ QueueClean(c.propC)
      /\ cutter[n].msgs \in Seq(Plain) /\ outbox[n] \in DatedBatches
      /\ Current(n, c, cutter[n].msgs) /\ (\A i \in net : i.batches \in DatedBatches)
      /\ Types /\ c \in Chain /\ cutter[n] \in Receiver
      /\ (~Serving(n, c) /\ ~mode => cutter[n].msgs = << >>)
  BY OutdatedParts
<1>1. /\ chain' = [chain EXCEPT ![n] = AfterApply(n, e)] /\ new # c.lead
      /\ cutter' = [cutter EXCEPT ![n] = r]
      /\ UNCHANGED <<mode, log, committed, outbox, net>>
  BY <1>0 DEF ApplySoft, Types, raftVars
<1>2. new \in Node \cup {Nil}
  BY <1>0 DEF Types
<1>3. /\ d \in Chain /\ (d.propC = c.propC \/ d.propC = << >>)
      /\ d.last = c.last /\ (new = n => d.justElected)
      /\ (Free(c.last) => d.confChange = Nil)
  <2>1. Free(c.last) => c.confChange = Nil
    BY <1>0 DEF Current
  <2>2. CASE new = n
    <3>1. d = BecomeLeader(c)
      BY <1>1, <2>2
    <3> HIDE DEF d
    <3> QED  BY <1>0, <2>1, <3>1, BecomeLeaderEffect, BecomeLeaderConfig DEF SameIndex
  <2>3. CASE new # n /\ lost
    <3>1. d = BecomeFollower(c)
      BY <2>3
    <3>2. BecomeFollower(c).confChange = c.confChange
      BY <1>0 DEF BecomeFollower, Chain
    <3> HIDE DEF d
    <3> QED  BY <1>0, <2>1, <2>3, <3>1, <3>2, BecomeFollowerEffect DEF SameIndex
  <2>4. CASE new # n /\ ~lost
    BY <1>0, <2>1, <2>4
  <2> QED  BY <2>2, <2>3, <2>4
<1>4. r.msgs \in Seq(Plain) /\ (~mode => r.msgs = << >>)
  <2>1. EmptyReceiver.msgs = << >> /\ EmptyReceiver.msgs \in Seq(Plain)
    BY NoneOutdated DEF EmptyReceiver
  <2>2. [cutter[n] EXCEPT !.bytes = 0].msgs = cutter[n].msgs
    BY <1>0 DEF Receiver
  <2>3. ~lost => ~Serving(n, c)
    BY <1>1 DEF Serving
  <2> QED  BY <1>0, <2>1, <2>2, <2>3
<1> HIDE DEF d, r
<1>5. /\ e \in Chain /\ e.propC = d.propC /\ e.last = d.last /\ e.lead = new
      /\ e.justElected = d.justElected /\ e.confChange = d.confChange
  BY <1>2, <1>3 DEF Chain
<1> HIDE DEF e
<1>6. AfterApply(n, e).propC = e.propC
  BY <1>0, <1>5, AfterApplyEffect
<1>7. ~Serving(n, e) /\ (Free(e.last) => e.confChange = Nil)
  BY <1>3, <1>5 DEF Serving
<1>8. Current(n, e, r.msgs)
  BY <1>7, IdleCurrent
<1>9. Current(n, AfterApply(n, e), r.msgs)
  BY <1>0, <1>4, <1>5, <1>8, AfterApplyCurrent
<1>10. /\ chain'[n] = AfterApply(n, e) /\ cutter'[n] = r
       /\ \A m \in Node \ {n} : chain'[m] = chain[m] /\ cutter'[m] = cutter[m]
  BY <1>0, <1>1 DEF Types
<1>11. QueueClean(chain'[n].propC)
  BY <1>0, <1>3, <1>5, <1>6, <1>10, NoneOutdated
<1> QED  BY <1>0, <1>1, <1>4, <1>9, <1>10, <1>11, OutdatedFrame

LEMMA ApplyClean ==
  ASSUME IInv, OutdatedInv, NEW n \in Node, Apply(n)
  PROVE  OutdatedInv'
<1> DEFINE o == chain[n]
           c == Advance(o)
           q == cutter[n].msgs
<1>0. /\ Types /\ Current(n, o, q) /\ o \in Chain
      /\ (~Serving(n, o) /\ ~mode => q = << >>)
  BY OutdatedParts
<1>1. ASSUME CanRead(n)
      PROVE  c \in Chain /\ SameLead(c, o) /\ SameConfig(c, o) /\ c.last = o.last /\ Current(n, c, q)
  <2>1. c \in Chain /\ SameLead(c, o) /\ c.last = o.last
    BY <1>1, ReadEntry, AdvanceEffect
  <2>2. SameConfig(c, o)
    BY <1>0 DEF Advance, Chain, SameConfig
  <2> HIDE DEF c
  <2>3. Current(n, c, q)
    BY <1>0, <2>1, <2>2, LaterCurrent
  <2> QED  BY <2>1, <2>2, <2>3
<1>2. ASSUME NEW d \in Chain, SameLead(d, o), Current(n, d, q),
             chain' = [chain EXCEPT ![n] = AfterApply(n, d)],
             UNCHANGED <<mode, raftVars, inputVars>>
      PROVE  OutdatedInv'
  <2>1. AfterApply(n, d).propC = o.propC
    BY <1>0, <1>2, AfterApplyEffect DEF SameLead
  <2>2. UNCHANGED <<mode, log, committed, cutter, outbox, net>>
    BY <1>2 DEF raftVars, inputVars
  <2>3. ~Serving(n, d) /\ ~mode => q = << >>
    BY <1>0, <1>2 DEF Serving, SameLead
  <2>4. Current(n, AfterApply(n, d), q)
    BY <1>0, <1>2, <2>3, AfterApplyCurrent
  <2> QED  BY <1>2, <2>1, <2>2, <2>4, ChainStepClean
<1>3. CASE ApplySoft(n)
  BY <1>3, ApplySoftClean
<1>4. CASE SkipEntry(n)
  <2>1. CanRead(n) /\ chain' = [chain EXCEPT ![n] = AfterApply(n, c)]
        /\ UNCHANGED <<mode, raftVars, inputVars>>
    BY <1>4 DEF SkipEntry
  <2> HIDE DEF c
  <2> QED  BY <1>1, <1>2, <2>1
<1>5. CASE ApplyBlock(n)
  <2> DEFINE b == NextEntry(n).blk
             d == WroteBlock(c, b)
  <2>1. CanRead(n) /\ chain' = [chain EXCEPT ![n] = AfterApply(n, d)]
        /\ NextEntry(n).type = "block" /\ b.num = c.last.num + 1
        /\ UNCHANGED <<mode, raftVars, inputVars>>
    BY <1>5 DEF ApplyBlock
  <2>2. b \in Block
    BY <2>1, ReadEntry DEF LogEntry
  <2>3. Free(b) => Free(o.last) /\ ~IsConfigBlock(b)
    BY <1>1, <2>1, NextBlockFree
  <2> HIDE DEF c, b
  <2>4. /\ d \in Chain /\ SameLead(d, c)
    BY <1>1, <2>1, <2>2, WroteBlockEffect
  <2>5. Current(n, d, q)
    BY <1>1, <2>1, <2>2, <2>3, WroteBlockCurrent
  <2> HIDE DEF d
  <2>6. SameLead(d, o)
    BY <1>1, <2>1, <2>4 DEF SameLead
  <2> QED  BY <1>2, <2>1, <2>4, <2>5, <2>6
<1>6. CASE ApplyConfChange(n)
  <2> DEFINE t == NextEntry(n).blk.data[1]
             d == [c EXCEPT !.conf = @ \cup {t}]
             f == IF c.confChange # t THEN d
                  ELSE [d EXCEPT !.confChange = Nil, !.configInflight = FALSE]
  <2>1. /\ CanRead(n) /\ NextEntry(n).type = "conf"
        /\ chain' = [chain EXCEPT ![n] = AfterApply(n, f)]
        /\ UNCHANGED <<mode, raftVars, inputVars>>
    BY <1>6 DEF ApplyConfChange
  <2>2. t \in Tx /\ Nil \notin Tx
    <3>1. NextEntry(n) \in LogEntry
      BY <2>1, ReadEntry
    <3>2. NextEntry(n).blk.data \in Seq(Tx) /\ NextEntry(n).blk.data # << >>
      BY <2>1, <3>1 DEF LogEntry, Block, Tx
    <3>3. 1 \in 1 .. Len(NextEntry(n).blk.data)
      BY <3>2, EmptySeq
    <3>4. Nil \notin Tx
      BY ChainAssumption DEF Tx
    <3> QED  BY <3>2, <3>3, <3>4, ElementOfSeq
  <2>3. c \in Chain /\ SameLead(c, o) /\ Current(n, c, q)
    BY <1>1, <2>1
  <2> HIDE DEF c, t
  <2>4. f \in Chain /\ SameLead(f, c) /\ f.last = c.last
    BY <2>2, <2>3 DEF Chain, SameLead
  <2>5. IF c.confChange # t THEN SameConfig(f, c) ELSE f.confChange = Nil /\ ~Free(c.last)
    <3>1. CASE c.confChange # t
      BY <2>2, <2>3, <3>1 DEF Chain, SameConfig
    <3>2. CASE c.confChange = t
      <4>1. f.confChange = Nil
        BY <2>2, <2>3, <3>2 DEF Chain
      <4>2. ~Free(c.last)
        BY <2>2, <2>3, <3>2 DEF Current
      <4> QED  BY <3>2, <4>1, <4>2
    <3> QED  BY <3>1, <3>2
  <2> HIDE DEF f
  <2>6. Current(n, f, q)
    <3>1. CASE c.confChange # t
      BY <2>3, <2>4, <2>5, <3>1, LaterCurrent
    <3>2. CASE c.confChange = t
      BY <2>3, <2>4, <2>5, <3>2 DEF Current, SameLead, Serving
    <3> QED  BY <3>1, <3>2
  <2>7. SameLead(f, o)
    BY <2>3, <2>4 DEF SameLead
  <2> QED  BY <1>2, <2>1, <2>4, <2>6, <2>7
<1> QED  BY <1>3, <1>4, <1>5, <1>6 DEF Apply

(* Catching up changes nothing but the last block, and the ledger grows.   *)
LEMMA CatchUpConfig ==
  ASSUME IInv, NEW n \in Node, NEW c \in Chain, NEW e \in Written, CatchUp(n, c, e)
  PROVE  /\ \E X : /\ chain' = [chain EXCEPT ![n] = X]
                   /\ SameLead(X, c) /\ SameConfig(X, c)
         /\ Len(ledger[n]) <= Len(ledger'[n])
<1> DEFINE Z(es) == [c EXCEPT !.last = Last(es).blk]
           W == {es \in Seq(Written) : ledger' = [ledger EXCEPT ![n] = ledger[n] \o es]}
<1>0. /\ ledger \in [Node -> Seq(Written)] /\ ledger[n] \in Seq(Written)
      /\ Len(ledger[n]) \in Nat /\ e.blk.num \in Nat /\ c.last.num \in Nat
  <2>1. ledger \in [Node -> Seq(Written)]
    BY DEF IInv, Types
  <2>2. ledger[n] \in Seq(Written) /\ Len(ledger[n]) \in Nat
    BY <2>1, LenProperties
  <2> QED  BY <2>1, <2>2 DEF Written, Chain, Block
<1>1. \A es : SameLead(Z(es), c) /\ SameConfig(Z(es), c)
  BY DEF Chain, SameLead, SameConfig
<1>2. ASSUME NEW es \in W PROVE Len(ledger[n]) <= Len(ledger'[n])
  <2>1. ledger'[n] = ledger[n] \o es /\ es \in Seq(Written) /\ Len(es) \in Nat
    BY <1>0, LenProperties
  <2>2. Len(ledger[n] \o es) = Len(ledger[n]) + Len(es)
    BY <1>0, <2>1, ConcatProperties
  <2> QED  BY <1>0, <2>1, <2>2
<1> HIDE DEF Z
<1>3. CASE chain' = [chain EXCEPT ![n] = c] /\ UNCHANGED ledger
  <2>1. SameLead(c, c) /\ SameConfig(c, c)
    BY DEF SameLead, SameConfig
  <2>2. Len(ledger[n]) <= Len(ledger'[n])
    BY <1>0, <1>3
  <2> QED  BY <1>3, <2>1, <2>2, Zenon
<1>4. ASSUME NEW es \in Seq(Written), WriteBlocks(n, es), chain' = [chain EXCEPT ![n] = Z(es)]
      PROVE  /\ \E X : /\ chain' = [chain EXCEPT ![n] = X]
                       /\ SameLead(X, c) /\ SameConfig(X, c)
             /\ Len(ledger[n]) <= Len(ledger'[n])
  <2>1. es \in W
    BY <1>4 DEF WriteBlocks
  <2> HIDE DEF W
  <2> QED  BY <1>1, <1>2, <1>4, <2>1
<1>5. CASE WriteBlocks(n, <<e>>) /\ chain' = [chain EXCEPT ![n] = Z(<<e>>)]
  <2>1. <<e>> \in Seq(Written)
    OBVIOUS
  <2> HIDE DEF W
  <2> QED  BY <1>4, <1>5, <2>1
<1>6. ASSUME NEW m \in Node, Len(ledger[m]) > e.blk.num,
             WriteBlocks(n, SubSeq(ledger[m], c.last.num + 2, e.blk.num + 1)),
             chain' = [chain EXCEPT ![n] = Z(SubSeq(ledger[m], c.last.num + 2, e.blk.num + 1))]
      PROVE  /\ \E X : /\ chain' = [chain EXCEPT ![n] = X]
                       /\ SameLead(X, c) /\ SameConfig(X, c)
             /\ Len(ledger[n]) <= Len(ledger'[n])
  <2> DEFINE es == SubSeq(ledger[m], c.last.num + 2, e.blk.num + 1)
  <2>1. es \in Seq(Written)
    <3>1. ledger[m] \in Seq(Written) /\ Len(ledger[m]) \in Nat
      BY <1>0, LenProperties
    <3>2. \A i \in c.last.num + 2 .. e.blk.num + 1 : ledger[m][i] \in Written
      <4>1. \A i \in c.last.num + 2 .. e.blk.num + 1 : i \in 1 .. Len(ledger[m])
        <5>1. ASSUME NEW x \in Nat, NEW y \in Nat, NEW z \in Nat, z > y, NEW i \in x + 2 .. y + 1
              PROVE  i \in 1 .. z
          BY <5>1
        <5> QED  BY <1>0, <1>6, <3>1, <5>1, Zenon
      <4> QED  BY <3>1, <4>1, ElementOfSeq
    <3>3. c.last.num + 2 \in Int /\ e.blk.num + 1 \in Int
      BY <1>0
    <3> QED  BY <3>2, <3>3, SubSeqProperties
  <2> HIDE DEF es, W
  <2> QED  BY <1>4, <1>6, <2>1 DEF es
<1> QED  BY <1>3, <1>5, <1>6 DEF CatchUp, Z

(* A node that has caught up.                                              *)
LEMMA CaughtUpCurrent ==
  ASSUME IInv, IInv', OutdatedInv, NEW n \in Node, NEW c \in Chain, NEW e \in Written,
         SameLead(c, chain[n]), SameConfig(c, chain[n]), committed' = committed,
         CatchUp(n, c, e) \/ (chain' = [chain EXCEPT ![n] = c] /\ UNCHANGED ledger)
  PROVE  /\ chain'[n].propC = chain[n].propC /\ Current(n, chain'[n], cutter[n].msgs)
         /\ \A m \in Node \ {n} : chain'[m] = chain[m]
<1>0. Types /\ Current(n, chain[n], cutter[n].msgs)
  BY OutdatedParts
<1>1. /\ \E X : /\ chain' = [chain EXCEPT ![n] = X]
                /\ SameLead(X, c) /\ SameConfig(X, c)
      /\ Len(ledger[n]) <= Len(ledger'[n])
  <2>1. CASE CatchUp(n, c, e)
    BY <2>1, CatchUpConfig
  <2>2. CASE chain' = [chain EXCEPT ![n] = c] /\ UNCHANGED ledger
    <3>1. SameLead(c, c) /\ SameConfig(c, c)
      BY DEF SameLead, SameConfig
    <3>2. Len(ledger[n]) <= Len(ledger'[n])
      BY <2>2, LastBlock
    <3> QED  BY <2>2, <3>1, <3>2, Zenon
  <2> QED  BY <2>1, <2>2
<1>2. PICK X : chain' = [chain EXCEPT ![n] = X] /\ SameLead(X, c) /\ SameConfig(X, c)
  BY <1>1
<1>3. chain'[n] = X /\ \A m \in Node \ {n} : chain'[m] = chain[m]
  BY <1>0, <1>2 DEF Types
<1>4. SameLead(X, chain[n]) /\ SameConfig(X, chain[n])
  BY <1>2 DEF SameLead, SameConfig
<1>5. Free(X.last) => Free(chain[n].last)
  BY <1>1, <1>3, LaterLast
<1>6. Current(n, X, cutter[n].msgs)
  BY <1>0, <1>4, <1>5, LaterCurrent
<1> QED  BY <1>3, <1>4, <1>6 DEF SameLead

LEMMA SuspectEvictionClean ==
  ASSUME IInv, IInv', OutdatedInv, NEW n \in Node, SuspectEviction(n)
  PROVE  OutdatedInv'
<1>0. /\ LogClean(log[n]) /\ QueueClean(chain[n].propC)
      /\ cutter[n].msgs \in Seq(Plain) /\ outbox[n] \in DatedBatches
      /\ (\A r \in net : r.batches \in DatedBatches)
      /\ Types /\ chain[n] \in Chain
  BY OutdatedParts
<1>1. PICK m \in Node : \E k \in DOMAIN ledger[m] :
        CatchUp(n, chain[n], ledger[m][k]) /\ UNCHANGED <<mode, raftVars, inputVars>>
  BY DEF SuspectEviction
<1>2. PICK k \in DOMAIN ledger[m] :
        CatchUp(n, chain[n], ledger[m][k]) /\ UNCHANGED <<mode, raftVars, inputVars>>
  BY <1>1
<1>3. ledger[m][k] \in Written
  <2>1. ledger[m] \in Seq(Written)
    BY <1>0 DEF Types
  <2> QED  BY <2>1, ElementOfSeq, LenProperties
<1>4. UNCHANGED <<mode, log, committed, cutter, outbox, net>>
  BY <1>2 DEF raftVars, inputVars
<1>5. SameLead(chain[n], chain[n]) /\ SameConfig(chain[n], chain[n])
  BY DEF SameLead, SameConfig
<1>6. /\ chain'[n].propC = chain[n].propC /\ Current(n, chain'[n], cutter[n].msgs)
      /\ \A i \in Node \ {n} : chain'[i] = chain[i]
  BY <1>0, <1>2, <1>3, <1>4, <1>5, CaughtUpCurrent
<1> QED  BY <1>0, <1>4, <1>6, OutdatedFrame

LEMMA InstallSnapshotClean ==
  ASSUME IInv, IInv', OutdatedInv, NEW n \in Node, InstallSnapshot(n)
  PROVE  OutdatedInv'
<1>0. /\ QueueClean(chain[n].propC) /\ cutter[n].msgs \in Seq(Plain) /\ outbox[n] \in DatedBatches
      /\ LogClean(committed) /\ (\A r \in net : r.batches \in DatedBatches)
      /\ Types /\ chain[n] \in Chain
  BY OutdatedParts
<1>1. PICK l \in Node \ {n} :
        LET s == [snap[l] EXCEPT !.conf = chain[l].conf]
        IN  /\ s.idx > chain[n].read
            /\ log' = [log EXCEPT ![n] = SubSeq(committed, 1, s.idx)]
            /\ raft' = [raft EXCEPT ![n] = [@ EXCEPT !.role = "follower", !.lead = l, !.term = term]]
            /\ snap' = [snap EXCEPT ![n] = s]
            /\ HandleSnapshot(n, [chain[n] EXCEPT !.read = s.idx, !.conf = s.conf], s)
            /\ UNCHANGED <<mode, term, committed, inputVars, crashes, snaps>>
  BY ZenonT(30) DEF InstallSnapshot
<1> DEFINE s == [snap[l] EXCEPT !.conf = chain[l].conf]
           c == [chain[n] EXCEPT !.read = s.idx, !.conf = s.conf]
           t == SubSeq(committed, 1, s.idx)
           e == [blk |-> s.blk, idx |-> 0]
<1>2. /\ log' = [log EXCEPT ![n] = t] /\ HandleSnapshot(n, c, s)
      /\ UNCHANGED <<mode, committed, cutter, outbox, net>>
  BY <1>1 DEF inputVars
<1>3. s.idx \in Nat /\ s.idx <= Len(committed) /\ s.conf \subseteq Tx /\ s.blk \in Block
  <2>1. snap[l] \in Snapshot /\ chain[l] \in Chain /\ SnapshotOK(committed, snap[l])
    BY <1>0 DEF Types, IInv, WriteInv, IndexOK, Indexed
  <2> QED  BY <2>1 DEF Snapshot, Chain, SnapshotOK
<1> HIDE DEF s
<1>4. c \in Chain /\ SameLead(c, chain[n]) /\ SameConfig(c, chain[n]) /\ e \in Written
  BY <1>0, <1>3 DEF Chain, SameLead, SameConfig, Written
<1> HIDE DEF c, e
<1>5. /\ chain'[n].propC = chain[n].propC /\ Current(n, chain'[n], cutter[n].msgs)
      /\ \A m \in Node \ {n} : chain'[m] = chain[m]
  <2>1. CASE chain' = [chain EXCEPT ![n] = c] /\ UNCHANGED ledger
    BY <1>2, <1>4, <2>1, CaughtUpCurrent
  <2>2. CASE CatchUp(n, [c EXCEPT !.applied = s.idx], e)
    <3> DEFINE d == [c EXCEPT !.applied = s.idx]
    <3>1. d \in Chain /\ SameLead(d, c) /\ SameConfig(d, c)
      BY <1>3, <1>4 DEF Chain, SameLead, SameConfig
    <3> HIDE DEF d
    <3>2. SameLead(d, chain[n]) /\ SameConfig(d, chain[n])
      BY <1>4, <3>1 DEF SameLead, SameConfig
    <3>3. CatchUp(n, d, e)
      BY <2>2 DEF d
    <3> QED  BY <1>2, <1>4, <3>1, <3>2, <3>3, CaughtUpCurrent
  <2> QED  BY <1>2, <2>1, <2>2 DEF HandleSnapshot, e
<1>6. LogClean(t)
  <2>1. committed \in Seq(LogEntry) /\ Len(committed) \in Nat /\ DOMAIN committed = 1 .. Len(committed)
    BY <1>0, LenProperties DEF Types
  <2>2. DOMAIN t = 1 .. s.idx /\ \A i \in 1 .. s.idx : t[i] = committed[i]
    <3>1. Len(t) = s.idx /\ (\A i \in 1 .. s.idx : t[i] = committed[1 + i - 1]) /\ t \in Seq(LogEntry)
      BY <1>3, <2>1, SubSeqProperties
    <3>2. DOMAIN t = 1 .. Len(t)
      BY <3>1, LenProperties
    <3> HIDE DEF t
    <3> QED  BY <1>3, <3>1, <3>2
  <2> HIDE DEF t
  <2> QED  BY <1>0, <1>3, <2>1, <2>2 DEF LogClean
<1> HIDE DEF t
<1>7. /\ log'[n] = t /\ \A m \in Node \ {n} : log'[m] = log[m]
  BY <1>0, <1>2 DEF Types
<1> QED  BY <1>0, <1>2, <1>5, <1>6, <1>7, OutdatedFrame

LEMMA ProposeClean ==
  ASSUME IInv, OutdatedInv, NEW n \in Node, Propose(n)
  PROVE  OutdatedInv'
<1> DEFINE c == chain[n]
           q == c.propC
           b == Head(q)
           d == [c EXCEPT !.propC = Tail(q)]
           f == [d EXCEPT !.proposer = "quit"]
           e == Entry(raft[n].term, "block", b, chain[n].conf)
<1>0. /\ LogClean(log[n]) /\ QueueClean(q)
      /\ cutter[n].msgs \in Seq(Plain) /\ outbox[n] \in DatedBatches
      /\ Current(n, c, cutter[n].msgs) /\ (\A r \in net : r.batches \in DatedBatches)
      /\ Types /\ c \in Chain /\ log[n] \in Seq(LogEntry)
  BY OutdatedParts
<1>1. /\ q # << >> /\ UNCHANGED <<mode, committed, cutter, outbox, net>>
      /\ \/ log' = [log EXCEPT ![n] = Append(log[n], e)] /\ chain' = [chain EXCEPT ![n] = d]
         \/ log' = log /\ chain' = [chain EXCEPT ![n] = f]
  BY <1>0 DEF Propose, inputVars, Chain
<1>2. q \in Seq(Block)
  BY <1>0 DEF Chain
<1>3. /\ b \in Block /\ b = q[1] /\ Tail(q) \in Seq(Block) /\ Len(Tail(q)) = Len(q) - 1
      /\ (\A i \in 1 .. Len(Tail(q)) : Tail(q)[i] = q[i + 1]) /\ Len(q) \in Nat /\ Len(q) >= 1
      /\ DOMAIN q = 1 .. Len(q) /\ DOMAIN Tail(q) = 1 .. Len(Tail(q))
  <2>1. Len(q) \in Nat /\ DOMAIN q = 1 .. Len(q) /\ Len(q) # 0
    BY <1>1, <1>2, LenProperties, EmptySeq
  <2>2. 1 \in 1 .. Len(q)
    BY <2>1
  <2>3. b = q[1] /\ b \in Block
    BY <1>2, <2>2, ElementOfSeq DEF b
  <2> HIDE DEF q
  <2>4. Tail(q) \in Seq(Block) /\ Len(Tail(q)) = Len(q) - 1
        /\ \A i \in 1 .. Len(Tail(q)) : Tail(q)[i] = q[i + 1]
    BY <1>1, <1>2, HeadTailProperties
  <2>5. DOMAIN Tail(q) = 1 .. Len(Tail(q))
    BY <2>4, LenProperties
  <2> QED  BY <2>1, <2>2, <2>3, <2>4, <2>5
<1>4. /\ d.propC = Tail(q) /\ f.propC = Tail(q)
      /\ Current(n, d, cutter[n].msgs) /\ Current(n, f, cutter[n].msgs)
  <2> DEFINE z == Tail(q)
  <2>1. z \in Seq(Block)
    BY <1>3
  <2>2. d = [c EXCEPT !.propC = z]
    OBVIOUS
  <2> HIDE DEF z, d
  <2>3. /\ d \in Chain /\ d.propC = z /\ SameConfig(d, c) /\ d.last = c.last
        /\ d.lead = c.lead /\ d.justElected = c.justElected /\ d.open = c.open /\ d.bc = c.bc
    BY <1>0, <2>1, <2>2 DEF Chain, SameConfig
  <2>4. Current(n, d, cutter[n].msgs)
    BY <1>0, <2>3 DEF Current, SameConfig, Serving
  <2>5. f.propC = z /\ SameLead(f, d) /\ SameConfig(f, d) /\ f.last = d.last
    BY <2>3 DEF Chain, SameLead, SameConfig
  <2> HIDE DEF f
  <2>6. Current(n, f, cutter[n].msgs)
    BY <2>4, <2>5, LaterCurrent
  <2> QED  BY <2>3, <2>4, <2>5, <2>6 DEF z
<1>5. e \in LogEntry /\ e.type = "block" /\ e.blk = b
  <2>1. raft[n].term \in Nat
    BY <1>0, ChainAssumption DEF Types
  <2>2. chain[n].conf \in SUBSET Tx
    BY <1>0 DEF Chain
  <2> HIDE DEF b
  <2> QED  BY <1>3, <2>1, <2>2, EntryType
<1> HIDE DEF b, d, f, e, q
<1>6. Clean(b)
  BY <1>0, <1>3 DEF QueueClean
<1>7. QueueClean(Tail(q))
  <2> SUFFICES ASSUME NEW i \in DOMAIN Tail(q) PROVE Clean(Tail(q)[i])
    BY DEF QueueClean
  <2>1. i + 1 \in DOMAIN q /\ Tail(q)[i] = q[i + 1]
    BY <1>3
  <2> QED  BY <1>0, <2>1 DEF QueueClean
<1>8. LogClean(Append(log[n], e))
  BY <1>0, <1>5, <1>6, LogCleanMore
<1>9. /\ LogClean(log'[n]) /\ QueueClean(chain'[n].propC) /\ Current(n, chain'[n], cutter[n].msgs)
      /\ \A m \in Node \ {n} : log'[m] = log[m] /\ chain'[m] = chain[m]
  <2>1. CASE log' = [log EXCEPT ![n] = Append(log[n], e)] /\ chain' = [chain EXCEPT ![n] = d]
    BY <1>0, <1>4, <1>7, <1>8, <2>1 DEF Types
  <2>2. CASE log' = log /\ chain' = [chain EXCEPT ![n] = f]
    BY <1>0, <1>4, <1>7, <2>2 DEF Types
  <2> QED  BY <1>1, <2>1, <2>2
<1> QED  BY <1>0, <1>1, <1>9, OutdatedFrame

LEMMA ProposeConfChangeClean ==
  ASSUME IInv, OutdatedInv, NEW n \in Node, ProposeConfChange(n)
  PROVE  OutdatedInv'
<1> DEFINE c == chain[n]
<1>0. /\ LogClean(log[n]) /\ QueueClean(c.propC)
      /\ cutter[n].msgs \in Seq(Plain) /\ outbox[n] \in DatedBatches
      /\ Current(n, c, cutter[n].msgs) /\ (\A r \in net : r.batches \in DatedBatches)
      /\ Types /\ c \in Chain /\ log[n] \in Seq(LogEntry)
  BY OutdatedParts
<1>1. PICK t \in c.confProps :
        /\ chain' = [chain EXCEPT ![n].confProps = @ \ {t}]
        /\ \/ log' = log
           \/ log' = [log EXCEPT ![n] = Append(@, Entry(raft[n].term, "empty", Genesis, {}))]
           \/ log' = [log EXCEPT ![n] =
                        Append(@, Entry(raft[n].term, "conf", [Genesis EXCEPT !.data = <<t>>], {}))]
        /\ UNCHANGED <<mode, term, committed, ledger, snap, inputVars, crashes, snaps>>
  BY DEF ProposeConfChange
<1>2. UNCHANGED <<mode, committed, cutter, outbox, net>>
  BY <1>1 DEF inputVars
<1>3. ASSUME NEW type \in {"empty", "conf"}, NEW b \in Block, b.data # << >> \/ type = "empty"
      PROVE  LogClean(Append(log[n], Entry(raft[n].term, type, b, {})))
  <2> DEFINE e == Entry(raft[n].term, type, b, {})
  <2>1. e \in LogEntry /\ e.type # "block"
    <3>1. raft[n].term \in Nat
      BY <1>0, ChainAssumption DEF Types
    <3> QED  BY <1>3, <3>1 DEF Entry, LogEntry
  <2> HIDE DEF e
  <2>2. LogClean(Append(log[n], e))
    BY <1>0, <2>1, LogCleanMore
  <2> QED  BY <2>2 DEF e
<1> DEFINE g == [Genesis EXCEPT !.data = <<t>>]
<1>4. Genesis \in Block /\ g \in Block /\ g.data # << >>
  <2>1. t \in Tx
    BY <1>0 DEF Chain
  <2>2. <<t>> \in Seq(Tx) /\ <<t>> # << >>
    BY <2>1
  <2> QED  BY <2>2, GenesisType DEF Genesis, Block, Tx
<1>5. \/ log' = log
      \/ log' = [log EXCEPT ![n] = Append(log[n], Entry(raft[n].term, "empty", Genesis, {}))]
      \/ log' = [log EXCEPT ![n] = Append(log[n], Entry(raft[n].term, "conf", g, {}))]
  BY <1>1
<1> HIDE DEF g
<1>6. /\ LogClean(log'[n]) /\ \A m \in Node \ {n} : log'[m] = log[m]
  <2>1. CASE log' = log
    BY <1>0, <2>1
  <2>2. CASE log' = [log EXCEPT ![n] = Append(log[n], Entry(raft[n].term, "empty", Genesis, {}))]
    <3>1. LogClean(Append(log[n], Entry(raft[n].term, "empty", Genesis, {})))
      BY <1>3, <1>4
    <3> QED  BY <1>0, <2>2, <3>1 DEF Types
  <2>3. CASE log' = [log EXCEPT ![n] = Append(log[n], Entry(raft[n].term, "conf", g, {}))]
    <3>1. LogClean(Append(log[n], Entry(raft[n].term, "conf", g, {})))
      BY <1>3, <1>4
    <3> QED  BY <1>0, <2>3, <3>1 DEF Types
  <2> QED  BY <1>5, <2>1, <2>2, <2>3
<1>7. /\ SameLead(chain'[n], c) /\ SameConfig(chain'[n], c) /\ chain'[n].last = c.last
      /\ \A m \in Node \ {n} : chain'[m] = chain[m]
  BY <1>0, <1>1 DEF Types, Chain, SameLead, SameConfig
<1>8. QueueClean(chain'[n].propC) /\ Current(n, chain'[n], cutter[n].msgs)
  BY <1>0, <1>7, LaterCurrent DEF SameLead
<1> QED  BY <1>0, <1>2, <1>6, <1>7, <1>8, OutdatedFrame

LEMMA RebootConfig ==
  ASSUME Types, NEW n \in Node, Reboot(n)
  PROVE  chain'[n].confChange = Nil
<1> DEFINE s == snap[n]
<1> HIDE DEF s
<1>1. PICK d \in OnDisk(n) :
        LET c == NewChain(Last(d), s)
        IN  IF s.idx <= c.applied \/ s.blk.num <= c.last.num
            THEN /\ chain' = [chain EXCEPT ![n] = [c EXCEPT !.applied =
                                                     IF s.idx <= @ THEN @ ELSE s.idx]]
                 /\ ledger' = [ledger EXCEPT ![n] = d]
            ELSE /\ chain' = [chain EXCEPT ![n] = [c EXCEPT !.applied = s.idx, !.last = s.blk]]
                 /\ ledger' = [ledger EXCEPT ![n] = Append(d, [blk |-> s.blk, idx |-> 0])]
  BY DEF Reboot, s
<1> DEFINE c == NewChain(Last(d), s)
           a == IF s.idx <= c.applied THEN c.applied ELSE s.idx
           A == [c EXCEPT !.applied = a]
           B == [c EXCEPT !.applied = s.idx, !.last = s.blk]
<1>2. [c EXCEPT !.applied = IF s.idx <= @ THEN @ ELSE s.idx] = A
  BY DEF NewChain
<1>3. chain' = [chain EXCEPT ![n] = A] \/ chain' = [chain EXCEPT ![n] = B]
  BY <1>1, <1>2
<1>4. A.confChange = Nil /\ B.confChange = Nil
  BY DEF NewChain
<1> HIDE DEF A, B
<1>5. chain'[n] = A \/ chain'[n] = B
  BY <1>3 DEF Types
<1> QED  BY <1>4, <1>5

LEMMA RebootClean ==
  ASSUME IInv, OutdatedInv, NEW n \in Node, Reboot(n), \A r \in net' : r.batches \in DatedBatches
  PROVE  OutdatedInv'
<1>0. LogClean(log[n]) /\ Types
  BY OutdatedParts
<1>1. PICK X : chain' = [chain EXCEPT ![n] = X] /\ X.propC = << >> /\ X.lead = Nil
  BY RebootChain
<1>2. /\ cutter' = [cutter EXCEPT ![n] = EmptyReceiver] /\ outbox' = [outbox EXCEPT ![n] = << >>]
      /\ UNCHANGED <<mode, log, committed>>
  BY DEF Reboot
<1>3. /\ chain'[n] = X /\ cutter'[n] = EmptyReceiver /\ outbox'[n] = << >>
      /\ \A m \in Node \ {n} : /\ chain'[m] = chain[m] /\ cutter'[m] = cutter[m]
                               /\ outbox'[m] = outbox[m]
  BY <1>0, <1>1, <1>2 DEF Types
<1>4. X.confChange = Nil
  BY <1>0, <1>3, RebootConfig
<1>5. ~Serving(n, X)
  BY <1>1, ChainAssumption DEF Serving
<1>6. Current(n, X, EmptyReceiver.msgs)
  BY <1>4, <1>5, IdleCurrent
<1> QED  BY <1>0, <1>1, <1>2, <1>3, <1>6, NoneOutdated, OutdatedFrame

(***************************************************************************)
(* A leader proposes. It holds an outdated update only while no            *)
(* configuration is in its last block or in flight.                        *)
(***************************************************************************)
LEMMA ProposeOrPanicClean ==
  ASSUME IInv, OutdatedInv, NEW n \in Node, Serving(n, chain[n]), NEW datas \in Seq(Seq(Tx)),
         NEW rest, rest.msgs \in Seq(Plain), NEW out, NEW o \in BOOLEAN,
         ProposeOrPanic(n, datas, [CreateBlocks(chain[n], datas) EXCEPT !.open = o], rest, out),
         InOrder(datas), \A i \in DOMAIN datas : HasOutdated(datas[i]) => Free(chain[n].bc),
         o => /\ chain[n].open
              /\ \/ ~CreateBlocks(chain[n], datas).configInflight
                 \/ \A i \in DOMAIN datas : ~IsConfigData(datas[i]),
         ~mode /\ (~Free(chain[n].bc) \/ \E i \in DOMAIN datas : IsConfigData(datas[i]))
            => \A i \in DOMAIN rest.msgs : rest.msgs[i].tx \notin Outdated,
         out[n] \in DatedBatches, \A m \in Node \ {n} : out[m] = outbox[m],
         \A r \in net' : r.batches \in DatedBatches
  PROVE  OutdatedInv'
<1> DEFINE c == chain[n]
           d == CreateBlocks(c, datas)
           X == [d EXCEPT !.open = o]
<1>0. /\ LogClean(log[n]) /\ QueueClean(c.propC) /\ Current(n, c, cutter[n].msgs)
      /\ Types /\ c \in Chain
  BY OutdatedParts
<1>1. CASE Reboot(n)
  BY <1>1, RebootClean
<1>2. CASE /\ chain' = [chain EXCEPT ![n] = X] /\ cutter' = [cutter EXCEPT ![n] = rest]
           /\ outbox' = out /\ UNCHANGED <<mode, raftVars, ledger, snap, snaps>>
  <2>1. c.bc \in Block
    <3>1. Leading(n, c, cutter[n].msgs)
      BY DEF IInv, LeaderInv, LeaderOK
    <3> QED  BY <1>0, <3>1 DEF Leading, Chain
  <2>2. /\ d \in Chain /\ SamePlace(d, c) /\ QueueClean(d.propC)
        /\ (c.configInflight => d.configInflight)
        /\ (Free(c.bc) => \/ Free(d.bc)
                          \/ /\ d.configInflight
                             /\ datas # << >> /\ IsConfigData(datas[Len(datas)]))
    BY <1>0, <2>1, CreateBlocksEffect, CreateBlocksClean
  <2>3. o => c.open /\ (~d.configInflight \/ \A i \in DOMAIN datas : ~IsConfigData(datas[i]))
    OBVIOUS
  <2>4. datas # << >> => Len(datas) \in DOMAIN datas
    BY EmptySeq, LenProperties
  <2> HIDE DEF d
  <2>5. X.propC = d.propC /\ X.last = c.last /\ X.lead = c.lead /\ X.justElected = c.justElected
        /\ X.open = o /\ X.bc = d.bc /\ X.configInflight = d.configInflight
        /\ X.confChange = c.confChange
    BY <2>2 DEF Chain, SamePlace
  <2> HIDE DEF X
  <2>6. ASSUME Free(c.last), ~Free(d.bc) PROVE d.configInflight /\ ~o
    <3>1. CASE Free(c.bc)
      BY <2>2, <2>3, <2>4, <2>6, <3>1
    <3>2. CASE ~Free(c.bc)
      <4>1. c.configInflight /\ ~c.open
        BY <1>0, <2>6, <3>2 DEF Current
      <4> QED  BY <2>2, <2>3, <4>1
    <3> QED  BY <3>1, <3>2
  <2>7. ASSUME ~mode, ~Free(d.bc) PROVE \A i \in DOMAIN rest.msgs : rest.msgs[i].tx \notin Outdated
    BY <2>2, <2>4, <2>7
  <2>8. Current(n, X, rest.msgs)
    BY <1>0, <2>5, <2>6, <2>7 DEF Current
  <2>9. /\ chain'[n] = X /\ cutter'[n] = rest
        /\ \A m \in Node \ {n} : chain'[m] = chain[m] /\ cutter'[m] = cutter[m]
    BY <1>0, <1>2 DEF Types
  <2>10. UNCHANGED <<mode, log, committed>> /\ outbox' = out
    BY <1>2 DEF raftVars
  <2> QED  BY <1>0, <2>2, <2>5, <2>8, <2>9, <2>10, OutdatedFrame
<1> QED  BY <1>1, <1>2 DEF ProposeOrPanic

(* What a leader that batches makes of a message.                          *)
LEMMA OrderedMessageFrom ==
  ASSUME NEW Good, NEW r \in Receiver, r.msgs \in Seq(Good), NEW m \in Good
  PROVE  /\ OrderedMessage(r, m).batches \in Seq(Seq(Good))
         /\ OrderedMessage(r, m).rest.msgs \in Seq(Good)
<1>1. CASE m.tx \in ConfigTx
  <2> DEFINE G == Seq(Good)
  <2>1. /\ OrderedMessage(r, m).batches = Append(PendingBatches(r), <<m>>)
        /\ OrderedMessage(r, m).rest.msgs = << >>
    BY <1>1 DEF OrderedMessage, EmptyReceiver
  <2>2. << >> \in G /\ <<m>> \in G /\ r.msgs \in G
    OBVIOUS
  <2> HIDE DEF G
  <2>3. PendingBatches(r) \in Seq(G)
    BY <2>2 DEF PendingBatches
  <2>4. Append(PendingBatches(r), <<m>>) \in Seq(G)
    BY <2>2, <2>3, AppendProperties
  <2> QED  BY <2>1, <2>2, <2>4 DEF G
<1>2. CASE m.tx \notin ConfigTx
  <2>1. OrderedMessage(r, m) = Ordered(r, m)
    BY <1>2 DEF OrderedMessage
  <2> QED  BY <2>1, OrderedFrom
<1> QED  BY <1>1, <1>2

Unaffected == {m \in Messages : m.tx \notin Outdated}

LEMMA UnaffectedData ==
  ASSUME NEW q \in Seq(Unaffected)
  PROVE  ~HasOutdated(Txs(q)) /\ \A i \in DOMAIN q : q[i].tx \notin Outdated
<1>1. ASSUME NEW i \in DOMAIN q PROVE q[i].tx \notin Outdated
  <2>1. q[i] \in Unaffected
    BY ElementOfSeq, LenProperties
  <2> QED  BY <2>1 DEF Unaffected
<1> QED  BY <1>1 DEF HasOutdated, Txs

LEMMA ToUnaffected ==
  ASSUME NEW q \in Seq(Plain), \A i \in DOMAIN q : q[i].tx \notin Outdated
  PROVE  q \in Seq(Unaffected)
<1>1. q \in Seq(Messages) /\ Len(q) \in Nat /\ DOMAIN q = 1 .. Len(q)
  BY PlainIsDated, LenProperties
<1>2. \A i \in 1 .. Len(q) : q[i] \in Unaffected
  BY <1>1, ElementOfSeq DEF Unaffected
<1>3. q \in [1 .. Len(q) -> Messages]
  BY <1>1, LenProperties
<1>4. q \in [1 .. Len(q) -> Unaffected]
  BY <1>2, <1>3
<1> QED  BY <1>1, <1>4, IsASeq

LEMMA ServedData ==
  ASSUME NEW c \in Chain, NEW w \in Receiver, w.msgs \in Seq(Plain), NEW m \in Dated,
         StillValid(c, m), Free(c.last) => Free(c.bc),
         ~Free(c.bc) => \A i \in DOMAIN w.msgs : w.msgs[i].tx \notin Outdated,
         NEW ds, ds = [i \in DOMAIN OrderedMessage(w, m).batches |-> Txs(OrderedMessage(w, m).batches[i])]
  PROVE  /\ InOrder(ds) /\ \A i \in DOMAIN ds : HasOutdated(ds[i]) => Free(c.bc)
         /\ ~Free(c.bc) \/ (\E i \in DOMAIN ds : IsConfigData(ds[i])) =>
              \A i \in DOMAIN OrderedMessage(w, m).rest.msgs :
                 OrderedMessage(w, m).rest.msgs[i].tx \notin Outdated
<1> DEFINE bs == OrderedMessage(w, m).batches
           q  == OrderedMessage(w, m).rest.msgs
<1>1. bs \in DatedBatches /\ q \in Seq(Plain)
  BY OrderedMessageDated
<1>2. ASSUME ~Free(c.bc) PROVE bs \in Seq(Seq(Unaffected)) /\ q \in Seq(Unaffected)
  <2>1. w.msgs \in Seq(Unaffected)
    BY <1>2, ToUnaffected
  <2>2. m \in Unaffected
    BY <1>2, ValidOutdated DEF Dated, Unaffected
  <2> QED  BY <2>1, <2>2, OrderedMessageFrom
<1>3. m.tx \in ConfigTx => q = << >>
  BY DEF OrderedMessage, EmptyReceiver
<1>4. m.tx \notin ConfigTx => bs \in Seq(Seq(Plain))
  <2> SUFFICES ASSUME m.tx \notin ConfigTx PROVE bs \in Seq(Seq(Plain))
    OBVIOUS
  <2>1. m \in Plain
    BY DEF Plain
  <2> QED  BY <2>1, OrderedMessageFrom
<1> HIDE DEF bs, q
<1>5. ds = [i \in DOMAIN bs |-> Txs(bs[i])]
  BY DEF bs
<1>6. InOrder(ds)
  BY <1>1, <1>5, BatchesInOrder
<1>7. ASSUME NEW i \in DOMAIN ds, HasOutdated(ds[i]) PROVE Free(c.bc)
  <2> SUFFICES ASSUME ~Free(c.bc) PROVE FALSE
    OBVIOUS
  <2> DEFINE U == Seq(Unaffected)
  <2>1. bs \in Seq(U) /\ i \in DOMAIN bs /\ ds[i] = Txs(bs[i])
    BY <1>2, <1>5
  <2> HIDE DEF U
  <2>2. bs[i] \in U
    BY <2>1, ElementOfSeq, LenProperties
  <2>3. ~HasOutdated(Txs(bs[i]))
    BY <2>2, UnaffectedData DEF U
  <2> QED  BY <1>7, <2>1, <2>3
<1>8. ASSUME NEW i \in DOMAIN ds, IsConfigData(ds[i]) PROVE q = << >>
  <2>1. CASE m.tx \in ConfigTx
    BY <1>3, <2>1
  <2>2. CASE m.tx \notin ConfigTx
    <3> DEFINE P == Seq(Plain)
    <3>1. bs \in Seq(P) /\ i \in DOMAIN bs /\ ds[i] = Txs(bs[i])
      BY <1>4, <1>5, <2>2
    <3> HIDE DEF P
    <3>2. bs[i] \in P
      BY <3>1, ElementOfSeq, LenProperties
    <3>3. ~IsConfigData(Txs(bs[i]))
      BY <3>2, PlainData DEF P
    <3> QED  BY <1>8, <3>1, <3>3
  <2> QED  BY <2>1, <2>2
<1>9. ASSUME ~Free(c.bc) \/ \E i \in DOMAIN ds : IsConfigData(ds[i])
      PROVE  \A i \in DOMAIN q : q[i].tx \notin Outdated
  <2>1. CASE ~Free(c.bc)
    BY <1>2, <2>1, UnaffectedData
  <2>2. CASE \E i \in DOMAIN ds : IsConfigData(ds[i])
    <3>1. q = << >>
      BY <1>8, <2>2
    <3> QED  BY <3>1
  <2> QED  BY <1>9, <2>1, <2>2
<1> QED  BY <1>6, <1>7, <1>9 DEF q

LEMMA SubmitClean ==
  ASSUME IInv, OutdatedInv, NEW n \in Node, NEW batches \in Batches \ {<< >>},
         batches \in DatedBatches, NEW rest, \A i \in rest : i.batches \in DatedBatches,
         NEW out, out[n] \in DatedBatches, \A m \in Node \ {n} : out[m] = outbox[m],
         Submit(n, batches, rest, out)
  PROVE  OutdatedInv'
<1> DEFINE c == chain[n]
<1>0. /\ LogClean(log[n]) /\ QueueClean(c.propC) /\ cutter[n].msgs \in Seq(Plain)
      /\ Current(n, c, cutter[n].msgs)
      /\ Types /\ c \in Chain /\ cutter[n] \in Receiver /\ c.open
  BY OutdatedParts DEF Submit
<1>1. CASE c.lead = n
  <2>1. ServeSubmit(n, batches, out) /\ net' = rest
    BY <1>1 DEF Submit
  <2>2. Serving(n, c)
    <3>1. Leading(n, c, cutter[n].msgs)
      BY DEF IInv, LeaderInv, LeaderOK
    <3> QED  BY <1>0, <1>1, <3>1 DEF Leading, Serving, Chain
  <2> DEFINE m == batches[1][1]
             r == IF StillValid(c, m) THEN OrderedMessage(cutter[n], m)
                  ELSE [batches |-> << >>, rest |-> cutter[n]]
             ds == [i \in DOMAIN r.batches |-> Txs(r.batches[i])]
             datas == IF mode THEN ValidData(c, batches) ELSE ds
             q == IF mode THEN cutter[n] ELSE r.rest
             d == CreateBlocks(c, datas)
             o == ~d.configInflight /\ d.blockInflight < MaxInflightBlocks
  <2>3. ProposeOrPanic(n, datas, [d EXCEPT !.open = o], q, out)
    BY <2>1 DEF ServeSubmit, AfterSubmit
  <2>4. m \in Dated /\ m \in Messages /\ batches \in Seq(Seq(Messages))
    <3>1. batches \in Seq(Seq(Messages)) /\ batches # << >> /\ \A i \in DOMAIN batches : batches[i] # << >>
      BY DEF Batches
    <3>2. 1 \in 1 .. Len(batches) /\ DOMAIN batches = 1 .. Len(batches)
      BY <3>1, EmptySeq, LenProperties
    <3> DEFINE D == Seq(Dated)
    <3>3. batches \in Seq(D)
      BY DEF DatedBatches
    <3> HIDE DEF D
    <3>4. batches[1] \in D /\ batches[1] # << >>
      BY <3>1, <3>2, <3>3, ElementOfSeq
    <3>5. batches[1] \in Seq(Dated)
      BY <3>4 DEF D
    <3>6. 1 \in 1 .. Len(batches[1])
      BY <3>4, <3>5, EmptySeq
    <3>7. m \in Dated
      BY <3>5, <3>6, ElementOfSeq
    <3> QED  BY <3>1, <3>7, PlainIsDated
  <2>5. /\ Free(c.last) => Free(c.bc)
        /\ ~mode /\ ~Free(c.bc) => \A i \in DOMAIN cutter[n].msgs : cutter[n].msgs[i].tx \notin Outdated
    BY <1>0, <2>2 DEF Current
  <2> HIDE DEF m
  <2>6. r.batches \in Batches /\ r.rest \in Receiver /\ r.rest.msgs \in Seq(Plain)
    <3>1. CASE StillValid(c, m)
      BY <1>0, <2>4, <3>1, OrderedMessageType, OrderedMessageDated
    <3>2. CASE ~StillValid(c, m)
      BY <1>0, <3>2, NoBatch
    <3> QED  BY <3>1, <3>2
  <2>7. ds \in Seq(Seq(Tx))
    <3> HIDE DEF r
    <3> QED  BY <2>6, DataOfBatches
  <2>8. ASSUME ~mode
        PROVE  /\ InOrder(ds) /\ (\A i \in DOMAIN ds : HasOutdated(ds[i]) => Free(c.bc))
               /\ (~Free(c.bc) \/ (\E i \in DOMAIN ds : IsConfigData(ds[i])) =>
                     \A i \in DOMAIN r.rest.msgs : r.rest.msgs[i].tx \notin Outdated)
    <3>1. CASE StillValid(c, m)
      <4>1. r = OrderedMessage(cutter[n], m)
        BY <3>1
      <4> HIDE DEF r
      <4>2. ds = [i \in DOMAIN OrderedMessage(cutter[n], m).batches |->
                     Txs(OrderedMessage(cutter[n], m).batches[i])]
        BY <4>1
      <4> HIDE DEF ds
      <4> QED  BY <1>0, <2>4, <2>5, <2>8, <3>1, <4>1, <4>2, ServedData
    <3>2. CASE ~StillValid(c, m)
      <4>1. r = [batches |-> << >>, rest |-> cutter[n]]
        BY <3>2
      <4> HIDE DEF r
      <4>2. r.batches = << >> /\ r.rest = cutter[n]
        BY <4>1
      <4>3. DOMAIN ds = {}
        BY <4>2
      <4> HIDE DEF ds
      <4> QED  BY <2>5, <2>8, <4>2, <4>3 DEF InOrder
    <3> QED  BY <3>1, <3>2
  <2> HIDE DEF r, ds
  <2>9. /\ datas \in Seq(Seq(Tx)) /\ InOrder(datas)
        /\ \A i \in DOMAIN datas : HasOutdated(datas[i]) => Free(c.bc)
    <3>1. CASE mode
      <4>1. datas = ValidData(c, batches)
        BY <3>1
      <4> HIDE DEF datas
      <4>2. ValidData(c, batches) \in Seq(Seq(Tx))
        BY <2>4, ValidDataType
      <4>3. /\ InOrder(ValidData(c, batches))
            /\ \A i \in DOMAIN ValidData(c, batches) :
                  HasOutdated(ValidData(c, batches)[i]) => Free(c.last)
        BY <1>0, ValidDataClean
      <4> QED  BY <2>5, <4>1, <4>2, <4>3
    <3>2. CASE ~mode
      BY <2>7, <2>8, <3>2
    <3> QED  BY <3>1, <3>2
  <2>10. ~mode /\ (~Free(c.bc) \/ \E i \in DOMAIN datas : IsConfigData(datas[i]))
           => \A i \in DOMAIN q.msgs : q.msgs[i].tx \notin Outdated
    BY <2>8
  <2>11. q.msgs \in Seq(Plain)
    BY <1>0, <2>6
  <2>12. /\ o \in BOOLEAN /\ (\A i \in net' : i.batches \in DatedBatches)
         /\ (o => /\ c.open
                  /\ \/ ~d.configInflight
                     \/ \A i \in DOMAIN datas : ~IsConfigData(datas[i]))
    BY <1>0, <2>1
  <2> HIDE DEF q, o, datas
  <2> QED  BY <2>2, <2>3, <2>9, <2>10, <2>11, <2>12, ProposeOrPanicClean
<1>2. CASE c.lead # n
  <2>1. /\ net' = rest \cup (IF c.lead = Nil THEN {} ELSE {[to |-> c.lead, batches |-> batches]})
        /\ outbox' = out /\ UNCHANGED <<mode, log, committed, chain, cutter>>
    BY <1>2 DEF Submit, raftVars
  <2>2. \A i \in net' : i.batches \in DatedBatches
    BY <2>1
  <2> QED  BY <1>0, <2>1, <2>2, OutdatedFrame
<1> QED  BY <1>1, <1>2

(* A node accepts an outdated update only before any configuration.        *)
LEMMA MessageDated ==
  ASSUME IInv, NEW n \in Node, NEW t \in unsent, Accepts(chain[n], t)
  PROVE  Message(n, t) \in Dated
<1>1. chain[n] \in Chain /\ t \in Tx
  BY DEF IInv, Types
<1>2. Sequence(chain[n]) \in Nat
  BY <1>1, SequenceType
<1> QED  BY <1>1, <1>2 DEF Message, Dated, Messages, Accepts

LEMMA InputClean ==
  ASSUME IInv, OutdatedInv, NEW n \in Node, Input(n)
  PROVE  OutdatedInv'
<1> DEFINE c == chain[n]
<1>0. /\ LogClean(log[n]) /\ QueueClean(c.propC)
      /\ cutter[n].msgs \in Seq(Plain) /\ outbox[n] \in DatedBatches
      /\ Current(n, c, cutter[n].msgs) /\ (\A i \in net : i.batches \in DatedBatches)
      /\ Types /\ c \in Chain /\ cutter[n] \in Receiver /\ outbox[n] \in Batches
  BY OutdatedParts
<1>1. ASSUME NEW msgs, mode PROVE Current(n, c, msgs)
  BY <1>0, <1>1 DEF Current
<1>2. CASE Order(n)
  <2>1. PICK t \in unsent : Accepts(c, t) /\ Submit(n, <<<<Message(n, t)>>>>, net, outbox)
    BY <1>2 DEF Order
  <2> DEFINE m == Message(n, t)
             bs == <<<<m>>>>
  <2>2. m \in Dated /\ m \in Messages
    BY <2>1, MessageDated, PlainIsDated
  <2> HIDE DEF m
  <2>3. bs \in Batches \ {<< >>}
    <3>1. <<m>> \in Seq(Messages) /\ <<m>> # << >>
      BY <2>2
    <3> QED  BY <3>1, OneBatch
  <2>4. bs \in DatedBatches
    <3>1. << >> \in Seq(Seq(Plain)) /\ Append(<< >>, <<m>>) = bs
      OBVIOUS
    <3>2. Append(<< >>, <<m>>) \in DatedBatches
      BY <2>2, <3>1, ConfigAtEnd
    <3> QED  BY <3>1, <3>2
  <2> HIDE DEF bs
  <2>5. Submit(n, bs, net, outbox)
    BY <2>1 DEF bs, m
  <2> QED  BY <1>0, <2>3, <2>4, <2>5, SubmitClean
<1>3. CASE BatchOrder(n)
  <2>1. PICK t \in unsent :
          LET r == OrderedMessage(cutter[n], Message(n, t))
          IN  /\ mode /\ outbox[n] = << >> /\ Accepts(chain[n], t)
              /\ cutter' = [cutter EXCEPT ![n] = r.rest]
              /\ outbox' = [outbox EXCEPT ![n] = r.batches]
              /\ UNCHANGED <<mode, raftVars, chain, ledger, snap, net, crashes, snaps>>
    BY <1>3 DEF BatchOrder
  <2> DEFINE r == OrderedMessage(cutter[n], Message(n, t))
  <2>2. Message(n, t) \in Dated
    BY <2>1, MessageDated
  <2>3. r.batches \in DatedBatches /\ r.rest.msgs \in Seq(Plain)
    BY <1>0, <2>2, OrderedMessageDated
  <2>4. /\ mode /\ cutter' = [cutter EXCEPT ![n] = r.rest] /\ outbox' = [outbox EXCEPT ![n] = r.batches]
        /\ UNCHANGED <<mode, log, committed, chain, net>>
    BY <2>1 DEF raftVars
  <2> HIDE DEF r
  <2>5. /\ cutter'[n] = r.rest /\ outbox'[n] = r.batches
        /\ \A m \in Node \ {n} : cutter'[m] = cutter[m] /\ outbox'[m] = outbox[m]
    BY <1>0, <2>4 DEF Types
  <2>6. Current(n, c, r.rest.msgs)
    BY <1>1, <2>4
  <2> QED  BY <1>0, <2>3, <2>4, <2>5, <2>6, OutdatedFrame
<1>4. CASE BatchTimer(n)
  <2> DEFINE q == Txs(cutter[n].msgs)
             data == <<q>>
  <2>1. cutter[n].msgs # << >> /\ UNCHANGED <<net, unsent, crashes>>
    BY <1>4 DEF BatchTimer
  <2>2. CASE ~mode /\ ProposeOrPanic(n, data, CreateBlocks(c, data), EmptyReceiver, outbox)
    <3>1. Serving(n, c) /\ c.bc \in Block
      <4>1. Leading(n, c, cutter[n].msgs)
        BY DEF IInv, LeaderInv, LeaderOK
      <4> QED  BY <1>0, <2>1, <2>2, <4>1 DEF Leading, Chain
    <3>2. q \in Seq(Tx) /\ ~IsConfigData(q) /\ (HasOutdated(q) => Free(c.bc))
      <4>1. q \in Seq(Tx)
        BY <1>0, PlainIsDated, TxsType
      <4>2. ~IsConfigData(q)
        BY <1>0, PlainData
      <4>3. ASSUME ~Free(c.bc) PROVE ~HasOutdated(q)
        <5>1. \A i \in DOMAIN cutter[n].msgs : cutter[n].msgs[i].tx \notin Outdated
          BY <1>0, <2>2, <3>1, <4>3 DEF Current
        <5>2. cutter[n].msgs \in Seq(Unaffected)
          BY <1>0, <5>1, ToUnaffected
        <5> QED  BY <5>2, UnaffectedData
      <4> QED  BY <4>1, <4>2, <4>3
    <3> HIDE DEF q
    <3>3. DOMAIN data = {1} /\ data[1] = q /\ data \in Seq(Seq(Tx))
      BY <3>2
    <3> HIDE DEF data
    <3>4. /\ InOrder(data) /\ (\A i \in DOMAIN data : HasOutdated(data[i]) => Free(c.bc))
          /\ \A i \in DOMAIN data : ~IsConfigData(data[i])
      BY <3>2, <3>3 DEF InOrder
    <3>5. CreateBlocks(c, data) \in Chain /\ SamePlace(CreateBlocks(c, data), c)
      BY <1>0, <3>1, <3>3, CreateBlocksEffect
    <3> DEFINE o == CreateBlocks(c, data).open
    <3>6. CreateBlocks(c, data) = [CreateBlocks(c, data) EXCEPT !.open = o] /\ o \in BOOLEAN
      BY <3>5 DEF Chain
    <3>7. o = c.open
      BY <3>5 DEF SamePlace
    <3> HIDE DEF o
    <3>8. ProposeOrPanic(n, data, [CreateBlocks(c, data) EXCEPT !.open = o], EmptyReceiver, outbox)
      BY <2>2, <3>6
    <3>9. /\ \A i \in net' : i.batches \in DatedBatches
          /\ EmptyReceiver.msgs \in Seq(Plain) /\ DOMAIN EmptyReceiver.msgs = {}
      BY <1>0, <2>1, NoneOutdated DEF EmptyReceiver
    <3> QED  BY <1>0, <3>1, <3>3, <3>4, <3>6, <3>7, <3>8, <3>9, ProposeOrPanicClean
  <2>3. CASE /\ mode /\ outbox' = [outbox EXCEPT ![n] = <<cutter[n].msgs>>]
             /\ cutter' = [cutter EXCEPT ![n] = EmptyReceiver]
             /\ UNCHANGED <<mode, raftVars, chain, ledger, snap, snaps>>
    <3>1. <<cutter[n].msgs>> \in DatedBatches
      <4> DEFINE P == Seq(Plain)
      <4>1. cutter[n].msgs \in P
        BY <1>0
      <4> HIDE DEF P
      <4>2. <<cutter[n].msgs>> \in Seq(P)
        BY <4>1
      <4> QED  BY <4>2, PlainBatches DEF P
    <3>2. /\ outbox'[n] = <<cutter[n].msgs>> /\ cutter'[n] = EmptyReceiver
          /\ \A m \in Node \ {n} : cutter'[m] = cutter[m] /\ outbox'[m] = outbox[m]
      BY <1>0, <2>3 DEF Types
    <3>3. UNCHANGED <<mode, log, committed, chain, net>>
      BY <2>1, <2>3 DEF raftVars
    <3>4. Current(n, c, EmptyReceiver.msgs)
      BY <1>1, <2>3
    <3> QED  BY <1>0, <3>1, <3>2, <3>3, <3>4, NoneOutdated, OutdatedFrame
  <2> QED  BY <1>4, <2>2, <2>3 DEF BatchTimer
<1>5. CASE SubmitBatches(n)
  <2> DEFINE out == [outbox EXCEPT ![n] = << >>]
  <2>1. outbox[n] # << >> /\ Submit(n, outbox[n], net, out)
    BY <1>5 DEF SubmitBatches
  <2>2. out[n] = << >> /\ \A m \in Node \ {n} : out[m] = outbox[m]
    BY <1>0 DEF Types
  <2> HIDE DEF out
  <2>3. out[n] \in DatedBatches
    BY <2>2, NoneOutdated
  <2> QED  BY <1>0, <2>1, <2>2, <2>3, SubmitClean
<1>6. CASE Receive(n)
  <2>1. PICK r \in net : Submit(n, r.batches, net \ {r}, outbox)
    BY <1>6 DEF Receive
  <2>2. r.batches \in Batches \ {<< >>} /\ r.batches \in DatedBatches
    BY <1>0 DEF Types
  <2> QED  BY <1>0, <2>1, <2>2, SubmitClean
<1> QED  BY <1>2, <1>3, <1>4, <1>5, <1>6 DEF Input

LEMMA InitClean == Init => OutdatedInv
<1> SUFFICES ASSUME Init PROVE OutdatedInv
  OBVIOUS
<1>1. /\ committed = << >> /\ net = {} /\ log = [n \in Node |-> << >>]
      /\ chain = [n \in Node |-> NewChain([blk |-> Genesis, idx |-> 0], NoSnapshot)]
      /\ cutter = [n \in Node |-> EmptyReceiver] /\ outbox = [n \in Node |-> << >>]
  BY DEF Init
<1>2. LogClean(<< >>)
  BY DEF LogClean
<1>3. ASSUME NEW n \in Node PROVE OutdatedOK(n)
  <2>1. /\ log[n] = << >> /\ chain[n].propC = << >> /\ cutter[n] = EmptyReceiver /\ outbox[n] = << >>
        /\ chain[n].lead = Nil /\ chain[n].confChange = Nil
    BY <1>1 DEF NewChain
  <2>2. ~Serving(n, chain[n])
    BY <2>1, ChainAssumption DEF Serving
  <2>3. Current(n, chain[n], cutter[n].msgs)
    BY <2>1, <2>2, IdleCurrent
  <2> QED  BY <1>2, <2>1, <2>3, NoneOutdated DEF OutdatedOK
<1> QED  BY <1>1, <1>2, <1>3 DEF OutdatedInv

LEMMA StepClean ==
  ASSUME SnapshotsRead', IInv, OutdatedInv, [Next]_vars
  PROVE  OutdatedInv'
<1>1. CASE UNCHANGED vars
  <2>1. UNCHANGED <<mode, log, committed, chain, cutter, outbox, net>>
    BY <1>1 DEF vars, raftVars, inputVars
  <2> QED  BY <2>1 DEF OutdatedInv, OutdatedOK, Current
<1>2. CASE Next
  <2>0. IInv'
    BY <1>2, StepKeeps
  <2>1. PICK n \in Node : \/ Raft(n) \/ Apply(n) \/ InstallSnapshot(n) \/ SuspectEviction(n)
                          \/ Propose(n) \/ ProposeConfChange(n) \/ Input(n) \/ Crash(n)
    BY <1>2 DEF Next
  <2>2. CASE Crash(n)
    <3>1. Reboot(n) /\ net' = net
      BY <2>2 DEF Crash
    <3>2. \A r \in net' : r.batches \in DatedBatches
      BY <3>1, OutdatedParts
    <3> QED  BY <3>1, <3>2, RebootClean
  <2> QED  BY <2>0, <2>1, <2>2, RaftClean, ApplyClean, InstallSnapshotClean, SuspectEvictionClean,
              ProposeClean, ProposeConfChangeClean, InputClean
<1> QED  BY <1>1, <1>2

LEMMA OutdatedFollows ==
  ASSUME IInv, OutdatedInv
  PROVE  OutdatedNotOrdered
<1> DEFINE S == {e \in Range(committed) : e.type = "block"}
           es == Keep(committed, S)
           blocks == CommittedBlocks
<1>1. blocks = [i \in DOMAIN es |-> es[i].blk]
  BY DEF CommittedBlocks
<1>2. ASSUME NEW e \in S PROVE e.type = "block"
  OBVIOUS
<1>3. committed \in Seq(LogEntry) /\ LogClean(committed)
  BY DEF IInv, Types, OutdatedInv
<1> HIDE DEF S
<1>4. es \in Seq(LogEntry) /\ \A i \in DOMAIN es : \E j \in DOMAIN committed :
                                 committed[j] \in S /\ es[i] = committed[j]
  BY <1>3, KeepLess, KeepType
<1>5. \A i \in DOMAIN blocks :
        blocks[i] = NextBlock(IF i = 1 THEN Genesis ELSE blocks[i - 1], blocks[i].data)
  BY OneChainFollows DEF OneChain
<1> HIDE DEF es, blocks
<1>6. DOMAIN es = 1 .. Len(es) /\ Len(es) \in Nat /\ DOMAIN blocks = 1 .. Len(es)
  BY <1>1, <1>4, LenProperties
<1>7. ASSUME NEW i \in DOMAIN blocks
      PROVE  blocks[i] \in Block /\ blocks[i].data \in Seq(Tx) /\ Clean(blocks[i])
  <2>1. i \in DOMAIN es /\ blocks[i] = es[i].blk /\ es[i] \in LogEntry
    BY <1>1, <1>4, <1>6, ElementOfSeq
  <2>2. PICK j \in DOMAIN committed : committed[j] \in S /\ es[i] = committed[j]
    BY <1>4, <2>1
  <2>3. Clean(committed[j].blk)
    BY <1>2, <1>3, <2>2 DEF LogClean
  <2> QED  BY <2>1, <2>2, <2>3 DEF LogEntry, Block, Tx
<1>8. ASSUME NEW i \in DOMAIN blocks, i + 1 \in DOMAIN blocks
      PROVE  /\ blocks[i + 1].prev = Hash(blocks[i])
             /\ Free(blocks[i + 1]) => Free(blocks[i])
  <2>1. i + 1 # 1 /\ (i + 1) - 1 = i
    BY <1>6
  <2>2. blocks[i + 1] = NextBlock(blocks[i], blocks[i + 1].data)
    BY <1>5, <1>8, <2>1
  <2> QED  BY <1>7, <1>8, <2>2, FreeNext
<1>9. ASSUME NEW i \in DOMAIN blocks, IsConfigBlock(blocks[i]) PROVE ~Free(blocks[i])
  <2> DEFINE t == IF i = 1 THEN Genesis ELSE blocks[i - 1]
  <2>1. blocks[i] = NextBlock(t, blocks[i].data)
    BY <1>5
  <2>2. t \in Block
    <3>1. i # 1 => i - 1 \in DOMAIN blocks
      BY <1>6
    <3> QED  BY <1>7, <3>1, GenesisType
  <2> HIDE DEF t
  <2> QED  BY <1>7, <1>9, <2>1, <2>2, FreeNext DEF IsConfigBlock
<1>10. ASSUME NEW i \in DOMAIN blocks, IsConfigBlock(blocks[i]), NEW j \in DOMAIN blocks, i < j
       PROVE  ~HasOutdated(blocks[j].data)
  <2> DEFINE P == {k \in Nat : i + k <= Len(es) => ~Free(blocks[i + k])}
  <2>0. i \in Nat /\ j \in Nat /\ i >= 1 /\ j <= Len(es)
    BY <1>6
  <2>1. 0 \in P
    BY <1>9, <1>10, <2>0
  <2>2. ASSUME NEW k \in Nat, k \in P PROVE k + 1 \in P
    <3> DEFINE a == i + k
    <3> SUFFICES ASSUME i + (k + 1) <= Len(es) PROVE ~Free(blocks[i + (k + 1)])
      OBVIOUS
    <3>1. a + 1 = i + (k + 1) /\ a \in DOMAIN blocks /\ a + 1 \in DOMAIN blocks /\ ~Free(blocks[a])
      BY <1>6, <2>0, <2>2
    <3> HIDE DEF a
    <3> QED  BY <1>8, <3>1
  <2>3. Nat \subseteq P
    <3> HIDE DEF P
    <3> QED  BY <2>1, <2>2, SetInduction
  <2> DEFINE k == (j - 1) - i
             b == j - 1
  <2>4. k \in Nat /\ i + k = b /\ b \in DOMAIN blocks /\ b + 1 = j /\ b <= Len(es)
    BY <1>6, <1>10, <2>0
  <2>5. ~Free(blocks[b])
    <3>1. k \in P
      BY <2>3, <2>4
    <3> QED  BY <2>4, <3>1
  <2> HIDE DEF b
  <2>6. blocks[j].prev = Hash(blocks[b])
    BY <1>8, <2>4
  <2> QED  BY <1>7, <2>5, <2>6 DEF Clean, Free
<1> QED  BY <1>10 DEF OutdatedNotOrdered, HasOutdated, blocks

(* An update that any other configuration makes outdated is dated before   *)
(* the first one wherever it waits, at a node or on its way, and no leader *)
(* orders it once a configuration is applied or in flight: what            *)
(* checkValidationStatusOfTxns, ordered and the closing of submitC in run  *)
(* keep together.                                                          *)
THEOREM OutdatedInvariance ==
  Spec /\ []SnapshotsRead => []OutdatedInv
<1>1. Init => OutdatedInv
  BY InitClean
<1>2. IInv /\ OutdatedInv /\ SnapshotsRead' /\ [Next]_vars => OutdatedInv'
  BY StepClean
<1> QED  BY <1>1, <1>2, ChainInvariance, PTL DEF Spec

(* No committed block after a configuration block has an update that the   *)
(* configuration made outdated, through changes of leader, restarts,       *)
(* catch-up and requests validated at another node (ordered and            *)
(* checkValidationStatusOfTxns of chain.go, ProcessConfigMsg).             *)
THEOREM OutdatedStayOut ==
  Spec /\ []SnapshotsRead => []OutdatedNotOrdered
<1>1. IInv /\ OutdatedInv => OutdatedNotOrdered
  BY OutdatedFollows
<1> QED  BY <1>1, ChainInvariance, OutdatedInvariance, PTL
=============================================================================
