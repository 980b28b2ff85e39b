-------------------------- MODULE EtcdraftConfProofs --------------------------
(***************************************************************************)
(* Configurations in EtcdraftChain: each is ordered at most once, and a    *)
(* change of the consenters is applied before the next block, with         *)
(* []SnapshotsRead as in EtcdraftChainProofs.                              *)
(***************************************************************************)
EXTENDS EtcdraftChainProofs

(***************************************************************************)
(* The history of a block holds the configuration t when one of its blocks *)
(* is that transaction alone.                                              *)
(***************************************************************************)
Holds(h, t) == \E j \in DOMAIN h : h[j] = <<t>>

(* No configuration is twice in a history.                                 *)
Once(h) == \A t \in ConfigTx : \A i, j \in DOMAIN h : h[i] = <<t>> /\ h[j] = <<t>> => i = j

(* A block is b or one of those before it.                                 *)
Within(a, b) == a = b \/ (b.num # 0 /\ Extends(b.prev, Hash(a)))

LEMMA EmptyHistory ==
  ASSUME NEW b, b.num = 0
  PROVE  (\A t : ~Holds(Hash(b), t)) /\ Once(Hash(b))
BY DEF Hash, Holds, Once

(* The history of a block is the one before it and its data.               *)
LEMMA HistoryOf ==
  ASSUME NEW b \in Block, b.num # 0
  PROVE  /\ b.prev \in Seq(Seq(Tx)) /\ Hash(b) \in Seq(Seq(Tx)) /\ Extends(Hash(b), b.prev)
         /\ \A t : Holds(Hash(b), t) <=> Holds(b.prev, t) \/ b.data = <<t>>
         /\ Once(Hash(b)) <=> /\ Once(b.prev)
                              /\ \A t \in ConfigTx : b.data = <<t>> => ~Holds(b.prev, t)
<1> DEFINE h == b.prev
           g == Append(h, b.data)
           d == b.data
           k == Len(h) + 1
<1>1. h \in Seq(Seq(Tx)) /\ d \in Seq(Tx)
  BY DEF Block, Tx
<1>2. Hash(b) = g
  BY DEF Hash
<1> HIDE DEF h, d
<1>4. /\ Len(h) \in Nat /\ DOMAIN h = 1 .. Len(h) /\ DOMAIN g = 1 .. k
      /\ g[k] = d /\ (\A i \in 1 .. Len(h) : g[i] = h[i]) /\ Len(g) = k
  BY <1>1, AppendProperties, LenProperties DEF d
<1> HIDE DEF g
<1>5. /\ DOMAIN h \subseteq DOMAIN g /\ k \in DOMAIN g /\ k \notin DOMAIN h
      /\ (\A i \in DOMAIN g : i = k \/ i \in DOMAIN h) /\ \A i \in DOMAIN h : g[i] = h[i]
  BY <1>4
<1>6. g[k] = d
  BY <1>4
<1>7. Extends(g, h)
  BY <1>4 DEF Extends
<1> HIDE DEF k
<1>8. ASSUME NEW t PROVE Holds(g, t) <=> Holds(h, t) \/ d = <<t>>
  BY <1>5, <1>6, Zenon DEF Holds
<1>9. ASSUME Once(g) PROVE Once(h) /\ \A t \in ConfigTx : d = <<t>> => ~Holds(h, t)
  BY <1>5, <1>6, <1>9, Zenon DEF Once, Holds
<1>10. ASSUME Once(h), \A t \in ConfigTx : d = <<t>> => ~Holds(h, t) PROVE Once(g)
  <2>1. ASSUME NEW t \in ConfigTx, NEW i \in DOMAIN g, NEW j \in DOMAIN g,
               g[i] = <<t>>, g[j] = <<t>>
        PROVE  i = j
    <3>1. CASE i = k /\ j = k
      BY <3>1
    <3>2. CASE i \in DOMAIN h /\ j \in DOMAIN h
      BY <1>5, <1>10, <2>1, <3>2, Zenon DEF Once
    <3>3. CASE i = k /\ j \in DOMAIN h
      BY <1>5, <1>6, <1>10, <2>1, <3>3, Zenon DEF Holds
    <3>4. CASE j = k /\ i \in DOMAIN h
      BY <1>5, <1>6, <1>10, <2>1, <3>4, Zenon DEF Holds
    <3> QED  BY <1>5, <3>1, <3>2, <3>3, <3>4
  <2> QED  BY <2>1 DEF Once
<1> QED  BY <1>1, <1>2, <1>7, <1>8, <1>9, <1>10, HashType DEF h, d

LEMMA HistoryNext ==
  ASSUME NEW b \in Block, NEW d \in Seq(Tx)
  PROVE  /\ NextBlock(b, d) \in Block /\ NextBlock(b, d).num # 0
         /\ NextBlock(b, d).prev = Hash(b) /\ NextBlock(b, d).data = d
         /\ \A t : Holds(Hash(NextBlock(b, d)), t) <=> Holds(Hash(b), t) \/ d = <<t>>
         /\ Once(Hash(NextBlock(b, d))) <=>
              Once(Hash(b)) /\ \A t \in ConfigTx : d = <<t>> => ~Holds(Hash(b), t)
<1> DEFINE a == NextBlock(b, d)
<1>1. a.prev = Hash(b) /\ a.data = d /\ a.num # 0
  BY DEF NextBlock, Block
<1>2. a \in Block
  BY NextBlockType
<1> HIDE DEF a
<1> QED  BY <1>1, <1>2, HistoryOf DEF a

LEMMA HistoryExtends ==
  ASSUME NEW f \in Seq(Seq(Tx)), NEW g \in Seq(Seq(Tx)), NEW h \in Seq(Seq(Tx)), Extends(g, f)
  PROVE  /\ \A t : Holds(f, t) => Holds(g, t)
         /\ Once(g) => Once(f)
         /\ Extends(h, g) => Extends(h, f)
<1>1. /\ Len(f) \in Nat /\ Len(g) \in Nat /\ Len(h) \in Nat /\ DOMAIN f = 1 .. Len(f)
      /\ DOMAIN g = 1 .. Len(g)
  BY LenProperties
<1>2. DOMAIN f \subseteq DOMAIN g /\ \A i \in DOMAIN f : g[i] = f[i]
  <2>1. Len(f) <= Len(g) /\ \A i \in 1 .. Len(f) : g[i] = f[i]
    BY DEF Extends
  <2> QED  BY <1>1, <2>1
<1>3. ASSUME Extends(h, g) PROVE Extends(h, f)
  <2>1. /\ Len(f) <= Len(g) /\ \A i \in 1 .. Len(f) : g[i] = f[i]
        /\ Len(g) <= Len(h) /\ \A i \in 1 .. Len(g) : h[i] = g[i]
    BY <1>3 DEF Extends
  <2>2. Len(f) <= Len(h)
    BY <1>1, <2>1
  <2>3. ASSUME NEW i \in 1 .. Len(f) PROVE h[i] = f[i]
    <3>1. i \in 1 .. Len(g)
      BY <1>1, <2>1
    <3>2. h[i] = g[i] /\ g[i] = f[i]
      BY <2>1, <3>1, Zenon
    <3> QED  BY <3>2
  <2> QED  BY <2>2, <2>3 DEF Extends
<1>4. \A t : Holds(f, t) => Holds(g, t)
  BY <1>2 DEF Holds
<1>5. Once(g) => Once(f)
  BY <1>2 DEF Once
<1> QED  BY <1>3, <1>4, <1>5

(* What is in the history of a block is in that of a later one.            *)
LEMMA WithinHistory ==
  ASSUME NEW a \in Block, NEW b \in Block, Within(a, b)
  PROVE  /\ \A t : Holds(Hash(a), t) => Holds(Hash(b), t)
         /\ a # b => \A t : Holds(Hash(a), t) => Holds(b.prev, t)
         /\ a.num # 0 => \A t : Holds(a.prev, t) => Holds(b.prev, t)
         /\ Once(Hash(b)) => Once(Hash(a))
<1>1. CASE a = b
  BY <1>1
<1>2. CASE a # b
  <2>1. b.num # 0 /\ Extends(b.prev, Hash(a))
    BY <1>2 DEF Within
  <2>2. b.prev \in Seq(Seq(Tx)) /\ Hash(b) \in Seq(Seq(Tx)) /\ Extends(Hash(b), b.prev)
        /\ Hash(a) \in Seq(Seq(Tx))
    BY <2>1, HistoryOf, HashType
  <2>3. /\ \A t : Holds(Hash(a), t) => Holds(b.prev, t)
        /\ Once(b.prev) => Once(Hash(a))
    BY <2>1, <2>2, HistoryExtends
  <2>4. /\ \A t : Holds(b.prev, t) => Holds(Hash(b), t)
        /\ Once(Hash(b)) => Once(b.prev)
    BY <2>2, HistoryExtends
  <2>5. a.num # 0 => \A t : Holds(a.prev, t) => Holds(Hash(a), t)
    BY HistoryOf
  <2> QED  BY <2>3, <2>4, <2>5
<1> QED  BY <1>1, <1>2

LEMMA WithinOrder ==
  ASSUME NEW a \in Block, NEW b \in Block, Within(a, b)
  PROVE  /\ \A d \in Seq(Tx) : Within(a, NextBlock(b, d))
         /\ \A c \in Block : Within(b, c) => Within(a, c)
<1>1. b.num # 0 => /\ b.prev \in Seq(Seq(Tx)) /\ Hash(b) \in Seq(Seq(Tx))
                   /\ Extends(Hash(b), b.prev)
  BY HistoryOf
<1>2. Hash(a) \in Seq(Seq(Tx)) /\ Hash(b) \in Seq(Seq(Tx))
  BY HashType
<1>3. Extends(Hash(b), Hash(a))
  <2>1. CASE a = b
    <3>1. \A h \in Seq(Seq(Tx)) : Extends(h, h)
      BY LenProperties DEF Extends
    <3> QED  BY <1>2, <2>1, <3>1
  <2>2. CASE a # b
    BY <1>1, <1>2, <2>2, HistoryExtends DEF Within
  <2> QED  BY <2>1, <2>2
<1>4. ASSUME NEW d \in Seq(Tx) PROVE Within(a, NextBlock(b, d))
  BY <1>3, HistoryNext DEF Within
<1>5. ASSUME NEW c \in Block, Within(b, c) PROVE Within(a, c)
  <2>1. CASE b = c
    BY <2>1
  <2>2. CASE b # c
    <3>1. c.num # 0 /\ Extends(c.prev, Hash(b)) /\ c.prev \in Seq(Seq(Tx))
      BY <1>5, <2>2, HistoryOf DEF Within
    <3>2. Extends(c.prev, Hash(a))
      BY <1>2, <1>3, <3>1, HistoryExtends
    <3> QED  BY <3>1, <3>2 DEF Within
  <2> QED  BY <2>1, <2>2
<1> QED  BY <1>4, <1>5

LEMMA LogWithin ==
  ASSUME NEW s \in Seq(LogEntry), Chained(s), NEW i \in 0 .. Len(s), NEW j \in 0 .. Len(s), i <= j
  PROVE  Within(Tip(s)[i], Tip(s)[j])
<1> DEFINE P == {k \in Nat : i + k <= Len(s) => Within(Tip(s)[i], Tip(s)[i + k])}
<1>0. Len(s) \in Nat /\ DOMAIN s = 1 .. Len(s) /\ i \in Nat
  BY LenProperties
<1>1. 0 \in P
  BY <1>0 DEF Within
<1>2. ASSUME NEW k \in Nat, k \in P PROVE k + 1 \in P
  <2> SUFFICES ASSUME i + (k + 1) <= Len(s) PROVE Within(Tip(s)[i], Tip(s)[i + (k + 1)])
    OBVIOUS
  <2> DEFINE a == i + k
  <2>1. a + 1 = i + (k + 1) /\ (a + 1) - 1 = a /\ a \in 0 .. Len(s) /\ a + 1 \in 1 .. Len(s)
        /\ Within(Tip(s)[i], Tip(s)[a])
    BY <1>0, <1>2
  <2> HIDE DEF a
  <2>2. /\ s[a + 1] \in LogEntry /\ Tip(s)[a] \in Block /\ Tip(s)[i] \in Block
        /\ Tip(s)[a + 1] = TipStep(Tip(s)[a], s[a + 1])
    BY <2>1, TipDef, ElementOfSeq
  <2>4. CASE s[a + 1].type # "block"
    BY <2>1, <2>2, <2>4 DEF TipStep
  <2>5. CASE s[a + 1].type = "block"
    <3>1. Tip(s)[a + 1] = NextBlock(Tip(s)[a], s[a + 1].blk.data)
      BY <1>0, <2>1, <2>2, <2>5 DEF TipStep, Chained
    <3>2. s[a + 1].blk.data \in Seq(Tx)
      BY <2>2 DEF LogEntry, Block, Tx
    <3> QED  BY <2>1, <2>2, <3>1, <3>2, WithinOrder
  <2> QED  BY <2>4, <2>5
<1>3. Nat \subseteq P
  <2> HIDE DEF P
  <2> QED  BY <1>1, <1>2, SetInduction
<1>4. j - i \in Nat /\ i + (j - i) = j /\ j <= Len(s)
  BY <1>0
<1> DEFINE k == j - i
<1>5. k \in P
  BY <1>3, <1>4
<1> QED  BY <1>4, <1>5

LEMMA InLogType ==
  ASSUME NEW s \in Seq(LogEntry), NEW b, InLog(s, b)
  PROVE  b \in Block /\ b.num \in Nat
<1>1. b \in Block
  BY TipDef, LenProperties DEF InLog
<1> QED  BY <1>1 DEF Block

(* Of two blocks of a log the one with the lower number is before the      *)
(* other; only the first block has number 0.                               *)
LEMMA InLogWithin ==
  ASSUME NEW s \in Seq(LogEntry), Chained(s), NEW a, NEW b, InLog(s, a), InLog(s, b)
  PROVE  /\ a.num <= b.num => Within(a, b)
         /\ a.num = 0 => a = Genesis
         /\ Within(a, Tip(s)[Len(s)])
<1>0. Len(s) \in Nat /\ 0 \in 0 .. Len(s) /\ Len(s) \in 0 .. Len(s) /\ Tip(s)[0] = Genesis
  BY LenProperties, TipDef
<1>1. PICK i \in 0 .. Len(s) : a = Tip(s)[i]
  BY DEF InLog
<1>2. PICK j \in 0 .. Len(s) : b = Tip(s)[j]
  BY DEF InLog
<1>3. a \in Block /\ b \in Block /\ a.num \in Nat /\ b.num \in Nat
  BY InLogType
<1>4. ASSUME a.num <= b.num PROVE Within(a, b)
  <2>1. CASE i <= j
    BY <1>1, <1>2, <2>1, LogWithin
  <2>2. CASE ~(i <= j)
    <3>1. j <= i
      BY <1>0, <2>2
    <3>2. b.num <= a.num
      BY <1>1, <1>2, <3>1, TipByNumber
    <3>3. a.num = b.num
      BY <1>3, <1>4, <3>2
    <3>4. a = b
      BY <1>1, <1>2, <3>3, TipByNumber
    <3> QED  BY <3>4 DEF Within
  <2> QED  BY <2>1, <2>2
<1>5. ASSUME a.num = 0 PROVE a = Genesis
  BY <1>0, <1>1, <1>5, GenesisType, TipByNumber
<1>6. Within(a, Tip(s)[Len(s)])
  BY <1>0, <1>1, LogWithin
<1> QED  BY <1>4, <1>5, <1>6

(* A block a leader has in flight is before the one it continues from.     *)
LEMMA LeadsWithin ==
  ASSUME NEW t \in Block, NEW q \in Seq(Block), NEW b, Leads(t, q, b)
  PROVE  /\ b \in Block /\ Within(t, b)
         /\ q # << >> => Head(q) \in Block /\ Head(q).num # 0 /\ Within(Head(q), b)
<1>1. Len(q) \in Nat /\ DOMAIN q = 1 .. Len(q) /\ \A i \in 1 .. Len(q) : q[i] \in Block
  BY LenProperties, ElementOfSeq
<1>2. CASE q = << >>
  BY <1>2 DEF Leads, Within
<1>3. CASE q # << >>
  <2>1. Len(q) # 0 /\ Head(q) = q[1] /\ 1 \in 1 .. Len(q) /\ Len(q) \in 1 .. Len(q)
    BY <1>1, <1>3, EmptySeq, HeadTailProperties
  <2>2. /\ \A i \in 1 .. Len(q) : q[i] = NextBlock(IF i = 1 THEN t ELSE q[i - 1], q[i].data)
        /\ b = q[Len(q)]
    BY <1>1, <1>3 DEF Leads
  <2>3. \A i \in 1 .. Len(q) : q[i].data \in Seq(Tx)
    BY <1>1 DEF Block, Tx
  <2> DEFINE P == {k \in Nat : k + 1 <= Len(q) => Within(t, q[k + 1]) /\ Within(q[1], q[k + 1])}
  <2>4. 0 \in P /\ q[1].num # 0
    <3>1. q[1] = NextBlock(t, q[1].data)
      BY <2>1, <2>2
    <3>2. Within(t, t) /\ Within(q[1], q[1])
      BY DEF Within
    <3>3. Within(t, NextBlock(t, q[1].data)) /\ NextBlock(t, q[1].data).num # 0
      BY <2>1, <2>3, <3>2, WithinOrder, HistoryNext
    <3> QED  BY <3>1, <3>2, <3>3
  <2>5. ASSUME NEW k \in Nat, k \in P PROVE k + 1 \in P
    <3> SUFFICES ASSUME (k + 1) + 1 <= Len(q)
                 PROVE  Within(t, q[(k + 1) + 1]) /\ Within(q[1], q[(k + 1) + 1])
      OBVIOUS
    <3> DEFINE j == k + 1
    <3>1. j \in 1 .. Len(q) /\ j + 1 \in 1 .. Len(q) /\ j + 1 # 1 /\ (j + 1) - 1 = j
          /\ Within(t, q[j]) /\ Within(q[1], q[j])
      BY <1>1, <2>5
    <3> HIDE DEF j
    <3>2. q[j + 1] = NextBlock(q[j], q[j + 1].data)
      BY <2>2, <3>1
    <3>3. q[j] \in Block /\ q[1] \in Block /\ q[j + 1].data \in Seq(Tx)
      BY <1>1, <2>1, <2>3, <3>1
    <3>4. /\ Within(t, NextBlock(q[j], q[j + 1].data))
          /\ Within(q[1], NextBlock(q[j], q[j + 1].data))
      BY <3>1, <3>3, WithinOrder
    <3> QED  BY <3>2, <3>4 DEF j
  <2>6. Nat \subseteq P
    <3> HIDE DEF P
    <3> QED  BY <2>4, <2>5, SetInduction
  <2> DEFINE k == Len(q) - 1
  <2>7. k \in P /\ k \in Nat /\ k + 1 = Len(q)
    BY <1>1, <2>1, <2>6
  <2>8. Within(t, q[Len(q)]) /\ Within(q[1], q[Len(q)])
    BY <1>1, <2>7
  <2> QED  BY <1>1, <2>1, <2>2, <2>4, <2>8
<1> QED  BY <1>2, <1>3
-----------------------------------------------------------------------------
(***************************************************************************)
(* A configuration waits to be ordered in one place: a client has not sent *)
(* it, or it is in the outbox of one node, or in one forwarded request.    *)
(* What waits is in no history.                                            *)
(***************************************************************************)
InRequest(t, bs) == \E i \in DOMAIN bs : \E k \in DOMAIN bs[i] : bs[i][k].tx = t

Waits(u, o, w) ==
    {t \in ConfigTx : \/ t \in u
                      \/ \E n \in Node : InRequest(t, o[n])
                      \/ \E r \in w : InRequest(t, r.batches)}

Exclusive(u, o, w) ==
    \A t \in ConfigTx :
      /\ t \in u => /\ \A n \in Node : ~InRequest(t, o[n])
                    /\ \A r \in w : ~InRequest(t, r.batches)
      /\ \A n, m \in Node : InRequest(t, o[n]) /\ InRequest(t, o[m]) => n = m
      /\ \A n \in Node : \A r \in w : ~(InRequest(t, o[n]) /\ InRequest(t, r.batches))
      /\ \A q, r \in w : InRequest(t, q.batches) /\ InRequest(t, r.batches) => q = r

Waiting == Waits(unsent, outbox, net)

(* No configuration is twice in the history, or in it and still waiting.   *)
Pure(W, b) == Once(Hash(b)) /\ \A t \in W : ~Holds(Hash(b), t)

Top(n) == Tip(log[n])[Len(log[n])]

(* The log of a leader that was not deposed has what is committed.         *)
Leader(n) == raft[n].role = "leader" /\ Extends(log[n], committed)

OnceOK(n) ==
    /\ Extends(log[n], committed) => Pure(Waiting, Top(n))
    /\ Leader(n) /\ Serving(n, chain[n]) => Pure(Waiting, chain[n].bc)

OnceInv ==
    /\ Exclusive(unsent, outbox, net)
    /\ Pure(Waiting, Tip(committed)[Len(committed)])
    /\ \A n \in Node : OnceOK(n)

LEMMA FewerWait ==
  ASSUME NEW u, NEW o, NEW w, NEW v \in SUBSET u, NEW x \in SUBSET w,
         NEW p, \A n \in Node : p[n] = o[n] \/ p[n] = << >>
  PROVE  /\ Exclusive(u, o, w) => Exclusive(v, p, x)
         /\ Waits(v, p, x) \subseteq Waits(u, o, w)
<1>1. ASSUME NEW t, NEW n \in Node, InRequest(t, p[n]) PROVE InRequest(t, o[n])
  <2>1. ~InRequest(t, << >>)
    BY DEF InRequest
  <2> QED  BY <1>1, <2>1
<1>2. Exclusive(u, o, w) => Exclusive(v, p, x)
  BY <1>1 DEF Exclusive
<1>3. Waits(v, p, x) \subseteq Waits(u, o, w)
  BY <1>1 DEF Waits
<1> QED  BY <1>2, <1>3

LEMMA PureLess ==
  ASSUME NEW W, NEW V \in SUBSET W, NEW b \in Block, NEW a \in Block, Within(a, b), Pure(W, b)
  PROVE  Pure(V, a)
BY WithinHistory DEF Pure

LEMMA GenesisPure == \A W : Pure(W, Genesis)
BY EmptyHistory, GenesisType DEF Pure

(* The blocks of the committed entries, and so those a node has written.   *)
LEMMA CommittedPure ==
  ASSUME IInv, OnceInv, NEW b, InLog(committed, b)
  PROVE  Pure(Waiting, b)
<1>1. committed \in Seq(LogEntry) /\ Chained(committed)
  BY DEF IInv, Types, LogInv
<1>2. b \in Block /\ Tip(committed)[Len(committed)] \in Block
  BY <1>1, InLogType, TipDef, LenProperties
<1>3. Within(b, Tip(committed)[Len(committed)])
  BY <1>1, InLogWithin
<1> QED  BY <1>2, <1>3, PureLess DEF OnceInv

LEMMA OnceFrame ==
  ASSUME IInv, OnceInv, NEW n \in Node, committed' = committed,
         Exclusive(unsent, outbox, net)', Waiting' \subseteq Waiting,
         \A m \in Node \ {n} : /\ log'[m] = log[m] /\ chain'[m] = chain[m] /\ raft'[m] = raft[m],
         Extends(log'[n], committed) => Pure(Waiting', Top(n)'),
         Leader(n)' /\ Serving(n, chain[n])' => Pure(Waiting', chain'[n].bc)
  PROVE  OnceInv'
<1>1. Pure(Waiting, Tip(committed)[Len(committed)])'
  BY DEF OnceInv, Pure
<1>2. ASSUME NEW m \in Node PROVE OnceOK(m)'
  <2>1. CASE m = n
    BY <2>1 DEF OnceOK
  <2>2. CASE m # n
    <3>1. OnceOK(m) /\ log'[m] = log[m] /\ chain'[m] = chain[m] /\ raft'[m] = raft[m]
      BY <2>2 DEF OnceInv
    <3> QED  BY <3>1 DEF OnceOK, Pure, Top, Leader, Serving
  <2> QED  BY <2>1, <2>2
<1> QED  BY <1>1, <1>2 DEF OnceInv

(* A step that takes nothing from a client, an outbox or the network.      *)
LEMMA OnceStep ==
  ASSUME IInv, OnceInv, NEW n \in Node, UNCHANGED inputVars, committed' = committed,
         \A m \in Node \ {n} : /\ log'[m] = log[m] /\ chain'[m] = chain[m] /\ raft'[m] = raft[m],
         Extends(log'[n], committed) => Pure(Waiting, Top(n)'),
         Leader(n)' /\ Serving(n, chain[n])' => Pure(Waiting, chain'[n].bc)
  PROVE  OnceInv'
<1>1. unsent' = unsent /\ outbox' = outbox /\ net' = net
  BY DEF inputVars
<1>2. Waiting' = Waiting /\ Exclusive(unsent, outbox, net)'
  BY <1>1 DEF Waiting, OnceInv, Exclusive, Waits
<1> QED  BY <1>2, OnceFrame

(* A deposed leader lacks a committed entry whatever it appends.           *)
LEMMA LeaderAppends ==
  ASSUME Types, TermInv, NEW n \in Node, raft[n].role = "leader", NEW e \in LogEntry,
         e.term = raft[n].term, Extends(Append(log[n], e), committed)
  PROVE  Extends(log[n], committed)
<1>0. /\ log[n] \in Seq(LogEntry) /\ Len(log[n]) \in Nat /\ DOMAIN log[n] = 1 .. Len(log[n])
      /\ \A i \in DOMAIN log[n] : log[n][i].term \in Nat
      /\ Len(committed) \in Nat /\ DOMAIN committed = 1 .. Len(committed)
      /\ \A i \in DOMAIN committed : committed[i].term \in Nat
      /\ raft[n].term \in Nat
  BY LogTypes
<1> DEFINE t == Append(log[n], e)
<1>1. /\ Len(t) = Len(log[n]) + 1 /\ t[Len(log[n]) + 1] = e
      /\ \A i \in 1 .. Len(log[n]) : t[i] = log[n][i]
  BY <1>0, AppendProperties
<1> HIDE DEF t
<1>2. /\ \A i \in DOMAIN log[n] : log[n][i].term <= raft[n].term
      /\ Deposed(n) \/ Extends(log[n], committed)
  BY DEF TermInv, TermOK
<1>3. ASSUME Deposed(n) PROVE FALSE
  <2>1. PICK i \in DOMAIN committed : committed[i].term > raft[n].term
    BY <1>3 DEF Deposed
  <2>2. i \in 1 .. Len(log[n]) + 1 /\ t[i] = committed[i]
    BY <1>0, <1>1 DEF Extends, t
  <2>3. t[i].term <= raft[n].term
    <3>1. CASE i = Len(log[n]) + 1
      BY <1>0, <1>1, <3>1
    <3>2. CASE i \in 1 .. Len(log[n])
      BY <1>0, <1>1, <1>2, <3>2
    <3> QED  BY <1>0, <2>2, <3>1, <3>2
  <2> QED  BY <1>0, <2>1, <2>2, <2>3
<1> QED  BY <1>2, <1>3

LEMMA RaftOnce ==
  ASSUME IInv, OnceInv, NEW n \in Node, Raft(n)
  PROVE  OnceInv'
<1>0. Types /\ TermInv /\ LogInv /\ \A m \in Node : log[m] \in Seq(LogEntry) /\ OnceOK(m)
  BY DEF IInv, Types, OnceInv
<1>1. CASE Timeout(n)
  <2>1. /\ UNCHANGED <<log, committed, chain>> /\ UNCHANGED inputVars
        /\ raft' = [raft EXCEPT ![n].role = "candidate", ![n].lead = Nil]
    BY <1>1 DEF Timeout
  <2>2. raft'[n].role = "candidate" /\ \A m \in Node \ {n} : raft'[m] = raft[m]
    BY <1>0, <2>1 DEF Types
  <2>3. ~Leader(n)'
    BY <2>2 DEF Leader
  <2>4. Extends(log'[n], committed) => Pure(Waiting, Top(n)')
    BY <1>0, <2>1 DEF OnceOK, Top
  <2> QED  BY <2>1, <2>2, <2>3, <2>4, OnceStep
<1>2. CASE Elect(n)
  <2> DEFINE e == Entry(term + 1, "empty", Genesis, {})
  <2>1. /\ UNCHANGED <<committed, chain>> /\ UNCHANGED inputVars
        /\ log' = [log EXCEPT ![n] = Append(log[n], e)] /\ chain[n].lead = Nil
        /\ raft' = [raft EXCEPT ![n] = [role |-> "leader", lead |-> n, term |-> term + 1,
                                        pending |-> Len(log[n])]]
        /\ IsPrefix(committed, log[n])
    BY <1>2 DEF Elect
  <2>2. e \in LogEntry /\ e.type = "empty"
    BY <1>0, GenesisType, ChainAssumption DEF Types, Entry, LogEntry
  <2> HIDE DEF e
  <2>3. log'[n] = Append(log[n], e) /\ \A m \in Node \ {n} : log'[m] = log[m] /\ raft'[m] = raft[m]
    BY <1>0, <2>1 DEF Types
  <2>4. Top(n)' = Top(n)
    BY <1>0, <2>2, <2>3, AppendLog DEF Top, TipStep
  <2>5. Extends(log[n], committed)
    BY <1>0, <2>1, ExtendsOrder DEF Types
  <2>6. ~Serving(n, chain[n])'
    BY <2>1, ChainAssumption DEF Serving
  <2> QED  BY <1>0, <2>1, <2>3, <2>4, <2>5, <2>6, OnceStep DEF OnceOK
<1>3. CASE Replicate(n)
  <2>1. PICK l \in Node : /\ UNCHANGED <<committed, chain>> /\ UNCHANGED inputVars
                          /\ log' = [log EXCEPT ![n] = log[l]]
                          /\ raft' = [raft EXCEPT ![n] = [@ EXCEPT !.role = "follower",
                                                                   !.lead = l, !.term = term]]
    BY <1>3 DEF Replicate
  <2>2. /\ log'[n] = log[l] /\ raft'[n].role = "follower"
        /\ \A m \in Node \ {n} : log'[m] = log[m] /\ raft'[m] = raft[m]
    BY <1>0, <2>1 DEF Types
  <2>3. ~Leader(n)'
    BY <2>2 DEF Leader
  <2>4. Extends(log'[n], committed) => Pure(Waiting, Top(n)')
    BY <1>0, <2>2 DEF OnceOK, Top
  <2> QED  BY <2>1, <2>2, <2>3, <2>4, OnceStep
<1>4. CASE Commit(n)
  <2>1. /\ UNCHANGED <<log, chain, raft>> /\ committed' = log[n] /\ UNCHANGED <<unsent, outbox, net>>
    BY <1>4 DEF Commit, inputVars
  <2>2. Extends(committed', committed) /\ \A m \in Node : Extends(log[m], committed)' => Extends(log[m], committed)
    BY <1>0, <1>4, CommitLogs
  <2>3. Pure(Waiting, Top(n))
    BY <1>0, <2>1, <2>2 DEF OnceOK
  <2>4. Waiting' = Waiting /\ Exclusive(unsent, outbox, net)'
    BY <2>1 DEF Waiting, OnceInv, Exclusive, Waits
  <2>5. Pure(Waiting, Tip(committed)[Len(committed)])'
    BY <2>1, <2>3, <2>4 DEF Pure, Top
  <2>6. ASSUME NEW m \in Node PROVE OnceOK(m)'
    <3>1. OnceOK(m) /\ (Extends(log[m], committed)' => Extends(log[m], committed))
          /\ Top(m)' = Top(m)
      BY <1>0, <2>1, <2>2 DEF Top
    <3> QED  BY <2>1, <2>4, <3>1 DEF OnceOK, Pure, Leader, Serving
  <2> QED  BY <2>4, <2>5, <2>6 DEF OnceInv
<1> QED  BY <1>1, <1>2, <1>3, <1>4 DEF Raft

(* A new leader continues from the last block it has written.              *)
LEMMA ApplyEndsOnce ==
  ASSUME IInv, OnceInv, NEW n \in Node, NEW d \in Chain, InLog(committed, d.last),
         Serving(n, d) => Serving(n, chain[n]) /\ d.bc = chain[n].bc,
         chain' = [chain EXCEPT ![n] = AfterApply(n, d)],
         UNCHANGED raftVars, UNCHANGED <<outbox, net, unsent>>
  PROVE  OnceInv'
<1>0. Types /\ OnceOK(n)
  BY DEF IInv, OnceInv
<1>1. /\ AfterApply(n, d).lead = d.lead
      /\ \/ AfterApply(n, d).justElected = d.justElected /\ AfterApply(n, d).bc = d.bc
         \/ AfterApply(n, d).bc = d.last
  BY <1>0, AfterApplyEffect
<1>2. chain'[n] = AfterApply(n, d) /\ \A m \in Node \ {n} : chain'[m] = chain[m]
  BY <1>0 DEF Types
<1>3. UNCHANGED <<raft, log, committed, unsent, outbox, net>>
  BY DEF raftVars
<1>4. Waiting' = Waiting /\ Exclusive(unsent, outbox, net)'
  BY <1>3 DEF Waiting, OnceInv, Exclusive, Waits
<1>5. Extends(log'[n], committed) => Pure(Waiting', Top(n)')
  BY <1>0, <1>3, <1>4 DEF OnceOK, Top
<1>6. ASSUME Leader(n)', Serving(n, chain[n])' PROVE Pure(Waiting', chain'[n].bc)
  <2>1. CASE chain'[n].bc = d.last
    BY <1>4, <2>1, CommittedPure
  <2>2. CASE chain'[n].bc # d.last
    BY <1>0, <1>1, <1>2, <1>3, <1>4, <1>6, <2>2 DEF Serving, Leader, OnceOK
  <2> QED  BY <2>1, <2>2
<1> QED  BY <1>2, <1>3, <1>4, <1>5, <1>6, OnceFrame

(* What applying a configuration change makes of a chain.                  *)
LEMMA ConfChain ==
  ASSUME IInv, NEW n \in Node, ApplyConfChange(n)
  PROVE  /\ CanRead(n) /\ NextEntry(n).type = "conf"
         /\ UNCHANGED <<mode, raftVars, inputVars>> /\ UNCHANGED <<ledger, snap>>
         /\ \E d \in Chain :
               LET t == NextEntry(n).blk.data[1]
               IN  /\ t \in Tx
                   /\ chain' = [chain EXCEPT ![n] = AfterApply(n, d)]
                   /\ SameLead(d, chain[n]) /\ d.last = chain[n].last
                   /\ d.read = chain[n].read + 1 /\ d.conf = chain[n].conf \cup {t}
                   /\ d.confProps = chain[n].confProps
                   /\ IF chain[n].confChange # t THEN SameConfig(d, chain[n])
                      ELSE d.confChange = Nil /\ d.configInflight = FALSE
<1> DEFINE o == chain[n]
           c == Advance(o)
           t == NextEntry(n).blk.data[1]
           d == [c EXCEPT !.conf = c.conf \cup {t}]
           f == IF c.confChange # t THEN d
                ELSE [d EXCEPT !.confChange = Nil, !.configInflight = FALSE]
<1>0. o \in Chain
  BY DEF IInv, Types
<1>1. /\ CanRead(n) /\ NextEntry(n).type = "conf" /\ chain' = [chain EXCEPT ![n] = AfterApply(n, f)]
      /\ UNCHANGED <<mode, raftVars, inputVars>> /\ UNCHANGED <<ledger, snap>>
  BY DEF ApplyConfChange, inputVars
<1>2. t \in Tx
  <2>1. NextEntry(n) \in LogEntry
    BY <1>1, ReadEntry
  <2>2. NextEntry(n).blk.data \in Seq(Tx) /\ NextEntry(n).blk.data # << >>
    BY <1>1, <2>1 DEF LogEntry, Block, Tx
  <2>3. 1 \in 1 .. Len(NextEntry(n).blk.data)
    BY <2>2, EmptySeq
  <2> QED  BY <2>2, <2>3, ElementOfSeq
<1>3. c \in Chain /\ SameLead(c, o) /\ c.last = o.last /\ c.read = o.read + 1
  BY <1>1, ReadEntry, AdvanceEffect
<1>4. c.conf = o.conf /\ c.confProps = o.confProps /\ SameConfig(c, o)
  BY <1>0 DEF Advance, Chain, SameConfig
<1> HIDE DEF c, t, o
<1>5. /\ f \in Chain /\ SameLead(f, c) /\ f.last = c.last /\ f.read = c.read
      /\ f.conf = c.conf \cup {t} /\ f.confProps = c.confProps
  BY <1>2, <1>3 DEF Chain, SameLead
<1>6. IF c.confChange # t THEN SameConfig(f, c) ELSE f.confChange = Nil /\ f.configInflight = FALSE
  BY <1>3 DEF Chain, SameConfig
<1> HIDE DEF f
<1>7. SameLead(f, o)
  BY <1>3, <1>5 DEF SameLead
<1>8. IF o.confChange # t THEN SameConfig(f, o) ELSE f.confChange = Nil /\ f.configInflight = FALSE
  BY <1>4, <1>6 DEF SameConfig
<1> QED  BY <1>1, <1>2, <1>3, <1>4, <1>5, <1>7, <1>8 DEF o, t

(* A soft state makes a node a leader that does not serve yet, or none.    *)
LEMMA SoftChain ==
  ASSUME Types, NEW n \in Node, ApplySoft(n)
  PROVE  \E d \in Chain :
            /\ chain' = [chain EXCEPT ![n] = AfterApply(n, d)]
            /\ d.last = chain[n].last /\ d.lead = raft[n].lead /\ ~Serving(n, d)
            /\ d.read = chain[n].read /\ d.conf = chain[n].conf /\ d.applied = chain[n].applied
            /\ \/ /\ d.configInflight = chain[n].configInflight
                  /\ d.confChange = chain[n].confChange /\ d.confProps = chain[n].confProps
                  /\ raft[n].lead # n
               \/ /\ raft[n].lead = n
                  /\ d.configInflight = BecomeLeader(chain[n]).configInflight
                  /\ d.confChange = BecomeLeader(chain[n]).confChange
                  /\ d.confProps = BecomeLeader(chain[n]).confProps
<1> DEFINE c    == chain[n]
           new  == raft[n].lead
           lost == c.lead = n /\ new # n
           d    == IF new = n /\ c.lead # n THEN BecomeLeader(c)
                   ELSE IF lost THEN BecomeFollower(c) ELSE c
           e    == [d EXCEPT !.lead = new]
<1>0. c \in Chain /\ new \in Node \cup {Nil}
  BY DEF Types
<1>1. chain' = [chain EXCEPT ![n] = AfterApply(n, e)] /\ new # c.lead
  BY DEF ApplySoft
<1>2. CASE new = n
  <2>1. d = BecomeLeader(c)
    BY <1>1, <1>2
  <2> HIDE DEF d
  <2>2. d \in Chain /\ SameIndex(d, c) /\ d.justElected
    BY <1>0, <2>1, BecomeLeaderEffect
  <2>3. d.conf = c.conf
    BY <1>0, <2>1 DEF BecomeLeader, Chain
  <2>4. /\ e \in Chain /\ e.last = d.last /\ e.lead = n /\ e.justElected /\ e.read = d.read
        /\ e.conf = d.conf /\ e.configInflight = d.configInflight /\ e.confChange = d.confChange
        /\ e.confProps = d.confProps /\ e.applied = d.applied
    BY <1>0, <1>2, <2>2 DEF Chain
  <2> HIDE DEF e
  <2>5. ~Serving(n, e)
    BY <2>4 DEF Serving
  <2>6. /\ e.last = c.last /\ e.lead = new /\ e.read = c.read /\ e.conf = c.conf
        /\ e.applied = c.applied /\ e.configInflight = BecomeLeader(c).configInflight
        /\ e.confChange = BecomeLeader(c).confChange /\ e.confProps = BecomeLeader(c).confProps
    BY <1>2, <2>1, <2>2, <2>3, <2>4 DEF SameIndex
  <2> QED  BY <1>1, <1>2, <2>4, <2>5, <2>6
<1>3. CASE new # n
  <2>1. d \in {BecomeFollower(c), c}
    BY <1>3
  <2>2. /\ d \in Chain /\ d.last = c.last /\ d.read = c.read /\ d.conf = c.conf
        /\ d.configInflight = c.configInflight /\ d.confChange = c.confChange
        /\ d.confProps = c.confProps /\ d.applied = c.applied
    <3> HIDE DEF d
    <3>1. CASE d = c
      BY <1>0, <3>1
    <3>2. CASE d = BecomeFollower(c)
      <4>1. d \in Chain /\ SameIndex(d, c)
        BY <1>0, <3>2, BecomeFollowerEffect
      <4>2. /\ d.conf = c.conf /\ d.configInflight = c.configInflight
            /\ d.confChange = c.confChange /\ d.confProps = c.confProps
        BY <1>0, <3>2 DEF BecomeFollower, Chain
      <4> QED  BY <4>1, <4>2 DEF SameIndex
    <3> QED  BY <2>1, <3>1, <3>2
  <2> HIDE DEF d
  <2>3. /\ e \in Chain /\ e.last = d.last /\ e.lead = new /\ e.read = d.read
        /\ e.conf = d.conf /\ e.configInflight = d.configInflight /\ e.confChange = d.confChange
        /\ e.confProps = d.confProps /\ e.applied = d.applied
    BY <1>0, <2>2 DEF Chain
  <2> HIDE DEF e
  <2>4. ~Serving(n, e)
    BY <1>3, <2>3 DEF Serving
  <2> QED  BY <1>1, <1>3, <2>2, <2>3, <2>4
<1> QED  BY <1>2, <1>3

LEMMA ApplyOnce ==
  ASSUME IInv, OnceInv, NEW n \in Node, Apply(n)
  PROVE  OnceInv'
<1> DEFINE o == chain[n]
           c == Advance(o)
<1>0. Types /\ o \in Chain /\ InLog(committed, o.last)
  BY LastBlock DEF IInv, Types
<1>1. ASSUME CanRead(n) PROVE c \in Chain /\ SameLead(c, o) /\ c.last = o.last
  BY <1>1, ReadEntry, AdvanceEffect
<1>2. ASSUME NEW d \in Chain, SameLead(d, o), InLog(committed, d.last),
             chain' = [chain EXCEPT ![n] = AfterApply(n, d)], UNCHANGED <<mode, raftVars, inputVars>>
      PROVE  OnceInv'
  <2>1. Serving(n, d) => Serving(n, o) /\ d.bc = o.bc
    BY <1>2 DEF Serving, SameLead
  <2>2. UNCHANGED raftVars /\ UNCHANGED <<outbox, net, unsent>>
    BY <1>2 DEF inputVars
  <2> QED  BY <1>2, <2>1, <2>2, ApplyEndsOnce
<1>3. CASE ApplySoft(n)
  <2>1. PICK d \in Chain : /\ chain' = [chain EXCEPT ![n] = AfterApply(n, d)]
                           /\ d.last = o.last /\ ~Serving(n, d)
    BY <1>0, <1>3, SoftChain
  <2>2. UNCHANGED raftVars /\ UNCHANGED <<outbox, net, unsent>>
    BY <1>3 DEF ApplySoft
  <2> QED  BY <1>0, <2>1, <2>2, ApplyEndsOnce
<1>4. CASE SkipEntry(n)
  <2>1. CanRead(n) /\ chain' = [chain EXCEPT ![n] = AfterApply(n, c)]
        /\ UNCHANGED <<mode, raftVars, inputVars>>
    BY <1>4 DEF SkipEntry
  <2> HIDE DEF c
  <2> QED  BY <1>0, <1>1, <1>2, <2>1
<1>5. CASE ApplyBlock(n)
  <2> DEFINE b == NextEntry(n).blk
             d == WroteBlock(c, b)
  <2>1. CanRead(n) /\ chain' = [chain EXCEPT ![n] = AfterApply(n, d)]
        /\ NextEntry(n).type = "block" /\ UNCHANGED <<mode, raftVars, inputVars>>
    BY <1>5 DEF ApplyBlock
  <2>2. b \in Block /\ InLog(committed, b)
    BY <2>1, ReadEntry DEF LogEntry, InLog
  <2> HIDE DEF c, b
  <2>3. d \in Chain /\ SameLead(d, c) /\ d.last = b
    BY <1>1, <2>1, <2>2, WroteBlockEffect
  <2> HIDE DEF d
  <2>4. SameLead(d, o)
    BY <1>1, <2>1, <2>3 DEF SameLead
  <2> QED  BY <1>2, <2>1, <2>2, <2>3, <2>4
<1>6. CASE ApplyConfChange(n)
  <2>1. PICK d \in Chain : /\ CanRead(n) /\ chain' = [chain EXCEPT ![n] = AfterApply(n, d)]
                           /\ SameLead(d, o) /\ d.last = o.last
                           /\ UNCHANGED <<mode, raftVars, inputVars>>
    BY <1>6, ConfChain
  <2> QED  BY <1>0, <1>2, <2>1
<1> QED  BY <1>3, <1>4, <1>5, <1>6 DEF Apply

SameConf(d, c) ==
    SameConfig(d, c) /\ d.last = c.last /\ d.read = c.read /\ d.conf = c.conf

(* A leader appends the first block it has in flight, with the changes it  *)
(* knows; nothing else of the node changes.                                *)
LEMMA ProposeEffect ==
  ASSUME IInv, NEW n \in Node, Propose(n)
  PROVE  /\ UNCHANGED <<mode, raft, committed, ledger, snap>> /\ UNCHANGED inputVars
         /\ \A m \in Node \ {n} : chain'[m] = chain[m] /\ log'[m] = log[m]
         /\ /\ SameConf(chain'[n], chain[n]) /\ chain'[n].confProps = chain[n].confProps
            /\ chain'[n].lead = chain[n].lead /\ chain'[n].justElected = chain[n].justElected
            /\ chain'[n].bc = chain[n].bc /\ chain'[n].open = chain[n].open
         /\ Serving(n, chain[n])
         /\ \/ log'[n] = log[n]
            \/ \E e \in LogEntry :
                 /\ raft[n].role = "leader" /\ log'[n] = Append(log[n], e)
                 /\ e.term = raft[n].term /\ e.type = "block" /\ e.known = chain[n].conf
                 /\ Leader(n) => /\ e.blk = NextBlock(Top(n), e.blk.data)
                                 /\ e.blk.num # 0 /\ Within(e.blk, chain[n].bc)
<1> DEFINE c == chain[n]
           q == c.propC
           b == Head(q)
           d == [c EXCEPT !.propC = Tail(q)]
           f == [d EXCEPT !.proposer = "quit"]
           e == Entry(raft[n].term, "block", b, c.conf)
<1>0. Types /\ c \in Chain /\ log[n] \in Seq(LogEntry) /\ Leading(n, c, cutter[n].msgs)
  BY DEF IInv, Types, LeaderInv, LeaderOK
<1>1. /\ q # << >> /\ UNCHANGED <<mode, raft, committed, ledger, snap>> /\ UNCHANGED inputVars
      /\ \/ /\ raft[n].role = "leader"
            /\ log' = [log EXCEPT ![n] = Append(log[n], e)] /\ chain' = [chain EXCEPT ![n] = d]
         \/ log' = log /\ chain' = [chain EXCEPT ![n] = f]
  BY <1>0 DEF Propose, Chain
<1>2. Serving(n, c) /\ c.bc \in Block /\ q \in Seq(Block)
  BY <1>0, <1>1 DEF Leading, Chain
<1>3. b \in Block /\ Tail(q) \in Seq(Block)
  <2>1. Len(q) \in Nat /\ Len(q) # 0
    BY <1>1, <1>2, LenProperties, EmptySeq
  <2>2. 1 \in 1 .. Len(q)
    BY <2>1
  <2>3. b = q[1] /\ b \in Block
    BY <1>2, <2>2, ElementOfSeq DEF b
  <2> HIDE DEF q
  <2> QED  BY <1>1, <1>2, <2>3, HeadTailProperties
<1>4. ASSUME NEW x \in {d, f}
      PROVE  /\ SameConf(x, c) /\ x.confProps = c.confProps /\ x.lead = c.lead
             /\ x.justElected = c.justElected /\ x.bc = c.bc /\ x.open = c.open
  <2> DEFINE z == Tail(q)
  <2>1. d = [c EXCEPT !.propC = z] /\ z \in Seq(Block)
    BY <1>3
  <2> HIDE DEF z, d
  <2>2. /\ SameConf(d, c) /\ d.confProps = c.confProps /\ d.lead = c.lead
        /\ d.justElected = c.justElected /\ d.bc = c.bc /\ d.open = c.open /\ d \in Chain
    BY <1>0, <2>1 DEF Chain, SameConf, SameConfig
  <2>3. /\ SameConf(f, d) /\ f.confProps = d.confProps /\ f.lead = d.lead
        /\ f.justElected = d.justElected /\ f.bc = d.bc /\ f.open = d.open
    BY <2>2 DEF Chain, SameConf, SameConfig
  <2> HIDE DEF f
  <2> QED  BY <2>2, <2>3 DEF SameConf, SameConfig
<1>5. /\ e \in LogEntry /\ e.type = "block" /\ e.blk = b /\ e.known = c.conf
      /\ e.term = raft[n].term
  <2>1. raft[n].term \in Nat
    BY <1>0, ChainAssumption DEF Types
  <2>2. c.conf \in SUBSET Tx
    BY <1>0 DEF Chain
  <2> HIDE DEF b
  <2> QED  BY <1>3, <2>1, <2>2, EntryType
<1> HIDE DEF d, f, e
<1>6. ASSUME Leader(n)
      PROVE  b = NextBlock(Top(n), b.data) /\ b.num # 0 /\ Within(b, c.bc)
  <2>1. Leads(Top(n), q, c.bc)
    BY <1>0, <1>2, <1>6 DEF Leading, Leader, Top
  <2>2. Top(n) \in Block
    BY <1>0, TipDef, LenProperties DEF Top
  <2> HIDE DEF q
  <2> QED  BY <1>1, <1>2, <2>1, <2>2, LeadsWithin, LeadsPop
<1> HIDE DEF b, q
<1>7. (chain'[n] = d \/ chain'[n] = f) /\ \A m \in Node \ {n} : chain'[m] = chain[m] /\ log'[m] = log[m]
  BY <1>0, <1>1 DEF Types
<1>8. log'[n] = log[n] \/ (raft[n].role = "leader" /\ log'[n] = Append(log[n], e))
  BY <1>0, <1>1 DEF Types
<1>9. /\ SameConf(chain'[n], c) /\ chain'[n].confProps = c.confProps
      /\ chain'[n].lead = c.lead /\ chain'[n].justElected = c.justElected
      /\ chain'[n].bc = c.bc /\ chain'[n].open = c.open
  BY <1>4, <1>7
<1> QED  BY <1>1, <1>2, <1>5, <1>6, <1>7, <1>8, <1>9

LEMMA ProposeConfEffect ==
  ASSUME IInv, NEW n \in Node, ProposeConfChange(n)
  PROVE  /\ UNCHANGED <<mode, committed, ledger, snap>> /\ UNCHANGED inputVars
         /\ \A m \in Node \ {n} : chain'[m] = chain[m] /\ log'[m] = log[m] /\ raft'[m] = raft[m]
         /\ raft'[n].role = raft[n].role
         /\ SameLead(chain'[n], chain[n]) /\ SameConf(chain'[n], chain[n])
         /\ chain'[n].confProps \subseteq chain[n].confProps
         /\ \/ log'[n] = log[n]
            \/ \E t \in chain[n].confProps : \E e \in LogEntry :
                 /\ raft[n].role = "leader" /\ log'[n] = Append(log[n], e)
                 /\ e.term = raft[n].term /\ e.type # "block" /\ e.known = {}
                 /\ e.type = "conf" => e.blk.data = <<t>>
<1> DEFINE c == chain[n]
<1>0. Types /\ c \in Chain /\ raft[n].term \in Nat
  BY ChainAssumption DEF IInv, Types
<1>1. PICK t \in c.confProps :
        /\ chain' = [chain EXCEPT ![n].confProps = @ \ {t}]
        /\ \/ log' = log /\ raft' = raft
           \/ /\ raft[n].role = "leader"
              /\ \/ log' = [log EXCEPT ![n] = Append(@, Entry(raft[n].term, "empty", Genesis, {}))]
                 \/ log' = [log EXCEPT ![n] = Append(@,
                              Entry(raft[n].term, "conf", [Genesis EXCEPT !.data = <<t>>], {}))]
              /\ \E k : raft' = [raft EXCEPT ![n].pending = k]
        /\ UNCHANGED <<mode, committed, ledger, snap>> /\ UNCHANGED inputVars
  <2>1. PICK t \in c.confProps :
          LET refused == raft[n].pending > c.read
              cfg     == [Genesis EXCEPT !.data = <<t>>]
          IN  /\ chain' = [chain EXCEPT ![n].confProps = @ \ {t}]
              /\ IF raft[n].role # "leader" THEN UNCHANGED <<raft, log>>
                 ELSE /\ log' = [log EXCEPT ![n] = Append(@,
                             IF refused THEN Entry(raft[n].term, "empty", Genesis, {})
                             ELSE Entry(raft[n].term, "conf", cfg, {}))]
                      /\ raft' = [raft EXCEPT ![n].pending = IF refused THEN @ ELSE Len(log[n]) + 1]
              /\ UNCHANGED <<mode, term, committed, ledger, snap, inputVars, crashes, snaps>>
    BY DEF ProposeConfChange
  <2>2. raft[n].role = "leader" => \E k : raft' = [raft EXCEPT ![n].pending = k]
    BY <2>1
  <2> QED  BY <2>1, <2>2
<1> DEFINE g == [Genesis EXCEPT !.data = <<t>>]
           x == Entry(raft[n].term, "empty", Genesis, {})
           y == Entry(raft[n].term, "conf", g, {})
<1>2. Genesis \in Block /\ g \in Block /\ g.data = <<t>> /\ g.data # << >>
  <2>1. t \in Tx
    BY <1>0 DEF Chain
  <2>2. <<t>> \in Seq(Tx) /\ <<t>> # << >>
    BY <2>1
  <2> QED  BY <2>2, GenesisType DEF Genesis, Block, Tx
<1>3. log'[n] = log[n] \/ (raft[n].role = "leader" /\ log'[n] \in {Append(log[n], x), Append(log[n], y)})
  BY <1>0, <1>1 DEF Types
<1> HIDE DEF g
<1>4. /\ x \in LogEntry /\ x.term = raft[n].term /\ x.type = "empty" /\ x.known = {}
      /\ y \in LogEntry /\ y.term = raft[n].term /\ y.type = "conf" /\ y.known = {} /\ y.blk = g
  <2>1. {} \in SUBSET Tx
    OBVIOUS
  <2>2. x \in LogEntry /\ x.term = raft[n].term /\ x.type = "empty" /\ x.known = {}
    BY <1>0, <1>2, <2>1, EntryType
  <2>3. y \in LogEntry /\ y.term = raft[n].term /\ y.type = "conf" /\ y.known = {} /\ y.blk = g
    BY <1>0, <1>2, <2>1 DEF Entry, LogEntry
  <2> QED  BY <2>2, <2>3
<1> HIDE DEF x, y
<1>5. /\ \A m \in Node \ {n} : chain'[m] = chain[m] /\ log'[m] = log[m] /\ raft'[m] = raft[m]
      /\ raft'[n].role = raft[n].role
  BY <1>0, <1>1 DEF Types
<1>6. /\ SameLead(chain'[n], c) /\ SameConf(chain'[n], c) /\ chain'[n].confProps \subseteq c.confProps
  BY <1>0, <1>1 DEF Types, Chain, SameLead, SameConf, SameConfig
<1>7. \/ log'[n] = log[n]
      \/ \E e \in LogEntry :
           /\ raft[n].role = "leader" /\ log'[n] = Append(log[n], e)
           /\ e.term = raft[n].term /\ e.type # "block" /\ e.known = {}
           /\ e.type = "conf" => e.blk.data = <<t>>
  BY <1>2, <1>3, <1>4
<1> QED  BY <1>1, <1>5, <1>6, <1>7

LEMMA ProposeOnce ==
  ASSUME IInv, OnceInv, NEW n \in Node, Propose(n)
  PROVE  OnceInv'
<1> DEFINE c == chain[n]
<1>0. Types /\ TermInv /\ OnceOK(n) /\ log[n] \in Seq(LogEntry) /\ c \in Chain
  BY DEF IInv, OnceInv, Types
<1>1. /\ UNCHANGED <<raft, committed>> /\ UNCHANGED inputVars
      /\ \A m \in Node \ {n} : chain'[m] = chain[m] /\ log'[m] = log[m]
      /\ chain'[n].bc = c.bc /\ Serving(n, c)
  BY ProposeEffect
<1>2. ASSUME Extends(log'[n], committed)
      PROVE  Pure(Waiting, Top(n)') /\ Extends(log[n], committed)
  <2>1. CASE log'[n] = log[n]
    BY <1>0, <1>2, <2>1 DEF OnceOK, Top
  <2>2. CASE log'[n] # log[n]
    <3>1. PICK e \in LogEntry :
            /\ raft[n].role = "leader" /\ log'[n] = Append(log[n], e)
            /\ e.term = raft[n].term /\ e.type = "block"
            /\ Leader(n) => Within(e.blk, c.bc)
      BY <2>2, ProposeEffect
    <3>2. Extends(log[n], committed)
      BY <1>0, <1>2, <3>1, LeaderAppends
    <3>3. Leader(n) /\ Pure(Waiting, c.bc)
      BY <1>0, <1>1, <3>1, <3>2 DEF Leader, OnceOK
    <3>4. Top(n)' = e.blk
      BY <1>0, <3>1, AppendLog DEF Top, TipStep
    <3>5. e.blk \in Block /\ c.bc \in Block
      <4>1. Leading(n, c, cutter[n].msgs)
        BY DEF IInv, LeaderInv, LeaderOK
      <4> QED  BY <1>0, <1>1, <3>1, <4>1 DEF LogEntry, Leading, Chain
    <3> QED  BY <3>1, <3>2, <3>3, <3>4, <3>5, PureLess
  <2> QED  BY <2>1, <2>2
<1>3. ASSUME Leader(n)' PROVE Pure(Waiting, chain'[n].bc)
  <2>1. Leader(n)
    BY <1>1, <1>2, <1>3 DEF Leader
  <2> QED  BY <1>0, <1>1, <2>1 DEF OnceOK
<1> QED  BY <1>1, <1>2, <1>3, OnceStep

LEMMA ProposeConfChangeOnce ==
  ASSUME IInv, OnceInv, NEW n \in Node, ProposeConfChange(n)
  PROVE  OnceInv'
<1> DEFINE c == chain[n]
<1>0. Types /\ TermInv /\ OnceOK(n) /\ log[n] \in Seq(LogEntry)
  BY DEF IInv, OnceInv, Types
<1>1. /\ committed' = committed /\ UNCHANGED inputVars
      /\ \A m \in Node \ {n} : chain'[m] = chain[m] /\ log'[m] = log[m] /\ raft'[m] = raft[m]
      /\ SameLead(chain'[n], c) /\ raft'[n].role = raft[n].role
  BY ProposeConfEffect
<1>2. ASSUME Extends(log'[n], committed)
      PROVE  Pure(Waiting, Top(n)') /\ Extends(log[n], committed)
  <2>1. CASE log'[n] = log[n]
    BY <1>0, <1>2, <2>1 DEF OnceOK, Top
  <2>2. CASE log'[n] # log[n]
    <3>1. PICK e \in LogEntry :
            /\ raft[n].role = "leader" /\ log'[n] = Append(log[n], e)
            /\ e.term = raft[n].term /\ e.type # "block"
      BY <2>2, ProposeConfEffect
    <3>2. Extends(log[n], committed)
      BY <1>0, <1>2, <3>1, LeaderAppends
    <3>3. Top(n)' = Top(n)
      BY <1>0, <3>1, AppendLog DEF Top, TipStep
    <3> QED  BY <1>0, <3>2, <3>3 DEF OnceOK
  <2> QED  BY <2>1, <2>2
<1>3. ASSUME Leader(n)', Serving(n, chain[n])' PROVE Pure(Waiting, chain'[n].bc)
  <2>1. Leader(n) /\ Serving(n, c)
    BY <1>1, <1>2, <1>3 DEF Leader, SameLead, Serving
  <2> QED  BY <1>0, <1>1, <2>1 DEF OnceOK, SameLead
<1> QED  BY <1>1, <1>2, <1>3, OnceStep

LEMMA SuspectEvictionOnce ==
  ASSUME IInv, OnceInv, NEW n \in Node, SuspectEviction(n)
  PROVE  OnceInv'
<1>0. Types /\ OnceOK(n) /\ chain[n] \in Chain
  BY DEF IInv, OnceInv, Types
<1>1. PICK m \in Node : \E k \in DOMAIN ledger[m] :
        /\ CatchUp(n, chain[n], ledger[m][k]) /\ UNCHANGED <<raftVars, inputVars>>
        /\ chain[n].lead = Nil
  BY DEF SuspectEviction
<1>2. PICK k \in DOMAIN ledger[m] :
        /\ CatchUp(n, chain[n], ledger[m][k]) /\ UNCHANGED <<raftVars, inputVars>>
        /\ chain[n].lead = Nil
  BY <1>1
<1>3. ledger[m][k] \in Written
  <2>1. ledger[m] \in Seq(Written)
    BY <1>0 DEF Types
  <2> QED  BY <2>1, ElementOfSeq, LenProperties
<1>4. UNCHANGED <<raft, log, committed>> /\ UNCHANGED inputVars
  BY <1>2 DEF raftVars
<1>5. PICK X : chain' = [chain EXCEPT ![n] = X] /\ SameLead(X, chain[n])
  BY <1>0, <1>2, <1>3, CatchUpConfig
<1>6. chain'[n] = X /\ \A i \in Node \ {n} : chain'[i] = chain[i]
  BY <1>0, <1>5 DEF Types
<1>7. ~Serving(n, chain[n])'
  BY <1>2, <1>5, <1>6, ChainAssumption DEF Serving, SameLead
<1>8. Extends(log'[n], committed) => Pure(Waiting, Top(n)')
  BY <1>0, <1>4 DEF OnceOK, Top
<1> QED  BY <1>4, <1>6, <1>7, <1>8, OnceStep

LEMMA InstallSnapshotOnce ==
  ASSUME IInv, OnceInv, NEW n \in Node, InstallSnapshot(n)
  PROVE  OnceInv'
<1>0. Types /\ chain[n] \in Chain
  BY DEF IInv, Types
<1>1. PICK l \in Node \ {n} :
        LET s == [snap[l] EXCEPT !.conf = chain[l].conf]
        IN  /\ log' = [log EXCEPT ![n] = SubSeq(committed, 1, s.idx)]
            /\ raft' = [raft EXCEPT ![n] = [@ EXCEPT !.role = "follower", !.lead = l, !.term = term]]
            /\ HandleSnapshot(n, [chain[n] EXCEPT !.read = s.idx, !.conf = s.conf], s)
            /\ UNCHANGED <<mode, term, committed, inputVars, crashes, snaps>>
  BY ZenonT(30) DEF InstallSnapshot
<1> DEFINE s == [snap[l] EXCEPT !.conf = chain[l].conf]
           c == [chain[n] EXCEPT !.read = s.idx, !.conf = s.conf]
           t == SubSeq(committed, 1, s.idx)
           e == [blk |-> s.blk, idx |-> 0]
<1>2. /\ log' = [log EXCEPT ![n] = t] /\ HandleSnapshot(n, c, s)
      /\ committed' = committed /\ UNCHANGED inputVars
  BY <1>1
<1>3. s.idx \in Nat /\ s.idx <= Len(committed) /\ s.conf \subseteq Tx /\ s.blk \in Block
  <2>1. snap[l] \in Snapshot /\ chain[l] \in Chain /\ SnapshotOK(committed, snap[l])
    BY <1>0 DEF Types, IInv, WriteInv, IndexOK, Indexed
  <2> QED  BY <2>1 DEF Snapshot, Chain, SnapshotOK
<1> HIDE DEF s
<1>4. c \in Chain /\ e \in Written
  BY <1>0, <1>3 DEF Chain, Written
<1> HIDE DEF c, e
<1>5. \A m \in Node \ {n} : chain'[m] = chain[m]
  <2>1. CASE chain' = [chain EXCEPT ![n] = c] /\ UNCHANGED ledger
    BY <1>0, <2>1 DEF Types
  <2>2. CASE CatchUp(n, [c EXCEPT !.applied = s.idx], e)
    <3> DEFINE d == [c EXCEPT !.applied = s.idx]
    <3>1. d \in Chain
      BY <1>3, <1>4 DEF Chain
    <3> HIDE DEF d
    <3>2. CatchUp(n, d, e)
      BY <2>2 DEF d
    <3>3. PICK X : chain' = [chain EXCEPT ![n] = X]
      BY <1>4, <3>1, <3>2, CatchUpConfig
    <3> QED  BY <1>0, <3>3 DEF Types
  <2> QED  BY <1>2, <2>1, <2>2 DEF HandleSnapshot, e
<1>6. ASSUME Extends(t, committed) PROVE t = committed
  <2>1. committed \in Seq(LogEntry) /\ Len(committed) \in Nat /\ DOMAIN committed = 1 .. Len(committed)
    BY <1>0, LenProperties DEF Types
  <2>2. Len(t) = s.idx /\ t \in Seq(LogEntry)
    BY <1>3, <2>1, SubSeqProperties
  <2> HIDE DEF t
  <2> QED  BY <1>3, <1>6, <2>1, <2>2, ExtendsOrder
<1> HIDE DEF t
<1>7. /\ log'[n] = t /\ raft'[n].role = "follower"
      /\ \A m \in Node \ {n} : log'[m] = log[m] /\ raft'[m] = raft[m]
  BY <1>0, <1>1, <1>2 DEF Types
<1>8. Extends(log'[n], committed) => Pure(Waiting, Top(n)')
  BY <1>6, <1>7 DEF OnceInv, Top
<1>9. ~Leader(n)'
  BY <1>7 DEF Leader
<1> QED  BY <1>2, <1>5, <1>7, <1>8, <1>9, OnceStep

LEMMA RebootOnce ==
  ASSUME IInv, OnceInv, NEW n \in Node, Reboot(n), Exclusive(unsent, outbox, net)',
         Waiting' \subseteq Waiting
  PROVE  OnceInv'
<1>0. Types /\ OnceOK(n)
  BY DEF IInv, OnceInv
<1>1. PICK X : chain' = [chain EXCEPT ![n] = X]
  BY RebootChain
<1>2. UNCHANGED <<log, committed>> /\ raft' = [raft EXCEPT ![n].role = "follower", ![n].lead = Nil]
  BY DEF Reboot
<1>3. \A m \in Node \ {n} : chain'[m] = chain[m] /\ raft'[m] = raft[m]
  BY <1>0, <1>1, <1>2 DEF Types
<1>4. ~Leader(n)'
  BY <1>0, <1>2 DEF Leader, Types
<1>5. Extends(log'[n], committed) => Pure(Waiting', Top(n)')
  BY <1>0, <1>2 DEF OnceOK, Top, Pure
<1> QED  BY <1>2, <1>3, <1>4, <1>5, OnceFrame

LEMMA ConfigDataIs ==
  ASSUME NEW d \in Seq(Tx)
  PROVE  IsConfigData(d) <=> \E t \in ConfigTx : d = <<t>>
<1>1. ASSUME IsConfigData(d) PROVE \E t \in ConfigTx : d = <<t>>
  <2>1. Len(d) = 1 /\ d[1] \in ConfigTx
    BY <1>1 DEF IsConfigData
  <2>2. d = <<d[1]>>
    BY <2>1
  <2> QED  BY <2>1, <2>2
<1>2. ASSUME NEW t \in ConfigTx, d = <<t>> PROVE IsConfigData(d)
  BY <1>2 DEF IsConfigData
<1> QED  BY <1>1, <1>2

(***************************************************************************)
(* A leader makes blocks of data with a configuration only at the end: the *)
(* one before the last has no configuration that was not there before.     *)
(***************************************************************************)
SameHistory(p, b) ==
    /\ \A t \in ConfigTx : Holds(Hash(p), t) <=> Holds(Hash(b), t)
    /\ Once(Hash(b)) => Once(Hash(p))

(* X is c with blocks made of data, whose configuration, if any, is in R.  *)
Served(c, X, R) ==
    /\ X.lead = c.lead /\ X.justElected = c.justElected /\ X.last = c.last
    /\ X.read = c.read /\ X.conf = c.conf /\ X.confChange = c.confChange
    /\ X.confProps = c.confProps /\ X.bc \in Block
    /\ \/ X.bc = c.bc /\ X.configInflight = c.configInflight
       \/ \E p \in Block, d \in Seq(Tx) :
             /\ X.bc = NextBlock(p, d) /\ SameHistory(p, c.bc)
             /\ \A t \in ConfigTx : d = <<t>> => t \in R
             /\ X.configInflight = (c.configInflight \/ IsConfigData(d))

LEMMA CreateBlocksHistory ==
  ASSUME NEW c \in Chain, c.bc \in Block, NEW datas \in Seq(Seq(Tx)), InOrder(datas),
         NEW R, \A i \in DOMAIN datas : \A t \in ConfigTx : datas[i] = <<t>> => t \in R
  PROVE  Served(c, CreateBlocks(c, datas), R)
<1> DEFINE m == Len(datas)
           S == {x \in Chain : x.bc \in Block}
<1>0. m \in Nat /\ DOMAIN datas = 1 .. m
      /\ \A i \in 1 .. m : /\ datas[i] \in Seq(Tx) /\ (IsConfigData(datas[i]) => i = m)
                           /\ \A t \in ConfigTx : datas[i] = <<t>> => t \in R
  BY LenProperties, ElementOfSeq DEF InOrder
<1>1. PICK g \in [0 .. m -> S] :
        /\ g[0] = c /\ \A i \in 1 .. m : g[i] = CreateBlock(g[i - 1], datas[i])
        /\ CreateBlocks(c, datas) = g[m]
  BY CreateBlocksDef
<1> HIDE DEF m
<1> DEFINE Same(x) == /\ x.lead = c.lead /\ x.justElected = c.justElected /\ x.last = c.last
                      /\ x.read = c.read /\ x.conf = c.conf /\ x.confChange = c.confChange
                      /\ x.confProps = c.confProps
           Q(x, i) == /\ Same(x)
                      /\ i # m => SameHistory(x.bc, c.bc) /\ x.configInflight = c.configInflight
                      /\ i = m => \/ x.bc = c.bc /\ x.configInflight = c.configInflight
                                  \/ \E p \in Block, d \in Seq(Tx) :
                                       /\ x.bc = NextBlock(p, d) /\ SameHistory(p, c.bc)
                                       /\ \A t \in ConfigTx : d = <<t>> => t \in R
                                       /\ x.configInflight = (c.configInflight \/ IsConfigData(d))
           P == {i \in Nat : i <= m => Q(g[i], i)}
<1>2. 0 \in P
  BY <1>1 DEF SameHistory
<1>3. ASSUME NEW i \in Nat, i \in P PROVE i + 1 \in P
  <2> SUFFICES ASSUME i + 1 <= m PROVE Q(g[i + 1], i + 1)
    OBVIOUS
  <2>1. i + 1 \in 1 .. m /\ (i + 1) - 1 = i /\ i \in 0 .. m /\ Q(g[i], i) /\ i # m /\ i + 1 # 0
    BY <1>0, <1>3
  <2> DEFINE y == g[i]
             d == datas[i + 1]
             z == g[i + 1]
             b == NextBlock(y.bc, d)
  <2>2. z = CreateBlock(y, d) /\ d \in Seq(Tx) /\ y \in Chain /\ y.bc \in Block
        /\ (IsConfigData(d) => i + 1 = m) /\ \A t \in ConfigTx : d = <<t>> => t \in R
    BY <1>0, <1>1, <2>1
  <2>3. Same(y) /\ SameHistory(y.bc, c.bc) /\ y.configInflight = c.configInflight
    BY <2>1
  <2> HIDE DEF y, z, b, d, Q, Same
  <2>4. /\ b \in Block /\ b.data = d
        /\ \A t \in ConfigTx : Holds(Hash(b), t) <=> Holds(Hash(y.bc), t) \/ d = <<t>>
        /\ Once(Hash(b)) <=> Once(Hash(y.bc)) /\ \A t \in ConfigTx : d = <<t>> => ~Holds(Hash(y.bc), t)
    BY <2>2, HistoryNext DEF b
  <2>5. z.bc = b /\ z.configInflight = (y.configInflight \/ IsConfigData(d)) /\ Same(z)
    <3>1. IsConfigBlock(b) = IsConfigData(d)
      BY <2>4 DEF IsConfigBlock
    <3>2. z = [y EXCEPT !.bc = b, !.propC = Append(@, b), !.blockInflight = @ + 1,
                        !.configInflight = @ \/ IsConfigBlock(b)]
      BY <2>2 DEF CreateBlock, b
    <3> QED  BY <2>2, <2>3, <3>1, <3>2 DEF Chain, Same
  <2>6. CASE i + 1 = m
    <3>1. z.bc = NextBlock(y.bc, d) /\ z.configInflight = (c.configInflight \/ IsConfigData(d))
      BY <2>3, <2>5 DEF b
    <3>2. \E p \in Block, e \in Seq(Tx) :
             /\ z.bc = NextBlock(p, e) /\ SameHistory(p, c.bc)
             /\ \A t \in ConfigTx : e = <<t>> => t \in R
             /\ z.configInflight = (c.configInflight \/ IsConfigData(e))
      BY <2>2, <2>3, <3>1, Zenon
    <3> QED  BY <2>5, <2>6, <3>2 DEF Q, z
  <2>7. CASE i + 1 # m
    <3>1. ~IsConfigData(d)
      BY <2>2, <2>7
    <3>2. \A t \in ConfigTx : d # <<t>>
      BY <2>2, <3>1, ConfigDataIs
    <3>3. SameHistory(b, c.bc)
      BY <2>3, <2>4, <3>2 DEF SameHistory
    <3>4. z.configInflight = c.configInflight
      <4>1. y.configInflight \in BOOLEAN
        BY <2>2 DEF Chain
      <4> QED  BY <2>3, <2>5, <3>1, <4>1
    <3> QED  BY <2>5, <2>7, <3>3, <3>4 DEF Q, z
  <2> QED  BY <2>6, <2>7
<1>4. Nat \subseteq P
  <2> HIDE DEF P
  <2> QED  BY <1>2, <1>3, SetInduction
<1>5. Q(g[m], m) /\ g[m] \in S
  <2>1. m \in P /\ m <= m /\ m \in 0 .. m
    BY <1>0, <1>4
  <2>2. Q(g[m], m)
    <3> HIDE DEF Q
    <3> QED  BY <2>1
  <2> QED  BY <1>1, <2>1, <2>2
<1> DEFINE e == CreateBlocks(c, datas)
<1>6. Q(e, m) /\ e.bc \in Block
  BY <1>1, <1>5
<1> HIDE DEF e
<1> QED  BY <1>6 DEF Served, e

LEMMA TxsOne ==
  ASSUME NEW q \in Seq(Messages), NEW t, Txs(q) = <<t>>
  PROVE  \E k \in DOMAIN q : q[k].tx = t
<1>1. Len(Txs(q)) = Len(q) /\ DOMAIN q = 1 .. Len(q)
  BY TxsLen, LenProperties
<1>2. 1 \in DOMAIN q
  BY <1>1
<1>3. Txs(q)[1] = q[1].tx
  BY <1>2 DEF Txs
<1> QED  BY <1>2, <1>3

(* A configuration in the data of a request was in the request.            *)
LEMMA ValidDataFrom ==
  ASSUME NEW c, NEW bs \in Seq(Seq(Messages)), NEW i \in DOMAIN ValidData(c, bs),
         NEW t, ValidData(c, bs)[i] = <<t>>
  PROVE  InRequest(t, bs)
<1> DEFINE S == {b \in Range(bs) : b[1].tx \notin ConfigTx \/ StillValid(c, b[1])}
           kept == Keep(bs, S)
           V == {m \in Range(kept[i]) : StillValid(c, m)}
           y == Keep(kept[i], V)
           M == Seq(Messages)
<1>1. i \in DOMAIN kept /\ Txs(y) = <<t>>
  BY DEF ValidData
<1>2. bs \in Seq(M)
  OBVIOUS
<1> HIDE DEF S, V, M
<1>3. kept \in Seq(M) /\ \A k \in DOMAIN kept : \E j \in DOMAIN bs : kept[k] = bs[j]
  BY <1>2, KeepType, KeepLess
<1> HIDE DEF kept
<1>4. PICK j \in DOMAIN bs : kept[i] = bs[j]
  BY <1>1, <1>3
<1>5. bs[j] \in M
  BY <1>2, ElementOfSeq, LenProperties
<1> DEFINE x == bs[j]
<1>6. x \in Seq(Messages) /\ y = Keep(x, V)
  BY <1>4, <1>5 DEF M
<1> HIDE DEF x, y
<1>7. y \in Seq(Messages) /\ \A k \in DOMAIN y : \E l \in DOMAIN x : y[k] = x[l]
  BY <1>6, KeepType, KeepLess
<1>8. PICK k \in DOMAIN y : y[k].tx = t
  BY <1>1, <1>7, TxsOne
<1>9. PICK l \in DOMAIN x : y[k] = x[l]
  BY <1>7
<1> QED  BY <1>8, <1>9 DEF InRequest, x

(* Beside the message only those the cutter held are in the batches, and   *)
(* they are no configurations.                                             *)
LEMMA OrderedMessageOne ==
  ASSUME NEW r \in Receiver, r.msgs \in Seq(Plain), NEW m \in Messages, NEW t \in ConfigTx,
         InRequest(t, OrderedMessage(r, m).batches)
  PROVE  m.tx = t
<1> DEFINE Good == {x \in Messages : x.tx \in ConfigTx => x.tx = m.tx}
           G == Seq(Good)
           bs == OrderedMessage(r, m).batches
<1>1. Plain \subseteq Good /\ m \in Good
  BY PlainIsDated DEF Plain
<1>2. ASSUME NEW x \in Good, x.tx = t PROVE m.tx = t
  BY <1>2
<1> HIDE DEF Good
<1>3. r.msgs \in Seq(Good)
  BY <1>1
<1>4. bs \in Seq(G)
  BY <1>1, <1>3, OrderedMessageFrom
<1>5. PICK i \in DOMAIN bs : \E k \in DOMAIN bs[i] : bs[i][k].tx = t
  BY DEF InRequest
<1> HIDE DEF bs, G
<1>6. bs[i] \in G
  BY <1>4, ElementOfSeq, LenProperties
<1> DEFINE q == bs[i]
<1>7. q \in Seq(Good) /\ \E k \in DOMAIN q : q[k].tx = t
  BY <1>5, <1>6 DEF G
<1> HIDE DEF q
<1>8. PICK k \in DOMAIN q : q[k].tx = t
  BY <1>7
<1>9. q[k] \in Good
  BY <1>7, ElementOfSeq, LenProperties
<1> QED  BY <1>2, <1>8, <1>9

LEMMA DataFromBatches ==
  ASSUME NEW bs \in Seq(Seq(Messages)), NEW i \in DOMAIN bs, NEW t, Txs(bs[i]) = <<t>>
  PROVE  InRequest(t, bs)
<1> DEFINE M == Seq(Messages)
<1>1. bs \in Seq(M)
  OBVIOUS
<1> HIDE DEF M
<1>2. bs[i] \in M
  BY <1>1, ElementOfSeq, LenProperties
<1>3. bs[i] \in Seq(Messages)
  BY <1>2 DEF M
<1> QED  BY <1>3, TxsOne DEF InRequest

(***************************************************************************)
(* A request is taken from where it waits and goes on, or is lost.         *)
(***************************************************************************)
TakenFrom(u, o, w, v, p, x, bs) ==
    /\ Exclusive(u, o, w) /\ v \subseteq u /\ x \subseteq w
    /\ \A n \in Node : p[n] = o[n] \/ p[n] = << >>
    /\ \A t \in ConfigTx : InRequest(t, bs) => t \in Waits(u, o, w) \ Waits(v, p, x)

LEMMA TakeRequest ==
  ASSUME NEW u, NEW o, NEW w, NEW v, NEW p, NEW x, NEW bs, TakenFrom(u, o, w, v, p, x, bs)
  PROVE  /\ Exclusive(v, p, x) /\ Waits(v, p, x) \subseteq Waits(u, o, w)
         /\ \A r : r.batches = bs => /\ Exclusive(v, p, x \cup {r})
                                     /\ Waits(v, p, x \cup {r}) \subseteq Waits(u, o, w)
         /\ \A n \in Node : \A q : q[n] = bs /\ (\A m \in Node \ {n} : q[m] = p[m]) =>
               Exclusive(v, q, x) /\ Waits(v, q, x) \subseteq Waits(u, o, w)
<1>0. /\ Exclusive(u, o, w) /\ v \in SUBSET u /\ x \in SUBSET w
      /\ \A n \in Node : p[n] = o[n] \/ p[n] = << >>
  BY DEF TakenFrom
<1>1. Exclusive(v, p, x) /\ Waits(v, p, x) \subseteq Waits(u, o, w)
  BY <1>0, FewerWait
<1>2. ASSUME NEW t \in ConfigTx, InRequest(t, bs)
      PROVE  /\ t \in Waits(u, o, w) /\ t \notin v /\ (\A n \in Node : ~InRequest(t, p[n]))
             /\ \A r \in x : ~InRequest(t, r.batches)
  BY <1>2 DEF Waits, TakenFrom
<1>3. ASSUME NEW r, r.batches = bs
      PROVE  Exclusive(v, p, x \cup {r}) /\ Waits(v, p, x \cup {r}) \subseteq Waits(u, o, w)
  <2>1. Exclusive(v, p, x \cup {r})
    BY <1>1, <1>2, <1>3 DEF Exclusive
  <2>2. Waits(v, p, x \cup {r}) \subseteq Waits(u, o, w)
    BY <1>1, <1>2, <1>3 DEF Waits
  <2> QED  BY <2>1, <2>2
<1>4. ASSUME NEW n \in Node, NEW q, q[n] = bs, \A m \in Node \ {n} : q[m] = p[m]
      PROVE  Exclusive(v, q, x) /\ Waits(v, q, x) \subseteq Waits(u, o, w)
  <2>1. Exclusive(v, q, x)
    BY <1>1, <1>2, <1>4 DEF Exclusive
  <2>2. Waits(v, q, x) \subseteq Waits(u, o, w)
    BY <1>1, <1>2, <1>4 DEF Waits
  <2> QED  BY <2>1, <2>2
<1> QED  BY <1>1, <1>3, <1>4

(* The configurations of a request.                                        *)
ConfigsOf(bs) == {t \in ConfigTx : InRequest(t, bs)}

(***************************************************************************)
(* A leader makes blocks of a request or of what its cutter holds. Another *)
(* configuration in flight closes submitC and leaves nothing in the cutter.*)
(***************************************************************************)
MakesBlocks(n, R) ==
    /\ Serving(n, chain[n]) /\ UNCHANGED <<mode, raftVars, ledger, snap>>
    /\ \A m \in Node \ {n} : chain'[m] = chain[m] /\ cutter'[m] = cutter[m]
    /\ Served(chain[n], chain'[n], R)
    /\ chain[n].open \/ (~mode /\ cutter[n].msgs # << >>)
    /\ chain'[n].open => chain[n].open
    /\ chain'[n].configInflight # chain[n].configInflight =>
         ~chain'[n].open /\ (~mode => cutter'[n].msgs = << >>)

LEMMA ProposeOrPanicMakes ==
  ASSUME IInv, NEW n \in Node, Serving(n, chain[n]), NEW datas \in Seq(Seq(Tx)), InOrder(datas),
         NEW R, \A i \in DOMAIN datas : \A t \in ConfigTx : datas[i] = <<t>> => t \in R,
         NEW rest, NEW out, NEW o \in BOOLEAN,
         ProposeOrPanic(n, datas, [CreateBlocks(chain[n], datas) EXCEPT !.open = o], rest, out),
         o => chain[n].open, chain[n].open \/ (~mode /\ cutter[n].msgs # << >>),
         \/ \A i \in DOMAIN datas : ~IsConfigData(datas[i])
         \/ /\ o => ~CreateBlocks(chain[n], datas).configInflight
            /\ ~mode /\ (\E i \in DOMAIN datas : IsConfigData(datas[i])) => rest.msgs = << >>
  PROVE  Reboot(n) \/ (MakesBlocks(n, R) /\ outbox' = out)
<1> DEFINE c == chain[n]
           d == CreateBlocks(c, datas)
           X == [d EXCEPT !.open = o]
<1>0. Types /\ c \in Chain
  BY DEF IInv, Types
<1> SUFFICES ASSUME /\ chain' = [chain EXCEPT ![n] = X] /\ cutter' = [cutter EXCEPT ![n] = rest]
                    /\ outbox' = out /\ UNCHANGED <<mode, raftVars, ledger, snap, snaps>>
             PROVE  MakesBlocks(n, R)
  BY DEF ProposeOrPanic
<1>1. c.bc \in Block
  <2>1. Leading(n, c, cutter[n].msgs)
    BY DEF IInv, LeaderInv, LeaderOK
  <2> QED  BY <1>0, <2>1 DEF Leading, Chain
<1>2. d \in Chain /\ Served(c, d, R)
  BY <1>0, <1>1, CreateBlocksEffect, CreateBlocksHistory
<1>3. d.configInflight = c.configInflight \/ \E i \in DOMAIN datas : IsConfigData(datas[i])
  <2>1. CASE \A i \in DOMAIN datas : ~IsConfigData(datas[i])
    <3>1. \A i \in DOMAIN datas : datas[i] \in Seq(Tx)
      BY ElementOfSeq, LenProperties
    <3>2. \A i \in DOMAIN datas : \A t \in ConfigTx : datas[i] # <<t>>
      BY <2>1, <3>1, ConfigDataIs
    <3>3. Served(c, d, {})
      BY <1>0, <1>1, <3>2, CreateBlocksHistory
    <3>4. c.configInflight \in BOOLEAN
      BY <1>0 DEF Chain
    <3> HIDE DEF d
    <3>5. CASE d.bc = c.bc /\ d.configInflight = c.configInflight
      BY <3>5
    <3>6. CASE \E p \in Block, e \in Seq(Tx) :
                  /\ \A t \in ConfigTx : e = <<t>> => t \in {}
                  /\ d.configInflight = (c.configInflight \/ IsConfigData(e))
      <4>1. PICK p \in Block, e \in Seq(Tx) :
                  /\ \A t \in ConfigTx : e = <<t>> => t \in {}
                  /\ d.configInflight = (c.configInflight \/ IsConfigData(e))
        BY <3>6
      <4>2. ~IsConfigData(e)
        BY <4>1, ConfigDataIs
      <4> QED  BY <3>4, <4>1, <4>2
    <3> QED  BY <3>3, <3>5, <3>6, Zenon DEF Served
  <2> QED  BY <2>1
<1> HIDE DEF d
<1>4. /\ X.lead = d.lead /\ X.justElected = d.justElected /\ X.last = d.last /\ X.read = d.read
      /\ X.conf = d.conf /\ X.confChange = d.confChange /\ X.confProps = d.confProps
      /\ X.bc = d.bc /\ X.configInflight = d.configInflight /\ X.open = o
  BY <1>2 DEF Chain
<1> HIDE DEF X
<1>5. Served(c, X, R)
  BY <1>2, <1>4 DEF Served
<1>6. /\ chain'[n] = X /\ cutter'[n] = rest
      /\ \A m \in Node \ {n} : chain'[m] = chain[m] /\ cutter'[m] = cutter[m]
  BY <1>0 DEF Types
<1>7. ASSUME X.configInflight # c.configInflight
      PROVE  ~X.open /\ (~mode => rest.msgs = << >>)
  <2>1. \E i \in DOMAIN datas : IsConfigData(datas[i])
    BY <1>3, <1>4, <1>7
  <2>2. X.configInflight
    <3>1. c.configInflight \in BOOLEAN /\ X.configInflight \in BOOLEAN
      BY <1>0, <1>2, <1>4 DEF Chain
    <3>2. c.configInflight => X.configInflight
      BY <1>5 DEF Served
    <3> QED  BY <1>7, <3>1, <3>2
  <2>3. (o => ~d.configInflight) /\ (~mode => rest.msgs = << >>)
    BY <2>1 DEF d
  <2> QED  BY <1>4, <2>2, <2>3
<1> QED  BY <1>4, <1>5, <1>6, <1>7 DEF MakesBlocks

(* A request is served, and its leader may panic, forwarded or lost.       *)
LEMMA SubmitEffect ==
  ASSUME IInv, OutdatedInv, NEW n \in Node, NEW batches \in Batches \ {<< >>},
         batches \in DatedBatches, NEW rest, NEW out, Submit(n, batches, rest, out)
  PROVE  \/ Reboot(n) /\ net' = rest
         \/ MakesBlocks(n, ConfigsOf(batches)) /\ outbox' = out /\ net' = rest
         \/ /\ UNCHANGED <<mode, raftVars, chain, ledger, snap, cutter>> /\ outbox' = out
            /\ net' = rest \/ \E l : net' = rest \cup {[to |-> l, batches |-> batches]}
<1> DEFINE c == chain[n]
           R == ConfigsOf(batches)
<1>0. /\ cutter[n].msgs \in Seq(Plain)
      /\ Types /\ c \in Chain /\ cutter[n] \in Receiver /\ c.open
  BY OutdatedParts DEF Submit
<1>1. CASE c.lead = n
  <2>1. ServeSubmit(n, batches, out) /\ net' = rest
    BY <1>1 DEF Submit
  <2>2. Serving(n, c)
    <3>1. Leading(n, c, cutter[n].msgs)
      BY DEF IInv, LeaderInv, LeaderOK
    <3> QED  BY <1>0, <1>1, <3>1 DEF Leading, Serving, Chain
  <2> DEFINE m == batches[1][1]
             r == IF StillValid(c, m) THEN OrderedMessage(cutter[n], m)
                  ELSE [batches |-> << >>, rest |-> cutter[n]]
             ds == [i \in DOMAIN r.batches |-> Txs(r.batches[i])]
             datas == IF mode THEN ValidData(c, batches) ELSE ds
             q == IF mode THEN cutter[n] ELSE r.rest
             d == CreateBlocks(c, datas)
             o == ~d.configInflight /\ d.blockInflight < MaxInflightBlocks
  <2>3. ProposeOrPanic(n, datas, [d EXCEPT !.open = o], q, out)
    BY <2>1 DEF ServeSubmit, AfterSubmit
  <2>4. m \in Dated /\ m \in Messages /\ batches \in Seq(Seq(Messages)) /\ InRequest(m.tx, batches)
    <3>1. batches \in Seq(Seq(Messages)) /\ batches # << >> /\ \A i \in DOMAIN batches : batches[i] # << >>
      BY DEF Batches
    <3>2. 1 \in 1 .. Len(batches) /\ DOMAIN batches = 1 .. Len(batches)
      BY <3>1, EmptySeq, LenProperties
    <3> DEFINE D == Seq(Dated)
    <3>3. batches \in Seq(D)
      BY DEF DatedBatches
    <3> HIDE DEF D
    <3>4. batches[1] \in D /\ batches[1] # << >>
      BY <3>1, <3>2, <3>3, ElementOfSeq
    <3>5. batches[1] \in Seq(Dated)
      BY <3>4 DEF D
    <3>6. 1 \in 1 .. Len(batches[1])
      BY <3>4, <3>5, EmptySeq
    <3>7. m \in Dated /\ 1 \in DOMAIN batches[1]
      BY <3>5, <3>6, ElementOfSeq, LenProperties
    <3>8. InRequest(m.tx, batches)
      BY <3>2, <3>7 DEF InRequest
    <3> QED  BY <3>1, <3>7, <3>8, PlainIsDated
  <2> HIDE DEF m
  <2>6. r.batches \in Batches /\ r.rest \in Receiver
    <3>1. CASE StillValid(c, m)
      BY <1>0, <2>4, <3>1, OrderedMessageType, OrderedMessageDated
    <3>2. CASE ~StillValid(c, m)
      BY <1>0, <3>2, NoBatch
    <3> QED  BY <3>1, <3>2
  <2>7. ds \in Seq(Seq(Tx))
    <3> HIDE DEF r
    <3> QED  BY <2>6, DataOfBatches
  <2>8. /\ InOrder(ds) /\ (\A i \in DOMAIN ds : \A t \in ConfigTx : ds[i] = <<t>> => t \in R)
        /\ (\E i \in DOMAIN ds : IsConfigData(ds[i])) => r.rest.msgs = << >>
    <3>1. CASE StillValid(c, m)
      <4>1. r = OrderedMessage(cutter[n], m) /\ r.batches \in DatedBatches
        BY <1>0, <2>4, <3>1, OrderedMessageDated
      <4>2. r.batches \in Seq(Seq(Messages))
        BY <2>6 DEF Batches
      <4> HIDE DEF r
      <4>3. InOrder(ds)
        BY <4>1, BatchesInOrder
      <4>4. ASSUME NEW i \in DOMAIN ds, NEW t \in ConfigTx, ds[i] = <<t>> PROVE m.tx = t
        <5>1. i \in DOMAIN r.batches /\ Txs(r.batches[i]) = <<t>>
          BY <4>4
        <5>2. InRequest(t, r.batches)
          BY <4>2, <5>1, DataFromBatches
        <5> QED  BY <1>0, <2>4, <4>1, <5>2, OrderedMessageOne
      <4>5. m.tx \in ConfigTx => r.rest.msgs = << >>
        BY <4>1 DEF OrderedMessage, EmptyReceiver
      <4> HIDE DEF ds
      <4>6. \A i \in DOMAIN ds : ds[i] \in Seq(Tx)
        BY <2>7, ElementOfSeq, LenProperties
      <4>7. ASSUME NEW i \in DOMAIN ds, IsConfigData(ds[i]) PROVE m.tx \in ConfigTx
        BY <4>4, <4>6, <4>7, ConfigDataIs
      <4> QED  BY <2>4, <4>3, <4>4, <4>5, <4>7 DEF ConfigsOf
    <3>2. CASE ~StillValid(c, m)
      <4>1. r.batches = << >>
        BY <3>2
      <4> HIDE DEF r
      <4>2. DOMAIN ds = {}
        BY <4>1
      <4> HIDE DEF ds
      <4> QED  BY <4>2 DEF InOrder
    <3> QED  BY <3>1, <3>2
  <2> HIDE DEF r, ds
  <2>9. /\ datas \in Seq(Seq(Tx)) /\ InOrder(datas)
        /\ \A i \in DOMAIN datas : \A t \in ConfigTx : datas[i] = <<t>> => t \in R
    <3>1. CASE mode
      <4>1. datas = ValidData(c, batches)
        BY <3>1
      <4> HIDE DEF datas
      <4>2. ValidData(c, batches) \in Seq(Seq(Tx)) /\ InOrder(ValidData(c, batches))
        BY <1>0, <2>4, ValidDataType, ValidDataClean
      <4>3. \A i \in DOMAIN datas : \A t \in ConfigTx : datas[i] = <<t>> => InRequest(t, batches)
        BY <2>4, <4>1, ValidDataFrom
      <4> QED  BY <4>1, <4>2, <4>3 DEF ConfigsOf
    <3>2. CASE ~mode
      BY <2>7, <2>8, <3>2
    <3> QED  BY <3>1, <3>2
  <2>10. ~mode /\ (\E i \in DOMAIN datas : IsConfigData(datas[i])) => q.msgs = << >>
    BY <2>8
  <2>11. o \in BOOLEAN /\ (o => c.open) /\ (o => ~d.configInflight)
    BY <1>0
  <2> HIDE DEF q, o, datas, R
  <2>12. Reboot(n) \/ (MakesBlocks(n, R) /\ outbox' = out)
    BY <1>0, <2>2, <2>3, <2>9, <2>10, <2>11, ProposeOrPanicMakes
  <2> QED  BY <2>1, <2>12 DEF R
<1>2. CASE c.lead # n
  <2>1. /\ net' = rest \cup (IF c.lead = Nil THEN {} ELSE {[to |-> c.lead, batches |-> batches]})
        /\ outbox' = out /\ UNCHANGED <<mode, raftVars, chain, ledger, snap, cutter>>
    BY <1>2 DEF Submit
  <2>2. net' = rest \/ net' = rest \cup {[to |-> c.lead, batches |-> batches]}
    BY <2>1
  <2> QED  BY <2>1, <2>2
<1> QED  BY <1>1, <1>2

(***************************************************************************)
(* An input leaves every configuration in at most one place, and a leader  *)
(* makes a block only of one that waited and no longer does.               *)
(***************************************************************************)
InputMoves(n) ==
    /\ Exclusive(unsent, outbox, net)' /\ Waiting' \subseteq Waiting
    /\ \/ Reboot(n)
       \/ \E R \in SUBSET (Waiting \ Waiting') : MakesBlocks(n, R)
       \/ UNCHANGED <<mode, raftVars, chain, ledger, snap>> /\ (mode \/ cutter' = cutter)

LEMMA SubmitMoves ==
  ASSUME IInv, OutdatedInv, Exclusive(unsent, outbox, net), NEW n \in Node,
         NEW batches \in Batches \ {<< >>}, batches \in DatedBatches, NEW rest \in SUBSET net,
         NEW out, \A m \in Node : out[m] = outbox[m] \/ out[m] = << >>, unsent' \subseteq unsent,
         ConfigsOf(batches) \subseteq Waiting \ Waits(unsent', out, rest),
         Submit(n, batches, rest, out)
  PROVE  InputMoves(n)
<1>0. /\ Exclusive(unsent', out, rest) /\ Waits(unsent', out, rest) \subseteq Waiting
      /\ \A r : r.batches = batches =>
            /\ Exclusive(unsent', out, rest \cup {r})
            /\ Waits(unsent', out, rest \cup {r}) \subseteq Waiting
  <2> DEFINE v == unsent'
  <2>1. \A t \in ConfigTx : InRequest(t, batches) =>
          t \in Waits(unsent, outbox, net) \ Waits(v, out, rest)
    BY DEF ConfigsOf, Waiting
  <2>2. TakenFrom(unsent, outbox, net, v, out, rest, batches)
    BY <2>1 DEF TakenFrom
  <2> HIDE DEF v
  <2>3. /\ Exclusive(v, out, rest) /\ Waits(v, out, rest) \subseteq Waits(unsent, outbox, net)
        /\ \A r : r.batches = batches =>
              /\ Exclusive(v, out, rest \cup {r})
              /\ Waits(v, out, rest \cup {r}) \subseteq Waits(unsent, outbox, net)
    BY <2>2, TakeRequest
  <2> QED  BY <2>3 DEF Waiting, v
<1>1. CASE Reboot(n) /\ net' = rest
  <2>1. outbox \in [Node -> Batches] /\ outbox' = [outbox EXCEPT ![n] = << >>]
    BY <1>1 DEF IInv, Types, Reboot
  <2>2. \A m \in Node : outbox'[m] = outbox[m] \/ outbox'[m] = << >>
    BY <2>1
  <2>3. Exclusive(unsent', outbox', net') /\ Waits(unsent', outbox', net') \subseteq Waiting
    BY <1>1, <2>2, FewerWait DEF Waiting
  <2> QED  BY <1>1, <2>3 DEF InputMoves, Waiting, Exclusive, Waits
<1>2. CASE MakesBlocks(n, ConfigsOf(batches)) /\ outbox' = out /\ net' = rest
  <2>1. Exclusive(unsent', outbox', net') /\ Waits(unsent', outbox', net') \subseteq Waiting
        /\ ConfigsOf(batches) \subseteq Waiting \ Waits(unsent', outbox', net')
    BY <1>0, <1>2
  <2>2. Waits(unsent', outbox', net') = Waiting'
    BY DEF Waiting, Waits
  <2>3. Exclusive(unsent, outbox, net)'
    BY <2>1 DEF Exclusive
  <2> QED  BY <1>2, <2>1, <2>2, <2>3 DEF InputMoves
<1>3. CASE /\ UNCHANGED <<mode, raftVars, chain, ledger, snap, cutter>> /\ outbox' = out
           /\ net' = rest \/ \E l : net' = rest \cup {[to |-> l, batches |-> batches]}
  <2>1. Exclusive(unsent', outbox', net') /\ Waits(unsent', outbox', net') \subseteq Waiting
    <3>1. CASE net' = rest
      BY <1>0, <1>3, <3>1
    <3>2. CASE net' # rest
      <4>1. PICK l : net' = rest \cup {[to |-> l, batches |-> batches]}
        BY <1>3, <3>2
      <4>2. [to |-> l, batches |-> batches].batches = batches
        OBVIOUS
      <4> QED  BY <1>0, <1>3, <4>1, <4>2
    <3> QED  BY <3>1, <3>2
  <2>2. Waits(unsent', outbox', net') = Waiting'
    BY DEF Waiting, Waits
  <2>3. Exclusive(unsent, outbox, net)'
    BY <2>1 DEF Exclusive
  <2> QED  BY <1>3, <2>1, <2>2, <2>3 DEF InputMoves
<1> QED  BY <1>1, <1>2, <1>3, SubmitEffect

LEMMA InputMovesOnce ==
  ASSUME IInv, OutdatedInv, Exclusive(unsent, outbox, net), NEW n \in Node, Input(n)
  PROVE  InputMoves(n)
<1> DEFINE c == chain[n]
<1>0. /\ cutter[n].msgs \in Seq(Plain) /\ outbox[n] \in DatedBatches
      /\ (\A i \in net : i.batches \in DatedBatches)
      /\ Types /\ c \in Chain /\ cutter[n] \in Receiver /\ outbox[n] \in Batches
      /\ outbox \in [Node -> Batches]
  BY OutdatedParts DEF Types
<1>2. CASE Order(n)
  <2>1. PICK t \in unsent : /\ Accepts(c, t) /\ Submit(n, <<<<Message(n, t)>>>>, net, outbox)
                            /\ unsent' = unsent \ {t}
    BY <1>2 DEF Order
  <2> DEFINE m == Message(n, t)
             bs == <<<<m>>>>
  <2>2. m \in Dated /\ m \in Messages /\ m.tx = t
    BY <2>1, MessageDated, PlainIsDated DEF Message
  <2> HIDE DEF m
  <2>3. bs \in Batches \ {<< >>}
    <3>1. <<m>> \in Seq(Messages) /\ <<m>> # << >>
      BY <2>2
    <3> QED  BY <3>1, OneBatch
  <2>4. bs \in DatedBatches
    <3>1. << >> \in Seq(Seq(Plain)) /\ Append(<< >>, <<m>>) = bs
      OBVIOUS
    <3>2. Append(<< >>, <<m>>) \in DatedBatches
      BY <2>2, <3>1, ConfigAtEnd
    <3> QED  BY <3>1, <3>2
  <2>5. \A x : InRequest(x, bs) => x = t
    BY <2>2 DEF InRequest
  <2> HIDE DEF bs
  <2>6. Submit(n, bs, net, outbox)
    BY <2>1 DEF bs, m
  <2>7. ConfigsOf(bs) \subseteq Waiting \ Waits(unsent', outbox, net)
    BY <2>1, <2>5 DEF ConfigsOf, Waiting, Waits, Exclusive
  <2> QED  BY <2>1, <2>3, <2>4, <2>6, <2>7, SubmitMoves
<1>3. CASE BatchOrder(n)
  <2>1. PICK t \in unsent :
          LET r == OrderedMessage(cutter[n], Message(n, t))
          IN  /\ mode /\ outbox[n] = << >> /\ Accepts(chain[n], t) /\ unsent' = unsent \ {t}
              /\ outbox' = [outbox EXCEPT ![n] = r.batches]
              /\ UNCHANGED <<mode, raftVars, chain, ledger, snap, net, crashes, snaps>>
    BY <1>3 DEF BatchOrder
  <2> DEFINE r == OrderedMessage(cutter[n], Message(n, t))
  <2>2. Message(n, t) \in Messages /\ Message(n, t).tx = t
    BY <2>1, MessageDated, PlainIsDated DEF Message
  <2>3. \A x \in ConfigTx : InRequest(x, r.batches) => x = t
    BY <1>0, <2>2, OrderedMessageOne
  <2>4. /\ mode /\ unsent' = unsent \ {t} /\ outbox' = [outbox EXCEPT ![n] = r.batches]
        /\ UNCHANGED <<mode, raftVars, chain, ledger, snap>> /\ net' = net
    BY <2>1
  <2> HIDE DEF r
  <2>5. outbox'[n] = r.batches /\ \A m \in Node \ {n} : outbox'[m] = outbox[m]
    BY <1>0, <2>4
  <2>6. \A x \in ConfigTx : InRequest(x, r.batches) => x \in Waiting \ Waits(unsent', outbox, net)
    BY <2>3, <2>4 DEF Waiting, Waits, Exclusive
  <2>7. unsent' \in SUBSET unsent
    BY <2>4
  <2>8. Exclusive(unsent', outbox', net) /\ Waits(unsent', outbox', net) \subseteq Waiting
    <3> DEFINE v == unsent'
               p == outbox'
               bs == r.batches
    <3>1. \A x \in ConfigTx : InRequest(x, bs) =>
            x \in Waits(unsent, outbox, net) \ Waits(v, outbox, net)
      BY <2>6 DEF Waiting
    <3>2. v \in SUBSET unsent /\ net \in SUBSET net /\ p[n] = bs /\ \A m \in Node \ {n} : p[m] = outbox[m]
      BY <2>5, <2>7
    <3> HIDE DEF v, p, bs
    <3>3. TakenFrom(unsent, outbox, net, v, outbox, net, bs)
      BY <3>1, <3>2 DEF TakenFrom
    <3>4. Exclusive(v, p, net) /\ Waits(v, p, net) \subseteq Waits(unsent, outbox, net)
      BY <3>2, <3>3, TakeRequest
    <3> QED  BY <3>4 DEF Waiting, v, p
  <2>9. Exclusive(unsent, outbox, net)' /\ Waiting' \subseteq Waiting
    BY <2>4, <2>8 DEF Exclusive, Waiting, Waits
  <2> QED  BY <2>4, <2>9 DEF InputMoves
<1>4. CASE BatchTimer(n)
  <2> DEFINE q == Txs(cutter[n].msgs)
             data == <<q>>
  <2>1. cutter[n].msgs # << >> /\ UNCHANGED <<net, unsent>>
    BY <1>4 DEF BatchTimer
  <2>2. CASE ~mode /\ ProposeOrPanic(n, data, CreateBlocks(c, data), EmptyReceiver, outbox)
    <3>1. Serving(n, c) /\ c.bc \in Block
      <4>1. Leading(n, c, cutter[n].msgs)
        BY DEF IInv, LeaderInv, LeaderOK
      <4> QED  BY <1>0, <2>1, <2>2, <4>1 DEF Leading, Chain
    <3>2. q \in Seq(Tx) /\ ~IsConfigData(q)
      BY <1>0, PlainIsDated, TxsType, PlainData
    <3>3. \A t \in ConfigTx : q # <<t>>
      BY <3>2, ConfigDataIs
    <3> HIDE DEF q
    <3>4. DOMAIN data = {1} /\ data[1] = q /\ data \in Seq(Seq(Tx))
      BY <3>2
    <3> HIDE DEF data
    <3>5. /\ InOrder(data) /\ (\A i \in DOMAIN data : ~IsConfigData(data[i]))
          /\ \A i \in DOMAIN data : \A t \in ConfigTx : data[i] = <<t>> => t \in {}
      BY <3>2, <3>3, <3>4 DEF InOrder
    <3>6. CreateBlocks(c, data) \in Chain /\ SamePlace(CreateBlocks(c, data), c)
      BY <1>0, <3>1, <3>4, CreateBlocksEffect
    <3> DEFINE o == CreateBlocks(c, data).open
    <3>7. CreateBlocks(c, data) = [CreateBlocks(c, data) EXCEPT !.open = o] /\ o \in BOOLEAN
      BY <3>6 DEF Chain
    <3>8. o = c.open
      BY <3>6 DEF SamePlace
    <3> HIDE DEF o
    <3>9. ProposeOrPanic(n, data, [CreateBlocks(c, data) EXCEPT !.open = o], EmptyReceiver, outbox)
      BY <2>2, <3>7
    <3>10. Reboot(n) \/ (MakesBlocks(n, {}) /\ outbox' = outbox)
      BY <2>1, <2>2, <3>1, <3>4, <3>5, <3>7, <3>8, <3>9, ProposeOrPanicMakes
    <3>11. \A m \in Node : outbox'[m] = outbox[m] \/ outbox'[m] = << >>
      BY <1>0, <3>10 DEF Reboot
    <3>12. Exclusive(unsent, outbox, net)' /\ Waiting' \subseteq Waiting
      <4>1. unsent' \in SUBSET unsent /\ net' \in SUBSET net
        BY <2>1
      <4>2. Exclusive(unsent', outbox', net') /\ Waits(unsent', outbox', net') \subseteq Waiting
        BY <3>11, <4>1, FewerWait DEF Waiting
      <4> QED  BY <4>2 DEF Exclusive, Waiting, Waits
    <3> QED  BY <3>10, <3>12 DEF InputMoves
  <2>3. CASE /\ mode /\ outbox' = [outbox EXCEPT ![n] = <<cutter[n].msgs>>]
             /\ cutter' = [cutter EXCEPT ![n] = EmptyReceiver]
             /\ UNCHANGED <<mode, raftVars, chain, ledger, snap, snaps>>
    <3> DEFINE bs == <<cutter[n].msgs>>
    <3>1. \A x \in ConfigTx : ~InRequest(x, bs)
      <4>1. \A k \in DOMAIN cutter[n].msgs : cutter[n].msgs[k] \in Plain
        BY <1>0, ElementOfSeq, LenProperties
      <4>2. DOMAIN bs = {1} /\ bs[1] = cutter[n].msgs
        OBVIOUS
      <4> QED  BY <4>1, <4>2 DEF InRequest, Plain
    <3> HIDE DEF bs
    <3>2. outbox'[n] = bs /\ \A m \in Node \ {n} : outbox'[m] = outbox[m]
      BY <1>0, <2>3 DEF bs
    <3>3. unsent' \in SUBSET unsent /\ net' \in SUBSET net
      BY <2>1
    <3>4. Exclusive(unsent', outbox', net') /\ Waits(unsent', outbox', net') \subseteq Waiting
      <4> DEFINE v == unsent'
                 p == outbox'
                 w == net'
      <4>1. \A x \in ConfigTx : InRequest(x, bs) =>
              x \in Waits(unsent, outbox, net) \ Waits(v, outbox, w)
        BY <3>1
      <4>2. v \in SUBSET unsent /\ w \in SUBSET net /\ p[n] = bs /\ \A m \in Node \ {n} : p[m] = outbox[m]
        BY <3>2, <3>3
      <4> HIDE DEF v, p, w
      <4>3. TakenFrom(unsent, outbox, net, v, outbox, w, bs)
        BY <4>1, <4>2 DEF TakenFrom
      <4>4. Exclusive(v, p, w) /\ Waits(v, p, w) \subseteq Waits(unsent, outbox, net)
        BY <4>2, <4>3, TakeRequest
      <4> QED  BY <4>4 DEF Waiting, v, p, w
    <3>5. Exclusive(unsent, outbox, net)' /\ Waiting' \subseteq Waiting
      BY <3>4 DEF Exclusive, Waiting, Waits
    <3> QED  BY <2>3, <3>5 DEF InputMoves
  <2> QED  BY <1>4, <2>2, <2>3 DEF BatchTimer
<1>5. CASE SubmitBatches(n)
  <2> DEFINE out == [outbox EXCEPT ![n] = << >>]
  <2>1. outbox[n] # << >> /\ Submit(n, outbox[n], net, out) /\ unsent' = unsent
    BY <1>5 DEF SubmitBatches
  <2>2. out[n] = << >> /\ \A m \in Node \ {n} : out[m] = outbox[m]
    BY <1>0
  <2> HIDE DEF out
  <2>3. ConfigsOf(outbox[n]) \subseteq Waiting \ Waits(unsent', out, net)
    <3>1. \A x : ~InRequest(x, << >>)
      BY DEF InRequest
    <3> QED  BY <2>1, <2>2, <3>1 DEF ConfigsOf, Waiting, Waits, Exclusive
  <2>4. outbox[n] \in Batches \ {<< >>} /\ \A m \in Node : out[m] = outbox[m] \/ out[m] = << >>
    BY <1>0, <2>1, <2>2
  <2> QED  BY <1>0, <2>1, <2>3, <2>4, SubmitMoves
<1>6. CASE Receive(n)
  <2>1. PICK r \in net : Submit(n, r.batches, net \ {r}, outbox) /\ unsent' = unsent
    BY <1>6 DEF Receive
  <2>2. r.batches \in Batches \ {<< >>} /\ r.batches \in DatedBatches
    BY <1>0 DEF Types
  <2>3. ConfigsOf(r.batches) \subseteq Waiting \ Waits(unsent', outbox, net \ {r})
    BY <2>1 DEF ConfigsOf, Waiting, Waits, Exclusive
  <2> DEFINE w == net \ {r}
             bs == r.batches
  <2>4. w \in SUBSET net /\ Submit(n, bs, w, outbox) /\ bs \in Batches \ {<< >>} /\ bs \in DatedBatches
        /\ ConfigsOf(bs) \subseteq Waiting \ Waits(unsent', outbox, w)
    BY <2>1, <2>2, <2>3
  <2> HIDE DEF w, bs
  <2> QED  BY <2>1, <2>4, SubmitMoves
<1> QED  BY <1>2, <1>3, <1>4, <1>5, <1>6 DEF Input

LEMMA InputOnce ==
  ASSUME IInv, OutdatedInv, OnceInv, NEW n \in Node, Input(n)
  PROVE  OnceInv'
<1> DEFINE c == chain[n]
           X == chain'[n]
<1>0. Types /\ OnceOK(n) /\ c \in Chain /\ InputMoves(n)
  BY InputMovesOnce DEF IInv, OnceInv, Types
<1>1. Exclusive(unsent, outbox, net)' /\ Waiting' \subseteq Waiting
  BY <1>0 DEF InputMoves
<1>2. CASE Reboot(n)
  BY <1>1, <1>2, RebootOnce
<1>3. CASE UNCHANGED raftVars /\ \A m \in Node \ {n} : chain'[m] = chain[m]
  <2>1. UNCHANGED <<raft, log, committed>>
    BY <1>3 DEF raftVars
  <2>2. Extends(log'[n], committed) => Pure(Waiting', Top(n)')
    BY <1>0, <1>1, <2>1 DEF OnceOK, Top, Pure
  <2>3. CASE chain' = chain
    <3>1. Leader(n)' /\ Serving(n, chain[n])' => Pure(Waiting', chain'[n].bc)
      BY <1>0, <1>1, <2>1, <2>3 DEF OnceOK, Pure, Leader, Serving
    <3> QED  BY <1>1, <1>3, <2>1, <2>2, <3>1, OnceFrame
  <2>4. CASE \E R \in SUBSET (Waiting \ Waiting') : MakesBlocks(n, R)
    <3>1. PICK R \in SUBSET (Waiting \ Waiting') : MakesBlocks(n, R)
      BY <2>4
    <3>2. Serving(n, c) /\ Served(c, X, R)
      BY <3>1 DEF MakesBlocks
    <3>3. ASSUME Leader(n)' PROVE Pure(Waiting', X.bc)
      <4>1. Pure(Waiting, c.bc)
        BY <1>0, <2>1, <3>2, <3>3 DEF Leader, OnceOK
      <4>2. CASE X.bc = c.bc
        BY <1>1, <4>1, <4>2 DEF Pure
      <4>3. CASE \E p \in Block, d \in Seq(Tx) :
                    /\ X.bc = NextBlock(p, d) /\ SameHistory(p, c.bc)
                    /\ \A t \in ConfigTx : d = <<t>> => t \in R
        <5>1. PICK p \in Block, d \in Seq(Tx) :
                    /\ X.bc = NextBlock(p, d) /\ SameHistory(p, c.bc)
                    /\ \A t \in ConfigTx : d = <<t>> => t \in R
          BY <4>3
        <5>2. Waiting' \subseteq ConfigTx /\ Waiting \subseteq ConfigTx
          BY DEF Waiting, Waits
        <5>3. Once(Hash(p)) /\ \A t \in Waiting : ~Holds(Hash(p), t)
          BY <4>1, <5>1, <5>2 DEF SameHistory, Pure
        <5>4. \A t \in ConfigTx : d = <<t>> => t \in Waiting /\ t \notin Waiting'
          BY <5>1
        <5>5. Once(Hash(NextBlock(p, d)))
          BY <5>1, <5>3, <5>4, HistoryNext
        <5>6. \A t \in Waiting' : ~Holds(Hash(NextBlock(p, d)), t)
          BY <1>1, <5>1, <5>2, <5>3, <5>4, HistoryNext
        <5> QED  BY <5>1, <5>5, <5>6 DEF Pure
      <4> QED  BY <3>2, <4>2, <4>3, Zenon DEF Served
    <3> QED  BY <1>1, <1>3, <2>1, <2>2, <3>3, OnceFrame
  <2> QED  BY <1>0, <1>2, <2>3, <2>4 DEF InputMoves
<1>4. Reboot(n) \/ (UNCHANGED raftVars /\ \A m \in Node \ {n} : chain'[m] = chain[m])
  BY <1>0 DEF InputMoves, MakesBlocks
<1> QED  BY <1>2, <1>3, <1>4

LEMMA InitOnce == Init => OnceInv
<1> SUFFICES ASSUME Init PROVE OnceInv
  OBVIOUS
<1>1. /\ committed = << >> /\ net = {} /\ log = [n \in Node |-> << >>]
      /\ raft = [n \in Node |-> [role |-> "follower", lead |-> Nil, term |-> 0, pending |-> 0]]
      /\ outbox = [n \in Node |-> << >>]
  BY DEF Init
<1>2. Tip(<< >>)[0] = Genesis /\ Len(<< >>) = 0
  <2>1. << >> \in Seq(LogEntry) /\ Len(<< >>) = 0
    OBVIOUS
  <2> QED  BY <2>1, TipDef
<1>3. \A t : ~InRequest(t, << >>)
  BY DEF InRequest
<1>4. Exclusive(unsent, outbox, net)
  BY <1>1, <1>3 DEF Exclusive
<1>5. \A n \in Node : log[n] = << >> /\ raft[n].role = "follower"
  BY <1>1
<1>6. \A n \in Node : OnceOK(n)
  BY <1>2, <1>5, GenesisPure DEF OnceOK, Top, Leader
<1> QED  BY <1>1, <1>2, <1>4, <1>6, GenesisPure DEF OnceInv

LEMMA StepOnce ==
  ASSUME SnapshotsRead', IInv, OutdatedInv, OnceInv, [Next]_vars
  PROVE  OnceInv'
<1>1. CASE UNCHANGED vars
  <2>1. UNCHANGED <<raft, log, committed, chain, outbox, net, unsent>>
    BY <1>1 DEF vars, raftVars, inputVars
  <2> QED  BY <2>1 DEF OnceInv, OnceOK, Exclusive, Waiting, Waits, Pure, Top, Leader, Serving
<1>2. CASE Next
  <2>0. IInv'
    BY <1>2, StepKeeps
  <2>1. PICK n \in Node : \/ Raft(n) \/ Apply(n) \/ InstallSnapshot(n) \/ SuspectEviction(n)
                          \/ Propose(n) \/ ProposeConfChange(n) \/ Input(n) \/ Crash(n)
    BY <1>2 DEF Next
  <2>2. CASE Crash(n)
    <3>1. Reboot(n) /\ net' = net /\ unsent' = unsent
      BY <2>2 DEF Crash
    <3>2. outbox \in [Node -> Batches] /\ outbox' = [outbox EXCEPT ![n] = << >>]
      BY <3>1 DEF IInv, Types, Reboot
    <3>3. \A m \in Node : outbox'[m] = outbox[m] \/ outbox'[m] = << >>
      BY <3>2
    <3>4. Exclusive(unsent', outbox', net') /\ Waits(unsent', outbox', net') \subseteq Waiting
      BY <3>1, <3>3, FewerWait DEF Waiting, OnceInv
    <3>5. Exclusive(unsent, outbox, net)' /\ Waiting' \subseteq Waiting
      BY <3>4 DEF Exclusive, Waiting, Waits
    <3> QED  BY <3>1, <3>5, RebootOnce
  <2> QED  BY <2>0, <2>1, <2>2, RaftOnce, ApplyOnce, InstallSnapshotOnce, SuspectEvictionOnce,
              ProposeOnce, ProposeConfChangeOnce, InputOnce
<1> QED  BY <1>1, <1>2

(* A configuration is ordered at most once: it waits in one place, and     *)
(* once it is in a block of a log that may be committed, or in one that a  *)
(* leader has in flight, it waits nowhere (Configure, the outbox of the    *)
(* batcher, forwarding and propose of chain.go).                           *)
THEOREM OnceInvariance ==
  Spec /\ []SnapshotsRead => []OnceInv
<1>1. Init => OnceInv
  BY InitOnce
<1>2. IInv /\ OutdatedInv /\ OnceInv /\ SnapshotsRead' /\ [Next]_vars => OnceInv'
  BY StepOnce
<1> QED  BY <1>1, <1>2, ChainInvariance, OutdatedInvariance, PTL DEF Spec
-----------------------------------------------------------------------------
(***************************************************************************)
(* Changes of the consenters: those in a history, and those among the      *)
(* first i entries of a log.                                               *)
(***************************************************************************)
Changes(h) == {t \in MemberTx : Holds(h, t)}

Confs(s, i) == {t \in MemberTx : \E k \in 1 .. i : s[k].type = "conf" /\ s[k].blk.data = <<t>>}

(***************************************************************************)
(* A block comes with the changes its proposer knew to be applied, which   *)
(* are before it in the log, and every change of the consenters in the     *)
(* history before it is among them. A configuration change comes after     *)
(* its block.                                                              *)
(***************************************************************************)
LogFirst(s) ==
    \A j \in DOMAIN s :
      /\ s[j].known \subseteq Confs(s, j - 1)
      /\ s[j].type = "block" => Changes(s[j].blk.prev) \subseteq s[j].known
      /\ s[j].type = "conf" => \E t \in Changes(Hash(Tip(s)[j - 1])) : s[j].blk.data = <<t>>

(***************************************************************************)
(* The configuration of a node that has read i entries: a snapshot comes   *)
(* with that of the leader, which may have read more.                      *)
(***************************************************************************)
Knows(s, conf, i) == Confs(s, i) \subseteq conf /\ conf \subseteq Confs(s, Len(s))

(* No change of the consenters is left to apply.                           *)
Settled(conf) == MemberTx \subseteq conf

(***************************************************************************)
(* A change in progress is one whose block is written. Unless all changes  *)
(* are applied its entry was not read, it is that of the last block if the *)
(* node knows it applied, and it counts as in flight.                      *)
(***************************************************************************)
Pending(c, conf, t) ==
    /\ t \in Changes(Hash(c.last))
    /\ \/ Settled(conf)
       \/ t \notin conf /\ (t \in c.conf => c.last.data = <<t>> \/ Settled(c.conf))

Aware(s, c) ==
    /\ Knows(s, c.conf, c.read)
    /\ c.confChange # Nil => /\ Pending(c, Confs(s, c.read), c.confChange)
                             /\ Settled(Confs(s, c.read)) \/ c.configInflight
    /\ c.confProps \subseteq Changes(Hash(c.last))

Saved(s, c, sn) == Knows(s, sn.conf, sn.idx) /\ sn.idx <= c.read

(***************************************************************************)
(* At a serving leader at most the last block in flight is a configuration *)
(* not written yet, and only that block may be a change not applied yet.   *)
(***************************************************************************)
InFlight(c) ==
    /\ \A t \in ConfigTx : Holds(Hash(c.bc), t) /\ ~Holds(Hash(c.last), t) =>
                              c.bc.data = <<t>> /\ c.configInflight
    /\ Changes(c.bc.prev) \subseteq c.conf
    /\ c.configInflight \/ Changes(Hash(c.bc)) \subseteq c.conf
    /\ c.confChange # Nil => c.bc.data = <<c.confChange>>

Shut(md, c, msgs) == c.configInflight => ~c.open /\ (~md => msgs = << >>)

(***************************************************************************)
(* Unless all changes are applied, a leader has applied every one before   *)
(* the top of its log, and knows of one it has to resume.                  *)
(***************************************************************************)
Heading(n, md, c, msgs, top) ==
    \/ Settled(c.conf)
    \/ /\ Changes(top.prev) \subseteq c.conf
       /\ c.lead = n => Changes(Hash(c.last)) \subseteq c.conf \cup {c.confChange}
       /\ Serving(n, c) => InFlight(c) /\ Shut(md, c, msgs)

ConfOK(n) ==
    /\ Aware(committed, chain[n])
    /\ Saved(committed, chain[n], snap[n])
    /\ Leader(n) => Heading(n, mode, chain[n], cutter[n].msgs, Top(n))
    /\ Extends(log[n], committed) => LogFirst(log[n])

ConfInv == LogFirst(committed) /\ \A n \in Node : ConfOK(n)

LEMMA ChangesOf ==
  ASSUME NEW b \in Block, b.num # 0
  PROVE  /\ Changes(Hash(b)) = Changes(b.prev) \cup {t \in MemberTx : b.data = <<t>>}
         /\ \A t \in MemberTx : b.data = <<t>> => t \in Changes(Hash(b))
BY HistoryOf DEF Changes

LEMMA ChangesWithin ==
  ASSUME NEW a \in Block, NEW b \in Block, Within(a, b)
  PROVE  /\ Changes(Hash(a)) \subseteq Changes(Hash(b))
         /\ a # b => Changes(Hash(a)) \subseteq Changes(b.prev)
         /\ a.num # 0 => Changes(a.prev) \subseteq Changes(b.prev)
BY WithinHistory DEF Changes

LEMMA ConfsOf ==
  ASSUME NEW s, NEW i \in Nat
  PROVE  /\ Confs(s, 0) = {}
         /\ \A j \in Nat : i <= j => Confs(s, i) \subseteq Confs(s, j)
         /\ s[i + 1].type # "conf" => Confs(s, i + 1) = Confs(s, i)
         /\ \A t \in MemberTx : s[i + 1].type = "conf" /\ s[i + 1].blk.data = <<t>> =>
               Confs(s, i + 1) = Confs(s, i) \cup {t}
<1>1. \A k : k \in 1 .. i + 1 <=> k \in 1 .. i \/ k = i + 1
  OBVIOUS
<1>2. \A j \in Nat : i <= j => 1 .. i \subseteq 1 .. j
  OBVIOUS
<1>3. 1 .. 0 = {}
  OBVIOUS
<1>4. Confs(s, 0) = {} /\ \A j \in Nat : i <= j => Confs(s, i) \subseteq Confs(s, j)
  BY <1>2, <1>3 DEF Confs
<1>5. s[i + 1].type # "conf" => Confs(s, i + 1) = Confs(s, i)
  BY <1>1 DEF Confs
<1>6. ASSUME NEW t \in MemberTx, s[i + 1].type = "conf", s[i + 1].blk.data = <<t>>
      PROVE  Confs(s, i + 1) = Confs(s, i) \cup {t}
  <2>1. \A u : <<u>> = <<t>> <=> u = t
    OBVIOUS
  <2> QED  BY <1>1, <1>6, <2>1 DEF Confs
<1> QED  BY <1>4, <1>5, <1>6

LEMMA ConfsPrefix ==
  ASSUME NEW s \in Seq(LogEntry), NEW t \in Seq(LogEntry), Extends(t, s), NEW i \in 0 .. Len(s)
  PROVE  Confs(t, i) = Confs(s, i)
<1>1. \A k \in 1 .. i : t[k] = s[k]
  BY LenProperties DEF Extends
<1> QED  BY <1>1 DEF Confs

LEMMA KnowsMore ==
  ASSUME NEW s \in Seq(LogEntry), NEW t \in Seq(LogEntry), Extends(t, s), NEW i \in 0 .. Len(s),
         NEW f, Knows(s, f, i)
  PROVE  Knows(t, f, i)
<1>1. Len(s) \in Nat /\ Len(t) \in Nat /\ Len(s) <= Len(t) /\ Len(s) \in 0 .. Len(s)
  BY LenProperties DEF Extends
<1>2. Confs(t, i) = Confs(s, i) /\ Confs(t, Len(s)) = Confs(s, Len(s))
  BY <1>1, ConfsPrefix
<1>3. Confs(t, Len(s)) \subseteq Confs(t, Len(t))
  BY <1>1, ConfsOf
<1> QED  BY <1>2, <1>3 DEF Knows

LEMMA SettledAll ==
  ASSUME NEW conf, Settled(conf)
  PROVE  /\ \A h : Changes(h) \subseteq conf
         /\ \A f : conf \subseteq f => Settled(f)
BY DEF Settled, Changes

LEMMA LogFirstMore ==
  ASSUME NEW s \in Seq(LogEntry), LogFirst(s), NEW e \in LogEntry,
         e.known \subseteq Confs(s, Len(s)),
         e.type = "block" => Changes(e.blk.prev) \subseteq e.known,
         e.type = "conf" => \E t \in Changes(Hash(Tip(s)[Len(s)])) : e.blk.data = <<t>>
  PROVE  LogFirst(Append(s, e))
<1> DEFINE t == Append(s, e)
           k == Len(s) + 1
<1>1. t \in Seq(LogEntry) /\ Extends(t, s) /\ Len(t) = k /\ Len(s) \in Nat
  BY AppendLog, LenProperties
<1>2. /\ DOMAIN s = 1 .. Len(s) /\ DOMAIN t = 1 .. k /\ t[k] = e
      /\ \A i \in 1 .. Len(s) : t[i] = s[i]
  BY AppendProperties, LenProperties
<1> HIDE DEF t
<1>3. \A i \in 0 .. Len(s) : Tip(t)[i] = Tip(s)[i] /\ Confs(t, i) = Confs(s, i)
  BY <1>1, TipPrefix, ConfsPrefix
<1>4. ASSUME NEW j \in DOMAIN t
      PROVE  /\ t[j].known \subseteq Confs(t, j - 1)
             /\ t[j].type = "block" => Changes(t[j].blk.prev) \subseteq t[j].known
             /\ t[j].type = "conf" => \E u \in Changes(Hash(Tip(t)[j - 1])) : t[j].blk.data = <<u>>
  <2> DEFINE i == j - 1
  <2>1. i \in 0 .. Len(s)
    BY <1>1, <1>2
  <2>2. CASE j = k
    <3>1. i = Len(s) /\ t[j] = e
      BY <1>1, <1>2, <2>2
    <3> HIDE DEF i
    <3>2. Tip(t)[i] = Tip(s)[Len(s)] /\ Confs(t, i) = Confs(s, Len(s))
      BY <1>3, <2>1, <3>1
    <3> QED  BY <3>1, <3>2 DEF i
  <2>3. CASE j # k
    <3>1. j \in DOMAIN s /\ t[j] = s[j]
      BY <1>1, <1>2, <2>3
    <3>2. Tip(t)[i] = Tip(s)[i] /\ Confs(t, i) = Confs(s, i)
      <4> HIDE DEF i
      <4> QED  BY <1>3, <2>1
    <3> QED  BY <3>1, <3>2 DEF LogFirst
  <2> QED  BY <2>2, <2>3
<1>5. LogFirst(t)
  BY <1>4 DEF LogFirst
<1> QED  BY <1>5 DEF t

(* The changes before the latest block of a log came with it.              *)
LEMMA TopKnown ==
  ASSUME NEW s \in Seq(LogEntry), LogFirst(s)
  PROVE  \/ Tip(s)[Len(s)] = Genesis
         \/ \E j \in DOMAIN s : Changes(Tip(s)[Len(s)].prev) \subseteq s[j].known
<1> DEFINE Q(i) == \/ Tip(s)[i] = Genesis
                   \/ \E j \in DOMAIN s : Changes(Tip(s)[i].prev) \subseteq s[j].known
           P == {i \in Nat : i <= Len(s) => Q(i)}
<1>0. Len(s) \in Nat /\ DOMAIN s = 1 .. Len(s)
  BY LenProperties
<1>1. 0 \in P
  BY TipDef
<1>2. ASSUME NEW i \in Nat, i \in P PROVE i + 1 \in P
  <2> SUFFICES ASSUME i + 1 <= Len(s) PROVE Q(i + 1)
    OBVIOUS
  <2> DEFINE k == i + 1
  <2>1. k \in 1 .. Len(s) /\ k \in DOMAIN s /\ k - 1 = i /\ Q(i)
    BY <1>0, <1>2
  <2> HIDE DEF k
  <2>2. Tip(s)[k] = TipStep(Tip(s)[i], s[k])
    BY <2>1, TipDef
  <2>3. CASE s[k].type = "block"
    BY <2>1, <2>2, <2>3 DEF TipStep, LogFirst, k
  <2>4. CASE s[k].type # "block"
    BY <2>1, <2>2, <2>4 DEF TipStep, k
  <2> QED  BY <2>3, <2>4
<1>3. Nat \subseteq P
  <2> HIDE DEF P
  <2> QED  BY <1>1, <1>2, SetInduction
<1>4. Len(s) \in P
  BY <1>0, <1>3
<1>5. Q(Len(s))
  <2> HIDE DEF Q
  <2> QED  BY <1>0, <1>4
<1> QED  BY <1>5, Zenon

(* What is committed is before the top of a leader's log, and that before  *)
(* the block it makes the next one from.                                   *)
LEMMA LeaderWithin ==
  ASSUME IInv, NEW n \in Node, Leader(n), NEW b, InLog(committed, b)
  PROVE  /\ b \in Block /\ Top(n) \in Block /\ Within(b, Top(n))
         /\ Changes(b.prev) \subseteq Changes(Top(n).prev)
         /\ Changes(Hash(b)) \subseteq Changes(Hash(Top(n)))
         /\ Serving(n, chain[n]) => chain[n].bc \in Block /\ Within(b, chain[n].bc)
<1>0. /\ Types /\ committed \in Seq(LogEntry) /\ log[n] \in Seq(LogEntry) /\ chain[n] \in Chain
      /\ Extends(log[n], committed) /\ Chained(log[n]) /\ Leading(n, chain[n], cutter[n].msgs)
  BY DEF IInv, Types, LogInv, LeaderInv, LeaderOK, Leader
<1>1. InLog(log[n], b)
  BY <1>0, ChainKept
<1>2. b \in Block /\ Top(n) \in Block /\ Within(b, Top(n)) /\ (b.num = 0 => b = Genesis)
  <2>1. b \in Block
    BY <1>0, <1>1, InLogType
  <2>2. Within(b, Top(n)) /\ (b.num = 0 => b = Genesis)
    BY <1>0, <1>1, InLogWithin DEF Top
  <2>3. Len(log[n]) \in 0 .. Len(log[n]) /\ Tip(log[n]) \in [0 .. Len(log[n]) -> Block]
    BY <1>0, TipDef, LenProperties
  <2> QED  BY <2>1, <2>2, <2>3 DEF Top
<1>3. Changes(Genesis.prev) = {}
  BY DEF Changes, Genesis, Holds
<1>4. Changes(b.prev) \subseteq Changes(Top(n).prev) /\ Changes(Hash(b)) \subseteq Changes(Hash(Top(n)))
  BY <1>2, <1>3, ChangesWithin
<1>5. ASSUME Serving(n, chain[n]) PROVE chain[n].bc \in Block /\ Within(b, chain[n].bc)
  <2>1. Leads(Top(n), chain[n].propC, chain[n].bc) /\ chain[n].propC \in Seq(Block)
    BY <1>0, <1>5 DEF Leading, Leader, Top, Chain
  <2>2. chain[n].bc \in Block /\ Within(Top(n), chain[n].bc)
    BY <1>2, <2>1, LeadsWithin
  <2> QED  BY <1>2, <2>2, WithinOrder
<1> QED  BY <1>2, <1>4, <1>5

LEMMA ConfFrame ==
  ASSUME ConfInv, NEW n \in Node, committed' = committed, mode' = mode,
         \A m \in Node \ {n} : /\ log'[m] = log[m] /\ chain'[m] = chain[m] /\ raft'[m] = raft[m]
                               /\ snap'[m] = snap[m] /\ cutter'[m] = cutter[m],
         Aware(committed, chain'[n]), Saved(committed, chain'[n], snap'[n]),
         Leader(n)' => Heading(n, mode, chain'[n], cutter'[n].msgs, Top(n)'),
         Extends(log'[n], committed) => LogFirst(log'[n])
  PROVE  ConfInv'
<1>1. LogFirst(committed)'
  BY DEF ConfInv
<1>2. ASSUME NEW m \in Node PROVE ConfOK(m)'
  <2>1. CASE m = n
    <3>1. /\ Aware(committed', chain'[n]) /\ Saved(committed', chain'[n], snap'[n])
          /\ Leader(n)' => Heading(n, mode', chain'[n], cutter'[n].msgs, Top(n)')
          /\ Extends(log'[n], committed') => LogFirst(log'[n])
      OBVIOUS
    <3> QED  BY <2>1, <3>1 DEF ConfOK
  <2>2. CASE m # n
    <3>1. /\ ConfOK(m) /\ log'[m] = log[m] /\ chain'[m] = chain[m] /\ raft'[m] = raft[m]
          /\ snap'[m] = snap[m] /\ cutter'[m] = cutter[m]
      BY <2>2 DEF ConfInv
    <3>2. Top(m)' = Top(m) /\ (Leader(m)' <=> Leader(m))
      BY <3>1 DEF Top, Leader
    <3> QED  BY <3>1, <3>2 DEF ConfOK
  <2> QED  BY <2>1, <2>2
<1> QED  BY <1>1, <1>2 DEF ConfInv

LEMMA RaftConf ==
  ASSUME IInv, ConfInv, NEW n \in Node, Raft(n)
  PROVE  ConfInv'
<1>0. /\ Types /\ TermInv /\ LogInv /\ committed \in Seq(LogEntry)
      /\ \A m \in Node : log[m] \in Seq(LogEntry) /\ ConfOK(m)
  BY DEF IInv, Types, ConfInv
<1>1. CASE Timeout(n)
  <2>1. /\ UNCHANGED <<mode, log, committed, chain, snap>> /\ cutter' = cutter
        /\ raft' = [raft EXCEPT ![n].role = "candidate", ![n].lead = Nil]
    BY <1>1 DEF Timeout, inputVars
  <2>2. raft'[n].role = "candidate" /\ \A m \in Node \ {n} : raft'[m] = raft[m]
    BY <1>0, <2>1 DEF Types
  <2>3. ~Leader(n)'
    BY <2>2 DEF Leader
  <2>4. ConfOK(n)
    BY <1>0
  <2> QED  BY <2>1, <2>2, <2>3, <2>4, ConfFrame DEF ConfOK
<1>2. CASE Elect(n)
  <2> DEFINE e == Entry(term + 1, "empty", Genesis, {})
  <2>1. /\ UNCHANGED <<mode, committed, chain, snap>> /\ cutter' = cutter
        /\ log' = [log EXCEPT ![n] = Append(log[n], e)] /\ chain[n].lead = Nil
        /\ raft' = [raft EXCEPT ![n] = [role |-> "leader", lead |-> n, term |-> term + 1,
                                        pending |-> Len(log[n])]]
        /\ IsPrefix(committed, log[n])
        /\ \A i \in DOMAIN log[n] : log[n][i].known \subseteq chain[n].conf
    BY <1>2 DEF Elect, inputVars
  <2>2. e \in LogEntry /\ e.type = "empty" /\ e.known = {}
    BY <1>0, GenesisType, ChainAssumption DEF Types, Entry, LogEntry
  <2> HIDE DEF e
  <2>3. log'[n] = Append(log[n], e) /\ \A m \in Node \ {n} : log'[m] = log[m] /\ raft'[m] = raft[m]
    BY <1>0, <2>1 DEF Types
  <2>4. Top(n)' = Top(n)
    BY <1>0, <2>2, <2>3, AppendLog DEF Top, TipStep
  <2>5. Extends(log[n], committed) /\ LogFirst(log[n])
    BY <1>0, <2>1, ExtendsOrder DEF Types, ConfOK
  <2>6. chain'[n].lead = Nil /\ ~Serving(n, chain'[n]) /\ chain'[n].lead # n
    BY <2>1, ChainAssumption DEF Serving
  <2>7. LogFirst(log'[n])
    <3>1. {} \subseteq Confs(log[n], Len(log[n]))
      OBVIOUS
    <3> QED  BY <1>0, <2>2, <2>3, <2>5, <3>1, LogFirstMore
  <2>8. Changes(Top(n).prev) \subseteq chain[n].conf
    <3>1. CASE Top(n) = Genesis
      BY <3>1 DEF Changes, Genesis, Holds
    <3>2. CASE \E j \in DOMAIN log[n] : Changes(Top(n).prev) \subseteq log[n][j].known
      BY <2>1, <3>2
    <3> QED  BY <1>0, <2>5, <3>1, <3>2, TopKnown DEF Top
  <2>9. Heading(n, mode, chain'[n], cutter'[n].msgs, Top(n)')
    BY <2>1, <2>4, <2>6, <2>8 DEF Heading
  <2>10. ConfOK(n)
    BY <1>0
  <2> QED  BY <2>1, <2>3, <2>7, <2>9, <2>10, ConfFrame DEF ConfOK
<1>3. CASE Replicate(n)
  <2>1. PICK l \in Node : /\ UNCHANGED <<mode, committed, chain, snap>> /\ cutter' = cutter
                          /\ log' = [log EXCEPT ![n] = log[l]]
                          /\ raft' = [raft EXCEPT ![n] = [@ EXCEPT !.role = "follower",
                                                                   !.lead = l, !.term = term]]
    BY <1>3 DEF Replicate, inputVars
  <2>2. /\ log'[n] = log[l] /\ raft'[n].role = "follower"
        /\ \A m \in Node \ {n} : log'[m] = log[m] /\ raft'[m] = raft[m]
    BY <1>0, <2>1 DEF Types
  <2>3. ~Leader(n)'
    BY <2>2 DEF Leader
  <2>4. Extends(log'[n], committed) => LogFirst(log'[n])
    BY <1>0, <2>2 DEF ConfOK
  <2>5. ConfOK(n)
    BY <1>0
  <2> QED  BY <2>1, <2>2, <2>3, <2>4, <2>5, ConfFrame DEF ConfOK
<1>4. CASE Commit(n)
  <2>1. /\ UNCHANGED <<mode, log, chain, raft, snap>> /\ committed' = log[n] /\ cutter' = cutter
    BY <1>4 DEF Commit, inputVars
  <2>2. /\ Extends(committed', committed) /\ committed' \in Seq(LogEntry)
        /\ \A m \in Node : Extends(log[m], committed)' => Extends(log[m], committed)
    BY <1>0, <1>4, <2>1, CommitLogs
  <2>3. LogFirst(committed)'
    <3>1. Extends(log[n], committed)
      BY <2>1, <2>2
    <3> QED  BY <1>0, <2>1, <3>1 DEF ConfOK
  <2>4. ASSUME NEW m \in Node PROVE ConfOK(m)'
    <3>1. /\ ConfOK(m) /\ (Extends(log[m], committed)' => Extends(log[m], committed))
          /\ Top(m)' = Top(m)
      BY <1>0, <2>1, <2>2 DEF Top
    <3>2. Leader(m)' => Leader(m)
      BY <2>1, <3>1 DEF Leader
    <3>3. chain[m].read \in 0 .. Len(committed) /\ snap[m].idx \in 0 .. Len(committed)
      <4>1. chain[m] \in Chain /\ snap[m] \in Snapshot /\ Indexed(chain[m], snap[m]) /\ Len(committed) \in Nat
        BY <1>0, LenProperties DEF Types, IInv, WriteInv, IndexOK
      <4> QED  BY <4>1 DEF Chain, Snapshot, Indexed, Reached, SnapshotOK
    <3>4. Confs(committed', chain[m].read) = Confs(committed, chain[m].read)
      BY <1>0, <2>2, <3>3, ConfsPrefix
    <3>5. Aware(committed', chain'[m]) /\ Saved(committed', chain'[m], snap'[m])
      <4> DEFINE c == chain[m]
                 x == snap[m]
      <4>1. Aware(committed, c) /\ Saved(committed, c, x)
        BY <3>1 DEF ConfOK
      <4>2. chain'[m] = c /\ snap'[m] = x
        BY <2>1
      <4>3. Knows(committed', c.conf, c.read) /\ Knows(committed', x.conf, x.idx)
        <5>1. Knows(committed, c.conf, c.read) /\ Knows(committed, x.conf, x.idx)
          BY <4>1 DEF Aware, Saved
        <5>2. c.read \in 0 .. Len(committed) /\ x.idx \in 0 .. Len(committed)
          BY <3>3
        <5> HIDE DEF c, x
        <5> QED  BY <1>0, <2>2, <5>1, <5>2, KnowsMore
      <4> HIDE DEF c, x
      <4>4. Aware(committed', c)
        BY <3>4, <4>1, <4>3 DEF Aware, c
      <4>5. Saved(committed', c, x)
        BY <4>1, <4>3 DEF Saved
      <4> QED  BY <4>2, <4>4, <4>5
    <3>6. /\ Leader(m)' => Heading(m, mode', chain'[m], cutter'[m].msgs, Top(m)')
          /\ Extends(log'[m], committed') => LogFirst(log'[m])
      BY <2>1, <3>1, <3>2, <3>4 DEF ConfOK
    <3> QED  BY <3>5, <3>6 DEF ConfOK
  <2> QED  BY <2>3, <2>4 DEF ConfInv
<1> QED  BY <1>1, <1>2, <1>3, <1>4 DEF Raft

LEMMA AfterApplyConf ==
  ASSUME Types, NEW n \in Node, NEW c \in Chain
  PROVE  LET X == AfterApply(n, c)
         IN  /\ SameConf(X, c) /\ X.confProps = c.confProps /\ X.lead = c.lead
             /\ \/ /\ X.justElected = c.justElected /\ X.bc = c.bc
                   /\ ~c.justElected /\ c.configInflight => ~X.open
                \/ c.justElected /\ ~c.configInflight /\ X.bc = c.last
<1> DEFINE X == AfterApply(n, c)
<1>1. SameIndex(X, c) /\ X.lead = c.lead
  BY AfterApplyEffect
<1>2. X.conf = c.conf /\ X.confProps = c.confProps /\ SameConfig(X, c)
  BY DEF AfterApply, Chain, SameConfig
<1>3. \/ /\ X.justElected = c.justElected /\ X.bc = c.bc
         /\ ~c.justElected /\ c.configInflight => ~X.open
      \/ c.justElected /\ ~c.configInflight /\ X.bc = c.last
  BY DEF AfterApply, Chain
<1> HIDE DEF X
<1>4. SameConf(X, c)
  BY <1>1, <1>2 DEF SameIndex, SameConf
<1> QED  BY <1>1, <1>2, <1>3, <1>4 DEF X

(***************************************************************************)
(* The end of apply. A new leader serves once no change is left to resume, *)
(* which are then all applied.                                             *)
(***************************************************************************)
LEMMA ApplyEndsConf ==
  ASSUME IInv, ConfInv, NEW n \in Node, NEW d \in Chain, Aware(committed, d),
         InLog(committed, d.last),
         Leader(n) /\ ~Settled(d.conf) =>
           /\ Changes(Top(n).prev) \subseteq d.conf
           /\ d.lead = n => Changes(Hash(d.last)) \subseteq d.conf \cup {d.confChange}
           /\ Serving(n, d) => InFlight(d) /\ (d.configInflight /\ ~mode => cutter'[n].msgs = << >>),
         chain' = [chain EXCEPT ![n] = AfterApply(n, d)], UNCHANGED <<mode, raftVars>>,
         \A m \in Node \ {n} : snap'[m] = snap[m] /\ cutter'[m] = cutter[m],
         Saved(committed, d, snap'[n])
  PROVE  ConfInv'
<1> DEFINE X == AfterApply(n, d)
<1>0. Types /\ ConfOK(n)
  BY DEF IInv, ConfInv
<1>1. /\ SameConf(X, d) /\ X.confProps = d.confProps /\ X.lead = d.lead
      /\ \/ /\ X.justElected = d.justElected /\ X.bc = d.bc
            /\ ~d.justElected /\ d.configInflight => ~X.open
         \/ d.justElected /\ ~d.configInflight /\ X.bc = d.last
  BY <1>0, AfterApplyConf
<1>2. chain'[n] = X /\ \A m \in Node \ {n} : chain'[m] = chain[m]
  BY <1>0 DEF Types
<1>3. UNCHANGED <<raft, log, committed, mode>>
  BY DEF raftVars
<1> HIDE DEF X
<1>4. Aware(committed, X) /\ Saved(committed, X, snap'[n])
  BY <1>1 DEF Aware, Pending, Saved, SameConf, SameConfig
<1>5. ASSUME Leader(n), ~Settled(X.conf) PROVE Heading(n, mode, X, cutter'[n].msgs, Top(n))
  <2>0. ~Settled(d.conf)
    BY <1>1, <1>5 DEF SameConf
  <2>1. /\ Changes(Top(n).prev) \subseteq X.conf
        /\ X.lead = n => Changes(Hash(X.last)) \subseteq X.conf \cup {X.confChange}
    BY <1>1, <1>5, <2>0 DEF SameConf, SameConfig
  <2>2. ASSUME Serving(n, X) PROVE InFlight(X) /\ Shut(mode, X, cutter'[n].msgs)
    <3>1. CASE /\ X.justElected = d.justElected /\ X.bc = d.bc
               /\ ~d.justElected /\ d.configInflight => ~X.open
      <4>1. Serving(n, d) /\ InFlight(d) /\ (d.configInflight /\ ~mode => cutter'[n].msgs = << >>)
        BY <1>1, <1>5, <2>0, <2>2, <3>1 DEF Serving
      <4>2. InFlight(X)
        BY <1>1, <3>1, <4>1 DEF InFlight, SameConf, SameConfig
      <4>3. Shut(mode, X, cutter'[n].msgs)
        BY <1>1, <3>1, <4>1 DEF Shut, SameConf, SameConfig, Serving
      <4> QED  BY <4>2, <4>3
    <3>2. CASE d.justElected /\ ~d.configInflight /\ X.bc = d.last
      <4>1. X.bc = X.last /\ ~X.configInflight /\ X.lead = n
        BY <1>1, <2>2, <3>2 DEF SameConf, SameConfig, Serving
      <4>2. X.confChange = Nil
        BY <1>4, <1>5, <4>1, SettledAll DEF Aware, Knows
      <4>3. Nil \notin Changes(Hash(X.last))
        BY ChainAssumption DEF Changes
      <4>4. Changes(Hash(X.last)) \subseteq X.conf
        BY <2>1, <4>1, <4>2, <4>3
      <4>5. Changes(X.last.prev) \subseteq X.conf
        <5>1. Changes(d.last.prev) \subseteq Changes(Top(n).prev)
          BY <1>5, LeaderWithin
        <5> QED  BY <1>1, <2>1, <5>1 DEF SameConf
      <4> QED  BY <4>1, <4>2, <4>4, <4>5 DEF InFlight, Shut
    <3> QED  BY <1>1, <3>1, <3>2
  <2> QED  BY <2>1, <2>2 DEF Heading
<1>6. Leader(n)' => Heading(n, mode, chain'[n], cutter'[n].msgs, Top(n)')
  <2>1. Leader(n) => Heading(n, mode, X, cutter'[n].msgs, Top(n))
    BY <1>5 DEF Heading
  <2> QED  BY <1>2, <1>3, <2>1 DEF Leader, Top
<1>7. Extends(log'[n], committed) => LogFirst(log'[n])
  BY <1>0, <1>3 DEF ConfOK
<1> QED  BY <1>2, <1>3, <1>4, <1>6, <1>7, ConfFrame

(* A snapshot is taken at the entry that was read.                         *)
LEMMA SnapshotConf ==
  ASSUME Types, NEW n \in Node, NEW c \in Chain, MaybeSnapshot(n, c),
         c.read <= c.applied, snap'[n].idx <= c.read,
         Knows(committed, c.conf, c.read), Saved(committed, c, snap[n])
  PROVE  /\ Saved(committed, c, snap'[n])
         /\ \A m \in Node \ {n} : snap'[m] = snap[m]
<1>1. CASE UNCHANGED <<snap, snaps>>
  BY <1>1
<1>2. CASE snap' = [snap EXCEPT ![n] = [idx |-> c.applied, blk |-> NextEntry(n).blk,
                                         conf |-> c.conf]]
  <2>1. snap'[n] = [idx |-> c.applied, blk |-> NextEntry(n).blk, conf |-> c.conf]
        /\ \A m \in Node \ {n} : snap'[m] = snap[m]
    BY <1>2 DEF Types
  <2>2. c.read \in Nat /\ c.applied \in Nat
    BY DEF Chain
  <2>3. c.applied = c.read
    BY <2>1, <2>2
  <2> QED  BY <2>1, <2>2, <2>3 DEF Saved
<1> QED  BY <1>1, <1>2 DEF MaybeSnapshot

LEMMA AdvanceConf ==
  ASSUME IInv, ConfInv, NEW n \in Node, CanRead(n)
  PROVE  LET c == Advance(chain[n])
         IN  /\ c \in Chain /\ SameLead(c, chain[n]) /\ SameConfig(c, chain[n])
             /\ c.last = chain[n].last /\ c.conf = chain[n].conf /\ c.read = chain[n].read + 1
             /\ c.confProps = chain[n].confProps
             /\ Saved(committed, c, snap[n])
             /\ NextEntry(n).type # "conf" =>
                  Aware(committed, c) /\ Confs(committed, c.read) = Confs(committed, chain[n].read)
<1> DEFINE o == chain[n]
           c == Advance(o)
<1>1. c \in Chain /\ SameLead(c, o) /\ c.last = o.last /\ c.read = o.read + 1 /\ o.read \in Nat
      /\ o \in Chain
  BY ReadEntry, AdvanceEffect
<1>2. c.conf = o.conf /\ c.confProps = o.confProps /\ SameConfig(c, o)
  BY <1>1 DEF Advance, Chain, SameConfig
<1>3. Aware(committed, o)
  BY DEF ConfInv, ConfOK
<1>4. ASSUME NextEntry(n).type # "conf" PROVE Confs(committed, o.read + 1) = Confs(committed, o.read)
  BY <1>1, <1>4, ConfsOf DEF NextEntry
<1> HIDE DEF c, o
<1>5. ASSUME NextEntry(n).type # "conf" PROVE Aware(committed, c)
  BY <1>1, <1>2, <1>3, <1>4, <1>5 DEF Aware, Knows, Pending, SameConfig
<1>6. Saved(committed, c, snap[n])
  <2>1. Saved(committed, o, snap[n]) /\ snap[n].idx \in Nat
    BY DEF ConfInv, ConfOK, IInv, Types, Snapshot, o
  <2> QED  BY <1>1, <2>1 DEF Saved
<1> QED  BY <1>1, <1>2, <1>4, <1>5, <1>6 DEF c, o

LEMMA SkipEntryConf ==
  ASSUME SnapshotsRead', IInv, ConfInv, NEW n \in Node, SkipEntry(n)
  PROVE  ConfInv'
<1> DEFINE o == chain[n]
           d == Advance(o)
<1>0. Types /\ ConfOK(n) /\ o \in Chain /\ InLog(committed, o.last)
  BY LastBlock DEF IInv, ConfInv, Types
<1>1. /\ CanRead(n) /\ chain' = [chain EXCEPT ![n] = AfterApply(n, d)]
      /\ UNCHANGED <<mode, raftVars>> /\ cutter' = cutter
      /\ NextEntry(n).type # "conf"
      /\ UNCHANGED <<snap, snaps>> \/ MaybeSnapshot(n, d)
  BY DEF SkipEntry, inputVars
<1>2. /\ d \in Chain /\ SameLead(d, o) /\ SameConfig(d, o)
      /\ d.last = o.last /\ d.conf = o.conf /\ Aware(committed, d) /\ Saved(committed, d, snap[n])
  BY <1>1, AdvanceConf
<1>9. d.read <= d.applied /\ snap'[n].idx <= d.read
  BY <1>0, <1>1, <1>2, AdvanceReads, SnapshotBehind
<1> HIDE DEF d
<1>3. Knows(committed, d.conf, d.read)
  BY <1>2 DEF Aware
<1>4. Saved(committed, d, snap'[n]) /\ \A m \in Node \ {n} : snap'[m] = snap[m]
  <2>1. CASE UNCHANGED <<snap, snaps>>
    BY <1>2, <2>1
  <2>2. CASE MaybeSnapshot(n, d)
    BY <1>0, <1>2, <1>3, <1>9, <2>2, SnapshotConf
  <2> QED  BY <1>1, <2>1, <2>2
<1>5. ASSUME Leader(n), ~Settled(d.conf)
      PROVE  /\ Changes(Top(n).prev) \subseteq d.conf
             /\ d.lead = n => Changes(Hash(d.last)) \subseteq d.conf \cup {d.confChange}
             /\ Serving(n, d) => InFlight(d) /\ (d.configInflight /\ ~mode => cutter'[n].msgs = << >>)
  <2>1. Heading(n, mode, o, cutter[n].msgs, Top(n)) /\ ~Settled(o.conf)
    BY <1>0, <1>2, <1>5 DEF ConfOK
  <2>2. /\ Changes(Top(n).prev) \subseteq d.conf
        /\ d.lead = n => Changes(Hash(d.last)) \subseteq d.conf \cup {d.confChange}
    BY <1>2, <2>1 DEF Heading, SameLead, SameConfig
  <2>3. ASSUME Serving(n, d)
        PROVE  InFlight(d) /\ (d.configInflight /\ ~mode => cutter'[n].msgs = << >>)
    <3>1. InFlight(o) /\ Shut(mode, o, cutter[n].msgs)
      BY <1>2, <2>1, <2>3 DEF Heading, SameLead, Serving
    <3> QED  BY <1>1, <1>2, <3>1 DEF InFlight, Shut, SameLead, SameConfig
  <2> QED  BY <2>2, <2>3
<1>6. InLog(committed, d.last)
  BY <1>0, <1>2
<1> QED  BY <1>1, <1>2, <1>4, <1>5, <1>6, ApplyEndsConf

(* The changes not applied that are in the last block of a history.        *)
LEMMA MissingChanges ==
  ASSUME NEW b \in Block, NEW conf, Changes(b.prev) \subseteq conf
  PROVE  \A t \in Changes(Hash(b)) \ conf :
            b.data = <<t>> /\ Changes(Hash(b)) \subseteq conf \cup {t}
<1> SUFFICES ASSUME NEW t \in Changes(Hash(b)) \ conf
             PROVE  b.data = <<t>> /\ Changes(Hash(b)) \subseteq conf \cup {t}
  OBVIOUS
<1>1. b.num # 0
  BY DEF Hash, Changes, Holds
<1>2. Changes(Hash(b)) = Changes(b.prev) \cup {u \in MemberTx : b.data = <<u>>}
  BY <1>1, ChangesOf
<1>3. b.data = <<t>>
  BY <1>2
<1>4. \A u : b.data = <<u>> => u = t
  BY <1>3
<1> QED  BY <1>2, <1>3, <1>4

(* A new leader resumes the change of its last block.                      *)
LEMMA BecomeLeaderConf ==
  ASSUME NEW s, NEW c \in Chain, Aware(s, c)
  PROVE  LET D == BecomeLeader(c)
         IN  /\ D.confChange # Nil => Pending(c, Confs(s, c.read), D.confChange) /\ D.configInflight
             /\ D.confProps \subseteq Changes(Hash(c.last))
             /\ Changes(c.last.prev) \subseteq c.conf =>
                  Changes(Hash(c.last)) \subseteq c.conf \cup {D.confChange}
<1> DEFINE h == Hash(c.last)
           missing == {i \in DOMAIN h : IsConfigData(h[i]) /\ h[i][1] \in MemberTx \ c.conf}
           latest == CHOOSE i \in missing : \A j \in missing : j <= i
           cc == InFlightConfChange(c)
           D == BecomeLeader(c)
<1>1. c.last \in Block /\ h \in Seq(Seq(Tx)) /\ c.confChange \in Tx \cup {Nil} /\ Nil \notin Tx
  BY HashType, ChainAssumption DEF Chain, Tx
<1>2. cc = IF c.confChange # Nil THEN c.confChange
           ELSE IF IsConfigBlock(c.last) /\ missing # {} THEN h[latest][1] ELSE Nil
  BY DEF InFlightConfChange
<1>3. /\ cc = Nil => SameConfig(D, c) /\ D.confProps = c.confProps
      /\ cc # Nil => D.confChange = cc /\ D.configInflight /\ D.confProps = c.confProps \cup {cc}
  BY DEF BecomeLeader, Chain, SameConfig
<1>4. /\ c.confChange # Nil => Pending(c, Confs(s, c.read), c.confChange)
      /\ c.confProps \subseteq Changes(h) /\ Confs(s, c.read) \subseteq c.conf
  BY DEF Aware, Knows
<1> HIDE DEF cc, D, h
<1>5. \A i \in missing : h[i][1] \in Changes(h) \ c.conf
  <2> SUFFICES ASSUME NEW i \in missing PROVE h[i][1] \in Changes(h) \ c.conf
    OBVIOUS
  <2>1. h[i] \in Seq(Tx) /\ IsConfigData(h[i]) /\ h[i][1] \in MemberTx \ c.conf /\ i \in DOMAIN h
    BY <1>1
  <2>2. PICK t \in ConfigTx : h[i] = <<t>>
    BY <2>1, ConfigDataIs
  <2>3. h[i][1] = t
    BY <2>2
  <2> QED  BY <2>1, <2>2, <2>3 DEF Changes, Holds
<1>6. missing # {} => latest \in missing
  <2>1. Len(h) \in Nat /\ missing \subseteq 1 .. Len(h)
    BY <1>1, LenProperties
  <2> HIDE DEF missing
  <2> QED  BY <2>1, GreatestExists
<1>7. cc # Nil => Pending(c, Confs(s, c.read), cc) /\ cc \in Changes(h)
  <2> HIDE DEF missing, latest
  <2>1. CASE c.confChange # Nil
    BY <1>2, <1>4, <2>1 DEF Pending, h
  <2>2. CASE c.confChange = Nil
    <3>1. cc # Nil => cc \in Changes(h) \ c.conf
      BY <1>2, <1>5, <1>6, <2>2
    <3> QED  BY <1>4, <3>1 DEF Pending, h
  <2> QED  BY <2>1, <2>2
<1>8. ASSUME Changes(c.last.prev) \subseteq c.conf, NEW t \in Changes(h) \ c.conf
      PROVE  cc # Nil
  <2>1. c.last.data = <<t>> /\ t \in MemberTx
    <3> DEFINE b == c.last
    <3>0. b \in Block /\ Changes(b.prev) \subseteq c.conf /\ t \in Changes(Hash(b)) \ c.conf
      BY <1>1, <1>8 DEF h
    <3> HIDE DEF b
    <3>1. b.data = <<t>>
      BY <3>0, MissingChanges
    <3>2. t \in MemberTx
      BY <1>8 DEF Changes
    <3> QED  BY <3>1, <3>2 DEF b
  <2>2. c.last.data \in Seq(Tx) /\ t \in ConfigTx
    BY <1>1, <2>1, ChainAssumption DEF Block, Tx
  <2>3. IsConfigBlock(c.last)
    BY <2>1, <2>2, ConfigDataIs DEF IsConfigBlock
  <2>4. PICK i \in DOMAIN h : h[i] = <<t>>
    BY <1>8 DEF Changes, Holds
  <2>5. h[i][1] = t /\ IsConfigData(h[i])
    BY <2>2, <2>4 DEF IsConfigData
  <2>6. i \in missing
    BY <1>8, <2>1, <2>5
  <2>7. \A j \in missing : h[j][1] # Nil
    BY <1>1, ChainAssumption DEF Tx
  <2> HIDE DEF missing, latest
  <2> QED  BY <1>1, <1>2, <1>6, <2>3, <2>6, <2>7
<1>9. ASSUME Changes(c.last.prev) \subseteq c.conf
      PROVE  Changes(h) \subseteq c.conf \cup {D.confChange}
  <2> SUFFICES ASSUME NEW t \in Changes(h) \ c.conf PROVE Changes(h) \subseteq c.conf \cup {D.confChange}
    OBVIOUS
  <2> DEFINE b == c.last
  <2>1. cc # Nil /\ Pending(c, Confs(s, c.read), cc) /\ D.confChange = cc
    BY <1>3, <1>7, <1>8, <1>9
  <2>0. ~Settled(c.conf) /\ ~Settled(Confs(s, c.read))
    BY <1>4, SettledAll
  <2>2. b \in Block /\ Changes(b.prev) \subseteq c.conf /\ t \in Changes(Hash(b)) \ c.conf
        /\ cc \in Changes(Hash(b)) /\ (cc \in c.conf => b.data = <<cc>>)
    BY <1>1, <1>9, <2>0, <2>1 DEF h, Pending
  <2> HIDE DEF b
  <2>3. b.data = <<t>> /\ Changes(Hash(b)) \subseteq c.conf \cup {t}
    BY <2>2, MissingChanges
  <2>4. cc \in c.conf => cc = t
    BY <2>2, <2>3
  <2>5. cc = t
    BY <2>2, <2>3, <2>4
  <2> QED  BY <2>1, <2>3, <2>5 DEF h, b
<1>10. /\ D.confChange # Nil => Pending(c, Confs(s, c.read), D.confChange) /\ D.configInflight
       /\ D.confProps \subseteq Changes(h)
  BY <1>2, <1>3, <1>4, <1>7 DEF SameConfig
<1> QED  BY <1>9, <1>10 DEF D, h

LEMMA ApplySoftConf ==
  ASSUME IInv, ConfInv, NEW n \in Node, ApplySoft(n)
  PROVE  ConfInv'
<1> DEFINE o == chain[n]
<1>0. Types /\ TermInv /\ ConfOK(n) /\ o \in Chain /\ InLog(committed, o.last) /\ Aware(committed, o)
  BY LastBlock DEF IInv, ConfInv, Types, ConfOK
<1>1. PICK d \in Chain :
         /\ chain' = [chain EXCEPT ![n] = AfterApply(n, d)]
         /\ d.last = o.last /\ d.lead = raft[n].lead /\ ~Serving(n, d)
         /\ d.read = o.read /\ d.conf = o.conf
         /\ \/ /\ d.configInflight = o.configInflight
               /\ d.confChange = o.confChange /\ d.confProps = o.confProps
               /\ raft[n].lead # n
            \/ /\ raft[n].lead = n
               /\ d.configInflight = BecomeLeader(o).configInflight
               /\ d.confChange = BecomeLeader(o).confChange
               /\ d.confProps = BecomeLeader(o).confProps
  BY <1>0, SoftChain
<1>2. /\ UNCHANGED <<mode, raftVars, snap>>
      /\ \A m \in Node \ {n} : snap'[m] = snap[m] /\ cutter'[m] = cutter[m]
  BY <1>0 DEF ApplySoft, Types
<1>3. Saved(committed, d, snap'[n])
  BY <1>0, <1>1, <1>2 DEF ConfOK, Saved
<1>4. LET D == BecomeLeader(o)
      IN  /\ D.confChange # Nil => Pending(o, Confs(committed, o.read), D.confChange) /\ D.configInflight
          /\ D.confProps \subseteq Changes(Hash(o.last))
          /\ Changes(o.last.prev) \subseteq o.conf =>
               Changes(Hash(o.last)) \subseteq o.conf \cup {D.confChange}
  BY <1>0, BecomeLeaderConf
<1> HIDE DEF o
<1>5. Aware(committed, d)
  BY <1>0, <1>1, <1>4 DEF Aware, Pending
<1>6. ASSUME Leader(n), ~Settled(d.conf)
      PROVE  /\ Changes(Top(n).prev) \subseteq d.conf
             /\ Changes(Hash(d.last)) \subseteq d.conf \cup {d.confChange}
  <2>1. raft[n].lead = n
    BY <1>0, <1>6 DEF TermInv, TermOK, Leader
  <2>2. Changes(Top(n).prev) \subseteq o.conf
    BY <1>0, <1>1, <1>6 DEF ConfOK, Heading, o
  <2>3. Changes(o.last.prev) \subseteq Changes(Top(n).prev)
    BY <1>0, <1>6, LeaderWithin
  <2> QED  BY <1>1, <1>4, <2>1, <2>2, <2>3
<1>7. InLog(committed, d.last)
  BY <1>0, <1>1
<1> QED  BY <1>1, <1>2, <1>3, <1>5, <1>6, <1>7, ApplyEndsConf

(* An entry of a configuration change adds it to those that were read.     *)
LEMMA ReadConf ==
  ASSUME IInv, ConfInv, NEW n \in Node, CanRead(n), NextEntry(n).type = "conf"
  PROVE  LET t == NextEntry(n).blk.data[1]
         IN  /\ t \in MemberTx
             /\ Confs(committed, chain[n].read + 1) = Confs(committed, chain[n].read) \cup {t}
             /\ t \in Confs(committed, Len(committed))
<1> DEFINE r == chain[n].read
           e == NextEntry(n)
<1>1. r \in Nat /\ r + 1 \in 0 .. Len(committed) /\ committed \in Seq(LogEntry) /\ Len(committed) \in Nat
      /\ DOMAIN committed = 1 .. Len(committed)
  BY ReadEntry, LenProperties DEF IInv, Types
<1>2. r + 1 \in DOMAIN committed /\ e = committed[r + 1] /\ LogFirst(committed)
  BY <1>1 DEF NextEntry, ConfInv
<1>3. PICK u \in MemberTx : e.blk.data = <<u>>
  BY <1>2 DEF LogFirst, Changes
<1>4. e.blk.data[1] = u
  BY <1>3
<1>5. Confs(committed, r + 1) = Confs(committed, r) \cup {u}
  <2>1. committed[r + 1].type = "conf" /\ committed[r + 1].blk.data = <<u>>
    BY <1>2, <1>3
  <2> HIDE DEF r
  <2> QED  BY <1>1, <2>1, ConfsOf
<1>6. Confs(committed, r + 1) \subseteq Confs(committed, Len(committed))
  <2>1. r + 1 \in Nat /\ r + 1 <= Len(committed)
    BY <1>1
  <2> HIDE DEF r
  <2> QED  BY <1>1, <2>1, ConfsOf
<1> QED  BY <1>3, <1>4, <1>5, <1>6

LEMMA ApplyConfChangeConf ==
  ASSUME IInv, ConfInv, NEW n \in Node, ApplyConfChange(n)
  PROVE  ConfInv'
<1> DEFINE o == chain[n]
           t == NextEntry(n).blk.data[1]
<1>0. Types /\ ConfOK(n) /\ o \in Chain /\ InLog(committed, o.last) /\ Aware(committed, o)
  BY LastBlock DEF IInv, ConfInv, Types, ConfOK
<1>1. /\ CanRead(n) /\ NextEntry(n).type = "conf" /\ UNCHANGED <<mode, raftVars>>
      /\ snap' = snap /\ cutter' = cutter
  BY ConfChain DEF inputVars
<1>2. PICK d \in Chain :
        /\ chain' = [chain EXCEPT ![n] = AfterApply(n, d)]
        /\ SameLead(d, o) /\ d.last = o.last /\ d.read = o.read + 1 /\ d.conf = o.conf \cup {t}
        /\ d.confProps = o.confProps
        /\ IF o.confChange # t THEN SameConfig(d, o)
           ELSE d.confChange = Nil /\ d.configInflight = FALSE
  BY ConfChain
<1>3. /\ t \in MemberTx /\ t # Nil /\ t \in Confs(committed, Len(committed))
      /\ Confs(committed, o.read + 1) = Confs(committed, o.read) \cup {t}
  BY <1>1, ReadConf, ChainAssumption
<1> HIDE DEF t
<1>4. Aware(committed, d)
  <2>1. Knows(committed, d.conf, d.read) /\ d.confProps \subseteq Changes(Hash(d.last))
    BY <1>0, <1>2, <1>3 DEF Aware, Knows
  <2>2. ASSUME d.confChange # Nil
        PROVE  /\ Pending(d, Confs(committed, d.read), d.confChange)
               /\ Settled(Confs(committed, d.read)) \/ d.configInflight
    <3>1. o.confChange # t /\ SameConfig(d, o) /\ o.confChange # Nil
      BY <1>2, <2>2 DEF SameConfig
    <3>2. /\ Settled(Confs(committed, o.read)) => Settled(Confs(committed, d.read))
          /\ Settled(o.conf) => Settled(d.conf)
      BY <1>2, <1>3, SettledAll
    <3> QED  BY <1>0, <1>2, <1>3, <3>1, <3>2 DEF Aware, Pending, SameConfig
  <2> QED  BY <2>1, <2>2 DEF Aware
<1>5. ASSUME Leader(n), ~Settled(d.conf)
      PROVE  /\ Changes(Top(n).prev) \subseteq d.conf
             /\ d.lead = n => Changes(Hash(d.last)) \subseteq d.conf \cup {d.confChange}
             /\ Serving(n, d) => InFlight(d) /\ (d.configInflight /\ ~mode => cutter'[n].msgs = << >>)
  <2>1. Heading(n, mode, o, cutter[n].msgs, Top(n)) /\ ~Settled(o.conf)
    BY <1>0, <1>2, <1>5, SettledAll DEF ConfOK
  <2>2. /\ Changes(Top(n).prev) \subseteq d.conf
        /\ d.lead = n => Changes(Hash(d.last)) \subseteq d.conf \cup {d.confChange}
    BY <1>2, <2>1 DEF Heading, SameLead, SameConfig
  <2>3. ASSUME Serving(n, d)
        PROVE  InFlight(d) /\ (d.configInflight /\ ~mode => cutter'[n].msgs = << >>)
    <3>1. InFlight(o) /\ Shut(mode, o, cutter[n].msgs) /\ Serving(n, o) /\ d.bc = o.bc
      BY <1>2, <2>1, <2>3 DEF Heading, SameLead, Serving
    <3>2. CASE o.confChange # t
      <4>1. InFlight(d)
        BY <1>2, <3>1, <3>2 DEF InFlight, SameConfig
      <4> QED  BY <1>1, <1>2, <3>1, <3>2, <4>1 DEF Shut, SameConfig
    <3>3. CASE o.confChange = t
      <4>1. Holds(Hash(o.last), t) /\ o.bc.data = <<t>>
        BY <1>0, <1>3, <3>1, <3>3 DEF Aware, Pending, Changes, InFlight
      <4>2. o.bc \in Block
        BY <1>0, <1>5, <3>1, LeaderWithin
      <4>3. o.bc.num # 0
        <5>1. Holds(Hash(o.bc), t)
          BY <1>0, <1>5, <3>1, <4>1, LeaderWithin, WithinHistory
        <5> QED  BY <5>1 DEF Hash, Holds
      <4>4. Changes(o.bc.prev) \subseteq o.conf
        BY <3>1 DEF InFlight
      <4>5. \A u : o.bc.data = <<u>> => u = t
        BY <4>1
      <4>6. Changes(Hash(o.bc)) \subseteq o.conf \cup {t}
        BY <4>2, <4>3, <4>4, <4>5, ChangesOf
      <4>7. \A u \in ConfigTx : ~(Holds(Hash(o.bc), u) /\ ~Holds(Hash(o.last), u))
        BY <3>1, <4>1, <4>5 DEF InFlight
      <4>8. InFlight(d)
        BY <1>2, <3>1, <3>3, <4>4, <4>6, <4>7 DEF InFlight
      <4> QED  BY <1>2, <3>3, <4>8
    <3> QED  BY <3>2, <3>3
  <2> QED  BY <2>2, <2>3
<1>6. InLog(committed, d.last) /\ Saved(committed, d, snap'[n])
  <2>1. snap[n].idx \in Nat /\ o.read \in Nat
    BY <1>0 DEF Types, Snapshot, Chain
  <2> QED  BY <1>0, <1>1, <1>2, <2>1 DEF ConfOK, Saved
<1> QED  BY <1>1, <1>2, <1>4, <1>5, <1>6, ApplyEndsConf

(* The configuration changes among the first entries of a log are in the   *)
(* history of the latest block there.                                      *)
LEMMA ConfsBefore ==
  ASSUME NEW s \in Seq(LogEntry), Chained(s), LogFirst(s), NEW i \in 0 .. Len(s)
  PROVE  Confs(s, i) \subseteq Changes(Hash(Tip(s)[i]))
<1> SUFFICES ASSUME NEW t \in Confs(s, i) PROVE t \in Changes(Hash(Tip(s)[i]))
  OBVIOUS
<1>1. PICK k \in 1 .. i : t \in MemberTx /\ s[k].type = "conf" /\ s[k].blk.data = <<t>>
  BY DEF Confs
<1> DEFINE j == k - 1
<1>2. /\ Len(s) \in Nat /\ DOMAIN s = 1 .. Len(s) /\ k \in DOMAIN s
      /\ j \in 0 .. Len(s) /\ j <= i
  BY LenProperties
<1>3. PICK u \in Changes(Hash(Tip(s)[j])) : s[k].blk.data = <<u>>
  BY <1>1, <1>2 DEF LogFirst
<1>4. u = t
  BY <1>1, <1>3
<1> HIDE DEF j
<1>5. Within(Tip(s)[j], Tip(s)[i]) /\ Tip(s)[j] \in Block /\ Tip(s)[i] \in Block
  BY <1>2, LogWithin, TipDef
<1> QED  BY <1>3, <1>4, <1>5, ChangesWithin

(* The block a node writes next extends its last one, and all changes      *)
(* before it are applied.                                                  *)
LEMMA WritesNext ==
  ASSUME IInv, ConfInv, OnceInv, NEW n \in Node, CanRead(n), NextEntry(n).type = "block",
         NextEntry(n).blk.num = chain[n].last.num + 1
  PROVE  LET b == NextEntry(n).blk
         IN  /\ b \in Block /\ b.num # 0 /\ InLog(committed, b) /\ b.prev = Hash(chain[n].last)
             /\ Changes(b.prev) = Confs(committed, chain[n].read) /\ Changes(b.prev) \subseteq chain[n].conf
             /\ Once(Hash(b))
             /\ chain[n].confChange = Nil \/ Settled(Confs(committed, chain[n].read))
<1> DEFINE o == chain[n]
           r == o.read
           b == NextEntry(n).blk
           a == Tip(committed)[r]
<1>0. /\ committed \in Seq(LogEntry) /\ Chained(committed) /\ DOMAIN committed = 1 .. Len(committed)
      /\ Len(committed) \in Nat /\ LogFirst(committed) /\ Aware(committed, o)
      /\ InLog(committed, o.last) /\ o.last \in Block
  BY LenProperties, LastBlock DEF IInv, Types, LogInv, ConfInv, ConfOK, Chain
<1>1. /\ r \in Nat /\ r \in 0 .. Len(committed) /\ r + 1 \in 0 .. Len(committed)
      /\ NextEntry(n) \in LogEntry /\ b = Tip(committed)[r + 1]
      /\ committed[r + 1].type = "block" /\ b = committed[r + 1].blk
  BY ReadEntry DEF NextEntry
<1>2. r + 1 \in DOMAIN committed /\ (r + 1) - 1 = r
  BY <1>0, <1>1
<1>3. b \in Block /\ InLog(committed, b) /\ a \in Block /\ InLog(committed, a)
      /\ b.num = o.last.num + 1
  BY <1>0, <1>1, TipDef DEF LogEntry, InLog
<1> HIDE DEF b, o, r
<1>4. b = NextBlock(a, b.data)
  BY <1>0, <1>1, <1>2 DEF Chained
<1>5. /\ committed[r + 1].known \subseteq Confs(committed, r)
      /\ Changes(b.prev) \subseteq committed[r + 1].known
  BY <1>0, <1>1, <1>2 DEF LogFirst
<1>6. Confs(committed, r) \subseteq Changes(Hash(a))
  BY <1>0, <1>1, ConfsBefore
<1> HIDE DEF a
<1>7. b.num = a.num + 1 /\ b.prev = Hash(a)
  BY <1>4 DEF NextBlock
<1>8. a.num = o.last.num /\ b.num # 0
  <2>1. a.num \in Nat /\ o.last.num \in Nat
    BY <1>0, <1>3 DEF Block
  <2>2. b.num = a.num + 1 /\ b.num = o.last.num + 1
    BY <1>3, <1>7
  <2> QED  BY <2>1, <2>2
<1>9. a = o.last
  <2>1. PICK i \in 0 .. Len(committed) : Tip(committed)[i] = a
    BY <1>3 DEF InLog
  <2>2. PICK j \in 0 .. Len(committed) : Tip(committed)[j] = o.last
    BY <1>0 DEF InLog
  <2> QED  BY <1>0, <1>8, <2>1, <2>2, TipByNumber
<1>10. Confs(committed, r) \subseteq o.conf
  BY <1>0 DEF Aware, Knows, r
<1>11. Changes(b.prev) = Confs(committed, r)
  <2>1. Changes(b.prev) \subseteq Confs(committed, r)
    BY <1>5
  <2>2. Confs(committed, r) \subseteq Changes(b.prev)
    BY <1>6, <1>7
  <2> QED  BY <2>1, <2>2
<1>12. o.confChange = Nil \/ Settled(Confs(committed, r))
  BY <1>0, <1>7, <1>9, <1>11 DEF Aware, Pending, r
<1>13. Once(Hash(b))
  BY <1>3, CommittedPure DEF Pure
<1> QED  BY <1>3, <1>7, <1>8, <1>9, <1>10, <1>11, <1>12, <1>13 DEF b, o, r

LEMMA WroteBlockConf ==
  ASSUME NEW c \in Chain, NEW b \in Block
  PROVE  LET d == WroteBlock(c, b)
         IN  /\ d.conf = c.conf
             /\ \/ /\ \A t \in ConfigTx : b.data # <<t>>
                   /\ SameConfig(d, c) /\ d.confProps = c.confProps
                \/ \E t \in ConfigTx :
                     /\ b.data = <<t>>
                     /\ IF t \in MemberTx
                        THEN /\ d.confProps = c.confProps \cup {t} /\ d.confChange = t
                             /\ d.configInflight = TRUE
                        ELSE /\ d.confProps = c.confProps /\ d.confChange = c.confChange
                             /\ d.configInflight = FALSE
<1> DEFINE d == WroteBlock(c, b)
<1>1. b.data \in Seq(Tx)
  BY DEF Block, Tx
<1>2. IsConfigBlock(b) <=> \E t \in ConfigTx : b.data = <<t>>
  BY <1>1, ConfigDataIs DEF IsConfigBlock
<1>3. CASE ~IsConfigBlock(b)
  <2>1. d.conf = c.conf /\ SameConfig(d, c) /\ d.confProps = c.confProps
    BY <1>3 DEF WroteBlock, Chain, SameConfig
  <2> HIDE DEF d
  <2> QED  BY <1>2, <1>3, <2>1 DEF d
<1>4. CASE IsConfigBlock(b)
  <2>1. PICK t \in ConfigTx : b.data = <<t>>
    BY <1>2, <1>4
  <2>2. b.data[1] = t
    BY <2>1
  <2>3. /\ d.conf = c.conf
        /\ IF t \in MemberTx
           THEN d.confProps = c.confProps \cup {t} /\ d.confChange = t /\ d.configInflight = TRUE
           ELSE d.confProps = c.confProps /\ d.confChange = c.confChange /\ d.configInflight = FALSE
    BY <1>4, <2>2 DEF WroteBlock, Chain
  <2> HIDE DEF d
  <2> QED  BY <2>1, <2>3 DEF d
<1> QED  BY <1>3, <1>4

(* Writing the block of a change makes it the one to propose. A block with *)
(* a configuration is the last one a serving leader has in flight.         *)
LEMMA ApplyBlockConf ==
  ASSUME SnapshotsRead', IInv, ConfInv, OnceInv, NEW n \in Node, ApplyBlock(n)
  PROVE  ConfInv'
<1> DEFINE o == chain[n]
           c == Advance(o)
           b == NextEntry(n).blk
           d == WroteBlock(c, b)
<1>0. Types /\ ConfOK(n) /\ o \in Chain /\ InLog(committed, o.last) /\ Aware(committed, o)
  BY LastBlock DEF IInv, ConfInv, Types, ConfOK
<1>1. /\ CanRead(n) /\ NextEntry(n).type = "block" /\ b.num = c.last.num + 1
      /\ chain' = [chain EXCEPT ![n] = AfterApply(n, d)]
      /\ MaybeSnapshot(n, d) /\ UNCHANGED <<mode, raftVars>> /\ cutter' = cutter
  BY DEF ApplyBlock, inputVars
<1>2. /\ c \in Chain /\ SameLead(c, o) /\ SameConfig(c, o) /\ c.last = o.last /\ c.conf = o.conf
      /\ c.confProps = o.confProps /\ Aware(committed, c) /\ Saved(committed, c, snap[n])
      /\ Confs(committed, c.read) = Confs(committed, o.read)
  BY <1>1, AdvanceConf
<1>3. /\ b \in Block /\ b.num # 0 /\ InLog(committed, b) /\ b.prev = Hash(o.last)
      /\ Changes(b.prev) = Confs(committed, o.read) /\ Changes(b.prev) \subseteq o.conf
      /\ Once(Hash(b)) /\ (o.confChange = Nil \/ Settled(Confs(committed, o.read)))
  BY <1>1, <1>2, WritesNext
<1>18. c.read <= c.applied
  BY <1>1, AdvanceReads
<1> HIDE DEF b, c
<1>4. d \in Chain /\ SameLead(d, c) /\ d.last = b /\ d.read = c.read /\ d.applied = c.applied
  BY <1>2, <1>3, WroteBlockEffect
<1>5. /\ d.conf = c.conf
      /\ \/ /\ \A t \in ConfigTx : b.data # <<t>>
            /\ SameConfig(d, c) /\ d.confProps = c.confProps
         \/ \E t \in ConfigTx :
              /\ b.data = <<t>>
              /\ IF t \in MemberTx
                 THEN d.confProps = c.confProps \cup {t} /\ d.confChange = t /\ d.configInflight = TRUE
                 ELSE /\ d.confProps = c.confProps /\ d.confChange = c.confChange
                      /\ d.configInflight = FALSE
  BY <1>2, <1>3, WroteBlockConf
<1> HIDE DEF d, o
<1>6. /\ SameLead(d, o) /\ d.conf = o.conf /\ Knows(committed, d.conf, d.read)
      /\ Confs(committed, d.read) = Changes(b.prev) /\ Saved(committed, d, snap[n])
  BY <1>2, <1>3, <1>4, <1>5 DEF SameLead, Aware, Saved
<1>7. /\ \A t : Holds(Hash(b), t) <=> Holds(Hash(o.last), t) \/ b.data = <<t>>
      /\ \A t \in ConfigTx : b.data = <<t>> => ~Holds(Hash(o.last), t)
  BY <1>3, HistoryOf
<1>8. Changes(Hash(b)) = Changes(b.prev) \cup {t \in MemberTx : b.data = <<t>>}
  BY <1>3, ChangesOf
<1>9. o.confProps \subseteq Changes(Hash(b))
  BY <1>0, <1>3, <1>8 DEF Aware
<1>10. MemberTx \subseteq ConfigTx /\ Nil \notin MemberTx
  BY ChainAssumption
<1>11. ASSUME Leader(n), ~Settled(o.conf)
       PROVE  /\ Changes(Top(n).prev) \subseteq o.conf
              /\ Serving(n, d) => /\ InFlight(o) /\ Shut(mode, o, cutter[n].msgs) /\ d.bc = o.bc
                                  /\ o.bc \in Block /\ Within(b, o.bc)
  <2>1. Heading(n, mode, o, cutter[n].msgs, Top(n))
    BY <1>0, <1>11 DEF ConfOK, o
  <2>2. Serving(n, d) => Serving(n, o) /\ d.bc = o.bc
    BY <1>6 DEF Serving, SameLead
  <2>3. Serving(n, o) => o.bc \in Block /\ Within(b, o.bc)
    BY <1>3, <1>11, LeaderWithin DEF o
  <2> QED  BY <1>11, <2>1, <2>2, <2>3 DEF Heading
<1>12. Saved(committed, d, snap'[n]) /\ \A m \in Node \ {n} : snap'[m] = snap[m]
  <2>1. snap'[n].idx <= d.read
    BY <1>0, <1>1, <1>4, SnapshotBehind
  <2> QED  BY <1>0, <1>1, <1>4, <1>6, <1>18, <2>1, SnapshotConf
<1> DEFINE Goal == /\ Aware(committed, d)
                   /\ Leader(n) /\ ~Settled(d.conf) =>
                        /\ Changes(Hash(b)) \subseteq d.conf \cup {d.confChange}
                        /\ Serving(n, d) => InFlight(d) /\ (d.configInflight /\ ~mode => cutter[n].msgs = << >>)
<1>13. ASSUME o.confChange = Nil,
              \A t \in ConfigTx : b.data # <<t>>, SameConfig(d, c), d.confProps = c.confProps
       PROVE  Goal
  <2>1. d.configInflight = o.configInflight /\ d.confChange = Nil /\ d.confProps = o.confProps
    BY <1>2, <1>3, <1>13 DEF SameConfig
  <2>2. Changes(Hash(b)) \subseteq o.conf
    BY <1>3, <1>8, <1>10, <1>13
  <2>3. Aware(committed, d)
    BY <1>4, <1>6, <1>9, <2>1 DEF Aware
  <2>4. ASSUME Leader(n), ~Settled(d.conf), Serving(n, d)
        PROVE  InFlight(d) /\ (d.configInflight /\ ~mode => cutter[n].msgs = << >>)
    <3>1. InFlight(o) /\ Shut(mode, o, cutter[n].msgs) /\ d.bc = o.bc
      BY <1>6, <1>11, <2>4
    <3>2. InFlight(d)
      BY <1>4, <1>6, <1>7, <2>1, <3>1 DEF InFlight
    <3> QED  BY <2>1, <3>1, <3>2 DEF Shut
  <2> QED  BY <1>6, <2>2, <2>3, <2>4
<1>14. ASSUME o.confChange = Nil, NEW t \in ConfigTx, b.data = <<t>>,
              IF t \in MemberTx
              THEN d.confProps = c.confProps \cup {t} /\ d.confChange = t /\ d.configInflight = TRUE
              ELSE /\ d.confProps = c.confProps /\ d.confChange = c.confChange
                   /\ d.configInflight = FALSE
       PROVE  Goal
  <2>1. \A u : b.data = <<u>> => u = t
    BY <1>14
  <2>2. Holds(Hash(b), t) /\ ~Holds(Hash(o.last), t)
    BY <1>7, <1>14
  <2>3. t \notin Confs(committed, d.read)
    BY <1>3, <1>6, <2>2 DEF Changes
  <2>4. t \in MemberTx => Changes(Hash(b)) \subseteq o.conf \cup {t} /\ t \in Changes(Hash(b))
    BY <1>3, <1>8, <1>14, <2>1
  <2>5. t \notin MemberTx => Changes(Hash(b)) \subseteq o.conf /\ d.confChange = Nil
    BY <1>2, <1>3, <1>8, <1>14, <2>1 DEF SameConfig
  <2>6. Aware(committed, d)
    <3>1. CASE t \in MemberTx
      <4>1. d.confProps = o.confProps \cup {t} /\ d.confChange = t /\ d.configInflight
        BY <1>2, <1>14, <3>1
      <4> QED  BY <1>4, <1>6, <1>9, <1>14, <2>3, <2>4, <3>1, <4>1 DEF Aware, Pending
    <3>2. CASE t \notin MemberTx
      <4>1. d.confProps = o.confProps /\ d.confChange = Nil
        BY <1>2, <1>14, <2>5, <3>2
      <4> QED  BY <1>4, <1>6, <1>9, <4>1 DEF Aware
    <3> QED  BY <3>1, <3>2
  <2>7. Changes(Hash(b)) \subseteq d.conf \cup {d.confChange}
    BY <1>6, <1>14, <2>4, <2>5
  <2>8. ASSUME Leader(n), ~Settled(d.conf), Serving(n, d)
        PROVE  InFlight(d) /\ (d.configInflight /\ ~mode => cutter[n].msgs = << >>)
    <3>1. /\ InFlight(o) /\ Shut(mode, o, cutter[n].msgs) /\ d.bc = o.bc
          /\ o.bc \in Block /\ Within(b, o.bc)
      BY <1>6, <1>11, <2>8
    <3>2. Holds(Hash(o.bc), t)
      BY <1>3, <2>2, <3>1, WithinHistory
    <3>3. o.bc.data = <<t>> /\ o.configInflight
      BY <2>2, <3>1, <3>2 DEF InFlight
    <3>4. \A u : o.bc.data = <<u>> => u = t
      BY <3>3
    <3>5. \A u \in ConfigTx : ~(Holds(Hash(o.bc), u) /\ ~Holds(Hash(b), u))
      BY <1>7, <2>2, <3>1, <3>4 DEF InFlight
    <3>6. Changes(o.bc.prev) \subseteq o.conf
      BY <3>1 DEF InFlight
    <3>7. d.configInflight \/ Changes(Hash(o.bc)) \subseteq o.conf
      <4>1. t \notin MemberTx => Changes(Hash(o.bc)) \subseteq o.conf
        <5> DEFINE a == o.bc
                   f == o.conf
        <5>1. a \in Block /\ Changes(a.prev) \subseteq f /\ \A u : a.data = <<u>> => u = t
          BY <3>1, <3>4, <3>6
        <5> HIDE DEF a, f
        <5>2. \A u \in Changes(Hash(a)) \ f : u = t
          BY <5>1, MissingChanges
        <5>3. Changes(Hash(a)) \subseteq MemberTx
          BY DEF Changes
        <5>4. t \notin MemberTx => Changes(Hash(a)) \subseteq f
          BY <5>2, <5>3
        <5> QED  BY <5>4 DEF a, f
      <4> QED  BY <1>14, <4>1
    <3>8. d.confChange # Nil => d.bc.data = <<d.confChange>>
      BY <1>14, <2>5, <3>1, <3>3
    <3>9. InFlight(d)
      BY <1>4, <1>6, <3>1, <3>5, <3>6, <3>7, <3>8 DEF InFlight
    <3> QED  BY <3>1, <3>3, <3>9 DEF Shut
  <2> QED  BY <2>6, <2>7, <2>8
<1>15. Goal
  <2>1. CASE o.confChange = Nil
    <3> HIDE DEF Goal
    <3> QED  BY <1>5, <1>13, <1>14, <2>1
  <2>2. CASE o.confChange # Nil /\ Settled(Confs(committed, o.read))
    <3>1. Settled(Confs(committed, d.read)) /\ Settled(d.conf)
      BY <1>3, <1>6, <2>2, SettledAll
    <3>2. \A t \in MemberTx : b.data # <<t>>
      BY <1>3, <1>7, <1>10, <2>2 DEF Settled, Changes
    <3>3. d.confChange = o.confChange /\ d.confProps = o.confProps
      BY <1>2, <1>5, <3>2 DEF SameConfig
    <3>4. o.confChange \in Changes(Hash(b))
      BY <1>0, <1>3, <1>8, <2>2 DEF Aware, Pending
    <3>5. Aware(committed, d)
      BY <1>4, <1>6, <1>9, <3>1, <3>3, <3>4 DEF Aware, Pending
    <3> QED  BY <3>1, <3>5
  <2> QED  BY <1>3, <2>1, <2>2
<1>16. Leader(n) /\ ~Settled(d.conf) =>
         /\ Changes(Top(n).prev) \subseteq d.conf
         /\ d.lead = n => Changes(Hash(d.last)) \subseteq d.conf \cup {d.confChange}
         /\ Serving(n, d) => InFlight(d) /\ (d.configInflight /\ ~mode => cutter'[n].msgs = << >>)
  BY <1>1, <1>4, <1>6, <1>11, <1>15
<1>17. InLog(committed, d.last) /\ Aware(committed, d)
  BY <1>3, <1>4, <1>15
<1> QED  BY <1>1, <1>4, <1>12, <1>16, <1>17, ApplyEndsConf

(* What a node has written stays in its history.                           *)
LEMMA LaterChanges ==
  ASSUME IInv, IInv', NEW n \in Node, committed' = committed,
         Len(ledger[n]) <= Len(ledger'[n])
  PROVE  Changes(Hash(chain[n].last)) \subseteq Changes(Hash(chain'[n].last))
<1>1. /\ InLog(committed, chain[n].last) /\ chain[n].last.num = Len(ledger[n]) - 1
      /\ Len(ledger[n]) \in Nat
  BY LastBlock
<1> DEFINE l == ledger'[n]
           c == chain'[n]
<1>2. l \in Seq(Written) /\ Ledgered(c, l)
  BY DEF IInv, Types, WriteInv, LedgerOK, Ledgered, WrittenOK, InLog, Num
<1> HIDE DEF l, c
<1>3. InLog(committed, c.last) /\ c.last.num = Len(l) - 1 /\ Len(l) \in Nat
  BY <1>2, LastInLog
<1>4. Len(ledger[n]) <= Len(l)
  BY DEF l
<1>5. chain[n].last.num <= c.last.num
  BY <1>1, <1>3, <1>4
<1>6. committed \in Seq(LogEntry) /\ Chained(committed)
  BY DEF IInv, Types, LogInv
<1>7. chain[n].last \in Block /\ c.last \in Block
  BY <1>1, <1>3, <1>6, InLogType
<1>8. Within(chain[n].last, c.last)
  BY <1>1, <1>3, <1>5, <1>6, InLogWithin
<1>9. Changes(Hash(chain[n].last)) \subseteq Changes(Hash(c.last))
  BY <1>7, <1>8, ChangesWithin
<1> QED  BY <1>9 DEF c

(* Catching up with blocks leaves what a node knows of the changes.        *)
LEMMA CatchUpKnows ==
  ASSUME Types, NEW n \in Node, NEW c \in Chain, NEW e, CatchUp(n, c, e)
  PROVE  /\ \A m \in Node \ {n} : chain'[m] = chain[m]
         /\ SameConfig(chain'[n], c) /\ chain'[n].lead = c.lead /\ chain'[n].read = c.read
         /\ chain'[n].conf = c.conf /\ chain'[n].confProps = c.confProps
<1>1. \E X : chain' = [chain EXCEPT ![n] = X] /\ (X = c \/ \E b : X = [c EXCEPT !.last = b])
  BY DEF CatchUp
<1>2. PICK X : chain' = [chain EXCEPT ![n] = X] /\ (X = c \/ \E b : X = [c EXCEPT !.last = b])
  BY <1>1
<1>3. SameConfig(X, c) /\ X.lead = c.lead /\ X.read = c.read /\ X.conf = c.conf /\ X.confProps = c.confProps
  BY <1>2 DEF SameConfig, Chain
<1>4. chain'[n] = X /\ \A m \in Node \ {n} : chain'[m] = chain[m]
  BY <1>2 DEF Types
<1> QED  BY <1>3, <1>4

LEMMA SuspectEvictionConf ==
  ASSUME IInv, IInv', ConfInv, NEW n \in Node, SuspectEviction(n),
         chain[n].confChange \notin chain[n].conf \/ Settled(chain[n].conf)
  PROVE  ConfInv'
<1> DEFINE o == chain[n]
           c == chain'[n]
<1>0. Types /\ ConfOK(n) /\ o \in Chain /\ Aware(committed, o)
  BY DEF IInv, ConfInv, Types, ConfOK
<1>1. PICK m \in Node : \E k \in DOMAIN ledger[m] :
        /\ CatchUp(n, chain[n], ledger[m][k]) /\ UNCHANGED <<mode, raftVars, snap, inputVars>>
        /\ chain[n].lead = Nil
  BY DEF SuspectEviction
<1>2. PICK k \in DOMAIN ledger[m] :
        /\ CatchUp(n, chain[n], ledger[m][k]) /\ UNCHANGED <<mode, raftVars, snap, inputVars>>
        /\ chain[n].lead = Nil
  BY <1>1
<1>3. ledger[m][k] \in Written
  <2>1. ledger[m] \in Seq(Written)
    BY <1>0 DEF Types
  <2> QED  BY <2>1, ElementOfSeq, LenProperties
<1>4. UNCHANGED <<mode, raft, log, committed, snap, cutter>>
  BY <1>2 DEF raftVars, inputVars
<1>5. Len(ledger[n]) <= Len(ledger'[n])
  BY <1>0, <1>2, <1>3, CatchUpConfig
<1>6. /\ \A i \in Node \ {n} : chain'[i] = chain[i]
      /\ SameConfig(c, o) /\ c.lead = o.lead /\ c.read = o.read
      /\ c.conf = o.conf /\ c.confProps = o.confProps
  BY <1>0, <1>2, CatchUpKnows
<1>7. Changes(Hash(o.last)) \subseteq Changes(Hash(c.last))
  BY <1>4, <1>5, LaterChanges
<1>8. o.lead = Nil /\ (o.confChange \notin o.conf \/ Settled(o.conf))
  BY <1>2
<1> HIDE DEF o, c
<1>9. Aware(committed, c)
  BY <1>0, <1>6, <1>7, <1>8 DEF Aware, Pending, SameConfig
<1>10. c.lead # n /\ ~Serving(n, c)
  BY <1>6, <1>8, ChainAssumption DEF Serving
<1>11. Leader(n)' => Heading(n, mode, c, cutter'[n].msgs, Top(n)')
  <2>1. (Leader(n)' <=> Leader(n)) /\ Top(n)' = Top(n)
    BY <1>4 DEF Leader, Top
  <2>2. Leader(n) => Settled(o.conf) \/ Changes(Top(n).prev) \subseteq o.conf
    BY <1>0 DEF ConfOK, Heading, o
  <2> QED  BY <1>6, <1>10, <2>1, <2>2 DEF Heading
<1>12. /\ Saved(committed, c, snap'[n])
       /\ Extends(log'[n], committed) => LogFirst(log'[n])
  BY <1>0, <1>4, <1>6 DEF ConfOK, Saved, o
<1> QED  BY <1>4, <1>6, <1>9, <1>11, <1>12, ConfFrame DEF c

LEMMA InstallSnapshotConf ==
  ASSUME IInv, IInv', ConfInv, NEW n \in Node, InstallSnapshot(n),
         chain[n].confChange = Nil \/ MemberTx = {chain[n].confChange}
  PROVE  ConfInv'
<1>0. Types /\ chain[n] \in Chain /\ Aware(committed, chain[n]) /\ LogFirst(committed)
  BY DEF IInv, Types, ConfInv, ConfOK
<1>1. PICK l \in Node \ {n} :
        LET s == [snap[l] EXCEPT !.conf = chain[l].conf]
        IN  /\ log' = [log EXCEPT ![n] = SubSeq(committed, 1, s.idx)]
            /\ raft' = [raft EXCEPT ![n] = [@ EXCEPT !.role = "follower", !.lead = l, !.term = term]]
            /\ snap' = [snap EXCEPT ![n] = s]
            /\ s.idx > chain[n].read
            /\ HandleSnapshot(n, [chain[n] EXCEPT !.read = s.idx, !.conf = s.conf], s)
            /\ UNCHANGED <<mode, term, committed, inputVars, crashes, snaps>>
  BY ZenonT(30) DEF InstallSnapshot
<1> DEFINE s == [snap[l] EXCEPT !.conf = chain[l].conf]
           c == [chain[n] EXCEPT !.read = s.idx, !.conf = s.conf]
           t == SubSeq(committed, 1, s.idx)
           e == [blk |-> s.blk, idx |-> 0]
           X == chain'[n]
<1>2. /\ log' = [log EXCEPT ![n] = t] /\ HandleSnapshot(n, c, s) /\ snap' = [snap EXCEPT ![n] = s]
      /\ UNCHANGED <<mode, committed, cutter>> /\ s.idx > chain[n].read
  BY <1>1 DEF inputVars
<1>3. /\ s.idx \in Nat /\ s.idx <= Len(committed) /\ s.conf \subseteq Tx /\ s.blk \in Block
      /\ Knows(committed, s.conf, s.idx)
  <2>1. /\ snap[l] \in Snapshot /\ chain[l] \in Chain /\ SnapshotOK(committed, snap[l])
        /\ Aware(committed, chain[l]) /\ Saved(committed, chain[l], snap[l])
    BY <1>0 DEF Types, IInv, WriteInv, IndexOK, Indexed, ConfInv, ConfOK
  <2>2. s.idx = snap[l].idx /\ s.conf = chain[l].conf /\ s.blk = snap[l].blk
    BY <2>1 DEF Snapshot
  <2>3. snap[l].idx \in Nat /\ chain[l].read \in Nat /\ snap[l].idx <= chain[l].read
    BY <2>1 DEF Snapshot, Chain, Saved
  <2>4. Confs(committed, snap[l].idx) \subseteq Confs(committed, chain[l].read)
    BY <2>3, ConfsOf
  <2>5. Knows(committed, chain[l].conf, snap[l].idx)
    BY <2>1, <2>4 DEF Aware, Knows
  <2> HIDE DEF s
  <2> QED  BY <2>1, <2>2, <2>5 DEF Snapshot, Chain, SnapshotOK
<1> HIDE DEF s
<1>4. /\ c \in Chain /\ e \in Written /\ c.read = s.idx /\ c.conf = s.conf
      /\ SameConfig(c, chain[n]) /\ c.confProps = chain[n].confProps
  BY <1>0, <1>3 DEF Chain, Written, SameConfig
<1> HIDE DEF c, e
<1>5. /\ \A m \in Node \ {n} : chain'[m] = chain[m]
      /\ X.read = s.idx /\ X.conf = s.conf
      /\ SameConfig(X, chain[n]) /\ X.confProps = chain[n].confProps
      /\ Len(ledger[n]) <= Len(ledger'[n])
  <2>1. CASE chain' = [chain EXCEPT ![n] = c] /\ UNCHANGED ledger
    <3>1. Len(ledger[n]) \in Nat
      BY <1>0, LenProperties DEF Types
    <3> QED  BY <1>0, <1>4, <2>1, <3>1 DEF Types, SameConfig
  <2>2. CASE CatchUp(n, [c EXCEPT !.applied = s.idx], e)
    <3> DEFINE d == [c EXCEPT !.applied = s.idx]
    <3>1. /\ d \in Chain /\ d.read = c.read /\ d.conf = c.conf /\ SameConfig(d, c)
          /\ d.confProps = c.confProps
      BY <1>3, <1>4 DEF Chain, SameConfig
    <3>2. CatchUp(n, d, e)
      BY <2>2
    <3> HIDE DEF d
    <3>3. Len(ledger[n]) <= Len(ledger'[n])
      BY <1>4, <3>1, <3>2, CatchUpConfig
    <3>4. /\ \A m \in Node \ {n} : chain'[m] = chain[m]
          /\ SameConfig(X, d) /\ X.read = d.read /\ X.conf = d.conf /\ X.confProps = d.confProps
      BY <1>0, <3>1, <3>2, CatchUpKnows
    <3> QED  BY <1>4, <3>1, <3>3, <3>4 DEF SameConfig
  <2> QED  BY <1>2, <2>1, <2>2 DEF HandleSnapshot, e
<1>6. ASSUME Extends(t, committed) PROVE t = committed
  <2>1. committed \in Seq(LogEntry) /\ Len(committed) \in Nat /\ DOMAIN committed = 1 .. Len(committed)
    BY <1>0, LenProperties DEF Types
  <2>2. Len(t) = s.idx /\ t \in Seq(LogEntry)
    BY <1>3, <2>1, SubSeqProperties
  <2> HIDE DEF t
  <2> QED  BY <1>3, <1>6, <2>1, <2>2, ExtendsOrder
<1> HIDE DEF t
<1>7. /\ log'[n] = t /\ raft'[n].role = "follower" /\ snap'[n] = s
      /\ \A m \in Node \ {n} : log'[m] = log[m] /\ raft'[m] = raft[m] /\ snap'[m] = snap[m]
  BY <1>0, <1>1, <1>2 DEF Types
<1>8. Extends(log'[n], committed) => LogFirst(log'[n])
  BY <1>0, <1>6, <1>7
<1>9. ~Leader(n)'
  BY <1>7 DEF Leader
<1>10. Changes(Hash(chain[n].last)) \subseteq Changes(Hash(X.last))
  BY <1>2, <1>5, LaterChanges
<1> HIDE DEF X
<1>11. Saved(committed, X, snap'[n]) /\ Knows(committed, X.conf, X.read)
       /\ X.confProps \subseteq Changes(Hash(X.last))
  BY <1>0, <1>3, <1>5, <1>7, <1>10 DEF Aware, Saved
<1>12. ASSUME X.confChange # Nil
       PROVE  /\ Pending(X, Confs(committed, X.read), X.confChange)
              /\ Settled(Confs(committed, X.read)) \/ X.configInflight
  <2> DEFINE o == chain[n]
  <2>1. o.confChange = X.confChange /\ o.configInflight = X.configInflight
    BY <1>5 DEF SameConfig
  <2>2. MemberTx = {X.confChange}
    BY <1>12, <2>1
  <2>3. Settled(Confs(committed, o.read)) => Settled(Confs(committed, X.read))
    <3>1. o.read \in Nat /\ o.read <= s.idx
      BY <1>0, <1>2, <1>3 DEF Chain
    <3> HIDE DEF o
    <3>2. Confs(committed, o.read) \subseteq Confs(committed, s.idx)
      BY <1>3, <3>1, ConfsOf
    <3> QED  BY <1>5, <3>2, SettledAll
  <2>4. \A f : X.confChange \in f => Settled(f)
    BY <2>2 DEF Settled
  <2>5. X.confChange \in Changes(Hash(X.last))
    BY <1>0, <1>10, <1>12, <2>1 DEF Aware, Pending
  <2>6. Pending(X, Confs(committed, X.read), X.confChange)
    BY <2>4, <2>5 DEF Pending
  <2> QED  BY <1>0, <1>12, <2>1, <2>3, <2>6 DEF Aware
<1>13. Aware(committed, X)
  BY <1>11, <1>12 DEF Aware
<1> QED  BY <1>2, <1>5, <1>7, <1>8, <1>9, <1>11, <1>13, ConfFrame DEF X

LEMMA RebootConf ==
  ASSUME IInv, ConfInv, NEW n \in Node, Reboot(n)
  PROVE  ConfInv'
<1> DEFINE s == snap[n]
<1>0. Types /\ ConfOK(n)
  BY DEF IInv, ConfInv
<1>1. /\ UNCHANGED <<mode, log, committed, snap>>
      /\ raft' = [raft EXCEPT ![n].role = "follower", ![n].lead = Nil]
      /\ cutter' = [cutter EXCEPT ![n] = EmptyReceiver]
  BY DEF Reboot
<1>2. PICK d \in OnDisk(n) :
        LET c == NewChain(Last(d), s)
        IN  \/ \E a : chain' = [chain EXCEPT ![n] = [c EXCEPT !.applied = a]]
            \/ chain' = [chain EXCEPT ![n] = [c EXCEPT !.applied = s.idx, !.last = s.blk]]
  <2> HIDE DEF s
  <2>1. PICK d \in OnDisk(n) :
          LET c == NewChain(Last(d), s)
          IN  \/ chain' = [chain EXCEPT ![n] = [c EXCEPT !.applied = IF s.idx <= @ THEN @ ELSE s.idx]]
              \/ chain' = [chain EXCEPT ![n] = [c EXCEPT !.applied = s.idx, !.last = s.blk]]
    BY DEF Reboot, s
  <2> DEFINE c == NewChain(Last(d), s)
             a == IF s.idx <= c.applied THEN c.applied ELSE s.idx
  <2>2. [c EXCEPT !.applied = IF s.idx <= @ THEN @ ELSE s.idx] = [c EXCEPT !.applied = a]
    BY DEF NewChain
  <2> HIDE DEF a
  <2> QED  BY <2>1, <2>2
<1> DEFINE c == NewChain(Last(d), s)
<1>3. PICK X : /\ chain' = [chain EXCEPT ![n] = X]
               /\ \/ \E a : X = [c EXCEPT !.applied = a]
                  \/ X = [c EXCEPT !.applied = s.idx, !.last = s.blk]
  BY <1>2
<1>4. X.read = s.idx /\ X.conf = s.conf /\ X.confProps = {} /\ X.confChange = Nil
  BY <1>3 DEF NewChain
<1>5. chain'[n] = X /\ raft'[n].role = "follower"
      /\ \A m \in Node \ {n} : chain'[m] = chain[m] /\ raft'[m] = raft[m] /\ cutter'[m] = cutter[m]
  BY <1>0, <1>1, <1>3 DEF Types
<1>6. Knows(committed, s.conf, s.idx) /\ (Extends(log[n], committed) => LogFirst(log[n])) /\ s.idx \in Nat
  BY <1>0 DEF ConfOK, Saved, Types, Snapshot
<1>7. Aware(committed, chain'[n]) /\ Saved(committed, chain'[n], snap'[n]) /\ ~Leader(n)'
  <2>1. Aware(committed, X) /\ Saved(committed, X, s)
    BY <1>4, <1>6 DEF Aware, Saved
  <2> QED  BY <1>1, <1>5, <2>1 DEF Leader
<1> QED  BY <1>1, <1>5, <1>6, <1>7, ConfFrame

(* A leader appends a block with the changes it has applied, which are all *)
(* those before the block.                                                 *)
LEMMA ProposeConf ==
  ASSUME IInv, ConfInv, NEW n \in Node, Propose(n)
  PROVE  ConfInv'
<1> DEFINE o == chain[n]
           c == chain'[n]
<1>0. /\ Types /\ TermInv /\ ConfOK(n) /\ log[n] \in Seq(LogEntry) /\ o \in Chain
      /\ Aware(committed, o) /\ committed \in Seq(LogEntry)
  BY DEF IInv, ConfInv, Types, ConfOK
<1>1. /\ UNCHANGED <<mode, raft, committed, snap>> /\ cutter' = cutter
      /\ \A m \in Node \ {n} : chain'[m] = chain[m] /\ log'[m] = log[m]
      /\ SameConf(c, o) /\ c.confProps = o.confProps
      /\ c.lead = o.lead /\ c.justElected = o.justElected
      /\ c.bc = o.bc /\ c.open = o.open /\ Serving(n, o)
  BY ProposeEffect DEF inputVars
<1>2. ASSUME Extends(log'[n], committed)
      PROVE  /\ Extends(log[n], committed) /\ LogFirst(log'[n])
             /\ Leader(n) => Changes(Top(n)'.prev) \subseteq o.conf
  <2>1. CASE log'[n] = log[n]
    BY <1>0, <1>2, <2>1, SettledAll DEF ConfOK, Heading, Top
  <2>2. CASE log'[n] # log[n]
    <3>1. PICK e \in LogEntry :
            /\ raft[n].role = "leader" /\ log'[n] = Append(log[n], e)
            /\ e.term = raft[n].term /\ e.type = "block" /\ e.known = o.conf
            /\ Leader(n) => e.blk.num # 0 /\ Within(e.blk, o.bc)
      BY <2>2, ProposeEffect
    <3>2. Extends(log[n], committed)
      BY <1>0, <1>2, <3>1, LeaderAppends
    <3>3. Leader(n) /\ (Settled(o.conf) \/ InFlight(o)) /\ LogFirst(log[n])
      BY <1>0, <1>1, <3>1, <3>2 DEF Leader, ConfOK, Heading
    <3>4. Top(n)' = e.blk
      BY <1>0, <3>1, AppendLog DEF Top, TipStep
    <3>5. e.blk \in Block /\ o.bc \in Block
      <4>1. Leading(n, o, cutter[n].msgs)
        BY DEF IInv, LeaderInv, LeaderOK
      <4> QED  BY <1>0, <1>1, <3>1, <4>1 DEF LogEntry, Leading, Chain
    <3>6. Changes(e.blk.prev) \subseteq o.conf
      <4>1. Changes(e.blk.prev) \subseteq Changes(o.bc.prev)
        BY <3>1, <3>3, <3>5, ChangesWithin
      <4> QED  BY <3>3, <4>1, SettledAll DEF InFlight
    <3>7. o.conf \subseteq Confs(log[n], Len(log[n]))
      <4>1. /\ Len(committed) \in Nat /\ Len(log[n]) \in Nat /\ Len(committed) <= Len(log[n])
            /\ Len(committed) \in 0 .. Len(committed)
        BY <1>0, <3>2, LenProperties DEF Extends
      <4>2. o.conf \subseteq Confs(committed, Len(committed))
        BY <1>0 DEF Aware, Knows
      <4>3. Confs(log[n], Len(committed)) = Confs(committed, Len(committed))
        BY <1>0, <3>2, <4>1, ConfsPrefix
      <4>4. Confs(log[n], Len(committed)) \subseteq Confs(log[n], Len(log[n]))
        BY <4>1, ConfsOf
      <4> QED  BY <4>2, <4>3, <4>4
    <3>8. LogFirst(Append(log[n], e))
      BY <1>0, <3>1, <3>3, <3>6, <3>7, LogFirstMore
    <3> QED  BY <3>1, <3>2, <3>4, <3>6, <3>8
  <2> QED  BY <2>1, <2>2
<1>3. ASSUME Leader(n)', ~Settled(c.conf) PROVE Heading(n, mode, c, cutter'[n].msgs, Top(n)')
  <2>1. Leader(n) /\ Changes(Top(n)'.prev) \subseteq o.conf
    BY <1>1, <1>2, <1>3 DEF Leader
  <2>2. Heading(n, mode, o, cutter[n].msgs, Top(n)) /\ ~Settled(o.conf)
    BY <1>0, <1>1, <1>3, <2>1 DEF ConfOK, SameConf
  <2> HIDE DEF o, c
  <2>3. InFlight(c) /\ Shut(mode, c, cutter'[n].msgs)
    BY <1>1, <2>2 DEF Heading, InFlight, Shut, SameConf, SameConfig
  <2>4. /\ Changes(Top(n)'.prev) \subseteq c.conf
        /\ c.lead = n => Changes(Hash(c.last)) \subseteq c.conf \cup {c.confChange}
    BY <1>1, <2>1, <2>2 DEF Heading, SameConf, SameConfig
  <2> QED  BY <2>3, <2>4 DEF Heading
<1>4. Aware(committed, c)
  BY <1>0, <1>1 DEF Aware, Pending, SameConf, SameConfig
<1>5. Saved(committed, c, snap'[n])
  BY <1>0, <1>1 DEF ConfOK, Saved, SameConf
<1>6. Leader(n)' => Heading(n, mode, c, cutter'[n].msgs, Top(n)')
  BY <1>3 DEF Heading
<1> QED  BY <1>1, <1>2, <1>4, <1>5, <1>6, ConfFrame

(* A change is proposed once its block is written.                         *)
LEMMA ProposeConfChangeConf ==
  ASSUME IInv, ConfInv, NEW n \in Node, ProposeConfChange(n)
  PROVE  ConfInv'
<1> DEFINE o == chain[n]
           c == chain'[n]
<1>0. /\ Types /\ TermInv /\ ConfOK(n) /\ log[n] \in Seq(LogEntry) /\ o \in Chain
      /\ Aware(committed, o) /\ InLog(committed, o.last)
  BY LastBlock DEF IInv, ConfInv, Types, ConfOK
<1>1. /\ UNCHANGED <<mode, committed, snap>> /\ cutter' = cutter
      /\ \A m \in Node \ {n} : chain'[m] = chain[m] /\ log'[m] = log[m] /\ raft'[m] = raft[m]
      /\ raft'[n].role = raft[n].role
      /\ SameLead(c, o) /\ SameConf(c, o) /\ c.confProps \subseteq o.confProps
  BY ProposeConfEffect DEF inputVars
<1>2. ASSUME Extends(log'[n], committed)
      PROVE  Extends(log[n], committed) /\ LogFirst(log'[n]) /\ Top(n)' = Top(n)
  <2>1. CASE log'[n] = log[n]
    BY <1>0, <1>2, <2>1 DEF ConfOK, Top
  <2>2. CASE log'[n] # log[n]
    <3>1. PICK t \in o.confProps : \E e \in LogEntry :
            /\ raft[n].role = "leader" /\ log'[n] = Append(log[n], e)
            /\ e.term = raft[n].term /\ e.type # "block" /\ e.known = {}
            /\ e.type = "conf" => e.blk.data = <<t>>
      BY <2>2, ProposeConfEffect
    <3>2. PICK e \in LogEntry :
            /\ raft[n].role = "leader" /\ log'[n] = Append(log[n], e)
            /\ e.term = raft[n].term /\ e.type # "block" /\ e.known = {}
            /\ e.type = "conf" => e.blk.data = <<t>>
      BY <3>1
    <3>3. Extends(log[n], committed)
      BY <1>0, <1>2, <3>2, LeaderAppends
    <3>4. Top(n)' = Top(n)
      BY <1>0, <3>2, AppendLog DEF Top, TipStep
    <3>5. Leader(n) /\ LogFirst(log[n])
      BY <1>0, <3>2, <3>3 DEF Leader, ConfOK
    <3>6. t \in Changes(Hash(Top(n)))
      <4>1. Changes(Hash(o.last)) \subseteq Changes(Hash(Top(n)))
        BY <1>0, <3>5, LeaderWithin
      <4> QED  BY <1>0, <4>1 DEF Aware
    <3>7. e.type = "conf" => \E u \in Changes(Hash(Tip(log[n])[Len(log[n])])) : e.blk.data = <<u>>
      BY <3>2, <3>6 DEF Top
    <3>8. LogFirst(Append(log[n], e))
      BY <1>0, <3>2, <3>5, <3>7, LogFirstMore
    <3> QED  BY <3>2, <3>3, <3>4, <3>8
  <2> QED  BY <2>1, <2>2
<1>3. ASSUME Leader(n)', ~Settled(c.conf) PROVE Heading(n, mode, c, cutter'[n].msgs, Top(n)')
  <2>1. Leader(n) /\ Top(n)' = Top(n)
    BY <1>1, <1>2, <1>3 DEF Leader
  <2>2. Heading(n, mode, o, cutter[n].msgs, Top(n)) /\ ~Settled(o.conf)
    BY <1>0, <1>1, <1>3, <2>1 DEF ConfOK, SameConf
  <2> HIDE DEF o, c
  <2>3. Serving(n, c) => InFlight(c) /\ Shut(mode, c, cutter'[n].msgs)
    BY <1>1, <2>2 DEF Heading, InFlight, Shut, SameConf, SameConfig, SameLead, Serving
  <2>4. /\ Changes(Top(n)'.prev) \subseteq c.conf
        /\ c.lead = n => Changes(Hash(c.last)) \subseteq c.conf \cup {c.confChange}
    BY <1>1, <2>1, <2>2 DEF Heading, SameConf, SameConfig, SameLead
  <2> QED  BY <2>3, <2>4 DEF Heading
<1>4. Aware(committed, c)
  BY <1>0, <1>1 DEF Aware, Pending, SameConf, SameConfig
<1>5. Saved(committed, c, snap'[n])
  BY <1>0, <1>1 DEF ConfOK, Saved, SameConf
<1>6. Leader(n)' => Heading(n, mode, c, cutter'[n].msgs, Top(n)')
  BY <1>3 DEF Heading
<1> QED  BY <1>1, <1>2, <1>4, <1>5, <1>6, ConfFrame

(* A leader makes blocks only while no configuration is in flight.         *)
LEMMA MakesBlocksConf ==
  ASSUME IInv, ConfInv, NEW n \in Node, NEW R, MakesBlocks(n, R)
  PROVE  ConfInv'
<1> DEFINE c == chain[n]
           X == chain'[n]
<1>0. Types /\ ConfOK(n) /\ Aware(committed, c) /\ c \in Chain
  BY DEF IInv, ConfInv, ConfOK, Types
<1>1. /\ Serving(n, c) /\ UNCHANGED <<mode, raft, log, committed, snap>>
      /\ \A m \in Node \ {n} : chain'[m] = chain[m] /\ cutter'[m] = cutter[m]
      /\ Served(c, X, R)
      /\ c.open \/ (~mode /\ cutter[n].msgs # << >>)
      /\ X.configInflight # c.configInflight => ~X.open /\ (~mode => cutter'[n].msgs = << >>)
  BY DEF MakesBlocks, raftVars
<1> HIDE DEF c, X
<1>2. /\ X.lead = c.lead /\ X.justElected = c.justElected /\ X.last = c.last
      /\ X.read = c.read /\ X.conf = c.conf /\ X.confChange = c.confChange
      /\ X.confProps = c.confProps /\ (c.configInflight => X.configInflight)
  BY <1>0, <1>1 DEF Served
<1>3. Aware(committed, X)
  BY <1>0, <1>2 DEF Aware, Pending
<1>4. ASSUME Leader(n), ~Settled(X.conf) PROVE Heading(n, mode, X, cutter'[n].msgs, Top(n))
  <2>1. Heading(n, mode, c, cutter[n].msgs, Top(n)) /\ ~Settled(c.conf)
    BY <1>0, <1>2, <1>4 DEF ConfOK, c
  <2>2. /\ InFlight(c) /\ ~c.configInflight /\ Changes(Hash(c.bc)) \subseteq c.conf
        /\ Changes(c.bc.prev) \subseteq c.conf
        /\ \A t \in ConfigTx : Holds(Hash(c.bc), t) => Holds(Hash(c.last), t)
    BY <1>1, <2>1 DEF Heading, InFlight, Shut
  <2>3. /\ X.configInflight => ~X.open /\ (~mode => cutter'[n].msgs = << >>)
        /\ X.confChange = Nil
    BY <1>0, <1>1, <1>2, <2>1, <2>2, SettledAll DEF Aware, Knows
  <2>4. CASE X.bc = c.bc /\ X.configInflight = c.configInflight
    <3>1. InFlight(X)
      BY <1>2, <2>2, <2>3, <2>4 DEF InFlight
    <3> QED  BY <1>2, <2>1, <2>3, <3>1 DEF Heading, Shut
  <2>5. CASE \E p \in Block, d \in Seq(Tx) :
               /\ X.bc = NextBlock(p, d) /\ SameHistory(p, c.bc)
               /\ X.configInflight = (c.configInflight \/ IsConfigData(d))
    <3>1. PICK p \in Block, d \in Seq(Tx) :
               /\ X.bc = NextBlock(p, d) /\ SameHistory(p, c.bc)
               /\ X.configInflight = (c.configInflight \/ IsConfigData(d))
      BY <2>5
    <3>2. X.configInflight <=> \E t \in ConfigTx : d = <<t>>
      BY <2>2, <3>1, ConfigDataIs
    <3>3. X.bc.data = d /\ X.bc.prev = Hash(p)
      BY <3>1 DEF NextBlock
    <3>4. \A t : Holds(Hash(X.bc), t) <=> Holds(Hash(p), t) \/ d = <<t>>
      BY <3>1, HistoryNext
    <3>5. \A t \in ConfigTx : Holds(Hash(p), t) <=> Holds(Hash(c.bc), t)
      BY <3>1 DEF SameHistory
    <3>6. Changes(Hash(p)) \subseteq c.conf
      BY <2>2, <3>5, ChainAssumption DEF Changes
    <3>7. ASSUME NEW t \in ConfigTx, Holds(Hash(X.bc), t), ~Holds(Hash(X.last), t)
          PROVE  X.bc.data = <<t>> /\ X.configInflight
      BY <1>2, <2>2, <3>2, <3>3, <3>4, <3>5, <3>7
    <3>8. X.configInflight \/ Changes(Hash(X.bc)) \subseteq X.conf
      <4>1. ~X.configInflight => Changes(Hash(X.bc)) \subseteq Changes(Hash(p))
        BY <3>2, <3>4, ChainAssumption DEF Changes
      <4> QED  BY <1>2, <3>6, <4>1
    <3>9. InFlight(X)
      BY <1>2, <2>3, <3>3, <3>6, <3>7, <3>8 DEF InFlight
    <3> QED  BY <1>2, <2>1, <2>3, <3>9 DEF Heading, Shut
  <2> QED  BY <1>1, <2>4, <2>5, Zenon DEF Served
<1>5. Leader(n) => Heading(n, mode, X, cutter'[n].msgs, Top(n))
  BY <1>4 DEF Heading
<1>6. /\ Leader(n)' => Heading(n, mode, X, cutter'[n].msgs, Top(n)')
      /\ Saved(committed, X, snap'[n])
      /\ Extends(log'[n], committed) => LogFirst(log'[n])
  BY <1>0, <1>1, <1>2, <1>5 DEF Leader, Top, ConfOK, Saved, c
<1> QED  BY <1>1, <1>3, <1>6, ConfFrame DEF X

LEMMA InputConf ==
  ASSUME IInv, OutdatedInv, OnceInv, ConfInv, NEW n \in Node, Input(n)
  PROVE  ConfInv'
<1>0. InputMoves(n)
  BY InputMovesOnce DEF OnceInv
<1>1. CASE Reboot(n)
  BY <1>1, RebootConf
<1>2. CASE \E R : MakesBlocks(n, R)
  BY <1>2, MakesBlocksConf
<1>3. CASE UNCHANGED <<mode, raftVars, chain, ledger, snap>> /\ (mode \/ cutter' = cutter)
  <2>1. UNCHANGED <<mode, raft, log, committed, chain, snap>> /\ (mode \/ cutter' = cutter)
    BY <1>3 DEF raftVars
  <2>2. ASSUME NEW m \in Node PROVE ConfOK(m)'
    <3>1. ConfOK(m)
      BY DEF ConfInv
    <3>2. (Leader(m)' <=> Leader(m)) /\ Top(m)' = Top(m)
      BY <2>1 DEF Leader, Top
    <3>3. Leader(m) => Heading(m, mode, chain[m], cutter'[m].msgs, Top(m))
      <4>1. Shut(mode, chain[m], cutter[m].msgs) => Shut(mode, chain[m], cutter'[m].msgs)
        BY <2>1 DEF Shut
      <4> QED  BY <3>1, <4>1 DEF ConfOK, Heading
    <3> QED  BY <2>1, <3>1, <3>2, <3>3 DEF ConfOK
  <2> QED  BY <2>1, <2>2 DEF ConfInv
<1> QED  BY <1>0, <1>1, <1>2, <1>3 DEF InputMoves

LEMMA InitConf == Init => ConfInv
<1> SUFFICES ASSUME Init PROVE ConfInv
  OBVIOUS
<1>1. /\ committed = << >> /\ log = [n \in Node |-> << >>]
      /\ raft = [n \in Node |-> [role |-> "follower", lead |-> Nil, term |-> 0, pending |-> 0]]
      /\ snap = [n \in Node |-> NoSnapshot]
      /\ chain = [n \in Node |-> NewChain([blk |-> Genesis, idx |-> 0], NoSnapshot)]
  BY DEF Init
<1>2. LogFirst(<< >>) /\ Knows(<< >>, {}, 0)
  <2>1. DOMAIN << >> = {} /\ Len(<< >>) = 0
    OBVIOUS
  <2>2. Confs(<< >>, 0) = {}
    BY ConfsOf
  <2> QED  BY <2>1, <2>2 DEF LogFirst, Knows
<1>3. ASSUME NEW n \in Node PROVE ConfOK(n)
  <2>1. log[n] = << >> /\ raft[n].role = "follower" /\ snap[n].conf = {} /\ snap[n].idx = 0
        /\ chain[n].conf = {} /\ chain[n].read = 0 /\ chain[n].confChange = Nil /\ chain[n].confProps = {}
    BY <1>1 DEF NewChain, NoSnapshot
  <2>2. Aware(committed, chain[n]) /\ Saved(committed, chain[n], snap[n]) /\ ~Leader(n)
    <3>1. Knows(committed, chain[n].conf, chain[n].read) /\ Knows(committed, snap[n].conf, snap[n].idx)
      BY <1>1, <1>2, <2>1
    <3> QED  BY <2>1, <3>1 DEF Aware, Saved, Leader
  <2> QED  BY <1>1, <1>2, <2>1, <2>2 DEF ConfOK
<1> QED  BY <1>1, <1>2, <1>3 DEF ConfInv

(***************************************************************************)
(* Among several changes, a node takes blocks from elsewhere while one is  *)
(* in progress whose entry it will not read, or that it knows to be        *)
(* applied: the change then stays in progress behind the blocks            *)
(* (confChangeInProgress in chain.go).                                     *)
(***************************************************************************)
Overtakes(n) ==
    /\ MemberTx # {chain[n].confChange}
    /\ \/ InstallSnapshot(n) /\ chain[n].confChange # Nil
       \/ SuspectEviction(n) /\ chain[n].confChange \in chain[n].conf

(* With one change of the consenters nothing is overtaken.                 *)
LEMMA OneNotOvertaken ==
  ASSUME IInv, ConfInv, NEW m, MemberTx \subseteq {m}, NEW n \in Node
  PROVE  ~Overtakes(n)
<1>1. chain[n] \in Chain /\ Aware(committed, chain[n]) /\ Nil \notin Tx
  BY ChainAssumption DEF IInv, Types, ConfInv, ConfOK, Tx
<1>2. chain[n].conf \subseteq Tx
  BY <1>1 DEF Chain
<1>3. chain[n].confChange # Nil => chain[n].confChange \in MemberTx
  BY <1>1 DEF Aware, Pending, Changes
<1> QED  BY <1>1, <1>2, <1>3 DEF Overtakes

LEMMA StepConf ==
  ASSUME SnapshotsRead', IInv, OutdatedInv, OnceInv, ConfInv, [Next]_vars,
         [\A n \in Node : ~Overtakes(n)]_vars
  PROVE  ConfInv'
<1>1. CASE UNCHANGED vars
  <2>1. UNCHANGED <<mode, raft, log, committed, chain, snap, cutter>>
    BY <1>1 DEF vars, raftVars, inputVars
  <2>2. ASSUME NEW n \in Node PROVE ConfOK(n)'
    <3>1. ConfOK(n) /\ (Leader(n)' <=> Leader(n)) /\ Top(n)' = Top(n)
      BY <2>1 DEF ConfInv, Leader, Top
    <3> QED  BY <2>1, <3>1 DEF ConfOK
  <2> QED  BY <2>1, <2>2 DEF ConfInv
<1>2. CASE Next /\ \A n \in Node : ~Overtakes(n)
  <2>0. IInv'
    BY <1>2, StepKeeps
  <2>1. PICK n \in Node : \/ Raft(n) \/ Apply(n) \/ InstallSnapshot(n) \/ SuspectEviction(n)
                          \/ Propose(n) \/ ProposeConfChange(n) \/ Input(n) \/ Crash(n)
    BY <1>2 DEF Next
  <2>2. CASE Crash(n)
    BY <2>2, RebootConf DEF Crash
  <2>3. CASE Apply(n)
    BY <2>3, ApplySoftConf, SkipEntryConf, ApplyBlockConf, ApplyConfChangeConf DEF Apply
  <2>4. CASE InstallSnapshot(n)
    <3>1. chain[n].confChange = Nil \/ MemberTx = {chain[n].confChange}
      BY <1>2, <2>4 DEF Overtakes
    <3> QED  BY <2>0, <2>4, <3>1, InstallSnapshotConf
  <2>5. CASE SuspectEviction(n)
    <3>1. chain[n].confChange \notin chain[n].conf \/ MemberTx = {chain[n].confChange}
      BY <1>2, <2>5 DEF Overtakes
    <3>2. chain[n].confChange \notin chain[n].conf \/ Settled(chain[n].conf)
      BY <3>1 DEF Settled
    <3> QED  BY <2>0, <2>5, <3>2, SuspectEvictionConf
  <2> QED  BY <2>1, <2>2, <2>3, <2>4, <2>5, RaftConf, ProposeConf, ProposeConfChangeConf, InputConf
<1> QED  BY <1>1, <1>2

(* The changes of the consenters that a node knows, has in progress and    *)
(* has in flight, and the order of changes and blocks in the logs, as long *)
(* as no node takes blocks from elsewhere past one of several changes      *)
(* (writeConfigBlock, ApplyConfChange, becomeLeader, getInFlightConfChange *)
(* of chain.go, hup of raft).                                              *)
THEOREM ConfInvariance ==
  Spec /\ []SnapshotsRead /\ [][\A n \in Node : ~Overtakes(n)]_vars => []ConfInv
<1>1. Init => ConfInv
  BY InitConf
<1>2. IInv /\ OutdatedInv /\ OnceInv /\ ConfInv /\ SnapshotsRead' /\ [Next]_vars
      /\ [\A n \in Node : ~Overtakes(n)]_vars
        => ConfInv'
  BY StepConf
<1> QED  BY <1>1, <1>2, ChainInvariance, OutdatedInvariance, OnceInvariance, PTL DEF Spec

LEMMA ConfChangeFollows ==
  ASSUME IInv, OnceInv, ConfInv
  PROVE  ConfChangeFirst
<1> SUFFICES ASSUME NEW i \in DOMAIN committed, NEW j \in DOMAIN committed,
                    i < j, committed[i].type = "block", committed[j].type = "block",
                    IsConfigBlock(committed[i].blk), committed[i].blk.data[1] \in MemberTx
             PROVE  \E k \in i .. j : /\ committed[k].type = "conf"
                                      /\ committed[k].blk.data = committed[i].blk.data
  BY DEF ConfChangeFirst
<1> DEFINE b == committed[i].blk
           a == committed[j].blk
           p == i - 1
           q == j - 1
           h == Tip(committed)[p]
           g == Tip(committed)[q]
<1>0. /\ committed \in Seq(LogEntry) /\ Chained(committed) /\ LogFirst(committed)
      /\ Len(committed) \in Nat /\ DOMAIN committed = 1 .. Len(committed)
  BY LenProperties DEF IInv, Types, LogInv, ConfInv
<1>1. /\ i \in 0 .. Len(committed) /\ p \in 0 .. Len(committed) /\ q \in 0 .. Len(committed)
      /\ i <= q /\ i \in Nat /\ j \in Nat /\ q \in Nat
  BY <1>0
<1>2. b \in Block /\ a \in Block /\ b.data \in Seq(Tx)
  <2>1. committed[i] \in LogEntry /\ committed[j] \in LogEntry
    BY <1>0, ElementOfSeq
  <2> QED  BY <2>1 DEF LogEntry, Block, Tx
<1>3. b = NextBlock(h, b.data) /\ a = NextBlock(g, a.data) /\ Tip(committed)[i] = b
  <2>1. Tip(committed)[i] = TipStep(Tip(committed)[i - 1], committed[i])
    BY <1>0, TipDef
  <2> QED  BY <1>0, <2>1 DEF Chained, TipStep
<1>4. h \in Block /\ g \in Block /\ InLog(committed, b)
  BY <1>0, <1>1, <1>3, TipDef DEF InLog
<1>5. PICK t \in ConfigTx : b.data = <<t>>
  BY <1>2, ConfigDataIs DEF IsConfigBlock
<1>6. t \in MemberTx
  BY <1>5
<1>7. Confs(committed, p) \subseteq Changes(Hash(h))
  BY <1>0, <1>1, ConfsBefore
<1>8. Within(b, g)
  <2>1. Within(Tip(committed)[i], Tip(committed)[q])
    <3> HIDE DEF q
    <3> QED  BY <1>0, <1>1, LogWithin
  <2> QED  BY <1>3, <2>1
<1>9. Changes(a.prev) \subseteq Confs(committed, q)
  BY <1>0 DEF LogFirst
<1> HIDE DEF a, b, g, h
<1>10. b.num # 0 /\ b.prev = Hash(h) /\ a.prev = Hash(g)
  <2>1. b.num = h.num + 1 /\ b.prev = Hash(h) /\ a.prev = Hash(g) /\ h.num \in Nat
    BY <1>3, <1>4 DEF NextBlock, Block
  <2> QED  BY <2>1
<1>11. t \in Changes(a.prev)
  <2>1. t \in Changes(Hash(b))
    BY <1>2, <1>5, <1>6, <1>10, ChangesOf
  <2>2. Changes(Hash(b)) \subseteq Changes(Hash(g))
    BY <1>2, <1>4, <1>8, ChangesWithin
  <2> QED  BY <1>10, <2>1, <2>2
<1>12. t \notin Changes(b.prev)
  <2>1. Once(Hash(b))
    BY <1>4, CommittedPure DEF Pure
  <2>2. ~Holds(b.prev, t)
    BY <1>2, <1>5, <1>10, <2>1, HistoryOf
  <2> QED  BY <2>2 DEF Changes
<1>13. t \in Confs(committed, q) /\ t \notin Confs(committed, p)
  BY <1>7, <1>9, <1>10, <1>11, <1>12
<1>14. PICK k \in 1 .. q : committed[k].type = "conf" /\ committed[k].blk.data = <<t>>
  BY <1>13 DEF Confs
<1>15. k \notin 1 .. p
  <2> HIDE DEF p
  <2> QED  BY <1>6, <1>13, <1>14 DEF Confs
<1>16. k \in i .. j
  BY <1>1, <1>14, <1>15
<1> QED  BY <1>5, <1>14, <1>16 DEF b

(* No block is committed after one that changes the consenters before the  *)
(* raft configuration change it leads to, as long as no node takes blocks  *)
(* from elsewhere past one of several changes (writeConfigBlock,           *)
(* becomeLeader and getInFlightConfChange of chain.go).                    *)
THEOREM ConfChangeComesFirst ==
  Spec /\ []SnapshotsRead /\ [][\A n \in Node : ~Overtakes(n)]_vars => []ConfChangeFirst
<1>1. IInv /\ OnceInv /\ ConfInv => ConfChangeFirst
  BY ConfChangeFollows
<1> QED  BY <1>1, ChainInvariance, OnceInvariance, ConfInvariance, PTL

(* With one change of the consenters no block is committed between the     *)
(* block that carries it and the raft configuration change, whatever       *)
(* crashes, snapshots, catch-up and elections happen (writeConfigBlock,    *)
(* becomeLeader and getInFlightConfChange of chain.go).                    *)
THEOREM OneConfChangeComesFirst ==
  ASSUME NEW m, MemberTx \subseteq {m}
  PROVE  Spec /\ []SnapshotsRead => []ConfChangeFirst
<1>1. Init => ConfInv
  BY InitConf
<1>2. IInv /\ OutdatedInv /\ OnceInv /\ ConfInv /\ SnapshotsRead' /\ [Next]_vars => ConfInv'
  <2>1. IInv /\ ConfInv => \A n \in Node : ~Overtakes(n)
    BY OneNotOvertaken
  <2> QED  BY <2>1, StepConf
<1>3. IInv /\ OnceInv /\ ConfInv => ConfChangeFirst
  BY ConfChangeFollows
<1> QED  BY <1>1, <1>2, <1>3, ChainInvariance, OutdatedInvariance, OnceInvariance, PTL DEF Spec
=============================================================================
