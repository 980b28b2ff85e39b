---------------------------- MODULE EtcdraftChain ----------------------------
(***************************************************************************)
(* The consensus chain of the ordering nodes of one channel                *)
(* (orderer/consensus/etcdraft/chain.go, orderer/common/blockcutter,       *)
(* orderer/common/multichannel/blockwriter.go): batching at the leader     *)
(* (run) or at every node (runBatch, follower batching), blocks in flight, *)
(* leader changes, applying entries of the raft log, configuration blocks  *)
(* and the raft configuration changes they lead to, snapshots, catch-up,   *)
(* crashes and restarts.                                                   *)
(*                                                                         *)
(* The raft library is external: a leader of a new term has all committed  *)
(* entries, only the leader of the latest term commits, a follower's log   *)
(* is made a prefix of that leader's. Node holds the nodes whose code is   *)
(* followed; other consenters only vote and hold entries, so no quorum is  *)
(* counted here. A candidate sends its votes after the chain has consumed  *)
(* the apply that reports it (node.go), so a node is elected only once its *)
(* chain has seen the candidacy.                                           *)
(*                                                                         *)
(* A Ready is handed over as soon as it is made, one entry or one soft     *)
(* state at a time: handling a longer one has the effect of handling its   *)
(* parts in turn. A hash is the sequence of all data up to its block.      *)
(***************************************************************************)
EXTENDS BlockCutter, FiniteSets, SequencesExt

CONSTANTS Node,              \* ordering nodes
          Nil,               \* raft.None, and nil pointers
          ConfigTx,          \* configuration transactions
          MemberTx,          \* those that change the set of consenters
          NormalTx,
          Outdated,          \* updates of a configuration that any other one replaces
          Settings,          \* followerBatching, and bounds: transactions, crashes, snapshots
          MaxInflightBlocks,
          MaxTerm            \* bound on elections

(* A block: number, hash of the block before it, and transactions.         *)
Block == [num : Nat, prev : Seq(Seq(NormalTx \cup ConfigTx)), data : Seq(NormalTx \cup ConfigTx)]

ASSUME ChainAssumption ==
    /\ \A s \in Settings : /\ s.followerBatching \in BOOLEAN
                          /\ s.txs \subseteq NormalTx \cup ConfigTx
                          /\ s.crashes \in Nat /\ s.snaps \in Nat
    /\ MaxInflightBlocks \in Nat \ {0} /\ MaxTerm \in Nat
    /\ MemberTx \subseteq ConfigTx /\ Outdated \subseteq ConfigTx
    /\ MessageSize \in [NormalTx \cup ConfigTx -> Nat]
    /\ Nil \notin Node \cup Block \cup NormalTx \cup ConfigTx

VARIABLES mode,       \* followerBatching
          term,       \* raft: latest term
          raft,       \* raft: role, leader and term a node is in
          log,        \* raft: entries in a node's log
          committed,  \* raft: committed entries
          chain,      \* the Chain of a node, with the locals of run
          ledger,     \* blocks written, each with the RaftIndex in its metadata
          snap,       \* last raft snapshot of a node
          cutter,     \* the block cutter of a node
          outbox,     \* batches the batcher is submitting
          net,        \* requests forwarded to a leader
          unsent,     \* transactions no client has broadcast yet
          crashes,    \* crashes that may still happen
          snaps       \* snapshots that may still be taken

raftVars == <<term, raft, log, committed>>
inputVars == <<cutter, outbox, net, unsent>>
vars == <<mode, raftVars, chain, ledger, snap, inputVars,
          crashes, snaps>>
-----------------------------------------------------------------------------
Genesis == [num |-> 0, prev |-> << >>, data |-> << >>]

(* protoutil.BlockHeaderHash, free of collisions.                          *)
Hash(b) == IF b.num = 0 THEN << >> ELSE Append(b.prev, b.data)

(* protoutil.IsConfigBlock                                                 *)
IsConfigData(d) == Len(d) = 1 /\ d[1] \in ConfigTx

IsConfigBlock(b) == IsConfigData(b.data)

ConfigsUpTo(b) == {Hash(b)[i][1] : i \in {j \in DOMAIN Hash(b) : IsConfigData(Hash(b)[j])}}

(* support.Sequence: configurations in effect at a node.                   *)
Sequence(c) == Cardinality(ConfigsUpTo(c.last))

(* createNextBlock, createNextBlockWithBatch                               *)
NextBlock(bc, data) == [num |-> bc.num + 1, prev |-> Hash(bc), data |-> data]

(* An entry of the log. With one that holds a block come the configuration *)
(* changes that its proposer knew to be committed: raft sends the commit   *)
(* index with the entries and stores both together.                        *)
Entry(t, type, b, known) == [term |-> t, type |-> type, blk |-> b, known |-> known]

(* A chain as NewChain makes it on a ledger that ends with this block.     *)
NewChain(tip, sn) ==
    [lead |-> Nil, justElected |-> FALSE,
     configInflight |-> FALSE, confChange |-> Nil, blockInflight |-> 0,
     last |-> tip.blk, applied |-> tip.idx, raftIndex |-> tip.idx,
     bc |-> Nil, propC |-> << >>, proposer |-> "none",
     open |-> TRUE, read |-> sn.idx, conf |-> sn.conf, confProps |-> {}]

NoSnapshot == [idx |-> 0, blk |-> Genesis, conf |-> {}]

Init ==
    /\ \E s \in Settings : /\ mode = s.followerBatching /\ unsent = s.txs
                          /\ crashes = s.crashes /\ snaps = s.snaps
    /\ term = 0
    /\ raft = [n \in Node |-> [role |-> "follower", lead |-> Nil, term |-> 0, pending |-> 0]]
    /\ log = [n \in Node |-> << >>]
    /\ committed = << >>
    /\ ledger = [n \in Node |-> <<[blk |-> Genesis, idx |-> 0]>>]
    /\ snap = [n \in Node |-> NoSnapshot]
    /\ chain = [n \in Node |-> NewChain([blk |-> Genesis, idx |-> 0], NoSnapshot)]
    /\ cutter = [n \in Node |-> EmptyReceiver]
    /\ outbox = [n \in Node |-> << >>]
    /\ net = {}
-----------------------------------------------------------------------------
(***************************************************************************)
(* The raft library.                                                       *)
(***************************************************************************)
Latest(l) == raft[l].role = "leader" /\ raft[l].term = term

(* A follower hears no leader, or a leader no quorum.                      *)
Timeout(n) ==
    /\ raft[n].lead # Nil /\ term < MaxTerm
    /\ raft' = [raft EXCEPT ![n].role = "candidate", ![n].lead = Nil]
    /\ UNCHANGED <<mode, term, log, committed, chain, ledger, snap,
                   inputVars, crashes, snaps>>

(* A node with all committed entries wins. hup does not campaign while a   *)
(* configuration change known to be committed is not applied.              *)
Elect(n) ==
    /\ term < MaxTerm
    /\ raft[n].lead = Nil /\ chain[n].lead = Nil
    /\ IsPrefix(committed, log[n])
    /\ \A i \in DOMAIN log[n] : log[n][i].known \subseteq chain[n].conf
    /\ term' = term + 1
    /\ raft' = [raft EXCEPT ![n] = [role |-> "leader", lead |-> n, term |-> term + 1,
                                     pending |-> Len(log[n])]]
    /\ log' = [log EXCEPT ![n] = Append(@, Entry(term + 1, "empty", Genesis, {}))]
    /\ UNCHANGED <<mode, committed, chain, ledger, snap, inputVars,
                   crashes, snaps>>

(* A node hears the leader and takes the leader's log.                     *)
Replicate(n) ==
    \E l \in Node \ {n} :
      /\ Latest(l)
      /\ log[n] # log[l] \/ raft[n].lead # l
      /\ log' = [log EXCEPT ![n] = log[l]]
      /\ raft' = [raft EXCEPT ![n] = [@ EXCEPT !.role = "follower", !.lead = l, !.term = term]]
      /\ UNCHANGED <<mode, term, committed, chain, ledger, snap,
                     inputVars, crashes, snaps>>

Commit(l) ==
    /\ Latest(l) /\ committed # log[l]
    /\ committed' = log[l]
    /\ UNCHANGED <<mode, term, raft, log, chain, ledger, snap,
                   inputVars, crashes, snaps>>
-----------------------------------------------------------------------------
(***************************************************************************)
(* Applying: the case of applyC in run and runBatch.                       *)
(***************************************************************************)

(* Faulty variant: a new leader serves before it has applied its log.      *)
EagerAfterApply(n, c) ==
    IF c.justElected /\ ~c.configInflight
    THEN [c EXCEPT !.bc = c.last, !.open = TRUE, !.justElected = FALSE]
    ELSE [c EXCEPT !.open = ~c.configInflight /\ (@ \/ c.blockInflight < MaxInflightBlocks)]

(***************************************************************************)
(* What follows c.apply: a new leader serves once its whole log is         *)
(* applied; a configuration in flight closes submitC.                      *)
(***************************************************************************)
AfterApply(n, c) ==
    IF c.justElected
    THEN IF Len(log[n]) > c.applied \/ c.configInflight
         THEN c
         ELSE [c EXCEPT !.bc = c.last, !.open = TRUE, !.justElected = FALSE]
    ELSE [c EXCEPT !.open = IF c.configInflight THEN FALSE
                            ELSE @ \/ c.blockInflight < MaxInflightBlocks]

(* Faulty variant: only a change this process has seen itself is resumed.  *)
ForgetfulInFlightConfChange(c) == c.confChange

(* getInFlightConfChange; of several changes raft lacks, ConfChange takes  *)
(* the latest.                                                             *)
InFlightConfChange(c) ==
    LET h == Hash(c.last)
        missing == {i \in DOMAIN h : IsConfigData(h[i]) /\ h[i][1] \in MemberTx \ c.conf}
    IN  IF c.confChange # Nil THEN c.confChange
        ELSE IF IsConfigBlock(c.last) /\ missing # {}
             THEN h[CHOOSE i \in missing : \A j \in missing : j <= i][1]
             ELSE Nil

BecomeLeader(c) ==
    LET cc == InFlightConfChange(c)
        d  == [c EXCEPT !.blockInflight = 0, !.justElected = TRUE, !.open = FALSE,
                        !.propC = << >>, !.proposer = "running"]
    IN  IF cc = Nil THEN d
        ELSE [d EXCEPT !.confProps = @ \cup {cc}, !.confChange = cc, !.configInflight = TRUE]

(* cancelProp ends the proposer, whose queue is discarded.                 *)
BecomeFollower(c) ==
    [c EXCEPT !.blockInflight = 0, !.open = TRUE, !.bc = Nil,
              !.propC = << >>, !.proposer = "none"]

(***************************************************************************)
(* A soft state. The cutter is cut when leadership is lost: with batches   *)
(* at the followers that resets the byte counter of a queue it leaves.     *)
(***************************************************************************)
ApplySoft(n) ==
    LET c    == chain[n]
        new  == raft[n].lead
        lost == c.lead = n /\ new # n
        d    == IF new = n /\ c.lead # n THEN BecomeLeader(c)
                ELSE IF lost THEN BecomeFollower(c) ELSE c
    IN  /\ new # c.lead
        /\ chain' = [chain EXCEPT ![n] = AfterApply(n, [d EXCEPT !.lead = new])]
        /\ cutter' = [cutter EXCEPT ![n] =
               IF ~lost THEN @ ELSE IF mode THEN [@ EXCEPT !.bytes = 0] ELSE EmptyReceiver]
        /\ UNCHANGED <<mode, raftVars, ledger, snap, outbox, net, unsent,
                       crashes, snaps>>

(* The log of a node has this committed entry.                             *)
Matches(n, i) == i <= Len(log[n]) /\ log[n][i] = committed[i]

(* The next committed entry of a node's log.                               *)
NextEntry(n) == committed[chain[n].read + 1]

CanRead(n) ==
    chain[n].read < Len(committed) /\ Matches(n, chain[n].read + 1)

Advance(c) ==
    [c EXCEPT !.read = @ + 1, !.applied = IF @ > c.read + 1 THEN @ ELSE c.read + 1]

(***************************************************************************)
(* The end of apply: with enough data since the last snapshot one is taken *)
(* at the applied index, with the last block of these entries. Bytes are   *)
(* not counted: which entry is due is left open, and a snapshot that gc    *)
(* has no time for, fails to save or is late for is not taken. Beyond the  *)
(* log raft's CreateSnapshot panics, which is a crash.                     *)
(***************************************************************************)
MaybeSnapshot(n, c) ==
    \/ UNCHANGED <<snap, snaps>>
    \/ /\ snaps > 0
       /\ c.applied > snap[n].idx /\ c.applied <= Len(log[n])
       /\ snap' = [snap EXCEPT ![n] = [idx |-> c.applied, blk |-> NextEntry(n).blk,
                                       conf |-> c.conf]]
       /\ snaps' = snaps - 1

(***************************************************************************)
(* WriteBlock hands the block to a goroutine and waits for the one before, *)
(* WriteConfigBlock returns when it is on disk: only a last normal block   *)
(* may be lost in a crash.                                                 *)
(***************************************************************************)
WriteBlocks(n, es) == ledger' = [ledger EXCEPT ![n] = @ \o es]

OnDisk(n) ==
    {ledger[n]} \cup (IF Len(ledger[n]) = 1 \/ IsConfigBlock(Last(ledger[n]).blk) THEN {}
                     ELSE {Front(ledger[n])})

(* An entry apply passes over: a leader's empty entry, one applied before. *)
SkipEntry(n) ==
    LET c == chain[n]
        e == NextEntry(n)
    IN  /\ CanRead(n)
        /\ \/ e.type = "empty" /\ UNCHANGED <<snap, snaps>>
           \/ /\ e.type = "block"
              /\ c.read + 1 <= c.applied \/ e.blk.num <= c.last.num
              /\ MaybeSnapshot(n, Advance(c))
        /\ chain' = [chain EXCEPT ![n] = AfterApply(n, Advance(c))]
        /\ UNCHANGED <<mode, raftVars, ledger, inputVars, crashes>>

(* Faulty variant: the blocks in flight are counted down on every node.    *)
UncheckedWroteBlock(c, b) ==
    LET d == [c EXCEPT !.last = b, !.blockInflight = @ - 1, !.raftIndex = c.read]
    IN  IF ~IsConfigBlock(b) THEN d
        ELSE IF b.data[1] \in MemberTx
        THEN [d EXCEPT !.confProps = @ \cup {b.data[1]}, !.confChange = b.data[1],
                       !.configInflight = TRUE]
        ELSE [d EXCEPT !.configInflight = FALSE]

(***************************************************************************)
(* writeBlock of the next block. The metadata of a configuration block is  *)
(* cloned before RaftIndex is set, so it carries the index of the block    *)
(* before it (writeConfigBlock, ComputeMembershipChanges).                 *)
(***************************************************************************)
WroteBlock(c, b) ==
    LET d == [c EXCEPT !.last = b, !.blockInflight = IF @ > 0 THEN @ - 1 ELSE 0]
    IN  IF ~IsConfigBlock(b) THEN [d EXCEPT !.raftIndex = c.read]
        ELSE IF b.data[1] \in MemberTx
        THEN [d EXCEPT !.confProps = @ \cup {b.data[1]}, !.confChange = b.data[1],
                       !.configInflight = TRUE]
        ELSE [d EXCEPT !.configInflight = FALSE]

ApplyBlock(n) ==
    LET c == Advance(chain[n])
        b == NextEntry(n).blk
        d == WroteBlock(c, b)
    IN  /\ CanRead(n) /\ NextEntry(n).type = "block"
        /\ c.read > chain[n].applied /\ b.num = c.last.num + 1
        /\ WriteBlocks(n, <<[blk |-> b, idx |-> d.raftIndex]>>)
        /\ chain' = [chain EXCEPT ![n] = AfterApply(n, d)]
        /\ MaybeSnapshot(n, d)
        /\ UNCHANGED <<mode, raftVars, inputVars, crashes>>

(* A committed configuration change.                                       *)
ApplyConfChange(n) ==
    LET c == Advance(chain[n])
        t == NextEntry(n).blk.data[1]
        d == [c EXCEPT !.conf = @ \cup {t}]
    IN  /\ CanRead(n) /\ NextEntry(n).type = "conf"
        /\ chain' = [chain EXCEPT ![n] = AfterApply(n,
               IF c.confChange # t THEN d
               ELSE [d EXCEPT !.confChange = Nil, !.configInflight = FALSE])]
        /\ UNCHANGED <<mode, raftVars, ledger, snap, inputVars,
                       crashes, snaps>>
-----------------------------------------------------------------------------
(* Faulty variant: lastBlock stays what it was.                            *)
ForgetfulCatchUp(n, c, e) ==
    /\ c.last.num + 1 = e.blk.num
    /\ WriteBlocks(n, <<e>>)
    /\ chain' = [chain EXCEPT ![n] = c]

(***************************************************************************)
(* Catching up with a block and all before it: the block itself if it is   *)
(* the only one missing, otherwise blocks pulled from another node.        *)
(***************************************************************************)
CatchUp(n, c, e) ==
    LET pull(es) == /\ WriteBlocks(n, es)
                    /\ chain' = [chain EXCEPT ![n] = [c EXCEPT !.last = Last(es).blk]]
    IN  \/ /\ c.last.num >= e.blk.num
           /\ chain' = [chain EXCEPT ![n] = c]
           /\ UNCHANGED ledger
        \/ c.last.num + 1 = e.blk.num /\ pull(<<e>>)
        \/ /\ c.last.num + 1 < e.blk.num
           /\ \E m \in Node \ {n} :
                /\ Len(ledger[m]) > e.blk.num
                /\ pull(SubSeq(ledger[m], c.last.num + 2, e.blk.num + 1))

(* The case of snapC. The block of a raft snapshot carries no metadata.    *)
HandleSnapshot(n, c, s) ==
    IF s.idx <= c.applied
    THEN chain' = [chain EXCEPT ![n] = c] /\ UNCHANGED ledger
    ELSE CatchUp(n, [c EXCEPT !.applied = s.idx], [blk |-> s.blk, idx |-> 0])

(* The leader has compacted what the node lacks and sends its snapshot,    *)
(* with the configuration that is current at the leader (node.send).       *)
InstallSnapshot(n) ==
    \E l \in Node \ {n} :
      LET s == [snap[l] EXCEPT !.conf = chain[l].conf]
      IN  /\ Latest(l)
          /\ s.idx > chain[n].read
          /\ ~Matches(n, s.idx)
          /\ log' = [log EXCEPT ![n] = SubSeq(committed, 1, s.idx)]
          /\ raft' = [raft EXCEPT ![n] = [@ EXCEPT !.role = "follower", !.lead = l, !.term = term]]
          /\ snap' = [snap EXCEPT ![n] = s]
          /\ HandleSnapshot(n, [chain[n] EXCEPT !.read = s.idx, !.conf = s.conf], s)
          /\ UNCHANGED <<mode, term, committed, inputVars, crashes, snaps>>

(* confirmSuspicion of a node that knows no leader: it catches up with the *)
(* last configuration block of another node.                               *)
SuspectEviction(n) ==
    \E m \in Node \ {n} : \E k \in DOMAIN ledger[m] :
      /\ chain[n].lead = Nil
      /\ IsConfigBlock(ledger[m][k].blk)
      /\ \A j \in k + 1 .. Len(ledger[m]) : ~IsConfigBlock(ledger[m][j].blk)
      /\ ledger[m][k].blk.num > chain[n].last.num
      /\ CatchUp(n, chain[n], ledger[m][k])
      /\ UNCHANGED <<mode, raftVars, snap, inputVars, crashes, snaps>>
-----------------------------------------------------------------------------
(***************************************************************************)
(* The proposer goroutine of a leader: Propose waits while there is no     *)
(* leader; a follower drops the proposal, which ends the goroutine.        *)
(***************************************************************************)
Propose(n) ==
    LET c == chain[n]
        d == [c EXCEPT !.propC = Tail(@)]
    IN  /\ c.proposer = "running" /\ c.propC # << >>
        /\ \/ /\ raft[n].role = "leader"
              /\ log' = [log EXCEPT ![n] = Append(@, Entry(raft[n].term, "block", Head(c.propC), c.conf))]
              /\ chain' = [chain EXCEPT ![n] = d]
           \/ /\ raft[n].lead \notin {Nil, n}
              /\ chain' = [chain EXCEPT ![n] = [d EXCEPT !.proposer = "quit"]]
              /\ UNCHANGED log
        /\ UNCHANGED <<mode, term, raft, committed, ledger, snap, inputVars, crashes, snaps>>

(* ProposeConfChange: dropped by a follower; a leader that may have another*)
(* change pending replaces it by an empty entry.                           *)
ProposeConfChange(n) ==
    \E t \in chain[n].confProps :
      LET refused == raft[n].pending > chain[n].read
          cfg     == [Genesis EXCEPT !.data = <<t>>]
      IN  /\ raft[n].lead # Nil
          /\ chain' = [chain EXCEPT ![n].confProps = @ \ {t}]
          /\ IF raft[n].role # "leader" THEN UNCHANGED <<raft, log>>
             ELSE /\ log' = [log EXCEPT ![n] = Append(@,
                         IF refused THEN Entry(raft[n].term, "empty", Genesis, {})
                         ELSE Entry(raft[n].term, "conf", cfg, {}))]
                  /\ raft' = [raft EXCEPT ![n].pending = IF refused THEN @ ELSE Len(log[n]) + 1]
          /\ UNCHANGED <<mode, term, committed, ledger, snap, inputVars,
                         crashes, snaps>>
-----------------------------------------------------------------------------
(***************************************************************************)
(* A process that is down takes no step, so a crash or a panic and the     *)
(* restart are one step. Raft's log and snapshot stay; NewChain and Start  *)
(* read the ledger, and node.run hands over the stored snapshot first.     *)
(***************************************************************************)
Reboot(n) ==
    /\ raft' = [raft EXCEPT ![n].role = "follower", ![n].lead = Nil]
    /\ \E d \in OnDisk(n) :
         LET c == NewChain(Last(d), snap[n])
             s == snap[n]
         IN  IF s.idx <= c.applied \/ s.blk.num <= c.last.num
             THEN /\ chain' = [chain EXCEPT ![n] = [c EXCEPT !.applied =
                                                      IF s.idx <= @ THEN @ ELSE s.idx]]
                  /\ ledger' = [ledger EXCEPT ![n] = d]
             ELSE /\ chain' = [chain EXCEPT ![n] = [c EXCEPT !.applied = s.idx, !.last = s.blk]]
                  /\ ledger' = [ledger EXCEPT ![n] = Append(d, [blk |-> s.blk, idx |-> 0])]
    /\ cutter' = [cutter EXCEPT ![n] = EmptyReceiver]
    /\ outbox' = [outbox EXCEPT ![n] = << >>]
    /\ UNCHANGED <<mode, term, log, committed, snap, snaps>>

Crash(n) ==
    /\ crashes > 0
    /\ crashes' = crashes - 1
    /\ Reboot(n)
    /\ UNCHANGED <<net, unsent>>
-----------------------------------------------------------------------------
(***************************************************************************)
(* Requests. A message is a transaction and the configuration sequence it  *)
(* was validated against; a request is a sequence of batches of messages.  *)
(***************************************************************************)
Txs(batch) == [i \in DOMAIN batch |-> batch[i].tx]

(* The elements of s that are in S, in order: SelectSeq with a set as test.*)
Keep(s, S) ==
    LET upTo[i \in 0 .. Len(s)] ==
            IF i = 0 THEN << >>
            ELSE IF s[i] \in S THEN Append(upTo[i - 1], s[i]) ELSE upTo[i - 1]
    IN  upTo[Len(s)]

(* Faulty variant: a message is taken as it was validated at its node.     *)
TrustingStillValid(c, m) == TRUE

(***************************************************************************)
(* ProcessNormalMsg, whose filters are commented out, and ProcessConfigMsg *)
(* with the configuration of a node: the read set of an update may name a  *)
(* configuration that is no longer in effect (ProposeConfigUpdate).        *)
(***************************************************************************)
Accepts(c, t) == t \in Outdated => Sequence(c) = 0

(* Revalidation of a message whose sequence the configuration has passed.  *)
StillValid(c, m) == m.seq >= Sequence(c) \/ Accepts(c, m.tx)

(* checkValidationStatusOfTxns of the batches of a follower: a rejected    *)
(* configuration ends the request, other messages are left out one by one. *)
ValidData(c, batches) ==
    LET kept == Keep(batches, {b \in Range(batches) :
                                  b[1].tx \notin ConfigTx \/ StillValid(c, b[1])})
    IN  [i \in DOMAIN kept |->
            Txs(Keep(kept[i], {m \in Range(kept[i]) : StillValid(c, m)}))]

(* orderedBatch, ordered: what a message makes of the pending batch.       *)
OrderedMessage(r, m) ==
    IF m.tx \in ConfigTx
    THEN [batches |-> Append(PendingBatches(r), <<m>>), rest |-> EmptyReceiver]
    ELSE Ordered(r, m)

(* One round of the loop in propose and proposeBatch.                      *)
CreateBlock(c, data) ==
    LET b == NextBlock(c.bc, data)
    IN  [c EXCEPT !.bc = b, !.propC = Append(@, b), !.blockInflight = @ + 1,
                  !.configInflight = @ \/ IsConfigBlock(b)]

CreateBlocks(c, datas) ==
    LET made[i \in 0 .. Len(datas)] ==
            IF i = 0 THEN c ELSE CreateBlock(made[i - 1], datas[i])
    IN  made[Len(datas)]

(* submitC is closed while a configuration or too many blocks are in flight*)
AfterSubmit(c) ==
    [c EXCEPT !.open = ~c.configInflight /\ c.blockInflight < MaxInflightBlocks]

(***************************************************************************)
(* The effect on a leader of proposing blocks for these data: it becomes c,*)
(* or panics because the channel is full. Of propC the proposer may hold   *)
(* the first block itself, the others are in the channel.                  *)
(***************************************************************************)
ProposeOrPanic(n, datas, c, rest, out) ==
    \/ /\ Len(chain[n].propC) + Len(datas) > MaxInflightBlocks
       /\ Reboot(n)
    \/ /\ Len(chain[n].propC) + Len(datas) <= MaxInflightBlocks + 1
       /\ chain' = [chain EXCEPT ![n] = c]
       /\ cutter' = [cutter EXCEPT ![n] = rest]
       /\ outbox' = out
       /\ UNCHANGED <<mode, raftVars, ledger, snap, snaps>>

(* The case of submitC at a leader.                                        *)
ServeSubmit(n, batches, out) ==
    LET c == chain[n]
        m == batches[1][1]
        r == IF StillValid(c, m) THEN OrderedMessage(cutter[n], m)
             ELSE [batches |-> << >>, rest |-> cutter[n]]
        datas == IF mode THEN ValidData(c, batches)
                 ELSE [i \in DOMAIN r.batches |-> Txs(r.batches[i])]
    IN  ProposeOrPanic(n, datas, AfterSubmit(CreateBlocks(c, datas)),
                       IF mode THEN cutter[n] ELSE r.rest, out)

(***************************************************************************)
(* Submit: served, forwarded to the leader the node knows, or refused. A   *)
(* forwarded request that is never received is a lost one.                 *)
(***************************************************************************)
Submit(n, batches, rest, out) ==
    /\ chain[n].open
    /\ \/ /\ chain[n].lead = n
          /\ ServeSubmit(n, batches, out)
          /\ net' = rest
       \/ /\ chain[n].lead # n
          /\ net' = rest \cup (IF chain[n].lead = Nil THEN {}
                              ELSE {[to |-> chain[n].lead, batches |-> batches]})
          /\ outbox' = out
          /\ UNCHANGED <<mode, raftVars, chain, ledger, snap, cutter, snaps>>
    /\ UNCHANGED crashes

Message(n, t) == [tx |-> t, seq |-> Sequence(chain[n])]

(* Order, Configure: a client's transaction at a node, leader batching.    *)
Order(n) ==
    \E t \in unsent :
      /\ ~mode /\ chain[n].lead # Nil /\ Accepts(chain[n], t)
      /\ unsent' = unsent \ {t}
      /\ Submit(n, <<<<Message(n, t)>>>>, net, outbox)

(* BatchOrder, BatchConfigure and the case of batchC in batcher.           *)
BatchOrder(n) ==
    \E t \in unsent :
      LET r == OrderedMessage(cutter[n], Message(n, t))
      IN  /\ mode /\ outbox[n] = << >> /\ Accepts(chain[n], t)
          /\ unsent' = unsent \ {t}
          /\ cutter' = [cutter EXCEPT ![n] = r.rest]
          /\ outbox' = [outbox EXCEPT ![n] = r.batches]
          /\ UNCHANGED <<mode, raftVars, chain, ledger, snap, net,
                         crashes, snaps>>

(* The batch timer: in run it proposes, in batcher it submits.             *)
BatchTimer(n) ==
    LET c == chain[n]
        data == <<Txs(cutter[n].msgs)>>
    IN  /\ cutter[n].msgs # << >>
        /\ \/ /\ ~mode
              /\ ProposeOrPanic(n, data, CreateBlocks(c, data), EmptyReceiver, outbox)
           \/ /\ mode /\ outbox[n] = << >>
              /\ outbox' = [outbox EXCEPT ![n] = <<cutter[n].msgs>>]
              /\ cutter' = [cutter EXCEPT ![n] = EmptyReceiver]
              /\ UNCHANGED <<mode, raftVars, chain, ledger, snap, snaps>>
        /\ UNCHANGED <<net, unsent, crashes>>

(* The batcher submits its batches and forgets them, whatever the answer.  *)
SubmitBatches(n) ==
    /\ outbox[n] # << >>
    /\ Submit(n, outbox[n], net, [outbox EXCEPT ![n] = << >>])
    /\ UNCHANGED unsent

(* OnSubmit: a forwarded request.                                          *)
Receive(n) ==
    \E r \in net :
      /\ r.to = n
      /\ Submit(n, r.batches, net \ {r}, outbox)
      /\ UNCHANGED unsent
-----------------------------------------------------------------------------
Raft(n) == Timeout(n) \/ Elect(n) \/ Replicate(n) \/ Commit(n)

Apply(n) == ApplySoft(n) \/ SkipEntry(n) \/ ApplyBlock(n) \/ ApplyConfChange(n)

Input(n) == Order(n) \/ BatchOrder(n) \/ BatchTimer(n) \/ SubmitBatches(n) \/ Receive(n)

Next ==
    \E n \in Node :
      \/ Raft(n)
      \/ Apply(n)
      \/ InstallSnapshot(n)
      \/ SuspectEviction(n)
      \/ Propose(n)
      \/ ProposeConfChange(n)
      \/ Input(n)
      \/ Crash(n)

Spec == Init /\ [][Next]_vars
-----------------------------------------------------------------------------
CommittedBlocks == LET es == Keep(committed, {e \in Range(committed) : e.type = "block"})
                   IN  [i \in DOMAIN es |-> es[i].blk]

TypeOK ==
    /\ mode \in BOOLEAN /\ term \in 0 .. MaxTerm
    /\ crashes \in Nat /\ snaps \in Nat
    /\ unsent \subseteq NormalTx \cup ConfigTx
    /\ raft \in [Node -> [role : {"follower", "candidate", "leader"}, lead : Node \cup {Nil},
                         term : 0 .. MaxTerm, pending : Nat]]
    /\ \A n \in Node :
         /\ chain[n].lead \in Node \cup {Nil}
         /\ chain[n].blockInflight \in Nat
         /\ chain[n].applied \in chain[n].read .. Len(committed)
         /\ Len(chain[n].propC) <= MaxInflightBlocks + 1
         /\ chain[n].propC # << >> => chain[n].bc # Nil

(***************************************************************************)
(* Every committed block extends the committed block before it, and every  *)
(* ledger is a beginning of the committed blocks, through leader changes,  *)
(* blocks in flight, crashes, replayed entries, snapshots and catch-up     *)
(* (justElected and appliedIndex in chain.go).                             *)
(***************************************************************************)
OneChain ==
    LET blocks == CommittedBlocks
    IN  /\ \A i \in DOMAIN blocks :
             blocks[i] = NextBlock(IF i = 1 THEN Genesis ELSE blocks[i - 1], blocks[i].data)
        /\ \A n \in Node :
             /\ Len(ledger[n]) <= Len(blocks) + 1
             /\ \A k \in 2 .. Len(ledger[n]) : ledger[n][k].blk = blocks[k - 1]

(***************************************************************************)
(* No snapshot reaches beyond the entries its node has read. The code does *)
(* not see to it: after a restart the applied index is ahead of the entries*)
(* read again, and one of these may be due for a snapshot.                 *)
(***************************************************************************)
SnapshotsRead == \A n \in Node : snap[n].idx <= chain[n].read

(* writeBlock never meets a block beyond the next one, for which it panics *)
(* ("Got block, expect block").                                            *)
NoGap ==
    \A n \in Node :
      CanRead(n) /\ NextEntry(n).type = "block" /\ chain[n].read + 1 > chain[n].applied
         => NextEntry(n).blk.num <= chain[n].last.num + 1

(* No block is committed after one that changes the consenters before the  *)
(* raft configuration change it leads to (writeConfigBlock, becomeLeader). *)
ConfChangeFirst ==
    \A i, j \in DOMAIN committed :
      (/\ i < j /\ committed[i].type = "block" /\ committed[j].type = "block"
       /\ IsConfigBlock(committed[i].blk) /\ committed[i].blk.data[1] \in MemberTx)
      => \E k \in i .. j : /\ committed[k].type = "conf"
                           /\ committed[k].blk.data = committed[i].blk.data

(* An update of a configuration that another one has replaced is in no     *)
(* block after it, wherever it was validated and waited meanwhile          *)
(* (ordered, checkValidationStatusOfTxns).                                 *)
OutdatedNotOrdered ==
    LET blocks == CommittedBlocks
    IN  \A i, j \in DOMAIN blocks :
          i < j /\ IsConfigBlock(blocks[i]) =>
             \A k \in DOMAIN blocks[j].data : blocks[j].data[k] \notin Outdated

(* The bytes of the messages of a block.                                   *)
TotalSize(d) ==
    LET upTo[i \in 0 .. Len(d)] ==
            IF i = 0 THEN 0 ELSE upTo[i - 1] + MessageSize[d[i]]
    IN  upTo[Len(d)]

(***************************************************************************)
(* With batching at the leader a block holds at most MaxMessageCount       *)
(* messages, and more than PreferredMaxBytes only when it has one (Ordered *)
(* of blockcutter.go, cut by size, by the timer, by a configuration and by *)
(* a change of leader). At the followers the count alone is bounded: the   *)
(* byte counter is reset under a queue that stays.                         *)
(***************************************************************************)
BatchLimits ==
    \A i \in DOMAIN CommittedBlocks :
      LET d == CommittedBlocks[i].data
      IN  /\ Len(d) <= MaxMessageCount
          /\ ~mode /\ Len(d) > 1 => TotalSize(d) <= PreferredMaxBytes
=============================================================================
