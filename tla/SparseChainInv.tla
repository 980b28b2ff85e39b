---------------------------- MODULE SparseChainInv ----------------------------
(***************************************************************************)
(* The inductive invariant of SparseChain behind TypeOK and Retrievable.   *)
(* It holds when chains are only begun while nothing is appended           *)
(* (QuietSwitch). Its parts say what the channel holds, how the processor  *)
(* stands to the saved heads at each point of its loop, and which entries  *)
(* of the stores a header relies on.                                       *)
(***************************************************************************)
EXTENDS SparseChain, Integers

InSend == IF sending THEN 1 ELSE 0

(* The number of the next block that will come out of the channel.         *)
NextOut == Height - InSend - Len(sparseCh)

(* The channel holds the last appended blocks, in order.                   *)
QueueInv ==
    /\ NextOut >= 0
    /\ \A i \in 1 .. Len(sparseCh) : sparseCh[i] = NextOut + i - 1

(* Nothing was appended since the processor decided where to begin.        *)
Quiescent == sparseCh = << >> /\ ~sending

LedgerInv ==
    /\ fat # << >> => fat[1] = GenesisBody
    /\ savepoint = 0 \/ savepoint < Height

(* A header that is in use covers both chains of the channel, and only     *)
(* fat blocks that exist.                                                  *)
Anchored(h) ==
    HasHeads(h) => ConfigOrgList \subseteq DOMAIN h.heads /\ h.last < Height

(***************************************************************************)
(* Block k of chain c can be rebuilt, from details that later fat blocks   *)
(* do not overwrite.                                                       *)
(***************************************************************************)
Backed(c, k, last) ==
    /\ <<c, k>> \in DOMAIN index
    /\ index[<<c, k>>] <= last
    /\ index[<<c, k>>] \in DOMAIN merkle
    /\ c \in DOMAIN merkle[index[<<c, k>>]]
    /\ merkle[index[<<c, k>>]][c].num = k

Covered(h) ==
    \A c \in DOMAIN h.heads : \A k \in savepoint + 1 .. h.heads[c].num :
        Backed(c, k, h.last)

(* Between blocks the processor's header is the saved one.                 *)
AtRest == chHeader = headDB /\ (HasHeads(container) => container = headDB)

BootInv ==
    pc = "boot" =>
        /\ ~HasHeads(container)
        /\ HasHeads(headDB) => headDB.last < NextOut
        /\ ~HasHeads(headDB) /\ Height >= 2 => Quiescent

LoopInv ==
    /\ isStart => pc \in {"loop", "panic"}
    /\ pc = "loop" =>
        /\ AtRest
        /\ isStart => /\ ~HasHeads(headDB) /\ Quiescent
                      /\ Height >= 2 /\ cur = Height - 1
        /\ ~isStart => IF HasHeads(headDB) THEN headDB.last < NextOut ELSE Height <= 2

(* The block about to be cut is the next one, or the one chains begin at.  *)
WorkInv ==
    pc \in {"savepoint", "create"} =>
        /\ AtRest
        /\ cur <= syncTo /\ syncTo < NextOut
        /\ HasHeads(headDB) => cur = headDB.last + 1
        /\ ~HasHeads(headDB) => /\ cur = syncTo
                                /\ cur # 0 => Quiescent /\ cur = Height - 1
        /\ pc = "create" /\ ~HasHeads(headDB) /\ cur # 0 => savepoint = cur - 1

(* While a block is stored, the new header goes beyond the saved one by    *)
(* the blocks in out only.                                                 *)
StoreInv ==
    pc \in {"store", "publish", "save"} =>
        /\ HasHeads(chHeader) /\ chHeader.last = cur
        /\ cur <= syncTo /\ syncTo < NextOut
        /\ HasHeads(headDB) => headDB.last < cur
        /\ pc \in {"store", "publish"} => (HasHeads(container) => container = headDB)
        /\ pc = "save" => container = chHeader
        /\ \A c \in DOMAIN headDB.heads :
              /\ c \in DOMAIN chHeader.heads
              /\ headDB.heads[c].num <= chHeader.heads[c].num
        /\ DOMAIN out \subseteq DOMAIN chHeader.heads
        /\ \A c \in DOMAIN out :
              /\ out[c].num \in Nat /\ chHeader.heads[c].num = out[c].num
              /\ c \in DOMAIN headDB.heads => out[c].num > headDB.heads[c].num
        /\ \A c \in DOMAIN chHeader.heads :
              \A k \in savepoint + 1 .. chHeader.heads[c].num :
                 ~(c \in DOMAIN out /\ k = out[c].num)
                    => c \in DOMAIN headDB.heads /\ k <= headDB.heads[c].num

(* What storeBlockData has written so far.                                 *)
WrittenInv ==
    /\ pc \in {"store", "publish", "save"} =>
         /\ todo \subseteq DOMAIN out
         /\ \A c \in DOMAIN out \ todo :
              <<c, out[c].num>> \in DOMAIN index /\ index[<<c, out[c].num>>] = cur
    /\ pc \in {"publish", "save"} =>
         /\ todo = {}
         /\ cur \in DOMAIN merkle
         /\ merkle[cur] = [c \in DOMAIN out |-> Details(out[c])]

(***************************************************************************)
(* The inductive invariant: at every point of the loop, before and after a *)
(* crash, the saved and the published heads are covered by the stores.     *)
(***************************************************************************)
IInv ==
    /\ TypeOK
    /\ QueueInv
    /\ LedgerInv
    /\ Anchored(headDB) /\ Anchored(container) /\ Anchored(chHeader)
    /\ Covered(headDB) /\ Covered(container)
    /\ BootInv /\ LoopInv /\ WorkInv
    /\ StoreInv /\ WrittenInv
=============================================================================
