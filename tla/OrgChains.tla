------------------------------ MODULE OrgChains ------------------------------
(***************************************************************************)
(* What the sparse-block processor promises: every org chain is the fat    *)
(* chain up to the block at which the chains were begun, followed by the   *)
(* projection of every later fat block, in order, each exactly once.       *)
(*                                                                         *)
(* The data of an org block is <<fat block number, transaction indices>>.  *)
(***************************************************************************)
EXTENDS OrgRouting

CONSTANTS LogBodies,    \* transactions a fat block may hold
          InitialLogs   \* fat chains there may be at the beginning

VARIABLES log,     \* the fat chain
          upto,    \* number of fat blocks the org chains account for
          chain    \* org chain -> sequence of the data of its blocks

AllOf(b) == [i \in 1 .. Len(b) |-> i]

(* The chains after the projection of fat block n is added to ch.          *)
Extended(ch, n) ==
    [c \in DOMAIN ch \cup TouchedChains(log[n + 1]) |->
        IF c \notin TouchedChains(log[n + 1]) THEN ch[c]
        ELSE Append(IF c \in DOMAIN ch THEN ch[c] ELSE << >>,
                    <<n, TxnIdxList(c, log[n + 1])>>)]

(* The chains of a ledger whose blocks up to sp are taken over whole.      *)
TakenOver(sp) ==
    [c \in ConfigOrgList |->
        [k \in 1 .. sp + 1 |-> <<k - 1, AllOf(log[k])>>]]

AInit == log \in InitialLogs /\ upto = 0 /\ chain = [c \in {} |-> << >>]

AppendLog == \E b \in LogBodies : log' = Append(log, b) /\ UNCHANGED <<upto, chain>>

(* The next fat block is projected.                                        *)
Extend ==
    /\ upto < Len(log)
    /\ upto = 0 \/ chain # [c \in {} |-> << >>]
    /\ chain' = Extended(chain, upto)
    /\ upto' = upto + 1
    /\ UNCHANGED log

(* The chains are begun on a ledger that already has blocks.               *)
TakeOver ==
    /\ upto = 0 /\ Len(log) >= 2
    /\ chain' = Extended(TakenOver(Len(log) - 2), Len(log) - 1)
    /\ upto' = Len(log)
    /\ UNCHANGED log

ANext == AppendLog \/ Extend \/ TakeOver

ASpec == AInit /\ [][ANext]_<<log, upto, chain>>
=============================================================================
