--------------------------- MODULE MCEtcdraftChain ---------------------------
(* Small instances of EtcdraftChain                                        *)
EXTENDS EtcdraftChain

CONSTANTS t1, t2, t3, t4, c1, c2

(* t1 and t2 fill a batch, t3 overflows it, t4 is isolated.                *)
MCSizes == [t \in {t1, t2, t3, t4, c1, c2} |-> CASE t = t3 -> 2 [] t = t4 -> 3 [] OTHER -> 1]
MCSymmetry == Permutations(Node)

Setting(fb, txs, crash, snapshots) ==
    [followerBatching |-> fb, txs |-> txs, crashes |-> crash, snaps |-> snapshots]

MCSettings ==
    {Setting(TRUE, {t2, c1}, 0, 0), Setting(TRUE, {t1, t4}, 1, 0),
     Setting(FALSE, {t2, c1}, 1, 0), Setting(FALSE, {t2, c1}, 0, 1),
     Setting(TRUE, {c1, c2}, 0, 0), Setting(FALSE, {c1, c2}, 0, 0),
     Setting(FALSE, {t1, t2, t3}, 0, 0), Setting(FALSE, {t1, t4}, 1, 1)}

(* A restart and a snapshot, with two or three blocks.                     *)
MCSnapshot == {Setting(FALSE, {t1, t2, t3}, 1, 1)}
=============================================================================
