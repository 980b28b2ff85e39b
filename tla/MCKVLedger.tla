----------------------------- MODULE MCKVLedger -----------------------------
(* Small instances of KVLedger                                             *)
EXTENDS KVLedger

Block(lean, reads, writes, deletes) ==
    [lean |-> lean, reads |-> reads, writes |-> writes, deletes |-> deletes]

(* A block that adds private data, a lean one in conflict with it, one     *)
(* that overwrites the private data and one after a delete.                *)
MCChain ==
    <<Block(FALSE, {<<"a", 0>>}, {"a", "p"}, {}),
      Block(TRUE, {<<"a", 0>>}, {"a"}, {}),
      Block(FALSE, {<<"a", 1>>}, {"a", "p"}, {"a"}),
      Block(TRUE, {<<"a", 0>>}, {"a", "p"}, {"p"})>>

(* A lean block with private data.                                         *)
MCChainLean ==
    <<Block(TRUE, {}, {"a", "p"}, {}), Block(FALSE, {<<"a", 1>>}, {"a", "p"}, {})>>
=============================================================================
