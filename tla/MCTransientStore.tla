--------------------------- MODULE MCTransientStore ---------------------------
(* Small instances of TransientStore                                       *)
EXTENDS TransientStore

(* Several endorsers persist one transaction.                              *)
MCTxOf == [c \in Call |-> "t1"]

(* It commits late, past the retention.                                    *)
MCBlockLate == <<{}, {}, {"t1"}>>
=============================================================================
