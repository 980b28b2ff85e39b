------------------------------ MODULE OrgRouting ------------------------------
(***************************************************************************)
(* Which org chains a transaction of a fat block is routed to              *)
(* (aggregateOrgEnvelope). Shared by the specification of the org chains   *)
(* and by the model of the processor that builds them.                     *)
(***************************************************************************)
EXTENDS Naturals, Sequences

CONSTANTS Chains,         \* identifiers of org chains
          ChannelChain,   \* the chain named by the channel ID
          LitePeerChain   \* channelconfig.LitePeerChainId, "lpeer"

ASSUME ChainsAssumption ==
    {ChannelChain, LitePeerChain} \subseteq Chains

(* The chains that get every configuration, approve and commit transaction *)
ConfigOrgList == {ChannelChain, LitePeerChain}

(* An endorser transaction names its orgs, or belongs to the channel; a    *)
(* transaction of another type, or one that does not parse, goes nowhere.  *)
OrgList(tx) ==
    CASE tx.type \in {"config", "lifecycle"} -> ConfigOrgList
      [] tx.type = "endorser" /\ tx.orgs # {} -> tx.orgs
      [] tx.type = "endorser" /\ tx.orgs = {} -> {ChannelChain}
      [] OTHER -> {}

(* Indices of the transactions of body b that chain c gets, in order.      *)
TxnIdxList(c, b) ==
    LET upTo[i \in 0 .. Len(b)] ==
          IF i = 0 THEN << >>
          ELSE IF c \in OrgList(b[i]) THEN Append(upTo[i - 1], i) ELSE upTo[i - 1]
    IN  upTo[Len(b)]

(* The chains that get at least one transaction of body b.                 *)
TouchedChains(b) == {c \in Chains : \E i \in 1 .. Len(b) : c \in OrgList(b[i])}
=============================================================================
