------------------------- MODULE DistributedLockProofs -------------------------
(***************************************************************************)
(* The serving peer holds the lock, for any set of peers and any intervals *)
(* in which the lock outlives a refresh, its random delta and the lateness *)
(* of the extension together. The code insists on less (Expiry >= Refresh).*)
(***************************************************************************)
EXTENDS DistributedLock, TLAPS

(* The inductive invariant.                                                *)
LockInv == TypeOK /\ LeaseOutlivesTimer

(* The lock outlives a refresh however late it is.                         *)
RefreshInTime == Expiry > Refresh + MaxDelta + MaxLag

(* Before any peer has the lock nobody serves.                             *)
LEMMA InitLockInv == Init => LockInv
  BY IntervalsAssumption DEF Init, LockInv, TypeOK, LeaseOutlivesTimer, Serving

(* Time takes as much from the key as from the timer, and stops for a peer *)
(* that has used up its lateness before its key is gone.                   *)
LEMMA TickLockInv == LockInv /\ Tick => LockInv'
<1> SUFFICES ASSUME LockInv, Tick PROVE LockInv'
  OBVIOUS
<1>1. TypeOK'
  BY IntervalsAssumption DEF LockInv, TypeOK, Tick
<1>2. ASSUME NEW p \in Peers, Serving(p)' PROVE holder' = p /\ ttl' > timer'[p] + MaxLag
  <2>1. Serving(p) /\ timer[p] \in Int /\ ttl \in Nat
    BY <1>2, IntervalsAssumption DEF LockInv, TypeOK, Tick, Serving
  <2>2. holder = p /\ ttl > timer[p] + MaxLag /\ timer[p] + MaxLag > 0
    BY <2>1 DEF LockInv, LeaseOutlivesTimer, Tick
  <2>3. timer'[p] = timer[p] - 1
    BY <2>1 DEF Tick
  <2> QED  BY <2>1, <2>2, <2>3, IntervalsAssumption DEF Tick
<1> QED  BY <1>1, <1>2 DEF LockInv, LeaseOutlivesTimer

(* A peer gets the lock, or extends it, for longer than it will sleep.     *)
LEMMA HoldLockInv ==
    ASSUME RefreshInTime, LockInv, NEW p \in Peers, Acquire(p) \/ Extend(p)
    PROVE  LockInv'
<1>1. TypeOK'
  BY IntervalsAssumption DEF LockInv, TypeOK, Acquire, Extend
<1>2. holder' = p /\ ttl' = Expiry /\ timer'[p] = Refresh + delta[p] /\ delta[p] \in 0 .. MaxDelta
  BY DEF LockInv, TypeOK, Acquire, Extend
<1>3. ASSUME NEW q \in Peers, Serving(q)' PROVE q = p
  BY <1>3, IntervalsAssumption
     DEF LockInv, LeaseOutlivesTimer, Acquire, Extend, Serving, TypeOK
<1>4. ttl' > timer'[p] + MaxLag
  BY <1>2, IntervalsAssumption DEF RefreshInTime
<1> QED  BY <1>1, <1>2, <1>3, <1>4 DEF LockInv, LeaseOutlivesTimer

(* No other step starts to serve, takes the lock from a peer that goes on  *)
(* serving, or lengthens its sleep.                                        *)
LEMMA OtherLockInv ==
    ASSUME LockInv, NEW p \in Peers,
           \/ StayPassive(p) \/ ExtendFails(p) \/ GiveUp(p) \/ Panic(p)
           \/ ServeEnds(p) \/ Crash(p) \/ Start(p)
    PROVE  LockInv'
<1>1. CASE StayPassive(p)
  BY <1>1, IntervalsAssumption
     DEF LockInv, TypeOK, LeaseOutlivesTimer, Serving, StayPassive, Fail, lockVars
<1>2. CASE ExtendFails(p)
  <2>1. TypeOK'
    BY <1>2, IntervalsAssumption DEF LockInv, TypeOK, ExtendFails, Fail
  <2>2. ttl' >= ttl /\ ttl \in Nat /\ ttl' \in Nat
    BY <1>2, IntervalsAssumption DEF LockInv, TypeOK, ExtendFails, Fail
  <2>3. ASSUME NEW q \in Peers, Serving(q)' PROVE Serving(q) /\ timer'[q] = timer[q] /\ holder' = holder
    BY <1>2, <2>3 DEF LockInv, TypeOK, ExtendFails, Serving
  <2>4. \A q \in Peers : timer[q] \in Int
    BY DEF LockInv, TypeOK
  <2> QED  BY <2>1, <2>2, <2>3, <2>4, IntervalsAssumption DEF LockInv, LeaseOutlivesTimer
<1>3. CASE GiveUp(p)
  BY <1>3, IntervalsAssumption
     DEF LockInv, TypeOK, LeaseOutlivesTimer, Serving, GiveUp, Unlock, Fail, lockVars
<1>4. CASE Panic(p)
  BY <1>4, IntervalsAssumption
     DEF LockInv, TypeOK, LeaseOutlivesTimer, Serving, Panic, lockVars
<1>5. CASE ServeEnds(p)
  BY <1>5, IntervalsAssumption
     DEF LockInv, TypeOK, LeaseOutlivesTimer, Serving, ServeEnds, Unlock, lockVars
<1>6. CASE Crash(p)
  BY <1>6, IntervalsAssumption
     DEF LockInv, TypeOK, LeaseOutlivesTimer, Serving, Crash, lockVars
<1>7. CASE Start(p)
  BY <1>7, IntervalsAssumption
     DEF LockInv, TypeOK, LeaseOutlivesTimer, Serving, Start, lockVars
<1> QED  BY <1>1, <1>2, <1>3, <1>4, <1>5, <1>6, <1>7

(***************************************************************************)
(* The lease of a serving peer always outlives its timer                   *)
(* (distributed_lock.go, the extending goroutine).                         *)
(***************************************************************************)
THEOREM LeaseInvariance == ASSUME RefreshInTime PROVE Spec => []LockInv
<1>1. LockInv /\ [Next]_vars => LockInv'
  <2> SUFFICES ASSUME LockInv, [Next]_vars PROVE LockInv'
    OBVIOUS
  <2>1. CASE Tick
    BY <2>1, TickLockInv
  <2>2. CASE \E p \in Peers : PeerStep(p) \/ ServeEnds(p) \/ Crash(p) \/ Start(p)
    BY <2>2, HoldLockInv, OtherLockInv DEF PeerStep
  <2>3. CASE UNCHANGED vars
    BY <2>3 DEF vars, lockVars, LockInv, TypeOK, LeaseOutlivesTimer, Serving
  <2> QED  BY <2>1, <2>2, <2>3 DEF Next
<1> QED  BY InitLockInv, <1>1, PTL DEF Spec

(***************************************************************************)
(* Two peers never serve at once: each would hold the one lock             *)
(* (acquireDistributedLockAndServe).                                       *)
(***************************************************************************)
THEOREM ServingPeerHoldsLock == ASSUME RefreshInTime PROVE Spec => []HoldsWhileServing
<1>1. LockInv => HoldsWhileServing
  BY DEF LockInv, LeaseOutlivesTimer, HoldsWhileServing
<1> QED  BY LeaseInvariance, <1>1, PTL

(***************************************************************************)
(* Types hold whatever the intervals are: a peer never draws a delta or    *)
(* leaves a key beyond the bounds it was configured with                   *)
(* (randomDeltaDuration, lockExpiry).                                      *)
(***************************************************************************)
THEOREM TypeCorrect == Spec => []TypeOK
<1> USE IntervalsAssumption
<1>1. Init => TypeOK
  BY DEF Init, TypeOK
<1>2. TypeOK /\ [Next]_vars => TypeOK'
  <2> SUFFICES ASSUME TypeOK, [Next]_vars PROVE TypeOK'
    OBVIOUS
  <2>1. CASE Tick
    BY <2>1 DEF TypeOK, Tick
  <2>2. ASSUME NEW p \in Peers, PeerStep(p) PROVE TypeOK'
    <3>1. CASE Acquire(p) \/ Extend(p)
      BY <3>1 DEF TypeOK, Acquire, Extend
    <3>2. CASE StayPassive(p)
      BY <3>2 DEF TypeOK, StayPassive, Fail, lockVars
    <3>3. CASE ExtendFails(p)
      BY <3>3 DEF TypeOK, ExtendFails, Fail
    <3>4. CASE GiveUp(p) \/ Panic(p)
      BY <3>4 DEF TypeOK, GiveUp, Panic, Unlock, Fail, lockVars
    <3> QED  BY <2>2, <3>1, <3>2, <3>3, <3>4 DEF PeerStep
  <2>3. ASSUME NEW p \in Peers, ServeEnds(p) \/ Crash(p) \/ Start(p) PROVE TypeOK'
    BY <2>3 DEF TypeOK, ServeEnds, Crash, Start, Unlock, lockVars
  <2>4. CASE UNCHANGED vars
    BY <2>4 DEF vars, lockVars, TypeOK
  <2> QED  BY <2>1, <2>2, <2>3, <2>4 DEF Next
<1> QED  BY <1>1, <1>2, PTL DEF Spec
=============================================================================
