--------------------------- MODULE DistributedLock ---------------------------
(***************************************************************************)
(* The active and the passive committing peer                              *)
(* (internal/peer/node/distributed_lock.go): processes that share one      *)
(* identity compete for a lock in a key-value store. The one that gets it  *)
(* serves and extends the lock every refresh interval; the others try      *)
(* again after passiveRetryInterval. A lock that is not extended expires.  *)
(*                                                                         *)
(* Time passes in ticks. A serving process is late with an extension by at *)
(* most MaxLag ticks, the time two calls to the store may take included.   *)
(* The store is external (redsync on one server): Lock succeeds only when  *)
(* the key is absent, Extend and Unlock only on the caller's own key. A    *)
(* call may fail, before or after it took effect in the store.             *)
(***************************************************************************)
EXTENDS Integers

CONSTANTS Peers,         \* processes with the same peer.id
          NoPeer,        \* nobody holds the lock
          Expiry,        \* lockExpiry
          Refresh,       \* lockRefreshInterval
          MaxDelta,      \* bound of randomDeltaDuration
          PassiveRetry,  \* passiveRetryInterval
          MaxLag,        \* bound: lateness of an extension
          MaxFault,      \* bound: failed calls to the store
          MaxStop        \* bound: processes that stop serving or crash

(* What acquireDistributedLockAndServe insists on before it starts.        *)
ASSUME IntervalsAssumption ==
    /\ Expiry \in Nat \ {0} /\ Refresh \in Nat \ {0} /\ PassiveRetry \in Nat \ {0}
    /\ MaxDelta \in Nat /\ MaxLag \in Nat /\ MaxFault \in Nat /\ MaxStop \in Nat
    /\ ~(Expiry < Refresh)
    /\ NoPeer \notin Peers

VARIABLES holder,  \* whose key is in the store
          ttl,     \* ticks until the key expires
          st,      \* process -> what it is doing
          timer,   \* process -> ticks left of its sleep; negative when late
          delta,   \* process -> its randomDeltaDuration
          faults, stops

lockVars == <<holder, ttl>>
vars == <<lockVars, st, timer, delta, faults, stops>>

(* serve runs and the process has not yet decided to end. (In "exiting"    *)
(* serve runs too, for the moment between Unlock and Panicf.)              *)
Serving(p) == st[p] \in {"serve", "retry"}

Init ==
    /\ holder = NoPeer /\ ttl = 0
    /\ st = [p \in Peers |-> "passive"]
    /\ timer = [p \in Peers |-> 0]
    /\ delta \in [Peers -> 0 .. MaxDelta]
    /\ faults = 0 /\ stops = 0

(* A call to the store fails.                                              *)
Fail == faults < MaxFault /\ faults' = faults + 1

(* One tick. The key disappears when its time is over.                     *)
Tick ==
    /\ \A p \in Peers : Serving(p) => timer[p] + MaxLag > 0
    /\ timer' = [p \in Peers |->
                   IF Serving(p) \/ timer[p] > 0 THEN timer[p] - 1 ELSE timer[p]]
    /\ ttl' = IF ttl > 0 THEN ttl - 1 ELSE 0
    /\ holder' = IF ttl > 1 THEN holder ELSE NoPeer
    /\ UNCHANGED <<st, delta, faults, stops>>

(* lock.Lock succeeds; serve and the extending goroutine are started.      *)
Acquire(p) ==
    /\ st[p] = "passive" /\ timer[p] = 0 /\ holder = NoPeer
    /\ holder' = p /\ ttl' = Expiry
    /\ st' = [st EXCEPT ![p] = "serve"]
    /\ timer' = [timer EXCEPT ![p] = Refresh + delta[p]]
    /\ UNCHANGED <<delta, faults, stops>>

(* Faulty variant: a process that does not get the lock gives up.          *)
OneShotStayPassive(p) ==
    /\ st[p] = "passive" /\ timer[p] = 0
    /\ \/ holder # NoPeer /\ UNCHANGED <<lockVars, faults>>
       \/ Fail /\ UNCHANGED lockVars
       \/ Fail /\ holder = NoPeer /\ holder' = p /\ ttl' = Expiry
    /\ st' = [st EXCEPT ![p] = "down"]
    /\ UNCHANGED <<timer, delta, stops>>

(* Faulty variant: the delta may be the bound itself.                      *)
InclusiveStayPassive(p) ==
    /\ st[p] = "passive" /\ timer[p] = 0 /\ holder # NoPeer
    /\ timer' = [timer EXCEPT ![p] = PassiveRetry]
    /\ \E d \in 0 .. MaxDelta + 1 : delta' = [delta EXCEPT ![p] = d]
    /\ UNCHANGED <<lockVars, st, faults, stops>>

(* lock.Lock fails, because the key is there or the call failed. A new     *)
(* delta is drawn for the next attempt.                                    *)
StayPassive(p) ==
    /\ st[p] = "passive" /\ timer[p] = 0
    /\ \/ holder # NoPeer /\ UNCHANGED <<lockVars, faults>>
       \/ Fail /\ UNCHANGED lockVars
       \/ Fail /\ holder = NoPeer /\ holder' = p /\ ttl' = Expiry
    /\ timer' = [timer EXCEPT ![p] = PassiveRetry]
    /\ \E d \in 0 .. MaxDelta : delta' = [delta EXCEPT ![p] = d]
    /\ UNCHANGED <<st, stops>>

(* lock.Extend, in the two places it is called: the key lives on.          *)
Extend(p) ==
    /\ Serving(p) /\ timer[p] <= 0 /\ holder = p
    /\ ttl' = Expiry
    /\ st' = [st EXCEPT ![p] = "serve"]
    /\ timer' = [timer EXCEPT ![p] = Refresh + delta[p]]
    /\ UNCHANGED <<holder, delta, faults, stops>>

(* Faulty variant: a failed extension is only logged.                      *)
IgnoredExtendFailure(p) ==
    /\ st[p] = "serve" /\ timer[p] <= 0
    /\ \/ holder # p /\ UNCHANGED <<ttl, faults>>
       \/ Fail /\ UNCHANGED ttl
       \/ Fail /\ holder = p /\ ttl' = Expiry
    /\ timer' = [timer EXCEPT ![p] = Refresh + delta[p]]
    /\ UNCHANGED <<holder, st, delta, stops>>

(* The first Extend fails and is tried once more.                          *)
ExtendFails(p) ==
    /\ st[p] = "serve" /\ timer[p] <= 0
    /\ \/ holder # p /\ UNCHANGED <<ttl, faults>>
       \/ Fail /\ UNCHANGED ttl
       \/ Fail /\ holder = p /\ ttl' = Expiry
    /\ st' = [st EXCEPT ![p] = "retry"]
    /\ UNCHANGED <<holder, timer, delta, stops>>

(* Unlock deletes the caller's own key, or fails.                          *)
Unlock(p) ==
    IF holder = p
    THEN \/ holder' = NoPeer /\ ttl' = 0
         \/ UNCHANGED lockVars
    ELSE UNCHANGED lockVars

(* The second Extend fails as well: the lock is released, while serve is   *)
(* still running.                                                          *)
GiveUp(p) ==
    /\ st[p] = "retry"
    /\ \/ holder # p /\ UNCHANGED faults
       \/ Fail
    /\ Unlock(p)
    /\ st' = [st EXCEPT ![p] = "exiting"]
    /\ UNCHANGED <<timer, delta, stops>>

(* logger.Panicf ends the process, and serve with it.                      *)
Panic(p) ==
    /\ st[p] = "exiting"
    /\ st' = [st EXCEPT ![p] = "down"]
    /\ UNCHANGED <<lockVars, timer, delta, faults, stops>>

(* serve returns: without an error the lock is released, with one the      *)
(* process ends and leaves it to expire.                                   *)
ServeEnds(p) ==
    /\ Serving(p) /\ stops < MaxStop /\ stops' = stops + 1
    /\ Unlock(p) \/ UNCHANGED lockVars
    /\ st' = [st EXCEPT ![p] = "down"]
    /\ UNCHANGED <<timer, delta, faults>>

(* The process is killed.                                                  *)
Crash(p) ==
    /\ st[p] \in {"passive", "serve", "retry", "exiting"}
    /\ stops < MaxStop /\ stops' = stops + 1
    /\ st' = [st EXCEPT ![p] = "down"]
    /\ UNCHANGED <<lockVars, timer, delta, faults>>

(* The process is started again.                                           *)
Start(p) ==
    /\ st[p] = "down"
    /\ st' = [st EXCEPT ![p] = "passive"]
    /\ timer' = [timer EXCEPT ![p] = 0]
    /\ \E d \in 0 .. MaxDelta : delta' = [delta EXCEPT ![p] = d]
    /\ UNCHANGED <<lockVars, faults, stops>>

(* What a running process does by itself.                                  *)
PeerStep(p) ==
    \/ Acquire(p) \/ StayPassive(p) \/ Extend(p)
    \/ ExtendFails(p) \/ GiveUp(p) \/ Panic(p)

Next ==
    \/ Tick
    \/ \E p \in Peers : PeerStep(p) \/ ServeEnds(p) \/ Crash(p) \/ Start(p)

Spec == Init /\ [][Next]_vars

(* Clocks advance, and running processes are scheduled.                    *)
FairSpec == Spec /\ WF_vars(Tick) /\ \A p \in Peers : WF_vars(PeerStep(p))
-----------------------------------------------------------------------------
(* Every variable has the type of what it stands for.                      *)
TypeOK ==
    /\ holder \in Peers \cup {NoPeer} /\ ttl \in 0 .. Expiry
    /\ st \in [Peers -> {"passive", "serve", "retry", "exiting", "down"}]
    /\ timer \in [Peers -> Int]
    /\ delta \in [Peers -> 0 .. MaxDelta]
    /\ faults \in 0 .. MaxFault /\ stops \in 0 .. MaxStop

(***************************************************************************)
(* A process that serves and has not given up holds the lock at every      *)
(* moment, so two such processes never serve at once, whatever calls fail  *)
(* and whichever process stops: the refreshes are early enough and a       *)
(* failed one ends the process while the key is still its own.             *)
(***************************************************************************)
HoldsWhileServing == \A p \in Peers : Serving(p) => holder = p

(***************************************************************************)
(* Why: the key of a serving process outlives its timer by more than the   *)
(* lateness the process may still have.                                    *)
(***************************************************************************)
LeaseOutlivesTimer ==
    \A p \in Peers : Serving(p) => holder = p /\ ttl > timer[p] + MaxLag

(***************************************************************************)
(* When nobody serves and a process is waiting, somebody serves again,     *)
(* unless a further process stops: a key left behind by a process that is  *)
(* gone expires and the passive process takes over.                        *)
(***************************************************************************)
Takeover ==
    \A x \in 0 .. MaxStop :
        (/\ stops = x /\ \A p \in Peers : ~Serving(p)
         /\ \E p \in Peers : st[p] = "passive")
            ~> (stops > x \/ \E p \in Peers : Serving(p))
=============================================================================
