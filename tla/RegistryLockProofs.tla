-------------------------- MODULE RegistryLockProofs --------------------------
(***************************************************************************)
(* Theorems about RegistryLock, for any threads, processes, lock files and *)
(* bounds: mutual exclusion, the bound of the wait, the heartbeats, the    *)
(* refusal of nested acquisitions and the implementation of Mutex.         *)
(***************************************************************************)
EXTENDS RegistryLock, TLAPS

\* The kernel's locks are those of the guards alive.
LocksOfGuards == locked = {g.file : g \in guards}

\* The sleep that is left ends within the bound.
SleepsWithin == \A t \in Thread : Waiting(t) => waited[t] + pause[t] <= bound[t]

\* At the end of the sleep the heartbeat is late by less than one sleep.
SilenceBounded ==
  \A t \in Thread : Waiting(t) => silent[t] + pause[t] < HeartbeatInterval + MaxBackoff

LockInv == TypeOK /\ LocksOfGuards /\ MutualExclusion /\ SleepsWithin /\ SilenceBounded

\* A thread has one guard at most, and its flag says whether it has one.
OneGuard == \A g, h \in guards : g.thread = h.thread => g = h

FlagInv == FlagIsTrue /\ NoHoldAndWait /\ OneGuard

-----------------------------------------------------------------------------

\* Every action keeps the types.
LEMMA TypeInductive == TypeOK /\ [Next]_vars => TypeOK'
<1> SUFFICES ASSUME TypeOK, [Next]_vars PROVE TypeOK'
  OBVIOUS
<1> USE LockAssumption
<1>1. ASSUME NEW t \in Thread, PollTakes(t) PROVE TypeOK'
  BY <1>1 DEF TypeOK, PollTakes, Return, Waiting, Guards, Guard
<1>2. ASSUME NEW t \in Thread, GiveUp(t) \/ PollErrors(t) PROVE TypeOK'
  BY <1>2 DEF TypeOK, GiveUp, PollErrors, Return
<1>3. ASSUME NEW t \in Thread, PollWaits(t) PROVE TypeOK'
  <2>1. Sleep(t) \in Nat
    BY <1>3 DEF TypeOK, PollWaits, Exceeded, Sleep, AtMost
  <2>2. NextBackoff(backoff[t]) \in FirstBackoff..MaxBackoff
    BY DEF TypeOK, NextBackoff, AtMost
  <2>3. QED
    BY <1>3, <2>1, <2>2 DEF TypeOK, PollWaits
<1>4. ASSUME NEW t \in Thread, NEW l \in LockFile, Acquire(t, l) PROVE TypeOK'
  BY <1>4 DEF TypeOK, Acquire, ReadPolicy
<1>5. ASSUME NEW t \in Thread, NEW l \in LockFile, Drop(t, l) PROVE TypeOK'
  BY <1>5 DEF TypeOK, Drop, waitVars
<1>6. ASSUME NEW P \in Process, Kill(P) PROVE TypeOK'
  BY <1>6 DEF TypeOK, Kill
<1>7. ASSUME Tick PROVE TypeOK'
  BY <1>7 DEF TypeOK, Tick, Waiting
<1>8. ASSUME UNCHANGED vars PROVE TypeOK'
  BY <1>8 DEF TypeOK, vars, waitVars
<1>9. QED
  BY <1>1, <1>2, <1>3, <1>4, <1>5, <1>6, <1>7, <1>8 DEF Next, Poll

\* The locks of the kernel follow the guards: only the owner of a guard, or the
\* death of its process, unlocks a file.
LEMMA GuardsInductive ==
  TypeOK /\ LocksOfGuards /\ MutualExclusion /\ [Next]_vars
    => LocksOfGuards' /\ MutualExclusion'
<1> SUFFICES ASSUME TypeOK, LocksOfGuards, MutualExclusion, [Next]_vars
             PROVE LocksOfGuards' /\ MutualExclusion'
  OBVIOUS
<1> USE LockAssumption DEF LocksOfGuards, MutualExclusion
<1>1. ASSUME NEW t \in Thread, PollTakes(t) PROVE LocksOfGuards' /\ MutualExclusion'
  <2>1. \A g \in guards : g.file # target[t]
    BY <1>1 DEF PollTakes
  <2>2. PICK new : new.file = target[t] /\ guards' = guards \union {new}
    BY <1>1 DEF PollTakes, Guard
  <2>3. locked' = locked \union {target[t]}
    BY <1>1 DEF PollTakes
  <2>4. QED
    BY <2>1, <2>2, <2>3
<1>2. ASSUME NEW t \in Thread, GiveUp(t) \/ PollErrors(t) \/ PollWaits(t)
      PROVE LocksOfGuards' /\ MutualExclusion'
  BY <1>2 DEF GiveUp, PollErrors, PollWaits
<1>3. ASSUME NEW t \in Thread, NEW l \in LockFile, Acquire(t, l)
      PROVE LocksOfGuards' /\ MutualExclusion'
  BY <1>3 DEF Acquire, ReadPolicy
<1>4. ASSUME NEW t \in Thread, NEW l \in LockFile, Drop(t, l)
      PROVE LocksOfGuards' /\ MutualExclusion'
  BY <1>4 DEF Drop, Guard
<1>5. ASSUME NEW P \in Process, Kill(P) PROVE LocksOfGuards' /\ MutualExclusion'
  BY <1>5 DEF Kill
<1>6. ASSUME Tick \/ UNCHANGED vars PROVE LocksOfGuards' /\ MutualExclusion'
  BY <1>6 DEF Tick, vars
<1>7. QED
  BY <1>1, <1>2, <1>3, <1>4, <1>5, <1>6 DEF Next, Poll

\* A sleep is never set beyond the bound, and time only uses it up.
LEMMA SleepsInductive == TypeOK /\ SleepsWithin /\ [Next]_vars => SleepsWithin'
<1> SUFFICES ASSUME TypeOK, SleepsWithin, [Next]_vars PROVE SleepsWithin'
  OBVIOUS
<1> USE LockAssumption DEF SleepsWithin, Waiting
<1>1. ASSUME NEW t \in Thread, PollTakes(t) \/ GiveUp(t) \/ PollErrors(t) PROVE SleepsWithin'
  BY <1>1 DEF TypeOK, PollTakes, GiveUp, PollErrors, Return
<1>2. ASSUME NEW t \in Thread, PollWaits(t) PROVE SleepsWithin'
  <2>1. waited[t] + Sleep(t) <= bound[t]
    BY <1>2 DEF TypeOK, PollWaits, Exceeded, Sleep, AtMost
  <2>2. QED
    BY <1>2, <2>1 DEF TypeOK, PollWaits
<1>3. ASSUME NEW t \in Thread, NEW l \in LockFile, Acquire(t, l) PROVE SleepsWithin'
  BY <1>3 DEF TypeOK, Acquire, ReadPolicy
<1>4. ASSUME NEW P \in Process, Kill(P) PROVE SleepsWithin'
  BY <1>4 DEF TypeOK, Kill
<1>5. ASSUME Tick PROVE SleepsWithin'
  BY <1>5 DEF TypeOK, Tick
<1>6. ASSUME NEW t, NEW l, Drop(t, l) \/ UNCHANGED vars PROVE SleepsWithin'
  BY <1>6 DEF Drop, vars, waitVars
<1>7. QED
  BY <1>1, <1>2, <1>3, <1>4, <1>5, <1>6 DEF Next, Poll

\* A thread that goes to sleep has just called the heartbeat, or it is not due.
LEMMA SilenceInductive == TypeOK /\ SilenceBounded /\ [Next]_vars => SilenceBounded'
<1> SUFFICES ASSUME TypeOK, SilenceBounded, [Next]_vars PROVE SilenceBounded'
  OBVIOUS
<1> USE LockAssumption DEF SilenceBounded, Waiting
<1>1. ASSUME NEW t \in Thread, PollTakes(t) \/ GiveUp(t) \/ PollErrors(t) PROVE SilenceBounded'
  BY <1>1 DEF TypeOK, PollTakes, GiveUp, PollErrors, Return
<1>2. ASSUME NEW t \in Thread, PollWaits(t) PROVE SilenceBounded'
  <2>1. Sleep(t) \in Nat /\ Sleep(t) <= MaxBackoff
    BY <1>2 DEF TypeOK, PollWaits, Exceeded, Sleep, AtMost
  <2>2. silent'[t] \in Nat /\ silent'[t] < HeartbeatInterval /\ pause'[t] = Sleep(t)
    BY <1>2 DEF TypeOK, PollWaits, HeartbeatDue
  <2>3. silent'[t] + pause'[t] < HeartbeatInterval + MaxBackoff
    BY <2>1, <2>2
  <2>4. \A u \in Thread : u # t => silent'[u] = silent[u] /\ pause'[u] = pause[u]
    BY <1>2 DEF TypeOK, PollWaits
  <2>5. target' = target
    BY <1>2 DEF PollWaits
  <2>6. QED
    BY <2>3, <2>4, <2>5
<1>3. ASSUME NEW t \in Thread, NEW l \in LockFile, Acquire(t, l) PROVE SilenceBounded'
  BY <1>3 DEF TypeOK, Acquire, ReadPolicy
<1>4. ASSUME NEW P \in Process, Kill(P) PROVE SilenceBounded'
  BY <1>4 DEF Kill
<1>5. ASSUME Tick PROVE SilenceBounded'
  BY <1>5 DEF TypeOK, Tick
<1>6. ASSUME NEW t, NEW l, Drop(t, l) \/ UNCHANGED vars PROVE SilenceBounded'
  BY <1>6 DEF Drop, vars, waitVars
<1>7. QED
  BY <1>1, <1>2, <1>3, <1>4, <1>5, <1>6 DEF Next, Poll

\* The flag of a thread is set exactly while it has its one guard, and a thread
\* with the flag set does not wait.
LEMMA FlagInductive == TypeOK /\ FlagInv /\ [Next]_vars => FlagInv'
<1> SUFFICES ASSUME TypeOK, FlagInv, [Next]_vars PROVE FlagInv'
  OBVIOUS
<1> USE LockAssumption DEF FlagInv, FlagIsTrue, NoHoldAndWait, OneGuard, GuardsOf, Waiting
<1>1. ASSUME NEW t \in Thread, PollTakes(t) PROVE FlagInv'
  <2>1. PICK new : new.thread = t /\ guards' = guards \union {new}
    BY <1>1 DEF PollTakes, Guard
  <2>2. GuardsOf(t) = {}
    BY <1>1 DEF PollTakes
  <2>3. held' = [held EXCEPT ![t] = TRUE] /\ target' = [target EXCEPT ![t] = None]
    BY <1>1 DEF PollTakes, Return
  <2>4. OneGuard'
    BY <2>1, <2>2
  <2>5. NoHoldAndWait'
    BY <2>1, <2>3 DEF TypeOK
  <2>6. FlagIsTrue'
    BY <2>1, <2>3 DEF TypeOK
  <2>7. QED
    BY <2>4, <2>5, <2>6
<1>2. ASSUME NEW t \in Thread, GiveUp(t) \/ PollErrors(t) \/ PollWaits(t) PROVE FlagInv'
  BY <1>2 DEF TypeOK, GiveUp, PollErrors, PollWaits, Return
<1>3. ASSUME NEW t \in Thread, NEW l \in LockFile, Acquire(t, l) PROVE FlagInv'
  BY <1>3 DEF TypeOK, Acquire, ReadPolicy, MayAcquire
<1>4. ASSUME NEW t \in Thread, NEW l \in LockFile, Drop(t, l) PROVE FlagInv'
  BY <1>4 DEF TypeOK, Drop, Guard, waitVars
<1>5. ASSUME NEW P \in Process, Kill(P) PROVE FlagInv'
  <2>1. guards' = {g \in guards : g.thread \notin P}
    BY <1>5 DEF Kill
  <2>2. held' = [t \in Thread |-> held[t] /\ t \notin P]
    BY <1>5 DEF Kill
  <2>3. \A t \in Thread : target'[t] # None => target[t] # None
    BY <1>5 DEF Kill
  <2>4. OneGuard'
    BY <2>1
  <2>5. NoHoldAndWait'
    BY <2>1, <2>3
  <2>6. ASSUME NEW t \in Thread PROVE held'[t] <=> GuardsOf(t)' # {}
    <3>1. held'[t] <=> held[t] /\ t \notin P
      BY <2>2, Zenon
    <3>2. CASE t \in P
      <4>1. GuardsOf(t)' = {}
        BY <3>2, <2>1
      <4>2. QED
        BY <3>1, <3>2, <4>1
    <3>3. CASE t \notin P
      <4>1. GuardsOf(t)' = GuardsOf(t)
        BY <3>3, <2>1
      <4>2. held[t] <=> GuardsOf(t) # {}
        OBVIOUS
      <4>3. QED
        BY <3>1, <3>3, <4>1, <4>2, Zenon
    <3>4. QED
      BY <3>2, <3>3
  <2>7. QED
    BY <2>4, <2>5, <2>6
<1>6. ASSUME Tick \/ UNCHANGED vars PROVE FlagInv'
  BY <1>6 DEF Tick, vars, waitVars
<1>7. QED
  BY <1>1, <1>2, <1>3, <1>4, <1>5, <1>6 DEF Next, Poll

\* In the first state no lock is held and nobody waits.
LEMMA Initial == Init => LockInv /\ FlagInv
BY LockAssumption DEF Init, LockInv, TypeOK, LocksOfGuards, MutualExclusion, SleepsWithin, SilenceBounded, Waiting,
   FlagInv, FlagIsTrue, NoHoldAndWait, OneGuard, GuardsOf

\* The invariant of the lock holds whatever the threads do.
THEOREM LockInvariance == Spec => []LockInv
<1>1. LockInv /\ [Next]_vars => LockInv'
  BY TypeInductive, GuardsInductive, SleepsInductive, SilenceInductive DEF LockInv
<1>2. QED
  BY <1>1, Initial, PTL DEF Spec

\* Two guards are never alive for one lock file.
THEOREM Exclusion == Spec => []MutualExclusion
BY LockInvariance, PTL DEF LockInv

\* No acquisition waits past the bound of its policy.
THEOREM BoundedWait == Spec => []WithinBound
<1>1. LockInv => WithinBound
  BY DEF LockInv, TypeOK, SleepsWithin, WithinBound
<1>2. QED
  BY <1>1, LockInvariance, PTL

\* While an acquisition waits, the heartbeat is late by less than one sleep.
THEOREM TimelyHeartbeats == Spec => []HeartbeatsComeInTime
<1>1. LockInv => HeartbeatsComeInTime
  <2>1. \A m, n, k \in Nat : m + n < k => m < k
    OBVIOUS
  <2>2. HeartbeatInterval + MaxBackoff \in Nat
    BY LockAssumption
  <2>3. QED
    BY <2>1, <2>2 DEF LockInv, TypeOK, SilenceBounded, HeartbeatsComeInTime
<1>2. QED
  BY <1>1, LockInvariance, PTL

\* The invariant of the flags holds as well.
THEOREM FlagInvariance == Spec => [](LockInv /\ FlagInv)
<1>1. FlagInv /\ TypeOK /\ [Next]_vars => FlagInv'
  BY FlagInductive
<1>2. LockInv => TypeOK
  BY DEF LockInv
<1>3. QED
  BY <1>1, <1>2, Initial, LockInvariance, PTL DEF Spec

\* registry_lock_held_on_this_thread tells the truth, whatever was dropped or killed.
THEOREM FlagTruthful == Spec => []FlagIsTrue
BY FlagInvariance, PTL DEF FlagInv

\* The flag refuses nested acquisitions, so a thread that waits for a lock owns
\* none, and no threads wait for each other in a circle.
THEOREM NestedRefused == Spec => []NoHoldAndWait
BY FlagInvariance, PTL DEF FlagInv

-----------------------------------------------------------------------------
(* The polling lock implements Mutex.                                      *)

\* The owner of a file is the thread that has its guard.
OwnersByGuards ==
  \A l \in LockFile : /\ \A t \in Thread : Owner[l] = t <=> Guard(t, l) \in guards
                      /\ Owner[l] \in Thread \union {None}

\* ... which is well defined, as a file has one guard at most.
LEMMA OwnerFacts == LockInv => OwnersByGuards
<1> SUFFICES ASSUME LockInv, NEW l \in LockFile
             PROVE  /\ \A t \in Thread : Owner[l] = t <=> Guard(t, l) \in guards
                    /\ Owner[l] \in Thread \union {None}
  BY DEF OwnersByGuards
<1>1. \A t, u \in Thread : Guard(t, l) \in guards /\ Guard(u, l) \in guards => t = u
  BY DEF LockInv, MutualExclusion, Guard
<1>2. Owner[l] = OwnerOf(l)
  BY DEF Owner
<1>3. QED
  BY <1>1, <1>2, LockAssumption DEF OwnerOf

\* Actions that leave the guards alone leave the owners alone.
LEMMA OwnerKept == guards' = guards => Owner' = Owner
BY DEF Owner, OwnerOf

\* Every step of the lock takes a lock for a thread that has none, releases
\* those of some threads, or leaves the owners alone.
LEMMA StepRefines ==
  LockInv /\ FlagInv /\ OwnersByGuards /\ OwnersByGuards' /\ [Next]_vars
    => Users!Next \/ Owner' = Owner
<1> SUFFICES ASSUME LockInv, FlagInv, OwnersByGuards, OwnersByGuards', [Next]_vars
             PROVE  Users!Next \/ Owner' = Owner
  OBVIOUS
<1> USE LockAssumption
<1>1. Owner = [l \in LockFile |-> Owner[l]] /\ Owner' = [l \in LockFile |-> Owner'[l]]
  BY DEF Owner
<1>2. ASSUME NEW t \in Thread, PollTakes(t) PROVE Users!Take(t, target[t]) /\ target[t] \in LockFile
  <2>1. target[t] \in LockFile /\ target[t] \notin locked /\ GuardsOf(t) = {}
    BY <1>2 DEF PollTakes, Waiting, LockInv, TypeOK, FlagInv, NoHoldAndWait
  <2>2. guards' = guards \union {Guard(t, target[t])}
    BY <1>2 DEF PollTakes
  <2>3. \A u \in Thread : Guard(u, target[t]) \notin guards
    BY <2>1 DEF LockInv, LocksOfGuards, Guard
  <2>4. Owner[target[t]] = None
    BY <2>1, <2>3 DEF OwnersByGuards
  <2>5. \A l \in LockFile : Guard(t, l) \notin guards
    BY <2>1 DEF GuardsOf, Guard
  <2>6. ~Users!Owns(t)
    BY <2>5 DEF Users!Owns, OwnersByGuards
  <2>7. \A l \in LockFile : Owner'[l] = IF l = target[t] THEN t ELSE Owner[l]
    <3>1. ASSUME NEW l \in LockFile, l # target[t] PROVE Owner'[l] = Owner[l]
      <4>1. \A u \in Thread : Guard(u, l) \in guards' <=> Guard(u, l) \in guards
        BY <2>2, <3>1 DEF Guard
      <4>2. QED
        BY <4>1 DEF OwnersByGuards
    <3>2. Owner'[target[t]] = t
      BY <2>1, <2>2 DEF OwnersByGuards
    <3>3. QED
      BY <3>1, <3>2
  <2>8. Owner' = [Owner EXCEPT ![target[t]] = t]
    BY <2>1, <2>7, <1>1
  <2>9. QED
    BY <2>1, <2>4, <2>6, <2>8 DEF Users!Take
<1>3. ASSUME NEW t \in Thread, NEW l \in LockFile, Drop(t, l) PROVE Users!Release({t})
  <2>1. guards' = guards \ {Guard(t, l)} /\ Guard(t, l) \in guards
    BY <1>3 DEF Drop
  <2>2. ASSUME NEW m \in LockFile PROVE Owner'[m] = IF Owner[m] \in {t} THEN None ELSE Owner[m]
    <3>1. CASE m = l
      BY <3>1, <2>1 DEF OwnersByGuards, Guard
    <3>2. CASE m # l
      <4>1. \A u \in Thread : Guard(u, m) \in guards' <=> Guard(u, m) \in guards
        BY <2>1, <3>2 DEF Guard
      <4>2. Guard(t, m) \notin guards
        BY <2>1, <3>2 DEF FlagInv, OneGuard, Guard
      <4>3. QED
        BY <4>1, <4>2 DEF OwnersByGuards
    <3>3. QED
      BY <3>1, <3>2
  <2>3. QED
    BY <2>2, <1>1 DEF Users!Release
<1>4. ASSUME NEW P \in Process, Kill(P) PROVE Users!Release(P)
  <2>1. guards' = {g \in guards : g.thread \notin P}
    BY <1>4 DEF Kill
  <2>2. ASSUME NEW m \in LockFile PROVE Owner'[m] = IF Owner[m] \in P THEN None ELSE Owner[m]
    <3>1. \A u \in Thread : Guard(u, m) \in guards' <=> Guard(u, m) \in guards /\ u \notin P
      BY <2>1 DEF Guard
    <3>2. QED
      BY <3>1 DEF OwnersByGuards
  <2>3. QED
    BY <2>2, <1>1 DEF Users!Release
<1>5. ASSUME NEW t, GiveUp(t) \/ PollErrors(t) \/ PollWaits(t) PROVE Owner' = Owner
  BY <1>5, OwnerKept DEF GiveUp, PollErrors, PollWaits
<1>6. ASSUME NEW t, NEW l, Acquire(t, l) PROVE Owner' = Owner
  BY <1>6, OwnerKept DEF Acquire, ReadPolicy
<1>7. ASSUME Tick \/ UNCHANGED vars PROVE Owner' = Owner
  BY <1>7, OwnerKept DEF Tick, vars
<1>8. QED
  <2>1. \A P \in Process : P \in SUBSET Thread
    OBVIOUS
  <2>2. \A t \in Thread : {t} \in SUBSET Thread
    OBVIOUS
  <2>3. QED
    BY <1>2, <1>3, <1>4, <1>5, <1>6, <1>7, <2>1, <2>2 DEF Next, Poll, Users!Next

\* No lock is held at first.
LEMMA InitRefines == Init => Users!Init
BY DEF Init, Users!Init, Owner, OwnerOf

\* The polling lock implements the lock its users rely on.
THEOREM Refinement == Spec => ImplementsMutex
<1>1. LockInv /\ FlagInv /\ OwnersByGuards /\ OwnersByGuards' /\ [Next]_vars => [Users!Next]_Owner
  BY StepRefines
<1>2. QED
  BY <1>1, OwnerFacts, InitRefines, FlagInvariance, PTL DEF Spec, ImplementsMutex, Users!Spec
=============================================================================
