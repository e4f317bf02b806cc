----------------------------- MODULE RegistryLock -----------------------------
(***************************************************************************)
(* RegistryLock (registry_lock.rs): an exclusive flock on the lock file of *)
(* a registry, taken by polling a non-blocking attempt until it succeeds   *)
(* or the bound of the wait has passed.  A per-thread flag refuses nested  *)
(* acquisitions, because flock is not reentrant.                           *)
(*                                                                         *)
(* The threads are those of all the processes that use the registry; a     *)
(* process can be killed at any moment, and the kernel then closes its     *)
(* files.  Time passes in units; a thread whose sleep is over runs before  *)
(* time goes on.                                                           *)
(***************************************************************************)
EXTENDS Naturals, FiniteSets

CONSTANTS Thread,      \* the threads of all processes
          Process,     \* the sets of threads that live and die together
          LockFile,    \* the lock files
          None,        \* no file, and no thread
          Bounds,      \* the bounds a wait policy can have
          FirstBackoff,
          MaxBackoff,
          HeartbeatInterval

ASSUME LockAssumption ==
  /\ Process \subseteq SUBSET Thread
  /\ None \notin LockFile \union Thread
  /\ Bounds \subseteq Nat
  /\ FirstBackoff \in Nat \ {0}
  /\ MaxBackoff \in Nat /\ FirstBackoff <= MaxBackoff
  /\ HeartbeatInterval \in Nat \ {0}

VARIABLES
  locked,  \* the lock files the kernel has an exclusive flock on
  guards,  \* the RegistryLock values alive: [thread, file]
  held,    \* REGISTRY_LOCK_HELD of each thread
  target,  \* the file a thread is acquiring
  bound,   \* the bound of that acquisition
  waited,  \* the time since it started
  pause,   \* the time it will still sleep
  backoff, \* the length of its next sleep
  silent   \* the time since its last heartbeat; it is due from HeartbeatInterval on

waitVars == <<target, bound, waited, pause, backoff, silent>>
vars     == <<locked, guards, held, waitVars>>

Guards == [thread : Thread, file : LockFile]
Guard(t, l) == [thread |-> t, file |-> l]
GuardsOf(t) == {g \in guards : g.thread = t}

Waiting(t) == target[t] # None

AtMost(m, n) == IF m <= n THEN m ELSE n

\* Mutant: the flag of the thread is not asked.
MayAcquire_Unchecked(t) == TRUE

MayAcquire(t) == ~held[t]

\* The policy of the process, which set_registry_lock_wait may have changed.
ReadPolicy(t) == \E b \in Bounds : bound' = [bound EXCEPT ![t] = b]

\* acquire_with up to the first attempt.  With the flag set it returns an error
\* (acquire_or_skip: None) and changes nothing.  The policy is read once.
Acquire(t, l) ==
  /\ ~Waiting(t)
  /\ MayAcquire(t)
  /\ target' = [target EXCEPT ![t] = l]
  /\ ReadPolicy(t)
  /\ waited' = [waited EXCEPT ![t] = 0]
  /\ pause' = [pause EXCEPT ![t] = 0]
  /\ backoff' = [backoff EXCEPT ![t] = FirstBackoff]
  /\ silent' = [silent EXCEPT ![t] = HeartbeatInterval]
  /\ UNCHANGED <<locked, guards, held>>

\* The acquisition is over, one way or the other.
Return(t) ==
  /\ target' = [target EXCEPT ![t] = None]
  /\ UNCHANGED <<bound, waited, pause, backoff, silent>>

\* try_lock_exclusive succeeds: the attempt is the acquisition.
PollTakes(t) ==
  /\ Waiting(t) /\ pause[t] = 0
  /\ target[t] \notin locked
  /\ locked' = locked \union {target[t]}
  /\ guards' = guards \union {Guard(t, target[t])}
  /\ held' = [held EXCEPT ![t] = TRUE]
  /\ Return(t)

\* Mutant: the wait goes on while the bound is not exceeded.
Exceeded_Strict(t) == waited[t] > bound[t]

Exceeded(t) == waited[t] >= bound[t]

\* Mutant: closing the file unlocks it, as it does a POSIX record lock of the
\* same process.
GiveUp_Unlocks(t) ==
  /\ Waiting(t) /\ pause[t] = 0
  /\ target[t] \in locked
  /\ Exceeded(t)
  /\ locked' = locked \ {target[t]}
  /\ Return(t)
  /\ UNCHANGED <<guards, held>>

\* RegistryLockWaitExceeded; the file is closed.
GiveUp(t) ==
  /\ Waiting(t) /\ pause[t] = 0
  /\ target[t] \in locked
  /\ Exceeded(t)
  /\ Return(t)
  /\ UNCHANGED <<locked, guards, held>>

\* Any other error of the attempt is returned at once.
PollErrors(t) ==
  /\ Waiting(t) /\ pause[t] = 0
  /\ Return(t)
  /\ UNCHANGED <<locked, guards, held>>

NextBackoff(b) == AtMost(2 * b, MaxBackoff)

\* Mutant: the thread sleeps its whole backoff.
Sleep_Whole(t) == backoff[t]

Sleep(t) == AtMost(backoff[t], bound[t] - waited[t])

HeartbeatDue(t) == silent[t] >= HeartbeatInterval

PollWaits(t) ==
  /\ Waiting(t) /\ pause[t] = 0
  /\ target[t] \in locked
  /\ ~Exceeded(t)
  /\ silent' = IF HeartbeatDue(t) THEN [silent EXCEPT ![t] = 0] ELSE silent
  /\ pause' = [pause EXCEPT ![t] = Sleep(t)]
  /\ backoff' = [backoff EXCEPT ![t] = NextBackoff(@)]
  /\ UNCHANGED <<locked, guards, held, target, bound, waited>>

\* Mutant: the flag stays set.
Drop_FlagKept(t, l) ==
  /\ ~Waiting(t)
  /\ Guard(t, l) \in guards
  /\ guards' = guards \ {Guard(t, l)}
  /\ locked' = locked \ {l}
  /\ UNCHANGED <<held, waitVars>>

\* The thread that acquired the guard drops it; no code hands it to another.
Drop(t, l) ==
  /\ ~Waiting(t)
  /\ Guard(t, l) \in guards
  /\ guards' = guards \ {Guard(t, l)}
  /\ locked' = locked \ {l}
  /\ held' = [held EXCEPT ![t] = FALSE]
  /\ UNCHANGED <<waitVars>>

\* A process is killed; the kernel closes its files, and others start anew.
Kill(P) ==
  /\ locked' = locked \ {g.file : g \in {h \in guards : h.thread \in P}}
  /\ guards' = {g \in guards : g.thread \notin P}
  /\ held' = [t \in Thread |-> held[t] /\ t \notin P]
  /\ target' = [t \in Thread |-> IF t \in P THEN None ELSE target[t]]
  /\ UNCHANGED <<bound, waited, pause, backoff, silent>>

\* Time passes for the threads that sleep.
Tick ==
  /\ \E t \in Thread : Waiting(t)
  /\ \A t \in Thread : Waiting(t) => pause[t] > 0
  /\ waited' = [t \in Thread |-> IF Waiting(t) THEN waited[t] + 1 ELSE waited[t]]
  /\ pause'  = [t \in Thread |-> IF Waiting(t) THEN pause[t] - 1 ELSE pause[t]]
  /\ silent' = [t \in Thread |-> IF Waiting(t) THEN silent[t] + 1 ELSE silent[t]]
  /\ UNCHANGED <<locked, guards, held, target, bound, backoff>>

Init ==
  /\ locked = {} /\ guards = {}
  /\ held = [t \in Thread |-> FALSE]
  /\ target = [t \in Thread |-> None]
  /\ bound = [t \in Thread |-> 0] /\ waited = [t \in Thread |-> 0]
  /\ pause = [t \in Thread |-> 0] /\ silent = [t \in Thread |-> 0]
  /\ backoff = [t \in Thread |-> FirstBackoff]

Poll(t) == PollTakes(t) \/ GiveUp(t) \/ PollErrors(t) \/ PollWaits(t)

Next ==
  \/ \E t \in Thread : Poll(t)
  \/ \E t \in Thread, l \in LockFile : Acquire(t, l) \/ Drop(t, l)
  \/ \E P \in Process : Kill(P)
  \/ Tick

Spec == Init /\ [][Next]_vars

\* A thread that is due runs at last, whatever comes of it; that an attempt
\* fails is not relied on.  Time goes on while threads sleep: there is no
\* infinite number of acquisitions within one unit of it.  Nothing makes the
\* owner of a guard drop it.
NotZeno ==
  []<><<\E t \in Thread, l \in LockFile : Acquire(t, l)>>_vars => []<><<Tick>>_vars

Fairness ==
  /\ NotZeno /\ WF_vars(Tick)
  /\ \A t \in Thread : WF_vars(PollTakes(t) \/ GiveUp(t) \/ PollWaits(t))

FairSpec == Spec /\ Fairness

-----------------------------------------------------------------------------
(* Properties.                                                             *)

\* Every variable has its type, and the backoff stays between its limits.
TypeOK ==
  /\ locked \subseteq LockFile
  /\ guards \subseteq Guards
  /\ held \in [Thread -> BOOLEAN]
  /\ target \in [Thread -> LockFile \union {None}]
  /\ bound \in [Thread -> Nat] /\ waited \in [Thread -> Nat]
  /\ pause \in [Thread -> Nat] /\ silent \in [Thread -> Nat]
  /\ backoff \in [Thread -> FirstBackoff..MaxBackoff]

\* Two guards are never alive for one lock file, whatever gives up, is dropped
\* or killed, so the read-modify-writes of a registry never overlap.
MutualExclusion == \A g, h \in guards : g.file = h.file => g = h

\* The flag refuses nested acquisitions on any path, so a thread that waits for
\* a lock owns none: threads can neither wait for themselves nor in a circle.
NoHoldAndWait == \A t \in Thread : Waiting(t) => GuardsOf(t) = {}

\* registry_lock_held_on_this_thread tells the truth.
FlagIsTrue == \A t \in Thread : held[t] <=> GuardsOf(t) # {}

\* No acquisition waits past its bound: the last sleep is cut to end at it.
WithinBound == \A t \in Thread : Waiting(t) => waited[t] <= bound[t]

\* While an acquisition waits the heartbeat is called once per interval, late
\* by one sleep at most.
HeartbeatsComeInTime ==
  \A t \in Thread : Waiting(t) /\ waited[t] > 0 => silent[t] < HeartbeatInterval + MaxBackoff

\* Every acquisition comes to an end, even if the owner of the lock never
\* drops it.
AcquireReturns == \A t \in Thread : Waiting(t) ~> ~Waiting(t)

\* The lock as its users see it: the thread that has the guard owns the file.
OwnerOf(l) ==
  IF \E t \in Thread : Guard(t, l) \in guards
  THEN CHOOSE t \in Thread : Guard(t, l) \in guards ELSE None
Owner == [l \in LockFile |-> OwnerOf(l)]

Users == INSTANCE Mutex WITH Nobody <- None, owner <- Owner

\* The polling lock implements the lock its users rely on.
ImplementsMutex == Users!Spec

=============================================================================
