-------------------------------- MODULE Mutex --------------------------------
(***************************************************************************)
(* What a RegistryLock promises its users: a lock file has one owner at a  *)
(* time, and a thread that owns one takes no other, so that no cycle of    *)
(* threads waits on itself.  How long a thread waits is not part of it.    *)
(***************************************************************************)

CONSTANTS Thread,   \* the threads of all processes
          LockFile, \* the lock files
          Nobody    \* not a thread

VARIABLE owner      \* the thread that owns each lock file

Owns(t) == \E l \in LockFile : owner[l] = t

Init == owner = [l \in LockFile |-> Nobody]

Take(t, l) ==
  /\ owner[l] = Nobody
  /\ ~Owns(t)
  /\ owner' = [owner EXCEPT ![l] = t]

\* Threads give up what they own, by dropping the guard or by dying.
Release(T) == owner' = [l \in LockFile |-> IF owner[l] \in T THEN Nobody ELSE owner[l]]

Next == \/ \E t \in Thread, l \in LockFile : Take(t, l)
        \/ \E T \in SUBSET Thread : Release(T)

Spec == Init /\ [][Next]_owner

=============================================================================
