----------------------------- MODULE RegistryFile -----------------------------
(***************************************************************************)
(* The registry as a JSON file shared by the threads of several processes  *)
(* (registry.rs).  An operation loads the file, changes its copy and saves *)
(* it; std::fs::write truncates the file before it writes it.  The         *)
(* library's operations own the registry lock meanwhile; the register and  *)
(* unregister commands of the CLI (main.rs) do not take it.  The lock is   *)
(* the one of module Mutex, which RegistryLock implements.                 *)
(***************************************************************************)
EXTENDS RegistryMap, FiniteSets

CONSTANTS Thread,
          CliThread,    \* the threads that run register and unregister
          ScopedThread, \* the threads that run in a pane snapshot scope
          LockFile,     \* the lock file of the registry
          Nobody,       \* not a thread
          NoOp,         \* not an operation
          Torn,         \* the file is not JSON: it is truncated or mixed up
          MaxFaults,    \* crashes and failed writes in a behaviour
          TornWrites    \* whether they can come between truncation and writing

ASSUME FileAssumption ==
  /\ CliThread \subseteq Thread /\ ScopedThread \subseteq Thread
  /\ Nobody \notin Thread
  /\ NoOp \notin Ops
  /\ Torn \notin Registries
  /\ MaxFaults \in Nat /\ TornWrites \in BOOLEAN

VARIABLES
  file,   \* the registry in the file, or Torn; no file is an empty registry
  owner,  \* the owner of the lock file
  op,     \* the operation a thread runs
  stage,  \* what it does next
  copy,   \* the registry it has in memory
  live,   \* the live panes a prune knows of
  cached, \* the pane snapshot cached in the scope of a thread: none or one
  born,   \* the panes created so far; tmux does not use an id again
  alive,  \* those alive
  faults

jobVars == <<op, stage, copy, live>>
vars    == <<file, owner, jobVars, cached, born, alive, faults>>

Lock == INSTANCE Mutex WITH LockFile <- {LockFile}

Stages == {"idle", "load", "sample", "change", "truncate", "write", "leave", "fail"}

At(t, s)   == stage[t] = s
Goes(t, s) == stage' = [stage EXCEPT ![t] = s]

\* Callers register panes that exist; the CLI only registers and unregisters.
Possible(t, o) ==
  /\ o \in BindOps \union DescribeOps => o.entry.pane \in born
  /\ o \in WindowOps => o.pane \in born
  /\ t \in CliThread => o \in BindOps \union UnbindOps

\* Mutant: the operation does not take the lock.
Locked_Never(t) == UNCHANGED owner

Locked(t) == IF t \in CliThread THEN UNCHANGED owner ELSE Lock!Take(t, LockFile)

\* The call of an operation, up to its acquisition of the lock; one that does
\* not get the lock has no effect.
Begin(t, o) ==
  /\ At(t, "idle")
  /\ Possible(t, o)
  /\ Locked(t)
  /\ op' = [op EXCEPT ![t] = o]
  /\ Goes(t, "load")
  /\ UNCHANGED <<file, copy, live, cached, born, alive, faults>>

Load(t) ==
  /\ At(t, "load") /\ file # Torn
  /\ copy' = [copy EXCEPT ![t] = file]
  /\ Goes(t, IF op[t] \in PruneOps THEN "sample" ELSE "change")
  /\ UNCHANGED <<file, owner, op, live, cached, born, alive, faults>>

\* Mutant: a file that cannot be parsed is read again.
LoadFails_Retries(t) ==
  /\ At(t, "load") /\ file = Torn
  /\ UNCHANGED vars

LoadFails(t) ==
  /\ At(t, "load") /\ file = Torn
  /\ Goes(t, "fail")
  /\ UNCHANGED <<file, owner, op, copy, live, cached, born, alive, faults>>

\* try_alive_pane_ids: in a scope the first snapshot is cached.
Samples(t) == IF cached[t] = {} THEN {alive} ELSE cached[t]

Remembered(t, A) ==
  cached' = IF t \in ScopedThread THEN [cached EXCEPT ![t] = {A}] ELSE cached

Sample(t) ==
  /\ At(t, "sample")
  /\ \E A \in Samples(t) : live' = [live EXCEPT ![t] = A] /\ Remembered(t, A)
  /\ Goes(t, "change")
  /\ UNCHANGED <<file, owner, op, copy, born, alive, faults>>

\* list-panes fails: the error is returned and nothing is saved.
SampleFails(t) ==
  /\ At(t, "sample")
  /\ Goes(t, "fail")
  /\ UNCHANGED <<file, owner, op, copy, live, cached, born, alive, faults>>

\* Another liveness query of a thread in a scope.
Observe(t) ==
  /\ t \in ScopedThread /\ At(t, "idle")
  /\ \E A \in Samples(t) : Remembered(t, A)
  /\ UNCHANGED <<file, owner, jobVars, born, alive, faults>>

\* Mutant: only what with_registry changes is saved.
Change_Unsaved(t) ==
  /\ At(t, "change")
  /\ \E r \in Results(op[t], copy[t], live[t]) :
       /\ copy' = [copy EXCEPT ![t] = r]
       /\ Goes(t, IF op[t] \in BindOps \union DescribeOps THEN "truncate" ELSE "leave")
  /\ UNCHANGED <<file, owner, op, live, cached, born, alive, faults>>

\* with_registry always saves; an operation that changed nothing need not.
Change(t) ==
  /\ At(t, "change")
  /\ \E r \in Results(op[t], copy[t], live[t]) :
       /\ copy' = [copy EXCEPT ![t] = r]
       /\ \/ Goes(t, "truncate")
          \/ r = copy[t] /\ op[t] \notin BindOps \union DescribeOps /\ Goes(t, "leave")
  /\ UNCHANGED <<file, owner, op, live, cached, born, alive, faults>>

Truncate(t) ==
  /\ At(t, "truncate")
  /\ file' = Torn
  /\ Goes(t, "write")
  /\ UNCHANGED <<owner, op, copy, live, cached, born, alive, faults>>

\* Two writers that overlap leave the longer text's end behind the shorter one.
Write(t) ==
  /\ At(t, "write")
  /\ \/ file' = copy[t]
     \/ file # Torn /\ file' = Torn
  /\ Goes(t, "leave")
  /\ UNCHANGED <<owner, op, copy, live, cached, born, alive, faults>>

\* The guard is dropped and the operation returns.
Leave(t) ==
  /\ At(t, "leave") \/ At(t, "fail")
  /\ Lock!Release({t})
  /\ op' = [op EXCEPT ![t] = NoOp]
  /\ Goes(t, "idle")
  /\ copy' = [copy EXCEPT ![t] = Empty]
  /\ live' = [live EXCEPT ![t] = {}]
  /\ UNCHANGED <<file, cached, born, alive, faults>>

MayFail(t) == faults < MaxFaults /\ (At(t, "write") => TornWrites)

\* std::fs::write returns an error after it has truncated the file.
WriteFails(t) ==
  /\ At(t, "write") /\ MayFail(t)
  /\ Goes(t, "fail")
  /\ faults' = faults + 1
  /\ UNCHANGED <<file, owner, op, copy, live, cached, born, alive>>

\* The process of the thread is killed; another one takes its place.
Crash(t) ==
  /\ ~At(t, "idle") /\ MayFail(t)
  /\ Lock!Release({t})
  /\ op' = [op EXCEPT ![t] = NoOp]
  /\ Goes(t, "idle")
  /\ copy' = [copy EXCEPT ![t] = Empty]
  /\ live' = [live EXCEPT ![t] = {}]
  /\ cached' = [cached EXCEPT ![t] = {}]
  /\ faults' = faults + 1
  /\ UNCHANGED <<file, born, alive>>

PaneBorn(p) ==
  /\ p \notin born
  /\ born' = born \union {p} /\ alive' = alive \union {p}
  /\ UNCHANGED <<file, owner, jobVars, cached, faults>>

PaneDies(p) ==
  /\ alive' = alive \ {p}
  /\ UNCHANGED <<file, owner, jobVars, cached, born, faults>>

Init ==
  /\ file = Empty
  /\ Lock!Init
  /\ op = [t \in Thread |-> NoOp]
  /\ stage = [t \in Thread |-> "idle"]
  /\ copy = [t \in Thread |-> Empty]
  /\ live = [t \in Thread |-> {}]
  /\ cached = [t \in Thread |-> {}]
  /\ born = {} /\ alive = {} /\ faults = 0

\* The next step of a thread in an operation.
Proceed(t) ==
  \/ Load(t) \/ LoadFails(t) \/ Sample(t) \/ SampleFails(t)
  \/ Change(t) \/ Truncate(t) \/ Write(t) \/ Leave(t)

Step(t) ==
  \/ \E o \in Ops : Begin(t, o)
  \/ Proceed(t) \/ Observe(t) \/ WriteFails(t) \/ Crash(t)

Next == \/ \E t \in Thread : Step(t)
        \/ \E p \in Pane : PaneBorn(p) \/ PaneDies(p)

Spec == Init /\ [][Next]_vars

\* A thread that runs an operation is scheduled until it returns.
FairSpec == Spec /\ \A t \in Thread : WF_vars(Proceed(t))

-----------------------------------------------------------------------------
(* Properties.                                                             *)

\* Every variable has its type; only panes that were created are alive.
TypeOK ==
  /\ file \in Registries \union {Torn}
  /\ owner \in [{LockFile} -> Thread \union {Nobody}]
  /\ op \in [Thread -> Ops \union {NoOp}]
  /\ stage \in [Thread -> Stages]
  /\ copy \in [Thread -> Registries]
  /\ live \in [Thread -> SUBSET Pane]
  /\ cached \in [Thread -> SUBSET SUBSET Pane]
  /\ born \subseteq Pane /\ alive \subseteq born
  /\ faults \in Nat

\* When a prune has saved, and until it drops the lock, the file has one entry for
\* a pane at most and none for a pane that was dead when the prune listed the
\* panes; without the CLI's register and unregister, which write meanwhile.
PruneIsThorough ==
  \A t \in Thread : At(t, "leave") /\ op[t] \in PruneOps =>
    /\ file # Torn
    /\ \A k \in Bound(file) : file[k].pane \in live[t]
    /\ \A j, k \in Bound(file) : SamePane(file, j, k) => j = k

\* What an operation is about to save is its result on the registry as it is in
\* the file now: the save undoes no change made since it loaded the file.  Only
\* the CLI's register and unregister, which take no lock, can make it false.
SavesAreCurrent ==
  \A t \in Thread : At(t, "truncate") /\ file # Torn => copy[t] \in Results(op[t], file, live[t])

\* A prune is never about to drop the only entry of a live pane, unless it runs in
\* a snapshot scope or the CLI, which takes no lock, has written since it loaded.
PruneSparesLive ==
  \A t \in Thread : At(t, "truncate") /\ op[t] \in PruneOps /\ file # Torn =>
    \A k \in Bound(file) : file[k].pane \in alive =>
      \E j \in Bound(copy[t]) : copy[t][j].pane = file[k].pane

\* The registry as its callers see it: while it is being written, the new one.
Registry ==
  IF file = Torn /\ \E t \in Thread : At(t, "write")
  THEN copy[CHOOSE t \in Thread : At(t, "write")] ELSE file

Done == {t \in Thread : stage[t] \in {"write", "leave"}}

Callers == INSTANCE AtomicRegistry WITH reg <- Registry, done <- Done

\* Every operation takes effect at one moment: no update of another process is
\* lost, and a prune never drops the only entry of a live pane.  So without the
\* CLI's commands, scopes, and faults between truncation and writing.
ImplementsAtomic == Callers!Spec

\* Every operation returns, whatever state the file was left in.
OperationsReturn == \A t \in Thread : ~At(t, "idle") ~> At(t, "idle")

=============================================================================
