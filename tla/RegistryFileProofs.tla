-------------------------- MODULE RegistryFileProofs --------------------------
(***************************************************************************)
(* Theorems about RegistryFile.  The argument: an operation owns the lock  *)
(* from its first read to its last write, so the file is what it has       *)
(* loaded until it truncates it; and the panes the registry knows of have  *)
(* been created, so a snapshot taken after the registry was loaded cannot  *)
(* miss a live one among them.                                             *)
(***************************************************************************)
EXTENDS RegistryFile, TLAPS

-----------------------------------------------------------------------------
(* What an operation computes from a registry.                             *)

\* The updates of a registry yield registries.
LEMMA UpdatesType ==
  ASSUME NEW r \in Registries
  PROVE  /\ \A j \in Key : With(r, j, NoEntry) \in Registries
         /\ \A j \in Key, e \in Entry : With(r, j, e) \in Registries
         /\ \A p \in Pane, w \in Window : Moved(r, p, w) \in Registries
         /\ \A j \in Key, e \in Entry : Described(r, j, e) \in Registries
         /\ \A S : Only(r, S) \in Registries
<1>1. \A j \in Key, e \in Entry \union {NoEntry} : With(r, j, e) \in Registries
  BY DEF With, Registries
<1>2. \A p \in Pane, w \in Window : Moved(r, p, w) \in Registries
  BY DEF Moved, Bound, Registries, Entry
<1>3. \A j \in Key, e \in Entry : Described(r, j, e) \in Registries
  <2> TAKE j \in Key, e \in Entry
  <2>1. j \in Bound(r) => [r[j] EXCEPT !.started = e.started] \in Entry
    BY DEF Bound, Registries, Entry
  <2> QED BY <1>1, <2>1 DEF Described
<1>4. \A S : Only(r, S) \in Registries
  BY DEF Only, Registries
<1> QED BY <1>1, <1>2, <1>3, <1>4

\* The fields of the operations.
LEMMA OpFields ==
  ASSUME NEW o \in Ops
  PROVE  /\ o \in BindOps \union DescribeOps => o.key \in Key /\ o.entry \in Entry
         /\ o \in UnbindOps => o.key \in Key
         /\ o \in WindowOps => o.pane \in Pane /\ o.window \in Window
         /\ o \in BindOps => o \notin UnbindOps \union WindowOps \union DescribeOps \union PruneOps
         /\ o \in UnbindOps => o \notin BindOps \union WindowOps \union DescribeOps \union PruneOps
         /\ o \in WindowOps => o \notin BindOps \union UnbindOps \union DescribeOps \union PruneOps
         /\ o \in DescribeOps => o \notin BindOps \union UnbindOps \union WindowOps \union PruneOps
BY DEF Ops, BindOps, UnbindOps, WindowOps, DescribeOps, PruneOps

\* The results of an operation, kind by kind.
LEMMA ResultCases ==
  ASSUME NEW o \in Ops, NEW r, NEW A, NEW q \in Results(o, r, A)
  PROVE  \/ o \in BindOps /\ q = With(r, o.key, o.entry)
         \/ o \in UnbindOps /\ q = With(r, o.key, NoEntry)
         \/ o \in WindowOps /\ q = Moved(r, o.pane, o.window)
         \/ o \in DescribeOps /\ q = Described(r, o.key, o.entry)
         \/ o \in PruneOps /\ \E S \in SUBSET Bound(r) : Kept(r, A, S) /\ q = Only(r, S)
<1>1. CASE o \in PruneOps
  BY <1>1 DEF Results
<1>2. CASE o \in BindOps
  BY <1>2, OpFields DEF Results
<1>3. CASE o \in UnbindOps
  BY <1>3, OpFields DEF Results
<1>4. CASE o \in WindowOps
  BY <1>4, OpFields DEF Results
<1>5. CASE o \in DescribeOps
  BY <1>5, OpFields DEF Results
<1> QED BY <1>1, <1>2, <1>3, <1>4, <1>5 DEF Ops

\* An operation on a registry results in a registry.
LEMMA ResultsType ==
  ASSUME NEW o \in Ops, NEW r \in Registries, NEW A, NEW q \in Results(o, r, A)
  PROVE  q \in Registries
BY ResultCases, UpdatesType, OpFields

\* An operation records no pane but that of its own entry.
LEMMA ResultsPanes ==
  ASSUME NEW o \in Ops, NEW r \in Registries, NEW A, NEW q \in Results(o, r, A),
         NEW B, \A k \in Bound(r) : r[k].pane \in B,
         o \in BindOps \union DescribeOps => o.entry.pane \in B
  PROVE  \A k \in Bound(q) : q[k].pane \in B
<1>1. CASE o \in BindOps /\ q = With(r, o.key, o.entry)
  BY <1>1 DEF With, Bound
<1>2. CASE o \in UnbindOps /\ q = With(r, o.key, NoEntry)
  BY <1>2 DEF With, Bound
<1>3. CASE o \in WindowOps /\ q = Moved(r, o.pane, o.window)
  <2>1. \A k \in Bound(q) : k \in Bound(r) /\ r[k] \in Entry
    BY <1>3 DEF Moved, Bound, Registries
  <2>2. \A k \in Bound(q) : q[k].pane = r[k].pane
    BY <1>3, <2>1 DEF Moved, Bound, Entry
  <2> QED BY <2>1, <2>2
<1>4. CASE o \in DescribeOps /\ q = Described(r, o.key, o.entry)
  <2>1. \A k \in Bound(r) : r[k] \in Entry
    BY DEF Bound, Registries
  <2>2. o.key \in Bound(r) => q[o.key].pane = r[o.key].pane
    BY <1>4, <2>1, OpFields DEF Described, With, Entry
  <2>3. o.key \notin Bound(r) => q[o.key] = o.entry
    BY <1>4, OpFields DEF Described, With
  <2>4. \A k \in Key \ {o.key} : q[k] = r[k]
    BY <1>4 DEF Described, With
  <2> QED BY <1>4, <2>2, <2>3, <2>4 DEF Bound
<1>5. CASE o \in PruneOps /\ \E S \in SUBSET Bound(r) : Kept(r, A, S) /\ q = Only(r, S)
  BY <1>5 DEF Only, Bound
<1> QED BY <1>1, <1>2, <1>3, <1>4, <1>5, ResultCases

-----------------------------------------------------------------------------
(* Types, and the panes the registry knows of.                             *)

\* The lock's two actions leave it with one owner or none.
LEMMA LockType ==
  ASSUME owner \in [{LockFile} -> Thread \union {Nobody}], NEW t \in Thread,
         Locked(t) \/ Lock!Release({t}) \/ UNCHANGED owner
  PROVE  owner' \in [{LockFile} -> Thread \union {Nobody}]
BY DEF Locked, Lock!Take, Lock!Release

\* A thread runs an operation exactly when it is not idle.
RunsOp == \A t \in Thread : At(t, "idle") <=> op[t] = NoOp

\* Every action keeps this.
LEMMA RunsInductive == TypeOK /\ RunsOp /\ [Next]_vars => RunsOp'
<1> SUFFICES ASSUME TypeOK, RunsOp, [Next]_vars PROVE RunsOp'
  OBVIOUS
<1> USE DEF RunsOp, TypeOK, At, Goes
<1>1. ASSUME NEW t \in Thread, NEW o \in Ops, Begin(t, o) PROVE RunsOp'
  BY <1>1, FileAssumption DEF Begin
<1>2. ASSUME NEW t \in Thread, Leave(t) \/ Crash(t) PROVE RunsOp'
  BY <1>2 DEF Leave, Crash
<1>3. ASSUME NEW t \in Thread, Load(t) \/ LoadFails(t) \/ Sample(t) \/ SampleFails(t) PROVE RunsOp'
  BY <1>3 DEF Load, LoadFails, Sample, SampleFails
<1>4. ASSUME NEW t \in Thread, Change(t) \/ Truncate(t) \/ Write(t) \/ WriteFails(t) PROVE RunsOp'
  BY <1>4 DEF Change, Truncate, Write, WriteFails
<1>5. ASSUME (\E t \in Thread : Observe(t)) \/ (\E p \in Pane : PaneBorn(p) \/ PaneDies(p))
      PROVE RunsOp'
  BY <1>5 DEF Observe, PaneBorn, PaneDies, jobVars
<1>6. ASSUME UNCHANGED vars PROVE RunsOp'
  BY <1>6 DEF vars, jobVars
<1>7. QED
  BY <1>1, <1>2, <1>3, <1>4, <1>5, <1>6 DEF Next, Step, Proceed

\* Every action keeps the types.
LEMMA TypeInductive == TypeOK /\ RunsOp /\ [Next]_vars => TypeOK'
<1> SUFFICES ASSUME TypeOK, RunsOp, [Next]_vars PROVE TypeOK'
  OBVIOUS
<1> USE DEF Goes, Stages, At
<1>1. ASSUME NEW t \in Thread, NEW o \in Ops, Begin(t, o) PROVE TypeOK'
  <2>1. owner' \in [{LockFile} -> Thread \union {Nobody}]
    BY <1>1, LockType DEF TypeOK, Begin
  <2>2. QED
    BY <1>1, <2>1 DEF TypeOK, Begin
<1>2. ASSUME NEW t \in Thread, Load(t) PROVE TypeOK'
  BY <1>2 DEF TypeOK, Load
<1>3. ASSUME NEW t \in Thread, LoadFails(t) \/ SampleFails(t) PROVE TypeOK'
  BY <1>3 DEF TypeOK, LoadFails, SampleFails
<1>4. ASSUME NEW t \in Thread, Sample(t) \/ Observe(t) PROVE TypeOK'
  <2>1. Samples(t) \subseteq SUBSET Pane
    BY DEF TypeOK, Samples
  <2>2. \A A \in Samples(t) : Remembered(t, A) => cached' \in [Thread -> SUBSET SUBSET Pane]
    BY <2>1 DEF TypeOK, Remembered
  <2>3. CASE Sample(t)
    BY <2>1, <2>2, <2>3 DEF TypeOK, Sample
  <2>4. CASE Observe(t)
    BY <2>2, <2>4 DEF TypeOK, Observe, jobVars
  <2>5. QED
    BY <1>4, <2>3, <2>4
<1>5. ASSUME NEW t \in Thread, Change(t) PROVE TypeOK'
  <2>1. PICK r \in Results(op[t], copy[t], live[t]) : copy' = [copy EXCEPT ![t] = r]
    BY <1>5 DEF Change
  <2>2. op[t] \in Ops
    BY <1>5 DEF Change, RunsOp, TypeOK
  <2>3. r \in Registries
    BY <2>1, <2>2, ResultsType DEF TypeOK
  <2>4. QED
    BY <1>5, <2>1, <2>3 DEF TypeOK, Change
<1>6. ASSUME NEW t \in Thread, Truncate(t) \/ Write(t) \/ WriteFails(t) PROVE TypeOK'
  BY <1>6, FileAssumption DEF TypeOK, Truncate, Write, WriteFails
<1>7. ASSUME NEW t \in Thread, Leave(t) \/ Crash(t) PROVE TypeOK'
  <2>1. owner' \in [{LockFile} -> Thread \union {Nobody}]
    BY <1>7, LockType DEF TypeOK, Leave, Crash
  <2>2. Empty \in Registries
    BY DEF Empty, Registries
  <2>3. QED
    BY <1>7, <2>1, <2>2 DEF TypeOK, Leave, Crash
<1>8. ASSUME NEW p \in Pane, PaneBorn(p) \/ PaneDies(p) PROVE TypeOK'
  BY <1>8 DEF TypeOK, PaneBorn, PaneDies, jobVars
<1>9. ASSUME UNCHANGED vars PROVE TypeOK'
  BY <1>9 DEF TypeOK, vars, jobVars
<1>10. QED
  BY <1>1, <1>2, <1>3, <1>4, <1>5, <1>6, <1>7, <1>8, <1>9 DEF Next, Step, Proceed

\* The program starts with these.
LEMMA InitTypes == Init => TypeOK /\ RunsOp
<1> SUFFICES ASSUME Init PROVE TypeOK /\ RunsOp
  OBVIOUS
<1>1. Empty \in Registries
  BY DEF Empty, Registries
<1>2. QED
  BY <1>1, FileAssumption DEF Init, Lock!Init, TypeOK, RunsOp, Stages, At

\* Every variable has its type in every reachable state, also with threads that
\* do not lock, in scopes, and with crashes.
THEOREM TypeCorrect == Spec => []TypeOK
<1>1. Spec => [](TypeOK /\ RunsOp)
  BY InitTypes, TypeInductive, RunsInductive, PTL DEF Spec
<1>2. QED
  BY <1>1, PTL

-----------------------------------------------------------------------------
(* An operation works on the file as it is.                                *)

\* Whoever runs an operation owns the lock.
OwnsLock == \A t \in Thread : At(t, "idle") \/ owner[LockFile] = t

\* Up to its change a thread has the registry of the file, then the result of
\* its operation on it, and in the end the file is its copy again.
CopyOfFile ==
  \A t \in Thread :
    /\ stage[t] \in {"sample", "change"} => file # Torn /\ copy[t] = file
    /\ At(t, "truncate") => file # Torn /\ copy[t] \in Results(op[t], file, live[t])
    /\ At(t, "write") => file = Torn
    /\ At(t, "leave") => file # Torn /\ copy[t] = file

LockInv == OwnsLock /\ CopyOfFile

\* At most one thread is not idle.
LEMMA OneRuns ==
  ASSUME OwnsLock, NEW t \in Thread, NEW u \in Thread, ~At(t, "idle"), t # u
  PROVE  At(u, "idle")
BY DEF OwnsLock

\* Without threads that do not lock, every action keeps LockInv.
LEMMA LockInductive ==
  ASSUME CliThread = {}
  PROVE  TypeOK /\ LockInv /\ [Next]_vars => LockInv'
<1> SUFFICES ASSUME TypeOK, LockInv, [Next]_vars PROVE OwnsLock' /\ CopyOfFile'
  BY DEF LockInv
<1>0. OwnsLock /\ CopyOfFile
  BY DEF LockInv
<1> USE DEF OwnsLock, CopyOfFile, At, Goes
<1>1. ASSUME NEW t \in Thread, NEW o \in Ops, Begin(t, o) PROVE OwnsLock' /\ CopyOfFile'
  <2>1. owner[LockFile] = Nobody /\ owner' = [owner EXCEPT ![LockFile] = t]
    BY <1>1 DEF Begin, Locked, Lock!Take
  <2>2. \A u \in Thread : stage[u] = "idle"
    BY <2>1, <1>0, FileAssumption
  <2>3. stage' = [stage EXCEPT ![t] = "load"]
    BY <1>1 DEF Begin
  <2>4. \A u \in Thread : stage'[u] = IF u = t THEN "load" ELSE "idle"
    BY <2>2, <2>3 DEF TypeOK
  <2>5. owner'[LockFile] = t
    BY <2>1 DEF TypeOK
  <2>6. QED
    BY <2>4, <2>5
<1>2. ASSUME NEW t \in Thread, Leave(t) \/ Crash(t) PROVE OwnsLock' /\ CopyOfFile'
  <2>1. \A u \in Thread : stage'[u] = "idle"
    BY <1>2, <1>0, OneRuns DEF Leave, Crash, TypeOK
  <2>2. QED
    BY <2>1
<1>3. ASSUME NEW t \in Thread, Proceed(t) \/ WriteFails(t), ~Leave(t) PROVE OwnsLock' /\ CopyOfFile'
  <2>1. ~At(t, "idle")
    BY <1>3 DEF Proceed, Load, LoadFails, Sample, SampleFails, Change, Truncate, Write, WriteFails
  <2>2. \A u \in Thread \ {t} : At(u, "idle")
    BY <2>1, <1>0, OneRuns
  <2>3. owner' = owner /\ \E s \in Stages : stage' = [stage EXCEPT ![t] = s]
    BY <1>3 DEF Proceed, Load, LoadFails, Sample, SampleFails, Change, Truncate, Write, WriteFails,
      Stages
  <2>4. \A u \in Thread \ {t} : stage'[u] = "idle"
    BY <2>2, <2>3 DEF TypeOK
  <2>5. OwnsLock'
    BY <2>1, <2>3, <2>4, <1>0
  <2>6. CopyOfFile'
    <3>1. ASSUME Load(t) PROVE CopyOfFile'
      BY <3>1, <2>4 DEF Load, TypeOK
    <3>2. ASSUME LoadFails(t) \/ SampleFails(t) \/ WriteFails(t) PROVE CopyOfFile'
      BY <3>2, <2>4 DEF LoadFails, SampleFails, WriteFails, TypeOK
    <3>3. ASSUME Sample(t) PROVE CopyOfFile'
      BY <3>3, <2>4, <1>0 DEF Sample, TypeOK
    <3>4. ASSUME Change(t) PROVE CopyOfFile'
      BY <3>4, <2>4, <1>0 DEF Change, TypeOK
    <3>5. ASSUME Truncate(t) PROVE CopyOfFile'
      BY <3>5, <2>4 DEF Truncate, TypeOK
    <3>6. ASSUME Write(t) PROVE CopyOfFile'
      <4>1. file' = copy[t] /\ copy' = copy
        BY <3>6, <1>0 DEF Write
      <4>2. copy[t] # Torn
        BY FileAssumption DEF TypeOK
      <4>3. QED
        BY <3>6, <4>1, <4>2, <2>4 DEF Write, TypeOK
    <3>7. QED
      BY <1>3, <3>1, <3>2, <3>3, <3>4, <3>5, <3>6 DEF Proceed
  <2>7. QED
    BY <2>5, <2>6
<1>4. ASSUME NEW t \in Thread, Observe(t) PROVE OwnsLock' /\ CopyOfFile'
  BY <1>0, <1>4 DEF Observe, jobVars
<1>5. ASSUME NEW p \in Pane, PaneBorn(p) \/ PaneDies(p) PROVE OwnsLock' /\ CopyOfFile'
  BY <1>0, <1>5 DEF PaneBorn, PaneDies, jobVars
<1>6. ASSUME UNCHANGED vars PROVE OwnsLock' /\ CopyOfFile'
  BY <1>0, <1>6 DEF vars, jobVars
<1>7. QED
  BY <1>1, <1>2, <1>3, <1>4, <1>5, <1>6 DEF Next, Step, Proceed

\* The program starts with LockInv.
LEMMA InitLock == Init => LockInv
BY DEF Init, LockInv, OwnsLock, CopyOfFile, At

\* What the inductive invariants say of every reachable state.
LEMMA LockInvariance ==
  ASSUME CliThread = {}
  PROVE  Spec => [](TypeOK /\ RunsOp /\ LockInv)
<1>1. TypeOK /\ RunsOp /\ LockInv /\ [Next]_vars => (TypeOK /\ RunsOp /\ LockInv)'
  BY TypeInductive, RunsInductive, LockInductive
<1>2. QED
  BY <1>1, InitTypes, InitLock, PTL DEF Spec

\* Without the CLI's commands no save undoes a change made since the file was
\* loaded, for any number of threads, keys and panes, and after any crash.
THEOREM NoStaleSave ==
  ASSUME CliThread = {}
  PROVE  Spec => []SavesAreCurrent
<1>1. LockInv => SavesAreCurrent
  BY DEF LockInv, CopyOfFile, SavesAreCurrent, At
<1>2. QED
  BY <1>1, LockInvariance, PTL

-----------------------------------------------------------------------------
(* A prune knows every live pane of the registry.                          *)

\* The panes a registry names have been created.
Known(r) == \A k \in Bound(r) : r[k].pane \in born

\* The registries in the file and in memory, and the entries to be recorded,
\* name panes that have been created.
PanesKnown ==
  /\ file # Torn => Known(file)
  /\ \A t \in Thread : Known(copy[t])
  /\ \A t \in Thread : op[t] \in BindOps \union DescribeOps => op[t].entry.pane \in born

\* The snapshot of a prune has the live panes of the registry it works on.
Covers(A, r) == \A k \in Bound(r) : r[k].pane \in alive => r[k].pane \in A

SnapshotsCover ==
  /\ \A t \in Thread : cached[t] = {}
  /\ \A t \in Thread : op[t] \in PruneOps =>
       /\ At(t, "change") => Covers(live[t], copy[t])
       /\ At(t, "truncate") /\ file # Torn => Covers(live[t], file)

\* Every action keeps PanesKnown.
LEMMA PanesInductive == TypeOK /\ RunsOp /\ PanesKnown /\ [Next]_vars => PanesKnown'
<1> SUFFICES ASSUME TypeOK, RunsOp, PanesKnown, [Next]_vars PROVE PanesKnown'
  OBVIOUS
<1> USE DEF PanesKnown, Known
<1>1. ASSUME NEW t \in Thread, NEW o \in Ops, Begin(t, o) PROVE PanesKnown'
  <2>1. o \in BindOps \union DescribeOps => o.entry.pane \in born
    BY <1>1 DEF Begin, Possible
  <2>2. op' = [op EXCEPT ![t] = o] /\ UNCHANGED <<file, copy, born>>
    BY <1>1 DEF Begin
  <2>3. \A u \in Thread : op'[u] = IF u = t THEN o ELSE op[u]
    BY <2>2 DEF TypeOK
  <2>4. QED
    BY <2>1, <2>2, <2>3
<1>2. ASSUME NEW t \in Thread, Load(t) PROVE PanesKnown'
  <2>1. \A u \in Thread : copy'[u] = IF u = t THEN file ELSE copy[u]
    BY <1>2 DEF Load, TypeOK
  <2>2. file # Torn /\ UNCHANGED <<file, op, born>>
    BY <1>2 DEF Load
  <2>3. QED
    BY <2>1, <2>2
<1>3. ASSUME NEW t \in Thread,
             LoadFails(t) \/ Sample(t) \/ SampleFails(t) \/ Truncate(t) \/ WriteFails(t) \/ Observe(t)
      PROVE PanesKnown'
  BY <1>3 DEF LoadFails, Sample, SampleFails, Truncate, WriteFails, Observe, jobVars
<1>4. ASSUME NEW t \in Thread, Change(t) PROVE PanesKnown'
  <2>1. PICK r \in Results(op[t], copy[t], live[t]) : copy' = [copy EXCEPT ![t] = r]
    BY <1>4 DEF Change
  <2>2. op[t] \in Ops /\ copy[t] \in Registries
    BY <1>4 DEF Change, RunsOp, TypeOK, At
  <2>3. \A k \in Bound(r) : r[k].pane \in born
    BY <2>1, <2>2, ResultsPanes
  <2>4. \A u \in Thread : copy'[u] = IF u = t THEN r ELSE copy[u]
    BY <2>1 DEF TypeOK
  <2>5. UNCHANGED <<file, op, born>>
    BY <1>4 DEF Change
  <2>6. QED
    BY <2>3, <2>4, <2>5
<1>5. ASSUME NEW t \in Thread, Write(t) PROVE PanesKnown'
  <2>1. (file' = copy[t] \/ file' = Torn) /\ UNCHANGED <<copy, op, born>>
    BY <1>5 DEF Write
  <2>2. QED
    BY <2>1
<1>6. ASSUME NEW t \in Thread, Leave(t) \/ Crash(t) PROVE PanesKnown'
  <2>1. Bound(Empty) = {}
    BY DEF Bound, Empty
  <2>2. \A u \in Thread : copy'[u] = IF u = t THEN Empty ELSE copy[u]
    BY <1>6 DEF Leave, Crash, TypeOK
  <2>3. \A u \in Thread : op'[u] = IF u = t THEN NoOp ELSE op[u]
    BY <1>6 DEF Leave, Crash, TypeOK
  <2>4. UNCHANGED <<file, born>>
    BY <1>6 DEF Leave, Crash
  <2>5. NoOp \notin BindOps \union DescribeOps
    BY FileAssumption DEF Ops
  <2>6. QED
    BY <2>1, <2>2, <2>3, <2>4, <2>5
<1>7. ASSUME NEW p \in Pane, PaneBorn(p) \/ PaneDies(p) PROVE PanesKnown'
  <2>1. born \subseteq born' /\ UNCHANGED <<file, copy, op>>
    BY <1>7 DEF PaneBorn, PaneDies, jobVars
  <2>2. QED
    BY <2>1
<1>8. ASSUME UNCHANGED vars PROVE PanesKnown'
  BY <1>8 DEF vars, jobVars
<1>9. QED
  BY <1>1, <1>2, <1>3, <1>4, <1>5, <1>6, <1>7, <1>8 DEF Next, Step, Proceed

\* Without scopes and unlocked writers, every action keeps SnapshotsCover.
LEMMA SnapshotsInductive ==
  ASSUME CliThread = {}, ScopedThread = {}
  PROVE  TypeOK /\ LockInv /\ PanesKnown /\ SnapshotsCover /\ [Next]_vars => SnapshotsCover'
<1> SUFFICES ASSUME TypeOK, LockInv, PanesKnown, SnapshotsCover, [Next]_vars PROVE SnapshotsCover'
  OBVIOUS
<1>0. OwnsLock /\ CopyOfFile
  BY DEF LockInv
<1> USE DEF SnapshotsCover, Covers, At, Goes
<1>1. ASSUME NEW t \in Thread, NEW o \in Ops, Begin(t, o) PROVE SnapshotsCover'
  <2>1. \A u \in Thread : stage'[u] = IF u = t THEN "load" ELSE stage[u]
    BY <1>1 DEF Begin, TypeOK
  <2>2. \A u \in Thread : u # t => op'[u] = op[u]
    BY <1>1 DEF Begin, TypeOK
  <2>3. UNCHANGED <<file, copy, live, cached, alive>>
    BY <1>1 DEF Begin
  <2>4. QED
    BY <2>1, <2>2, <2>3
<1>2. ASSUME NEW t \in Thread, Leave(t) \/ Crash(t) PROVE SnapshotsCover'
  <2>1. \A u \in Thread : stage'[u] = "idle"
    BY <1>2, <1>0, OneRuns DEF Leave, Crash, TypeOK
  <2>2. \A u \in Thread : cached'[u] = {}
    BY <1>2 DEF Leave, Crash, TypeOK
  <2>3. QED
    BY <2>1, <2>2
<1>3. ASSUME NEW t \in Thread, Proceed(t) \/ WriteFails(t), ~Leave(t) PROVE SnapshotsCover'
  <2>1. ~At(t, "idle")
    BY <1>3 DEF Proceed, Load, LoadFails, Sample, SampleFails, Change, Truncate, Write, WriteFails
  <2>2. op' = op /\ alive' = alive /\ \E s \in Stages : stage' = [stage EXCEPT ![t] = s]
    BY <1>3 DEF Proceed, Load, LoadFails, Sample, SampleFails, Change, Truncate, Write, WriteFails,
      Stages
  <2>3. \A u \in Thread \ {t} : stage'[u] = "idle"
    BY <2>1, <2>2, <1>0, OneRuns DEF TypeOK
  <2>4. cached' = cached
    BY <1>3 DEF Proceed, Load, LoadFails, Sample, Remembered, SampleFails, Change, Truncate, Write,
      WriteFails
  <2>5. ASSUME op[t] \in PruneOps, stage'[t] = "change" PROVE Covers(live'[t], copy'[t])
    <3>1. Sample(t)
      BY <1>3, <2>5 DEF Proceed, Load, LoadFails, Sample, SampleFails, Change, Truncate, Write,
        WriteFails, TypeOK
    <3>2. live'[t] = alive
      BY <3>1 DEF Sample, Samples, TypeOK
    <3>3. QED
      BY <2>2, <3>2
  <2>6. ASSUME op[t] \in PruneOps, stage'[t] = "truncate" PROVE Covers(live'[t], file')
    <3>1. Change(t)
      BY <1>3, <2>6 DEF Proceed, Load, LoadFails, Sample, SampleFails, Change, Truncate, Write,
        WriteFails, TypeOK
    <3>2. copy[t] = file /\ UNCHANGED <<file, live>> /\ stage[t] = "change"
      BY <3>1, <1>0 DEF Change, CopyOfFile
    <3>3. QED
      BY <2>2, <2>6, <3>2
  <2>7. QED
    BY <2>2, <2>3, <2>4, <2>5, <2>6
<1>4. ASSUME NEW t \in Thread, Observe(t) PROVE SnapshotsCover'
  BY <1>4 DEF Observe
<1>5. ASSUME NEW p \in Pane, PaneBorn(p) PROVE SnapshotsCover'
  <2>1. p \notin born /\ alive' = alive \union {p} /\ UNCHANGED <<file, jobVars, cached>>
    BY <1>5 DEF PaneBorn
  <2>2. \A t \in Thread : \A k \in Bound(copy[t]) : copy[t][k].pane # p
    BY <2>1 DEF PanesKnown, Known
  <2>3. file # Torn => \A k \in Bound(file) : file[k].pane # p
    BY <2>1 DEF PanesKnown, Known
  <2>4. QED
    BY <2>1, <2>2, <2>3 DEF jobVars
<1>6. ASSUME NEW p \in Pane, PaneDies(p) PROVE SnapshotsCover'
  BY <1>6 DEF PaneDies, jobVars
<1>7. ASSUME UNCHANGED vars PROVE SnapshotsCover'
  BY <1>7 DEF vars, jobVars
<1>8. QED
  BY <1>1, <1>2, <1>3, <1>4, <1>5, <1>6, <1>7 DEF Next, Step, Proceed

\* The program starts with PanesKnown and SnapshotsCover.
LEMMA InitPanes == Init => PanesKnown /\ SnapshotsCover
<1> SUFFICES ASSUME Init PROVE PanesKnown /\ SnapshotsCover
  OBVIOUS
<1>1. Bound(Empty) = {}
  BY DEF Bound, Empty
<1>2. NoOp \notin Ops
  BY FileAssumption
<1>3. QED
  BY <1>1, <1>2 DEF Init, PanesKnown, Known, SnapshotsCover, Covers, At, Ops

IInv == TypeOK /\ RunsOp /\ LockInv /\ PanesKnown /\ SnapshotsCover

\* The inductive invariant holds in every reachable state.
LEMMA Invariance ==
  ASSUME CliThread = {}, ScopedThread = {}
  PROVE  Spec => []IInv
<1>1. Init => IInv
  BY InitTypes, InitLock, InitPanes DEF IInv
<1>2. IInv /\ [Next]_vars => IInv'
  BY TypeInductive, RunsInductive, LockInductive, PanesInductive, SnapshotsInductive DEF IInv
<1>3. QED
  BY <1>1, <1>2, PTL DEF Spec

\* Pruned with a snapshot that covers it, a registry keeps the live panes, one
\* newest entry of each.
LEMMA PruneSpares ==
  ASSUME NEW o \in PruneOps, NEW r, NEW A, Covers(A, r), NEW q \in Results(o, r, A)
  PROVE  \E S \in SUBSET Bound(r) :
           /\ q = Only(r, S)
           /\ \A j, k \in S : SamePane(r, j, k) => j = k
           /\ \A k \in Bound(r) : r[k].pane \in alive =>
                \E j \in S : SamePane(r, j, k) /\ r[j].started >= r[k].started
<1>1. PICK S \in SUBSET Bound(r) : q = Only(r, S) /\ Kept(r, A, S)
  BY DEF Results
<1>2. QED
  BY <1>1 DEF Kept, Covers

\* If all who write take the lock, which register and unregister of the CLI do not,
\* and no prune runs in a snapshot scope: a prune never drops the only entry of a
\* live pane, whatever panes are created and die while it runs.
THEOREM LiveSpared ==
  ASSUME CliThread = {}, ScopedThread = {}
  PROVE  Spec => []PruneSparesLive
<1>1. IInv => PruneSparesLive
  <2> SUFFICES ASSUME IInv, NEW t \in Thread, At(t, "truncate"), op[t] \in PruneOps,
                      NEW k \in Bound(file), file[k].pane \in alive
               PROVE  \E j \in Bound(copy[t]) : copy[t][j].pane = file[k].pane
    BY DEF PruneSparesLive
  <2>0. copy[t] \in Results(op[t], file, live[t]) /\ Covers(live[t], file)
    BY DEF IInv, LockInv, CopyOfFile, SnapshotsCover, At
  <2>1. PICK S \in SUBSET Bound(file) :
          /\ copy[t] = Only(file, S)
          /\ \E j \in S : SamePane(file, j, k)
    BY <2>0, PruneSpares
  <2>2. PICK j \in S : SamePane(file, j, k)
    BY <2>1
  <2>3. copy[t][j] = file[j] /\ j \in Bound(copy[t])
    BY <2>1 DEF Only, Bound
  <2>4. QED
    BY <2>2, <2>3 DEF SamePane
<1>2. QED
  BY <1>1, Invariance, PTL

-----------------------------------------------------------------------------
(* A prune leaves one entry for a pane, and none for a dead one.           *)

Thorough(r, A) ==
  /\ \A k \in Bound(r) : r[k].pane \in A
  /\ \A j, k \in Bound(r) : SamePane(r, j, k) => j = k

\* From its change on a prune has pruned.
PruneDone ==
  \A t \in Thread : op[t] \in PruneOps /\ stage[t] \in {"truncate", "write", "leave"} =>
    Thorough(copy[t], live[t])

\* What a prune computes is thorough.
LEMMA PruneResult ==
  ASSUME NEW o \in PruneOps, NEW r, NEW A, NEW q \in Results(o, r, A)
  PROVE  Thorough(q, A)
<1>1. PICK S \in SUBSET Bound(r) : q = Only(r, S) /\ Kept(r, A, S)
  BY DEF Results
<1>2. \A k \in Bound(q) : k \in S /\ q[k] = r[k]
  BY <1>1 DEF Only, Bound
<1>3. QED
  BY <1>1, <1>2 DEF Kept, Thorough, SamePane

\* Every action keeps PruneDone.
LEMMA PruneDoneInductive == TypeOK /\ PruneDone /\ [Next]_vars => PruneDone'
<1> SUFFICES ASSUME TypeOK, PruneDone, [Next]_vars,
                    NEW u \in Thread, op'[u] \in PruneOps,
                    stage'[u] \in {"truncate", "write", "leave"}
             PROVE  Thorough(copy'[u], live'[u])
  BY DEF PruneDone, Thorough, Bound, SamePane
<1> USE DEF At, Goes
<1>1. ASSUME NEW t \in Thread, NEW o \in Ops, Begin(t, o) PROVE Thorough(copy'[u], live'[u])
  <2>1. u # t /\ op'[u] = op[u] /\ stage'[u] = stage[u]
    BY <1>1 DEF Begin, TypeOK
  <2>2. QED
    BY <1>1, <2>1 DEF Begin, PruneDone
<1>2. ASSUME NEW t \in Thread, Leave(t) \/ Crash(t) PROVE Thorough(copy'[u], live'[u])
  <2>1. u # t
    BY <1>2 DEF Leave, Crash, TypeOK
  <2>2. op'[u] = op[u] /\ stage'[u] = stage[u] /\ copy'[u] = copy[u] /\ live'[u] = live[u]
    BY <1>2, <2>1 DEF Leave, Crash, TypeOK
  <2>3. QED
    BY <2>2 DEF PruneDone
<1>3. ASSUME NEW t \in Thread, Change(t) PROVE Thorough(copy'[u], live'[u])
  <2>1. CASE u = t
    <3>1. PICK r \in Results(op[t], copy[t], live[t]) : copy' = [copy EXCEPT ![t] = r]
      BY <1>3 DEF Change
    <3>2. copy'[t] = r /\ UNCHANGED <<op, live>>
      BY <1>3, <3>1 DEF Change, TypeOK
    <3>3. QED
      BY <2>1, <3>1, <3>2, PruneResult
  <2>2. CASE u # t
    <3>1. stage'[u] = stage[u] /\ copy'[u] = copy[u] /\ UNCHANGED <<op, live>>
      BY <1>3, <2>2 DEF Change, TypeOK
    <3>2. QED
      BY <3>1 DEF PruneDone
  <2>3. QED
    BY <2>1, <2>2
<1>4. ASSUME NEW t \in Thread,
             Load(t) \/ LoadFails(t) \/ Sample(t) \/ SampleFails(t) \/ Truncate(t) \/ Write(t)
             \/ WriteFails(t)
      PROVE Thorough(copy'[u], live'[u])
  <2>1. CASE u = t
    <3>1. stage[u] \in {"truncate", "write", "leave"} /\ UNCHANGED <<op, copy, live>>
      BY <1>4, <2>1 DEF Load, LoadFails, Sample, SampleFails, Truncate, Write, WriteFails, TypeOK
    <3>2. QED
      BY <3>1 DEF PruneDone
  <2>2. CASE u # t
    <3>1. op'[u] = op[u] /\ stage'[u] = stage[u] /\ copy'[u] = copy[u] /\ live'[u] = live[u]
      BY <1>4, <2>2 DEF Load, LoadFails, Sample, SampleFails, Truncate, Write, WriteFails, TypeOK
    <3>2. QED
      BY <3>1 DEF PruneDone
  <2>3. QED
    BY <2>1, <2>2
<1>5. ASSUME (\E t \in Thread : Observe(t)) \/ (\E p \in Pane : PaneBorn(p) \/ PaneDies(p))
             \/ UNCHANGED vars
      PROVE Thorough(copy'[u], live'[u])
  BY <1>5 DEF Observe, PaneBorn, PaneDies, vars, jobVars, PruneDone
<1>6. QED
  BY <1>1, <1>2, <1>3, <1>4, <1>5 DEF Next, Step, Proceed

\* If all who write take the lock: when a prune has saved, no pane of the file has
\* two entries and none was dead when the prune listed the panes.
THEOREM PruneThorough ==
  ASSUME CliThread = {}
  PROVE  Spec => []PruneIsThorough
<1>1. Init => PruneDone
  BY DEF Init, PruneDone
<1>2. TypeOK /\ LockInv /\ PruneDone => PruneIsThorough
  BY DEF LockInv, CopyOfFile, PruneDone, PruneIsThorough, Thorough, At
<1>3. QED
  BY <1>1, <1>2, LockInvariance, PruneDoneInductive, PTL DEF Spec

-----------------------------------------------------------------------------
(* Every operation takes effect at one moment.                             *)

\* The file is torn only while a thread writes it.
TornIsBeingWritten == file = Torn => \E t \in Thread : At(t, "write")

RInv == IInv /\ TornIsBeingWritten

\* Without a fault between truncation and writing, every action keeps this.
LEMMA TornInductive ==
  ASSUME CliThread = {}, TornWrites = FALSE
  PROVE  TypeOK /\ LockInv /\ TornIsBeingWritten /\ [Next]_vars => TornIsBeingWritten'
<1> SUFFICES ASSUME TypeOK, LockInv, TornIsBeingWritten, [Next]_vars, file' = Torn
             PROVE  \E u \in Thread : stage'[u] = "write"
  BY DEF TornIsBeingWritten, At
<1>0. OwnsLock /\ CopyOfFile
  BY DEF LockInv
<1> USE DEF At, Goes, TornIsBeingWritten
<1>1. ASSUME NEW t \in Thread, Truncate(t) PROVE \E u \in Thread : stage'[u] = "write"
  BY <1>1 DEF Truncate, TypeOK
<1>2. ASSUME NEW t \in Thread, Write(t) PROVE FALSE
  BY <1>2, <1>0, FileAssumption DEF Write, CopyOfFile, TypeOK
<1>3. ASSUME file' = file, UNCHANGED stage PROVE \E u \in Thread : stage'[u] = "write"
  BY <1>3
<1>4. ASSUME NEW t \in Thread, file' = file, stage[t] # "write",
             \E s \in Stages : stage' = [stage EXCEPT ![t] = s]
      PROVE \E u \in Thread : stage'[u] = "write"
  BY <1>4 DEF TypeOK
<1>5. ASSUME NEW t \in Thread, NEW o \in Ops, Begin(t, o) PROVE \E u \in Thread : stage'[u] = "write"
  BY <1>4, <1>5 DEF Begin, Stages
<1>6. ASSUME NEW t \in Thread,
             Load(t) \/ LoadFails(t) \/ Sample(t) \/ SampleFails(t) \/ Change(t) \/ Leave(t)
      PROVE \E u \in Thread : stage'[u] = "write"
  <2>1. file' = file /\ stage[t] # "write" /\ \E s \in Stages : stage' = [stage EXCEPT ![t] = s]
    BY <1>6 DEF Load, LoadFails, Sample, SampleFails, Change, Leave, Stages
  <2>2. QED
    BY <1>4, <2>1
<1>7. ASSUME NEW t \in Thread, WriteFails(t) \/ Crash(t) PROVE \E u \in Thread : stage'[u] = "write"
  <2>1. Crash(t) /\ stage[t] # "write"
    BY <1>7 DEF WriteFails, Crash, MayFail
  <2>2. QED
    BY <1>4, <2>1 DEF Crash, Stages
<1>8. ASSUME (\E t \in Thread : Observe(t)) \/ (\E p \in Pane : PaneBorn(p) \/ PaneDies(p))
             \/ UNCHANGED vars
      PROVE \E u \in Thread : stage'[u] = "write"
  BY <1>3, <1>8 DEF Observe, PaneBorn, PaneDies, vars, jobVars
<1>9. QED
  BY <1>1, <1>2, <1>5, <1>6, <1>7, <1>8 DEF Next, Step, Proceed

\* What the callers see: the copy of the thread that writes, else the file.
RegistrySeen ==
  /\ (\A t \in Thread : ~At(t, "write")) => Registry = file /\ file # Torn
  /\ \A t \in Thread : At(t, "write") => Registry = copy[t] /\ file = Torn

\* The mapped registry is the file, or the copy being written to it.
LEMMA RegistryIs == RInv => RegistrySeen
<1> SUFFICES ASSUME RInv PROVE RegistrySeen
  OBVIOUS
<1>1. OwnsLock /\ CopyOfFile
  BY DEF RInv, IInv, LockInv
<1>2. ASSUME \A t \in Thread : ~At(t, "write") PROVE Registry = file /\ file # Torn
  BY <1>2 DEF Registry, RInv, TornIsBeingWritten
<1>3. ASSUME NEW t \in Thread, At(t, "write") PROVE Registry = copy[t] /\ file = Torn
  <2>1. file = Torn
    BY <1>1, <1>3 DEF CopyOfFile
  <2>2. \A u \in Thread : At(u, "write") => u = t
    BY <1>1, <1>3, OneRuns DEF At
  <2>3. (CHOOSE u \in Thread : At(u, "write")) = t
    BY <1>3, <2>2
  <2>4. QED
    BY <1>3, <2>1, <2>3 DEF Registry
<1>4. QED
  BY <1>2, <1>3 DEF RegistrySeen

\* The operators of AtomicRegistry are those of RegistryFile.
LEMMA SameOperators ==
  /\ Callers!Ops = Ops /\ Callers!BindOps = BindOps /\ Callers!UnbindOps = UnbindOps
  /\ Callers!WindowOps = WindowOps /\ Callers!DescribeOps = DescribeOps
  /\ Callers!PruneOps = PruneOps /\ Callers!Empty = Empty
  /\ \A r : Callers!Bound(r) = Bound(r)
  /\ \A r, j, k : Callers!SamePane(r, j, k) <=> SamePane(r, j, k)
  /\ \A r, S : Callers!Only(r, S) = Only(r, S)
  /\ \A r, j, e : Callers!With(r, j, e) = With(r, j, e)
  /\ \A r, j, e : Callers!Described(r, j, e) = Described(r, j, e)
  /\ \A r, p, w : Callers!Moved(r, p, w) = Moved(r, p, w)
BY DEF Callers!Ops, Callers!BindOps, Callers!UnbindOps, Callers!WindowOps, Callers!DescribeOps,
  Callers!PruneOps, Callers!Empty, Callers!Bound, Callers!SamePane, Callers!Only, Callers!With,
  Callers!Described, Callers!Moved, Callers!Entry, Ops, BindOps, UnbindOps, WindowOps,
  DescribeOps, PruneOps, Empty, Bound, SamePane, Only, With, Described, Moved, Entry

\* The effect of an operation on the registry of the file is the promised one.
LEMMA EffectOfResult ==
  ASSUME NEW o \in Ops, NEW r, NEW A, NEW q \in Results(o, r, A),
         o \in PruneOps => Covers(A, r), Registry = r, Registry' = q
  PROVE  Callers!Effect(o)
<1>1. CASE o \in PruneOps
  <2>1. PICK S \in SUBSET Bound(r) :
          /\ q = Only(r, S)
          /\ \A j, k \in S : SamePane(r, j, k) => j = k
          /\ \A k \in Bound(r) : r[k].pane \in alive =>
               \E j \in S : SamePane(r, j, k) /\ r[j].started >= r[k].started
    BY <1>1, PruneSpares
  <2>2. Callers!PruneKeeps(S)
    BY <2>1, SameOperators DEF Callers!PruneKeeps
  <2>3. QED
    BY <1>1, <2>1, <2>2, SameOperators DEF Callers!Effect
<1>2. CASE o \notin PruneOps
  BY <1>2, ResultCases, SameOperators DEF Callers!Effect
<1>3. QED
  BY <1>1, <1>2

\* The program starts as its callers expect.
LEMMA InitRefines == Init => Callers!Init
<1> SUFFICES ASSUME Init PROVE Callers!Init
  OBVIOUS
<1>1. Registry = Empty
  BY DEF Init, Registry, At
<1>2. Done = {}
  BY DEF Init, Done
<1>3. op = [t \in Thread |-> NoOp] /\ alive = {}
  BY DEF Init
<1>4. QED
  BY <1>1, <1>2, <1>3, SameOperators DEF Callers!Init

\* Every step is one its callers expect, or they do not see it.
LEMMA StepRefines ==
  ASSUME TornWrites = FALSE
  PROVE  RInv /\ RegistrySeen /\ RegistrySeen' /\ [Next]_vars => [Callers!Next]_(Callers!vars)
<1> SUFFICES ASSUME RInv, RegistrySeen, RegistrySeen', [Next]_vars
             PROVE  Callers!Next \/ UNCHANGED <<Registry, op, Done, alive>>
  BY DEF Callers!vars
<1>0. /\ TypeOK /\ RunsOp /\ OwnsLock /\ CopyOfFile /\ SnapshotsCover
  BY DEF RInv, IInv, LockInv
<1> USE DEF At, Goes
<1>1. ASSUME NEW t \in Thread, NEW o \in Ops, Begin(t, o) PROVE Callers!Next
  <2>1. \A u \in Thread : stage'[u] = "write" <=> stage[u] = "write"
    BY <1>0, <1>1 DEF Begin, TypeOK
  <2>2. Registry' = Registry
    BY <1>1, <2>1 DEF Begin, RegistrySeen
  <2>3. Done' = Done
    BY <1>1, <1>0 DEF Begin, TypeOK, Done
  <2>4. op[t] = NoOp /\ op' = [op EXCEPT ![t] = o] /\ alive' = alive
    BY <1>0, <1>1 DEF Begin, RunsOp
  <2>5. Callers!Call(t, o)
    BY <2>2, <2>3, <2>4 DEF Callers!Call
  <2>6. QED
    BY <2>5, SameOperators DEF Callers!Next
<1>2. ASSUME NEW t \in Thread,
             Load(t) \/ LoadFails(t) \/ Sample(t) \/ SampleFails(t)
      PROVE UNCHANGED <<Registry, op, Done, alive>>
  <2>1. \A u \in Thread : stage'[u] = "write" <=> stage[u] = "write"
    BY <1>0, <1>2 DEF Load, LoadFails, Sample, SampleFails, TypeOK
  <2>2. \A u \in Thread : At(u, "write") => copy'[u] = copy[u]
    BY <1>0, <1>2 DEF Load, LoadFails, Sample, SampleFails, TypeOK
  <2>3. file' = file /\ op' = op /\ alive' = alive
    BY <1>2 DEF Load, LoadFails, Sample, SampleFails
  <2>4. Registry' = Registry
    BY <2>1, <2>2, <2>3 DEF RegistrySeen
  <2>5. Done' = Done
    BY <1>2, <1>0 DEF Load, LoadFails, Sample, SampleFails, TypeOK, Done
  <2>6. QED
    BY <2>3, <2>4, <2>5
<1>3. ASSUME NEW t \in Thread, Change(t) PROVE Callers!Next \/ UNCHANGED <<Registry, op, Done, alive>>
  <2>1. stage[t] = "change" /\ copy[t] = file /\ UNCHANGED <<file, op, live, alive>>
    BY <1>0, <1>3 DEF Change, CopyOfFile
  <2>2. \A u \in Thread : stage[u] # "write" /\ stage'[u] # "write"
    BY <1>0, <1>3, <2>1, OneRuns DEF Change, TypeOK
  <2>3. Registry = file /\ Registry' = file
    BY <2>1, <2>2 DEF RegistrySeen
  <2>4. CASE stage' = [stage EXCEPT ![t] = "truncate"]
    <3>1. Done' = Done
      BY <1>0, <2>1, <2>4 DEF Done, TypeOK
    <3>2. QED
      BY <2>1, <2>3, <3>1
  <2>5. CASE /\ copy[t] \in Results(op[t], copy[t], live[t])
             /\ stage' = [stage EXCEPT ![t] = "leave"]
    <3>1. op[t] \in Ops
      BY <1>0, <2>1 DEF RunsOp, TypeOK
    <3>2. op[t] \in PruneOps => Covers(live[t], file)
      BY <1>0, <2>1 DEF SnapshotsCover
    <3>3. Callers!Effect(op[t])
      BY <2>1, <2>3, <2>5, <3>1, <3>2, EffectOfResult
    <3>4. Done' = Done \union {t} /\ t \notin Done
      BY <1>0, <2>1, <2>5 DEF Done, TypeOK
    <3>5. Callers!Commit(t)
      BY <2>1, <3>1, <3>3, <3>4, FileAssumption DEF Callers!Commit
    <3>6. QED
      BY <3>5 DEF Callers!Next
  <2>6. QED
    BY <1>3, <2>4, <2>5 DEF Change
<1>4. ASSUME NEW t \in Thread, Truncate(t) PROVE Callers!Next
  <2>1. /\ stage[t] = "truncate" /\ copy[t] \in Results(op[t], file, live[t]) /\ file # Torn
        /\ UNCHANGED <<copy, op, alive>>
    BY <1>0, <1>4 DEF Truncate, CopyOfFile
  <2>2. stage'[t] = "write" /\ \A u \in Thread : stage[u] # "write"
    BY <1>0, <1>4, <2>1, OneRuns DEF Truncate, TypeOK
  <2>3. Registry = file /\ Registry' = copy[t]
    BY <2>1, <2>2 DEF RegistrySeen
  <2>4. op[t] \in Ops
    BY <1>0, <2>1 DEF RunsOp, TypeOK
  <2>5. op[t] \in PruneOps => Covers(live[t], file)
    BY <1>0, <2>1 DEF SnapshotsCover
  <2>6. Callers!Effect(op[t])
    BY <2>1, <2>3, <2>4, <2>5, EffectOfResult
  <2>7. Done' = Done \union {t} /\ t \notin Done
    BY <1>0, <1>4, <2>1 DEF Truncate, Done, TypeOK
  <2>8. Callers!Commit(t)
    BY <2>1, <2>4, <2>6, <2>7, FileAssumption DEF Callers!Commit
  <2>9. QED
    BY <2>8 DEF Callers!Next
<1>5. ASSUME NEW t \in Thread, Write(t) PROVE UNCHANGED <<Registry, op, Done, alive>>
  <2>1. stage[t] = "write" /\ file = Torn /\ UNCHANGED <<copy, op, alive>>
    BY <1>0, <1>5 DEF Write, CopyOfFile
  <2>2. file' = copy[t]
    BY <1>5, <2>1 DEF Write
  <2>3. \A u \in Thread : stage'[u] # "write"
    BY <1>0, <1>5, <2>1, OneRuns DEF Write, TypeOK
  <2>4. Registry = copy[t] /\ Registry' = copy[t]
    BY <2>1, <2>2, <2>3 DEF RegistrySeen
  <2>5. Done' = Done
    BY <1>0, <1>5, <2>1 DEF Write, Done, TypeOK
  <2>6. QED
    BY <2>1, <2>4, <2>5
<1>6. ASSUME NEW t \in Thread, Leave(t) \/ Crash(t) PROVE Callers!Next
  <2>1. stage[t] # "idle" /\ stage[t] # "write" /\ UNCHANGED <<file, alive>>
    BY <1>6 DEF Leave, Crash, MayFail
  <2>2. \A u \in Thread : stage[u] # "write" /\ stage'[u] # "write"
    BY <1>0, <1>6, <2>1, OneRuns DEF Leave, Crash, TypeOK
  <2>3. Registry' = Registry
    BY <2>1, <2>2 DEF RegistrySeen
  <2>4. Done' = Done \ {t}
    BY <1>0, <1>6 DEF Leave, Crash, Done, TypeOK
  <2>5. op[t] # NoOp /\ op' = [op EXCEPT ![t] = NoOp]
    BY <1>0, <1>6, <2>1 DEF RunsOp, Leave, Crash
  <2>6. Callers!Return(t)
    BY <2>1, <2>3, <2>4, <2>5 DEF Callers!Return
  <2>7. QED
    BY <2>6 DEF Callers!Next
<1>7. ASSUME NEW t \in Thread, WriteFails(t) PROVE FALSE
  BY <1>7 DEF WriteFails, MayFail
<1>8. ASSUME NEW t \in Thread, Observe(t) PROVE UNCHANGED <<Registry, op, Done, alive>>
  BY <1>8 DEF Observe, jobVars, Registry, Done
<1>9. ASSUME NEW p \in Pane, PaneBorn(p) \/ PaneDies(p) PROVE Callers!Next
  <2>1. UNCHANGED <<Registry, op, Done>>
    BY <1>9 DEF PaneBorn, PaneDies, jobVars, Registry, Done
  <2>2. alive' \in SUBSET Pane
    BY <1>0, <1>9 DEF PaneBorn, PaneDies, TypeOK
  <2>3. QED
    BY <2>1, <2>2 DEF Callers!Next, Callers!PanesChange
<1>10. ASSUME UNCHANGED vars PROVE UNCHANGED <<Registry, op, Done, alive>>
  BY <1>10 DEF vars, jobVars, Registry, Done
<1>11. QED
  BY <1>1, <1>2, <1>3, <1>4, <1>5, <1>6, <1>7, <1>8, <1>9, <1>10 DEF Next, Step, Proceed

\* Without the CLI's commands, snapshot scopes, and faults between truncation
\* and writing, every operation takes effect at one moment, for any number of
\* threads, keys, panes and crashes.
THEOREM Refinement ==
  ASSUME CliThread = {}, ScopedThread = {}, TornWrites = FALSE
  PROVE  Spec => ImplementsAtomic
<1>1. Init => TornIsBeingWritten
  BY UpdatesType, FileAssumption DEF Init, TornIsBeingWritten, Empty, Registries
<1>2. Spec => []RInv
  <2>1. IInv /\ TornIsBeingWritten /\ [Next]_vars => TornIsBeingWritten'
    BY TornInductive DEF IInv
  <2>2. QED
    BY <1>1, <2>1, Invariance, PTL DEF Spec, RInv
<1>3. RInv /\ RegistrySeen /\ RegistrySeen' /\ [Next]_vars => [Callers!Next]_(Callers!vars)
  BY StepRefines
<1>4. QED
  BY <1>2, <1>3, RegistryIs, InitRefines, PTL DEF Spec, ImplementsAtomic, Callers!Spec

=============================================================================
