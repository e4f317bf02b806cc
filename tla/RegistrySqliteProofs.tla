------------------------- MODULE RegistrySqliteProofs -------------------------
(***************************************************************************)
(* Theorems about RegistrySqlite.  The argument: what an operation has     *)
(* loaded stays the table up to the panes, whatever windows it lacks,      *)
(* until somebody writes the entry of a key without a document.  Two       *)
(* owners of the lock never do it to each other; of the writers without    *)
(* the lock raced keeps account until the transaction begins, and SQLite   *)
(* afterwards.  The actor writes only keys with a document, which do not   *)
(* take their pane from the table.                                         *)
(***************************************************************************)
EXTENDS RegistrySqlite, TLAPS

-----------------------------------------------------------------------------
(* Operations.                                                             *)

\* The kinds of operations exclude each other.
LEMMA OpFields ==
  ASSUME NEW o \in AnyOps
  PROVE  /\ o \in BindOps \union DescribeOps \union RegisterOps => o.key \in Key /\ o.entry \in Entry
         /\ o \in UnbindOps \union LookupOps \union UnregisterOps => o.key \in Key
         /\ o \in WindowOps => o.pane \in Pane /\ o.window \in Window
         /\ o \in SavingOps => o \notin WindowOps \union DescribeOps \union LookupOps
         /\ o \in CliOps => o \notin LockedOps
         /\ o \in WindowOps => o \notin DescribeOps \union LookupOps
         /\ o \in DescribeOps => o \notin LookupOps
         /\ o \in BindOps => o \notin UnbindOps \union PruneOps
         /\ o \in UnbindOps => o \notin PruneOps
         /\ o \in RegisterOps => o \notin UnregisterOps
BY DEF AnyOps, Ops, BindOps, UnbindOps, WindowOps, DescribeOps, PruneOps, LookupOps, LockedOps,
  SavingOps, CliOps, RegisterOps, UnregisterOps

\* What the operations that load and save make of a registry.
LEMMA ResultCases ==
  ASSUME NEW o \in SavingOps, NEW r, NEW A, NEW q \in Changed(o, r, A)
  PROVE  \/ o \in BindOps \union RegisterOps /\ q = With(r, o.key, o.entry)
         \/ o \in UnbindOps \union UnregisterOps /\ q = With(r, o.key, NoEntry)
         \/ o \in PruneOps /\ \E S \in SUBSET Bound(r) : Kept(r, A, S) /\ q = Only(r, S)
<1>0. o \in AnyOps
  BY DEF SavingOps, LockedOps, Ops, AnyOps
<1>1. CASE o \in RegisterOps
  BY <1>0, <1>1, OpFields DEF Changed, CliOps
<1>2. CASE o \in UnregisterOps
  BY <1>0, <1>2, OpFields DEF Changed, CliOps
<1>3. CASE o \in LockedOps
  <2>1. q \in Results(o, r, A)
    BY <1>0, <1>3, OpFields DEF Changed, CliOps
  <2>2. CASE o \in PruneOps
    BY <2>1, <2>2 DEF Results
  <2>3. CASE o \in BindOps
    BY <1>0, <2>1, <2>3, OpFields DEF Results
  <2>4. CASE o \in UnbindOps
    BY <1>0, <2>1, <2>4, OpFields DEF Results
  <2>5. QED
    BY <1>3, <2>2, <2>3, <2>4 DEF LockedOps
<1> QED BY <1>1, <1>2, <1>3 DEF SavingOps, CliOps

\* They make a registry of it.
LEMMA ResultsType ==
  ASSUME NEW o \in SavingOps, NEW r \in Registries, NEW A, NEW q \in Changed(o, r, A)
  PROVE  q \in Registries
<1>0. o \in AnyOps
  BY DEF SavingOps, LockedOps, Ops, AnyOps
<1>1. \A j \in Key, e \in Entry \union {NoEntry} : With(r, j, e) \in Registries
  BY DEF With, Registries
<1>2. \A S : Only(r, S) \in Registries
  BY DEF Only, Registries
<1> QED BY <1>0, <1>1, <1>2, ResultCases, OpFields

-----------------------------------------------------------------------------
(* Types.                                                                  *)

\* A thread at a stage runs an operation that goes through it.
StageFits ==
  \A t \in Thread :
    /\ At(t, "idle") <=> op[t] = NoOp
    /\ stage[t] \in {"documents", "orphans", "change", "list", "write"} => op[t] \in SavingOps
    /\ At(t, "sample") => op[t] \in PruneOps
    /\ stage[t] \in {"windows", "metadata"} => op[t] \in WindowOps
    /\ At(t, "upsert") => op[t] \in DescribeOps
    /\ stage[t] \in {"ask", "ask_rows"} => op[t] \in LookupOps

\* An operation starts at the stage of its kind.
LEMMA FirstStage ==
  ASSUME NEW o \in AnyOps
  PROVE  /\ o \in SavingOps => First(o) = "documents"
         /\ o \in WindowOps => First(o) = "windows"
         /\ o \in DescribeOps => First(o) = "upsert"
         /\ o \in LookupOps => First(o) = "ask"
         /\ o \in SavingOps \union WindowOps \union DescribeOps \union LookupOps
<1>1. o \in SavingOps \union WindowOps \union DescribeOps \union LookupOps
  BY DEF SavingOps, LockedOps, Ops, AnyOps
<1>2. CASE o \in SavingOps
  BY <1>2, OpFields DEF First
<1>3. CASE o \in WindowOps
  BY <1>3, OpFields DEF First
<1>4. CASE o \in DescribeOps
  BY <1>4, OpFields DEF First
<1>5. CASE o \in LookupOps
  BY <1>5, OpFields DEF First
<1> QED BY <1>1, <1>2, <1>3, <1>4, <1>5, OpFields

\* A statement of a lookup replies and returns, or leaves it to the next.
LEMMA LookupReplies ==
  ASSUME NEW t, LookupDocument(t) \/ LookupRow(t)
  PROVE  /\ At(t, "ask") \/ At(t, "ask_rows")
         /\ \/ \E p \in DocPanes(op[t].key) \union RowPanes(op[t].key) \union {NoPane} : Replies(t, p, "leave")
            \/ Replies(t, NoPane, "ask_rows") /\ DocPanes(op[t].key) = {}
<1>1. ASSUME NEW P, Picks(t, P) PROVE \E p \in P \union {NoPane} : Replies(t, p, "leave")
  <2>1. PICK p \in IF P = {} THEN {NoPane} ELSE P : Replies(t, p, "leave")
    BY <1>1 DEF Picks
  <2>2. QED
    BY <2>1
<1>2. CASE LookupDocument(t)
  <2>1. CASE DocPanes(op[t].key) = {}
    BY <1>2, <2>1 DEF LookupDocument
  <2>2. CASE DocPanes(op[t].key) # {}
    <3>1. Picks(t, DocPanes(op[t].key)) /\ At(t, "ask")
      BY <1>2, <2>2 DEF LookupDocument
    <3>2. QED
      BY <1>1, <3>1
  <2>3. QED
    BY <2>1, <2>2
<1>3. CASE LookupRow(t)
  <2>1. Picks(t, RowPanes(op[t].key)) /\ At(t, "ask_rows")
    BY <1>3 DEF LookupRow
  <2>2. QED
    BY <1>1, <2>1
<1>4. QED
  BY <1>2, <1>3

\* Every action keeps StageFits.
LEMMA StageInductive == TypeOK /\ StageFits /\ [Next]_vars => StageFits'
<1> SUFFICES ASSUME TypeOK, StageFits, [Next]_vars PROVE StageFits'
  OBVIOUS
<1> USE DEF StageFits, TypeOK, At, Goes
<1>1. ASSUME NEW t \in Thread, NEW o \in Called, Begin(t, o) PROVE StageFits'
  <2>1. o \in AnyOps /\ o # NoOp
    BY SqliteAssumption
  <2>2. stage' = [stage EXCEPT ![t] = First(o)] /\ op' = [op EXCEPT ![t] = o]
    BY <1>1 DEF Begin
  <2>3. QED
    BY <2>1, <2>2, FirstStage
<1>2. ASSUME NEW t \in Thread, Leave(t) \/ Crash(t) PROVE StageFits'
  BY <1>2 DEF Leave, Crash, Clear
<1>3. ASSUME NEW t \in Thread,
             LoadDocuments(t) \/ LoadOrphans(t) \/ Sample(t) \/ SampleFails(t) \/ Change(t)
      PROVE StageFits'
  BY <1>3 DEF LoadDocuments, LoadOrphans, Sample, SampleFails, Change, SavingOps, LockedOps
<1>4. ASSUME NEW t \in Thread, LookupDocument(t) \/ LookupRow(t) PROVE StageFits'
  <2>1. At(t, "ask") \/ At(t, "ask_rows")
    BY <1>4, LookupReplies
  <2>2. op' = op /\ (Goes(t, "leave") \/ Goes(t, "ask_rows"))
    BY <1>4, LookupReplies DEF Replies
  <2>3. QED
    BY <2>1, <2>2
<1>5. ASSUME NEW t \in Thread, WindowOfDocuments(t) \/ WindowOfRows(t) \/ Upsert(t)
      PROVE StageFits'
  BY <1>5 DEF WindowOfDocuments, WindowOfRows, Upsert
<1>6. ASSUME NEW t \in Thread, List(t) \/ Write(t) \/ WriteOvertaken(t) PROVE StageFits'
  BY <1>6 DEF List, Write, WriteOvertaken
<1>7. ASSUME (\E k \in ActorKey, d \in ActorDocs : ActorWrites(k, d)) \/ (\E p \in Pane : PaneDies(p))
      PROVE StageFits'
  BY <1>7 DEF ActorWrites, PaneDies, jobVars
<1>8. ASSUME UNCHANGED vars PROVE StageFits'
  BY <1>8 DEF vars, jobVars
<1>9. QED
  BY <1>1, <1>2, <1>3, <1>4, <1>5, <1>6, <1>7, <1>8 DEF Next, Step

\* Every action keeps the types.
LEMMA TypeInductive == TypeOK /\ StageFits /\ [Next]_vars => TypeOK'
<1> SUFFICES ASSUME TypeOK, StageFits, [Next]_vars PROVE TypeOK'
  OBVIOUS
<1> USE DEF At, Goes, Stages
<1>1. ASSUME NEW t \in Thread, NEW o \in Called, Begin(t, o) PROVE TypeOK'
  <2>1. o \in AnyOps
    BY SqliteAssumption
  <2>2. owner' \in [{LockFile} -> Thread \union {Nobody}]
    BY <1>1 DEF Begin, Locked, Lock!Take, TypeOK
  <2>3. First(o) \in Stages
    BY <2>1, FirstStage
  <2>4. QED
    BY <1>1, <2>1, <2>2, <2>3 DEF Begin, TypeOK, tables
<1>2. ASSUME NEW t \in Thread, Leave(t) \/ Crash(t) PROVE TypeOK'
  <2>1. owner' \in [{LockFile} -> Thread \union {Nobody}]
    BY <1>2 DEF Leave, Crash, Clear, Lock!Release, TypeOK
  <2>2. Empty \in Registries
    BY DEF Empty, Registries
  <2>3. QED
    BY <1>2, <2>1, <2>2 DEF Leave, Crash, Clear, TypeOK, tables
<1>3. ASSUME NEW t \in Thread, LoadDocuments(t) PROVE TypeOK'
  <2>1. \A k \in Key : Live(k) => Joined(k) \in Entry
    BY DEF TypeOK, Live, Joined, Doc, Registries, Entry
  <2>2. [k \in Key |-> IF Live(k) THEN Joined(k) ELSE NoEntry] \in Registries
    BY <2>1 DEF Registries
  <2>3. QED
    BY <1>3, <2>2 DEF LoadDocuments, TypeOK, tables
<1>4. ASSUME NEW t \in Thread, LoadOrphans(t) PROVE TypeOK'
  <2>1. [k \in Key |-> IF Orphan(k) THEN rows[k] ELSE copy[t][k]] \in Registries
    BY DEF TypeOK, Registries
  <2>2. QED
    BY <1>4, <2>1 DEF LoadOrphans, TypeOK, tables
<1>5. ASSUME NEW t \in Thread, LookupDocument(t) \/ LookupRow(t) PROVE TypeOK'
  <2>1. \A n : DocPanes(n) \subseteq Pane /\ RowPanes(n) \subseteq Pane
    BY DEF DocPanes, RowPanes, TypeOK, Live, Orphan, Doc, Registries, Entry
  <2>2. ASSUME NEW p \in Pane \union {NoPane}, NEW s \in {"leave", "ask_rows"}, Replies(t, p, s)
        PROVE  TypeOK'
    BY <2>2 DEF Replies, TypeOK, tables
  <2>3. QED
    BY <1>5, <2>1, <2>2, LookupReplies
<1>6. ASSUME NEW t \in Thread, WindowOfDocuments(t) PROVE TypeOK'
  <2>1. op[t].window \in Window
    BY <1>6, OpFields DEF WindowOfDocuments, StageFits, TypeOK
  <2>2. \A k \in Key : Live(k) => [docs[k] EXCEPT !.window = op[t].window] \in Doc
    BY <2>1 DEF TypeOK, Live, Doc
  <2>3. docs' \in [Key -> Doc \union {NoRow}]
    BY <1>6, <2>2 DEF WindowOfDocuments, TypeOK
  <2>4. QED
    BY <1>6, <2>3 DEF WindowOfDocuments, Overtakes, TypeOK
<1>7. ASSUME NEW t \in Thread, WindowOfRows(t) PROVE TypeOK'
  <2>1. op[t].window \in Window
    BY <1>7, OpFields DEF WindowOfRows, StageFits, TypeOK
  <2>2. \A k \in Bound(rows) : [rows[k] EXCEPT !.window = op[t].window] \in Entry
    BY <2>1 DEF TypeOK, Bound, Registries, Entry
  <2>3. rows' \in Registries
    BY <1>7, <2>2 DEF WindowOfRows, Moved, TypeOK, Registries
  <2>4. QED
    BY <1>7, <2>3 DEF WindowOfRows, Overtakes, TypeOK
<1>8. ASSUME NEW t \in Thread, Upsert(t) PROVE TypeOK'
  <2>1. op[t].key \in Key /\ op[t].entry \in Entry
    BY <1>8, OpFields DEF Upsert, StageFits, TypeOK
  <2>2. rows' \in Registries
    BY <1>8, <2>1 DEF Upsert, With, TypeOK, Registries
  <2>3. QED
    BY <1>8, <2>2 DEF Upsert, Overtakes, Races, TypeOK
<1>9. ASSUME NEW t \in Thread, Sample(t) \/ SampleFails(t) PROVE TypeOK'
  BY <1>9 DEF Sample, SampleFails, TypeOK, tables
<1>10. ASSUME NEW t \in Thread, Change(t) PROVE TypeOK'
  <2>1. op[t] \in SavingOps /\ copy[t] \in Registries
    BY <1>10 DEF Change, StageFits, TypeOK
  <2>2. \A r \in Changed(op[t], copy[t], live[t]) : r \in Registries
    BY <2>1, ResultsType
  <2>3. QED
    BY <1>10, <2>2 DEF Change, TypeOK, tables
<1>11. ASSUME NEW t \in Thread, List(t) \/ Write(t) \/ WriteOvertaken(t) PROVE TypeOK'
  BY <1>11 DEF List, Write, WriteOvertaken, Races, TypeOK, tables
<1>12. ASSUME NEW k \in ActorKey, NEW d \in ActorDocs, ActorWrites(k, d) PROVE TypeOK'
  BY <1>12, SqliteAssumption DEF ActorWrites, Overtakes, TypeOK, jobVars
<1>13. ASSUME NEW p \in Pane, PaneDies(p) PROVE TypeOK'
  BY <1>13 DEF PaneDies, TypeOK, jobVars, tables
<1>14. ASSUME UNCHANGED vars PROVE TypeOK'
  BY <1>14 DEF vars, TypeOK, jobVars, tables
<1>15. QED
  BY <1>1, <1>2, <1>3, <1>4, <1>5, <1>6, <1>7, <1>8, <1>9, <1>10, <1>11, <1>12, <1>13, <1>14
    DEF Next, Step

\* The databases start empty and the threads idle.
LEMMA InitTypes == Init => TypeOK /\ StageFits
<1> SUFFICES ASSUME Init PROVE TypeOK /\ StageFits
  OBVIOUS
<1>1. Empty \in Registries
  BY DEF Empty, Registries
<1>2. QED
  BY <1>1, SqliteAssumption DEF Init, Lock!Init, TypeOK, StageFits, Stages, At

\* Every variable has its type in every reachable state, with the actor writing
\* at any moment, overtaken transactions and crashes.
THEOREM TypeCorrect == Spec => []TypeOK
<1>1. Spec => [](TypeOK /\ StageFits)
  BY InitTypes, TypeInductive, StageInductive, PTL DEF Spec
<1>2. QED
  BY <1>1, PTL

-----------------------------------------------------------------------------
(* The copy of an operation that owns the lock.                            *)

\* The stages between the first read and the save.
Loaded == {"orphans", "sample", "change", "list", "write"}

OwnsLock ==
  \A t \in Thread :
    stage[t] \in Loaded \union {"documents"} /\ op[t] \in LockedOps => owner[LockFile] = t

\* The pane of an entry.
PaneIn(e) == IF e = NoEntry THEN NoPane ELSE e.pane

\* Nobody has overtaken what t has loaded.
Current(t) == t \notin raced /\ (At(t, "write") => t \notin stale)

\* The copy of an operation other than a prune has the panes of the table for all
\* keys that have no document, but for its own.
HasOthers(t) ==
  \A k \in Key :
    docs[k] = NoRow =>
      /\ At(t, "orphans") => copy[t][k] = NoEntry
      /\ stage[t] \in {"change", "list", "write"} /\ op[t] \notin PruneOps /\ k # op[t].key
           => (Current(t) => PaneIn(copy[t][k]) = PaneIn(rows[k]))

\* As long as the actor does not write, the copy of a prune has the panes of the
\* keys until it is changed, and one entry of each live one after that.
PruneKnows(t) ==
  /\ At(t, "orphans") => \A k \in Key : docs[k] # NoRow => PaneIn(copy[t][k]) = PaneOf(k)
  /\ stage[t] \in {"sample", "change"} /\ op[t] \in PruneOps =>
       \A k \in Key : PaneIn(copy[t][k]) = PaneOf(k)
  /\ At(t, "change") /\ op[t] \in PruneOps => alive \subseteq live[t]
  /\ stage[t] \in {"list", "write"} /\ op[t] \in PruneOps =>
       /\ \A k \in Key : copy[t][k] # NoEntry => copy[t][k].pane = PaneOf(k)
       /\ \A k \in Key : PaneOf(k) \in alive =>
            \E j \in Key : copy[t][j] # NoEntry /\ copy[t][j].pane = PaneOf(k)

\* As long as the actor does not write, no document a lookup has asked for in
\* vain is live.
AskedInVain(t) == At(t, "ask_rows") => DocPanes(op[t].key) = {}

\* What is known of thread t.
Knows(t) ==
  /\ stage[t] \in Loaded \union {"documents"} /\ op[t] \in LockedOps => owner[LockFile] = t
  /\ HasOthers(t)
  /\ t \notin moved /\ Current(t) => PruneKnows(t)
  /\ t \notin moved => AskedInVain(t)

SqliteInv == \A t \in Thread : Knows(t)

\* A step leaves the documents as they are, up to their windows, and the panes of
\* the keys that have none.
DocsKept ==
  /\ \A k \in Key : /\ docs'[k] = NoRow <=> docs[k] = NoRow
                    /\ docs[k] # NoRow => PaneOf(k)' = PaneOf(k)
  /\ \A n : DocPanes(n)' = DocPanes(n)

RowsKept == \A k \in Key : docs[k] = NoRow => PaneIn(rows'[k]) = PaneIn(rows[k])

Same(t) == /\ stage'[t] = stage[t] /\ op'[t] = op[t]
           /\ copy'[t] = copy[t] /\ live'[t] = live[t]

\* An entry of the database has a pane, which is not NoPane.
LEMMA Panes ==
  ASSUME TypeOK
  PROVE  /\ \A k \in Key : rows[k] # NoEntry => rows[k].pane \in Pane
         /\ \A k \in Key : docs[k] # NoRow => docs[k].pane \in Pane
         /\ \A t \in Thread, k \in Key : copy[t][k] # NoEntry => copy[t][k].pane \in Pane
BY DEF TypeOK, Registries, Entry, Doc

\* The pane of a key, without CASE.
LEMMA PaneOfIs ==
  ASSUME NEW k \in Key
  PROVE  PaneOf(k) = IF docs[k] = NoRow THEN PaneIn(rows[k])
                     ELSE IF docs[k].closed THEN NoPane ELSE docs[k].pane
<1>1. CASE docs[k] # NoRow
  BY <1>1 DEF PaneOf
<1>2. CASE docs[k] = NoRow /\ rows[k] # NoEntry
  BY <1>2 DEF PaneOf, PaneIn
<1>3. CASE docs[k] = NoRow /\ rows[k] = NoEntry
  BY <1>3 DEF PaneOf, PaneIn
<1>4. QED
  BY <1>1, <1>2, <1>3

\* ... and after a step.
LEMMA PaneOfIsThen ==
  ASSUME NEW k \in Key
  PROVE  PaneOf(k)' = IF docs'[k] = NoRow THEN PaneIn(rows'[k])
                      ELSE IF docs'[k].closed THEN NoPane ELSE docs'[k].pane
<1>1. CASE docs'[k] # NoRow
  BY <1>1 DEF PaneOf
<1>2. CASE docs'[k] = NoRow /\ rows'[k] # NoEntry
  BY <1>2 DEF PaneOf, PaneIn
<1>3. CASE docs'[k] = NoRow /\ rows'[k] = NoEntry
  BY <1>3 DEF PaneOf, PaneIn
<1>4. QED
  BY <1>1, <1>2, <1>3

\* Documents that keep panes, stamps and states are kept.
LEMMA KeepDocs ==
  ASSUME \A k \in Key : /\ docs'[k] = NoRow <=> docs[k] = NoRow
                        /\ docs[k] # NoRow => /\ docs'[k].pane = docs[k].pane
                                              /\ docs'[k].started = docs[k].started
                                              /\ docs'[k].closed = docs[k].closed
  PROVE  DocsKept
<1>1. \A k \in Key : docs[k] # NoRow => PaneOf(k)' = PaneOf(k)
  BY PaneOfIs, PaneOfIsThen
<1>2. ASSUME NEW n PROVE DocPanes(n)' = DocPanes(n)
  <2>1. \A k \in Key : /\ Live(k)' <=> Live(k)
                       /\ Live(k) => (Named(k, docs'[k], n) <=> Named(k, docs[k], n))
    BY DEF Live, Named
  <2>2. \A k \in Key : Live(k) => docs'[k].pane = docs[k].pane
    BY DEF Live
  <2>3. {k \in Key : Live(k)' /\ Named(k, docs'[k], n)} = {k \in Key : Live(k) /\ Named(k, docs[k], n)}
    BY <2>1
  <2>4. QED
    BY <2>2, <2>3 DEF DocPanes, Named
<1>3. QED
  BY <1>1, <1>2 DEF DocsKept

\* A step that writes no table binds no key anew.
LEMMA NothingWritten == UNCHANGED <<docs, rows>> => DocsKept /\ RowsKept
BY KeepDocs DEF RowsKept

\* Neither does an update of windows.
LEMMA WindowsKeepBindings ==
  ASSUME TypeOK, StageFits, NEW t \in Thread, WindowOfDocuments(t) \/ WindowOfRows(t)
  PROVE  DocsKept /\ RowsKept
<1>1. CASE WindowOfDocuments(t)
  <2> DEFINE new(k) == [docs[k] EXCEPT !.window = op[t].window]
  <2>1. \A k \in Key : docs[k] # NoRow => /\ new(k) \in Doc
                                          /\ new(k).pane = docs[k].pane
                                          /\ new(k).started = docs[k].started
                                          /\ new(k).closed = docs[k].closed
    <3>1. op[t].window \in Window
      BY <1>1, OpFields DEF WindowOfDocuments, StageFits, TypeOK, At
    <3>2. QED
      BY <3>1 DEF TypeOK, Doc
  <2>2. \A k \in Key : docs'[k] = docs[k] \/ (docs[k] # NoRow /\ docs'[k] = new(k))
    BY <1>1 DEF WindowOfDocuments, Live
  <2>3. rows' = rows
    BY <1>1 DEF WindowOfDocuments
  <2> HIDE DEF new
  <2>4. DocsKept
    BY <2>1, <2>2, KeepDocs, SqliteAssumption
  <2>5. QED
    BY <2>3, <2>4 DEF RowsKept
<1>2. CASE WindowOfRows(t)
  <2> DEFINE new(k) == [rows[k] EXCEPT !.window = op[t].window]
  <2>1. \A k \in Key : rows[k] # NoEntry => new(k) \in Entry /\ new(k).pane = rows[k].pane
    <3>1. op[t].window \in Window
      BY <1>2, OpFields DEF WindowOfRows, StageFits, TypeOK, At
    <3>2. QED
      BY <3>1 DEF TypeOK, Registries, Entry
  <2>2. \A k \in Key : rows'[k] = rows[k] \/ (rows[k] # NoEntry /\ rows'[k] = new(k))
    BY <1>2 DEF WindowOfRows, Moved, Bound
  <2>3. docs' = docs
    BY <1>2 DEF WindowOfRows
  <2>4. NoEntry \notin Entry
    BY MapAssumption DEF Entry
  <2> HIDE DEF new
  <2>5. \A k \in Key : PaneIn(rows'[k]) = PaneIn(rows[k])
    BY <2>1, <2>2, <2>4 DEF PaneIn
  <2>6. QED
    BY <2>3, <2>5, KeepDocs DEF RowsKept
<1>3. QED
  BY <1>1, <1>2

\* What a thread knows it still knows after a step of others that keeps the
\* documents and, while its copy is current, the entries.
LEMMA KnowsStays ==
  ASSUME TypeOK, StageFits, NEW t \in Thread, Knows(t), Same(t), DocsKept,
         RowsKept \/ (stage[t] \in {"sample", "change", "list", "write"} => ~Current(t)'),
         stage[t] \in Loaded \union {"documents"} /\ op[t] \in LockedOps => owner'[LockFile] = t,
         t \notin moved' => t \notin moved, Current(t)' => Current(t), alive' \subseteq alive
  PROVE  Knows(t)'
<1> USE DEF At
<1>1. stage'[t] \in Loaded \union {"documents"} /\ op'[t] \in LockedOps => owner'[LockFile] = t
  BY DEF Same
<1>2. HasOthers(t)'
  <2>1. ASSUME NEW k \in Key, docs'[k] = NoRow, stage'[t] = "orphans" PROVE copy'[t][k] = NoEntry
    BY <2>1 DEF Same, DocsKept, Knows, HasOthers
  <2>2. ASSUME NEW k \in Key, docs'[k] = NoRow, stage'[t] \in {"change", "list", "write"},
               op'[t] \notin PruneOps, k # op'[t].key, Current(t)'
        PROVE  PaneIn(copy'[t][k]) = PaneIn(rows'[k])
    <3>1. docs[k] = NoRow /\ stage[t] \in {"change", "list", "write"} /\ op[t] \notin PruneOps /\ k # op[t].key
      BY <2>2 DEF Same, DocsKept
    <3>2. PaneIn(copy[t][k]) = PaneIn(rows[k])
      BY <2>2, <3>1 DEF Knows, HasOthers
    <3>3. RowsKept
      BY <2>2, <3>1
    <3>4. QED
      BY <3>1, <3>2, <3>3 DEF Same, RowsKept
  <2>3. QED
    BY <2>1, <2>2 DEF HasOthers
<1>3. ASSUME t \notin moved', Current(t)' PROVE PruneKnows(t)'
  <2>1. PruneKnows(t)
    BY <1>3 DEF Knows
  <2>2. \A k \in Key : /\ docs'[k] # NoRow <=> docs[k] # NoRow
                       /\ docs[k] # NoRow => PaneOf(k)' = PaneOf(k)
    BY DEF DocsKept
  <2>3. stage'[t] = stage[t] /\ op'[t] = op[t] /\ copy'[t] = copy[t] /\ live'[t] = live[t]
    BY DEF Same
  <2>4. CASE stage[t] \in {"sample", "change", "list", "write"}
    <3>1. \A k \in Key : docs[k] = NoRow => PaneIn(rows'[k]) = PaneIn(rows[k])
      BY <1>3, <2>4 DEF RowsKept
    <3>2. \A k \in Key : PaneOf(k)' = PaneOf(k)
      BY <2>2, <3>1, PaneOfIs, PaneOfIsThen
    <3>3. QED
      BY <2>1, <2>3, <2>4, <3>2 DEF PruneKnows
  <2>5. CASE stage[t] \notin {"sample", "change", "list", "write"}
    BY <2>1, <2>2, <2>3, <2>5 DEF PruneKnows
  <2>6. QED
    BY <2>4, <2>5
<1>4. ASSUME t \notin moved' PROVE AskedInVain(t)'
  <2>1. AskedInVain(t)
    BY <1>4 DEF Knows
  <2>2. stage'[t] = stage[t] /\ op'[t] = op[t]
    BY DEF Same
  <2>3. DocPanes(op[t].key)' = DocPanes(op[t].key)
    BY <2>2 DEF DocsKept
  <2>4. QED
    BY <2>1, <2>2, <2>3 DEF AskedInVain, DocsKept
<1>5. QED
  BY <1>1, <1>2, <1>3, <1>4 DEF Knows

\* ... in particular when one thread t writes no table.
LEMMA OthersKnow ==
  ASSUME TypeOK, StageFits, SqliteInv, NEW t \in Thread,
         stage' = [stage EXCEPT ![t] = stage'[t]], op' = [op EXCEPT ![t] = op'[t]],
         copy' = [copy EXCEPT ![t] = copy'[t]], live' = [live EXCEPT ![t] = live'[t]],
         DocsKept, RowsKept, \A u \in Thread \ {t} : owner[LockFile] = u => owner'[LockFile] = u,
         \A u \in Thread \ {t} : /\ u \notin moved' => u \notin moved
                                 /\ u \notin raced' => u \notin raced
                                 /\ u \notin stale' => u \notin stale,
         alive' = alive
  PROVE  \A u \in Thread \ {t} : Knows(u)'
<1> TAKE u \in Thread \ {t}
<1>1. Same(u)
  BY DEF TypeOK, Same
<1>2. Knows(u)
  BY DEF SqliteInv
<1>3. Current(u)' => Current(u)
  BY <1>1 DEF Current, Same, At
<1>4. QED
  BY <1>1, <1>2, <1>3, KnowsStays DEF Knows

\* ... or when it writes entries: whoever has loaded them is overtaken, but for
\* those the lock keeps away.
LEMMA OvertakenKnow ==
  ASSUME TypeOK, StageFits, SqliteInv, NEW t \in Thread, Races(t),
         op[t] \in LockedOps => owner[LockFile] = t,
         \A u \in Thread \ {t} : u \in stale \/ At(u, "write") => u \in stale',
         stage' = [stage EXCEPT ![t] = stage'[t]],
         UNCHANGED <<docs, owner, op, copy, live, moved, alive>>
  PROVE  \A u \in Thread \ {t} : Knows(u)'
<1> TAKE u \in Thread \ {t}
<1>1. Same(u) /\ Knows(u)
  BY DEF TypeOK, Same, SqliteInv
<1>2. DocsKept
  BY KeepDocs
<1>3. raced \subseteq raced'
  BY DEF Races
<1>4. Current(u)' => Current(u)
  BY <1>1, <1>3 DEF Current, Same, At
<1>5. stage[u] \in {"sample", "change", "list", "write"} => ~Current(u)'
  <2>1. CASE stage[u] = "write"
    BY <1>1, <2>1 DEF Current, Same, At
  <2>2. CASE stage[u] \in {"sample", "change", "list"}
    <3>1. ~(op[t] \in LockedOps /\ op[u] \in LockedOps)
      BY <1>1, <2>2 DEF Knows, Loaded
    <3>2. u \in raced'
      BY <2>2, <3>1 DEF Races
    <3>3. QED
      BY <3>2 DEF Current
  <2>3. QED
    BY <2>1, <2>2
<1>6. stage[u] \in Loaded \union {"documents"} /\ op[u] \in LockedOps => owner'[LockFile] = u
  BY <1>1 DEF Knows
<1>7. QED
  BY <1>1, <1>2, <1>4, <1>5, <1>6, KnowsStays

-----------------------------------------------------------------------------
(* Every action keeps SqliteInv.                                           *)

\* An operation begins: one that loads and saves finds nobody else at it.
LEMMA BeginKnows ==
  ASSUME TypeOK, StageFits, SqliteInv, NEW t \in Thread, NEW o \in Called, Begin(t, o)
  PROVE  SqliteInv'
<1> USE DEF At, Goes
<1>0. o \in AnyOps /\ Nobody \notin Thread
  BY SqliteAssumption
<1>1. /\ stage' = [stage EXCEPT ![t] = First(o)] /\ op' = [op EXCEPT ![t] = o]
      /\ copy' = copy /\ live' = live /\ moved' = moved /\ alive' = alive
      /\ docs' = docs /\ rows' = rows /\ stale' = stale /\ raced' = raced
  BY DEF Begin, tables
<1>2. o \in LockedOps => owner[LockFile] = Nobody /\ owner'[LockFile] = t
  BY DEF Begin, Locked, Lock!Take, TypeOK
<1>3. o \notin LockedOps => owner' = owner
  BY DEF Begin, Locked
<1>4. \A u \in Thread \ {t} : Knows(u)'
  <2>1. \A u \in Thread : owner[LockFile] = u => owner'[LockFile] = u
    BY <1>0, <1>2, <1>3
  <2>2. DocsKept /\ RowsKept
    BY <1>1, NothingWritten
  <2>3. QED
    BY <1>1, <2>1, <2>2, OthersKnow DEF TypeOK
<1>5. Knows(t)'
  <2>1. stage'[t] = First(o) /\ op'[t] = o
    BY <1>1 DEF TypeOK
  <2>2. First(o) \in {"documents", "windows", "upsert", "ask"}
    BY <1>0, FirstStage
  <2>3. QED
    BY <1>2, <2>1, <2>2 DEF Knows, HasOthers, Loaded, PruneKnows, AskedInVain
<1>6. QED
  BY <1>4, <1>5 DEF SqliteInv

\* The two queries of a load.
LEMMA LoadKnows ==
  ASSUME TypeOK, StageFits, SqliteInv, NEW t \in Thread, LoadDocuments(t) \/ LoadOrphans(t)
  PROVE  SqliteInv'
<1> USE DEF At, Goes
<1>1. /\ docs' = docs /\ rows' = rows /\ owner' = owner /\ op' = op
      /\ live' = live /\ moved' = moved /\ alive' = alive
      /\ stale' = stale /\ raced' = raced
      /\ stage' = [stage EXCEPT ![t] = stage'[t]] /\ copy' = [copy EXCEPT ![t] = copy'[t]]
  BY DEF LoadDocuments, LoadOrphans, tables, TypeOK
<1>2. \A k \in Key : PaneOf(k)' = PaneOf(k)
  BY <1>1, PaneOfIs, PaneOfIsThen
<1>3. \A u \in Thread \ {t} : Knows(u)'
  BY <1>1, NothingWritten, OthersKnow DEF TypeOK
<1>4. /\ op[t] \in LockedOps => owner'[LockFile] = t
      /\ Knows(t) /\ (Current(t)' => Current(t))
  BY <1>1 DEF LoadDocuments, LoadOrphans, Knows, Current, Loaded, SqliteInv
<1>5. CASE LoadDocuments(t)
  <2>1. stage'[t] = "orphans"
    BY <1>5 DEF LoadDocuments, TypeOK
  <2>2. \A k \in Key : copy'[t][k] = IF Live(k) THEN Joined(k) ELSE NoEntry
    BY <1>5 DEF LoadDocuments, TypeOK
  <2>3. \A k \in Key : Live(k) => Joined(k) # NoEntry /\ Joined(k).pane = docs[k].pane
    BY MapAssumption DEF TypeOK, Live, Joined, Doc, Registries, Entry
  <2>4. \A k \in Key : docs[k] = NoRow => copy'[t][k] = NoEntry
    BY <2>2 DEF Live
  <2>5. \A k \in Key : docs[k] # NoRow => PaneIn(copy'[t][k]) = PaneOf(k)
    BY <2>2, <2>3, PaneOfIs DEF Live, PaneIn
  <2>6. Knows(t)'
    BY <1>1, <1>2, <1>4, <2>1, <2>4, <2>5 DEF Knows, HasOthers, PruneKnows, AskedInVain, Loaded
  <2>7. QED
    BY <1>3, <2>6 DEF SqliteInv
<1>6. CASE LoadOrphans(t)
  <2>1. stage'[t] = IF op[t] \in PruneOps THEN "sample" ELSE "change"
    BY <1>6 DEF LoadOrphans, TypeOK
  <2>2. \A k \in Key : copy'[t][k] = IF Orphan(k) THEN rows[k] ELSE copy[t][k]
    BY <1>6 DEF LoadOrphans, TypeOK
  <2>3. \A k \in Key : docs[k] = NoRow => PaneIn(copy'[t][k]) = PaneIn(rows[k])
    BY <1>4, <1>6, <2>2 DEF LoadOrphans, Knows, HasOthers, Orphan, PaneIn
  <2>4. t \notin moved /\ Current(t) => \A k \in Key : PaneIn(copy'[t][k]) = PaneOf(k)
    BY <1>4, <1>6, <2>2, <2>3, PaneOfIs DEF LoadOrphans, Knows, PruneKnows, Orphan
  <2>5. Knows(t)'
    BY <1>1, <1>2, <1>4, <2>1, <2>3, <2>4 DEF Knows, HasOthers, PruneKnows, AskedInVain, Loaded
  <2>6. QED
    BY <1>3, <2>5 DEF SqliteInv
<1>7. QED
  BY <1>5, <1>6

\* The lookup.
LEMMA LookupKnows ==
  ASSUME TypeOK, StageFits, SqliteInv, NEW t \in Thread, LookupDocument(t) \/ LookupRow(t)
  PROVE  SqliteInv'
<1> USE DEF At, Goes
<1>0. \E p, s : /\ Replies(t, p, s) /\ s \in {"leave", "ask_rows"}
                /\ s = "ask_rows" => DocPanes(op[t].key) = {}
  BY LookupReplies
<1>1. /\ docs' = docs /\ rows' = rows /\ owner' = owner /\ op' = op /\ copy' = copy
      /\ live' = live /\ moved' = moved /\ alive' = alive /\ stale' = stale /\ raced' = raced
      /\ stage' = [stage EXCEPT ![t] = stage'[t]] 
      /\ stage'[t] = "leave" \/ (stage'[t] = "ask_rows" /\ DocPanes(op[t].key) = {})
  BY <1>0 DEF Replies, tables, TypeOK
<1>2. DocsKept /\ RowsKept
  BY <1>1, NothingWritten
<1>3. \A u \in Thread \ {t} : Knows(u)'
  BY <1>1, <1>2, OthersKnow DEF TypeOK
<1>4. DocPanes(op[t].key)' = DocPanes(op[t].key)
  BY <1>1, <1>2 DEF DocsKept
<1>5. Knows(t)'
  BY <1>1, <1>4 DEF Knows, HasOthers, PruneKnows, AskedInVain, Loaded
<1>6. QED
  BY <1>3, <1>5 DEF SqliteInv

\* The statements that commit on their own.
LEMMA UpdateKnows ==
  ASSUME TypeOK, StageFits, SqliteInv, NEW t \in Thread,
         WindowOfDocuments(t) \/ WindowOfRows(t) \/ Upsert(t)
  PROVE  SqliteInv'
<1> USE DEF At, Goes
<1>1. /\ owner' = owner /\ op' = op /\ copy' = copy
      /\ live' = live /\ moved' = moved /\ alive' = alive /\ stale \subseteq stale'
      /\ stage' = [stage EXCEPT ![t] = stage'[t]]
      /\ stage'[t] \in {"metadata", "leave"}
  BY DEF WindowOfDocuments, WindowOfRows, Upsert, Overtakes, TypeOK
<1>2. Knows(t)'
  BY <1>1 DEF Knows, HasOthers, PruneKnows, AskedInVain, Loaded
<1>3. CASE WindowOfDocuments(t) \/ WindowOfRows(t)
  <2>1. DocsKept /\ RowsKept
    BY <1>3, WindowsKeepBindings
  <2>2. raced' = raced
    BY <1>3 DEF WindowOfDocuments, WindowOfRows
  <2>3. \A u \in Thread \ {t} : Knows(u)'
    BY <1>1, <2>1, <2>2, OthersKnow DEF TypeOK
  <2>4. QED
    BY <1>2, <2>3 DEF SqliteInv
<1>4. CASE Upsert(t) /\ docs[op[t].key] # NoRow
  <2>1. docs' = docs /\ raced' = raced
    BY <1>4 DEF Upsert
  <2>2. \A k \in Key \ {op[t].key} : rows'[k] = rows[k]
    BY <1>4 DEF Upsert, With
  <2>3. DocsKept /\ RowsKept
    BY <1>4, <2>1, <2>2, KeepDocs DEF RowsKept
  <2>4. \A u \in Thread \ {t} : Knows(u)'
    BY <1>1, <2>1, <2>3, OthersKnow DEF TypeOK
  <2>5. QED
    BY <1>2, <2>4 DEF SqliteInv
<1>5. CASE Upsert(t) /\ docs[op[t].key] = NoRow
  <2>1. Races(t) /\ docs' = docs
    BY <1>5 DEF Upsert
  <2>2. \A u \in Thread \ {t} : u \in stale \/ At(u, "write") => u \in stale'
    BY <1>5 DEF Upsert, Overtakes
  <2>3. op[t] \notin LockedOps
    BY <1>5, OpFields, SqliteAssumption DEF Upsert, StageFits, TypeOK, SavingOps
  <2>4. \A u \in Thread \ {t} : Knows(u)'
    BY <1>1, <2>1, <2>2, <2>3, OvertakenKnow
  <2>5. QED
    BY <1>2, <2>4 DEF SqliteInv
<1>6. QED
  BY <1>3, <1>4, <1>5

\* The sample and the change of the copy.
LEMMA ChangeKnows ==
  ASSUME TypeOK, StageFits, SqliteInv, NEW t \in Thread,
         Sample(t) \/ SampleFails(t) \/ Change(t)
  PROVE  SqliteInv'
<1> USE DEF At, Goes
<1>1. /\ docs' = docs /\ rows' = rows /\ owner' = owner /\ op' = op
      /\ moved' = moved /\ alive' = alive /\ stale' = stale /\ raced' = raced
      /\ stage' = [stage EXCEPT ![t] = stage'[t]] /\ copy' = [copy EXCEPT ![t] = copy'[t]]
      /\ live' = [live EXCEPT ![t] = live'[t]]
  BY DEF Sample, SampleFails, Change, tables, TypeOK
<1>2. \A k \in Key : PaneOf(k)' = PaneOf(k)
  BY <1>1, PaneOfIs, PaneOfIsThen
<1>3. \A u \in Thread \ {t} : Knows(u)'
  BY <1>1, NothingWritten, OthersKnow DEF TypeOK
<1>4. /\ op[t] \in LockedOps => owner'[LockFile] = t
      /\ Knows(t) /\ (Current(t)' => Current(t))
  BY <1>1 DEF Sample, SampleFails, Change, Knows, Current, Loaded, SqliteInv
<1>5. CASE SampleFails(t)
  <2>1. stage'[t] = "fail"
    BY <1>5 DEF SampleFails, TypeOK
  <2>2. Knows(t)'
    BY <2>1 DEF Knows, HasOthers, PruneKnows, AskedInVain, Loaded
  <2>3. QED
    BY <1>3, <2>2 DEF SqliteInv
<1>6. CASE Sample(t)
  <2>1. stage'[t] = "change" /\ copy' = copy /\ live'[t] = alive /\ op[t] \in PruneOps
    BY <1>6 DEF Sample, TypeOK, StageFits
  <2>2. Knows(t)'
    BY <1>1, <1>2, <1>4, <1>6, <2>1 DEF Sample, Knows, HasOthers, PruneKnows, AskedInVain, Loaded
  <2>3. QED
    BY <1>3, <2>2 DEF SqliteInv
<1>7. CASE Change(t)
  <2>1. PICK r \in Changed(op[t], copy[t], live[t]) :
          /\ copy' = [copy EXCEPT ![t] = r]
          /\ Goes(t, IF op[t] \in PruneOps \union UnregisterOps /\ r = copy[t]
                       THEN "leave" ELSE "list")
    BY <1>7 DEF Change
  <2>2. copy'[t] = r /\ stage'[t] \in {"leave", "list"} /\ op[t] \in SavingOps
    BY <1>7, <2>1 DEF Change, TypeOK, StageFits
  <2>3. CASE op[t] \notin PruneOps
    <3>1. op[t] \in AnyOps
      BY <2>2 DEF SavingOps, LockedOps, Ops, AnyOps
    <3>2. r = With(copy[t], op[t].key, op[t].entry) \/ r = With(copy[t], op[t].key, NoEntry)
      BY <2>2, <2>3, ResultCases
    <3>3. \A k \in Key : k # op[t].key => r[k] = copy[t][k]
      BY <3>2 DEF With
    <3>4. Knows(t)'
      BY <1>1, <1>4, <1>7, <2>2, <2>3, <3>3 DEF Change, Knows, HasOthers, PruneKnows, AskedInVain, Loaded
    <3>5. QED
      BY <1>3, <3>4 DEF SqliteInv
  <2>4. CASE op[t] \in PruneOps
    <3>1. PICK S \in SUBSET Bound(copy[t]) : Kept(copy[t], live[t], S) /\ r = Only(copy[t], S)
      <4>1. op[t] \in AnyOps
        BY <2>2 DEF SavingOps, LockedOps, Ops, AnyOps
      <4>2. op[t] \notin BindOps \union RegisterOps \union UnbindOps \union UnregisterOps
        BY <2>4, <4>1, OpFields DEF LockedOps, CliOps
      <4>3. QED
        BY <2>2, <4>2, ResultCases
    <3>2. \A k \in Key : r[k] = IF k \in S THEN copy[t][k] ELSE NoEntry
      BY <3>1 DEF Only
    <3>3. ASSUME t \notin moved, Current(t)
          PROVE  /\ \A k \in Key : r[k] # NoEntry => r[k].pane = PaneOf(k)
                 /\ \A k \in Key : PaneOf(k) \in alive =>
                      \E j \in Key : r[j] # NoEntry /\ r[j].pane = PaneOf(k)
      <4>1. \A k \in Key : PaneIn(copy[t][k]) = PaneOf(k)
        BY <1>4, <1>7, <2>4, <3>3 DEF Change, Knows, PruneKnows
      <4>2. alive \subseteq live[t] /\ NoPane \notin alive
        BY <1>4, <1>7, <2>4, <3>3, SqliteAssumption DEF Change, Knows, PruneKnows, TypeOK
      <4>3. \A k \in Key : r[k] # NoEntry => r[k].pane = PaneOf(k)
        BY <3>2, <4>1 DEF PaneIn
      <4>4. ASSUME NEW k \in Key, PaneOf(k) \in alive
            PROVE  \E j \in Key : r[j] # NoEntry /\ r[j].pane = PaneOf(k)
        <5>1. k \in Bound(copy[t]) /\ copy[t][k].pane = PaneOf(k)
          BY <4>1, <4>2, <4>4 DEF PaneIn, Bound
        <5>2. PICK j \in S : copy[t][j].pane = copy[t][k].pane
          BY <3>1, <4>2, <4>4, <5>1 DEF Kept, SamePane
        <5>3. j \in Key /\ copy[t][j] # NoEntry
          BY <3>1 DEF Bound
        <5>4. QED
          BY <3>2, <5>1, <5>2, <5>3
      <4>5. QED
        BY <4>3, <4>4
    <3>4. Knows(t)'
      BY <1>1, <1>2, <1>4, <2>2, <2>4, <3>3 DEF Knows, HasOthers, PruneKnows, AskedInVain, Loaded
    <3>5. QED
      BY <1>3, <3>4 DEF SqliteInv
  <2>5. QED
    BY <2>3, <2>4
<1>8. QED
  BY <1>5, <1>6, <1>7

\* The save.
LEMMA SaveKnows ==
  ASSUME TypeOK, StageFits, SqliteInv, NEW t \in Thread, List(t) \/ Write(t) \/ WriteOvertaken(t)
  PROVE  SqliteInv'
<1> USE DEF At, Goes
<1>1. /\ docs' = docs /\ owner' = owner /\ op' = op /\ copy' = copy
      /\ live' = live /\ moved' = moved /\ alive' = alive
      /\ stage' = [stage EXCEPT ![t] = stage'[t]]
  BY DEF List, Write, WriteOvertaken, tables, TypeOK
<1>2. Knows(t) /\ (op[t] \in LockedOps => owner[LockFile] = t)
  BY DEF List, Write, WriteOvertaken, Knows, Loaded, SqliteInv
<1>3. CASE List(t)
  <2>1. /\ stage'[t] \in {"write", "fail"} /\ rows' = rows /\ At(t, "list")
        /\ stale' = stale \ {t} /\ raced' = raced
    BY <1>3 DEF List, TypeOK, tables
  <2>2. \A k \in Key : PaneOf(k)' = PaneOf(k)
    BY <1>1, <2>1, PaneOfIs, PaneOfIsThen
  <2>3. Current(t)' => Current(t)
    BY <2>1 DEF Current
  <2>4. Knows(t)'
    BY <1>1, <1>2, <2>1, <2>2, <2>3 DEF Knows, HasOthers, PruneKnows, AskedInVain, Loaded
  <2>5. \A u \in Thread \ {t} : Knows(u)'
    BY <1>1, <2>1, NothingWritten, OthersKnow DEF TypeOK
  <2>6. QED
    BY <2>4, <2>5 DEF SqliteInv
<1>4. ASSUME Write(t) \/ WriteOvertaken(t) PROVE Knows(t)'
  <2>1. stage'[t] \in {"leave", "fail"}
    BY <1>4 DEF Write, WriteOvertaken, TypeOK
  <2>2. QED
    BY <2>1 DEF Knows, HasOthers, PruneKnows, AskedInVain, Loaded
<1>5. CASE Write(t)
  <2>1. Races(t) /\ \A u \in Thread \ {t} : u \in stale \/ At(u, "write") => u \in stale'
    BY <1>5 DEF Write
  <2>2. \A u \in Thread \ {t} : Knows(u)'
    BY <1>1, <1>2, <2>1, OvertakenKnow
  <2>3. QED
    BY <1>4, <1>5, <2>2 DEF SqliteInv
<1>6. CASE WriteOvertaken(t)
  <2>1. rows' = rows /\ stale' = stale /\ raced' = raced
    BY <1>6 DEF WriteOvertaken, tables
  <2>2. \A u \in Thread \ {t} : Knows(u)'
    BY <1>1, <2>1, NothingWritten, OthersKnow DEF TypeOK
  <2>3. QED
    BY <1>4, <1>6, <2>2 DEF SqliteInv
<1>7. QED
  BY <1>3, <1>5, <1>6

\* The end of an operation, or of its process.
LEMMA ClearKnows ==
  ASSUME TypeOK, StageFits, SqliteInv, NEW t \in Thread, Leave(t) \/ Crash(t)
  PROVE  SqliteInv'
<1> USE DEF At, Goes
<1>1. /\ docs' = docs /\ rows' = rows /\ alive' = alive
      /\ moved' = moved \ {t} /\ raced' = raced \ {t} /\ stale' = stale \ {t}
      /\ op' = [op EXCEPT ![t] = NoOp] /\ stage' = [stage EXCEPT ![t] = "idle"]
      /\ copy' = [copy EXCEPT ![t] = Empty] /\ live' = [live EXCEPT ![t] = {}]
      /\ owner' = [l \in {LockFile} |-> IF owner[l] \in {t} THEN Nobody ELSE owner[l]]
  BY DEF Leave, Crash, Clear, tables, Lock!Release
<1>2. \A u \in Thread \ {t} : Knows(u)'
  BY <1>1, NothingWritten, OthersKnow DEF TypeOK
<1>3. Knows(t)'
  <2>1. stage'[t] = "idle"
    BY <1>1 DEF TypeOK
  <2>2. QED
    BY <2>1 DEF Knows, HasOthers, PruneKnows, AskedInVain, Loaded
<1>4. QED
  BY <1>2, <1>3 DEF SqliteInv

\* The actor writes: nobody in an operation counts as undisturbed any more.
LEMMA ActorKnows ==
  ASSUME TypeOK, StageFits, SqliteInv, NEW k \in ActorKey, NEW d \in ActorDocs, ActorWrites(k, d)
  PROVE  SqliteInv'
<1> USE DEF At, Goes
<1>1. /\ rows' = rows /\ owner' = owner /\ stage' = stage /\ op' = op /\ copy' = copy
      /\ moved' = moved \union {t \in Thread : stage[t] # "idle"}
      /\ raced' = raced /\ stale \subseteq stale'
  BY DEF ActorWrites, Overtakes, jobVars
<1>2. \A j \in Key : docs'[j] = NoRow => docs[j] = NoRow
  BY SqliteAssumption DEF ActorWrites, TypeOK
<1>3. ASSUME NEW t \in Thread PROVE Knows(t)'
  <2>1. Knows(t) /\ (Current(t)' => Current(t))
    BY <1>1 DEF SqliteInv, Current
  <2>2. HasOthers(t)'
    BY <1>1, <1>2, <2>1 DEF Knows, HasOthers
  <2>3. t \notin moved' => stage'[t] = "idle"
    BY <1>1
  <2>4. t \notin moved' => PruneKnows(t)' /\ AskedInVain(t)'
    BY <2>3 DEF PruneKnows, AskedInVain
  <2>5. QED
    BY <1>1, <2>1, <2>2, <2>4 DEF Knows
<1>4. QED
  BY <1>3 DEF SqliteInv

\* A step that changes nothing, or a death.
LEMMA QuietKnows ==
  ASSUME TypeOK, StageFits, SqliteInv, (\E p \in Pane : PaneDies(p)) \/ UNCHANGED vars
  PROVE  SqliteInv'
<1>1. /\ UNCHANGED <<docs, rows, owner, op, stage, copy, live, moved, raced, stale>>
      /\ alive' \subseteq alive
  BY DEF PaneDies, vars, tables, jobVars
<1>2. ASSUME NEW t \in Thread PROVE Knows(t)'
  <2>1. DocsKept /\ RowsKept
    BY <1>1, NothingWritten
  <2>2. Knows(t) /\ Same(t) /\ (Current(t)' => Current(t))
    BY <1>1 DEF SqliteInv, Same, Current, At
  <2>3. QED
    BY <1>1, <2>1, <2>2, KnowsStays DEF Knows
<1>3. QED
  BY <1>2 DEF SqliteInv

\* The inductive invariant.
LEMMA SqliteInductive == TypeOK /\ StageFits /\ SqliteInv /\ [Next]_vars => SqliteInv'
<1> SUFFICES ASSUME TypeOK, StageFits, SqliteInv, [Next]_vars PROVE SqliteInv'
  OBVIOUS
<1>1. CASE UNCHANGED vars
  BY <1>1, QuietKnows
<1>2. ASSUME NEW t \in Thread, Step(t) PROVE SqliteInv'
  BY <1>2, BeginKnows, LoadKnows, LookupKnows, UpdateKnows, ChangeKnows, SaveKnows, ClearKnows
    DEF Step
<1>3. CASE \E k \in ActorKey, d \in ActorDocs : ActorWrites(k, d)
  BY <1>3, ActorKnows
<1>4. CASE \E p \in Pane : PaneDies(p)
  BY <1>4, QuietKnows
<1>5. QED
  BY <1>1, <1>2, <1>3, <1>4 DEF Next

\* Nobody knows anything at the start.
LEMMA InitKnows == Init => SqliteInv
BY DEF Init, SqliteInv, Knows, HasOthers, PruneKnows, AskedInVain, At, Loaded

IInv == TypeOK /\ StageFits /\ SqliteInv

\* IInv holds in every reachable state.
LEMMA Invariance == Spec => []IInv
<1>1. IInv /\ [Next]_vars => IInv'
  BY TypeInductive, StageInductive, SqliteInductive DEF IInv
<1>2. Init => IInv
  BY InitTypes, InitKnows DEF IInv
<1>3. QED
  BY <1>1, <1>2, PTL DEF Spec

-----------------------------------------------------------------------------
(* The properties.                                                         *)

\* Only a thread's own step takes it from its write to its end.
LEMMA Saver ==
  ASSUME IInv, [Next]_vars, NEW t \in Thread, Saves(t)
  PROVE  /\ docs' = docs /\ op' = op
         /\ rows' = rows \/ (rows' = copy[t] /\ t \notin stale)
         /\ moved' = moved /\ alive' = alive
<1> USE DEF IInv, Saves, At, Goes, TypeOK
<1>1. stage[t] = "write" /\ stage'[t] = "leave"
  OBVIOUS
<1>2. ASSUME NEW u \in Thread, Step(u) PROVE u = t /\ (Write(t) \/ WriteOvertaken(t))
  <2>1. stage' = [stage EXCEPT ![u] = stage'[u]]
    BY <1>2 DEF Step, Begin, LoadDocuments, LoadOrphans, LookupDocument, LookupRow, Picks, Replies,
      WindowOfDocuments, WindowOfRows, Upsert, Sample, SampleFails, Change, List, Write,
      WriteOvertaken, Leave, Crash, Clear
  <2>2. u = t
    BY <1>1, <2>1
  <2>3. QED
    BY <1>1, <1>2, <2>2 DEF Step, Begin, LoadDocuments, LoadOrphans, LookupDocument, LookupRow,
      Picks, Replies, WindowOfDocuments, WindowOfRows, Upsert, Sample, SampleFails, Change, List,
      Leave, Crash, Clear
<1>3. stage' # stage
  BY <1>1
<1>4. Write(t) \/ WriteOvertaken(t)
  BY <1>2, <1>3 DEF Next, ActorWrites, PaneDies, vars, jobVars
<1>5. QED
  BY <1>1, <1>4 DEF Write, WriteOvertaken, tables

\* Saves that nobody without the lock has overtaken keep the pane of every other
\* key: for any number of threads, keys and panes, and those of the library
\* against each other always.
THEOREM SaveSpares == Spec => SaveSparesOthers
<1>1. ASSUME IInv, [Next]_vars, NEW t \in Thread \ raced, Saves(t), op[t] \notin PruneOps,
             NEW k \in Key \ {op[t].key}
      PROVE  PaneOf(k)' = PaneOf(k)
  <2>1. docs' = docs /\ (rows' = rows \/ (rows' = copy[t] /\ t \notin stale))
    BY <1>1, Saver
  <2>2. CASE rows' = rows
    BY <2>1, <2>2, PaneOfIs, PaneOfIsThen
  <2>3. CASE rows' = copy[t] /\ t \notin stale
    <3>1. docs[k] = NoRow => PaneIn(copy[t][k]) = PaneIn(rows[k])
      BY <1>1, <2>3 DEF IInv, SqliteInv, Knows, HasOthers, Current, Saves, At
    <3>2. QED
      BY <2>1, <2>3, <3>1, PaneOfIs, PaneOfIsThen
  <2>4. QED
    BY <2>1, <2>2, <2>3
<1>2. IInv /\ [Next]_vars =>
        [\A t \in Thread \ raced : Saves(t) /\ op[t] \notin PruneOps =>
           \A k \in Key \ {op[t].key} : PaneOf(k)' = PaneOf(k)]_vars
  BY <1>1
<1>3. QED
  BY <1>2, Invariance, PTL DEF Spec, SaveSparesOthers

\* A prune that neither the actor nor anybody without the lock has overtaken keeps
\* a binding of every live pane that was bound, although others change windows
\* and the metadata of documents meanwhile.
THEOREM PruneSpares == Spec => PruneSparesBound
<1>1. ASSUME IInv, [Next]_vars, NEW t \in Thread \ (moved \union raced), Saves(t),
             op[t] \in PruneOps, NEW k \in Key, PaneOf(k) \in alive
      PROVE  \E j \in Key : PaneOf(j)' = PaneOf(k)
  <2>1. docs' = docs /\ (rows' = rows \/ (rows' = copy[t] /\ t \notin stale))
    BY <1>1, Saver
  <2>3. CASE rows' = rows
    BY <2>1, <2>3, PaneOfIs, PaneOfIsThen
  <2>4. CASE rows' = copy[t] /\ t \notin stale
    <3>0. PruneKnows(t)
      BY <1>1, <2>4 DEF IInv, SqliteInv, Knows, Current
    <3>1. PICK j \in Key : copy[t][j] # NoEntry /\ copy[t][j].pane = PaneOf(k)
      BY <1>1, <3>0 DEF PruneKnows, Saves, At
    <3>2. copy[t][j].pane = PaneOf(j)
      BY <1>1, <3>0, <3>1 DEF PruneKnows, Saves, At
    <3>3. PaneOf(j)' = PaneOf(j)
      BY <2>1, <2>4, <3>1, <3>2, PaneOfIs, PaneOfIsThen DEF PaneIn
    <3>4. QED
      BY <3>1, <3>2, <3>3
  <2>5. QED
    BY <2>1, <2>3, <2>4
<1>2. IInv /\ [Next]_vars =>
        [\A t \in Thread \ (moved \union raced) : Saves(t) /\ op[t] \in PruneOps =>
           \A k \in Key : PaneOf(k) \in alive => \E j \in Key : PaneOf(j)' = PaneOf(k)]_vars
  BY <1>1
<1>3. QED
  BY <1>2, Invariance, PTL DEF Spec, PruneSparesBound

\* The two queries of a lookup answer what one could: a live document of that
\* name, be it key, path or session_id, and else an entry without a document.  If
\* the actor writes between them they may miss a document, and no more.
THEOREM LookupExact == Spec => LookupAgrees
<1>1. ASSUME IInv, [Next]_vars, NEW t \in Thread,
             At(t, "ask") \/ At(t, "ask_rows"), stage'[t] = "leave"
      PROVE  \/ answer'[t] \in Answers(op[t].key)
             \/ t \in moved /\ answer'[t] \in RowPanes(op[t].key) \union {NoPane}
  <2> USE DEF At, Goes, IInv
  <2>0. stage \in [Thread -> Stages] /\ stage[t] \in {"ask", "ask_rows"} /\ stage'[t] = "leave"
    BY <1>1 DEF TypeOK
  <2>2. ASSUME NEW u \in Thread, Step(u) PROVE u = t /\ (LookupDocument(t) \/ LookupRow(t))
    <3>1. stage' = [stage EXCEPT ![u] = stage'[u]]
      BY <2>0, <2>2 DEF Step, Begin, LoadDocuments, LoadOrphans, LookupDocument, LookupRow,
        Picks, Replies, WindowOfDocuments, WindowOfRows, Upsert, Sample, SampleFails, Change, List,
        Write, WriteOvertaken, Leave, Crash, Clear
    <3>2. u = t
      BY <2>0, <3>1
    <3>3. QED
      BY <2>0, <2>2, <3>2 DEF Step, Begin, LoadDocuments, LoadOrphans, WindowOfDocuments,
        WindowOfRows, Upsert, Sample, SampleFails, Change, List, Write, WriteOvertaken, Leave,
        Crash, Clear
  <2>3. LookupDocument(t) \/ LookupRow(t)
    BY <1>1, <2>2 DEF Next, ActorWrites, PaneDies, vars, jobVars, TypeOK
  <2>4. CASE LookupDocument(t)
    <3>1. DocPanes(op[t].key) # {} /\ answer'[t] \in DocPanes(op[t].key)
      BY <1>1, <2>4 DEF LookupDocument, Picks, Replies, TypeOK
    <3>2. QED
      BY <3>1 DEF Answers
  <2>5. CASE LookupRow(t)
    <3>1. /\ RowPanes(op[t].key) # {} => answer'[t] \in RowPanes(op[t].key)
          /\ RowPanes(op[t].key) = {} => answer'[t] = NoPane
      BY <1>1, <2>5 DEF LookupRow, Picks, Replies, TypeOK
    <3>2. t \notin moved => DocPanes(op[t].key) = {}
      BY <1>1, <2>5 DEF LookupRow, SqliteInv, Knows, AskedInVain
    <3>3. t \notin moved => answer'[t] \in Answers(op[t].key)
      BY <3>1, <3>2 DEF Answers
    <3>4. QED
      BY <3>1, <3>3
  <2>6. QED
    BY <2>3, <2>4, <2>5
<1>2. IInv /\ [Next]_vars =>
        [\A t \in Thread : (At(t, "ask") \/ At(t, "ask_rows")) /\ stage'[t] = "leave" =>
           \/ answer'[t] \in Answers(op[t].key)
           \/ t \in moved /\ answer'[t] \in RowPanes(op[t].key) \union {NoPane}]_vars
  BY <1>1
<1>3. QED
  BY <1>2, Invariance, PTL DEF Spec, LookupAgrees

=============================================================================
