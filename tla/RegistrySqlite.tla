---------------------------- MODULE RegistrySqlite ----------------------------
(***************************************************************************)
(* The registry as a SQLite database (registry.rs).  The table documents   *)
(* belongs to another program, the actor: its live documents bind their    *)
(* keys.  The table registry_entries holds the metadata of the documents   *)
(* and the entries of the keys that have none.  The library's operations   *)
(* that load and save own the registry lock meanwhile; the commands        *)
(* register and unregister of the CLI load and save without it, and so do  *)
(* lookups, window updates, metadata updates and the actor, each of whose  *)
(* statements commits on its own.                                          *)
(***************************************************************************)
EXTENDS RegistryMap, FiniteSets

CONSTANTS Thread,
          LockFile, \* the lock file of the registry
          Nobody,   \* not a thread
          NoOp,     \* not an operation
          NoRow,    \* no row in documents
          NoPane,   \* the answer of a lookup that finds nothing
          ActorKey, \* the keys the actor may use
          ActorDocs, \* the documents it may write
          Called,   \* the operations that are called
          Aliases,  \* the path and the session_id that go with a Stamp
          Corrupt   \* the rows corruption may have left without a document_id

LookupOps == [kind : {"lookup"}, key : Key]

\* The commands of the CLI, on the same database.
RegisterOps   == [kind : {"register"}, key : Key, entry : Entry]
UnregisterOps == [kind : {"unregister"}, key : Key]
CliOps        == RegisterOps \union UnregisterOps

AnyOps == Ops \union LookupOps \union CliOps

\* A document is closed too when it has no pane.
Doc == [pane : Pane, window : Window, started : Stamp, closed : BOOLEAN]

ASSUME SqliteAssumption ==
  /\ Nobody \notin Thread
  /\ NoOp \notin AnyOps
  /\ NoRow \notin Doc
  /\ NoPane \notin Pane
  /\ ActorKey \subseteq Key /\ ActorDocs \subseteq Doc
  /\ Called \subseteq AnyOps
  /\ Aliases \in [Stamp -> SUBSET Key]
  /\ Corrupt \subseteq Entry

VARIABLES
  docs,   \* documents
  rows,   \* registry_entries
  bad,    \* a row of registry_entries without a document_id, if there is one
  owner,  \* the owner of the lock file
  op,     \* the operation a thread runs
  stage,  \* what it does next
  copy,   \* the registry it has in memory
  live,   \* the live panes a prune knows of
  stale,  \* the transactions that read a state which is no longer the last
  moved,  \* the threads in whose operation the actor has written
  raced,  \* those whose loaded copy somebody without the lock has overtaken
  answer, \* the answer of a lookup
  alive   \* the panes alive

tables  == <<docs, rows, bad>>
jobVars == <<op, stage, copy, live>>
vars    == <<tables, owner, jobVars, stale, moved, raced, answer, alive>>

Lock == INSTANCE Mutex WITH LockFile <- {LockFile}

\* The operations that own the lock while they load and save.
LockedOps == BindOps \union UnbindOps \union PruneOps

SavingOps == LockedOps \union CliOps

Stages == {"idle", "documents", "orphans", "sample", "change", "list", "write",
           "windows", "metadata", "upsert", "ask", "ask_rows", "leave", "fail"}

At(t, s)   == stage[t] = s
Goes(t, s) == stage' = [stage EXCEPT ![t] = s]

First(o) == CASE o \in SavingOps   -> "documents"
              [] o \in WindowOps   -> "windows"
              [] o \in DescribeOps -> "upsert"
              [] o \in LookupOps   -> "ask"

\* Callers of the library register panes that are alive.
Possible(o) == o \in BindOps => o.entry.pane \in alive

\* Mutant: the operation does not take the lock.
Locked_Never(t, o) == UNCHANGED owner

Locked(t, o) == IF o \in LockedOps THEN Lock!Take(t, LockFile) ELSE UNCHANGED owner

Begin(t, o) ==
  /\ At(t, "idle")
  /\ Possible(o)
  /\ Locked(t, o)
  /\ op' = [op EXCEPT ![t] = o]
  /\ Goes(t, First(o))
  /\ UNCHANGED <<tables, copy, live, stale, moved, raced, answer, alive>>

-----------------------------------------------------------------------------
(* Queries.                                                                *)

\* actor_state <> 'closed' AND pane_id <> ''
Live(k) == docs[k] # NoRow /\ ~docs[k].closed

\* An entry whose key has no document at all.
Orphan(k) == rows[k] # NoEntry /\ docs[k] = NoRow

\* A document with its metadata.
Joined(k) ==
  [pane |-> docs[k].pane, window |-> docs[k].window,
   started |-> IF rows[k] # NoEntry THEN rows[k].started ELSE docs[k].started]

\* load_sqlite_registry: the live documents, then, by a query of its own, the
\* entries without a document.  A row that cannot be read is left out.
LoadDocuments(t) ==
  /\ At(t, "documents")
  /\ copy' = [copy EXCEPT ![t] = [k \in Key |-> IF Live(k) THEN Joined(k) ELSE NoEntry]]
  /\ Goes(t, "orphans")
  /\ UNCHANGED <<tables, owner, op, live, stale, moved, raced, answer, alive>>

LoadOrphans(t) ==
  /\ At(t, "orphans")
  /\ copy' = [copy EXCEPT ![t] = [k \in Key |-> IF Orphan(k) THEN rows[k] ELSE copy[t][k]]]
  /\ Goes(t, IF op[t] \in PruneOps THEN "sample" ELSE "change")
  /\ UNCHANGED <<tables, owner, op, live, stale, moved, raced, answer, alive>>

Replies(t, p, s) ==
  /\ answer' = [answer EXCEPT ![t] = p]
  /\ Goes(t, s)
  /\ UNCHANGED <<tables, owner, op, copy, live, stale, moved, raced, alive>>

\* document_id = ?1 OR canonical_path = ?1 OR session_id = ?1
Named(k, e, n) == n = k \/ n \in Aliases[e.started]

\* The panes of the live documents a name matches, and those of the entries
\* without a document.  A row without a document_id matches by its other names.
DocPanes(n) == {docs[k].pane : k \in {j \in Key : Live(j) /\ Named(j, docs[j], n)}}
RowPanes(n) ==
  {rows[k].pane : k \in {j \in Key : Orphan(j) /\ Named(j, rows[j], n)}}
    \union {e.pane : e \in {b \in {bad} \ {NoEntry} : n \in Aliases[b.started]}}

\* query_row takes the first row, in whatever order SQLite finds them.
Picks(t, P) == \E p \in IF P = {} THEN {NoPane} ELSE P : Replies(t, p, "leave")

\* Mutant: the entry is taken whatever the state of its document.
LookupRow_Any(t) ==
  /\ At(t, "ask_rows")
  /\ LET n == op[t].key
     IN Picks(t, {rows[k].pane : k \in {j \in Bound(rows) : Named(j, rows[j], n)}})

\* lookup_sqlite_registry asks the documents first ...
LookupDocument(t) ==
  /\ At(t, "ask")
  /\ LET P == DocPanes(op[t].key)
     IN IF P # {} THEN Picks(t, P) ELSE Replies(t, NoPane, "ask_rows")

\* ... and then the entries without a document.
LookupRow(t) == At(t, "ask_rows") /\ Picks(t, RowPanes(op[t].key))

-----------------------------------------------------------------------------
(* Statements that commit on their own.                                    *)

\* A committed change overtakes the transactions that have only read so far.
Overtakes == stale' = stale \union {t \in Thread : At(t, "write")}

\* What t has written is missing from the copies that others have loaded and not
\* yet begun to save, unless the lock kept t and them apart.
Races(t) ==
  raced' = raced \union
    {u \in Thread \ {t} : /\ stage[u] \in {"sample", "change", "list"}
                         /\ ~(op[t] \in LockedOps /\ op[u] \in LockedOps)}

WindowOfDocuments(t) ==
  /\ At(t, "windows")
  /\ LET o == op[t]
         hit(k) == Live(k) /\ docs[k].pane = o.pane /\ docs[k].window # o.window
     IN /\ docs' = [k \in Key |-> IF hit(k) THEN [docs[k] EXCEPT !.window = o.window] ELSE docs[k]]
        /\ IF \E k \in Key : hit(k) THEN Overtakes ELSE UNCHANGED stale
  /\ Goes(t, "metadata")
  /\ UNCHANGED <<rows, bad, owner, op, copy, live, moved, raced, answer, alive>>

WindowOfRows(t) ==
  /\ At(t, "metadata")
  /\ rows' = Moved(rows, op[t].pane, op[t].window)
  /\ IF rows' = rows THEN UNCHANGED stale ELSE Overtakes
  /\ Goes(t, "leave")
  /\ UNCHANGED <<docs, bad, owner, op, copy, live, moved, raced, answer, alive>>

\* upsert_entry_metadata replaces the whole row.
Upsert(t) ==
  /\ At(t, "upsert")
  /\ rows' = With(rows, op[t].key, op[t].entry)
  /\ Overtakes
  /\ IF docs[op[t].key] = NoRow THEN Races(t) ELSE UNCHANGED raced
  /\ Goes(t, "leave")
  /\ UNCHANGED <<docs, bad, owner, op, copy, live, moved, answer, alive>>

-----------------------------------------------------------------------------
(* Changing the copy and saving it.                                        *)

\* Mutant: a failed list-panes counts as a server without panes.
Sample_FailOpen(t) ==
  /\ At(t, "sample")
  /\ \E A \in {alive, {}} : live' = [live EXCEPT ![t] = A]
  /\ Goes(t, "change")
  /\ UNCHANGED <<tables, owner, op, copy, stale, moved, raced, answer, alive>>

Sample(t) ==
  /\ At(t, "sample")
  /\ live' = [live EXCEPT ![t] = alive]
  /\ Goes(t, "change")
  /\ UNCHANGED <<tables, owner, op, copy, stale, moved, raced, answer, alive>>

SampleFails(t) ==
  /\ At(t, "sample")
  /\ Goes(t, "fail")
  /\ UNCHANGED <<tables, owner, op, copy, live, stale, moved, raced, answer, alive>>

Changed(o, r, A) ==
  CASE o \in RegisterOps   -> {With(r, o.key, o.entry)}
    [] o \in UnregisterOps -> {With(r, o.key, NoEntry)}
    [] o \in LockedOps     -> Results(o, r, A)

\* A prune or an unregister that drops nothing does not save.
Change(t) ==
  /\ At(t, "change")
  /\ \E r \in Changed(op[t], copy[t], live[t]) :
       /\ copy' = [copy EXCEPT ![t] = r]
       /\ Goes(t, IF op[t] \in PruneOps \union UnregisterOps /\ r = copy[t]
                 THEN "leave" ELSE "list")
  /\ UNCHANGED <<tables, owner, op, live, stale, moved, raced, answer, alive>>

\* save_sqlite_registry: the transaction starts to read with the list of the
\* rows; here a row without a document_id is an error.
List(t) ==
  /\ At(t, "list")
  /\ Goes(t, IF bad # NoEntry THEN "fail" ELSE "write")
  /\ stale' = stale \ {t}
  /\ UNCHANGED <<tables, owner, op, copy, live, moved, raced, answer, alive>>

\* The rows that are not in the copy go, the others are replaced.  SQLite lets
\* nobody else write from the first of these writes to the commit.
Write(t) ==
  /\ At(t, "write") /\ t \notin stale
  /\ rows' = copy[t]
  /\ stale' = stale \union ({u \in Thread : At(u, "write")} \ {t})
  /\ Races(t)
  /\ Goes(t, "leave")
  /\ UNCHANGED <<docs, bad, owner, op, copy, live, moved, answer, alive>>

\* SQLITE_BUSY_SNAPSHOT: what the transaction has read is no longer the last
\* state, so its first write fails.  Without anything to write it commits.
WriteOvertaken(t) ==
  /\ At(t, "write") /\ t \in stale
  /\ \/ Goes(t, "fail")
     \/ copy[t] = Empty /\ Goes(t, "leave")
  /\ UNCHANGED <<tables, owner, op, copy, live, stale, moved, raced, answer, alive>>

Clear(t) ==
  /\ Lock!Release({t})
  /\ op' = [op EXCEPT ![t] = NoOp]
  /\ Goes(t, "idle")
  /\ copy' = [copy EXCEPT ![t] = Empty]
  /\ live' = [live EXCEPT ![t] = {}]
  /\ stale' = stale \ {t} /\ moved' = moved \ {t} /\ raced' = raced \ {t}
  /\ answer' = [answer EXCEPT ![t] = NoPane]
  /\ UNCHANGED <<tables, alive>>

\* The guard is dropped and the operation returns.
Leave(t) == (At(t, "leave") \/ At(t, "fail")) /\ Clear(t)

\* The process of the thread is killed; SQLite rolls its transaction back.
Crash(t) == ~At(t, "idle") /\ Clear(t)

-----------------------------------------------------------------------------
(* Everybody else.                                                         *)

\* The actor binds a key or closes its document; it never deletes one.
ActorWrites(k, d) ==
  /\ k \in ActorKey /\ d # docs[k]
  /\ d.pane \in alive \/ (docs[k] # NoRow /\ docs[k].pane = d.pane)
  /\ docs' = [docs EXCEPT ![k] = d]
  /\ Overtakes
  /\ moved' = moved \union {t \in Thread : ~At(t, "idle")}
  /\ UNCHANGED <<rows, bad, owner, jobVars, raced, answer, alive>>

PaneDies(p) ==
  /\ alive' = alive \ {p}
  /\ UNCHANGED <<tables, owner, jobVars, stale, moved, raced, answer>>

Init ==
  /\ docs = [k \in Key |-> NoRow] /\ rows = Empty /\ bad \in Corrupt \union {NoEntry}
  /\ Lock!Init
  /\ op = [t \in Thread |-> NoOp]
  /\ stage = [t \in Thread |-> "idle"]
  /\ copy = [t \in Thread |-> Empty]
  /\ live = [t \in Thread |-> {}]
  /\ stale = {} /\ moved = {} /\ raced = {}
  /\ answer = [t \in Thread |-> NoPane]
  /\ alive = Pane

Step(t) ==
  \/ \E o \in Called : Begin(t, o)
  \/ LoadDocuments(t) \/ LoadOrphans(t) \/ LookupDocument(t) \/ LookupRow(t)
  \/ WindowOfDocuments(t) \/ WindowOfRows(t) \/ Upsert(t)
  \/ Sample(t) \/ SampleFails(t) \/ Change(t)
  \/ List(t) \/ Write(t) \/ WriteOvertaken(t) \/ Leave(t) \/ Crash(t)

Next ==
  \/ \E t \in Thread : Step(t)
  \/ \E k \in ActorKey, d \in ActorDocs : ActorWrites(k, d)
  \/ \E p \in Pane : PaneDies(p)

Spec == Init /\ [][Next]_vars

-----------------------------------------------------------------------------
(* Properties.                                                             *)

\* Every variable has its type.
TypeOK ==
  /\ docs \in [Key -> Doc \union {NoRow}]
  /\ rows \in Registries
  /\ bad \in Entry \union {NoEntry}
  /\ owner \in [{LockFile} -> Thread \union {Nobody}]
  /\ op \in [Thread -> AnyOps \union {NoOp}]
  /\ stage \in [Thread -> Stages]
  /\ copy \in [Thread -> Registries]
  /\ live \in [Thread -> SUBSET Pane]
  /\ stale \subseteq Thread /\ moved \subseteq Thread /\ raced \subseteq Thread
  /\ answer \in [Thread -> Pane \union {NoPane}]
  /\ alive \subseteq Pane

\* The pane a key is bound to, by its document or, without one, by its entry.
PaneOf(k) ==
  CASE docs[k] # NoRow -> IF docs[k].closed THEN NoPane ELSE docs[k].pane
    [] docs[k] = NoRow /\ rows[k] # NoEntry -> rows[k].pane
    [] OTHER -> NoPane

Saves(t) == At(t, "write") /\ stage'[t] = "leave"

\* The save of a bind, an unbind, a register or an unregister leaves every other
\* key bound to the pane it is bound to, whatever the actor and the window updates
\* have written since it loaded the two tables.  Excepted are saves overtaken
\* between that load and their transaction by a save or by the metadata of a key
\* without a document, when one of the two operations runs without the lock, as
\* register, unregister and metadata updates do: they put back, or take away,
\* what the other has written.
SaveSparesOthers ==
  [][\A t \in Thread \ raced : Saves(t) /\ op[t] \notin PruneOps =>
       \A k \in Key \ {op[t].key} : PaneOf(k)' = PaneOf(k)]_vars

\* A prune leaves every live pane that was bound to some key bound to one, unless
\* the actor has written meanwhile or a register, an unregister or the metadata
\* of a key without a document came between its load and its transaction.
PruneSparesBound ==
  [][\A t \in Thread \ (moved \union raced) : Saves(t) /\ op[t] \in PruneOps =>
       \A k \in Key : PaneOf(k) \in alive => \E j \in Key : PaneOf(j)' = PaneOf(k)]_vars

\* What a lookup, in two statements, may answer at one moment: the pane of a live
\* document that has the name as its key, its path or its session, even when the
\* name is also the key of an entry; without one, of an entry that has no document.
Answers(n) ==
  CASE DocPanes(n) # {} -> DocPanes(n)
    [] DocPanes(n) = {} /\ RowPanes(n) # {} -> RowPanes(n)
    [] OTHER -> {NoPane}

\* A lookup answers what it may answer at that moment; only when the actor has
\* written meanwhile may it miss a live document, and answer an entry or nothing.
LookupAgrees ==
  [][\A t \in Thread : (At(t, "ask") \/ At(t, "ask_rows")) /\ stage'[t] = "leave" =>
       \/ answer'[t] \in Answers(op[t].key)
       \/ t \in moved /\ answer'[t] \in RowPanes(op[t].key) \union {NoPane}]_vars

=============================================================================
