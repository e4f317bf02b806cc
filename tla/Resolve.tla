------------------------------- MODULE Resolve ------------------------------
(***************************************************************************)
(* sync_with_options (sync.rs) up to the call of reconcile: which pane     *)
(* each file of the layout gets (Phases 1, 1.5 and 1.75), the columns of   *)
(* panes (Phase 3), the session and the window they are arranged in (Phase *)
(* 4) and the pane to focus; and the call that has no pane to arrange,     *)
(* which may stash the panes of its window.                                *)
(*                                                                         *)
(* Every step is the tmux and registry reads of one decision; the queries  *)
(* of find_best_window are steps of their own.  Between two steps panes    *)
(* die, other calls move panes, and other processes bind files to panes;   *)
(* in Phase 4 a query can fail although what it asks for is there.         *)
(***************************************************************************)
EXTENDS Filter, FiniteSets

CONSTANTS File, Pane, Window, Session,
          SessionOf, \* the session of a window
          StashOf,   \* the stash window of a session
          Gone,      \* where a dead pane is
          None,      \* the absence of a file, a pane, a window or a session
          Inputs     \* the calls, each with the state it starts from

\* An input is a record of
\*   layout   sequence of columns, each a sequence of files (--col)
\*   window, focus      the arguments, or None
\*   kind     what resolve_file makes of a file
\*   wish     the tmux_session of a registered file, or None
\*   proven   pre_resolved_panes, or None
\*   may      allow_unresolved_pane_assignment
\*   busy     the panes protect_pane answers true for
\*   bound    the registry: the pane of a file, or None
\*   loc      the window of a pane, or Gone
\*   most     how many deaths, moves, bindings and failed queries come during
\*            the call
Kinds == {"unresolvable", "unmanaged", "registered"}

\* Files are in columns, each with at least one (Layout::parse).
IsLayout(cs) == cs # <<>> /\ cs \in Seq(Seq(File) \ {<<>>})

ASSUME ResolveAssumption ==
  /\ SessionOf \in [Window -> Session] /\ StashOf \in [Session -> Window]
  /\ \A s \in Session : SessionOf[StashOf[s]] = s
  /\ IsFiniteSet(Pane)
  /\ Gone \notin Window
  /\ None \notin File \union Pane \union Window \union Session

\* SyncOptions: what the caller of sync_with_options may add.
IsOptions(in) ==
  /\ in.proven \in [File -> Pane \union {None}]
  /\ in.may \in [File -> BOOLEAN]
  /\ in.busy \subseteq Pane

\* sync: nothing is proven, lent to anyone, and no pane is busy.
IsDefault(in) ==
  /\ in.proven = [f \in File |-> None]
  /\ in.may = [f \in File |-> TRUE]
  /\ in.busy = {}

\* The sync of the command line, whose resolver answers for every file that it
\* is not managed.
IsCliSync(in) == IsDefault(in) /\ in.kind = [f \in File |-> "unmanaged"]

ASSUME InputsAssumption ==
  \A in \in Inputs :
    /\ IsLayout(in.layout)
    /\ in.window \in Window \union {None}
    /\ in.focus \in File \union {None}
    /\ in.kind \in [File -> Kinds]
    /\ in.wish \in [File -> Session \union {None}]
    /\ IsOptions(in)
    /\ in.bound \in [File -> Pane \union {None}]
    /\ in.loc \in [Pane -> Window \union {Gone}]
    /\ in.most \in Nat

VARIABLES
  input,
  loc,        \* the window of every pane
  bound,      \* the registry
  ever,       \* the panes the registry has named for a file since the start
  events,     \* how much has happened meanwhile
  pc,         \* the next step
  index,      \* position in the list the step goes through
  unresolved, \* unresolved_files
  nonManaged, \* non_managed_files
  docSession, \* doc_tmux_session
  first,      \* the pane resolved has first for a file
  owned,      \* focus_owned_pane
  found,      \* file_to_pane; in Phase 1, the pane resolved has last for a file
  lead,       \* the pane of resolved.first()
  waiting,    \* the files of still_unresolved
  spares,     \* spare_panes
  left,       \* the panes the stash loop has still to visit
  moving,     \* the pane the stash loop has decided to stash
  columns,    \* pane_columns
  session,    \* target_session
  window,     \* target_window; None is the empty string
  focusPane,
  search      \* find_best_window: the panes it has still to ask for; the pane and
              \* the window it is at, and whether the pane was not seen to be in
              \* that window when its session was asked for; and the same of the
              \* best window so far, with its counts

worldVars == <<input, loc, bound, ever, events>>
fileVars  == <<unresolved, nonManaged, docSession>>
paneVars  == <<first, owned, found, lead, waiting, spares>>
stashVars == <<left, moving>>
planVars  == <<columns, session, window, focusPane, search>>
vars      == <<worldVars, pc, index, fileVars, paneVars, stashVars, planVars>>

Files        == FlattenSeq(input.layout)
Alive(p)     == p \in Pane /\ loc[p] # Gone
InWindow(w)  == {p \in Pane : loc[p] = w}
Home(p)      == SessionOf[loc[p]]
PanesIn(s)   == {p \in Pane : Alive(p) /\ Home(p) = s}

Goto(l)   == pc' = l
FromStart == index' = 1
Advance   == index' = index + 1

\* column_of: the first column with the file.
ColumnOf(f) ==
  CHOOSE k \in DOMAIN input.layout :
    /\ f \in ToSet(input.layout[k])
    /\ \A j \in DOMAIN input.layout : f \in ToSet(input.layout[j]) => k <= j

-----------------------------------------------------------------------------
(* Phase 1: the files one by one.                                          *)

File1 == Files[index]

\* A pane is found for f and pushed to resolved, of which the rest of the call
\* reads the first entry of all, and the first and the last of each file.
Own(f, p) ==
  /\ first' = [first EXCEPT ![f] = IF @ = None THEN p ELSE @]
  /\ found' = [found EXCEPT ![f] = p]
  /\ lead' = IF lead = None THEN p ELSE lead

\* A binding the caller has proven comes first, if its pane is alive.
ResolveProven ==
  /\ pc = "resolve" /\ index <= Len(Files)
  /\ Alive(input.proven[File1])
  /\ Own(File1, input.proven[File1])
  /\ Advance
  /\ UNCHANGED <<worldVars, pc, unresolved, nonManaged, docSession,
                 owned, waiting, spares, stashVars, planVars>>

\* resolve_file knows nothing of the file, or the file is not managed.
ResolveOther ==
  /\ pc = "resolve" /\ index <= Len(Files)
  /\ ~Alive(input.proven[File1])
  /\ input.kind[File1] # "registered"
  /\ nonManaged' = IF input.kind[File1] = "unmanaged" THEN nonManaged \union {File1} ELSE nonManaged
  /\ Advance
  /\ UNCHANGED <<worldVars, pc, unresolved, docSession, paneVars, stashVars, planVars>>

\* The registry is asked; a file without a live pane stays unresolved.
ResolveRegistered ==
  /\ pc = "resolve" /\ index <= Len(Files)
  /\ ~Alive(input.proven[File1])
  /\ input.kind[File1] = "registered"
  /\ docSession' = IF docSession = None THEN input.wish[File1] ELSE docSession
  /\ IF Alive(bound[File1])
     THEN Own(File1, bound[File1]) /\ UNCHANGED unresolved
     ELSE unresolved' = Append(unresolved, File1) /\ UNCHANGED <<first, found, lead>>
  /\ Advance
  /\ UNCHANGED <<worldVars, pc, nonManaged, owned, waiting, spares, stashVars, planVars>>

\* The registry cannot be read: the error ends the call.
LookupFails ==
  /\ pc = "resolve" /\ index <= Len(Files)
  /\ ~Alive(input.proven[File1])
  /\ input.kind[File1] = "registered"
  /\ Goto("failed")
  /\ UNCHANGED <<worldVars, index, fileVars, paneVars, stashVars, planVars>>

\* focus_owned_pane is captured before any pane of another file is given away.
ResolveDone ==
  /\ pc = "resolve" /\ index > Len(Files)
  /\ owned' = IF input.focus = None THEN None ELSE first[input.focus]
  /\ Goto("donate") /\ FromStart
  /\ UNCHANGED <<worldVars, fileVars, first, found, lead, waiting, spares, stashVars, planVars>>

-----------------------------------------------------------------------------
(* Phases 1.5 and 1.75: panes lent to unresolved files, in memory only.    *)

\* find_column_pane: the pane of the first file of the column that has one.
Donors(f) ==
  LET col  == input.layout[ColumnOf(f)]
      have == {r \in DOMAIN col : found[col[r]] # None}
  IN  {found[col[r]] : r \in {q \in have : \A o \in have : q <= o}}

\* Mutant: the policy of the caller is not asked.
Lendable_Always(f) == TRUE

Lendable(f) == input.may[f]

Lend(f, p) == found' = [found EXCEPT ![f] = p]

Donate ==
  /\ pc = "donate" /\ index <= Len(unresolved)
  /\ LET f == unresolved[index]
     IN  IF Lendable(f) /\ Donors(f) # {}
         THEN \E p \in Donors(f) : Lend(f, p)
         ELSE UNCHANGED found
  /\ Advance
  /\ UNCHANGED <<worldVars, pc, fileVars, first, owned, lead, waiting, spares, stashVars, planVars>>

DonateDone ==
  /\ pc = "donate" /\ index > Len(unresolved)
  /\ Goto("spareList")
  /\ UNCHANGED <<worldVars, index, fileVars, paneVars, stashVars, planVars>>

WindowOf(p) == IF Alive(p) THEN loc[p] ELSE None

\* Mutant: panes that other files have are not left out.
SparePanes_Any(w) == InWindow(w)

SparePanes(w) == InWindow(w) \ {found[f] : f \in File}

\* The spare panes of --window, or else of the window of the first pane.
SpareList ==
  /\ pc = "spareList"
  /\ LET w    == IF input.window # None THEN input.window ELSE WindowOf(lead)
         rest == {f \in ToSet(unresolved) : found[f] = None}
     IN  IF w = None \/ rest = {}
         THEN Goto("columns") /\ UNCHANGED <<waiting, spares>>
         ELSE waiting' = rest /\ spares' = SparePanes(w) /\ Goto("spare")
  /\ FromStart
  /\ UNCHANGED <<worldVars, fileVars, first, owned, found, lead, stashVars, planVars>>

Spare ==
  /\ pc = "spare" /\ index <= Len(unresolved)
  /\ LET f == unresolved[index]
     IN  IF f \in waiting /\ Lendable(f) /\ spares # {}
         THEN \E p \in spares :
                /\ Lend(f, p)
                /\ spares' = spares \ {p}
                /\ lead' = IF lead = None THEN p ELSE lead
         ELSE UNCHANGED <<found, spares, lead>>
  /\ Advance
  /\ UNCHANGED <<worldVars, pc, fileVars, first, owned, waiting, stashVars, planVars>>

SpareDone ==
  /\ pc = "spare" /\ index > Len(unresolved)
  /\ Goto("columns")
  /\ UNCHANGED <<worldVars, index, fileVars, paneVars, stashVars, planVars>>

-----------------------------------------------------------------------------
(* Phase 3.                                                                *)

PaneAt(k, r) == found[input.layout[k][r]]

\* Mutant: only the panes of one column are deduplicated.
IsRepeat_InColumn(k, r) == \E q \in 1..(r - 1) : PaneAt(k, q) = PaneAt(k, r)

\* The pane is in an earlier place of the layout already.
IsRepeat(k, r) ==
  \/ \E q \in 1..(r - 1) : PaneAt(k, q) = PaneAt(k, r)
  \/ \E j \in 1..(k - 1) : \E q \in DOMAIN input.layout[j] : PaneAt(j, q) = PaneAt(k, r)

\* The rows of column k that have a pane that is not in an earlier place.
Rows(k) == {r \in DOMAIN input.layout[k] : PaneAt(k, r) # None /\ ~IsRepeat(k, r)}

PanesOfColumn(k) ==
  LET rows == Retained([r \in DOMAIN input.layout[k] |-> r], Rows(k))
  IN  [i \in DOMAIN rows |-> PaneAt(k, rows[i])]

PaneColumns == NonEmpty([k \in DOMAIN input.layout |-> PanesOfColumn(k)])

\* Mutant: a layout that cannot be resolved just now counts as unmanaged.
MayEmpty_Transient == TRUE

\* Only with no managed file left unresolved are the panes of the window stashed.
MayEmpty == unresolved = <<>>

\* A call without a pane to arrange returns early (early_result).
ReturnEarly ==
  /\ window' = WindowOf(lead)
  /\ session' = docSession
  /\ Goto("early")

BuildColumns ==
  /\ pc = "columns"
  /\ columns' = PaneColumns
  /\ IF PaneColumns # <<>> THEN Goto("session") /\ UNCHANGED <<left, session, window>>
     ELSE IF /\ MayEmpty
             /\ input.window # None /\ InWindow(input.window) # {}
          THEN left' = InWindow(input.window) /\ Goto("empty") /\ UNCHANGED <<session, window>>
          ELSE ReturnEarly /\ UNCHANGED left
  /\ UNCHANGED <<worldVars, index, fileVars, paneVars, moving, focusPane, search>>

\* Mutant: the last pane is not spared.
IsLastPane_Never(w) == InWindow(w) = {}

IsLastPane(w) == Cardinality(InWindow(w)) <= 1

\* One round of the loop over the panes of the window.
EmptyNext ==
  /\ pc = "empty"
  /\ IF left = {} \/ IsLastPane(input.window)
     THEN ReturnEarly /\ left' = {} /\ UNCHANGED moving
     ELSE /\ \E p \in left :
               /\ left' = left \ {p}
               /\ IF p \in input.busy
                  THEN UNCHANGED <<moving, pc>>
                  ELSE moving' = p /\ Goto("emptyStash")
          /\ UNCHANGED <<session, window>>
  /\ UNCHANGED <<worldVars, index, fileVars, paneVars, columns, focusPane, search>>

\* The stash window of the session, or a new window of it.
StashPlaces(s) ==
  {StashOf[s]} \union {w \in Window : SessionOf[w] = s /\ InWindow(w) = {}}

\* stash_pane, whose failure is ignored.
EmptyStash ==
  /\ pc = "emptyStash"
  /\ \/ /\ Alive(moving)
        /\ \E w \in StashPlaces(SessionOf[input.window]) : loc' = [loc EXCEPT ![moving] = w]
     \/ UNCHANGED loc
  /\ moving' = None
  /\ Goto("empty")
  /\ UNCHANGED <<input, bound, ever, events, index, fileVars, paneVars, left, planVars>>

-----------------------------------------------------------------------------
(* Phase 4 and the focus.                                                  *)

Wanted == UNION {ToSet(columns[k]) : k \in DOMAIN columns}

\* wanted_session: the session of some wanted pane that tmux knows.
WantedSessions ==
  LET homes == {Home(p) : p \in {q \in Wanted : Alive(q)}}
  IN  IF homes = {} THEN {None} ELSE homes

Running == pc \notin {"reconcile", "early", "failed"}

Happens == Running /\ events < input.most /\ events' = events + 1

\* The session the documents ask for, if it is alive; else that of --window;
\* else that of the wanted panes.  A query that fails counts as a "no".
ChooseSession ==
  /\ pc = "session"
  /\ \E lost \in SUBSET {"session", "window", "panes"} :
       /\ IF lost = {} THEN UNCHANGED events ELSE Happens
       /\ IF docSession # None /\ PanesIn(docSession) # {} /\ "session" \notin lost
          THEN session' = docSession
          ELSE IF input.window # None /\ InWindow(input.window) # {} /\ "window" \notin lost
          THEN session' = SessionOf[input.window]
          ELSE session' \in IF "panes" \in lost THEN {None} ELSE WantedSessions
  /\ Goto("window")
  /\ UNCHANGED <<input, loc, bound, ever, index, fileVars, paneVars, stashVars,
                 columns, window, focusPane, search>>

\* Mutant: a window of any session is good.
InSession_Any(w) == TRUE

InSession(w) == session = None \/ SessionOf[w] = session

\* Mutant: a file without a pane of its own focuses the pane lent to it.
FocusFor_Lent(f) == IF f \in nonManaged THEN None ELSE found[f]

\* resolve_focus_pane, for a file.
FocusFor(f) == IF f \in nonManaged THEN None ELSE owned

\* The window is known, and with it the call of reconcile.
Arrange(w) ==
  /\ window' = w
  /\ focusPane' = IF input.focus = None THEN columns[1][1] ELSE FocusFor(input.focus)
  /\ Goto("reconcile")
  /\ UNCHANGED <<worldVars, index, fileVars, paneVars, stashVars, columns, session>>

\* --window exists and is of the session.
WindowIsValid ==
  input.window # None /\ InWindow(input.window) # {} /\ InSession(input.window)

ChooseWindow ==
  /\ pc = "window"
  /\ WindowIsValid
  /\ Arrange(input.window)
  /\ UNCHANGED search

NoBest == [window |-> None, wanted |-> 0, total |-> 0, slipped |-> FALSE]

NoSearch == [asked |-> {}, pane |-> None, window |-> None, slipped |-> FALSE, best |-> NoBest]

\* Without it, or with a query for it that fails, find_best_window begins.
SearchWindow ==
  /\ pc = "window"
  /\ IF WindowIsValid THEN Happens ELSE UNCHANGED events
  /\ search' = [NoSearch EXCEPT !.asked = Wanted]
  /\ Goto("best")
  /\ UNCHANGED <<input, loc, bound, ever, index, fileVars, paneVars, stashVars,
                 columns, session, window, focusPane>>

\* pane_window of the next wanted pane, which is left out without an answer.
AskWindow ==
  /\ pc = "best"
  /\ \E p \in search.asked :
       \/ /\ Alive(p)
          /\ search' = [search EXCEPT !.asked = @ \ {p}, !.pane = p, !.window = loc[p]]
          /\ Goto("bestSession")
          /\ UNCHANGED events
       \/ /\ IF Alive(p) THEN Happens ELSE UNCHANGED events
          /\ search' = [search EXCEPT !.asked = @ \ {p}]
          /\ UNCHANGED pc
  /\ UNCHANGED <<input, loc, bound, ever, index, fileVars, paneVars, stashVars,
                 columns, session, window, focusPane>>

\* pane_session of the same pane, asked only when there is a target session.
\* Another session leaves the pane out; no answer does not.
AskSession ==
  /\ pc = "bestSession"
  /\ \/ /\ session = None \/ Alive(search.pane)
        /\ IF session = None \/ InSession(loc[search.pane])
           THEN /\ search' = [search EXCEPT !.slipped = loc[search.pane] # search.window]
                /\ Goto("bestCount")
           ELSE /\ search' = [search EXCEPT !.pane = None, !.window = None]
                /\ Goto("best")
        /\ UNCHANGED events
     \/ /\ session # None
        /\ IF Alive(search.pane) THEN Happens ELSE UNCHANGED events
        /\ search' = [search EXCEPT !.slipped = TRUE]
        /\ Goto("bestCount")
  /\ UNCHANGED <<input, loc, bound, ever, index, fileVars, paneVars, stashVars,
                 columns, session, window, focusPane>>

\* Most wanted panes, then most panes.
Better(best) ==
  \/ best.wanted > search.best.wanted
  \/ best.wanted = search.best.wanted /\ best.total > search.best.total

\* list_window_panes of the window, which counts as empty without an answer.
CountPanes ==
  /\ pc = "bestCount"
  /\ LET panes == InWindow(search.window)
         best  == [window |-> search.window, slipped |-> search.slipped,
                   wanted |-> Cardinality(panes \intersect Wanted), total |-> Cardinality(panes)]
         rest  == [search EXCEPT !.pane = None, !.window = None, !.slipped = FALSE]
     IN  \/ /\ search' = IF Better(best) THEN [rest EXCEPT !.best = best] ELSE rest
            /\ UNCHANGED events
         \/ /\ panes # {} /\ Happens
            /\ search' = rest
  /\ Goto("best")
  /\ UNCHANGED <<input, loc, bound, ever, index, fileVars, paneVars, stashVars,
                 columns, session, window, focusPane>>

SearchDone ==
  /\ pc = "best"
  /\ search.asked = {}
  /\ Arrange(search.best.window)
  /\ UNCHANGED search

Search == SearchWindow \/ AskWindow \/ AskSession \/ CountPanes \/ SearchDone

-----------------------------------------------------------------------------
(* Meanwhile.                                                              *)

PaneDies ==
  /\ Happens
  /\ \E p \in Pane : Alive(p) /\ loc' = [loc EXCEPT ![p] = Gone]
  /\ UNCHANGED <<input, bound, ever, pc, index, fileVars, paneVars, stashVars, planVars>>

\* Another call, or the operator, moves a pane.
PaneMoves ==
  /\ Happens
  /\ \E p \in Pane, w \in Window : Alive(p) /\ loc[p] # w /\ loc' = [loc EXCEPT ![p] = w]
  /\ UNCHANGED <<input, bound, ever, pc, index, fileVars, paneVars, stashVars, planVars>>

\* Another process registers a file, or prunes it.
Rebinds ==
  /\ Happens
  /\ \E f \in File, p \in Pane \union {None} :
       /\ bound' = [bound EXCEPT ![f] = p]
       /\ ever' = [ever EXCEPT ![f] = @ \union {p}]
  /\ UNCHANGED <<input, loc, pc, index, fileVars, paneVars, stashVars, planVars>>

Init ==
  /\ input \in Inputs
  /\ loc = input.loc /\ bound = input.bound
  /\ ever = [f \in File |-> {input.bound[f]}]
  /\ events = 0
  /\ pc = "resolve" /\ index = 1
  /\ unresolved = <<>> /\ nonManaged = {} /\ docSession = None
  /\ first = [f \in File |-> None] /\ owned = None /\ found = [f \in File |-> None]
  /\ lead = None /\ waiting = {} /\ spares = {} /\ left = {} /\ moving = None
  /\ columns = <<>> /\ session = None /\ window = None /\ focusPane = None
  /\ search = NoSearch

Resolving == ResolveProven \/ ResolveOther \/ ResolveRegistered \/ LookupFails \/ ResolveDone

Lending == Donate \/ DonateDone \/ SpareList \/ Spare \/ SpareDone

Planning == BuildColumns \/ EmptyNext \/ EmptyStash \/ ChooseSession \/ ChooseWindow \/ Search

Next == Resolving \/ Lending \/ Planning \/ PaneDies \/ PaneMoves \/ Rebinds

Spec == Init /\ [][Next]_vars

-----------------------------------------------------------------------------
(* Properties.                                                             *)

\* The pane of a file's own binding: one the caller has proven or the registry
\* has named for it during the call.
OwnPanes(f) == {input.proven[f]} \union ever[f]

\* Focus never goes to a pane of another document: the pane to focus for a file
\* is one of the file's own, although files without a live pane have been lent
\* the panes of their neighbours meanwhile.
FocusIsOwned ==
  input.focus # None /\ focusPane # None => focusPane \in OwnPanes(input.focus)

\* A file that its caller does not allow to borrow a pane gets none but its own,
\* in either of the two phases that lend.
PolicyRespected ==
  \A f \in File : found[f] # None /\ ~input.may[f] => found[f] \in OwnPanes(f)

\* What reconcile is given keeps its assumption: at least one pane, and no pane
\* twice, although files share panes, borrow them and are repeated.
CallIsLegal ==
  pc = "reconcile" =>
    /\ columns # <<>>
    /\ \A k, j \in DOMAIN columns : \A r \in DOMAIN columns[k], q \in DOMAIN columns[j] :
         columns[k][r] = columns[j][q] => k = j /\ r = q

\* A transient failure never empties a window: panes are stashed only when the
\* layout has no file of the registry, whose pane may just be dead or replaced.
OnlyUnmanagedEmptied ==
  pc \in {"empty", "emptyStash"} => \A f \in ToSet(Files) : input.kind[f] # "registered"

\* The loop that empties a window leaves it a pane, unless panes die or are moved
\* away by others meanwhile.
WindowIsLeft ==
  /\ input.window # None /\ events = 0
  /\ \E p \in Pane : input.loc[p] = input.window
  => InWindow(input.window) # {}

\* A pane lent from the spare ones of the window is no other file's.
SparesAreFree ==
  [][pc = "spare" =>
       \A f, g \in File : (f # g /\ found'[f] # found[f]) => found'[f] # found'[g]]_vars

\* The columns are arranged in a window of the target session, unless it is one
\* of find_best_window whose pane died or moved between the questions for its
\* window and for its session, or whose second question failed.  And there is
\* no window only if the session has none of the wanted panes, as long as nothing
\* happens and no query fails meanwhile.
TargetIsSound ==
  pc = "reconcile" =>
    /\ window # None /\ session # None =>
         SessionOf[window] = session \/ (window = search.best.window /\ search.best.slipped)
    /\ window = None /\ events = 0 => session # None /\ \A p \in Wanted : Home(p) # session

\* A file that is registered with a live pane is found ("Users can register
\* files first, then sync will find them").
RegisteredAreFound ==
  pc \in {"early", "reconcile"} /\ events = 0 =>
    \A f \in ToSet(Files) : Alive(bound[f]) => found[f] # None

=============================================================================
