----------------------------- MODULE ResolveProofs -----------------------------
(***************************************************************************)
(* Theorems about Resolve, for any files, panes, windows and calls.  What  *)
(* is found in Phase 1 is a file's own; what is lent afterwards changes    *)
(* the map of the panes, never the pane captured for the focus; and the    *)
(* loop that empties a window moves one of at least two panes.             *)
(***************************************************************************)
EXTENDS Resolve, LayoutProofs, FiniteSetTheorems

-----------------------------------------------------------------------------
(* What the variables are.                                                 *)

Shapes ==
  /\ input \in Inputs
  /\ DOMAIN loc = Pane /\ loc = [p \in Pane |-> loc[p]]
  /\ bound \in [File -> Pane \union {None}]
  /\ ever \in [File -> SUBSET (Pane \union {None})]
  /\ events \in Nat /\ index \in Nat \ {0}
  /\ unresolved \in Seq(File)
  /\ first = [f \in File |-> first[f]]
  /\ found = [f \in File |-> found[f]]

\* The files of a call.
LEMMA CallFiles ==
  ASSUME input \in Inputs
  PROVE  /\ Files \in Seq(File)
         /\ input.focus \in File \union {None}
         /\ input.proven \in [File -> Pane \union {None}]
         /\ input.may \in [File -> BOOLEAN]
         /\ input.window \in Window \union {None}
         /\ input.bound \in [File -> Pane \union {None}]
         /\ input.loc \in [Pane -> Window \union {Gone}]
<1>1. input.layout \in Seq(Seq(File))
  BY InputsAssumption, \A S, T : S \subseteq T => Seq(S) \subseteq Seq(T) DEF IsLayout
<1>2. Files \in Seq(File)
  BY <1>1, FlattenParts DEF Files
<1> QED
  BY <1>2, InputsAssumption DEF IsOptions

\* The file Phase 1 is at.
LEMMA FileAt ==
  ASSUME Shapes, index <= Len(Files)
  PROVE  File1 \in File
<1>1. Files \in Seq(File)
  BY CallFiles DEF Shapes
<1>2. index \in 1..Len(Files)
  BY <1>1 DEF Shapes
<1>3. QED
  BY <1>1, <1>2 DEF File1

PhaseFour == {"window", "best", "bestSession", "bestCount"}

\* What finding the window leaves alone.  Something has happened if a query fails.
LEMMA SearchLeaves ==
  ASSUME Shapes, ChooseWindow \/ Search
  PROVE  /\ UNCHANGED <<input, loc, bound, ever, index, fileVars, paneVars, stashVars, columns, session>>
         /\ pc \in PhaseFour /\ pc' \in (PhaseFour \ {"window"}) \union {"reconcile"}
         /\ events' = events \/ (events' # 0 /\ events' \in Nat)
         /\ \/ UNCHANGED focusPane
            \/ focusPane' = IF input.focus = None THEN columns[1][1] ELSE FocusFor(input.focus)
<1> USE DEF worldVars, Goto, PhaseFour, Shapes, Happens
<1>1. CASE ChooseWindow
  BY <1>1 DEF ChooseWindow, Arrange
<1>2. CASE SearchWindow
  BY <1>2 DEF SearchWindow
<1>3. CASE AskWindow
  BY <1>3 DEF AskWindow
<1>4. CASE AskSession
  BY <1>4 DEF AskSession
<1>5. CASE CountPanes
  BY <1>5 DEF CountPanes
<1>6. CASE SearchDone
  BY <1>6 DEF SearchDone, Arrange
<1> QED
  BY <1>1, <1>2, <1>3, <1>4, <1>5, <1>6 DEF Search

\* Every action keeps Shapes.
LEMMA ShapesInductive == Shapes /\ [Next]_vars => Shapes'
<1> SUFFICES ASSUME Shapes, [Next]_vars PROVE Shapes'
  OBVIOUS
<1> USE DEF Shapes, worldVars, fileVars, paneVars, FromStart, Advance, Goto
<1>1. ASSUME ResolveProven PROVE Shapes'
  <2>1. File1 \in File
    BY <1>1, FileAt DEF ResolveProven
  <2>2. first' = [f \in File |-> first'[f]] /\ found' = [f \in File |-> found'[f]]
    BY <1>1, <2>1 DEF ResolveProven, Own
  <2>3. QED
    BY <1>1, <2>2 DEF ResolveProven
<1>2. ASSUME ResolveOther \/ LookupFails \/ ResolveDone PROVE Shapes'
  BY <1>2 DEF ResolveOther, LookupFails, ResolveDone
<1>3. ASSUME ResolveRegistered PROVE Shapes'
  <2>1. File1 \in File
    BY <1>3, FileAt DEF ResolveRegistered
  <2>2. unresolved' \in Seq(File)
    <3>1. unresolved' = unresolved \/ unresolved' = Append(unresolved, File1)
      BY <1>3 DEF ResolveRegistered
    <3>2. QED
      BY <2>1, <3>1
  <2>3. first' = [f \in File |-> first'[f]] /\ found' = [f \in File |-> found'[f]]
    BY <1>3, <2>1 DEF ResolveRegistered, Own
  <2>4. index' \in Nat \ {0}
    BY <1>3 DEF ResolveRegistered
  <2>5. UNCHANGED worldVars
    BY <1>3 DEF ResolveRegistered
  <2>6. QED
    BY <2>2, <2>3, <2>4, <2>5
<1>4. ASSUME Donate PROVE Shapes'
  BY <1>4 DEF Donate, Lend
<1>5. ASSUME DonateDone \/ SpareList \/ SpareDone PROVE Shapes'
  BY <1>5 DEF DonateDone, SpareList, SpareDone
<1>6. ASSUME Spare PROVE Shapes'
  BY <1>6 DEF Spare, Lend
<1>7. ASSUME BuildColumns \/ EmptyNext PROVE Shapes'
  BY <1>7 DEF BuildColumns, EmptyNext
<1>13. ASSUME ChooseSession PROVE Shapes'
  BY <1>13 DEF ChooseSession, Happens
<1>14. ASSUME ChooseWindow \/ Search PROVE Shapes'
  BY <1>14, SearchLeaves
<1>8. ASSUME EmptyStash PROVE Shapes'
  BY <1>8 DEF EmptyStash
<1>9. ASSUME PaneDies \/ PaneMoves PROVE Shapes'
  BY <1>9 DEF PaneDies, PaneMoves, Happens
<1>10. ASSUME Rebinds PROVE Shapes'
  BY <1>10 DEF Rebinds, Happens
<1>11. ASSUME UNCHANGED vars PROVE Shapes'
  BY <1>11 DEF vars
<1>12. QED
  BY <1>1, <1>2, <1>3, <1>4, <1>5, <1>6, <1>7, <1>8, <1>9, <1>10, <1>11, <1>13, <1>14
    DEF Next, Resolving, Lending, Planning

\* A call starts so.
LEMMA InitShapes == Init => Shapes
BY CallFiles DEF Init, Shapes

-----------------------------------------------------------------------------
(* Own panes and lent panes.                                               *)

\* What Phase 1 has found for a file, what was captured for the focus and what a
\* file has that may not borrow, is the file's own.
Owned ==
  /\ \A f \in File : bound[f] \in ever[f]
  /\ \A f \in File : first[f] # None => first[f] \in OwnPanes(f)
  /\ owned # None => input.focus # None /\ owned \in OwnPanes(input.focus)
  /\ FocusIsOwned
  /\ PolicyRespected

\* The panes that are to be lent are no file's.
SparesFree == pc = "spare" => \A f \in File : found[f] \notin spares

\* While the call resolves, found[f] of a file that may not borrow is its own.
LEMMA OwnedInductive == Shapes /\ Owned /\ [Next]_vars => Owned'
<1> SUFFICES ASSUME Shapes, Owned, [Next]_vars PROVE Owned'
  OBVIOUS
<1>0. input.focus \in File \union {None} /\ input.may \in [File -> BOOLEAN]
  BY CallFiles DEF Shapes
<1> USE DEF Owned, FocusIsOwned, PolicyRespected, OwnPanes, worldVars, fileVars, paneVars, planVars,
  FromStart, Advance, Goto
<1>1. ASSUME ResolveProven PROVE Owned'
  BY <1>1, FileAt DEF ResolveProven, Own, Shapes
<1>2. ASSUME ResolveOther \/ LookupFails \/ DonateDone \/ SpareList \/ SpareDone PROVE Owned'
  BY <1>2 DEF ResolveOther, LookupFails, DonateDone, SpareList, SpareDone
<1>3. ASSUME ResolveRegistered PROVE Owned'
  BY <1>3, FileAt DEF ResolveRegistered, Own, Shapes
<1>4. ASSUME ResolveDone PROVE Owned'
  BY <1>4, <1>0 DEF ResolveDone
<1>5. ASSUME Donate PROVE Owned'
  BY <1>5, <1>0 DEF Donate, Lend, Lendable, Shapes
<1>6. ASSUME Spare PROVE Owned'
  BY <1>6, <1>0 DEF Spare, Lend, Lendable, Shapes
<1>7. ASSUME BuildColumns \/ EmptyNext \/ EmptyStash \/ ChooseSession PROVE Owned'
  BY <1>7 DEF BuildColumns, ReturnEarly, EmptyNext, EmptyStash, ChooseSession
<1>8. ASSUME ChooseWindow \/ Search PROVE Owned'
  <2>1. UNCHANGED <<input, bound, ever, fileVars, paneVars>>
    BY <1>8, SearchLeaves
  <2>2. \/ UNCHANGED focusPane
        \/ focusPane' = IF input.focus = None THEN columns[1][1] ELSE FocusFor(input.focus)
    BY <1>8, SearchLeaves
  <2> QED
    BY <1>0, <2>1, <2>2 DEF FocusFor
<1>9. ASSUME PaneDies \/ PaneMoves PROVE Owned'
  BY <1>9 DEF PaneDies, PaneMoves, Happens
<1>10. ASSUME Rebinds PROVE Owned'
  <2>1. \A f \in File : ever[f] \subseteq ever'[f] /\ bound'[f] \in ever'[f]
    BY <1>10 DEF Rebinds, Shapes
  <2>2. UNCHANGED <<input, first, owned, found, focusPane>>
    BY <1>10 DEF Rebinds
  <2>3. QED
    BY <1>0, <2>1, <2>2
<1>11. ASSUME UNCHANGED vars PROVE Owned'
  BY <1>11 DEF vars
<1>12. QED
  BY <1>1, <1>2, <1>3, <1>4, <1>5, <1>6, <1>7, <1>8, <1>9, <1>10, <1>11
    DEF Next, Resolving, Lending, Planning

\* Every action keeps SparesFree, and no pane is lent in Phase 1.75 that a file has.
LEMMA SparesInductive ==
  Shapes /\ SparesFree /\ [Next]_vars =>
    /\ SparesFree'
    /\ pc = "spare" =>
         \A f, g \in File : (f # g /\ found'[f] # found[f]) => found'[f] # found'[g]
<1> SUFFICES ASSUME Shapes, SparesFree, [Next]_vars
             PROVE  /\ SparesFree'
                    /\ pc = "spare" =>
                         \A f, g \in File :
                           (f # g /\ found'[f] # found[f]) => found'[f] # found'[g]
  OBVIOUS
<1> USE DEF SparesFree, worldVars, fileVars, paneVars, Goto
<1>1. CASE Spare
  <2>1. found' = found \/ \E f \in File, p \in spares :
          found' = [found EXCEPT ![f] = p] /\ spares' = spares \ {p}
    <3>1. index \in 1..Len(unresolved)
      BY <1>1 DEF Spare, Shapes
    <3>2. unresolved[index] \in File
      BY <3>1 DEF Shapes
    <3>3. QED
      BY <1>1, <3>2 DEF Spare, Lend
  <2>2. spares' \subseteq spares /\ pc' = "spare" /\ pc = "spare"
    BY <1>1 DEF Spare
  <2>3. QED
    BY <2>1, <2>2 DEF Shapes
<1>2. CASE SpareList
  BY <1>2 DEF SpareList, SparePanes
<1>3. CASE Resolving \/ Donate \/ DonateDone \/ SpareDone
  BY <1>3 DEF Resolving, ResolveProven, ResolveOther, ResolveRegistered, LookupFails, ResolveDone,
    Donate, DonateDone, SpareDone
<1>4. CASE BuildColumns \/ EmptyNext \/ EmptyStash \/ ChooseSession
  BY <1>4 DEF BuildColumns, ReturnEarly, EmptyNext, EmptyStash, ChooseSession
<1>8. CASE ChooseWindow \/ Search
  <2>1. UNCHANGED <<found, spares>> /\ pc # "spare" /\ pc' # "spare"
    BY <1>8, SearchLeaves DEF PhaseFour
  <2> QED
    BY <2>1
<1>5. CASE PaneDies \/ PaneMoves \/ Rebinds
  BY <1>5 DEF PaneDies, PaneMoves, Rebinds
<1>6. CASE UNCHANGED vars
  BY <1>6 DEF vars
<1>7. QED
  BY <1>1, <1>2, <1>3, <1>4, <1>5, <1>6, <1>8 DEF Next, Lending, Planning

\* A call starts with nothing found and nothing lent.
LEMMA InitOwned == Init => Owned /\ SparesFree
BY CallFiles DEF Init, Owned, SparesFree, FocusIsOwned, PolicyRespected, OwnPanes

\* What the two invariants say of every reachable state.
LEMMA LendingInvariance == Spec => [](Shapes /\ Owned /\ SparesFree)
<1>1. Shapes /\ Owned /\ SparesFree /\ [Next]_vars => (Shapes /\ Owned /\ SparesFree)'
  BY ShapesInductive, OwnedInductive, SparesInductive
<1>2. QED
  BY <1>1, InitShapes, InitOwned, PTL DEF Spec

\* Focus goes to the file's own pane only, however panes are shared, borrowed,
\* moved and bound meanwhile.
THEOREM FocusOwned == Spec => []FocusIsOwned
<1>1. Owned => FocusIsOwned
  BY DEF Owned
<1>2. QED
  BY <1>1, LendingInvariance, PTL

\* The caller's policy holds in both phases that lend.
THEOREM PolicyKept == Spec => []PolicyRespected
<1>1. Owned => PolicyRespected
  BY DEF Owned
<1>2. QED
  BY <1>1, LendingInvariance, PTL

\* A spare pane is lent to one file.
THEOREM SparesLentOnce == Spec => SparesAreFree
<1>1. Shapes /\ SparesFree /\ [Next]_vars =>
        [pc = "spare" =>
           \A f, g \in File : (f # g /\ found'[f] # found[f]) => found'[f] # found'[g]]_vars
  BY SparesInductive
<1>2. QED
  BY <1>1, LendingInvariance, PTL DEF Spec, SparesAreFree

-----------------------------------------------------------------------------
(* The window that is emptied.                                             *)

HadPane == input.window # None /\ \E p \in Pane : input.loc[p] = input.window

\* As long as nothing happens meanwhile, the window keeps a pane, and has two
\* when one is about to be stashed.
WindowKept ==
  events = 0 =>
    /\ HadPane => \E p \in Pane : loc[p] = input.window
    /\ pc = "emptyStash" =>
         \E p, q \in Pane : p # q /\ loc[p] = input.window /\ loc[q] = input.window

\* More than one pane means two.
LEMMA TwoPanes ==
  ASSUME NEW S \in SUBSET Pane, ~(Cardinality(S) <= 1)
  PROVE  \E p, q \in S : p # q
<1> SUFFICES ASSUME \A p, q \in S : p = q PROVE FALSE
  OBVIOUS
<1>1. CASE S = {}
  BY <1>1, FS_EmptySet
<1>2. CASE S # {}
  <2>1. PICK p \in S : TRUE
    BY <1>2
  <2>2. S = {p}
    BY <2>1
  <2>3. Cardinality({p}) = 1
    BY FS_Singleton
  <2>4. QED
    BY <2>2, <2>3
<1>3. QED
  BY <1>1, <1>2

\* Every action keeps WindowKept.
LEMMA WindowInductive == Shapes /\ WindowKept /\ [Next]_vars => WindowKept'
<1> SUFFICES ASSUME Shapes, WindowKept, [Next]_vars PROVE WindowKept'
  OBVIOUS
<1> USE DEF WindowKept, HadPane, worldVars, Goto
<1>1. CASE EmptyNext
  <2>1. pc' = "emptyStash" => ~IsLastPane(input.window)
    BY <1>1 DEF EmptyNext, ReturnEarly
  <2>2. pc' = "emptyStash" => \E p, q \in InWindow(input.window) : p # q
    BY <2>1, TwoPanes DEF IsLastPane, InWindow
  <2>3. QED
    BY <1>1, <2>2 DEF EmptyNext, InWindow
<1>2. CASE EmptyStash
  <2>1. /\ pc = "emptyStash" /\ pc' = "empty" /\ input' = input /\ events' = events
        /\ \A p \in Pane : p # moving => loc'[p] = loc[p]
    BY <1>2 DEF EmptyStash, Shapes
  <2>2. QED
    BY <2>1
<1>3. CASE PaneDies \/ PaneMoves \/ Rebinds
  <2>1. events' # 0
    BY <1>3 DEF PaneDies, PaneMoves, Rebinds, Happens, Shapes
  <2>2. QED
    BY <2>1
<1>4. CASE Resolving \/ Lending
  BY <1>4 DEF Resolving, ResolveProven, ResolveOther, ResolveRegistered, LookupFails, ResolveDone,
    Lending, Donate, DonateDone, SpareList, Spare, SpareDone
<1>5. CASE BuildColumns \/ ChooseSession
  BY <1>5 DEF BuildColumns, ReturnEarly, ChooseSession, Happens, Shapes
<1>8. CASE ChooseWindow \/ Search
  BY <1>8, SearchLeaves DEF PhaseFour
<1>6. CASE UNCHANGED vars
  BY <1>6 DEF vars
<1>7. QED
  BY <1>1, <1>2, <1>3, <1>4, <1>5, <1>6, <1>8 DEF Next, Planning

\* The stash of unmanaged panes never takes the last pane of the window, for any
\* number of panes, however many of the moves fail.
THEOREM WindowNotEmptied == Spec => []WindowIsLeft
<1>1. Init => WindowKept
  BY DEF Init, WindowKept, HadPane
<1>2. Shapes /\ WindowKept /\ [Next]_vars => WindowKept'
  BY WindowInductive
<1>3. WindowKept => WindowIsLeft
  BY DEF WindowKept, HadPane, WindowIsLeft, InWindow
<1>4. QED
  BY <1>1, <1>2, <1>3, InitShapes, ShapesInductive, PTL DEF Spec

-----------------------------------------------------------------------------
(* The columns.                                                            *)

\* The layout of a call, and its places.
LEMMA LayoutShape ==
  ASSUME input \in Inputs
  PROVE  /\ input.layout \in Seq(Seq(File)) /\ Len(input.layout) \in Nat
         /\ DOMAIN input.layout = 1..Len(input.layout)
         /\ \A k \in 1..Len(input.layout) :
              /\ input.layout[k] \in Seq(File) /\ Len(input.layout[k]) \in Nat
              /\ DOMAIN input.layout[k] = 1..Len(input.layout[k])
         /\ \A i \in 1..Len(Files) :
              \E k \in 1..Len(input.layout) : \E r \in DOMAIN input.layout[k] :
                Files[i] = input.layout[k][r]
<1>1. input.layout \in Seq(Seq(File))
  BY InputsAssumption, \A S, T : S \subseteq T => Seq(S) \subseteq Seq(T) DEF IsLayout
<1>2. \A k \in 1..Len(input.layout) : input.layout[k] \in Seq(File)
  BY <1>1
<1>3. \A t \in Seq(File) : Len(t) \in Nat /\ DOMAIN t = 1..Len(t)
  OBVIOUS
<1>4. Len(input.layout) \in Nat /\ DOMAIN input.layout = 1..Len(input.layout)
  BY <1>1
<1>5. \A i \in 1..Len(Files) :
        \E k \in 1..Len(input.layout) : \E r \in 1..Len(input.layout[k]) :
          Files[i] = input.layout[k][r]
  BY <1>1, FlattenParts DEF Files
<1> QED
  BY <1>1, <1>2, <1>3, <1>4, <1>5, Zenon

\* The panes of a column are those of its rows that are kept, in their order.
LEMMA ColumnRows ==
  ASSUME input \in Inputs, NEW k \in 1..Len(input.layout)
  PROVE  \E rows \in Seq(Nat) :
           /\ PanesOfColumn(k) = [i \in 1..Len(rows) |-> PaneAt(k, rows[i])]
           /\ \A i \in 1..Len(rows) : rows[i] \in Rows(k)
           /\ \A i, j \in 1..Len(rows) : i < j => rows[i] < rows[j]
           /\ rows = <<>> <=> Rows(k) = {}
<1> DEFINE n == Len(input.layout[k])
           all == [r \in DOMAIN input.layout[k] |-> r]
           rows == Retained(all, Rows(k))
<1>1. n \in Nat /\ DOMAIN input.layout[k] = 1..n
  BY LayoutShape
<1>2. all = [r \in 1..n |-> r]
  BY <1>1
<1> HIDE DEF n, all
<1>3. all \in Seq(Nat) /\ Len(all) = n /\ \A r \in 1..n : all[r] = r
  BY <1>1, <1>2
<1>4. rows \in Seq(Nat)
  BY <1>3, RetainedPositions
<1>5. PICK at : Picks(all, n, Rows(k), rows, at)
  BY <1>3, RetainedPositions
<1>6. rows = <<>> <=> \A r \in 1..n : r \notin Rows(k)
  BY <1>3, RetainedNothing
<1>7. Rows(k) \subseteq 1..n
  BY <1>1 DEF Rows
<1>8. \A i \in 1..Len(rows) : rows[i] = at[i] /\ rows[i] \in Rows(k)
  BY <1>3, <1>5 DEF Picks
<1>9. \A i, j \in 1..Len(rows) : i < j => rows[i] < rows[j]
  BY <1>5, <1>8 DEF Picks
<1>10. PanesOfColumn(k) = [i \in 1..Len(rows) |-> PaneAt(k, rows[i])]
  BY <1>4 DEF PanesOfColumn, all
<1> HIDE DEF rows
<1> QED
  BY <1>4, <1>6, <1>7, <1>8, <1>9, <1>10

\* Two places whose panes are kept have different panes.
LEMMA PlacesDiffer ==
  ASSUME input \in Inputs,
         NEW k \in 1..Len(input.layout), NEW j \in 1..Len(input.layout),
         NEW r \in Rows(k), NEW q \in Rows(j), PaneAt(k, r) = PaneAt(j, q)
  PROVE  k = j /\ r = q
<1>1. \A i \in 1..Len(input.layout) : DOMAIN input.layout[i] \subseteq Nat \ {0}
  BY LayoutShape, SMTT(20)
<1>2. r \in DOMAIN input.layout[k] /\ q \in DOMAIN input.layout[j]
  BY DEF Rows
<1>3. r \in Nat \ {0} /\ q \in Nat \ {0} /\ k \in Nat \ {0} /\ j \in Nat \ {0}
  BY <1>1, <1>2, LayoutShape
<1>4. ~IsRepeat(k, r) /\ ~IsRepeat(j, q)
  BY DEF Rows
<1>5. ~(k < j)
  <2>1. SUFFICES ASSUME k < j PROVE FALSE
    OBVIOUS
  <2>2. k \in 1..(j - 1)
    BY <1>3, <2>1
  <2>3. QED
    BY <1>2, <1>4, <2>2 DEF IsRepeat
<1>6. ~(j < k)
  <2>1. SUFFICES ASSUME j < k PROVE FALSE
    OBVIOUS
  <2>2. j \in 1..(k - 1)
    BY <1>3, <2>1
  <2>3. QED
    BY <1>2, <1>4, <2>2 DEF IsRepeat
<1>7. k = j
  BY <1>3, <1>5, <1>6
<1>8. ~(r < q)
  <2>1. SUFFICES ASSUME r < q PROVE FALSE
    OBVIOUS
  <2>2. r \in 1..(q - 1)
    BY <1>3, <2>1
  <2>3. QED
    BY <1>4, <1>7, <2>2 DEF IsRepeat
<1>9. ~(q < r)
  <2>1. SUFFICES ASSUME q < r PROVE FALSE
    OBVIOUS
  <2>2. q \in 1..(r - 1)
    BY <1>3, <2>1
  <2>3. QED
    BY <1>4, <1>7, <2>2 DEF IsRepeat
<1> QED
  BY <1>3, <1>7, <1>8, <1>9

\* No pane is twice in these columns.
NoPaneTwice(cs) ==
  \A k, j \in DOMAIN cs : \A r \in DOMAIN cs[k], q \in DOMAIN cs[j] :
    cs[k][r] = cs[j][q] => k = j /\ r = q

\* Every column has a pane, and every pane of a column was found for a file.
AllFound(cs) ==
  \A k \in DOMAIN cs :
    /\ 1 \in DOMAIN cs[k]
    /\ \A r \in DOMAIN cs[k] : \E f \in File : cs[k][r] = found[f] /\ found[f] # None

\* Columns of found panes, none of them twice; and no column only if no file
\* has a pane.
LEMMA ColumnsLegal ==
  ASSUME input \in Inputs
  PROVE  /\ NoPaneTwice(PaneColumns)
         /\ AllFound(PaneColumns)
         /\ PaneColumns = <<>> => \A i \in 1..Len(Files) : found[Files[i]] = None
         /\ PaneColumns # <<>> => 1 \in DOMAIN PaneColumns
<1> DEFINE n == Len(input.layout)
           all == [k \in DOMAIN input.layout |-> PanesOfColumn(k)]
           S == {PanesOfColumn(k) : k \in 1..n}
           K == ToSet(all) \ {<<>>}
<1>1. n \in Nat /\ DOMAIN input.layout = 1..n
  BY LayoutShape
<1>2. all = [k \in 1..n |-> PanesOfColumn(k)]
  BY <1>1
<1>3. PaneColumns = Retained(all, K)
  BY DEF PaneColumns, NonEmpty
<1> HIDE DEF n, all
<1>4. all \in Seq(S) /\ Len(all) = n /\ \A k \in 1..n : all[k] = PanesOfColumn(k)
  BY <1>1, <1>2
<1>5. K = S \ {<<>>}
  BY <1>4 DEF ToSet
<1> HIDE DEF K, S
<1>6. PaneColumns \in Seq(S)
  BY <1>3, <1>4, RetainedPositions
<1>7. PICK at : Picks(all, n, K, PaneColumns, at)
  BY <1>3, <1>4, RetainedPositions
<1>8. DOMAIN PaneColumns = 1..Len(PaneColumns) /\ Len(PaneColumns) \in Nat
  BY <1>6
<1>9. \A k \in DOMAIN PaneColumns :
        at[k] \in 1..n /\ PaneColumns[k] = PanesOfColumn(at[k]) /\ PaneColumns[k] # <<>>
  BY <1>4, <1>5, <1>7, <1>8 DEF Picks
<1>10. \A k, j \in DOMAIN PaneColumns : at[k] = at[j] => k = j
  BY <1>1, <1>7, <1>8, <1>9 DEF Picks
<1>11. NoPaneTwice(PaneColumns)
  <2> SUFFICES ASSUME NEW k \in DOMAIN PaneColumns, NEW j \in DOMAIN PaneColumns,
                      NEW r \in DOMAIN PaneColumns[k], NEW q \in DOMAIN PaneColumns[j],
                      PaneColumns[k][r] = PaneColumns[j][q]
               PROVE  k = j /\ r = q
    BY DEF NoPaneTwice
  <2>1. PICK rows \in Seq(Nat) :
          /\ PanesOfColumn(at[k]) = [i \in 1..Len(rows) |-> PaneAt(at[k], rows[i])]
          /\ \A i \in 1..Len(rows) : rows[i] \in Rows(at[k])
          /\ \A i, h \in 1..Len(rows) : i < h => rows[i] < rows[h]
    BY <1>9, ColumnRows DEF n
  <2>2. PICK qows \in Seq(Nat) :
          /\ PanesOfColumn(at[j]) = [i \in 1..Len(qows) |-> PaneAt(at[j], qows[i])]
          /\ \A i \in 1..Len(qows) : qows[i] \in Rows(at[j])
          /\ \A i, h \in 1..Len(qows) : i < h => qows[i] < qows[h]
    BY <1>9, ColumnRows DEF n
  <2>3. r \in 1..Len(rows) /\ PaneColumns[k][r] = PaneAt(at[k], rows[r])
    BY <1>9, <2>1
  <2>4. q \in 1..Len(qows) /\ PaneColumns[j][q] = PaneAt(at[j], qows[q])
    BY <1>9, <2>2
  <2>5. at[k] = at[j] /\ rows[r] = qows[q]
    <3>1. rows[r] \in Rows(at[k]) /\ qows[q] \in Rows(at[j])
      BY <2>1, <2>2, <2>3, <2>4
    <3>2. PaneAt(at[k], rows[r]) = PaneAt(at[j], qows[q])
      BY <2>3, <2>4
    <3>3. at[k] \in 1..Len(input.layout) /\ at[j] \in 1..Len(input.layout)
      BY <1>9 DEF n
    <3> QED
      BY ONLY <3>1, <3>2, <3>3, PlacesDiffer, input \in Inputs
  <2>6. k = j
    BY <1>10, <2>5
  <2>7. PaneColumns[k][r] = PaneAt(at[k], rows[r]) /\ q \in 1..Len(rows)
    BY <1>9, <2>1, <2>3, <2>6
  <2>8. PaneColumns[k][q] = PaneAt(at[k], rows[q])
    BY <1>9, <2>1, <2>7
  <2>9. rows[r] = rows[q]
    <3>1. rows[r] \in Rows(at[k]) /\ rows[q] \in Rows(at[k])
      BY <2>1, <2>3, <2>7
    <3>2. PaneAt(at[k], rows[r]) = PaneAt(at[k], rows[q])
      BY <2>6, <2>7, <2>8
    <3>3. at[k] \in 1..Len(input.layout)
      BY <1>9 DEF n
    <3> QED
      BY ONLY <3>1, <3>2, <3>3, PlacesDiffer, input \in Inputs
  <2>10. rows[r] \in Nat /\ rows[q] \in Nat /\ r \in Nat /\ q \in Nat
    BY <2>1, <2>3, <2>7
  <2>11. r = q
    BY <2>1, <2>3, <2>7, <2>9, <2>10
  <2> QED
    BY <2>6, <2>11
<1>12. AllFound(PaneColumns)
  <2> SUFFICES ASSUME NEW k \in DOMAIN PaneColumns
               PROVE  /\ 1 \in DOMAIN PaneColumns[k]
                      /\ \A r \in DOMAIN PaneColumns[k] :
                           \E f \in File : PaneColumns[k][r] = found[f] /\ found[f] # None
    BY DEF AllFound
  <2>1. PICK rows \in Seq(Nat) :
          /\ PanesOfColumn(at[k]) = [i \in 1..Len(rows) |-> PaneAt(at[k], rows[i])]
          /\ \A i \in 1..Len(rows) : rows[i] \in Rows(at[k])
    BY <1>9, ColumnRows DEF n
  <2>2. Len(rows) # 0
    <3>1. SUFFICES ASSUME Len(rows) = 0 PROVE FALSE
      OBVIOUS
    <3>2. PanesOfColumn(at[k]) = <<>>
      BY <2>1, <3>1
    <3>3. QED
      BY <1>9, <3>2
  <2>3. 1 \in DOMAIN PaneColumns[k]
    BY <1>9, <2>1, <2>2
  <2>4. ASSUME NEW r \in DOMAIN PaneColumns[k]
        PROVE  \E f \in File : PaneColumns[k][r] = found[f] /\ found[f] # None
    <3>1. r \in 1..Len(rows) /\ PaneColumns[k][r] = PaneAt(at[k], rows[r]) /\ rows[r] \in Rows(at[k])
      BY <1>9, <2>1
    <3>2. rows[r] \in DOMAIN input.layout[at[k]] /\ PaneAt(at[k], rows[r]) # None
      BY <3>1 DEF Rows
    <3>3. input.layout[at[k]] \in Seq(File)
      BY <1>9, LayoutShape DEF n
    <3>4. input.layout[at[k]][rows[r]] \in File
      BY <3>2, <3>3
    <3> QED
      BY <3>1, <3>2, <3>4 DEF PaneAt
  <2> QED
    BY <2>3, <2>4
<1>13. ASSUME PaneColumns = <<>>, NEW i \in 1..Len(Files) PROVE found[Files[i]] = None
  <2> SUFFICES ASSUME found[Files[i]] # None PROVE FALSE
    OBVIOUS
  <2> DEFINE Filled(k) == {r \in DOMAIN input.layout[k] : PaneAt(k, r) # None}
             Cols == {k \in 1..n : Filled(k) # {}}
  <2>1. PICK k0 \in 1..n : \E r \in DOMAIN input.layout[k0] : Files[i] = input.layout[k0][r]
    BY LayoutShape DEF n
  <2>2. k0 \in Cols
    BY <2>1 DEF PaneAt
  <2>3. PICK k \in Cols : \A j \in Cols : k <= j
    <3>1. Cols \in SUBSET Nat
      BY <1>1
    <3> HIDE DEF Cols
    <3> QED
      BY <2>2, <3>1, Least
  <2>4. k \in 1..n /\ Filled(k) # {} /\ Filled(k) \subseteq Nat
    BY LayoutShape, SMTT(20) DEF n
  <2>5. PICK r \in Filled(k) : \A q \in Filled(k) : r <= q
    <3> HIDE DEF Filled
    <3> QED
      BY <2>4, Least
  <2>6. ~IsRepeat(k, r)
    <3>1. ASSUME NEW q \in 1..(r - 1) PROVE PaneAt(k, q) # PaneAt(k, r)
      <4>0. DOMAIN input.layout[k] = 1..Len(input.layout[k]) /\ Len(input.layout[k]) \in Nat
        BY <2>4, LayoutShape DEF n
      <4>1. r \in Nat /\ r \in 1..Len(input.layout[k])
        BY <2>4, <2>5, <4>0
      <4>2. q \in DOMAIN input.layout[k] /\ q < r
        BY <4>0, <4>1
      <4>3. q \notin Filled(k)
        BY <2>4, <2>5, <4>1, <4>2
      <4> QED
        BY <4>2, <4>3
    <3>2. ASSUME NEW j \in 1..(k - 1), NEW q \in DOMAIN input.layout[j]
          PROVE  PaneAt(j, q) # PaneAt(k, r)
      <4>1. k \in Nat /\ j \in 1..n /\ j < k
        BY <1>1, <2>4
      <4>2. j \notin Cols
        BY <2>3, <4>1
      <4>3. q \notin Filled(j)
        BY <4>1, <4>2
      <4> QED
        BY <4>3
    <3> QED
      BY <3>1, <3>2 DEF IsRepeat
  <2>7. Rows(k) # {}
    BY <2>6 DEF Rows
  <2>8. PanesOfColumn(k) # <<>>
    <3>1. PICK rows \in Seq(Nat) :
            /\ PanesOfColumn(k) = [h \in 1..Len(rows) |-> PaneAt(k, rows[h])]
            /\ rows = <<>> <=> Rows(k) = {}
      BY <2>4, ColumnRows DEF n
    <3>2. 1 \in 1..Len(rows)
      BY <2>7, <3>1
    <3>3. DOMAIN PanesOfColumn(k) = 1..Len(rows)
      BY <3>1
    <3>4. DOMAIN <<>> = {}
      OBVIOUS
    <3> QED
      BY <3>2, <3>3, <3>4
  <2>9. all[k] \in K
    BY <1>4, <1>5, <2>4, <2>8 DEF S
  <2> QED
    BY <1>3, <1>4, <1>13, <2>4, <2>9, RetainedNothing
<1>14. PaneColumns # <<>> => 1 \in DOMAIN PaneColumns
  BY <1>6
<1> QED
  BY <1>11, <1>12, <1>13, <1>14
-----------------------------------------------------------------------------
(* The window that may be emptied, and the call to reconcile.              *)

\* A registered file that has been looked up has a pane or is unresolved.
Handled(f) == input.kind[f] = "registered" => found[f] # None \/ f \in ToSet(unresolved)

\* Phase 1 handles the files in their order, and what it has found stays found.
Answered ==
  /\ pc = "resolve" => \A i \in 1..Len(Files) : i < index => Handled(Files[i])
  /\ pc \notin {"resolve", "failed"} => \A i \in 1..Len(Files) : Handled(Files[i])
  /\ \A i \in 1..Len(unresolved) : \E j \in 1..Len(Files) : Files[j] = unresolved[i]
  /\ OnlyUnmanagedEmptied

\* Where panes are.  Those found, and those to be lent, live as long as nothing
\* happens before the panes of a window are stashed.
Located ==
  /\ loc \in [Pane -> Window \union {Gone}]
  /\ \A f \in File : found[f] \in Pane \union {None}
  /\ spares \subseteq Pane
  /\ pc \in {"empty", "emptyStash"} => input.window # None
  /\ events = 0 /\ pc \notin {"empty", "emptyStash", "early"} =>
       /\ \A f \in File : found[f] # None => Alive(found[f])
       /\ \A p \in spares : Alive(p)

\* What is decided for reconcile, step by step.
Planned ==
  /\ pc \in PhaseFour \union {"session", "reconcile"} =>
       1 \in DOMAIN columns /\ NoPaneTwice(columns) /\ AllFound(columns)
  /\ pc \in PhaseFour /\ events = 0 => session # None
  /\ TargetIsSound

Bests == [window : Window \union {None}, wanted : Nat, total : Nat, slipped : BOOLEAN]

\* A window of the target session, or one of a pane that slipped away in between.
Sound(w, slipped) == session # None => SessionOf[w] = session \/ slipped

\* What find_best_window knows at each of its steps.  As long as nothing happens
\* it is at the window of the pane it has asked for, and has a window if one of
\* the panes it is through with is of the session.
Searched ==
  pc \in PhaseFour \ {"window"} =>
    /\ search \in [asked : SUBSET Wanted, pane : Wanted \union {None}, window : Window \union {None},
                   slipped : BOOLEAN, best : Bests]
    /\ search.best.window = None => search.best.wanted = 0
    /\ search.best.window # None => Sound(search.best.window, search.best.slipped)
    /\ pc # "best" => search.window # None /\ search.pane # None
    /\ pc = "bestCount" => Sound(search.window, search.slipped)
    /\ events = 0 =>
         /\ pc # "best" => search.window = loc[search.pane]
         /\ search.best.window = None =>
              \A p \in Wanted \ search.asked : Home(p) # session \/ (pc # "best" /\ p = search.pane)

\* The pane of a donor was found for some file.
LEMMA DonorFound ==
  ASSUME input \in Inputs, NEW i \in 1..Len(Files), NEW p \in Donors(Files[i])
  PROVE  \E g \in File : p = found[g] /\ found[g] # None
<1> DEFINE f == Files[i]
           Has(k) == f \in ToSet(input.layout[k])
           Cols == {k \in DOMAIN input.layout : Has(k)}
<1>1. \E k \in DOMAIN input.layout : Has(k)
  <2>1. PICK k \in 1..Len(input.layout) : \E r \in DOMAIN input.layout[k] : f = input.layout[k][r]
    BY LayoutShape
  <2> QED
    BY <2>1, LayoutShape DEF ToSet
<1>2. PICK k \in Cols : \A j \in Cols : k <= j
  <2>1. Cols \in SUBSET Nat /\ Cols # {}
    BY <1>1, LayoutShape, SMTT(20)
  <2> HIDE DEF Cols
  <2> QED
    BY <2>1, Least
<1>3. k \in DOMAIN input.layout /\ Has(k) /\ \A j \in DOMAIN input.layout : Has(j) => k <= j
  BY <1>2
<1> HIDE DEF f
<1>4. ColumnOf(f) \in DOMAIN input.layout
  BY <1>3 DEF ColumnOf
<1>5. input.layout[ColumnOf(f)] \in Seq(File)
  BY <1>4, LayoutShape
<1>6. \E r \in DOMAIN input.layout[ColumnOf(f)] :
        /\ p = found[input.layout[ColumnOf(f)][r]]
        /\ found[input.layout[ColumnOf(f)][r]] # None
  BY DEF Donors, f
<1> QED
  BY <1>5, <1>6

\* What an Append adds to a sequence.
LEMMA AppendEffect ==
  ASSUME NEW S, NEW t \in Seq(S), NEW x
  PROVE  /\ Len(Append(t, x)) = Len(t) + 1
         /\ \A i \in 1..Len(t) : Append(t, x)[i] = t[i]
         /\ Append(t, x)[Len(t) + 1] = x
         /\ ToSet(t) \subseteq ToSet(Append(t, x)) /\ x \in ToSet(Append(t, x))
<1>1. Append(t, x) \in Seq(S \union {x}) /\ Len(t) \in Nat /\ DOMAIN t = 1..Len(t)
  <2>1. t \in Seq(S \union {x})
    OBVIOUS
  <2> QED
    BY <2>1
<1>2. /\ Len(Append(t, x)) = Len(t) + 1
      /\ \A i \in 1..Len(t) : Append(t, x)[i] = t[i]
      /\ Append(t, x)[Len(t) + 1] = x
  OBVIOUS
<1>3. DOMAIN Append(t, x) = 1..(Len(t) + 1)
  BY <1>1, <1>2
<1> QED
  BY <1>1, <1>2, <1>3 DEF ToSet

\* A step of Phase 1 handles its file.
LEMMA ResolvingHandles ==
  ASSUME Shapes, Answered, Located, ResolveProven \/ ResolveOther \/ ResolveRegistered
  PROVE  Answered'
<1>1. Files \in Seq(File) /\ index \in Nat /\ unresolved \in Seq(File)
  BY CallFiles DEF Shapes
<1>2. /\ pc = "resolve" /\ pc' = "resolve" /\ input' = input /\ index' = index + 1
      /\ index \in 1..Len(Files) /\ File1 \in File
  BY FileAt, <1>1 DEF ResolveProven, ResolveOther, ResolveRegistered, Advance, worldVars, Shapes
<1>3. None \notin Pane
  BY ResolveAssumption
<1>4. Files' = Files
  BY <1>2 DEF Files
<1>5. Len(Files) \in Nat /\ \A i \in 1..Len(Files) : Files[i] \in File
  BY <1>1
<1>6. \/ unresolved' = unresolved
      \/ unresolved' = Append(unresolved, File1)
  BY DEF ResolveProven, ResolveOther, ResolveRegistered, fileVars
<1>7. ToSet(unresolved) \subseteq ToSet(unresolved')
  BY <1>1, <1>2, <1>6, AppendEffect
<1>8. \A f \in File : found[f] # None => found'[f] # None
  BY <1>2, <1>3
    DEF ResolveProven, ResolveOther, ResolveRegistered, Own, Alive, paneVars, Shapes
<1> DEFINE Later(f) ==
      input.kind[f] = "registered" => found'[f] # None \/ f \in ToSet(unresolved')
<1>9. Later(File1)
  <2>1. CASE ResolveProven
    BY <1>2, <1>3, <2>1 DEF ResolveProven, Own, Alive, Shapes
  <2>2. CASE ResolveOther
    BY <2>2 DEF ResolveOther
  <2>3. CASE ResolveRegistered
    <3>1. CASE Alive(bound[File1])
      BY <1>2, <1>3, <2>3, <3>1 DEF ResolveRegistered, Own, Alive, Shapes
    <3>2. CASE ~Alive(bound[File1])
      BY <1>1, <1>2, <2>3, <3>2, AppendEffect DEF ResolveRegistered
    <3> QED
      BY <3>1, <3>2
  <2> QED
    BY <2>1, <2>2, <2>3
<1>10. ASSUME NEW i \in 1..Len(Files), i < index + 1 PROVE Later(Files[i])
  <2>1. CASE i < index
    <3>1. Handled(Files[i]) /\ Files[i] \in File
      BY <1>2, <1>5, <2>1 DEF Answered
    <3> QED
      BY <1>7, <1>8, <3>1 DEF Handled
  <2>2. CASE ~(i < index)
    <3>1. i = index
      BY <1>1, <1>10, <1>5, <2>2
    <3> QED
      BY <1>9, <3>1 DEF File1
  <2> QED
    BY <2>1, <2>2
<1>11. \A i \in 1..Len(unresolved') : \E j \in 1..Len(Files) : Files[j] = unresolved'[i]
  <2>1. CASE unresolved' = unresolved
    BY <2>1 DEF Answered
  <2>2. CASE unresolved' = Append(unresolved, File1)
    <3>1. Len(unresolved') = Len(unresolved) + 1 /\ Len(unresolved) \in Nat
      BY <1>1, <2>2, AppendEffect
    <3>2. \A i \in 1..Len(unresolved) : unresolved'[i] = unresolved[i]
      BY <1>1, <2>2, AppendEffect
    <3>3. unresolved'[Len(unresolved) + 1] = Files[index]
      BY <1>1, <2>2, AppendEffect DEF File1
    <3>4. \A i \in 1..Len(unresolved') : i \in 1..Len(unresolved) \/ i = Len(unresolved) + 1
      BY <3>1
    <3> QED
      BY <1>2, <3>2, <3>3, <3>4 DEF Answered
  <2> QED
    BY <1>6, <2>1, <2>2
<1>12. \A i \in 1..Len(Files') : i < index' => Handled(Files[i])'
  BY <1>2, <1>4, <1>10 DEF Handled
<1> QED
  BY <1>2, <1>4, <1>11, <1>12 DEF Answered, OnlyUnmanagedEmptied

\* What a step lends was found for a file or is spare.
LEMMA LentPanes ==
  ASSUME Shapes, Answered, Located, Donate \/ Spare
  PROVE  /\ \A f \in File :
              \/ found'[f] = found[f]
              \/ \E g \in File : found'[f] = found[g] /\ found[g] # None
              \/ pc = "spare" /\ found'[f] \in spares
         /\ \A f \in File : found[f] # None => found'[f] # None
<1>1. None \notin Pane
  BY ResolveAssumption
<1>2. CASE Donate
  <2>1. index \in 1..Len(unresolved)
    BY <1>2 DEF Donate, Shapes
  <2>2. PICK i \in 1..Len(Files) : Files[i] = unresolved[index]
    BY <2>1 DEF Answered
  <2>3. found' = found \/ \E p \in Donors(Files[i]) : found' = [found EXCEPT ![Files[i]] = p]
    BY <1>2, <2>2 DEF Donate, Lend
  <2>4. \A p \in Donors(Files[i]) : \E g \in File : p = found[g] /\ found[g] # None
    BY DonorFound DEF Shapes
  <2> QED
    BY <2>3, <2>4 DEF Shapes
<1>3. CASE Spare
  <2>1. found' = found \/ \E p \in spares : found' = [found EXCEPT ![unresolved[index]] = p]
    BY <1>3 DEF Spare, Lend
  <2>2. pc = "spare"
    BY <1>3 DEF Spare
  <2> QED
    BY <1>1, <2>1, <2>2 DEF Shapes, Located
<1> QED
  BY <1>2, <1>3

\* Nothing to arrange and nothing unresolved: no file of the call is registered.
LEMMA EmptiesUnmanaged ==
  ASSUME Shapes, Answered, BuildColumns, pc' = "empty"
  PROVE  OnlyUnmanagedEmptied'
<1>1. pc = "columns" /\ PaneColumns = <<>> /\ unresolved = <<>> /\ input' = input
  BY DEF BuildColumns, ReturnEarly, Goto, MayEmpty, worldVars
<1>2. \A i \in 1..Len(Files) : found[Files[i]] = None
  BY <1>1, ColumnsLegal DEF Shapes
<1>3. \A f : f \notin ToSet(unresolved)
  <2>1. DOMAIN <<>> = {}
    OBVIOUS
  <2> QED
    BY <1>1, <2>1 DEF ToSet
<1>4. \A i \in 1..Len(Files) : input.kind[Files[i]] # "registered"
  BY <1>1, <1>2, <1>3 DEF Answered, Handled
<1>5. DOMAIN Files = 1..Len(Files) /\ Files' = Files
  <2>1. Files \in Seq(File)
    BY CallFiles DEF Shapes
  <2>2. Files' = Files
    BY <1>1 DEF Files
  <2> QED
    BY <2>1, <2>2
<1> QED
  BY <1>1, <1>4, <1>5 DEF OnlyUnmanagedEmptied, ToSet

\* A step that finds nothing anew keeps what was answered.
LEMMA AnsweredKept ==
  ASSUME Shapes, Answered, input' = input, unresolved' = unresolved,
         \A f \in File : found[f] # None => found'[f] # None,
         \/ pc' = pc /\ index' = index
         \/ pc' \notin {"resolve", "empty", "emptyStash"} /\ pc \notin {"resolve", "failed"}
         \/ {pc, pc'} \subseteq {"empty", "emptyStash"}
         \/ {pc, pc'} \subseteq {"donate", "spare"}
         \/ pc' = "failed"
  PROVE  Answered'
<1>1. Files' = Files
  BY DEF Files
<1>2. Len(Files) \in Nat /\ \A i \in 1..Len(Files) : Files[i] \in File
  <2>1. Files \in Seq(File)
    BY CallFiles DEF Shapes
  <2> QED
    BY <2>1
<1>3. \A i \in 1..Len(Files) : Handled(Files[i]) => Handled(Files[i])'
  BY <1>1, <1>2 DEF Handled
<1> QED
  BY <1>1, <1>3 DEF Answered, OnlyUnmanagedEmptied

\* Every action keeps Answered.
LEMMA AnsweredInductive == Shapes /\ Located /\ Answered /\ [Next]_vars => Answered'
<1> SUFFICES ASSUME Shapes, Located, Answered, [Next]_vars PROVE Answered'
  OBVIOUS
<1> USE DEF worldVars, fileVars, paneVars, Goto
<1>1. CASE ResolveProven \/ ResolveOther \/ ResolveRegistered
  BY <1>1, ResolvingHandles
<1>2. CASE LookupFails
  BY <1>2, AnsweredKept DEF LookupFails
<1>3. CASE ResolveDone
  <2>1. pc = "resolve" /\ pc' = "donate" /\ index > Len(Files) /\ UNCHANGED <<input, unresolved, found>>
    BY <1>3 DEF ResolveDone
  <2>2. Files' = Files /\ Files \in Seq(File) /\ index \in Nat
    BY <2>1, CallFiles DEF Files, Shapes
  <2>3. \A i \in 1..Len(Files) : i < index
    BY <2>1, <2>2
  <2>4. \A i \in 1..Len(Files) : Handled(Files[i])'
    BY <2>1, <2>2, <2>3 DEF Answered, Handled
  <2> QED
    BY <2>1, <2>2, <2>4 DEF Answered, OnlyUnmanagedEmptied
<1>4. CASE Donate
  BY <1>4, LentPanes, AnsweredKept DEF Donate
<1>5. CASE Spare
  BY <1>5, LentPanes, AnsweredKept DEF Spare
<1>6. CASE DonateDone \/ SpareList \/ SpareDone
  BY <1>6, AnsweredKept DEF DonateDone, SpareList, SpareDone
<1>7. CASE BuildColumns
  <2>1. CASE pc' = "empty"
    <3>1. OnlyUnmanagedEmptied'
      BY <1>7, <2>1, EmptiesUnmanaged
    <3>2. pc = "columns" /\ UNCHANGED <<input, unresolved, found>>
      BY <1>7 DEF BuildColumns
    <3>3. Files' = Files
      BY <3>2 DEF Files
    <3> QED
      BY <2>1, <3>1, <3>2, <3>3 DEF Answered, Handled
  <2>2. CASE pc' # "empty"
    BY <1>7, <2>2, AnsweredKept DEF BuildColumns, ReturnEarly
  <2> QED
    BY <2>1, <2>2
<1>8. CASE EmptyNext \/ EmptyStash
  BY <1>8, AnsweredKept DEF EmptyNext, EmptyStash, ReturnEarly
<1>9. CASE ChooseSession
  BY <1>9, AnsweredKept DEF ChooseSession
<1>12. CASE ChooseWindow \/ Search
  <2>1. /\ UNCHANGED <<input, unresolved, found>>
        /\ pc \in PhaseFour /\ pc' \in (PhaseFour \ {"window"}) \union {"reconcile"}
    BY <1>12, SearchLeaves
  <2>2. pc \notin {"resolve", "failed"} /\ pc' \notin {"resolve", "empty", "emptyStash"}
    BY <2>1 DEF PhaseFour
  <2> QED
    BY <2>1, <2>2, AnsweredKept
<1>10. CASE PaneDies \/ PaneMoves \/ Rebinds
  BY <1>10, AnsweredKept DEF PaneDies, PaneMoves, Rebinds
<1>11. CASE UNCHANGED vars
  BY <1>11, AnsweredKept DEF vars
<1> QED
  BY <1>1, <1>2, <1>3, <1>4, <1>5, <1>6, <1>7, <1>8, <1>9, <1>10, <1>11, <1>12
    DEF Next, Resolving, Lending, Planning

\* Every action keeps Located.
LEMMA LocatedInductive == Shapes /\ Located /\ Answered /\ [Next]_vars => Located'
<1> SUFFICES ASSUME Shapes, Located, Answered, [Next]_vars PROVE Located'
  OBVIOUS
<1>0. Gone \notin Window /\ None \notin Pane \union Window
  BY ResolveAssumption
<1> USE DEF worldVars, fileVars, paneVars, Goto, Located, Alive
<1>1. CASE ResolveProven
  BY <1>1, FileAt DEF ResolveProven, Own, Shapes
<1>2. CASE ResolveRegistered
  <2>1. /\ File1 \in File
        /\ UNCHANGED <<input, loc, events, spares, pc>> /\ pc = "resolve"
    BY <1>2, FileAt DEF ResolveRegistered
  <2>2. CASE found' = found
    BY <2>1, <2>2
  <2>3. CASE Alive(bound[File1]) /\ found' = [found EXCEPT ![File1] = bound[File1]]
    <3>1. \A f \in File : found'[f] = found[f] \/ found'[f] = bound[File1]
      BY <2>1, <2>3 DEF Shapes
    <3>2. bound[File1] \in Pane /\ loc[bound[File1]] # Gone
      BY <2>3
    <3> QED
      BY <2>1, <3>1, <3>2
  <2> QED
    BY <1>2, <2>2, <2>3 DEF ResolveRegistered, Own
<1>3. CASE ResolveOther \/ LookupFails \/ ResolveDone \/ DonateDone \/ SpareDone
  BY <1>3 DEF ResolveOther, LookupFails, ResolveDone, DonateDone, SpareDone
<1>4. CASE Donate
  <2>1. UNCHANGED <<input, loc, events, spares, pc>> /\ pc = "donate"
    BY <1>4 DEF Donate
  <2> QED
    BY <1>4, <2>1, LentPanes
<1>5. CASE Spare
  <2>1. UNCHANGED <<input, loc, events, pc>> /\ pc = "spare" /\ spares' \subseteq spares
    BY <1>5 DEF Spare
  <2> QED
    BY <1>5, <2>1, LentPanes
<1>6. CASE SpareList
  <2>1. pc = "spareList" /\ pc' \notin {"empty", "emptyStash"} /\ UNCHANGED <<input, loc, events, found>>
    BY <1>6 DEF SpareList
  <2>2. spares' = spares \/ \E w \in Window : spares' = SparePanes(w)
    <3> DEFINE w == IF input.window # None THEN input.window ELSE WindowOf(lead)
    <3>1. w \in Window \union {None}
      BY CallFiles DEF Shapes, WindowOf
    <3> QED
      BY <1>6, <3>1 DEF SpareList
  <2> QED
    BY <1>0, <2>1, <2>2 DEF SparePanes, InWindow
<1>7. CASE BuildColumns
  BY <1>7 DEF BuildColumns, ReturnEarly
<1>8. CASE EmptyNext
  BY <1>8 DEF EmptyNext, ReturnEarly
<1>9. CASE EmptyStash
  <2>1. input.window \in Window
    BY <1>9, CallFiles DEF EmptyStash, Shapes
  <2>2. StashPlaces(SessionOf[input.window]) \subseteq Window
    BY <2>1, ResolveAssumption DEF StashPlaces
  <2>3. loc' \in [Pane -> Window \union {Gone}]
    BY <1>9, <2>2 DEF EmptyStash
  <2> QED
    BY <1>9, <2>3 DEF EmptyStash
<1>10. CASE ChooseSession
  <2>1. /\ UNCHANGED <<input, loc, found, spares>> /\ (events' = events \/ events' # 0)
        /\ pc = "session" /\ pc' = "window"
    BY <1>10 DEF ChooseSession, Happens, Shapes
  <2> QED
    BY <2>1
<1>14. CASE ChooseWindow \/ Search
  <2>1. /\ UNCHANGED <<input, loc, found, spares>> /\ (events' = events \/ events' # 0)
        /\ pc \in PhaseFour /\ pc' \in (PhaseFour \ {"window"}) \union {"reconcile"}
    BY <1>14, SearchLeaves
  <2>2. pc \notin {"empty", "emptyStash", "early"} /\ pc' \notin {"empty", "emptyStash", "early"}
    BY <2>1 DEF PhaseFour
  <2> QED
    BY <2>1, <2>2
<1>11. CASE PaneDies \/ PaneMoves
  <2>1. events' # 0 /\ UNCHANGED <<input, pc, found, spares>>
    BY <1>11 DEF PaneDies, PaneMoves, Happens, Shapes
  <2>2. loc' \in [Pane -> Window \union {Gone}]
    BY <1>11 DEF PaneDies, PaneMoves
  <2> QED
    BY <2>1, <2>2
<1>12. CASE Rebinds
  BY <1>12 DEF Rebinds, Happens, Shapes
<1>13. CASE UNCHANGED vars
  BY <1>13 DEF vars
<1> QED
  BY <1>1, <1>2, <1>3, <1>4, <1>5, <1>6, <1>7, <1>8, <1>9, <1>10, <1>11, <1>12, <1>13, <1>14
    DEF Next, Resolving, Lending, Planning

\* The panes to arrange were found for files, and there is one.
LEMMA WantedFound ==
  ASSUME 1 \in DOMAIN columns, AllFound(columns)
  PROVE  /\ columns[1][1] \in Wanted
         /\ \A p \in Wanted : \E f \in File : p = found[f] /\ found[f] # None
BY DEF AllFound, Wanted, ToSet

\* A session is chosen unless the wanted panes have died.
LEMMA SessionChosen ==
  ASSUME Shapes, Located, Planned, ChooseSession, events' = 0
  PROVE  session' # None
<1>0. /\ pc = "session" /\ events = 0
      /\ \/ session' = docSession /\ docSession # None
         \/ input.window # None /\ InWindow(input.window) # {} /\ session' = SessionOf[input.window]
         \/ session' \in WantedSessions
  <2>1. events' = events
    BY DEF ChooseSession, Happens, Shapes
  <2>2. PICK lost \in SUBSET {"session", "window", "panes"} :
          /\ IF lost = {} THEN UNCHANGED events ELSE Happens
          /\ IF docSession # None /\ PanesIn(docSession) # {} /\ "session" \notin lost
             THEN session' = docSession
             ELSE IF input.window # None /\ InWindow(input.window) # {} /\ "window" \notin lost
             THEN session' = SessionOf[input.window]
             ELSE session' \in IF "panes" \in lost THEN {None} ELSE WantedSessions
    BY DEF ChooseSession
  <2>3. lost = {}
    BY <2>2 DEF Happens, Shapes
  <2> QED
    BY <2>1, <2>2, <2>3 DEF ChooseSession
<1>1. 1 \in DOMAIN columns /\ AllFound(columns) /\ pc = "session"
  BY <1>0 DEF Planned
<1>2. PICK p \in Wanted : Alive(p)
  BY <1>0, <1>1, WantedFound DEF Located
<1>3. None \notin Session /\ SessionOf \in [Window -> Session]
  BY ResolveAssumption
<1>4. \A q \in Pane : Alive(q) => Home(q) \in Session
  BY <1>3 DEF Alive, Home, Located
<1>5. None \notin WantedSessions
  BY <1>2, <1>3, <1>4 DEF WantedSessions, Alive
<1>6. input.window \in Window \union {None}
  BY CallFiles DEF Shapes
<1> QED
  BY <1>0, <1>3, <1>5, <1>6

\* The panes to arrange are panes, alive as long as nothing has happened.
LEMMA WantedPanes ==
  ASSUME Shapes, Located, Planned, pc \in PhaseFour
  PROVE  Wanted \subseteq Pane /\ (events = 0 => \A p \in Wanted : Alive(p))
<1>1. 1 \in DOMAIN columns /\ AllFound(columns)
  BY DEF Planned
<1>2. pc \notin {"empty", "emptyStash", "early"}
  BY DEF PhaseFour
<1>3. \A p \in Wanted : \E f \in File : p = found[f] /\ found[f] # None
  BY <1>1, WantedFound
<1>4. \A f \in File : found[f] # None => found[f] \in Pane /\ (events = 0 => Alive(found[f]))
  BY <1>2 DEF Located
<1> QED
  BY <1>3, <1>4

\* A window with one of the wanted panes in it counts.
LEMMA WindowCounts ==
  ASSUME Wanted \subseteq Pane, NEW w
  PROVE  /\ Cardinality(InWindow(w) \intersect Wanted) \in Nat
         /\ Cardinality(InWindow(w)) \in Nat
         /\ \A p \in Wanted : loc[p] = w => Cardinality(InWindow(w) \intersect Wanted) > 0
<1>1. IsFiniteSet(Pane)
  BY ResolveAssumption
<1>2. IsFiniteSet(InWindow(w)) /\ IsFiniteSet(InWindow(w) \intersect Wanted)
  BY <1>1, FS_Subset DEF InWindow
<1>3. Cardinality(InWindow(w)) \in Nat /\ Cardinality(InWindow(w) \intersect Wanted) \in Nat
  BY <1>2, FS_CardinalityType
<1>4. ASSUME NEW p \in Wanted, loc[p] = w
      PROVE  Cardinality(InWindow(w) \intersect Wanted) # 0
  <2>1. p \in InWindow(w) \intersect Wanted
    BY <1>4 DEF InWindow
  <2> QED
    BY <1>2, <2>1, FS_EmptySet
<1> QED
  BY <1>3, <1>4

\* Each step of find_best_window keeps Searched.
LEMMA SearchInductive ==
  ASSUME Shapes, Located, Planned, Searched, Search
  PROVE  Searched'
<1>1. /\ UNCHANGED <<input, loc, columns, session>> /\ events \in Nat
      /\ pc \in PhaseFour /\ (events' = events \/ events' # 0)
  BY SearchLeaves DEF Shapes
<1>2. Wanted' = Wanted /\ (\A p : Home(p)' = Home(p)) /\ \A w, s : Sound(w, s)' = Sound(w, s)
  BY <1>1 DEF Wanted, Home, Sound
<1>3. None \notin Pane /\ None \notin Window
  BY ResolveAssumption
<1>4. Wanted \subseteq Pane /\ (events = 0 => \A p \in Wanted : Alive(p))
  BY <1>1, WantedPanes
<1>5. \A p \in Wanted : Alive(p) => loc[p] \in Window
  BY DEF Alive, Located
<1>6. events' = 0 => events = 0 /\ session # None
  BY <1>1 DEF Planned
<1> USE DEF Goto, PhaseFour
<1>7. CASE SearchWindow
  <2>1. pc' = "best" /\ search' = [NoSearch EXCEPT !.asked = Wanted]
    BY <1>7 DEF SearchWindow
  <2> QED
    BY <1>2, <2>1 DEF Searched, NoSearch, NoBest, Bests
<1>8. CASE AskWindow
  <2>1. PICK p \in search.asked :
          \/ /\ Alive(p)
             /\ search' = [search EXCEPT !.asked = @ \ {p}, !.pane = p, !.window = loc[p]]
             /\ pc' = "bestSession"
          \/ /\ IF Alive(p) THEN Happens ELSE UNCHANGED events
             /\ search' = [search EXCEPT !.asked = @ \ {p}]
             /\ pc' = "best"
    BY <1>8 DEF AskWindow
  <2>2. pc = "best" /\ p \in Wanted
    BY <1>8, <2>1 DEF AskWindow, Searched
  <2>3. CASE pc' = "bestSession"
    <3>1. /\ Alive(p) /\ loc[p] \in Window
          /\ search' = [search EXCEPT !.asked = @ \ {p}, !.pane = p, !.window = loc[p]]
      BY <1>5, <2>1, <2>2, <2>3
    <3> QED
      BY <1>1, <1>2, <1>3, <1>4, <1>6, <2>2, <2>3, <3>1 DEF Searched
  <2>4. CASE pc' = "best"
    <3>1. search' = [search EXCEPT !.asked = @ \ {p}]
      BY <2>1, <2>4
    <3>2. events' # 0
      BY <1>1, <1>4, <2>1, <2>2, <2>4 DEF Happens
    <3> QED
      BY <1>1, <1>2, <2>2, <2>4, <3>1, <3>2 DEF Searched
  <2> QED
    BY <2>1, <2>3, <2>4
<1>9. CASE AskSession
  <2>1. pc = "bestSession" /\ search.pane \in Wanted /\ search.window \in Window
    BY <1>9 DEF AskSession, Searched
  <2>2. CASE /\ session = None \/ Alive(search.pane)
             /\ session = None \/ InSession(loc[search.pane])
             /\ search' = [search EXCEPT !.slipped = loc[search.pane] # search.window]
             /\ pc' = "bestCount"
    <3>1. Sound(search'.window, search'.slipped)
      BY <2>1, <2>2 DEF Sound, InSession, Searched
    <3> QED
      BY <1>1, <1>2, <1>3, <1>6, <2>1, <2>2, <3>1 DEF Searched
  <2>3. CASE /\ session # None /\ ~InSession(loc[search.pane])
             /\ search' = [search EXCEPT !.pane = None, !.window = None]
             /\ pc' = "best"
    <3>1. Home(search.pane) # session
      BY <2>3 DEF InSession, Home
    <3> QED
      BY <1>1, <1>2, <1>6, <2>1, <2>3, <3>1 DEF Searched
  <2>4. CASE /\ session # None
             /\ IF Alive(search.pane) THEN Happens ELSE UNCHANGED events
             /\ search' = [search EXCEPT !.slipped = TRUE]
             /\ pc' = "bestCount"
    <3>1. events' # 0
      BY <1>1, <1>4, <2>1, <2>4 DEF Happens
    <3> QED
      BY <1>1, <1>2, <2>1, <2>4, <3>1 DEF Searched, Sound
  <2> QED
    BY <1>9, <2>2, <2>3, <2>4 DEF AskSession
<1>10. CASE CountPanes
  <2> DEFINE n == Cardinality(InWindow(search.window) \intersect Wanted)
             m == Cardinality(InWindow(search.window))
             best == [window |-> search.window, slipped |-> search.slipped, wanted |-> n, total |-> m]
             rest == [search EXCEPT !.pane = None, !.window = None, !.slipped = FALSE]
  <2>1. pc = "bestCount" /\ pc' = "best" /\ search.pane \in Wanted /\ search.window \in Window
    BY <1>10 DEF CountPanes, Searched
  <2>2. n \in Nat /\ m \in Nat /\ (loc[search.pane] = search.window => n > 0)
    BY <1>4, <2>1, WindowCounts
  <2>3. \/ search' = [rest EXCEPT !.best = best]
        \/ search' = rest /\ ~Better(best)
        \/ search' = rest /\ events' # 0
    BY <1>1, <1>10 DEF CountPanes, Happens
  <2>4. Sound(search.window, search.slipped)
    BY <2>1 DEF Searched
  <2> HIDE DEF n, m
  <2>5. CASE search' = [rest EXCEPT !.best = best]
    BY <1>1, <1>2, <1>3, <2>1, <2>2, <2>4, <2>5 DEF Searched, Bests
  <2>6. CASE search' = rest /\ ~Better(best)
    <3>1. events' = 0 => search.best.window # None
      <4>1. ASSUME events' = 0, search.best.window = None PROVE FALSE
        <5>1. search.best.wanted = 0 /\ search.window = loc[search.pane]
          BY <1>6, <2>1, <4>1 DEF Searched
        <5> QED
          BY <2>2, <2>6, <5>1 DEF Better
      <4> QED
        BY <4>1
    <3> QED
      BY <1>1, <1>2, <2>1, <2>6, <3>1 DEF Searched
  <2>7. CASE search' = rest /\ events' # 0
    BY <1>1, <1>2, <2>1, <2>7 DEF Searched
  <2> QED
    BY <2>3, <2>5, <2>6, <2>7
<1>11. CASE SearchDone
  BY <1>11 DEF SearchDone, Arrange, Searched
<1> QED
  BY <1>7, <1>8, <1>9, <1>10, <1>11 DEF Search

\* So the window it ends with is sound, and so is a valid --window.
LEMMA SearchSound ==
  ASSUME Shapes, Located, Planned, Searched, ChooseWindow \/ Search
  PROVE  TargetIsSound'
<1>1. UNCHANGED <<input, loc, columns, session>>
  BY SearchLeaves
<1>2. Wanted' = Wanted /\ \A p : Home(p)' = Home(p)
  BY <1>1 DEF Wanted, Home
<1> USE DEF Goto
<1>3. CASE ChooseWindow
  <2>1. window' = input.window /\ input.window # None /\ InSession(input.window)
    BY <1>3 DEF ChooseWindow, WindowIsValid, Arrange
  <2> QED
    BY <1>1, <2>1 DEF TargetIsSound, InSession
<1>4. CASE SearchDone
  <2>1. /\ pc = "best" /\ search.asked = {} /\ window' = search.best.window
        /\ UNCHANGED <<search, events>>
    BY <1>4 DEF SearchDone, Arrange, worldVars
  <2>2. /\ search.best.window # None => Sound(search.best.window, search.best.slipped)
        /\ events = 0 /\ search.best.window = None => \A p \in Wanted : Home(p) # session
        /\ events = 0 => session # None
    BY <2>1 DEF Searched, Planned, PhaseFour
  <2> QED
    BY <1>1, <1>2, <2>1, <2>2 DEF TargetIsSound, Sound
<1>5. CASE SearchWindow \/ AskWindow \/ AskSession \/ CountPanes
  <2>1. pc' # "reconcile"
    BY <1>5 DEF SearchWindow, AskWindow, AskSession, CountPanes
  <2> QED
    BY <2>1 DEF TargetIsSound
<1> QED
  BY <1>3, <1>4, <1>5 DEF Search

\* Every action keeps Searched.
LEMMA SearchedInductive ==
  Shapes /\ Located /\ Planned /\ Searched /\ [Next]_vars => Searched'
<1> SUFFICES ASSUME Shapes, Located, Planned, Searched, [Next]_vars PROVE Searched'
  OBVIOUS
<1>1. CASE Search
  BY <1>1, SearchInductive
<1>2. CASE PaneDies \/ PaneMoves \/ Rebinds
  <2>1. UNCHANGED <<pc, columns, session, search>> /\ events' # 0
    BY <1>2 DEF PaneDies, PaneMoves, Rebinds, Happens, Shapes, planVars
  <2>2. Wanted' = Wanted /\ \A w, s : Sound(w, s)' = Sound(w, s)
    BY <2>1 DEF Wanted, Sound
  <2> QED
    BY <2>1, <2>2 DEF Searched
<1>3. CASE UNCHANGED vars
  <2>1. UNCHANGED <<pc, loc, events, columns, session, search>>
    BY <1>3 DEF vars, planVars, worldVars
  <2>2. Wanted' = Wanted /\ (\A p : Home(p)' = Home(p)) /\ \A w, s : Sound(w, s)' = Sound(w, s)
    BY <2>1 DEF Wanted, Home, Sound
  <2> QED
    BY <2>1, <2>2 DEF Searched
<1>4. CASE Resolving \/ Lending \/ BuildColumns \/ EmptyNext \/ EmptyStash \/ ChooseSession \/ ChooseWindow
  <2>1. CASE Resolving \/ Lending
    BY <2>1 DEF Goto, PhaseFour, Searched, Resolving, ResolveProven, ResolveOther, ResolveRegistered,
      LookupFails, ResolveDone, Lending, Donate, DonateDone, SpareList, Spare, SpareDone
  <2>2. CASE BuildColumns \/ EmptyNext \/ EmptyStash \/ ChooseSession \/ ChooseWindow
    BY <2>2 DEF Goto, PhaseFour, Searched, BuildColumns, ReturnEarly, EmptyNext, EmptyStash,
      ChooseSession, ChooseWindow, Arrange
  <2> QED
    BY <1>4, <2>1, <2>2
<1> QED
  BY <1>1, <1>2, <1>3, <1>4 DEF Next, Planning

\* Every action keeps Planned.
LEMMA PlannedInductive == Shapes /\ Located /\ Planned /\ Searched /\ [Next]_vars => Planned'
<1> SUFFICES ASSUME Shapes, Located, Planned, Searched, [Next]_vars PROVE Planned'
  OBVIOUS
<1> USE DEF worldVars, paneVars, Goto
<1>1. CASE Resolving \/ Lending
  <2>1. pc' \notin PhaseFour \union {"session", "reconcile"}
    BY <1>1 DEF PhaseFour, Resolving, ResolveProven, ResolveOther, ResolveRegistered, LookupFails, ResolveDone,
      Lending, Donate, DonateDone, SpareList, Spare, SpareDone
  <2> QED
    BY <2>1 DEF Planned, TargetIsSound
<1>2. CASE BuildColumns
  <2>1. pc' \notin PhaseFour \union {"reconcile"}
    BY <1>2 DEF PhaseFour, BuildColumns, ReturnEarly
  <2>2. ASSUME pc' = "session"
        PROVE  1 \in DOMAIN columns' /\ NoPaneTwice(columns') /\ AllFound(columns)'
    <3>1. columns' = PaneColumns /\ PaneColumns # <<>> /\ found' = found
      BY <1>2, <2>2 DEF BuildColumns, ReturnEarly
    <3>2. 1 \in DOMAIN PaneColumns /\ NoPaneTwice(PaneColumns) /\ AllFound(PaneColumns)
      BY <3>1, ColumnsLegal DEF Shapes
    <3> QED
      BY <3>1, <3>2 DEF AllFound
  <2> QED
    BY <2>1, <2>2 DEF Planned, TargetIsSound
<1>3. CASE EmptyNext \/ EmptyStash
  <2>1. pc' \notin PhaseFour \union {"session", "reconcile"}
    BY <1>3 DEF PhaseFour, EmptyNext, EmptyStash, ReturnEarly
  <2> QED
    BY <2>1 DEF Planned, TargetIsSound
<1>4. CASE ChooseSession
  <2>1. pc = "session" /\ pc' = "window" /\ UNCHANGED <<columns, found>>
    BY <1>4 DEF ChooseSession
  <2>2. events' = 0 => session' # None
    BY <1>4, SessionChosen
  <2> QED
    BY <2>1, <2>2 DEF Planned, TargetIsSound, AllFound
<1>5. CASE ChooseWindow \/ Search
  <2>1. /\ UNCHANGED <<columns, found, session>> /\ (events' = events \/ events' # 0)
        /\ pc \in PhaseFour
    BY <1>5, SearchLeaves
  <2>2. TargetIsSound'
    BY <1>5, SearchSound
  <2> QED
    BY <2>1, <2>2 DEF Planned, AllFound
<1>6. CASE PaneDies \/ PaneMoves \/ Rebinds
  <2>1. /\ pc' = pc /\ pc # "reconcile" /\ events' # 0
        /\ UNCHANGED <<columns, found>>
    BY <1>6 DEF PaneDies, PaneMoves, Rebinds, Happens, Running, Shapes, planVars
  <2> QED
    BY <2>1 DEF Planned, TargetIsSound, AllFound
<1>7. CASE UNCHANGED vars
  <2>1. UNCHANGED <<loc, events, pc, columns, found, session, window, search>>
    BY <1>7 DEF vars, planVars
  <2>2. Wanted' = Wanted /\ \A p : Home(p)' = Home(p)
    BY <2>1 DEF Wanted, Home
  <2> QED
    BY <2>1, <2>2 DEF Planned, TargetIsSound, AllFound
<1> QED
  BY <1>1, <1>2, <1>3, <1>4, <1>5, <1>6, <1>7 DEF Next, Planning

\* The start of a call.
LEMMA InitPlanned == Init => Answered /\ Located /\ Planned /\ Searched
<1> SUFFICES ASSUME Init PROVE Answered /\ Located /\ Planned /\ Searched
  OBVIOUS
<1>1. /\ pc = "resolve" /\ index = 1 /\ unresolved = <<>> /\ spares = {} /\ input \in Inputs
      /\ found = [f \in File |-> None] /\ loc = input.loc
  BY DEF Init
<1>2. Answered
  <2>1. Len(unresolved) = 0
    BY <1>1
  <2> QED
    BY <1>1, <2>1 DEF Answered, OnlyUnmanagedEmptied
<1>3. Located
  BY <1>1, CallFiles DEF Located
<1>4. Planned /\ Searched
  BY <1>1 DEF Planned, TargetIsSound, Searched, PhaseFour
<1> QED
  BY <1>2, <1>3, <1>4

\* What the invariants say of every reachable state.
LEMMA PlanInvariance == Spec => [](Answered /\ Planned)
<1>1. Init => Shapes /\ Answered /\ Located /\ Planned /\ Searched
  BY InitShapes, InitPlanned
<1>2. Shapes /\ Answered /\ Located /\ Planned /\ Searched /\ [Next]_vars
        => (Shapes /\ Answered /\ Located /\ Planned /\ Searched)'
  BY ShapesInductive, AnsweredInductive, LocatedInductive, PlannedInductive, SearchedInductive
<1> QED
  BY <1>1, <1>2, PTL DEF Spec

\* reconcile is given at least one pane, and none twice, for every layout and
\* however files share, borrow and repeat panes.
THEOREM CallsLegal == Spec => []CallIsLegal
<1>1. Planned => CallIsLegal
  <2>1. 1 \in DOMAIN columns => columns # <<>>
    OBVIOUS
  <2> QED
    BY <2>1 DEF Planned, NoPaneTwice, CallIsLegal
<1> QED
  BY <1>1, PlanInvariance, PTL

\* A window is emptied only for a layout without a file of the registry.
THEOREM ManagedNotEmptied == Spec => []OnlyUnmanagedEmptied
<1>1. Answered => OnlyUnmanagedEmptied
  BY DEF Answered
<1> QED
  BY <1>1, PlanInvariance, PTL

\* The target window is in the target session, or find_best_window took it from a
\* pane that slipped away between its two questions; and it is missing only if
\* the session has none of the wanted panes, if nothing happens and no query fails.
THEOREM TargetSound == Spec => []TargetIsSound
<1>1. Planned => TargetIsSound
  BY DEF Planned
<1> QED
  BY <1>1, PlanInvariance, PTL

=============================================================================
