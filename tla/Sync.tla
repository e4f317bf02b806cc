------------------------------- MODULE Sync --------------------------------
(***************************************************************************)
(* sync_with_options (sync.rs) from the moment it knows the columns of     *)
(* panes and the target window (module Resolve): capture of the operator's *)
(* pane, Phase 5 (module Reconcile), Phase 6 (equalize_sizes), Phase 6.5   *)
(* (stash_overflow_panes), the selection of the focus pane and the restore *)
(* of the operator's pane.  "stage" is the next of these; within           *)
(* "reconcile" the steps are those of Reconcile.                           *)
(*                                                                         *)
(* The height of a pane is what tmux makes of it: in a window of fewer     *)
(* than Roomy rows, any pane that shares its window can be too low.        *)
(***************************************************************************)
EXTENDS Reconcile

CONSTANTS Heights,  \* the heights Target can have, in rows
          Roomy     \* from this height on no pane of Target is too low

MIN_PANE_HEIGHT == 10

ASSUME HeightsAssumption == Heights \subseteq Nat /\ Roomy \in Nat /\ Roomy > MIN_PANE_HEIGHT

VARIABLES
  stage,   \* the next step of sync_with_options
  height,  \* window_height(Target)
  panes,   \* pane_columns: the columns less the panes stashed for lack of room
  origin   \* operator_focus_restore: the operator's pane when Phase 5 begins

syncVars      == <<stage, height, panes, origin>>
reconcileVars == <<tmuxVars, envVars, selVars, callVars, call, pc, err>>
allVars       == <<vars, syncVars>>

Enter(s) == stage' = s

\* The focus pane; None when the focused file has no live pane of its own.
FocusPane == call.focus

-----------------------------------------------------------------------------

CaptureOperator ==
  /\ stage = "capture"
  /\ origin' = IF Passive THEN Focus(server) ELSE NoFocus
  /\ Enter("reconcile")
  /\ UNCHANGED <<reconcileVars, height, panes>>

\* A step of Phase 5.
Reconciling ==
  /\ stage = "reconcile"
  /\ Step
  /\ UNCHANGED syncVars

Reconciled ==
  /\ stage = "reconcile" /\ pc = "done"
  /\ panes' = call.columns
  /\ Enter("equalize")
  /\ UNCHANGED <<reconcileVars, height, origin>>

-----------------------------------------------------------------------------
(* Phase 6: equalize_sizes.                                                *)

\* even-horizontal: every pane of the window becomes a column of its own.
Flattened(cs) == [i \in DOMAIN Order(cs) |-> <<Order(cs)[i]>>]

\* More than two columns are laid out with even-horizontal, in the window that
\* their first pane is in now; resizing changes no position.
Equalized(cs, ps, s) ==
  IF Len(ps) > 2 /\ s.loc[ps[1][1]] = Target THEN Flattened(cs) ELSE cs

Equalize ==
  /\ stage = "equalize"
  /\ cols' = Equalized(cols, panes, server)
  /\ Enter("measure")
  /\ UNCHANGED <<server, registered, envVars, selVars, callVars, call, pc, err, height, panes, origin>>

-----------------------------------------------------------------------------
(* Phase 6.5: stash_overflow_panes.                                        *)

\* max_panes_per_col: panes of MIN_PANE_HEIGHT rows with a separator between.
MaxPanesPerCol ==
  IF height >= MIN_PANE_HEIGHT THEN (height + 1) \div (MIN_PANE_HEIGHT + 1) ELSE 1

\* A pane that may be lower than MIN_PANE_HEIGHT; the height of a pane that is
\* gone counts as sufficient.
MayBeLow(p) ==
  /\ Alive(server, p)
  /\ IF server.loc[p] = Target
     THEN height < MIN_PANE_HEIGHT \/ (height < Roomy /\ InWindow(server, Target) # {p})
     ELSE InWindow(server, server.loc[p]) # {p}

\* Whether some pane of the columns is found too low.
Undersized(low) == low => \E p \in PanesOf(panes) : MayBeLow(p)

\* window_height fails when the window has closed.
HeightKnown == InWindow(server, Target) # {}

TooTall(k) == Len(panes[k]) > MaxPanesPerCol

Measure ==
  /\ stage = "measure"
  /\ \E low \in BOOLEAN :
       /\ Undersized(low)
       /\ Enter(IF /\ HeightKnown /\ Len(Order(panes)) > 1
                   /\ low \/ \E k \in DOMAIN panes : TooTall(k)
                THEN "trim" ELSE "reselect")
  /\ UNCHANGED <<reconcileVars, height, panes, origin>>

\* Mutant: the focus pane is not spared.
MayShed_Focus(p) == TRUE

MayShed(p) == p # FocusPane

Sheddable(k) == {r \in DOMAIN panes[k] : MayShed(panes[k][r])}

\* The position in column k of its last pane but the focus.
LastIn(k) == Max(Sheddable(k))

Shorter(k) == [panes EXCEPT ![k] = RemoveAt(@, LastIn(k))]

\* stash_pane(p), whose failure is only printed; the registry is not told.
Stash(p, ps) ==
  \/ /\ StashesPane(p)
     /\ \E cs \in Leaving(p) : cols' = Equalized(cs, ps, server')
  \/ /\ StashRefuses(p)
     /\ cols' = Equalized(cols, ps, server')

\* Vertical overflow: columns of too many panes lose their last ones, the last
\* column first.
Trimmable == {k \in DOMAIN panes : TooTall(k) /\ Sheddable(k) # {}}

Trim ==
  /\ stage = "trim"
  /\ Trimmable # {}
  /\ LET k == Max(Trimmable)
     IN  /\ panes' = Shorter(k)
         /\ Stash(panes[k][LastIn(k)], <<>>)
  /\ UNCHANGED <<registered, busy, selVars, callVars, call, pc, err, stage, height, origin>>

Trimmed ==
  /\ stage = "trim"
  /\ Trimmable = {}
  /\ Enter("shed")
  /\ UNCHANGED <<reconcileVars, height, panes, origin>>

\* Mutant: columns are shed until none is left.
ManyColumns_Any == Len(panes) > 0

ManyColumns == Len(panes) > 1

\* Horizontal overflow: while some pane is too low, the last column that has
\* one but the focus loses its last pane, and the sizes are made equal again.
Shed ==
  /\ stage = "shed"
  /\ ManyColumns
  /\ Undersized(TRUE)
  /\ \E k \in DOMAIN panes :
       /\ Sheddable(k) # {} /\ \A j \in (k + 1)..Len(panes) : Sheddable(j) = {}
       /\ panes' = NonEmpty(Shorter(k))
       /\ Stash(panes[k][LastIn(k)], panes')
  /\ UNCHANGED <<registered, busy, selVars, callVars, call, pc, err, stage, height, origin>>

\* No pane is too low, one column is left, or only the focus pane can go.
ShedDone ==
  /\ stage = "shed"
  /\ cols' = IF Order(panes) # Desired THEN Equalized(cols, panes, server) ELSE cols
  /\ Enter("reselect")
  /\ UNCHANGED <<server, registered, envVars, selVars, callVars, call, pc, err, height, panes, origin>>

-----------------------------------------------------------------------------
(* The focus.                                                              *)

\* should_reselect_focus, which ignores whether the pane is placed already.
ShouldReselect == ~Passive

Reselect ==
  /\ stage = "reselect"
  /\ Enter(IF ~Alive(server, FocusPane) \/ ~ShouldReselect THEN "restore"
           ELSE IF Stashed(server, FocusPane) THEN "inPlace" ELSE "activate")
  /\ UNCHANGED <<reconcileVars, height, panes, origin>>

\* The pane has died since it was asked for: the error ends the call, without
\* the restore below.
ReselectFails ==
  /\ stage \in {"activate", "inPlace"} /\ ~Alive(server, FocusPane)
  /\ Enter("end")
  /\ UNCHANGED <<reconcileVars, height, panes, origin>>

Reselected ==
  /\ stage \in {"activate", "inPlace"} /\ Alive(server, FocusPane)
  /\ server' = IF stage = "activate" THEN Selected(server, FocusPane)
               ELSE SelectedInPlace(server, FocusPane)
  /\ Enter("restore")
  /\ UNCHANGED <<cols, registered, envVars, selVars, callVars, call, pc, err, height, panes, origin>>

\* restore_operator_focus, after everything that can move the selection.
RestoreOperator ==
  /\ stage = "restore"
  /\ server' = IF FocusWindow(server, origin) \in server.stash THEN server
               ELSE Refocused(server, origin)
  /\ Enter("end")
  /\ UNCHANGED <<cols, registered, envVars, selVars, callVars, call, pc, err, height, panes, origin>>

\* The next poll makes the same call.
SyncAgain ==
  /\ stage = "end"
  /\ CallAgain
  /\ Enter("capture")
  /\ panes' = <<>>
  /\ UNCHANGED <<height, origin>>

-----------------------------------------------------------------------------

SyncInit ==
  /\ Init
  /\ stage = "capture"
  /\ height \in Heights
  /\ panes = <<>>
  /\ origin = NoFocus

SyncStep ==
  \/ CaptureOperator \/ Reconciling \/ Reconciled
  \/ Equalize \/ Measure \/ Trim \/ Trimmed \/ Shed \/ ShedDone
  \/ Reselect \/ ReselectFails \/ Reselected \/ RestoreOperator

Meanwhile == Environment /\ UNCHANGED syncVars

SyncNext == SyncStep \/ SyncAgain \/ Meanwhile

SyncSpec == SyncInit /\ [][SyncNext]_allVars

\* The call is a sequential program, the poll repeats it, and a busy pane
\* becomes free at last.
FairSyncSpec ==
  /\ SyncSpec
  /\ WF_allVars(SyncStep) /\ WF_allVars(SyncAgain) /\ WF_allVars(PaneFrees /\ UNCHANGED syncVars)

-----------------------------------------------------------------------------
(* Properties.                                                             *)

\* The operator stays where he is: a passive sync, with everything it does to
\* the panes after reconcile has put the focus back, ends with the pane active
\* that was active when it started, unless the operator has selected another
\* meanwhile, or that pane has died, been stashed, or followed a desired pane
\* into the window of another session.
SyncIsFocusNeutral ==
  (stage = "end" /\ Passive /\ used.moves = 0)
    => \/ FocusWindow(server, origin) \in server.stash \union Foreign \union {Gone}
       \/ Focus(server).pane = origin.pane

\* An explicit sync brings the document into view: whatever path reconcile has
\* taken and whatever the loops of the overflow stash have taken out of the
\* window, it ends with the focus pane active, if that is one of the columns and
\* nothing has gone wrong; unless a busy pane has kept it out of the window.
FocusIsShown ==
  (/\ stage = "end" /\ ~Passive /\ FocusPane \in Wanted
   /\ Calm /\ used.moves = 0 /\ ~IsStash(server, Target))
    => \/ ActivePane(server) = FocusPane
       \/ path = "deferred" /\ server.loc[FocusPane] # Target

\* The target window survives the whole call: reconcile has put a pane into it
\* that the overflow stash leaves there, if nothing has gone wrong.
WindowSurvives == Calm => InWindow(server, Target) # {}

\* Every call returns: the loops of the overflow stash run against heights
\* that need not change, and against panes that refuse to leave.
SyncReturns == (stage = "capture") ~> (stage = "end")

\* And in a window with room for all the repeated calls converge to the desired
\* order for good, although a call can be deferred by a busy pane, return from
\* a swap with the order wrong or give up on a failed join, and although each
\* lays the columns out anew; unless, after a failed join, the overflow stash
\* has closed the window.
SyncConverges ==
  /\ SyncReturns
  /\ height >= Roomy => <>[](Order(cols) = Desired) \/ <>[](InWindow(server, Target) = {})

=============================================================================
