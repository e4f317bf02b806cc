----------------------------- MODULE Reconcile ------------------------------
(***************************************************************************)
(* reconcile() of sync.rs: bring the panes of Target to the desired        *)
(* columns with the attach-first algorithm                                 *)
(*   SNAPSHOT, FAST_PATH, SWAP, ATTACH, SELECT, DETACH, REORDER, VERIFY    *)
(* against a tmux server that does not wait for it: between two commands   *)
(* of one call panes die, joins fail ("pane too small") and the operator   *)
(* selects other panes.  pc names the next step of the call; every step is *)
(* the reads of one decision together with the command they decide.        *)
(*                                                                         *)
(* The call is repeated, as the editor's layout poll repeats it.           *)
(* SessionScope only logs: its join_pane and swap_pane move panes across   *)
(* sessions, and the panes of Target are all of its own session.           *)
(***************************************************************************)
EXTENDS TmuxServer, TmuxLayout

\* A scenario is a set of behaviours that are checked together:
\*   calls   [columns, focus, passive]: the calls
\*   starts  [server, cols]: the tmux states a first call can find
\*   busy    the sets of panes protect_pane may answer true for
\*   may     [deaths, fails, moves, missed]: how many panes die, commands fail
\*           and selections the operator makes in one behaviour, and for how
\*           many panes at once the registry can have missed an update
CONSTANT Scenarios

Calls    == UNION {sc.calls : sc \in Scenarios}
Starts   == UNION {sc.starts : sc \in Scenarios}
BusySets == UNION {sc.busy : sc \in Scenarios}

\* A call has at least one pane, and no pane twice: reconcile indexes
\* desired_ordered[0], and sync deduplicates the panes of the columns.
ASSUME CallsAssumption ==
  \A cl \in Calls :
    /\ cl.focus \in Pane \union {NoPane}
    /\ cl.passive \in BOOLEAN
    /\ cl.columns # <<>> /\ IsGeometry(cl.columns, Pane)

\* Target is an existing window, whose geometry has its panes; every window has
\* selected one of its panes and the current one exists.
ASSUME StartsAssumption ==
  \A start \in Starts :
    /\ start.server \in Server /\ Consistent(start.server)
    /\ InWindow(start.server, Target) # {}
    /\ IsGeometry(start.cols, Pane)
    /\ PanesOf(start.cols) = InWindow(start.server, Target)

ASSUME BusyAssumption == BusySets \subseteq SUBSET Pane

Limits == [deaths : Nat, fails : Nat, moves : Nat, missed : Nat]

ASSUME LimitsAssumption == \A sc \in Scenarios : sc.may \in Limits

VARIABLES
  server,     \* the tmux session (TmuxServer)
  cols,       \* the geometry of Target (TmuxLayout)
  registered, \* pane -> the window its registry entry records (Gone: none yet),
              \* and whether the last update of the entry failed
  busy,       \* panes protect_pane answers true for
  used,       \* what has happened of the bounded events, and their limits;
              \* the panes stash_pane left in a window of another name
  call,       \* the arguments of the call
  pc,         \* the next step
  path,       \* how the call returned, or will return
  seen,       \* current_set: the panes of Target when the plan was made
  next,       \* position in desired_ordered of the next pane to handle
  left,       \* panes the detach loop has still to visit
  moving,     \* the pane the detach loop has decided to stash
  opFocus,    \* operator_focus_restore: the operator's pane at the start
  actBefore,  \* active_before_detach
  before,     \* the focus snapshot select_reconcile_pane took
  after,      \* the step that follows a selection
  err         \* an error entry was logged

tmuxVars == <<server, cols, registered>>
envVars  == <<busy, used>>
selVars  == <<before, after>>
callVars == <<path, seen, next, left, moving, opFocus, actBefore>>
vars     == <<tmuxVars, envVars, selVars, callVars, call, pc, err>>

Desired == Order(call.columns)
Wanted  == ToSet(Desired)
First   == Desired[1]
Passive == call.passive

\* focus_pane.unwrap_or(first_pane)
SelectTarget == IF call.focus = NoPane THEN First ELSE call.focus

Goto(l) == pc' = l
Return(how) == pc' = "done" /\ path' = how

CanFail == used.fails < used.may.fails
CountFail == used' = [used EXCEPT !.fails = @ + 1]

-----------------------------------------------------------------------------
(* Moves of panes, with the geometry of Target kept in step.               *)

\* The geometry of Target when p has left its window for another one, or for
\* another place in Target when Target is itself a stash window.
Leaving(p) ==
  IF server'.loc[p] = Target THEN Arrangements(InWindow(server', Target))
  ELSE IF server.loc[p] = Target THEN Removals(cols, p)
  ELSE {cols}

\* join_pane(p, t, flag) succeeds.
JoinTo(p, t, flag) ==
  /\ server' \in Joined(server, p, t)
  /\ cols' \in IF server.loc[t] = Target THEN Joins(cols, p, t, flag) ELSE Leaving(p)

\* join_pane(p, t, flag) fails: a pane is missing, or tmux has no room.
JoinFails(p, t) ==
  /\ IF Alive(server, p) /\ Alive(server, t) THEN CanFail /\ CountFail ELSE UNCHANGED used
  /\ UNCHANGED <<server, cols>>

\* Mutant: update_registry asks before the move.
WindowNow_TooEarly(p) == server.loc[p]

\* pane_window, in update_registry.
WindowNow(p) == server'.loc[p]

\* update_registry for each of P, when it fails for the panes F (the lock times
\* out, the registry cannot be read or written): their entries stay as they are,
\* with nothing but a warning.  So does that of a pane tmux does not know.
Recorded(reg, P, F) ==
  [p \in Pane |-> IF p \notin P \/ WindowNow(p) = Gone THEN reg[p]
                  ELSE IF p \in F THEN [reg[p] EXCEPT !.missed = TRUE]
                  ELSE [window |-> WindowNow(p), missed |-> FALSE]]

Missed(reg) == {p \in Pane : reg[p].missed}

Record(P) ==
  \E F \in SUBSET P :
    /\ registered' = Recorded(registered, P, F)
    /\ F = {} \/ Cardinality(Missed(registered')) <= used.may.missed

\* Mutant: every new column is split off the anchor.
JoinTarget_OffAnchor(p) ==
  LET k == ColOf(call.columns, p)
      r == RowOf(call.columns, p)
  IN  IF r > 1 THEN [pane |-> call.columns[k][r - 1], flag |-> "-dv"]
      ELSE [pane |-> call.columns[1][1], flag |-> "-dh"]

\* join_target: below the previous pane of its column, or right of the first
\* pane of the previous column.
JoinTarget(p) ==
  LET k == ColOf(call.columns, p)
      r == RowOf(call.columns, p)
  IN  IF r > 1 THEN [pane |-> call.columns[k][r - 1], flag |-> "-dv"]
      ELSE [pane |-> call.columns[k - 1][1], flag |-> "-dh"]

\* first_pane_join_flag: left of, above, or (next to an unwanted pane) right of it.
FirstPaneJoinFlag(t) ==
  IF t \notin Wanted \/ t = First THEN "-dh"
  ELSE IF ColOf(call.columns, t) > 1 THEN "-dbh" ELSE "-dbv"

-----------------------------------------------------------------------------
(* SNAPSHOT, FAST_PATH and the capture of what the later phases go by.     *)

Snapshot ==
  /\ pc = "snapshot"
  /\ IF Order(cols) = Desired THEN Return("fast") ELSE Goto("plan") /\ UNCHANGED path
  /\ UNCHANGED <<tmuxVars, envVars, selVars, seen, next, left, moving, opFocus, actBefore, call, err>>

IsSingleton(S) == \E p \in S : S = {p}

\* Mutant: the 1-in/1-out replacement does not ask protect_pane.
SwapDeferred_Never(outgoing) == FALSE

\* The only pane to displace is busy: keep the layout for this call.
SwapDeferred(outgoing) == outgoing \subseteq busy

Plan ==
  /\ pc = "plan"
  /\ opFocus' = IF Passive THEN Focus(server) ELSE NoFocus
  /\ seen' = InWindow(server, Target)
  /\ LET incoming == Wanted \ seen'
         outgoing == seen' \ Wanted
     IN  IF IsSingleton(incoming) /\ IsSingleton(outgoing)
         THEN IF SwapDeferred(outgoing)
              THEN Return("deferred")
              ELSE Goto("swap") /\ UNCHANGED path
         ELSE Goto("attachFirst") /\ UNCHANGED path
  /\ UNCHANGED <<tmuxVars, envVars, selVars, next, left, moving, actBefore, call, err>>

-----------------------------------------------------------------------------
(* SWAP: one pane in, one pane out, in a single tmux command.              *)

Incoming == CHOOSE p \in Wanted : p \notin seen
Outgoing == CHOOSE p \in seen : p \notin Wanted

\* A stashed or dead incoming pane, or a failed command, falls through to ATTACH.
SwapSkipped ==
  /\ pc = "swap"
  /\ \/ Stashed(server, Incoming) /\ UNCHANGED err
     \/ ~Alive(server, Incoming) /\ UNCHANGED err
     \/ /\ ~Stashed(server, Incoming)
        /\ ~Alive(server, Incoming) \/ ~Alive(server, Outgoing)
        /\ err' = TRUE
  /\ Goto("attachFirst")
  /\ UNCHANGED <<tmuxVars, envVars, selVars, callVars, call>>

\* SessionScope::swap_pane, which reports panes of another session and swaps
\* them all the same.
SwapTo(a, b) ==
  /\ server' \in Swapped(server, a, b)
  /\ cols' = Replaced(cols, b, a)

Swap ==
  /\ pc = "swap"
  /\ ~Stashed(server, Incoming)
  /\ SwapTo(Incoming, Outgoing)
  /\ Record({Incoming, Outgoing})
  /\ path' = "swapped"
  /\ after' = "restore"
  /\ Goto("select")
  /\ UNCHANGED <<envVars, before, seen, next, left, moving, opFocus, actBefore, call, err>>

-----------------------------------------------------------------------------
(* ATTACH: the first desired pane next to a pane of Target, then the other *)
(* ones in column order.                                                   *)

\* existing.first() is some pane of Target.
AttachFirst ==
  /\ pc = "attachFirst"
  /\ IF First \in seen \/ InWindow(server, Target) = {}
     THEN UNCHANGED <<tmuxVars, used, err>>
     ELSE \E t \in InWindow(server, Target) :
            \/ /\ JoinTo(First, t, FirstPaneJoinFlag(t))
               /\ Record({First})
               /\ UNCHANGED <<used, err>>
            \/ /\ JoinFails(First, t)
               /\ err' = TRUE
               /\ UNCHANGED registered
  /\ next' = 2
  /\ Goto("attach")
  /\ UNCHANGED <<busy, selVars, path, seen, left, moving, opFocus, actBefore, call>>

\* One round of the loop over the remaining panes.
Attach ==
  /\ pc = "attach"
  /\ next <= Len(Desired)
  /\ LET p == Desired[next]
         t == JoinTarget(p)
     IN  IF p \in InWindow(server, Target)
         THEN UNCHANGED <<tmuxVars, used, err>>
         ELSE \/ /\ JoinTo(p, t.pane, t.flag)
                 /\ Record({p})
                 /\ UNCHANGED <<used, err>>
              \/ /\ JoinFails(p, t.pane)
                 /\ err' = TRUE
                 /\ UNCHANGED registered
  /\ next' = next + 1
  /\ UNCHANGED <<busy, selVars, path, seen, left, moving, opFocus, actBefore, call, pc>>

AttachDone ==
  /\ pc = "attach"
  /\ next > Len(Desired)
  /\ next' = 0
  /\ after' = "detachList"
  /\ Goto("select")
  /\ UNCHANGED <<tmuxVars, envVars, before, path, seen, left, moving, opFocus, actBefore, call, err>>

-----------------------------------------------------------------------------
(* select_reconcile_pane, called from three places ("after" is the return). *)

TargetWindowIsActive == server.loc[SelectTarget] = server.cur

\* Mutant: selection_may_activate_window forgets about stash windows.
MayActivate_Stashed == ~Passive

\* selection_may_activate_window
MayActivate == ~Passive /\ ~Stashed(server, SelectTarget)

\* reconcile_selection_mode
SelectCheck ==
  /\ pc = "select"
  /\ CASE Passive /\ TargetWindowIsActive ->
              Goto(after) /\ before' = NoFocus
       [] MayActivate ->
              Goto("selectActivate") /\ before' = NoFocus
       [] OTHER ->
              Goto("selectInPlace") /\ before' = Focus(server)
  /\ UNCHANGED <<tmuxVars, envVars, callVars, after, call, err>>

SelectActivate ==
  /\ pc = "selectActivate"
  /\ server' = IF Alive(server, SelectTarget) THEN Selected(server, SelectTarget) ELSE server
  /\ Goto(after)
  /\ UNCHANGED <<cols, registered, envVars, selVars, callVars, call, err>>

\* A pane that is gone fails the command, and the caller ignores the error.
SelectInPlace ==
  /\ pc = "selectInPlace"
  /\ IF Alive(server, SelectTarget)
     THEN server' = SelectedInPlace(server, SelectTarget) /\ Goto("selectGuard") /\ UNCHANGED before
     ELSE UNCHANGED server /\ Goto(after) /\ before' = NoFocus
  /\ UNCHANGED <<cols, registered, envVars, after, callVars, call, err>>

\* log_passive_focus_transition: the focus moved meanwhile, so move it back.
SelectGuard ==
  /\ pc = "selectGuard"
  /\ server' = IF Focus(server) # before THEN Refocused(server, before) ELSE server
  /\ before' = NoFocus
  /\ Goto(after)
  /\ UNCHANGED <<cols, registered, envVars, after, callVars, call, err>>

-----------------------------------------------------------------------------
(* DETACH: stash the unwanted panes, but never the last pane of the window *)
(* nor a busy one.                                                         *)

DetachList ==
  /\ pc = "detachList"
  /\ left' = InWindow(server, Target) \ Wanted
  /\ actBefore' = server.cur
  /\ Goto("detach")
  /\ UNCHANGED <<tmuxVars, envVars, selVars, path, seen, next, moving, opFocus, call, err>>

\* Mutant: the last-pane guard is dropped.
Detachable_Last(p) == p \notin busy

\* window_count > 1 and not protected.  The panes of Target are of the session,
\* so "registered to another session" never holds for one.
Detachable(p) ==
  /\ \E q, r \in InWindow(server, Target) : q # r
  /\ p \notin busy

DetachSkip ==
  /\ pc = "detach"
  /\ \E p \in left : ~Detachable(p) /\ left' = left \ {p}
  /\ UNCHANGED <<tmuxVars, envVars, selVars, path, seen, next, moving, opFocus, actBefore, call, pc, err>>

DetachDecide ==
  /\ pc = "detach"
  /\ \E p \in left : Detachable(p) /\ moving' = p /\ left' = left \ {p}
  /\ Goto("stash")
  /\ UNCHANGED <<tmuxVars, envVars, selVars, path, seen, next, opFocus, actBefore, call, err>>

\* stash_pane(p) returns Ok: its join succeeds; or fails for lack of room, and the
\* pane is broken out to an overflow stash window; or that window is not named
\* "stash", because no stash window could be made or the rename failed.
StashesPane(p) ==
  /\ Alive(server, p)
  /\ \/ server' \in JoinedStash(server, p) /\ UNCHANGED used
     \/ server' \in BrokenToStash(server, p) /\ CanFail /\ CountFail
     \/ /\ server' \in Scattered(server, p) /\ CanFail
        /\ used' = [used EXCEPT !.fails = @ + 1, !.scattered = @ \union {p}]

\* A current window other than the one before the loop is logged as a stolen focus.
StashPane ==
  /\ pc = "stash"
  /\ StashesPane(moving)
  /\ cols' \in Leaving(moving)
  /\ Record({moving})
  /\ moving' = NoPane
  /\ err' = (err \/ server'.cur # actBefore)
  /\ Goto("detach")
  /\ UNCHANGED <<busy, selVars, path, seen, next, left, opFocus, actBefore, call>>

\* It fails: the pane died meanwhile, or could not be broken out either.  At most
\* the stash window has been made.
StashRefuses(p) ==
  /\ IF Alive(server, p) THEN CanFail /\ CountFail ELSE UNCHANGED used
  /\ server' \in {server} \union WithStash(server)

StashPaneFails ==
  /\ pc = "stash"
  /\ StashRefuses(moving)
  /\ moving' = NoPane
  /\ err' = TRUE
  /\ Goto("detach")
  /\ UNCHANGED <<cols, registered, busy, selVars, path, seen, next, left, opFocus, actBefore, call>>

\* Mutant: the loop goes on until no unwanted pane is left.
DetachEnds_Empty == InWindow(server, Target) \subseteq Wanted

DetachEnds == left = {}

\* An explicit call goes back to Target; a passive one to the operator's pane
\* if the current window is no longer the one it was before the loop.
DetachDone ==
  /\ pc = "detach"
  /\ DetachEnds
  /\ server' =
       IF ~Passive
       THEN IF InWindow(server, Target) # {} THEN [server EXCEPT !.cur = Target] ELSE server
       ELSE IF server.cur # actBefore THEN Refocused(server, opFocus) ELSE server
  /\ actBefore' = Gone
  /\ Goto("reorder")
  /\ UNCHANGED <<cols, registered, envVars, selVars, path, seen, next, left, moving, opFocus, call, err>>

-----------------------------------------------------------------------------
(* REORDER: with the right panes in the wrong order, break all but the     *)
(* first out and join them again in column order.  Errors are ignored.     *)

Reorder ==
  /\ pc = "reorder"
  /\ IF InWindow(server, Target) = Wanted /\ Order(cols) # Desired
     THEN Goto("break") /\ next' = 2
     ELSE Goto("verify") /\ UNCHANGED next
  /\ UNCHANGED <<tmuxVars, envVars, selVars, path, seen, left, moving, opFocus, actBefore, call, err>>

Break ==
  /\ pc = "break"
  /\ next <= Len(Desired)
  /\ LET p == Desired[next]
     IN  \/ server' \in Broken(server, p) /\ cols' \in Leaving(p) /\ UNCHANGED used
         \/ IF Alive(server, p) THEN CanFail /\ CountFail /\ UNCHANGED <<server, cols>>
                                ELSE UNCHANGED <<server, cols, used>>
  /\ next' = next + 1
  /\ UNCHANGED <<registered, busy, selVars, path, seen, left, moving, opFocus, actBefore, call, pc, err>>

BreakDone ==
  /\ pc = "break"
  /\ next > Len(Desired)
  /\ next' = 2
  /\ Goto("rejoin")
  /\ UNCHANGED <<tmuxVars, envVars, selVars, path, seen, left, moving, opFocus, actBefore, call, err>>

Rejoin ==
  /\ pc = "rejoin"
  /\ next <= Len(Desired)
  /\ LET p == Desired[next]
         t == JoinTarget(p)
     IN  IF p \in InWindow(server, Target)
         THEN UNCHANGED <<server, cols, used>>
         ELSE \/ JoinTo(p, t.pane, t.flag) /\ UNCHANGED used
              \/ JoinFails(p, t.pane)
  /\ next' = next + 1
  /\ UNCHANGED <<registered, busy, selVars, path, seen, left, moving, opFocus, actBefore, call, pc, err>>

RejoinDone ==
  /\ pc = "rejoin"
  /\ next > Len(Desired)
  /\ next' = 0
  /\ after' = "verify"
  /\ Goto("select")
  /\ UNCHANGED <<tmuxVars, envVars, before, path, seen, left, moving, opFocus, actBefore, call, err>>

-----------------------------------------------------------------------------
(* VERIFY, the registry update of all wanted panes, and the restore of the *)
(* operator's focus.                                                       *)

\* Mutant: only panes that do not belong there are looked for.
Mismatch_ExtrasOnly == ~(InWindow(server, Target) \subseteq Wanted \union busy)

ProtectedExtras == (InWindow(server, Target) \ Wanted) \intersect busy

Mismatch == Retained(Order(cols), PanesOf(cols) \ ProtectedExtras) # Desired

Verify ==
  /\ pc = "verify"
  /\ err' = (err \/ Mismatch)
  /\ UNCHANGED server
  /\ Record(Wanted)
  /\ path' = "full"
  /\ Goto("restore")
  /\ UNCHANGED <<cols, envVars, selVars, seen, next, left, moving, opFocus, actBefore, call>>

\* restore_operator_focus: not when the pane is dead or out of view.
Restore ==
  /\ pc = "restore"
  /\ server' = IF FocusWindow(server, opFocus) \in server.stash THEN server
               ELSE Refocused(server, opFocus)
  /\ Goto("done")
  /\ UNCHANGED <<cols, registered, envVars, selVars, callVars, call, err>>

\* The next poll makes the same call.
CallAgain ==
  /\ pc = "done"
  /\ Goto("snapshot")
  /\ path' = "none"
  /\ err' = FALSE
  /\ seen' = {} /\ next' = 0 /\ opFocus' = NoFocus
  /\ UNCHANGED <<tmuxVars, envVars, selVars, left, moving, actBefore, call>>

-----------------------------------------------------------------------------
(* What happens to the session meanwhile.                                  *)

PaneDies ==
  /\ used.deaths < used.may.deaths
  /\ \E p \in Pane :
       /\ Alive(server, p)
       /\ server' \in Died(server, p)
       /\ cols' \in Leaving(p)
  /\ used' = [used EXCEPT !.deaths = @ + 1]
  /\ UNCHANGED <<registered, busy, selVars, callVars, call, pc, err>>

OperatorSelects ==
  /\ used.moves < used.may.moves
  /\ \E p \in Pane :
       /\ Alive(server, p) /\ ~Stashed(server, p) /\ p # ActivePane(server)
       /\ server' = Selected(server, p)
  /\ used' = [used EXCEPT !.moves = @ + 1]
  /\ UNCHANGED <<cols, registered, busy, selVars, callVars, call, pc, err>>

\* A busy pane finishes its work; none becomes busy.
PaneFrees ==
  /\ \E p \in busy : /\ busy' = busy \ {p}
                      /\ used' = [used EXCEPT !.freed = @ \union {p}]
  /\ UNCHANGED <<tmuxVars, selVars, callVars, call, pc, err>>

-----------------------------------------------------------------------------

Init ==
  /\ \E sc \in Scenarios :
       /\ \E start \in sc.starts : server = start.server /\ cols = start.cols
       /\ busy \in sc.busy
       /\ call \in sc.calls
       /\ used = [deaths |-> 0, fails |-> 0, moves |-> 0, freed |-> {}, scattered |-> {},
                 may |-> sc.may]
  /\ registered = [p \in Pane |-> [window |-> Gone, missed |-> FALSE]]
  /\ pc = "snapshot" /\ path = "none" /\ err = FALSE
  /\ seen = {} /\ next = 0 /\ left = {} /\ moving = NoPane
  /\ opFocus = NoFocus /\ actBefore = Gone /\ before = NoFocus /\ after = "none"

Select == SelectCheck \/ SelectActivate \/ SelectInPlace \/ SelectGuard

Detach == DetachList \/ DetachSkip \/ DetachDecide \/ StashPane \/ StashPaneFails \/ DetachDone

Step ==
  \/ Snapshot \/ Plan
  \/ SwapSkipped \/ Swap
  \/ AttachFirst \/ Attach \/ AttachDone
  \/ Select
  \/ Detach
  \/ Reorder \/ Break \/ BreakDone \/ Rejoin \/ RejoinDone
  \/ Verify \/ Restore

Environment == PaneDies \/ OperatorSelects \/ PaneFrees

Next == Step \/ CallAgain \/ Environment

Spec == Init /\ [][Next]_vars

-----------------------------------------------------------------------------
(* Properties.                                                             *)

Steps == {"snapshot", "plan", "swap", "attachFirst", "attach", "select", "selectActivate",
          "selectInPlace", "selectGuard", "detachList", "detach", "stash", "reorder", "break",
          "rejoin", "verify", "restore", "done"}

Focuses == [window : Window \union {Gone}, pane : Pane \union {Shell, NoPane}]

Entries == [window : Window \union {Gone}, missed : BOOLEAN]

\* Every variable of a call and of the session has its type.
TypeOK ==
  /\ server \in Server
  /\ registered \in [Pane -> Entries]
  /\ busy \subseteq Pane
  /\ used \in [deaths : Nat, fails : Nat, moves : Nat, freed : SUBSET Pane, scattered : SUBSET Pane,
               may : Limits]
  /\ call \in Calls
  /\ pc \in Steps /\ after \in Steps \union {"none"}
  /\ path \in {"none", "fast", "deferred", "swapped", "full"}
  /\ seen \subseteq Pane /\ left \subseteq Pane
  /\ next \in Nat
  /\ moving \in Pane \union {NoPane}
  /\ opFocus \in Focuses /\ before \in Focuses
  /\ actBefore \in Window \union {Gone}
  /\ err \in BOOLEAN

\* DETACH's last-pane guard and REORDER's stationary first pane keep Target
\* from ever losing its last pane to the algorithm itself: as long as no
\* pane has died, Target holds one.
TargetKept == used.deaths = 0 => InWindow(server, Target) # {}

\* protect_pane: a busy pane that the layout does not want is never taken out
\* of Target, by swap, stash or reorder; it can only die there.
BusyStays ==
  [][\A p \in busy \ Wanted :
       server.loc[p] = Target => server'.loc[p] \in {Target, Gone}]_vars

\* Nothing has gone wrong: no pane has died, neither before the call one that it
\* wants, and no command has failed.
Calm ==
  /\ used.deaths = 0 /\ used.fails = 0
  /\ \A p \in Wanted : Alive(server, p)

\* A call that swapped or ran to VERIFY while nothing went wrong leaves every
\* desired pane in Target, next to none but panes that were busy, or that were
\* stashed where they were because Target is a stash window itself; and a call
\* that ran to VERIFY with none of those has put them in the desired order,
\* whatever the geometry it found.
FullRunSettles ==
  (pc = "done" /\ path \in {"swapped", "full"} /\ Calm)
    => /\ Wanted \subseteq InWindow(server, Target)
       /\ ~IsStash(server, Target)
            => InWindow(server, Target) \ Wanted \subseteq busy \union used.freed
       /\ path = "full" /\ InWindow(server, Target) = Wanted => Order(cols) = Desired

\* No silent loss: when a call ends by the full path or by a swap without an
\* error entry, every desired pane that is alive is in Target, so panes that
\* REORDER broke out and could not join again are always reported.
LossIsReported ==
  (pc = "done" /\ path \in {"full", "swapped"} /\ ~err)
    => \A p \in Wanted : Alive(server, p) => server.loc[p] = Target

\* A full run leaves no pane scattered: what was in Target when the plan was
\* made and is not wanted is still there or in a window named "stash", even
\* when the join into the stash failed; unless stash_pane could make no stash
\* window for it, or not rename the one it broke it out to: it reports both as a
\* success, and the pane is in a window of another name.
EvictedAreStashed ==
  (pc = "done" /\ path = "full")
    => \A p \in seen \ Wanted :
         Alive(server, p) =>
           server.loc[p] = Target \/ Stashed(server, p) \/ p \in used.scattered

\* The registry follows every move: after a full run or a swap it records the
\* window of every pane that has entered or left Target since the plan was
\* made, and after a full run that of every desired pane; unless the last update
\* of its entry failed, which is no more than a warning.
RegistryFollows ==
  (pc = "done" /\ path \in {"full", "swapped"})
    => \A p \in Pane :
         /\ Alive(server, p)
         /\ \/ (p \in seen) # (server.loc[p] = Target)
            \/ path = "full" /\ p \in Wanted
         => registered[p].window = server.loc[p] \/ registered[p].missed

\* Selecting a pane never brings a stash window to the front: a step that leaves
\* a window which still exists does not make a stash window the current one,
\* unless the target window is one, select_reconcile_pane found the client in the stash, or a passive
\* call goes back after DETACH to the operator's pane, which it may have stashed.
StashStaysHidden ==
  [][(/\ used'.moves = used.moves
      /\ server.cur \notin server.stash
      /\ server.cur \in Live(server'.loc, server'.shells)
      /\ before.window \notin server.stash /\ ~IsStash(server, Target)
      /\ ~(Passive /\ pc = "detach"))
       => server'.cur \notin server'.stash]_vars

=============================================================================
