---------------------------- MODULE StashCommands ----------------------------
(***************************************************************************)
(* stash_pane, break_pane and kill_pane (tmux.rs) and the guard of DETACH  *)
(* in front of them (sync.rs), command by command.  Each reads the server, *)
(* decides and sends its commands one after the other; several processes   *)
(* do so at once, panes die, and other calls take panes out of the stash.  *)
(* TmuxServer has each of these calls as a single step.                    *)
(*                                                                         *)
(* A shell is known by the window it was started in, which it never        *)
(* leaves.  All panes are in the session of the layout.  Every process     *)
(* makes one call.  tmux gives no window id twice.                         *)
(***************************************************************************)
EXTENDS TmuxServer

CONSTANTS Caller,  \* processes that call
          NoCall,  \* not a call
          Calls,   \* the calls that are made
          Starts,  \* the servers they start with
          May      \* bound: the deaths, failed commands and moves there are, in all

\* evict is DETACH's decision and its stash_pane.
Call == [op : {"stash", "evict", "kill"}, pane : Pane]

ASSUME CommandsAssumption ==
  /\ Pane \intersect Window = {}
  /\ NoPane \notin Window
  /\ NoCall \notin Call
  /\ Calls \subseteq Call
  /\ Starts \subseteq Server
  /\ \A s \in Starts : \A w \in Foreign : Occupants(s.loc, s.shells, w) = {}
  /\ May \in Nat

VARIABLES
  server,
  job,    \* a process's call
  used,   \* the deaths, failures and moves so far
  newest \* the last window id given

\* A job is a record of
\*   call    what it does
\*   pc      its next command, or idle
\*   stash   the window of ensure_stash_window; Gone if there is none
\*   dst     the pane it will join its own to
\*   kept    the pane that was selected in the stash window
\*   holder  the window of break_pane's placeholder; then what pane_window answers
\*   victim  the pane kill_pane is called with
\*   after   where the call goes on when that one is dead
\*   result  how the call ended; broken is a success without a stash or a rename
\*   start   the server when it began
\*   alone   whether nobody else has changed the server since, and every list
\*           of windows was answered
\*   lost    whether others have taken a pane out of Target, or killed one, since
\*           the job's last check
vars == <<server, job, used, newest>>

NoJob == [call |-> NoCall, pc |-> "idle", stash |-> Gone, dst |-> NoPane, kept |-> NoPane,
          holder |-> Gone, victim |-> NoPane, after |-> "none", result |-> "none",
          start |-> NoCall, alone |-> TRUE, lost |-> FALSE]

At(c, l) == job[c].pc = l
Own(c)   == job[c].call.pane

\* Where a pane or a shell is, and who is in a window or in the session.
Place(s, i)   == IF i \in Pane THEN s.loc[i] ELSE IF i \in s.shells THEN i ELSE Gone
Exists(s, i)  == i # NoPane /\ Place(s, i) # Gone
InSight(s, w) == InWindow(s, w) \union (s.shells \intersect {w})
Everyone(s)   == {p \in Pane : Alive(s, p)} \union s.shells
Windows(s)    == {Place(s, i) : i \in Everyone(s)}

\* The session exists.
Here(s) == Everyone(s) # {}

\* The step takes a pane out of Target, or ends one.
Loss == ~(InSight(server, Target) \subseteq InSight(server', Target))
          \/ ~(Everyone(server) \subseteq Everyone(server'))

\* The step of c makes its job j; what the others know is older now.
Does(c, j) ==
  job' = [u \in Caller |->
           IF u = c THEN j ELSE IF At(u, "idle") THEN job[u]
           ELSE [job[u] EXCEPT !.alone = @ /\ server' = server,
                               !.lost = @ \/ Loss]]

Goes(c, l) == Does(c, [job[c] EXCEPT !.pc = l])

Returns(c, r) == Does(c, [NoJob EXCEPT !.call = job[c].call, !.result = r])

Spends(what) ==
  used.deaths + used.fails + used.moves < May /\ used' = [used EXCEPT ![what] = @ + 1]
Fails == Spends("fails")

Quiet == UNCHANGED <<server, used, newest>>

\* new-window -d, in the session.
Opens(stash) ==
  LET w == newest + 1
  IN  /\ w \in Window
      /\ newest' = w
      /\ server' = [server EXCEPT !.stash = @ \union (IF stash THEN {w} ELSE {}),
                                   !.shells = @ \union {w}, !.sel = [@ EXCEPT ![w] = Shell]]

-----------------------------------------------------------------------------
(* The calls, and DETACH's guard.                                          *)

Begin(c, cl) ==
  /\ At(c, "idle") /\ job[c].call = NoCall /\ Here(server)
  /\ Quiet
  /\ Does(c, [NoJob EXCEPT !.call = cl, !.start = server,
                           !.victim = IF cl.op = "kill" THEN cl.pane ELSE NoPane,
                           !.after = IF cl.op = "kill" THEN "killed" ELSE "none",
                           !.pc = CASE cl.op = "evict" -> "check"
                                    [] cl.op = "stash" -> "find"
                                    [] cl.op = "kill"  -> "guard"])

\* Mutant: the last pane is not spared.
IsLast_Never(w) == FALSE

IsLast(w) == \A i, j \in InSight(server, w) : i = j

\* A window's last pane is skipped; the other reasons to skip one are Reconcile's.
Check(c) ==
  /\ At(c, "check")
  /\ Quiet
  /\ IF IsLast(Target) THEN Returns(c, "skipped")
     ELSE Does(c, [job[c] EXCEPT !.pc = "find", !.lost = FALSE])

-----------------------------------------------------------------------------
(* ensure_stash_window and stash_pane.                                     *)

FindStash(c) ==
  /\ At(c, "find")
  /\ Quiet
  /\ IF SessionStash(server) = {} THEN Goes(c, "create")
     ELSE \E w \in SessionStash(server) :
            Does(c, [job[c] EXCEPT !.pc = "list", !.stash = w])

\* A list-windows that fails counts as a session without a stash.
FindStashFails(c) ==
  /\ At(c, "find")
  /\ Fails /\ UNCHANGED <<server, newest>>
  /\ Does(c, [job[c] EXCEPT !.pc = "create", !.alone = FALSE])

CreateStash(c) ==
  /\ At(c, "create") /\ Here(server)
  /\ Opens(TRUE)
  /\ Does(c, [job[c] EXCEPT !.pc = "list", !.stash = newest'])
  /\ UNCHANGED used

\* Without a stash the pane is broken out, to a window without that name.
CreateStashFails(c) ==
  /\ At(c, "create")
  /\ IF Here(server) THEN Fails ELSE UNCHANGED used
  /\ UNCHANGED <<server, newest>>
  /\ Goes(c, "break")

ListStash(c) ==
  /\ At(c, "list")
  /\ Quiet
  /\ IF InSight(server, job[c].stash) = {} THEN Goes(c, "break")
     ELSE \E i \in InSight(server, job[c].stash) :
            Does(c, [job[c] EXCEPT !.pc = "selected", !.dst = i])

\* The pane selected in a window, as an id.
SelectedOf(s, w) ==
  IF InSight(s, w) = {} THEN NoPane ELSE IF s.sel[w] = Shell THEN w ELSE s.sel[w]

ReadSelected(c) ==
  /\ At(c, "selected")
  /\ Quiet
  /\ Does(c, [job[c] EXCEPT !.pc = "largest", !.kept = SelectedOf(server, job[c].stash)])

\* largest_pane_in_window; the first of the list if the window has gone.
ReadLargest(c) ==
  /\ At(c, "largest")
  /\ Quiet
  /\ IF InSight(server, job[c].stash) = {} THEN Goes(c, "join")
     ELSE \E i \in InSight(server, job[c].stash) :
            Does(c, [job[c] EXCEPT !.pc = "join", !.dst = i])

CanJoin(p, i) == Alive(server, p) /\ Exists(server, i) /\ p # i

\* join-pane -d may still select the pane in its new window.
JoinsTo(p, w) ==
  \E u \in MovedTo(server, p, w) :
    server' = u \/ server' = SelectedIn(u, w, p)

JoinStash(c) ==
  /\ At(c, "join") /\ CanJoin(Own(c), job[c].dst)
  /\ JoinsTo(Own(c), Place(server, job[c].dst))
  /\ IF job[c].kept # NoPane THEN Goes(c, "restore") ELSE Returns(c, "stashed")
  /\ UNCHANGED <<used, newest>>

\* The pane it splits is too small, or one of the two has gone.
JoinStashFails(c) ==
  /\ At(c, "join")
  /\ IF CanJoin(Own(c), job[c].dst) THEN Fails ELSE UNCHANGED used
  /\ UNCHANGED <<server, newest>>
  /\ Goes(c, "break")

\* Mutant: the selection of the stash window is not restored.
Reselected_Never(s, i) == s

Reselected(s, i) ==
  IF ~Exists(s, i) THEN s
  ELSE SelectedIn(s, Place(s, i), IF i \in Pane THEN i ELSE Shell)

RestoreSelected(c) ==
  /\ At(c, "restore")
  /\ server' = Reselected(server, job[c].kept)
  /\ Returns(c, "stashed")
  /\ UNCHANGED <<used, newest>>

-----------------------------------------------------------------------------
(* break_pane and break_pane_to_stash.                                     *)

\* pane_session.
AskSession(c) ==
  /\ At(c, "break")
  /\ Quiet
  /\ IF Alive(server, Own(c)) THEN Goes(c, "open") ELSE Returns(c, "error")

NewPlaceholder(c) ==
  /\ At(c, "open") /\ Here(server)
  /\ Opens(FALSE)
  /\ Does(c, [job[c] EXCEPT !.pc = "place", !.holder = newest', !.victim = newest'])
  /\ UNCHANGED used

NewPlaceholderFails(c) ==
  /\ At(c, "open")
  /\ IF Here(server) THEN Fails ELSE UNCHANGED used
  /\ UNCHANGED <<server, newest>>
  /\ Returns(c, "error")

\* The break came from a stash_pane that had a stash window.
Named(c) == job[c].stash # Gone

JoinPlaceholder(c) ==
  /\ At(c, "place") /\ CanJoin(Own(c), job[c].holder)
  /\ JoinsTo(Own(c), job[c].holder)
  /\ Does(c, [job[c] EXCEPT !.pc = "guard", !.after = IF Named(c) THEN "locate" ELSE "broken"])
  /\ UNCHANGED <<used, newest>>

JoinPlaceholderFails(c) ==
  /\ At(c, "place")
  /\ IF CanJoin(Own(c), job[c].holder) THEN Fails ELSE UNCHANGED used
  /\ UNCHANGED <<server, newest>>
  /\ Does(c, [job[c] EXCEPT !.pc = "guard", !.after = "error"])

\* pane_window; without an answer nothing is renamed.
Locate(c) ==
  /\ At(c, "locate")
  /\ Quiet
  /\ IF Alive(server, Own(c))
     THEN Does(c, [job[c] EXCEPT !.pc = "rename", !.holder = server.loc[Own(c)]])
     ELSE Returns(c, "stashed")

\* Mutant: the stash window that could not take the pane is renamed.
Overflow_First(c) == job[c].stash

Overflow(c) == job[c].holder

\* rename-window.
Rename(c) ==
  /\ At(c, "rename")
  /\ server' = [server EXCEPT !.stash =
                  @ \union {w \in {Overflow(c)} : InSight(server, w) # {}}]
  /\ Returns(c, "stashed")
  /\ UNCHANGED <<used, newest>>

\* pane_window or rename-window fails, and nobody is told: the pane stays in a
\* window of another name.
NamingFails(c) ==
  /\ At(c, "locate") \/ At(c, "rename")
  /\ Fails /\ UNCHANGED <<server, newest>>
  /\ Returns(c, "broken")

-----------------------------------------------------------------------------
(* kill_pane.                                                              *)

\* pane_window; without an answer there is no guard.
Guard(c) ==
  /\ At(c, "guard")
  /\ Quiet
  /\ IF Exists(server, job[c].victim)
     THEN Does(c, [job[c] EXCEPT !.pc = "others", !.holder = Place(server, job[c].victim)])
     ELSE Goes(c, "kill")

\* list_window_panes: the window has others.
Others(c) ==
  /\ At(c, "others")
  /\ Quiet
  /\ IF IsLast(job[c].holder) THEN Goes(c, "count")
     ELSE Does(c, [job[c] EXCEPT !.pc = "kill", !.lost = FALSE])

LastWindow == \A v, w \in Windows(server) : v = w

\* pane_session and session_window_count: the last window is refused.
Count(c) ==
  /\ At(c, "count")
  /\ Quiet
  /\ IF Exists(server, job[c].victim) /\ LastWindow THEN Returns(c, "error")
     ELSE Does(c, [job[c] EXCEPT !.pc = "kill", !.lost = FALSE])

\* With its last pane the session ends.
Killed(s, i) ==
  LET loc    == IF i \in Pane THEN [s.loc EXCEPT ![i] = Gone] ELSE s.loc
      shells == s.shells \ {i}
  IN  IF Live(loc, shells) = {} THEN {[s EXCEPT !.loc = loc, !.shells = {}, !.stash = {}]}
      ELSE Settled(loc, s.stash, shells, s.sel, s.cur)

Kill(c) ==
  /\ At(c, "kill")
  /\ IF Exists(server, job[c].victim)
     THEN /\ server' \in Killed(server, job[c].victim)
          /\ IF job[c].after = "locate" THEN Goes(c, "locate") ELSE Returns(c, job[c].after)
     ELSE UNCHANGED server /\ Returns(c, "error")
  /\ UNCHANGED <<used, newest>>

-----------------------------------------------------------------------------
(* Meanwhile.                                                              *)

\* Nobody's step.
Happens ==
  job' = [u \in Caller |-> IF At(u, "idle") THEN job[u]
            ELSE [job[u] EXCEPT !.alone = FALSE,
                    !.lost = @ \/ Loss]]

PaneDies ==
  /\ Spends("deaths") /\ UNCHANGED newest
  /\ \E p \in Pane : Alive(server, p) /\ server' \in Died(server, p)
  /\ Happens

\* Another call attaches a pane to the layout.
Attached ==
  /\ Spends("moves") /\ UNCHANGED newest
  /\ InWindow(server, Target) # {}
  /\ \E p \in Pane : /\ Alive(server, p) /\ server.loc[p] # Target
                     /\ server' \in MovedTo(server, p, Target)
  /\ Happens

Init ==
  /\ server \in Starts
  /\ job = [c \in Caller |-> NoJob]
  /\ used = [deaths |-> 0, fails |-> 0, moves |-> 0]
  /\ newest \in Windows(server) /\ \A w \in Windows(server) : w <= newest

Stash(c) ==
  \/ Check(c)
  \/ FindStash(c) \/ FindStashFails(c) \/ CreateStash(c) \/ CreateStashFails(c)
  \/ ListStash(c) \/ ReadSelected(c) \/ ReadLargest(c)
  \/ JoinStash(c) \/ JoinStashFails(c) \/ RestoreSelected(c)

Break(c) ==
  \/ AskSession(c) \/ NewPlaceholder(c) \/ NewPlaceholderFails(c)
  \/ JoinPlaceholder(c) \/ JoinPlaceholderFails(c)
  \/ Locate(c) \/ Rename(c) \/ NamingFails(c)

Step(c) == Stash(c) \/ Break(c) \/ Guard(c) \/ Others(c) \/ Count(c) \/ Kill(c)

Next ==
  \/ \E c \in Caller, cl \in Calls : Begin(c, cl)
  \/ \E c \in Caller : Step(c)
  \/ PaneDies \/ Attached

Spec == Init /\ [][Next]_vars

-----------------------------------------------------------------------------
(* Properties.                                                             *)

Ends(c, r) == ~At(c, "idle") /\ job'[c].pc = "idle" /\ job'[c].result = r

AtWork(u) == ~At(u, "idle")

Apart(u, c) == job[u].call = NoCall \/ (Own(u) # Own(c) /\ job[u].result # "broken")

\* stash_pane never drops a pane: when it returns without an error, had a stash
\* window to use and could rename the one it broke the pane out to, its pane is
\* in a window named "stash" or has died, or is in one that another call is still
\* to rename.  Others may have made, left or
\* filled stash windows meanwhile, and the pane it joined its own to may have
\* gone; only, no pane was attached to the layout or broken out of the stash, and
\* nobody else was called with the same pane.
StashKeepsItsWord ==
  [][\A c \in Caller :
       Ends(c, "stashed") /\ used.moves = 0 /\ (\A u \in Caller \ {c} : Apart(u, c)) =>
         \/ ~Alive(server', Own(c)) \/ Stashed(server', Own(c))
         \/ \E u \in Caller \ {c} : AtWork(u) /\ server'.loc[Own(u)] = server'.loc[Own(c)]]_vars

\* What TmuxServer lets the call do, and a server as its panes show it: a window
\* id that was given and lost is not seen.
AsOneStep(s, cl, r) ==
  CASE r = "stashed" -> JoinedStash(s, cl.pane) \union BrokenToStash(s, cl.pane)
    [] r = "broken"  -> Scattered(s, cl.pane)
    [] r = "skipped" -> {s}
    [] OTHER         -> {s} \union WithStash(s)

View(s) ==
  [pane |-> [p \in Pane |->
     IF ~Alive(s, p) THEN {}
     ELSE {<<"with", i>> : i \in Occupants(s.loc, s.shells, s.loc[p])}
            \union {<<"selected", s.sel[s.loc[p]]>>, <<"stashed", Stashed(s, p)>>,
                    <<"current", s.cur = s.loc[p]>>}],
   stashes |-> Cardinality(s.stash), shells |-> Cardinality(s.shells)]

\* A call during which nobody else does anything, and whose list of windows was
\* answered, has one of the effects that TmuxServer gives it as a single step and
\* that StashesPane and StashRefuses of Reconcile take from there, other failed
\* commands included: a success without a stash window, or without the rename,
\* is Scattered and nothing else.
ActsAsOneStep ==
  [][\A c \in Caller, r \in {"stashed", "broken", "skipped", "error"} :
       Ends(c, r) /\ job[c].alone /\ job[c].call.op # "kill" =>
         \E u \in AsOneStep(job[c].start, job[c].call, r) : View(server') = View(u)]_vars

\* The guards of DETACH and of kill_pane hold: no call takes the last pane out of
\* Target, or kills the last one of the session, unless others have taken or
\* killed panes between the check and the command.
GuardsHold ==
  [][\A c \in Caller : AtWork(c) /\ job'[c].pc # job[c].pc /\ ~job[c].lost =>
       /\ Here(server) => Here(server')
       /\ job[c].call.op = "evict" /\ InSight(server, Target) # {} =>
            InSight(server', Target) # {}]_vars

=============================================================================
