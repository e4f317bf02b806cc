----------------------------- MODULE PaneSnapshot -----------------------------
(***************************************************************************)
(* The pane snapshot of a thread (tmux.rs): in a scope, the listing of all *)
(* panes that the first probe takes answers the later probes as well.  The *)
(* operations that change panes drop the listing when they start, and some *)
(* of them probe on their way.  The operator and other processes change    *)
(* panes meanwhile.                                                        *)
(*                                                                         *)
(* A listing gives the session of each pane; a pane it does not list is    *)
(* not alive.  Any query may fail: a list-panes that fails leaves things   *)
(* as they are.                                                            *)
(***************************************************************************)
EXTENDS Naturals, FiniteSets

CONSTANTS Pane,      \* pane ids; tmux does not use one again
          Window,
          SessionOf, \* window -> the session it is in
          Gone,      \* not a window: a pane that does not exist
          Absent,    \* not a session: a pane that is not listed
          Unknown,   \* not a session: nothing is known of a pane
          NoListing, \* no listing is cached
          NoPane,
          MaxDepth   \* nested scopes in a behaviour

Sessions == {SessionOf[w] : w \in Window}
Answers  == Sessions \union {Absent}
Listings == [Pane -> Answers]

ASSUME SnapshotAssumption ==
  /\ DOMAIN SessionOf = Window
  /\ Gone \notin Window
  /\ Absent \notin Sessions /\ Unknown \notin Answers
  /\ NoListing \notin Listings
  /\ NoPane \notin Pane
  /\ MaxDepth \in Nat

VARIABLES
  place,  \* the window each pane is in
  born,   \* the panes created so far
  depth,  \* the scopes open on the thread
  cached, \* the listing in the scope
  seen,   \* the listing that probes have answered from since the outermost scope
          \* began or, later, the thread dropped its listing
  job,    \* the operation the thread is in: its step and what it works on
  known,  \* what the thread's own last change of a pane made of it
  untold  \* panes changed since the listing by one of the operations that
          \* leave it in place (kill_session, ensure_stash_window, join_pane,
          \* swap_pane) or take it anew before their change (kill_pane)

serverVars == <<place, born>>
cacheVars  == <<cached, seen, untold>>
vars       == <<serverVars, cacheVars, depth, job, known>>

Idle == [step |-> "idle", pane |-> NoPane, moving |-> NoPane, session |-> Absent]
At(s) == job.step = s

LiveWindows == {place[p] : p \in Pane} \ {Gone}
LiveSessions == {SessionOf[w] : w \in LiveWindows}
Listed(p) == IF place[p] = Gone THEN Absent ELSE SessionOf[place[p]]
Listing == [p \in Pane |-> Listed(p)]

\* cached_pane_dead_snapshot: what is cached after a probe that found c cached,
\* unless its list-panes fails.
Sampled(c) ==
  IF depth = 0 THEN NoListing
  ELSE IF c # NoListing THEN c ELSE Listing

\* The listing becomes c, after the panes P were changed without dropping it.
Cache(c, P) ==
  /\ cached' = c
  /\ untold' = IF c = NoListing THEN {} ELSE untold \union P

\* invalidate_pane_snapshot
Drop == Cache(NoListing, {}) /\ seen' = NoListing

\* The listing is left in place while the panes P change.
Keep(P) == Cache(cached, P) /\ UNCHANGED seen

\* A probe answers from the listing that is then cached.
Sample == \E c \in {Sampled(cached), cached} : Cache(c, {}) /\ seen' = c

\* Panes become what their owner knows of them.
Put(P, w) ==
  /\ place' = [p \in Pane |-> IF p \in P THEN w ELSE place[p]]
  /\ known' = [p \in Pane |-> IF p \in P
                              THEN IF w = Gone THEN Absent ELSE SessionOf[w] ELSE known[p]]

-----------------------------------------------------------------------------
(* Scopes and probes.                                                      *)

BeginScope ==
  /\ At("idle") /\ depth < MaxDepth
  /\ depth' = depth + 1
  /\ UNCHANGED <<serverVars, cacheVars, job, known>>

\* Mutant: the end of an inner scope drops the listing as well.
EndScope_Always ==
  /\ At("idle") /\ depth > 0
  /\ depth' = depth - 1
  /\ Cache(NoListing, {}) /\ seen' = IF depth = 1 THEN NoListing ELSE seen
  /\ UNCHANGED <<serverVars, job, known>>

\* Only the end of the outermost scope drops the listing.
EndScope ==
  /\ At("idle") /\ depth > 0
  /\ depth' = depth - 1
  /\ IF depth = 1 THEN Drop ELSE Keep({})
  /\ UNCHANGED <<serverVars, job, known>>

\* pane_alive, pane_dead, try_alive_pane_ids, pane_session
Probe ==
  /\ At("idle")
  /\ Sample
  /\ UNCHANGED <<serverVars, depth, job, known>>

\* invalidate_pane_snapshot, and the operations below when they fail.
Invalidate ==
  /\ At("idle")
  /\ Drop
  /\ UNCHANGED <<serverVars, depth, job, known>>

-----------------------------------------------------------------------------
(* Operations of one command.                                              *)

Create(p, w) ==
  /\ At("idle") /\ p \notin born
  /\ born' = born \union {p}
  /\ Put({p}, w)
  /\ UNCHANGED <<depth, job>>

\* new_session, new_window (in a window of its own) and split_window
NewPane(p, w) == Create(p, w) /\ Drop

\* ensure_stash_window, when there is no stash window
NewStash(p, w) ==
  /\ w \notin LiveWindows /\ SessionOf[w] \in LiveSessions
  /\ Create(p, w)
  /\ Keep({p})

\* join_pane
JoinPane(p, q) ==
  /\ At("idle") /\ p # q
  /\ place[p] # Gone /\ place[q] # Gone
  /\ Put({p}, place[q])
  /\ Keep({p})
  /\ UNCHANGED <<born, depth, job>>

\* swap_pane
SwapPane(p, q) ==
  /\ At("idle") /\ p # q
  /\ place[p] # Gone /\ place[q] # Gone
  /\ place' = [place EXCEPT ![p] = place[q], ![q] = place[p]]
  /\ known' = [known EXCEPT ![p] = Listed(q), ![q] = Listed(p)]
  /\ Keep({p, q})
  /\ UNCHANGED <<born, depth, job>>

\* kill_session
KillSession(s) ==
  /\ At("idle") /\ s \in LiveSessions
  /\ LET P == {p \in Pane : Listed(p) = s}
     IN  Put(P, Gone) /\ Keep(P)
  /\ UNCHANGED <<born, depth, job>>

-----------------------------------------------------------------------------
(* kill_pane: drop the listing, look for the other panes of the window,    *)
(* ask for the session of a last pane, kill.  A pane whose window or       *)
(* session cannot be told is killed all the same; a window whose panes     *)
(* cannot be listed has no other, a session whose windows cannot be        *)
(* counted none to spare.                                                  *)

Goes(s) == job' = [job EXCEPT !.step = s]

\* Mutant: kill_pane does not drop the listing.
KillPane_Cached(p) ==
  /\ At("idle") /\ p \in born
  /\ job' = [Idle EXCEPT !.step = "guard", !.pane = p]
  /\ UNCHANGED <<serverVars, cacheVars, depth, known>>

KillPane(p) ==
  /\ At("idle") /\ p \in born
  /\ job' = [Idle EXCEPT !.step = "guard", !.pane = p]
  /\ Drop
  /\ UNCHANGED <<serverVars, depth, known>>

IsAlone(p) == place[p] # Gone /\ \A q \in Pane : place[q] = place[p] => q = p

Guard ==
  /\ At("guard")
  /\ \/ Goes(IF IsAlone(job.pane) THEN "ask" ELSE "kill")
     \/ Goes("kill")                             \* pane_window fails
     \/ place[job.pane] # Gone /\ Goes("ask")    \* list_window_panes fails
  /\ UNCHANGED <<serverVars, cacheVars, depth, known>>

\* session_window_count: the window of p is the only one of its session.
InLastWindow(p) ==
  \A w \in LiveWindows : SessionOf[w] = Listed(p) => w = place[p]

\* pane_session is a probe; the last window of a session is not closed.
Ask ==
  /\ At("ask")
  /\ Sample
  /\ \/ IF place[job.pane] # Gone /\ InLastWindow(job.pane) THEN job' = Idle
        ELSE Goes("killAlone")
     \/ Goes("killAlone")                        \* pane_session fails
     \/ place[job.pane] # Gone /\ job' = Idle    \* session_window_count fails
  /\ UNCHANGED <<serverVars, depth, known>>

\* kill-pane, which may fail.
Kill ==
  /\ At("kill") \/ At("killAlone")
  /\ \/ /\ place[job.pane] # Gone
        /\ Put({job.pane}, Gone)
        /\ Keep(IF At("killAlone") THEN {job.pane} ELSE {})
     \/ UNCHANGED <<place, known, cacheVars>>
  /\ job' = Idle
  /\ UNCHANGED <<born, depth>>

-----------------------------------------------------------------------------
(* break_pane: drop the listing, ask for the pane's session, start a       *)
(* placeholder in a new window there, join the pane to it, kill_pane the   *)
(* placeholder.                                                            *)

BreakPane(p) ==
  /\ At("idle") /\ p \in born
  /\ job' = [Idle EXCEPT !.step = "source", !.moving = p]
  /\ Drop
  /\ UNCHANGED <<serverVars, depth, known>>

\* pane_session fails for a pane that is gone, and may for another.
BreakAsk ==
  /\ At("source")
  /\ Sample
  /\ \/ job' = Idle
     \/ /\ place[job.moving] # Gone
        /\ job' = [job EXCEPT !.step = "break", !.session = Listed(job.moving)]
  /\ UNCHANGED <<serverVars, depth, known>>

Placeholder(p, w) ==
  /\ At("break") /\ p \notin born
  /\ w \notin LiveWindows /\ SessionOf[w] = job.session /\ job.session \in LiveSessions
  /\ born' = born \union {p}
  /\ Put({p}, w)
  /\ job' = [job EXCEPT !.step = "join", !.pane = p]
  /\ UNCHANGED <<cacheVars, depth>>

PlaceholderFails ==
  /\ At("break")
  /\ job' = Idle
  /\ UNCHANGED <<serverVars, cacheVars, depth, known>>

\* Whether or not the pane could be joined, the placeholder is killed.
BreakJoin ==
  /\ At("join")
  /\ \/ /\ place[job.moving] # Gone /\ place[job.pane] # Gone
        /\ Put({job.moving}, place[job.pane])
     \/ UNCHANGED <<place, known>>
  /\ Drop
  /\ Goes("guard")
  /\ UNCHANGED <<born, depth>>

-----------------------------------------------------------------------------
(* auto_start: a new window in the session, or the session with its first. *)

\* running and session_exists, whose answers others can outdate.
AutoStart(s) ==
  /\ At("idle")
  /\ job' = [Idle EXCEPT !.step = IF s \in LiveSessions THEN "window" ELSE "session",
                         !.session = s]
  /\ UNCHANGED <<serverVars, cacheVars, depth, known>>

Launch(p, w) ==
  /\ p \notin born /\ w \notin LiveWindows /\ SessionOf[w] = job.session
  /\ \/ At("window") /\ job.session \in LiveSessions
     \/ At("session") /\ job.session \notin LiveSessions
  /\ born' = born \union {p}
  /\ Put({p}, w)
  /\ Drop
  /\ job' = Idle
  /\ UNCHANGED depth

\* new_session fails when the session exists by now, new_window when it does not.
LaunchFails ==
  /\ At("window") \/ At("session")
  /\ Drop
  /\ job' = Idle
  /\ UNCHANGED <<serverVars, depth, known>>

-----------------------------------------------------------------------------
(* The operator and other processes.                                       *)

OthersPut(p, w) ==
  /\ place' = [place EXCEPT ![p] = w]
  /\ known' = [known EXCEPT ![p] = Unknown]
  /\ UNCHANGED <<cacheVars, depth, job>>

OthersCreate(p, w) == p \notin born /\ born' = born \union {p} /\ OthersPut(p, w)

OthersChange(p, w) == place[p] # Gone /\ place[p] # w /\ OthersPut(p, w) /\ UNCHANGED born

Init ==
  /\ place = [p \in Pane |-> Gone] /\ born = {}
  /\ depth = 0 /\ cached = NoListing /\ seen = NoListing
  /\ job = Idle
  /\ known = [p \in Pane |-> Unknown] /\ untold = {}

Step ==
  \/ BeginScope \/ EndScope \/ Probe \/ Invalidate
  \/ \E p \in Pane, w \in Window : NewPane(p, w) \/ NewStash(p, w) \/ Placeholder(p, w) \/ Launch(p, w)
  \/ \E p, q \in Pane : JoinPane(p, q) \/ SwapPane(p, q)
  \/ \E s \in Sessions : KillSession(s) \/ AutoStart(s)
  \/ \E p \in Pane : KillPane(p) \/ BreakPane(p)
  \/ Guard \/ Ask \/ Kill
  \/ BreakAsk \/ PlaceholderFails \/ BreakJoin
  \/ LaunchFails

Others ==
  \/ \E p \in Pane, w \in Window : OthersCreate(p, w) \/ OthersChange(p, w)
  \/ \E p \in Pane : OthersChange(p, Gone)

Next == Step \/ Others

Spec == Init /\ [][Next]_vars

-----------------------------------------------------------------------------
(* Properties.                                                             *)

Steps == {"idle", "guard", "ask", "kill", "killAlone", "source", "break", "join",
          "window", "session"}

\* An operation that kills has a pane to kill, one that moves a pane to move.
Jobs ==
  {j \in [step : Steps, pane : Pane \union {NoPane}, moving : Pane \union {NoPane},
          session : Answers] :
     /\ j.step \in {"guard", "ask", "kill", "killAlone", "join"} => j.pane \in Pane
     /\ j.step \in {"source", "break", "join"} => j.moving \in Pane}

\* Every variable has its type, and nothing is cached outside a scope.
TypeOK ==
  /\ place \in [Pane -> Window \union {Gone}] /\ born \subseteq Pane
  /\ depth \in 0..MaxDepth
  /\ {cached, seen} \subseteq Listings \union {NoListing}
  /\ depth = 0 => cached = NoListing
  /\ job \in Jobs
  /\ known \in [Pane -> Answers \union {Unknown}] /\ untold \subseteq Pane

\* What a probe answers is never older than the thread's own last change of the
\* pane, be it creation, move or death, but for the operations that leave the
\* listing in place or take it before their change.
FollowsOwnChanges ==
  At("idle") /\ cached # NoListing =>
    \A p \in Pane \ untold : known[p] \in {Unknown, cached[p]}

\* A scope shows one view: whatever others change, and however many scopes begin
\* and end inside, probes answer from one listing until the thread has dropped it
\* or the outermost scope has ended; and that listing is one of this scope, of
\* the panes as they were at the first answer.
OneView ==
  [][IF seen = NoListing THEN seen' \in {NoListing, Listing}
     ELSE seen' \in {seen, NoListing}]_vars

=============================================================================
