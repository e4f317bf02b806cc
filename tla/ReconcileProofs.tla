--------------------------- MODULE ReconcileProofs ---------------------------
(***************************************************************************)
(* Theorems about Reconcile and Sync, for every set of panes, windows,     *)
(* calls and starting sessions and every bound on what happens meanwhile.  *)
(*                                                                         *)
(* IInv is the inductive invariant of reconcile.  Besides the types it     *)
(* says what holds between the steps of the call: why a swap or a stash    *)
(* that has been decided is still safe when it is carried out, although    *)
(* panes may have died since, and where the panes are that the call has    *)
(* moved so far.  Three more rest on it:                                   *)
(*                                                                         *)
(*   - Settling says what each step has achieved of the layout when        *)
(*     nothing disturbs the call, with the geometry the windows then have; *)
(*   - Facing says what is on view: every window shows one of its panes,   *)
(*     and what is about to be selected is in no stash window;             *)
(*   - SyncInv carries them through the stages of sync after reconcile,    *)
(*     which rely on what Rest says of the layout left to them.            *)
(***************************************************************************)
EXTENDS Sync, LayoutProofs

-----------------------------------------------------------------------------
(* What the tmux commands of TmuxServer do to any server: each keeps the   *)
(* types, moves the panes it is given and leaves every other pane in its   *)
(* window, and in the stash if it was there.                               *)

\* From s to u only panes of P may have moved, and no other pane that was in a
\* stash window is in a window of another name.
Keeps(s, u, P) ==
  \A q \in Pane \ P : u.loc[q] = s.loc[q] /\ (Stashed(s, q) => Stashed(u, q))

\* What tmux does on its own after a move changes no pane's window, closes
\* only windows without a pane and keeps the types.
LEMMA SettledEffect ==
  ASSUME NEW loc \in [Pane -> Window \union {Gone}],
         NEW stash \in SUBSET Window,
         NEW shells \in SUBSET Window,
         NEW sel \in [Window -> Pane \union {Shell}],
         NEW cur \in Window \ Foreign,
         NEW u \in Settled(loc, stash, shells, sel, cur)
  PROVE  /\ u \in Server
         /\ u.loc = loc
         /\ u.stash = stash \intersect Live(loc, shells)
<1> DEFINE occ(w) == Occupants(loc, shells, w)
<1> DEFINE selection(w, heir) ==
        IF occ(w) = {} THEN Shell
        ELSE IF sel[w] \in occ(w) THEN sel[w]
        ELSE IF heir \in occ(w) THEN heir
        ELSE CHOOSE q \in occ(w) : TRUE
<1> DEFINE result(heir, c) ==
        [loc |-> loc, stash |-> stash \intersect Live(loc, shells), shells |-> shells,
         sel |-> [w \in Window |-> selection(w, heir)], cur |-> c]
<1> DEFINE currents == IF occ(cur) # {} THEN {cur} ELSE Live(loc, shells) \ Foreign
<1>0. Settled(loc, stash, shells, sel, cur) =
        {result(heir, c) : heir \in Pane \union {Shell}, c \in currents}
  BY DEF Settled
<1>1. PICK heir \in Pane \union {Shell}, c \in currents : u = result(heir, c)
  <2> HIDE DEF result, currents
  <2> QED
    BY <1>0
<1>2. Live(loc, shells) \subseteq Window
  BY DEF Live
<1>3. ASSUME NEW w \in Window
      PROVE  selection(w, heir) \in Pane \union {Shell}
  <2>1. occ(w) \subseteq Pane \union {Shell}
    BY DEF Occupants
  <2>2. occ(w) # {} => (CHOOSE q \in occ(w) : TRUE) \in occ(w)
    OBVIOUS
  <2> QED
    BY <2>1, <2>2
<1>4. c \in Window \ Foreign
  BY <1>1, <1>2
<1>5. [w \in Window |-> selection(w, heir)] \in [Window -> Pane \union {Shell}]
  BY <1>3
<1> HIDE DEF occ, selection, currents
<1>6. u \in Server
  BY <1>1, <1>2, <1>4, <1>5 DEF Server
<1> QED
  BY <1>1, <1>6

\* When no pane but p has moved and only windows without a pane have lost their
\* name, the other panes are where they were.
LEMMA OneMoves ==
  ASSUME NEW s \in Server, NEW u \in Server, NEW p \in Pane, NEW stash, NEW shells,
         s.stash \subseteq stash,
         \A q \in Pane \ {p} : u.loc[q] = s.loc[q],
         u.stash = stash \intersect Live(u.loc, shells)
  PROVE  /\ u.loc[p] \in stash /\ u.loc[p] # Gone => Stashed(u, p)
         /\ Keeps(s, u, {p})
<1>1. \A q \in Pane : u.loc[q] \in Window => u.loc[q] \in Live(u.loc, shells)
  BY DEF Live, Occupants
<1>2. \A q \in Pane : u.loc[q] \in Window \union {Gone}
  BY DEF Server
<1>3. u.loc[p] \in stash /\ u.loc[p] # Gone => Stashed(u, p)
  BY <1>1, <1>2 DEF Stashed, IsStash, StashWindows
<1>4. Keeps(s, u, {p})
  BY <1>1 DEF Keeps, Stashed, IsStash, StashWindows, Server
<1> QED
  BY <1>3, <1>4

\* The same for a move that renames no window.
LEMMA MovedToEffect ==
  ASSUME NEW s \in Server, NEW p \in Pane, NEW w \in Window, NEW u \in MovedTo(s, p, w)
  PROVE  /\ u \in Server
         /\ u.loc[p] = w
         /\ w \in s.stash => Stashed(u, p)
         /\ Keeps(s, u, {p})
<1> DEFINE loc == [s.loc EXCEPT ![p] = w]
<1>1. /\ loc \in [Pane -> Window \union {Gone}]
      /\ s.stash \in SUBSET Window /\ s.shells \in SUBSET Window
      /\ s.sel \in [Window -> Pane \union {Shell}]
      /\ s.cur \in Window \ Foreign
  BY DEF Server
<1>2. /\ u \in Server
      /\ u.loc = loc
      /\ u.stash = s.stash \intersect Live(loc, s.shells)
  BY <1>1, SettledEffect DEF MovedTo
<1>3. /\ u.loc[p] = w
      /\ \A q \in Pane \ {p} : u.loc[q] = s.loc[q]
      /\ u.stash = s.stash \intersect Live(u.loc, s.shells)
  BY <1>2 DEF Server
<1>4. u \in Server /\ s.stash \subseteq s.stash
  BY <1>2
<1> HIDE DEF loc
<1>5. /\ u.loc[p] \in s.stash /\ u.loc[p] # Gone => Stashed(u, p)
      /\ Keeps(s, u, {p})
  BY <1>3, <1>4, OneMoves, Zenon
<1> QED
  BY <1>2, <1>3, <1>5, ServerAssumption DEF Gone

\* join-pane: p ends in the window t was in.
LEMMA JoinedEffect ==
  ASSUME NEW s \in Server, NEW p, NEW t, NEW u \in Joined(s, p, t)
  PROVE  /\ u \in Server
         /\ p \in Pane /\ t \in Pane /\ p # t
         /\ u.loc[p] = s.loc[t]
         /\ Keeps(s, u, {p})
<1>1. /\ p \in Pane /\ t \in Pane /\ p # t
      /\ s.loc[t] \in Window
      /\ u \in MovedTo(s, p, s.loc[t])
  BY DEF Joined, Alive, Server
<1> QED
  BY <1>1, MovedToEffect

\* swap-pane: the two panes exchange their windows.
LEMMA SwappedEffect ==
  ASSUME NEW s \in Server, NEW a, NEW b, NEW u \in Swapped(s, a, b)
  PROVE  /\ u \in Server
         /\ Alive(s, a) /\ Alive(s, b)
         /\ u.loc[a] = s.loc[b] /\ u.loc[b] = s.loc[a]
         /\ Keeps(s, u, {a, b})
<1> DEFINE loc == [[s.loc EXCEPT ![a] = s.loc[b]] EXCEPT ![b] = s.loc[a]]
<1> DEFINE sel == [w \in Window |-> IF s.sel[w] = a THEN b
                                    ELSE IF s.sel[w] = b THEN a ELSE s.sel[w]]
<1>1. /\ Alive(s, a) /\ Alive(s, b)
      /\ u = [[s EXCEPT !.loc = loc] EXCEPT !.sel = sel]
  BY DEF Swapped
<1>2. /\ loc \in [Pane -> Window \union {Gone}]
      /\ loc[a] = s.loc[b] /\ loc[b] = s.loc[a]
      /\ \A q \in Pane \ {a, b} : loc[q] = s.loc[q]
  BY <1>1 DEF Server, Alive
<1>3. sel \in [Window -> Pane \union {Shell}]
  BY <1>1 DEF Server, Alive
<1> HIDE DEF loc, sel
<1>4. u.loc = loc /\ u.stash = s.stash
  BY <1>1 DEF Server
<1>5. u \in Server
  BY <1>1, <1>2, <1>3 DEF Server
<1> QED
  BY <1>1, <1>2, <1>4, <1>5 DEF Keeps, Stashed, IsStash, StashWindows

\* break_pane: the pane leaves for a window of its own.
LEMMA BrokenEffect ==
  ASSUME NEW s \in Server, NEW p \in Pane, NEW u \in Broken(s, p)
  PROVE  u \in Server /\ u.loc[p] # Target /\ Keeps(s, u, {p})
<1>1. PICK w \in FreshWindow(s) : u \in MovedTo(s, p, w)
  BY DEF Broken
<1>2. w \in Window /\ w # Target
  BY <1>1 DEF FreshWindow
<1> QED
  BY <1>1, <1>2, MovedToEffect

\* ensure_stash_window: no pane moves, and no window loses its name.
LEMMA WithStashEffect ==
  ASSUME NEW s \in Server, NEW u \in WithStash(s)
  PROVE  /\ u \in Server
         /\ u.loc = s.loc /\ u.cur = s.cur
         /\ s.stash \subseteq u.stash
<1>1. CASE SessionStash(s) # {}
  BY <1>1 DEF WithStash
<1>2. CASE SessionStash(s) = {}
  <2>1. PICK w \in FreshWindow(s) :
          u = [s EXCEPT !.stash = @ \union {w}, !.shells = @ \union {w},
                        !.sel = [@ EXCEPT ![w] = Shell]]
    BY <1>2 DEF WithStash
  <2>2. w \in Window
    BY <2>1 DEF FreshWindow
  <2> QED
    BY <2>1, <2>2 DEF Server
<1> QED
  BY <1>1, <1>2

\* stash_pane ends with the pane in a window named "stash", by a join ...
LEMMA JoinedStashEffect ==
  ASSUME NEW s \in Server, NEW p \in Pane, NEW u \in JoinedStash(s, p)
  PROVE  u \in Server /\ Stashed(u, p) /\ u.loc[p] # Gone /\ Keeps(s, u, {p})
<1>1. PICK v \in WithStash(s) : \E w \in SessionStash(v) : u \in MovedTo(v, p, w)
  BY DEF JoinedStash
<1>2. /\ v \in Server
      /\ v.loc = s.loc
      /\ s.stash \subseteq v.stash
  BY <1>1, WithStashEffect
<1>3. PICK w \in v.stash : w \in Window /\ u \in MovedTo(v, p, w)
  BY <1>1, <1>2 DEF SessionStash, Server
<1>4. /\ u \in Server
      /\ u.loc[p] = w
      /\ Stashed(u, p)
      /\ Keeps(v, u, {p})
  BY <1>2, <1>3, MovedToEffect
<1>5. Keeps(s, u, {p})
  BY <1>2, <1>4 DEF Keeps, Stashed, IsStash, StashWindows
<1> QED
  BY <1>3, <1>4, <1>5, ServerAssumption DEF Gone

\* ... or by break_pane_to_stash, when the join failed.
LEMMA BrokenToStashEffect ==
  ASSUME NEW s \in Server, NEW p \in Pane, NEW u \in BrokenToStash(s, p)
  PROVE  u \in Server /\ Stashed(u, p) /\ u.loc[p] # Gone /\ Keeps(s, u, {p})
<1>1. PICK v \in WithStash(s) : \E w \in FreshWindow(v) :
        u \in Settled([v.loc EXCEPT ![p] = w], v.stash \union {w}, v.shells, v.sel, v.cur)
  BY DEF BrokenToStash
<1>2. /\ v \in Server
      /\ v.loc = s.loc
      /\ s.stash \subseteq v.stash
  BY <1>1, WithStashEffect
<1>3. PICK w \in Window :
        u \in Settled([v.loc EXCEPT ![p] = w], v.stash \union {w}, v.shells, v.sel, v.cur)
  BY <1>1 DEF FreshWindow
<1> DEFINE loc   == [v.loc EXCEPT ![p] = w]
<1> DEFINE stash == v.stash \union {w}
<1>4. /\ loc \in [Pane -> Window \union {Gone}]
      /\ stash \in SUBSET Window /\ v.shells \in SUBSET Window
      /\ v.sel \in [Window -> Pane \union {Shell}]
      /\ v.cur \in Window \ Foreign
      /\ u \in Settled(loc, stash, v.shells, v.sel, v.cur)
  BY <1>2, <1>3 DEF Server
<1> HIDE DEF loc, stash
<1>5. /\ u \in Server
      /\ u.loc = loc
      /\ u.stash = stash \intersect Live(loc, v.shells)
  BY <1>4, SettledEffect
<1> USE DEF loc, stash
<1>6. /\ u.loc[p] = w
      /\ \A q \in Pane \ {p} : u.loc[q] = s.loc[q]
      /\ u.stash = (v.stash \union {w}) \intersect Live(u.loc, v.shells)
  BY <1>2, <1>5 DEF Server
<1>7. s.stash \subseteq v.stash \union {w}
  BY <1>2
<1>8. /\ u.loc[p] \in v.stash \union {w} /\ u.loc[p] # Gone => Stashed(u, p)
      /\ Keeps(s, u, {p})
  BY <1>5, <1>6, <1>7, OneMoves
<1>9. w # Gone
  BY ServerAssumption
<1> QED
  BY <1>5, <1>6, <1>8, <1>9

\* Without a stash window, or without its name, the pane is in a window of its own.
LEMMA ScatteredEffect ==
  ASSUME NEW s \in Server, NEW p \in Pane, NEW u \in Scattered(s, p)
  PROVE  u \in Server /\ u.loc[p] \notin {Target, Gone} /\ Keeps(s, u, {p})
<1>1. PICK v \in {s} \union WithStash(s) : u \in Broken(v, p)
  BY DEF Scattered
<1>2. /\ v \in Server
      /\ v.loc = s.loc
      /\ s.stash \subseteq v.stash
  BY <1>1, WithStashEffect
<1>3. PICK w \in FreshWindow(v) : u \in MovedTo(v, p, w)
  BY <1>1 DEF Broken
<1>4. w \in Window /\ w # Target
  BY <1>3 DEF FreshWindow
<1>5. u \in Server /\ u.loc[p] = w /\ Keeps(v, u, {p})
  BY <1>2, <1>3, <1>4, MovedToEffect
<1>6. Keeps(s, u, {p})
  BY <1>2, <1>5 DEF Keeps, Stashed, IsStash, StashWindows
<1> QED
  BY <1>4, <1>5, <1>6, ServerAssumption DEF Gone

\* select-window and select-pane move no pane and rename no window.
LEMMA ActivatedEffect ==
  ASSUME NEW s \in Server, NEW w \in Window, NEW q \in Pane \union {Shell}
  PROVE  /\ SelectedIn(s, w, q) \in Server
         /\ SelectedIn(s, w, q).loc = s.loc /\ SelectedIn(s, w, q).stash = s.stash
         /\ Activated(s, w, q) \in Server
         /\ Activated(s, w, q).loc = s.loc /\ Activated(s, w, q).stash = s.stash
BY DEF SelectedIn, Activated, Current, Server

\* The same for select_pane, with and without its window.
LEMMA SelectedEffect ==
  ASSUME NEW s \in Server, NEW p, Alive(s, p)
  PROVE  /\ SelectedInPlace(s, p) \in Server
         /\ SelectedInPlace(s, p).loc = s.loc /\ SelectedInPlace(s, p).stash = s.stash
         /\ Selected(s, p) \in Server
         /\ Selected(s, p).loc = s.loc /\ Selected(s, p).stash = s.stash
<1>1. p \in Pane /\ s.loc[p] \in Window
  BY DEF Alive, Server
<1> QED
  BY <1>1, ActivatedEffect DEF SelectedInPlace, Selected

\* Neither does selecting again what was in focus.
LEMMA RefocusedEffect ==
  ASSUME NEW s \in Server, NEW f,
         f.window \in Window \union {Gone}, f.pane \in Pane \union {Shell, NoPane}
  PROVE  /\ Refocused(s, f) \in Server
         /\ Refocused(s, f).loc = s.loc /\ Refocused(s, f).stash = s.stash
<1>1. CASE FocusWindow(s, f) = Gone
  BY <1>1 DEF Refocused
<1>2. CASE FocusWindow(s, f) # Gone
  <2>1. FocusWindow(s, f) \in Window /\ f.pane \in Pane \union {Shell}
    BY <1>2 DEF FocusWindow, Server
  <2>2. Refocused(s, f) = Activated(s, FocusWindow(s, f), f.pane)
    BY <1>2 DEF Refocused
  <2> QED
    BY <2>1, <2>2, ActivatedEffect
<1> QED
  BY <1>1, <1>2

\* A pane that dies takes no other pane with it.
LEMMA DiedEffect ==
  ASSUME NEW s \in Server, NEW p \in Pane, NEW u \in Died(s, p)
  PROVE  u \in Server /\ u.loc[p] = Gone /\ Keeps(s, u, {p})
<1> DEFINE loc == [s.loc EXCEPT ![p] = Gone]
<1>1. /\ loc \in [Pane -> Window \union {Gone}]
      /\ s.stash \in SUBSET Window /\ s.shells \in SUBSET Window
      /\ s.sel \in [Window -> Pane \union {Shell}]
      /\ s.cur \in Window \ Foreign
  BY DEF Server
<1>2. /\ u \in Server
      /\ u.loc = loc
      /\ u.stash = s.stash \intersect Live(loc, s.shells)
  BY <1>1, SettledEffect DEF Died
<1>3. /\ u.loc[p] = Gone
      /\ \A q \in Pane \ {p} : u.loc[q] = s.loc[q]
      /\ u.stash = s.stash \intersect Live(u.loc, s.shells)
  BY <1>2 DEF Server
<1>4. Keeps(s, u, {p})
  BY <1>2, <1>3, OneMoves
<1> QED
  BY <1>2, <1>3, <1>4

-----------------------------------------------------------------------------
(* The invariant.                                                          *)

\* A decided swap has one pane to bring in and one, not busy, to take out; no
\* other living pane has entered or left Target since the plan.
SwapReady ==
  pc = "swap" =>
    /\ IsSingleton(Wanted \ seen)
    /\ IsSingleton(seen \ Wanted)
    /\ (seen \ Wanted) \intersect busy = {}
    /\ \A p \in Pane : Alive(server, p) => (p \in seen <=> server.loc[p] = Target)

\* A pane about to be stashed is neither wanted nor busy, and another one
\* stays in Target, unless panes have died.
StashReady ==
  pc = "stash" =>
    /\ moving \in Pane \ (Wanted \union busy)
    /\ used.deaths = 0 => \E q \in InWindow(server, Target) : q # moving

\* The detach loop only visits panes that are not wanted.
LeftUnwanted == left \intersect Wanted = {}

\* The loops over the other desired panes start at the second.
NextReady == pc \in {"attach", "break", "rejoin"} => next >= 2

\* While REORDER breaks panes out, the first one stays in Target.
FirstStays == pc = "break" /\ used.deaths = 0 => server.loc[First] = Target

\* How the call will return, at each of its steps.
SelectSteps == {"select", "selectActivate", "selectInPlace", "selectGuard"}

PathKept ==
  /\ pc \notin SelectSteps \union {"restore", "done"} => path = "none"
  /\ pc \in SelectSteps =>
       \/ path = "none" /\ after \in {"detachList", "verify"}
       \/ path = "swapped" /\ after = "restore"
  /\ pc = "restore" => path \in {"swapped", "full"}
  /\ pc = "done" => path # "none"

\* A pane the call has taken out of Target is in the stash, or alone in a window
\* that could not be made part of it.
EvictedSafe ==
  path # "swapped" =>
    \A p \in seen \ Wanted :
      Alive(server, p) =>
        server.loc[p] = Target \/ Stashed(server, p) \/ p \in used.scattered

\* The registry entry of p records its window, or its last update has failed.
Told(p) == registered[p].window = server.loc[p] \/ registered[p].missed

\* The registry lags behind only for desired panes, and only until VERIFY, or
\* where an update has failed.
RegistrySafe ==
  pc \notin {"snapshot", "plan"} /\ path \in {"none", "swapped", "full"} =>
    \A p \in Pane :
      /\ Alive(server, p)
      /\ \/ (p \in seen) # (server.loc[p] = Target)
         \/ path = "full" /\ p \in Wanted
      => Told(p) \/ (path = "none" /\ p \in Wanted)

\* The geometry kept in step is that of the panes of Target.
Geometry == Lays(cols, InWindow(server, Target))

\* The snapshot of the plan still says which living panes are in Target when
\* ATTACH begins.
SeenReady ==
  pc = "attachFirst" =>
    \A p \in Pane : Alive(server, p) => (p \in seen <=> server.loc[p] = Target)

\* After a swap the living panes of Target are the wanted ones.
SwapDone ==
  path = "swapped" =>
    \A p \in Pane : Alive(server, p) => (server.loc[p] = Target <=> p \in Wanted)

\* VERIFY has found every wanted pane in Target, or reported.
NoLoss ==
  path = "full" /\ ~err => \A p \in Wanted : Alive(server, p) => server.loc[p] = Target

IInv ==
  /\ TypeOK
  /\ TargetKept
  /\ SwapReady /\ StashReady /\ LeftUnwanted /\ NextReady /\ FirstStays
  /\ PathKept /\ EvictedSafe /\ RegistrySafe
  /\ Geometry /\ SeenReady /\ SwapDone /\ NoLoss

-----------------------------------------------------------------------------

\* The columns of the call lay the wanted panes out.
LEMMA CallLaid ==
  ASSUME call \in Calls
  PROVE  /\ Lists(Desired, Wanted) /\ Lays(call.columns, Wanted)
         /\ Wanted \subseteq Pane
<1> DEFINE P == PanesOf(call.columns)
<1>1. Lays(call.columns, P) /\ P \subseteq Pane
  BY CallsAssumption, GeometryLays
<1> HIDE DEF P
<1>2. Lists(Desired, P)
  BY <1>1, LaysOrder DEF Desired
<1>3. Wanted = P
  <2>1. Desired \in Seq(P) /\ \A p \in P : \E i \in 1..Len(Desired) : Desired[i] = p
    BY <1>2 DEF Lists
  <2>2. DOMAIN Desired = 1..Len(Desired) /\ \A i \in 1..Len(Desired) : Desired[i] \in P
    BY <2>1
  <2> QED
    BY <2>1, <2>2 DEF Wanted, ToSet
<1> QED
  BY <1>1, <1>2, <1>3

\* What the assumption on calls says of the current one.
LEMMA CallFacts ==
  ASSUME call \in Calls
  PROVE  /\ Wanted \subseteq Pane
         /\ First \in Wanted
         /\ SelectTarget \in Pane
         /\ Len(Desired) \in Nat
         /\ \A i \in 1..Len(Desired) : Desired[i] \in Wanted /\ (i >= 2 => Desired[i] # First)
<1>1. Lists(Desired, Wanted) /\ Lays(call.columns, Wanted) /\ Wanted \subseteq Pane
  BY CallLaid
<1>2. call.focus \in Pane \union {NoPane} /\ call.columns # <<>>
  BY CallsAssumption
<1>3. Desired \in Seq(Wanted) /\ \A i, j \in 1..Len(Desired) : Desired[i] = Desired[j] => i = j
  BY <1>1 DEF Lists
<1>4. Wanted # {}
  <2>1. Len(call.columns) \in Nat /\ call.columns \in Seq(Seq(Wanted))
    BY <1>1, LaysTypes
  <2>2. 1 \in 1..Len(call.columns)
    BY <1>2, <2>1
  <2>3. Len(call.columns[1]) \in Nat \ {0} /\ \A r \in 1..Len(call.columns[1]) : call.columns[1][r] \in Wanted
    BY <1>1, <2>2, LaysTypes
  <2> QED
    BY <2>3
<1>5. Len(Desired) \in Nat /\ 1 \in 1..Len(Desired)
  <2>1. \A p \in Wanted : \E i \in 1..Len(Desired) : Desired[i] = p
    BY <1>1 DEF Lists
  <2>2. Len(Desired) \in Nat
    BY <1>3
  <2> QED
    BY <1>4, <2>1, <2>2
<1>6. \A i \in 1..Len(Desired) : Desired[i] \in Wanted
  BY <1>3
<1>7. \A i \in 1..Len(Desired) : i >= 2 => Desired[i] # First
  BY <1>3, <1>5 DEF First
<1> QED
  BY <1>1, <1>2, <1>5, <1>6, <1>7 DEF SelectTarget, First

\* The arguments do not change, so neither does what is derived from them.
LEMMA CallKept ==
  ASSUME UNCHANGED call
  PROVE  Wanted' = Wanted /\ First' = First /\ Desired' = Desired
BY DEF Wanted, First, Desired

\* stash_pane has left a pane in a window of another name.
Scatters ==
  \E p \in Pane : used' = [used EXCEPT !.fails = @ + 1, !.scattered = @ \union {p}]

-----------------------------------------------------------------------------
(* What the steps do to the server.                                        *)

\* The registry update keeps the type of the registry.
LEMMA RecordedType ==
  ASSUME server' \in Server, registered \in [Pane -> Entries], NEW P, Record(P)
  PROVE  registered' \in [Pane -> Entries]
<1>1. PICK F \in SUBSET P : registered' = Recorded(registered, P, F)
  BY DEF Record
<1>2. ASSUME NEW p \in Pane  PROVE  Recorded(registered, P, F)[p] \in Entries
  <2>1. server'.loc[p] \in Window \union {Gone}
    BY DEF Server
  <2>2. [window |-> server'.loc[p], missed |-> FALSE] \in Entries
    BY <2>1 DEF Entries
  <2>3. [registered[p] EXCEPT !.missed = TRUE] \in Entries
    BY DEF Entries
  <2> QED
    BY <2>2, <2>3 DEF Recorded, WindowNow
<1> QED
  BY <1>1, <1>2 DEF Recorded

\* What is counted when a command has failed.
LEMMA FailCounted ==
  ASSUME used \in [deaths : Nat, fails : Nat, moves : Nat, freed : SUBSET Pane,
                     scattered : SUBSET Pane, may : Limits],
         CountFail \/ Scatters
  PROVE  /\ used' \in [deaths : Nat, fails : Nat, moves : Nat, freed : SUBSET Pane,
                       scattered : SUBSET Pane, may : Limits]
         /\ used'.fails = used.fails + 1 /\ used'.fails # 0
         /\ used'.deaths = used.deaths /\ used'.moves = used.moves
         /\ used'.freed = used.freed /\ used'.may = used.may
         /\ used.scattered \subseteq used'.scattered
<1>1. CASE CountFail
  BY <1>1 DEF CountFail
<1>2. CASE Scatters
  <2>1. PICK p \in Pane :
          used' = [used EXCEPT !.fails = @ + 1, !.scattered = @ \union {p}]
    BY <1>2 DEF Scatters
  <2>2. used' = [deaths |-> used.deaths, fails |-> used.fails + 1, moves |-> used.moves,
                 freed |-> used.freed, scattered |-> used.scattered \union {p}, may |-> used.may]
    BY <2>1
  <2> QED
    BY <2>2
<1> QED
  BY <1>1, <1>2

\* A join moves its pane to the window of the pane it is joined to.
LEMMA JoinMoves ==
  ASSUME server \in Server, NEW p, NEW t, NEW flag, JoinTo(p, t, flag)
  PROVE  /\ server' \in Server
         /\ p \in Pane /\ t \in Pane /\ p # t
         /\ server'.loc[p] = server.loc[t]
         /\ Keeps(server, server', {p})
BY JoinedEffect DEF JoinTo

\* The swap exchanges the windows of its two panes.
LEMMA SwapMoves ==
  ASSUME server \in Server, Swap
  PROVE  /\ server' \in Server
         /\ Alive(server, Incoming) /\ Alive(server, Outgoing)
         /\ server'.loc[Incoming] = server.loc[Outgoing]
         /\ server'.loc[Outgoing] = server.loc[Incoming]
         /\ Keeps(server, server', {Incoming, Outgoing})
<1>1. server' \in Swapped(server, Incoming, Outgoing)
  BY DEF Swap, SwapTo
<1>2. ASSUME NEW a, NEW b, server' \in Swapped(server, a, b)
      PROVE  /\ server' \in Server
             /\ Alive(server, a) /\ Alive(server, b)
             /\ server'.loc[a] = server.loc[b] /\ server'.loc[b] = server.loc[a]
             /\ Keeps(server, server', {a, b})
  BY <1>2, SwappedEffect
<1> QED
  BY <1>1, <1>2

\* Stashing moves the pane to a stash window, or to a window of its own that is
\* no part of the stash, whichever way it takes.
LEMMA StashesMove ==
  ASSUME TypeOK, NEW p, StashesPane(p)
  PROVE  /\ server' \in Server
         /\ p \in Pane
         /\ \/ Stashed(server', p)
            \/ p \in used'.scattered /\ server'.loc[p] # Target
         /\ server'.loc[p] # Gone
         /\ Keeps(server, server', {p})
         /\ UNCHANGED used \/ CountFail \/ Scatters
<1>a. /\ server \in Server
      /\ used \in [deaths : Nat, fails : Nat, moves : Nat, freed : SUBSET Pane,
                     scattered : SUBSET Pane, may : Limits]
  BY DEF TypeOK
<1>1. p \in Pane
  BY DEF StashesPane, Alive
<1>2. CASE server' \in JoinedStash(server, p) \/ server' \in BrokenToStash(server, p)
  <2>1. /\ server' \in Server
        /\ Stashed(server', p) /\ server'.loc[p] # Gone
        /\ Keeps(server, server', {p})
    BY <1>a, <1>1, <1>2, JoinedStashEffect, BrokenToStashEffect
  <2>2. UNCHANGED used \/ CountFail \/ Scatters
    BY <1>1 DEF StashesPane, Scatters
  <2> QED
    BY <1>1, <2>1, <2>2
<1>3. CASE server' \in Scattered(server, p) /\ p \in used'.scattered
  <2>1. /\ server' \in Server
        /\ server'.loc[p] \notin {Target, Gone}
        /\ Keeps(server, server', {p})
    BY <1>a, <1>1, <1>3, ScatteredEffect
  <2>2. UNCHANGED used \/ CountFail \/ Scatters
    BY <1>1 DEF StashesPane, Scatters
  <2> QED
    BY <1>1, <1>3, <2>1, <2>2
<1>4. \/ server' \in JoinedStash(server, p) \/ server' \in BrokenToStash(server, p)
      \/ /\ server' \in Scattered(server, p)
         /\ used' = [used EXCEPT !.fails = @ + 1, !.scattered = @ \union {p}]
  BY DEF StashesPane
<1> QED
  BY <1>a, <1>2, <1>3, <1>4

\* The same in DETACH.
LEMMA StashMoves ==
  ASSUME TypeOK, StashPane
  PROVE  /\ server' \in Server
         /\ moving \in Pane
         /\ \/ Stashed(server', moving)
            \/ moving \in used'.scattered /\ server'.loc[moving] # Target
         /\ server'.loc[moving] # Gone
         /\ Keeps(server, server', {moving})
BY StashesMove DEF StashPane

\* A call counts nothing but commands that have failed.
LEMMA CallCounts ==
  ASSUME TypeOK, [Next]_vars, ~Environment
  PROVE  UNCHANGED used \/ CountFail \/ Scatters
<1>1. CASE StashPane
  BY <1>1, StashesMove DEF StashPane
<1>2. CASE StashPaneFails
  BY <1>2 DEF StashPaneFails, StashRefuses
<1> QED
  BY <1>1, <1>2 DEF Next, Step, Select, Detach, vars, envVars, Snapshot, Plan,
       SwapSkipped, Swap, SwapTo, AttachFirst, Attach, JoinFails, AttachDone, SelectCheck,
       SelectActivate, SelectInPlace, SelectGuard, DetachList, DetachSkip, DetachDecide,
       DetachDone, Reorder, Break, BreakDone, Rejoin, RejoinDone, Verify, Restore, CallAgain

\* Breaking a pane out moves that pane only.
LEMMA BreakMoves ==
  ASSUME server \in Server, Break
  PROVE  server' \in Server /\ Keeps(server, server', {Desired[next]})
<1>1. CASE server' \in Broken(server, Desired[next])
  <2>1. Desired[next] \in Pane
    BY <1>1 DEF Broken, Alive
  <2> QED
    BY <1>1, <2>1, BrokenEffect
<1>2. CASE UNCHANGED server
  BY <1>2 DEF Keeps, Stashed, IsStash, StashWindows
<1> QED
  BY <1>1, <1>2 DEF Break

\* The selections, and the stash window made for a pane that could not be
\* moved, leave every pane in its window.
LEMMA StillMoves ==
  ASSUME TypeOK,
         \/ SelectActivate \/ SelectInPlace \/ SelectGuard
         \/ StashPaneFails \/ DetachDone \/ Restore \/ OperatorSelects
  PROVE  server' \in Server /\ server'.loc = server.loc /\ server.stash \subseteq server'.stash
<1>1. /\ server \in Server
      /\ opFocus.window \in Window \union {Gone} /\ opFocus.pane \in Pane \union {Shell, NoPane}
      /\ before.window \in Window \union {Gone} /\ before.pane \in Pane \union {Shell, NoPane}
  BY DEF TypeOK, Focuses
<1>2. CASE SelectActivate
  BY <1>1, <1>2, SelectedEffect DEF SelectActivate
<1>3. CASE SelectInPlace
  BY <1>1, <1>3, SelectedEffect DEF SelectInPlace
<1>4. CASE SelectGuard
  BY <1>1, <1>4, RefocusedEffect DEF SelectGuard
<1>5. CASE StashPaneFails
  <2>1. server' \in {server} \union WithStash(server)
    BY <1>5 DEF StashPaneFails, StashRefuses
  <2> QED
    BY <1>1, <2>1, WithStashEffect
<1>6. CASE DetachDone
  <2>1. [server EXCEPT !.cur = Target] \in Server
    BY <1>1, ServerAssumption DEF Server
  <2>2. /\ [server EXCEPT !.cur = Target].loc = server.loc
        /\ [server EXCEPT !.cur = Target].stash = server.stash
    BY <1>1 DEF Server
  <2> QED
    BY <1>1, <1>6, <2>1, <2>2, RefocusedEffect DEF DetachDone
<1>7. CASE Restore
  BY <1>1, <1>7, RefocusedEffect DEF Restore
<1>8. CASE OperatorSelects
  <2>1. PICK p \in Pane : Alive(server, p) /\ server' = Selected(server, p)
    BY <1>8 DEF OperatorSelects
  <2> QED
    BY <1>1, <2>1, SelectedEffect
<1> QED
  BY <1>2, <1>3, <1>4, <1>5, <1>6, <1>7, <1>8

-----------------------------------------------------------------------------
(* The types.                                                              *)

\* Every step keeps the types.
LEMMA TypeInductive ==
  ASSUME TypeOK, PathKept, [Next]_vars
  PROVE  TypeOK'
<1> USE DEF tmuxVars, envVars, selVars, callVars, Goto, Return, Steps
<1> DEFINE Used == [deaths : Nat, fails : Nat, moves : Nat, freed : SUBSET Pane,
                     scattered : SUBSET Pane, may : Limits]
<1>a. /\ server \in Server
      /\ registered \in [Pane -> Entries]
      /\ Focus(server) \in Focuses /\ NoFocus \in Focuses
  <2>1. server \in Server /\ registered \in [Pane -> Entries]
    BY DEF TypeOK
  <2> QED
    BY <2>1 DEF Server, Focus, ActiveWindow, ActivePane, Focuses, NoFocus
<1>1. ASSUME UNCHANGED vars  PROVE TypeOK'
  BY <1>1 DEF vars, TypeOK
<1>2. ASSUME Snapshot  PROVE TypeOK'
  BY <1>2 DEF Snapshot, TypeOK
<1>3. ASSUME Plan  PROVE TypeOK'
  BY <1>a, <1>3 DEF Plan, TypeOK, InWindow
<1>4. ASSUME SwapSkipped  PROVE TypeOK'
  <2>1. err' \in BOOLEAN
    BY <1>4 DEF SwapSkipped, TypeOK
  <2> QED
    BY <1>4, <2>1 DEF SwapSkipped, TypeOK
<1>5. ASSUME Swap  PROVE TypeOK'
  <2>1. server' \in Server
    BY <1>a, <1>5, SwapMoves
  <2>2. registered' \in [Pane -> Entries]
    BY <1>a, <1>5, <2>1, RecordedType DEF Swap
  <2> QED
    BY <1>5, <2>1, <2>2 DEF Swap, SwapTo, TypeOK
<1>6. ASSUME AttachFirst  PROVE TypeOK'
  <2>1. server' \in Server
    BY <1>a, <1>6, JoinMoves DEF AttachFirst, JoinFails
  <2>2. registered' \in [Pane -> Entries]
    BY <1>a, <1>6, <2>1, RecordedType DEF AttachFirst
  <2>3. used' \in Used
    BY <1>6 DEF AttachFirst, JoinFails, CountFail, TypeOK
  <2>4. err' \in BOOLEAN
    BY <1>6 DEF AttachFirst, TypeOK
  <2> QED
    BY <1>6, <2>1, <2>2, <2>3, <2>4 DEF AttachFirst, TypeOK
<1>7. ASSUME Attach  PROVE TypeOK'
  <2>1. server' \in Server
    BY <1>a, <1>7, JoinMoves DEF Attach, JoinFails
  <2>2. registered' \in [Pane -> Entries]
    BY <1>a, <1>7, <2>1, RecordedType DEF Attach
  <2>3. used' \in Used
    BY <1>7 DEF Attach, JoinFails, CountFail, TypeOK
  <2>4. err' \in BOOLEAN
    BY <1>7 DEF Attach, TypeOK
  <2> QED
    BY <1>7, <2>1, <2>2, <2>3, <2>4 DEF Attach, TypeOK
<1>8. ASSUME AttachDone  PROVE TypeOK'
  BY <1>8 DEF AttachDone, TypeOK
<1>9. ASSUME SelectCheck  PROVE TypeOK'
  BY <1>a, <1>9 DEF SelectCheck, TypeOK, PathKept, SelectSteps
<1>10. ASSUME SelectActivate  PROVE TypeOK'
  <2>1. server' \in Server
    BY <1>10, StillMoves
  <2> QED
    BY <1>10, <2>1 DEF SelectActivate, TypeOK, PathKept, SelectSteps
<1>11. ASSUME SelectInPlace  PROVE TypeOK'
  <2>1. server' \in Server
    BY <1>11, StillMoves
  <2> QED
    BY <1>a, <1>11, <2>1 DEF SelectInPlace, TypeOK, PathKept, SelectSteps
<1>12. ASSUME SelectGuard  PROVE TypeOK'
  <2>1. server' \in Server
    BY <1>12, StillMoves
  <2> QED
    BY <1>a, <1>12, <2>1 DEF SelectGuard, TypeOK, PathKept, SelectSteps
<1>13. ASSUME DetachList  PROVE TypeOK'
  BY <1>a, <1>13 DEF DetachList, TypeOK, InWindow, Server
<1>14. ASSUME DetachSkip  PROVE TypeOK'
  BY <1>14 DEF DetachSkip, TypeOK
<1>15. ASSUME DetachDecide  PROVE TypeOK'
  BY <1>15 DEF DetachDecide, TypeOK
<1>16. ASSUME StashPane  PROVE TypeOK'
  <2>1. used' \in Used
    <3>1. UNCHANGED used \/ CountFail \/ Scatters
      BY <1>16, StashesMove DEF StashPane
    <3>2. used \in Used
      BY DEF TypeOK
    <3> QED
      BY <3>1, <3>2, FailCounted
  <2>2. server' \in Server /\ registered' \in [Pane -> Entries]
    BY <1>a, <1>16, StashMoves, RecordedType DEF StashPane
  <2>3. err' \in BOOLEAN
    BY <1>16 DEF StashPane, TypeOK
  <2> QED
    BY <1>16, <2>1, <2>2, <2>3 DEF StashPane, TypeOK
<1>17. ASSUME StashPaneFails  PROVE TypeOK'
  <2>1. used' \in Used
    BY <1>17 DEF StashPaneFails, StashRefuses, CountFail, TypeOK
  <2> QED
    BY <1>17, <2>1, StillMoves DEF StashPaneFails, TypeOK
<1>18. ASSUME DetachDone  PROVE TypeOK'
  BY <1>18, StillMoves DEF DetachDone, TypeOK
<1>19. ASSUME Reorder  PROVE TypeOK'
  BY <1>19 DEF Reorder, TypeOK
<1>20. ASSUME Break  PROVE TypeOK'
  <2>1. used' \in Used
    BY <1>20 DEF Break, CountFail, TypeOK
  <2> QED
    BY <1>a, <1>20, <2>1, BreakMoves DEF Break, TypeOK
<1>21. ASSUME BreakDone  PROVE TypeOK'
  BY <1>21 DEF BreakDone, TypeOK
<1>22. ASSUME Rejoin  PROVE TypeOK'
  <2>1. server' \in Server
    BY <1>a, <1>22, JoinMoves DEF Rejoin, JoinFails
  <2>2. used' \in Used
    BY <1>22 DEF Rejoin, JoinFails, CountFail, TypeOK
  <2> QED
    BY <1>22, <2>1, <2>2 DEF Rejoin, TypeOK
<1>23. ASSUME RejoinDone  PROVE TypeOK'
  BY <1>23 DEF RejoinDone, TypeOK
<1>24. ASSUME Verify  PROVE TypeOK'
  <2>1. server' \in Server /\ err' \in BOOLEAN
    BY <1>a, <1>24 DEF Verify, TypeOK
  <2>2. registered' \in [Pane -> Entries]
    BY <1>a, <1>24, <2>1, RecordedType DEF Verify
  <2> QED
    BY <1>24, <2>1, <2>2 DEF Verify, TypeOK
<1>25. ASSUME Restore  PROVE TypeOK'
  BY <1>25, StillMoves DEF Restore, TypeOK
<1>26. ASSUME CallAgain  PROVE TypeOK'
  BY <1>a, <1>26 DEF CallAgain, TypeOK
<1>27. ASSUME PaneDies  PROVE TypeOK'
  <2>1. server' \in Server
    BY <1>a, <1>27, DiedEffect DEF PaneDies
  <2>2. used' \in Used
    BY <1>27 DEF PaneDies, TypeOK
  <2> QED
    BY <1>27, <2>1, <2>2 DEF PaneDies, TypeOK
<1>28. ASSUME OperatorSelects  PROVE TypeOK'
  <2>1. used' \in Used 
    BY <1>28 DEF OperatorSelects, TypeOK
  <2> QED
    BY <1>28, <2>1, StillMoves DEF OperatorSelects, TypeOK
<1>29. ASSUME PaneFrees  PROVE TypeOK'
  BY <1>29 DEF PaneFrees, TypeOK
<1> QED
  BY <1>1, <1>2, <1>3, <1>4, <1>5, <1>6, <1>7, <1>8, <1>9, <1>10, <1>11, <1>12, <1>13, <1>14,
     <1>15, <1>16, <1>17, <1>18, <1>19, <1>20, <1>21, <1>22, <1>23, <1>24, <1>25, <1>26, <1>27,
     <1>28, <1>29 DEF Next, Step, Select, Detach, Environment

\* In the first state everything has its type.
LEMMA TypeInitial ==
  ASSUME Init
  PROVE  TypeOK
<1>1. PICK sc \in Scenarios :
        /\ \E start \in sc.starts : server = start.server
        /\ busy \in sc.busy /\ call \in sc.calls
        /\ used = [deaths |-> 0, fails |-> 0, moves |-> 0, freed |-> {}, scattered |-> {},
                     may |-> sc.may]
  BY DEF Init
<1>2. server \in Server
  BY <1>1, StartsAssumption DEF Starts, Server
<1>3. busy \subseteq Pane /\ call \in Calls
  BY <1>1, BusyAssumption DEF BusySets, Calls
<1>4. used \in [deaths : Nat, fails : Nat, moves : Nat, freed : SUBSET Pane,
                     scattered : SUBSET Pane, may : Limits]
  BY <1>1, LimitsAssumption
<1>5. registered \in [Pane -> Entries]
  <2>1. [window |-> Gone, missed |-> FALSE] \in Entries
    BY DEF Entries
  <2> QED
    BY <2>1 DEF Init
<1> QED
  BY <1>2, <1>3, <1>4, <1>5 DEF Init, TypeOK, Steps, Focuses, NoFocus

-----------------------------------------------------------------------------
(* Who moves.                                                              *)

\* What has been stashed under another name stays on record.
LEMMA UsedKept ==
  ASSUME TypeOK, [Next]_vars
  PROVE  used.scattered \subseteq used'.scattered
<1>a. used \in [deaths : Nat, fails : Nat, moves : Nat, freed : SUBSET Pane,
                 scattered : SUBSET Pane, may : Limits]
  BY DEF TypeOK
<1>1. \A p : StashesPane(p) \/ StashRefuses(p) => used.scattered \subseteq used'.scattered
  BY <1>a DEF StashesPane, StashRefuses, CountFail
<1>2. \A p, t : JoinFails(p, t) => used.scattered \subseteq used'.scattered
  BY <1>a DEF JoinFails, CountFail
<1>3. ASSUME StashPane \/ StashPaneFails
      PROVE  used.scattered \subseteq used'.scattered
  BY <1>1, <1>3 DEF StashPane, StashPaneFails
<1>4. ASSUME AttachFirst \/ Attach \/ Rejoin
      PROVE  used.scattered \subseteq used'.scattered
  BY <1>2, <1>4 DEF AttachFirst, Attach, Rejoin
<1>5. ASSUME Break \/ PaneDies \/ OperatorSelects \/ PaneFrees
      PROVE  used.scattered \subseteq used'.scattered
  BY <1>a, <1>5 DEF Break, CountFail, PaneDies, OperatorSelects, PaneFrees
<1> QED
  BY <1>3, <1>4, <1>5 DEF Next, Step, Select, Detach, Environment, vars, envVars,
   Snapshot, Plan, SwapSkipped, Swap, AttachDone, SelectCheck, SelectActivate, SelectInPlace,
   SelectGuard, DetachList, DetachSkip, DetachDecide, DetachDone, Reorder, BreakDone,
   RejoinDone, Verify, Restore, CallAgain

Stays(q) ==
  server'.loc[q] = server.loc[q] /\ (Stashed(server, q) => Stashed(server', q))

AttachSteps == {"attachFirst", "attach", "break", "rejoin"}

\* The swap takes out a pane that is neither wanted nor busy and brings a
\* wanted one in.
LEMMA SwapPanes ==
  ASSUME IInv, pc = "swap"
  PROVE  /\ Incoming \in Wanted \ seen /\ Wanted \ seen = {Incoming}
         /\ Outgoing \in seen \ (Wanted \union busy)
         /\ seen \ Wanted = {Outgoing}
<1>1. Incoming \in Wanted \ seen /\ Wanted \ seen = {Incoming}
  <2>1. PICK i : Wanted \ seen = {i}
    BY DEF IInv, SwapReady, IsSingleton
  <2> QED
    BY <2>1 DEF Incoming
<1>2. PICK o : seen \ Wanted = {o}
  BY DEF IInv, SwapReady, IsSingleton
<1>3. Outgoing = o
  BY <1>2 DEF Outgoing
<1> QED
  BY <1>1, <1>2, <1>3 DEF IInv, SwapReady

\* The pane the loops of ATTACH and REORDER have reached is a wanted one, and
\* not the first.
LEMMA NextPane ==
  ASSUME IInv, pc \in {"attach", "break", "rejoin"}, next <= Len(Desired)
  PROVE  Desired[next] \in Wanted /\ Desired[next] # First
<1>1. next \in Nat /\ next >= 2 /\ call \in Calls
  BY DEF IInv, NextReady, TypeOK
<1>2. Len(Desired) \in Nat
  BY <1>1, CallFacts
<1>3. next \in 1..Len(Desired)
  BY <1>1, <1>2
<1> QED
  BY <1>1, <1>3, CallFacts

\* A step moves a pane only if the pane dies, is swapped, is stashed, or is a
\* wanted one that ATTACH or REORDER handles.
LEMMA WhoMoves ==
  ASSUME IInv, [Next]_vars, NEW q \in Pane
  PROVE  \/ Stays(q)
         \/ PaneDies /\ server'.loc[q] = Gone
         \/ Swap /\ q \in {Incoming, Outgoing}
         \/ StashPane /\ q = moving
         \/ q \in Wanted /\ pc \in AttachSteps
<1> DEFINE Moves == \/ Stays(q)
                    \/ PaneDies /\ server'.loc[q] = Gone
                    \/ Swap /\ q \in {Incoming, Outgoing}
                    \/ StashPane /\ q = moving
                    \/ q \in Wanted /\ pc \in AttachSteps
<1>a. server \in Server /\ call \in Calls /\ TypeOK
  BY DEF IInv, TypeOK
<1>b. \A M : Keeps(server, server', M) /\ q \notin M => Stays(q)
  BY DEF Keeps, Stays
<1>c. UNCHANGED server => Stays(q)
  BY DEF Stays, Stashed, IsStash, StashWindows
<1>1. CASE \/ UNCHANGED vars
           \/ Snapshot \/ Plan \/ SwapSkipped \/ AttachDone \/ SelectCheck \/ DetachList
           \/ DetachSkip \/ DetachDecide \/ Reorder \/ BreakDone \/ RejoinDone \/ Verify
           \/ CallAgain \/ PaneFrees
  <2>1. UNCHANGED server
    BY <1>1 DEF vars, tmuxVars, Snapshot, Plan, SwapSkipped, AttachDone, SelectCheck, DetachList,
         DetachSkip, DetachDecide, Reorder, BreakDone, RejoinDone, Verify, CallAgain, PaneFrees
  <2> QED
    BY <2>1, <1>c
<1>2. CASE Swap
  BY <1>a, <1>b, <1>2, SwapMoves
<1>3. CASE AttachFirst
  <2>1. CASE \E t \in InWindow(server, Target) : JoinTo(First, t, FirstPaneJoinFlag(t))
    <3>1. Keeps(server, server', {First})
      BY <1>a, <2>1, JoinMoves
    <3>2. pc \in AttachSteps /\ First \in Wanted
      BY <1>3, <1>a, CallFacts DEF AttachFirst, AttachSteps
    <3> QED
      BY <3>1, <3>2, <1>b
  <2>2. CASE UNCHANGED server
    BY <2>2, <1>c
  <2> QED
    BY <1>3, <2>1, <2>2 DEF AttachFirst, JoinFails, tmuxVars
<1>4. CASE Attach \/ Rejoin
  <2> DEFINE p == Desired[next]
  <2>1. pc \in AttachSteps /\ p \in Wanted
    BY <1>4, NextPane DEF Attach, Rejoin, AttachSteps
  <2>2. CASE JoinTo(p, JoinTarget(p).pane, JoinTarget(p).flag)
    <3>1. Keeps(server, server', {p})
      BY <1>a, <2>2, JoinMoves
    <3> QED
      BY <2>1, <3>1, <1>b
  <2>3. CASE UNCHANGED server
    BY <2>3, <1>c
  <2> QED
    BY <1>4, <2>2, <2>3 DEF Attach, Rejoin, JoinFails, tmuxVars
<1>5. CASE \/ SelectActivate \/ SelectInPlace \/ SelectGuard
           \/ StashPaneFails \/ DetachDone \/ Restore \/ OperatorSelects
  <2>1. server'.loc = server.loc /\ server.stash \subseteq server'.stash
    BY <1>a, <1>5, StillMoves
  <2> QED
    BY <2>1 DEF Stays, Stashed, IsStash, StashWindows
<1>6. CASE StashPane
  BY <1>a, <1>b, <1>6, StashMoves
<1>7. CASE Break
  <2>1. Desired[next] \in Wanted /\ pc \in AttachSteps
    BY <1>7, NextPane DEF Break, AttachSteps
  <2> QED
    BY <1>a, <1>b, <1>7, <2>1, BreakMoves
<1>8. CASE PaneDies
  BY <1>a, <1>b, <1>8, DiedEffect DEF PaneDies
<1> QED
  BY <1>1, <1>2, <1>3, <1>4, <1>5, <1>6, <1>7, <1>8
     DEF Next, Step, Select, Detach, Environment

-----------------------------------------------------------------------------
(* The invariant is inductive.                                             *)

\* No step changes the arguments of the call.
LEMMA CallStays ==
  ASSUME [Next]_vars
  PROVE  call' = call /\ Wanted' = Wanted /\ First' = First /\ Desired' = Desired
<1>1. call' = call
  BY DEF Next, Step, Select, Detach, Environment, vars, Snapshot, Plan, SwapSkipped, Swap, SwapTo,
     AttachFirst, Attach, AttachDone, SelectCheck, SelectActivate, SelectInPlace, SelectGuard,
     DetachList, DetachSkip, DetachDecide, StashPane, StashPaneFails, DetachDone, Reorder, Break,
     BreakDone, Rejoin, RejoinDone, Verify, Restore, CallAgain, PaneDies, OperatorSelects, PaneFrees
<1> QED
  BY <1>1, CallKept

\* The order of the steps, the loops and how the call returns.
LEMMA ControlKept ==
  ASSUME TypeOK, PathKept, NextReady, LeftUnwanted, [Next]_vars
  PROVE  PathKept' /\ NextReady' /\ LeftUnwanted'
<1> USE DEF callVars, selVars, Goto, Return, SelectSteps
<1>a. /\ PathKept /\ NextReady /\ LeftUnwanted
      /\ next \in Nat
      /\ Wanted' = Wanted
  BY CallStays DEF TypeOK
<1>1. CASE UNCHANGED vars
  BY <1>a, <1>1 DEF vars, PathKept, NextReady, LeftUnwanted
<1>2. CASE Snapshot \/ Plan \/ SwapSkipped \/ Swap
  BY <1>a, <1>2 DEF Snapshot, Plan, SwapSkipped, Swap, SwapTo, PathKept, NextReady, LeftUnwanted
<1>3. CASE AttachFirst \/ Attach \/ AttachDone
  BY <1>a, <1>3 DEF AttachFirst, Attach, AttachDone, PathKept, NextReady, LeftUnwanted
<1>4. CASE SelectCheck \/ SelectActivate \/ SelectInPlace \/ SelectGuard
  BY <1>a, <1>4 DEF SelectCheck, SelectActivate, SelectInPlace, SelectGuard, PathKept, NextReady,
                    LeftUnwanted
<1>5. CASE DetachList \/ DetachSkip \/ DetachDecide
  BY <1>a, <1>5 DEF DetachList, DetachSkip, DetachDecide, PathKept, NextReady, LeftUnwanted
<1>6. CASE StashPane \/ StashPaneFails \/ DetachDone
  BY <1>a, <1>6 DEF StashPane, StashPaneFails, DetachDone, PathKept, NextReady, LeftUnwanted
<1>7. CASE Reorder \/ Break \/ BreakDone \/ Rejoin \/ RejoinDone
  BY <1>a, <1>7 DEF Reorder, Break, BreakDone, Rejoin, RejoinDone, PathKept, NextReady, LeftUnwanted
<1>8. CASE Verify \/ Restore \/ CallAgain
  BY <1>a, <1>8 DEF Verify, Restore, CallAgain, PathKept, NextReady, LeftUnwanted
<1>9. CASE Environment
  BY <1>a, <1>9 DEF Environment, PaneDies, OperatorSelects, PaneFrees, PathKept, NextReady,
                    LeftUnwanted
<1> QED
  BY <1>1, <1>2, <1>3, <1>4, <1>5, <1>6, <1>7, <1>8, <1>9 DEF Next, Step, Select, Detach

\* The session's own steps: a pane dies or stays, no pane becomes busy, and the
\* call does not notice.
LEMMA EnvironmentKeeps ==
  ASSUME TypeOK, Environment \/ UNCHANGED vars
  PROVE  /\ UNCHANGED <<callVars, call, pc, after>>
         /\ busy' \subseteq busy
         /\ \A q \in Pane : Stays(q) \/ server'.loc[q] = Gone
         /\ used'.deaths = 0 => used.deaths = 0 /\ \A q \in Pane : Stays(q)
<1>1. CASE UNCHANGED vars
  BY <1>1 DEF vars, tmuxVars, envVars, selVars, callVars, Stays, Stashed, IsStash, StashWindows
<1>2. CASE PaneDies
  <2>1. \A q \in Pane : Stays(q) \/ server'.loc[q] = Gone
    <3> SUFFICES ASSUME NEW q \in Pane  PROVE Stays(q) \/ server'.loc[q] = Gone
      OBVIOUS
    <3>1. PICK p \in Pane : server' \in Died(server, p)
      BY <1>2 DEF PaneDies
    <3>2. server'.loc[p] = Gone /\ Keeps(server, server', {p})
      BY <3>1, DiedEffect DEF TypeOK
    <3> QED
      BY <3>2 DEF Keeps, Stays
  <2>2. used'.deaths # 0
    BY <1>2 DEF PaneDies, TypeOK
  <2> QED
    BY <1>2, <2>1, <2>2 DEF PaneDies, selVars, callVars
<1>3. CASE OperatorSelects
  <2>1. server'.loc = server.loc /\ server.stash \subseteq server'.stash
    BY <1>3, StillMoves
  <2>2. used'.deaths = used.deaths
    BY <1>3 DEF OperatorSelects, TypeOK
  <2> QED
    BY <1>3, <2>1, <2>2 DEF OperatorSelects, selVars, callVars, Stays, Stashed, IsStash, StashWindows
<1>4. CASE PaneFrees
  <2>1. used'.deaths = used.deaths
    BY <1>4 DEF PaneFrees, TypeOK
  <2> QED
    BY <1>4, <2>1 DEF PaneFrees, tmuxVars, selVars, callVars, Stays, Stashed, IsStash, StashWindows
<1> QED
  BY <1>1, <1>2, <1>3, <1>4 DEF Environment

\* What a decision was taken for still holds when it is carried out.
LEMMA DecisionsKept ==
  ASSUME IInv, [Next]_vars
  PROVE  SwapReady' /\ StashReady'
<1>a. /\ Wanted' = Wanted
      /\ SwapReady /\ StashReady /\ LeftUnwanted
      /\ left \subseteq Pane
      /\ server \in Server
  BY CallStays DEF IInv, TypeOK
<1>1. CASE Environment \/ UNCHANGED vars
  <2>1. SwapReady'
    <3> SUFFICES ASSUME pc = "swap"  PROVE SwapReady'
      BY <1>1, EnvironmentKeeps DEF IInv, SwapReady
    <3>1. seen' = seen /\ busy' \subseteq busy
      BY <1>1, EnvironmentKeeps DEF IInv, callVars
    <3>2. /\ IsSingleton(Wanted \ seen)
          /\ IsSingleton(seen \ Wanted)
          /\ (seen \ Wanted) \intersect busy = {}
          /\ \A p \in Pane : Alive(server, p) => (p \in seen <=> server.loc[p] = Target)
      BY <1>a DEF SwapReady
    <3>3. \A p \in Pane : Alive(server', p) => Alive(server, p) /\ server'.loc[p] = server.loc[p]
      BY <1>1, EnvironmentKeeps DEF IInv, Alive, Stays
    <3>4. IsSingleton(seen \ Wanted)' /\ IsSingleton(Wanted \ seen)'
      BY <1>a, <3>1, <3>2 DEF IsSingleton
    <3> QED
      BY <1>a, <3>1, <3>2, <3>3, <3>4 DEF SwapReady
  <2>2. StashReady'
    <3> SUFFICES ASSUME pc = "stash"  PROVE StashReady'
      BY <1>1, EnvironmentKeeps DEF IInv, StashReady
    <3>1. moving' = moving /\ busy' \subseteq busy
      BY <1>1, EnvironmentKeeps DEF IInv, callVars
    <3>2. used'.deaths = 0 => \E q \in InWindow(server', Target) : q # moving
      BY <1>1, <1>a, EnvironmentKeeps DEF IInv, StashReady, InWindow, Stays
    <3> QED
      BY <1>a, <3>1, <3>2 DEF StashReady
  <2> QED
    BY <2>1, <2>2
<1>2. CASE Plan
  <2>1. SwapReady'
    <3> SUFFICES ASSUME pc' = "swap"  PROVE SwapReady'
      BY DEF SwapReady
    <3> DEFINE now == InWindow(server, Target)
    <3>1. /\ seen' = now /\ UNCHANGED <<server, busy>>
          /\ IsSingleton(Wanted \ now) /\ IsSingleton(now \ Wanted)
          /\ ~SwapDeferred(now \ Wanted)
      BY <1>2 DEF Plan, Goto, Return, tmuxVars, envVars
    <3>2. IsSingleton(Wanted \ seen)'
      BY <1>a, <3>1 DEF IsSingleton
    <3>3. (now \ Wanted) \intersect busy = {}
      BY <3>1 DEF IsSingleton, SwapDeferred
    <3>4. \A p \in Pane : p \in now <=> server.loc[p] = Target
      BY DEF InWindow
    <3>5. IsSingleton(seen \ Wanted)'
      BY <1>a, <3>1 DEF IsSingleton
    <3> HIDE DEF now
    <3> QED
      BY <1>a, <3>1, <3>2, <3>3, <3>4, <3>5 DEF SwapReady
  <2>2. StashReady'
    BY <1>2 DEF Plan, StashReady, Goto, Return
  <2> QED
    BY <2>1, <2>2
<1>3. CASE DetachDecide
  <2>1. PICK p \in left : Detachable(p) /\ moving' = p
    BY <1>3 DEF DetachDecide
  <2>2. p \in Pane \ (Wanted \union busy)
    BY <1>a, <2>1 DEF Detachable, LeftUnwanted
  <2>3. \E q \in InWindow(server, Target) : q # p
    BY <2>1 DEF Detachable
  <2>4. UNCHANGED <<server, busy, used>> /\ pc' = "stash"
    BY <1>3 DEF DetachDecide, Goto, tmuxVars, envVars
  <2> QED
    BY <1>a, <2>1, <2>2, <2>3, <2>4 DEF StashReady, SwapReady
<1>4. CASE ~(Environment \/ UNCHANGED vars \/ Plan \/ DetachDecide)
  <2>1. pc' \notin {"swap", "stash"}
    BY <1>4 DEF IInv, PathKept, SelectSteps, Goto, Return, Next, Step, Select, Detach, Environment,
       Snapshot, SwapSkipped, Swap, AttachFirst, Attach, AttachDone, SelectCheck, SelectActivate,
       SelectInPlace, SelectGuard, DetachList, DetachSkip, StashPane, StashPaneFails, DetachDone,
       Reorder, Break, BreakDone, Rejoin, RejoinDone, Verify, Restore, CallAgain
  <2> QED
    BY <2>1 DEF SwapReady, StashReady
<1> QED
  BY <1>1, <1>2, <1>3, <1>4

\* Deaths are counted and never taken back.
LEMMA DeathsCounted ==
  ASSUME TypeOK, [Next]_vars, used'.deaths = 0
  PROVE  used.deaths = 0
<1>a. used \in [deaths : Nat, fails : Nat, moves : Nat, freed : SUBSET Pane,
                     scattered : SUBSET Pane, may : Limits]
  BY DEF TypeOK
<1>1. CASE Environment \/ UNCHANGED vars
  BY <1>1, EnvironmentKeeps
<1>2. CASE UNCHANGED used \/ CountFail \/ Scatters
  BY <1>a, <1>2, FailCounted
<1>3. ~(Environment \/ UNCHANGED vars) => UNCHANGED used \/ CountFail \/ Scatters
  BY CallCounts
<1> QED
  BY <1>1, <1>2, <1>3

\* Target keeps a pane through every step but a death.
LEMMA TargetInductive ==
  ASSUME IInv, [Next]_vars
  PROVE  TargetKept' /\ FirstStays'
<1> SUFFICES ASSUME used'.deaths = 0
             PROVE  /\ \E q \in Pane : server'.loc[q] = Target
                    /\ pc' = "break" => server'.loc[First] = Target
  BY CallStays DEF TargetKept, FirstStays, InWindow
<1>a. /\ used.deaths = 0
      /\ server \in Server /\ TypeOK
      /\ Wanted \subseteq Pane /\ First \in Wanted
      /\ SwapReady /\ StashReady /\ FirstStays
  BY DeathsCounted, CallFacts DEF IInv, TypeOK
<1>b. PICK held \in Pane : server.loc[held] = Target
  BY <1>a DEF IInv, TargetKept, InWindow
<1>1. CASE Environment \/ UNCHANGED vars
  BY <1>1, <1>a, <1>b, EnvironmentKeeps DEF IInv, FirstStays, Stays
<1>2. CASE Swap
  <2>1. Incoming \in Pane /\ Outgoing \in seen
    BY <1>2, <1>a, SwapPanes DEF Swap, SwapTo
  <2>2. /\ Alive(server, Outgoing)
        /\ server'.loc[Incoming] = server.loc[Outgoing]
    BY <1>2, <1>a, SwapMoves
  <2>3. server.loc[Outgoing] = Target
    BY <1>2, <1>a, <2>1, <2>2 DEF Swap, SwapTo, SwapReady, Alive
  <2>4. pc' # "break"
    BY <1>2 DEF Swap, SwapTo, Goto
  <2> QED
    BY <2>1, <2>2, <2>3, <2>4
<1>3. CASE AttachFirst
  <2>1. pc' # "break"
    BY <1>3 DEF AttachFirst, Goto
  <2>2. CASE \E t \in InWindow(server, Target) : JoinTo(First, t, FirstPaneJoinFlag(t))
    <3>1. PICK t \in InWindow(server, Target) : JoinTo(First, t, FirstPaneJoinFlag(t))
      BY <2>2
    <3>2. t \in Pane \ {First} /\ Keeps(server, server', {First})
      BY <1>a, <3>1, JoinMoves
    <3>3. server'.loc[t] = Target
      BY <3>1, <3>2 DEF Keeps, InWindow
    <3> QED
      BY <2>1, <3>2, <3>3
  <2>3. CASE UNCHANGED server
    BY <1>b, <2>1, <2>3
  <2> QED
    BY <1>3, <2>2, <2>3 DEF AttachFirst, JoinFails, tmuxVars
<1>4. CASE Attach \/ Rejoin
  <2> DEFINE p == Desired[next]
  <2>1. pc' # "break"
    BY <1>4 DEF Attach, Rejoin
  <2>2. CASE p \notin InWindow(server, Target) /\ JoinTo(p, JoinTarget(p).pane, JoinTarget(p).flag)
    <3>1. held # p /\ Keeps(server, server', {p})
      BY <1>a, <1>b, <2>2, JoinMoves DEF InWindow
    <3> QED
      BY <1>b, <2>1, <3>1 DEF Keeps
  <2>3. CASE UNCHANGED server
    BY <1>b, <2>1, <2>3
  <2> QED
    BY <1>4, <2>2, <2>3 DEF Attach, Rejoin, JoinFails, tmuxVars
<1>5. CASE \/ SelectActivate \/ SelectInPlace \/ SelectGuard
           \/ StashPaneFails \/ DetachDone \/ Restore
  <2>1. server'.loc = server.loc
    BY <1>a, <1>5, StillMoves
  <2>2. pc' # "break"
    BY <1>5 DEF SelectActivate, SelectInPlace, SelectGuard, StashPaneFails, DetachDone, Restore,
                Goto, IInv, PathKept, SelectSteps
  <2> QED
    BY <1>b, <2>1, <2>2
<1>6. CASE StashPane
  <2>1. PICK q \in InWindow(server, Target) : q # moving
    BY <1>6, <1>a DEF StashPane, StashReady
  <2>2. Keeps(server, server', {moving})
    BY <1>6, <1>a, StashMoves
  <2>3. q \in Pane /\ server'.loc[q] = Target
    BY <2>1, <2>2 DEF Keeps, InWindow
  <2>4. pc' # "break"
    BY <1>6 DEF StashPane, Goto
  <2> QED
    BY <2>3, <2>4
<1>7. CASE Break
  <2>1. server.loc[First] = Target /\ Desired[next] # First
    BY <1>7, <1>a, NextPane DEF Break, FirstStays
  <2>2. Keeps(server, server', {Desired[next]})
    BY <1>7, <1>a, BreakMoves
  <2> QED
    BY <1>a, <2>1, <2>2 DEF Keeps
<1>8. CASE Reorder
  <2>1. UNCHANGED server /\ (pc' = "break" => InWindow(server, Target) = Wanted)
    BY <1>8 DEF Reorder, Goto, tmuxVars
  <2> QED
    BY <1>a, <1>b, <2>1 DEF InWindow
<1>9. CASE \/ Snapshot \/ Plan \/ SwapSkipped \/ AttachDone \/ SelectCheck \/ DetachList
           \/ DetachSkip \/ DetachDecide \/ BreakDone \/ RejoinDone \/ Verify \/ CallAgain
  <2>1. UNCHANGED server /\ pc' # "break"
    BY <1>9 DEF Snapshot, Plan, SwapSkipped, AttachDone, SelectCheck, DetachList, DetachSkip,
       DetachDecide, BreakDone, RejoinDone, Verify, CallAgain, tmuxVars, Goto, Return, IInv,
       PathKept, SelectSteps
  <2> QED
    BY <1>b, <2>1
<1> QED
  BY <1>1, <1>2, <1>3, <1>4, <1>5, <1>6, <1>7, <1>8, <1>9 DEF Next, Step, Select, Detach

\* Where the snapshot of the plan and the return path come from.
LEMMA PlanKept ==
  ASSUME IInv, [Next]_vars
  PROVE  /\ \/ seen' = seen
            \/ Plan /\ seen' = InWindow(server, Target) /\ UNCHANGED server
            \/ CallAgain /\ seen' = {} /\ pc' = "snapshot"
         /\ \/ path' = path
            \/ Snapshot \/ Plan \/ CallAgain
            \/ Swap /\ path' = "swapped"
            \/ Verify /\ path' = "full" /\ path = "none"
BY DEF IInv, PathKept, SelectSteps, Next, Step, Select, Detach, Environment, vars, callVars, tmuxVars,
   Goto, Return, Snapshot, Plan, SwapSkipped, Swap,
   AttachFirst, Attach, AttachDone, SelectCheck, SelectActivate, SelectInPlace, SelectGuard,
   DetachList, DetachSkip, DetachDecide, StashPane, StashPaneFails, DetachDone, Reorder, Break,
   BreakDone, Rejoin, RejoinDone, Verify, Restore, CallAgain, PaneDies, OperatorSelects, PaneFrees

\* A pane that leaves its window leaves the geometry of Target in step.
LEMMA LeftLays ==
  ASSUME server \in Server, server' \in Server, NEW p \in Pane, Keeps(server, server', {p}),
         Geometry, NEW cs \in Leaving(p)
  PROVE  Lays(cs, InWindow(server', Target))
<1> DEFINE P == InWindow(server, Target)
           Q == InWindow(server', Target)
<1> SUFFICES Lays(cs, Q)
  OBVIOUS
<1>1. \A q \in Pane \ {p} : q \in P <=> q \in Q
  BY DEF InWindow, Keeps
<1>2. P \subseteq Pane /\ Q \subseteq Pane
  BY DEF InWindow
<1>3. (p \in P <=> server.loc[p] = Target) /\ (p \in Q <=> server'.loc[p] = Target)
  BY DEF InWindow
<1>4. Lays(cols, P)
  BY DEF Geometry
<1>5. IsFiniteSet(P) /\ IsFiniteSet(Q)
  BY <1>2, FS_Subset, ServerAssumption
<1> HIDE DEF P
<1>6. CASE server'.loc[p] = Target
  <2>1. cs \in Arrangements(Q)
    BY <1>6 DEF Leaving
  <2> HIDE DEF Q
  <2> QED
    BY <1>5, <2>1, ArrangementsLay
<1> HIDE DEF Q
<1>7. CASE server'.loc[p] # Target /\ server.loc[p] = Target
  <2>1. cs \in Removals(cols, p)
    BY <1>7 DEF Leaving
  <2>2. p \in P /\ P \ {p} = Q
    BY <1>1, <1>2, <1>3, <1>7
  <2>3. Lays(cs, P \ {p})
    BY <1>4, <1>5, <2>1, <2>2, RemovalsLay
  <2> QED
    BY <2>2, <2>3
<1>8. CASE server'.loc[p] # Target /\ server.loc[p] # Target
  <2>1. cs = cols
    BY <1>8 DEF Leaving
  <2>2. P = Q
    BY <1>1, <1>2, <1>3, <1>8
  <2> QED
    BY <1>4, <2>1, <2>2
<1> QED
  BY <1>6, <1>7, <1>8

\* ... and so the geometry stays in step.
LEMMA LeavingLays ==
  ASSUME server \in Server, server' \in Server, NEW p \in Pane, Keeps(server, server', {p}),
         Geometry, cols' \in Leaving(p)
  PROVE  Geometry'
BY LeftLays DEF Geometry

\* So does a pane that joins another one, if it was not in Target before.
LEMMA JoinLays ==
  ASSUME server \in Server, NEW p, NEW t, NEW flag \in Flags, JoinTo(p, t, flag),
         p \notin InWindow(server, Target), Geometry
  PROVE  Geometry'
<1>1. /\ server' \in Server /\ p \in Pane /\ t \in Pane
      /\ server'.loc[p] = server.loc[t] /\ Keeps(server, server', {p})
  BY JoinMoves
<1>2. CASE server.loc[t] = Target
  <2> DEFINE P == InWindow(server, Target)
             Q == InWindow(server', Target)
  <2>1. Q = P \union {p} /\ t \in P /\ p \notin P
    BY <1>1, <1>2 DEF InWindow, Keeps
  <2>2. cols' \in Joins(cols, p, t, flag)
    BY <1>2 DEF JoinTo
  <2>3. Lays(cols, P)
    BY DEF Geometry
  <2> HIDE DEF P
  <2>4. Lays(cols', P \union {p})
    BY <2>1, <2>2, <2>3, JoinsLay
  <2> QED
    BY <2>1, <2>4 DEF Geometry
<1>3. CASE server.loc[t] # Target
  <2>1. cols' \in Leaving(p)
    BY <1>3 DEF JoinTo
  <2> QED
    BY <1>1, <2>1, LeavingLays
<1> QED
  BY <1>2, <1>3

\* Every step keeps the geometry and the panes of Target together.
LEMMA GeometryInductive ==
  ASSUME IInv, [Next]_vars
  PROVE  Geometry'
<1>a. /\ server \in Server /\ call \in Calls /\ TypeOK
      /\ Geometry
  BY DEF IInv, TypeOK
<1>b. ASSUME UNCHANGED cols, server'.loc = server.loc PROVE Geometry'
  <2>1. InWindow(server', Target) = InWindow(server, Target)
    BY <1>b DEF InWindow
  <2> QED
    BY <1>a, <1>b, <2>1 DEF Geometry
<1>1. CASE \/ UNCHANGED vars
           \/ Snapshot \/ Plan \/ SwapSkipped \/ AttachDone \/ SelectCheck \/ DetachList
           \/ DetachSkip \/ DetachDecide \/ Reorder \/ BreakDone \/ RejoinDone \/ Verify
           \/ CallAgain \/ PaneFrees
  <2>1. UNCHANGED <<server, cols>>
    BY <1>1 DEF vars, tmuxVars, Snapshot, Plan, SwapSkipped, AttachDone, SelectCheck, DetachList,
         DetachSkip, DetachDecide, Reorder, BreakDone, RejoinDone, Verify, CallAgain, PaneFrees
  <2> QED
    BY <2>1, <1>b
<1>2. CASE \/ SelectActivate \/ SelectInPlace \/ SelectGuard
           \/ StashPaneFails \/ DetachDone \/ Restore \/ OperatorSelects
  <2>1. server'.loc = server.loc
    BY <1>a, <1>2, StillMoves
  <2>2. UNCHANGED cols
    BY <1>2 DEF SelectActivate, SelectInPlace, SelectGuard, StashPaneFails, DetachDone, Restore,
                OperatorSelects
  <2> QED
    BY <2>1, <2>2, <1>b
<1>3. CASE Swap
  <2> DEFINE P == InWindow(server, Target)
  <2>1. /\ Incoming \in Wanted \ seen /\ Outgoing \in seen \ Wanted
        /\ pc = "swap" /\ cols' = Replaced(cols, Outgoing, Incoming)
    BY <1>3, SwapPanes DEF Swap, SwapTo
  <2>2. /\ server' \in Server
        /\ Alive(server, Incoming) /\ Alive(server, Outgoing)
        /\ server'.loc[Incoming] = server.loc[Outgoing]
        /\ server'.loc[Outgoing] = server.loc[Incoming]
        /\ Keeps(server, server', {Incoming, Outgoing})
    BY <1>a, <1>3, SwapMoves
  <2>3. Incoming \in Pane /\ Outgoing \in Pane
    BY <2>2 DEF Alive
  <2>4. server.loc[Outgoing] = Target /\ server.loc[Incoming] # Target
    BY <2>1, <2>2, <2>3 DEF IInv, SwapReady
  <2>5. InWindow(server', Target) = (P \ {Outgoing}) \union {Incoming}
    BY <2>2, <2>3, <2>4 DEF InWindow, Keeps
  <2>6. Outgoing \in P /\ Incoming \notin P
    BY <2>3, <2>4 DEF InWindow
  <2>7. Lays(cols, P)
    BY <1>a DEF Geometry
  <2> HIDE DEF P
  <2>8. Lays(cols', (P \ {Outgoing}) \union {Incoming})
    BY <2>1, <2>6, <2>7, ReplacedLay
  <2> QED
    BY <2>5, <2>8 DEF Geometry
<1>4. CASE AttachFirst
  <2>1. ASSUME NEW t \in InWindow(server, Target), JoinTo(First, t, FirstPaneJoinFlag(t)), First \notin seen
        PROVE  Geometry'
    <3>1. First \notin InWindow(server, Target)
      <4>1. pc = "attachFirst"
        BY <1>4 DEF AttachFirst
      <4>2. Target # Gone
        BY ServerAssumption
      <4> QED
        BY <2>1, <4>1, <4>2 DEF IInv, SeenReady, InWindow, Alive
    <3>2. FirstPaneJoinFlag(t) \in Flags
      BY DEF FirstPaneJoinFlag, Flags
    <3> QED
      BY <1>a, <2>1, <3>1, <3>2, JoinLays
  <2>2. CASE UNCHANGED <<server, cols>>
    BY <2>2, <1>b
  <2> QED
    BY <1>4, <2>1, <2>2 DEF AttachFirst, JoinFails, tmuxVars
<1>5. CASE Attach \/ Rejoin
  <2> DEFINE p == Desired[next]
             t == JoinTarget(p)
  <2>1. ASSUME JoinTo(p, t.pane, t.flag), p \notin InWindow(server, Target)
        PROVE  Geometry'
    <3>1. t.flag \in Flags
      BY DEF JoinTarget, Flags
    <3> HIDE DEF p, t
    <3> QED
      BY <1>a, <2>1, <3>1, JoinLays
  <2>2. CASE UNCHANGED <<server, cols>>
    BY <2>2, <1>b
  <2>3. \/ UNCHANGED <<server, cols>>
        \/ JoinTo(p, t.pane, t.flag) /\ p \notin InWindow(server, Target)
    BY <1>5 DEF Attach, Rejoin, JoinFails, tmuxVars
  <2> QED
    BY <2>1, <2>2, <2>3
<1>6. CASE StashPane
  <2>1. cols' \in Leaving(moving)
    BY <1>6 DEF StashPane
  <2> QED
    BY <1>a, <1>6, <2>1, StashMoves, LeavingLays
<1>7. CASE Break
  <2> DEFINE p == Desired[next]
  <2>1. CASE UNCHANGED <<server, cols>>
    BY <2>1, <1>b
  <2>2. CASE server' \in Broken(server, p) /\ cols' \in Leaving(p)
    <3>1. p \in Pane
      BY <2>2 DEF Broken, Alive
    <3>2. server' \in Server /\ Keeps(server, server', {p})
      BY <1>a, <1>7, BreakMoves
    <3> HIDE DEF p
    <3> QED
      BY <1>a, <2>2, <3>1, <3>2, LeavingLays
  <2> QED
    BY <1>7, <2>1, <2>2 DEF Break
<1>8. CASE PaneDies
  <2>1. PICK p \in Pane : server' \in Died(server, p) /\ cols' \in Leaving(p)
    BY <1>8 DEF PaneDies
  <2>2. server' \in Server /\ Keeps(server, server', {p})
    BY <1>a, <2>1, DiedEffect
  <2> QED
    BY <1>a, <2>1, <2>2, LeavingLays
<1> QED
  BY <1>1, <1>2, <1>3, <1>4, <1>5, <1>6, <1>7, <1>8
     DEF Next, Step, Select, Detach, Environment

\* What VERIFY accepts has every wanted pane in Target.
LEMMA VerifiedAllIn ==
  ASSUME IInv, ~Mismatch
  PROVE  Wanted \subseteq InWindow(server, Target)
<1> DEFINE P == InWindow(server, Target)
           K == PanesOf(cols) \ ProtectedExtras
<1>1. call \in Calls /\ Lays(cols, P)
  BY DEF IInv, TypeOK, Geometry
<1> HIDE DEF P
<1>2. Lists(Order(cols), P)
  BY <1>1, LaysOrder
<1>3. Order(cols) \in Seq(P)
  BY <1>2 DEF Lists
<1>4. Retained(Order(cols), K) \in Seq(P)
  BY <1>3, RetainedPositions
<1>5. Retained(Order(cols), K) = Desired
  BY DEF Mismatch
<1> HIDE DEF K
<1>6. \A i \in 1..Len(Desired) : Desired[i] \in P
  BY <1>4, <1>5
<1>7. \A p \in Wanted : \E i \in 1..Len(Desired) : Desired[i] = p
  BY <1>1, CallLaid DEF Lists
<1> QED
  BY <1>6, <1>7 DEF P

\* A pane that is alive after a step that is none of a swap, a stashing or a
\* loop over the wanted panes was there before it.
LEMMA AliveStays ==
  ASSUME IInv, [Next]_vars, NEW p \in Pane, Alive(server', p),
         ~Swap, pc # "stash", pc \notin AttachSteps
  PROVE  Alive(server, p) /\ server'.loc[p] = server.loc[p]
BY WhoMoves DEF Alive, Stays, StashPane

\* The snapshot of the plan is what ATTACH goes by.
LEMMA SeenInductive ==
  ASSUME IInv, [Next]_vars
  PROVE  SeenReady'
<1> SUFFICES ASSUME pc' = "attachFirst", NEW p \in Pane, Alive(server', p)
             PROVE  p \in seen' <=> server'.loc[p] = Target
  BY DEF SeenReady
<1>1. CASE Plan
  BY <1>1 DEF Plan, tmuxVars, InWindow
<1>2. CASE SwapSkipped
  BY <1>2 DEF SwapSkipped, tmuxVars, callVars, IInv, SwapReady
<1>3. CASE Environment \/ UNCHANGED vars
  <2>1. pc = "attachFirst" /\ seen' = seen
    BY <1>3, EnvironmentKeeps DEF IInv, callVars
  <2>2. Alive(server, p) /\ server'.loc[p] = server.loc[p]
    BY <1>3, EnvironmentKeeps DEF IInv, Alive, Stays
  <2> QED
    BY <2>1, <2>2 DEF IInv, SeenReady
<1>4. CASE ~(Plan \/ SwapSkipped \/ Environment \/ UNCHANGED vars)
  BY <1>4 DEF IInv, PathKept, SelectSteps, Goto, Return, Next, Step, Select, Detach,
     Snapshot, Swap, AttachFirst, Attach, AttachDone, SelectCheck, SelectActivate,
     SelectInPlace, SelectGuard, DetachList, DetachSkip, DetachDecide, StashPane, StashPaneFails,
     DetachDone, Reorder, Break, BreakDone, Rejoin, RejoinDone, Verify, Restore, CallAgain
<1> QED
  BY <1>1, <1>2, <1>3, <1>4

\* A swap puts the wanted panes into Target, and they stay.
LEMMA SwapInductive ==
  ASSUME IInv, [Next]_vars
  PROVE  SwapDone'
<1> SUFFICES ASSUME path' = "swapped", NEW p \in Pane, Alive(server', p)
             PROVE  server'.loc[p] = Target <=> p \in Wanted
  BY CallStays DEF SwapDone
<1>a. server \in Server
  BY DEF IInv, TypeOK
<1>1. CASE Swap
  <2>1. /\ Incoming \in Wanted \ seen /\ Wanted \ seen = {Incoming}
        /\ Outgoing \in seen \ Wanted /\ seen \ Wanted = {Outgoing}
        /\ pc = "swap"
    BY <1>1, SwapPanes DEF Swap
  <2>2. /\ Alive(server, Incoming) /\ Alive(server, Outgoing)
        /\ server'.loc[Incoming] = server.loc[Outgoing]
        /\ server'.loc[Outgoing] = server.loc[Incoming]
        /\ Keeps(server, server', {Incoming, Outgoing})
    BY <1>a, <1>1, SwapMoves
  <2>3. \A q \in Pane : Alive(server, q) => (q \in seen <=> server.loc[q] = Target)
    BY <2>1 DEF IInv, SwapReady
  <2>4. Incoming \in Pane /\ Outgoing \in Pane
    BY <2>2 DEF Alive
  <2>5. server.loc[Outgoing] = Target /\ server.loc[Incoming] # Target
    BY <2>1, <2>2, <2>3, <2>4
  <2>6. CASE p \in {Incoming, Outgoing}
    BY <2>1, <2>2, <2>5, <2>6
  <2>7. CASE p \notin {Incoming, Outgoing}
    <3>1. server'.loc[p] = server.loc[p] /\ Alive(server, p)
      BY <2>2, <2>7 DEF Keeps, Alive
    <3>2. p \in seen <=> p \in Wanted
      BY <2>1, <2>7
    <3> QED
      BY <2>3, <3>1, <3>2
  <2> QED
    BY <2>6, <2>7
<1>2. CASE ~Swap
  <2>1. path = "swapped"
    BY <1>2, PlanKept DEF Snapshot, Plan, CallAgain, IInv, PathKept, SelectSteps, Return, Goto
  <2>2. pc # "stash" /\ pc \notin AttachSteps
    BY <2>1 DEF IInv, PathKept, SelectSteps, AttachSteps
  <2>3. Alive(server, p) /\ server'.loc[p] = server.loc[p]
    BY <1>2, <2>2, AliveStays
  <2> QED
    BY <2>1, <2>3 DEF IInv, SwapDone
<1> QED
  BY <1>1, <1>2

\* What a full run has not reported stays where VERIFY has seen it.
LEMMA LossInductive ==
  ASSUME IInv, [Next]_vars
  PROVE  NoLoss'
<1> SUFFICES ASSUME path' = "full", ~err', NEW p \in Wanted, Alive(server', p)
             PROVE  server'.loc[p] = Target
  BY CallStays DEF NoLoss
<1>a. p \in Pane
  BY DEF Alive
<1>1. CASE Verify
  <2>1. UNCHANGED server /\ err' = (err \/ Mismatch)
    BY <1>1 DEF Verify
  <2>2. ~Mismatch
    BY <2>1
  <2>3. p \in InWindow(server, Target)
    BY <2>2, VerifiedAllIn
  <2> QED
    BY <2>1, <2>3 DEF InWindow
<1>2. CASE ~Verify
  <2>1. path = "full" /\ ~CallAgain
    BY <1>2, PlanKept DEF Snapshot, Plan, CallAgain, IInv, PathKept, SelectSteps, Return, Goto
  <2>2. pc \in {"restore", "done"}
    BY <2>1 DEF IInv, PathKept, SelectSteps
  <2>3. ~Swap /\ pc # "stash" /\ pc \notin AttachSteps
    BY <2>2 DEF AttachSteps, Swap
  <2>4. Alive(server, p) /\ server'.loc[p] = server.loc[p]
    BY <1>a, <2>3, AliveStays
  <2>5. err' = err
    BY <2>1, <2>2, Zenon DEF Next, Step, Select, Detach, Environment, vars, Snapshot, Plan, SwapSkipped,
       Swap, AttachFirst, Attach, AttachDone, SelectCheck, SelectActivate, SelectInPlace,
       SelectGuard, DetachList, DetachSkip, DetachDecide, StashPane, StashPaneFails, DetachDone,
       Reorder, Break, BreakDone, Rejoin, RejoinDone, Verify, Restore, PaneDies,
       OperatorSelects, PaneFrees
  <2> QED
    BY <2>1, <2>4, <2>5 DEF IInv, NoLoss
<1> QED
  BY <1>1, <1>2

\* Evicted panes stay in Target or in the stash.
LEMMA EvictedInductive ==
  ASSUME IInv, [Next]_vars
  PROVE  EvictedSafe'
<1> SUFFICES ASSUME path' # "swapped", NEW p \in seen' \ Wanted, Alive(server', p)
             PROVE  server'.loc[p] = Target \/ Stashed(server', p) \/ p \in used'.scattered
  BY CallStays DEF EvictedSafe
<1>a. p \in Pane /\ server \in Server
  BY DEF Alive, IInv, TypeOK
<1>1. CASE Plan
  BY <1>1, PlanKept DEF InWindow, Plan, tmuxVars
<1>2. CASE ~Plan
  <2>1. p \in seen /\ path # "swapped"
    <3>1. p \in seen
      BY <1>2, PlanKept
    <3>2. ~CallAgain
      BY <3>1 DEF CallAgain
    <3>3. ~Snapshot \/ path # "swapped"
      BY DEF Snapshot, IInv, PathKept, SelectSteps
    <3> QED
      BY <1>2, <3>1, <3>2, <3>3, PlanKept
  <2>2. Alive(server, p) =>
          server.loc[p] = Target \/ Stashed(server, p) \/ p \in used.scattered
    BY <2>1 DEF IInv, EvictedSafe
  <2>3. CASE Stays(p)
    <3>1. used.scattered \subseteq used'.scattered
      BY <1>a, UsedKept DEF IInv
    <3> QED
      BY <2>2, <2>3, <3>1, <1>a DEF Stays, Alive
  <2>4. CASE StashPane /\ p = moving
    BY <2>4, StashMoves DEF IInv
  <2>5. ~(Swap /\ p \in {Incoming, Outgoing})
    BY DEF Swap, SwapTo
  <2>6. ~(PaneDies /\ server'.loc[p] = Gone)
    BY DEF Alive
  <2> QED
    BY <1>a, <2>3, <2>4, <2>5, <2>6, WhoMoves
<1> QED
  BY <1>1, <1>2

\* An update leaves the entry of a pane alone, records the window it is in then
\* or has failed.
LEMMA RecordTells ==
  ASSUME registered \in [Pane -> Entries], NEW P, Record(P), NEW q \in Pane
  PROVE  /\ registered'[q] = registered[q] \/ Told(q)'
         /\ q \in P /\ server'.loc[q] # Gone => Told(q)'
<1>1. PICK F \in SUBSET P : registered' = Recorded(registered, P, F)
  BY DEF Record
<1>2. registered[q] \in Entries
  OBVIOUS
<1>3. CASE q \notin P \/ server'.loc[q] = Gone
  BY <1>1, <1>3 DEF Recorded, WindowNow
<1>4. CASE q \in P /\ server'.loc[q] # Gone /\ q \in F
  <2>1. registered'[q] = [registered[q] EXCEPT !.missed = TRUE]
    BY <1>1, <1>4 DEF Recorded, WindowNow
  <2>2. registered'[q].missed
    BY <1>2, <2>1 DEF Entries
  <2> QED
    BY <2>2 DEF Told
<1>5. CASE q \in P /\ server'.loc[q] # Gone /\ q \notin F
  <2>1. registered'[q] = [window |-> server'.loc[q], missed |-> FALSE]
    BY <1>1, <1>5 DEF Recorded, WindowNow
  <2>2. registered'[q].window = server'.loc[q]
    BY <2>1
  <2> QED
    BY <2>2 DEF Told
<1> QED
  BY <1>3, <1>4, <1>5

\* The same of every step.
LEMMA RegistryMoves ==
  ASSUME IInv, [Next]_vars, NEW q \in Pane
  PROVE  registered'[q] = registered[q] \/ Told(q)'
<1>a. registered \in [Pane -> Entries]
  BY DEF IInv, TypeOK
<1>1. \A P : Record(P) => registered'[q] = registered[q] \/ Told(q)'
  BY <1>a, RecordTells
<1>2. CASE UNCHANGED registered
  BY <1>2
<1>3. ~UNCHANGED registered => \E P : Record(P)
  BY DEF Next, Step, Select, Detach, Environment, vars, callVars, tmuxVars, Snapshot, Plan,
   SwapSkipped, Swap, AttachFirst, Attach, AttachDone, SelectCheck, SelectActivate, SelectInPlace,
   SelectGuard, DetachList, DetachSkip, DetachDecide, StashPane, StashPaneFails, DetachDone, Reorder,
   Break, BreakDone, Rejoin, RejoinDone, Verify, Restore, CallAgain, PaneDies, OperatorSelects,
   PaneFrees
<1> QED
  BY <1>1, <1>2, <1>3

\* The registry records what the call has moved.
LEMMA RegistryInductive ==
  ASSUME IInv, [Next]_vars
  PROVE  RegistrySafe'
<1> SUFFICES ASSUME pc' \notin {"snapshot", "plan"}, path' \in {"none", "swapped", "full"},
                    NEW p \in Pane, Alive(server', p),
                    \/ (p \in seen') # (server'.loc[p] = Target)
                    \/ path' = "full" /\ p \in Wanted,
                    ~(path' = "none" /\ p \in Wanted)
             PROVE  Told(p)'
  BY CallStays DEF RegistrySafe
<1>a. /\ server \in Server /\ server'.loc[p] # Gone
      /\ registered \in [Pane -> Entries]
      /\ RegistrySafe /\ PathKept
  BY DEF Alive, IInv, TypeOK
<1>b. \A P : Record(P) /\ p \in P => Told(p)'
  BY <1>a, RecordTells
<1>c. Told(p) /\ server'.loc[p] = server.loc[p] => Told(p)'
  BY RegistryMoves DEF Told
<1>1. CASE Plan
  <2>1. UNCHANGED server /\ seen' = InWindow(server, Target)
    BY <1>1 DEF Plan, tmuxVars
  <2>2. path' # "full"
    BY <1>1, <1>a DEF Plan, PathKept, SelectSteps, Return, Goto
  <2> QED
    BY <2>1, <2>2 DEF InWindow
<1>2. CASE Verify
  <2>1. /\ UNCHANGED <<server, seen>>
        /\ pc = "verify" /\ path = "none"
        /\ Record(Wanted)
    BY <1>2, <1>a DEF Verify, PathKept, SelectSteps
  <2>2. CASE p \in Wanted
    BY <2>1, <2>2, <1>b
  <2>3. CASE p \notin Wanted
    <3>1. Told(p)
      BY <2>1, <2>3, <1>a DEF RegistrySafe, Alive
    <3> QED
      BY <2>1, <3>1, <1>c
  <2> QED
    BY <2>2, <2>3
<1>3. CASE Swap
  <2>1. CASE p \in {Incoming, Outgoing}
    BY <1>3, <2>1, <1>b DEF Swap, SwapTo
  <2>2. CASE p \notin {Incoming, Outgoing}
    <3>1. Stays(p)
      BY <1>3, <2>2, <1>a, SwapMoves DEF Keeps, Stays
    <3>2. p \in seen <=> server.loc[p] = Target
      BY <1>3, <3>1, <1>a DEF Swap, SwapTo, IInv, SwapReady, Alive, Stays
    <3>3. seen' = seen /\ path' # "full"
      BY <1>3 DEF Swap, SwapTo
    <3> QED
      BY <3>1, <3>2, <3>3 DEF Stays
  <2> QED
    BY <2>1, <2>2
<1>4. CASE StashPane /\ p = moving
  BY <1>4, <1>b DEF StashPane
<1>5. CASE /\ ~(Plan \/ Verify \/ Swap)
           /\ ~(StashPane /\ p = moving)
  <2>1. ~CallAgain /\ ~Snapshot
    BY <1>5, <1>a DEF CallAgain, Snapshot, Goto, Return
  <2>2. seen' = seen /\ path' = path
    BY <1>5, <2>1, PlanKept
  <2>3. pc \notin {"snapshot", "plan"}
    BY <1>5, <2>1 DEF Next, Step, Select, Detach, Environment, vars,
       SwapSkipped, AttachFirst, Attach, AttachDone, SelectCheck, SelectActivate, SelectInPlace,
       SelectGuard, DetachList, DetachSkip, DetachDecide, StashPane, StashPaneFails, DetachDone,
       Reorder, Break, BreakDone, Rejoin, RejoinDone, Restore, PaneDies, OperatorSelects, PaneFrees
  <2>4. Stays(p)
    <3>1. ~(p \in Wanted /\ pc \in AttachSteps)
      BY <2>2, <1>a DEF PathKept, AttachSteps, SelectSteps
    <3> QED
      BY <1>5, <3>1, <1>a, WhoMoves
  <2>5. Told(p)
    BY <2>2, <2>3, <2>4, <1>a DEF RegistrySafe, Stays, Alive
  <2> QED
    BY <2>4, <2>5, <1>c DEF Stays
<1> QED
  BY <1>1, <1>2, <1>3, <1>4, <1>5

-----------------------------------------------------------------------------
(* The theorems.                                                           *)

\* The invariant holds in the first state.
LEMMA Initial ==
  ASSUME Init
  PROVE  IInv
<1>1. TypeOK
  BY TypeInitial
<1>2. TargetKept
  <2>1. PICK sc \in Scenarios : \E start \in sc.starts : server = start.server
    BY DEF Init
  <2> QED
    BY <2>1, StartsAssumption DEF Starts, TargetKept
<1>3. /\ SwapReady /\ StashReady /\ LeftUnwanted /\ NextReady /\ FirstStays
      /\ PathKept /\ EvictedSafe /\ RegistrySafe
  BY DEF Init, SwapReady, StashReady, LeftUnwanted, NextReady, FirstStays, PathKept, SelectSteps,
         EvictedSafe, RegistrySafe
<1>4. Geometry
  <2>1. PICK sc \in Scenarios : \E start \in sc.starts : server = start.server /\ cols = start.cols
    BY DEF Init
  <2>2. IsGeometry(cols, Pane) /\ PanesOf(cols) = InWindow(server, Target)
    BY <2>1, StartsAssumption DEF Starts
  <2> QED
    BY <2>2, GeometryLays DEF Geometry
<1>5. SeenReady /\ SwapDone /\ NoLoss
  BY DEF Init, SeenReady, SwapDone, NoLoss
<1> QED
  BY <1>1, <1>2, <1>3, <1>4, <1>5 DEF IInv

\* ... and every step keeps it.
LEMMA Inductive ==
  ASSUME IInv, [Next]_vars
  PROVE  IInv'
<1>1. TypeOK'
  BY TypeInductive DEF IInv
<1> QED
  BY <1>1, TargetInductive, DecisionsKept, ControlKept, EvictedInductive, RegistryInductive,
     GeometryInductive, SeenInductive, SwapInductive, LossInductive DEF IInv

\* The invariant that carries the others: TargetKept, LossIsReported, and, but for
\* panes stash_pane has scattered and updates the registry has missed,
\* EvictedAreStashed and RegistryFollows, at every step of a call.
THEOREM Invariance == Spec => []IInv
<1>1. IInv /\ [Next]_vars => IInv'
  BY Inductive
<1> QED
  BY <1>1, Initial, PTL DEF Spec

\* Every variable keeps its type.
THEOREM TypeCorrect == Spec => []TypeOK
BY Invariance, PTL DEF IInv

\* As long as no pane has died, reconcile never takes the last pane out of
\* Target: neither the swap, nor DETACH, nor REORDER.
THEOREM TargetNeverEmptied == Spec => []TargetKept
BY Invariance, PTL DEF IInv

\* A full run leaves every pane it evicted in Target or in a stash window,
\* whatever dies or fails on the way, but for those that stash_pane could make
\* no stash window for and has broken out to a window of another name.
THEOREM EvictionsStashed == Spec => []EvictedAreStashed
<1>1. IInv => EvictedAreStashed
  BY DEF IInv, EvictedSafe, EvictedAreStashed
<1> QED
  BY <1>1, Invariance, PTL

\* After a full run or a swap the registry records the window of every pane
\* that the call has moved, but for those whose last update has failed.
THEOREM RegistryCorrect == Spec => []RegistryFollows
<1>1. IInv => RegistryFollows
  BY DEF IInv, RegistrySafe, RegistryFollows, Told
<1> QED
  BY <1>1, Invariance, PTL

\* No silent loss: without an error entry, a full run and a swap leave every
\* wanted pane that is alive in Target.
THEOREM NothingLost == Spec => []LossIsReported
<1>1. IInv => LossIsReported
  BY DEF IInv, TypeOK, Alive, SwapDone, NoLoss, LossIsReported
<1> QED
  BY <1>1, Invariance, PTL

\* No step of a call takes an unwanted pane that is busy out of Target.
THEOREM BusyProtected == Spec => BusyStays
<1> DEFINE Protected ==
      \A p \in busy \ Wanted : server.loc[p] = Target => server'.loc[p] \in {Target, Gone}
<1>1. IInv /\ [Next]_vars => [Protected]_vars
  <2> SUFFICES ASSUME IInv, [Next]_vars, NEW p \in busy \ Wanted, server.loc[p] = Target
               PROVE  server'.loc[p] \in {Target, Gone}
    OBVIOUS
  <2>1. p \in Pane
    BY DEF IInv, TypeOK
  <2>2. Swap => p \notin {Incoming, Outgoing}
    BY SwapPanes DEF Swap, SwapTo
  <2>3. StashPane => p # moving
    BY DEF StashPane, IInv, StashReady
  <2> QED
    BY <2>1, <2>2, <2>3, WhoMoves DEF Stays
<1>2. BusyStays <=> [][Protected]_vars
  BY DEF BusyStays
<1> QED
  BY <1>1, <1>2, Invariance, PTL DEF Spec


-----------------------------------------------------------------------------
(* A call that is not disturbed settles the layout.  Quiet says that it is *)
(* not, and Settling what has then been achieved at each of its steps.     *)

\* Nothing has gone wrong, and what DETACH stashes leaves Target.
Quiet == Calm /\ ~IsStash(server, Target)

\* The steps after REORDER, and those after ATTACH that move no wanted pane.
Ordered  == pc = "verify" \/ (pc \in SelectSteps /\ after = "verify") \/ path = "full"
Complete == \/ Ordered
            \/ pc \in SelectSteps /\ after = "detachList"
            \/ pc \in {"detachList", "detach", "stash", "reorder"}

\* ATTACH has brought in the panes before "next" ...
Attached ==
  Calm /\ pc = "attach" =>
    \A i \in 1..Len(Desired) : i < next => server.loc[Desired[i]] = Target

\* ... and so all of them when it is through.
AllIn == Calm /\ Complete => Wanted \subseteq InWindow(server, Target)

\* What DETACH has still to stash, beside the busy panes it leaves.
Detaching ==
  Quiet /\ pc \in {"detach", "stash"} =>
    InWindow(server, Target) \ Wanted
      \subseteq left \union {p \in {moving} : pc = "stash"} \union busy \union used.freed

\* DETACH leaves none but busy panes behind it.
Detached ==
  Quiet /\ (Ordered \/ pc \in {"reorder", "break", "rejoin"}) =>
    InWindow(server, Target) \ Wanted \subseteq busy \union used.freed

\* REORDER has broken out the panes before "next" but the first.
Breaking ==
  Calm /\ pc = "break" =>
    /\ InWindow(server, Target) \subseteq Wanted
    /\ \A i \in 2..Len(Desired) : i < next => server.loc[Desired[i]] # Target

\* cs has the columns of the call up to row r of column k.
BuiltTo(cs, k, r) ==
  /\ Len(cs) = k
  /\ \A j \in 1..(k - 1) : cs[j] = call.columns[j]
  /\ cs[k] = SubSeq(call.columns[k], 1, r)

\* The same, up to the m-th pane.
Built(cs, m) ==
  \E k \in 1..Len(call.columns) : \E r \in 1..Len(call.columns[k]) :
    Desired[m] = call.columns[k][r] /\ BuiltTo(cs, k, r)

\* REORDER has rebuilt the columns up to the pane before "next".
Rejoining ==
  Calm /\ pc = "rejoin" => next - 1 \in 1..Len(Desired) /\ Built(cols, next - 1)

\* The panes are in the desired order.
InOrder ==
  Calm /\ Ordered => (InWindow(server, Target) = Wanted => Order(cols) = Desired)

\* A call that returned early has found the panes in Target, or leaves one there
\* that it does not want.
Returned ==
  Calm =>
    /\ path = "fast" => Wanted \subseteq InWindow(server, Target)
    /\ path = "deferred" => ~(InWindow(server, Target) \subseteq Wanted)

Settling ==
  /\ Attached /\ AllIn /\ Detaching /\ Detached /\ Breaking /\ Rejoining /\ InOrder
  /\ Returned

\* The steps of the other phases, and those of the environment while it is
\* quiet, move no pane.
LEMMA Undisturbed ==
  ASSUME TypeOK, [Next]_vars, ~PaneDies, ~Swap, ~StashPane,
         ~AttachFirst, ~Attach, ~Break, ~Rejoin
  PROVE  server'.loc = server.loc /\ cols' = cols /\ server.stash \subseteq server'.stash
<1>1. CASE UNCHANGED <<server, cols>>
  BY <1>1
<1>2. CASE \/ SelectActivate \/ SelectInPlace \/ SelectGuard
           \/ StashPaneFails \/ DetachDone \/ Restore \/ OperatorSelects
  BY <1>2, StillMoves DEF SelectActivate, SelectInPlace, SelectGuard, StashPaneFails, DetachDone,
                Restore, OperatorSelects
<1> QED
  BY <1>1, <1>2 DEF Next, Step, Select, Detach, Environment, vars, tmuxVars, Snapshot, Plan,
       SwapSkipped, AttachDone, SelectCheck, DetachList, DetachSkip, DetachDecide,
       Reorder, BreakDone, RejoinDone, Verify, CallAgain, PaneFrees

\* A pane that is alive after a step was alive before it.
LEMMA NoneRises ==
  ASSUME TypeOK, [Next]_vars, NEW q \in Pane, Alive(server', q)
  PROVE  Alive(server, q)
<1>a. server \in Server
  BY DEF TypeOK
<1>b. ASSUME NEW p, Keeps(server, server', {p}), Alive(server, p)
      PROVE  Alive(server, q)
  BY <1>b DEF Keeps, Alive
<1>c. server'.loc = server.loc => Alive(server, q)
  BY DEF Alive
<1>1. CASE Swap
  <2>1. /\ Alive(server, Incoming) /\ Alive(server, Outgoing)
        /\ Keeps(server, server', {Incoming, Outgoing})
    BY <1>a, <1>1, SwapMoves
  <2> QED
    BY <2>1 DEF Keeps, Alive
<1>2. CASE StashPane
  <2>1. Alive(server, moving) /\ Keeps(server, server', {moving})
    BY <1>a, <1>2, StashMoves DEF StashPane, StashesPane
  <2> QED
    BY <1>a, <1>b, <2>1 DEF Keeps
<1>3. CASE AttachFirst \/ Attach \/ Rejoin
  <2>1. ASSUME NEW p, NEW t, NEW flag, JoinTo(p, t, flag)
        PROVE  Alive(server, q)
    BY <1>a, <1>b, <2>1, JoinMoves DEF JoinTo, Joined
  <2>2. (\E p, t, flag : JoinTo(p, t, flag)) \/ UNCHANGED server
    BY <1>3 DEF AttachFirst, Attach, Rejoin, JoinFails, tmuxVars
  <2> QED
    BY <1>c, <2>1, <2>2
<1>4. CASE Break
  <2>1. Keeps(server, server', {Desired[next]})
    BY <1>a, <1>4, BreakMoves
  <2>2. Alive(server, Desired[next]) \/ UNCHANGED server
    BY <1>4 DEF Break, Broken
  <2> QED
    BY <1>b, <1>c, <2>1, <2>2
<1>5. CASE PaneDies
  BY <1>a, <1>b, <1>5, DiedEffect DEF PaneDies
<1>6. CASE ~(PaneDies \/ Swap \/ StashPane \/ AttachFirst \/ Attach \/ Break \/ Rejoin)
  BY <1>c, <1>6, Undisturbed
<1> QED
  BY <1>1, <1>2, <1>3, <1>4, <1>5, <1>6

\* Target is a stash window after a step if it was one before and no pane has died.
LEMMA NameKept ==
  ASSUME IInv, [Next]_vars, used'.deaths = 0, IsStash(server, Target)
  PROVE  IsStash(server', Target)
<1>a. /\ used.deaths = 0 /\ server \in Server /\ TypeOK
      /\ Wanted \subseteq Pane /\ First \in Wanted
      /\ Target \in server.stash
  BY DeathsCounted, CallFacts DEF IInv, TypeOK, IsStash, StashWindows
<1>b. PICK q \in Pane : server.loc[q] = Target
  BY <1>a DEF IInv, TargetKept, InWindow
<1>c. ASSUME NEW v \in Pane, Stays(v), server.loc[v] = Target
      PROVE  IsStash(server', Target)
  BY <1>a, <1>c DEF Stays, Stashed, IsStash, StashWindows
<1>1. CASE Stays(q)
  BY <1>b, <1>c, <1>1
<1>2. CASE PaneDies
  BY <1>a, <1>2 DEF PaneDies, IInv, TypeOK
<1>3. CASE Swap
  BY <1>a, <1>3 DEF Swap, SwapTo, Swapped, IsStash, StashWindows, Server
<1>4. CASE StashPane
  <2>1. PICK v \in InWindow(server, Target) : v # moving
    BY <1>4, <1>a DEF StashPane, IInv, StashReady
  <2>2. Keeps(server, server', {moving})
    BY <1>4, <1>a, StashMoves
  <2> QED
    BY <1>c, <2>1, <2>2 DEF Keeps, Stays, InWindow
<1>5. CASE ~Stays(q) /\ AttachFirst
  <2>1. PICK t \in InWindow(server, Target) : JoinTo(First, t, FirstPaneJoinFlag(t))
    BY <1>5 DEF AttachFirst, JoinFails, tmuxVars, Stays, Stashed, IsStash, StashWindows
  <2>2. t \in Pane \ {First} /\ Keeps(server, server', {First})
    BY <1>a, <2>1, JoinMoves
  <2> QED
    BY <1>c, <2>1, <2>2 DEF Keeps, Stays, InWindow
<1>6. CASE ~Stays(q) /\ (Attach \/ Rejoin)
  <2> DEFINE p == Desired[next]
             t == JoinTarget(p)
  <2>1. p \notin InWindow(server, Target) /\ JoinTo(p, t.pane, t.flag)
    BY <1>6 DEF Attach, Rejoin, JoinFails, tmuxVars, Stays, Stashed, IsStash, StashWindows
  <2> HIDE DEF p, t
  <2>2. Keeps(server, server', {p})
    BY <1>a, <2>1, JoinMoves
  <2> QED
    BY <1>b, <1>c, <2>1, <2>2 DEF Keeps, Stays, InWindow
<1>7. CASE Break
  <2>1. server.loc[First] = Target /\ Desired[next] # First
    BY <1>7, <1>a, NextPane DEF Break, IInv, FirstStays
  <2>2. Keeps(server, server', {Desired[next]})
    BY <1>7, <1>a, BreakMoves
  <2> QED
    BY <1>a, <1>c, <2>1, <2>2 DEF Keeps, Stays
<1>8. CASE ~(PaneDies \/ Swap \/ StashPane \/ AttachFirst \/ Attach \/ Break \/ Rejoin)
  BY <1>a, <1>8, Undisturbed DEF IsStash, StashWindows
<1> QED
  BY <1>1, <1>2, <1>3, <1>4, <1>5, <1>6, <1>7, <1>8

\* What is calm has been calm: nothing that goes wrong is ever undone.
LEMMA CalmBefore ==
  ASSUME TypeOK, [Next]_vars, Calm'
  PROVE  Calm /\ ~PaneDies /\ ~CountFail /\ ~Scatters
<1>a. used \in [deaths : Nat, fails : Nat, moves : Nat, freed : SUBSET Pane,
                     scattered : SUBSET Pane, may : Limits]
  BY DEF TypeOK
<1>b. used'.deaths = 0 /\ used'.fails = 0
  BY DEF Calm
<1>1. used.deaths = 0
  BY <1>b, DeathsCounted
<1>2. ~PaneDies /\ ~CountFail /\ ~Scatters
  BY <1>a, <1>b, FailCounted DEF PaneDies
<1>3. used.fails = 0
  <2>1. CASE UNCHANGED used
    BY <1>b, <2>1
  <2>2. CASE PaneFrees \/ OperatorSelects
    BY <1>a, <1>b, <2>2 DEF PaneFrees, OperatorSelects
  <2> QED
    BY <1>2, <2>1, <2>2, CallCounts DEF Environment
<1>4. \A p \in Wanted : Alive(server, p)
  <2> SUFFICES ASSUME NEW p \in Wanted PROVE Alive(server, p)
    OBVIOUS
  <2>1. Alive(server', p)
    BY CallStays DEF Calm
  <2>2. p \in Pane
    BY CallFacts DEF TypeOK
  <2> QED
    BY <2>1, <2>2, NoneRises
<1> QED
  BY <1>1, <1>2, <1>3, <1>4 DEF Calm

\* A call that is quiet has been quiet.
LEMMA QuietBefore ==
  ASSUME IInv, [Next]_vars, Quiet'
  PROVE  Quiet /\ ~PaneDies /\ ~CountFail /\ ~Scatters
<1>1. Calm /\ ~PaneDies /\ ~CountFail /\ ~Scatters
  BY CalmBefore DEF Quiet, IInv
<1>2. ~IsStash(server, Target)
  BY NameKept DEF Quiet, Calm
<1> QED
  BY <1>1, <1>2 DEF Quiet

\* A pane that is freed from protection is counted.
LEMMA FreedKept ==
  ASSUME IInv, [Next]_vars
  PROVE  busy \union used.freed \subseteq busy' \union used'.freed
<1>a. used \in [deaths : Nat, fails : Nat, moves : Nat, freed : SUBSET Pane,
                     scattered : SUBSET Pane, may : Limits]
  BY DEF IInv, TypeOK
<1>1. CASE UNCHANGED <<busy, used>>
  BY <1>1
<1>2. CASE UNCHANGED busy /\ (CountFail \/ Scatters \/ OperatorSelects \/ PaneDies)
  BY <1>a, <1>2, FailCounted DEF OperatorSelects, PaneDies
<1>3. CASE PaneFrees
  BY <1>a, <1>3 DEF PaneFrees
<1>4. ~PaneFrees => UNCHANGED busy
  BY DEF Next, Step, Select, Detach, Environment, vars, envVars, Snapshot, Plan,
       SwapSkipped, Swap, SwapTo, AttachFirst, Attach, JoinFails, AttachDone, SelectCheck,
       SelectActivate, SelectInPlace, SelectGuard, DetachList, DetachSkip, DetachDecide, StashPane,
       StashPaneFails, DetachDone, Reorder, Break, BreakDone, Rejoin, RejoinDone, Verify, Restore,
       CallAgain, PaneDies, OperatorSelects
<1> QED
  BY <1>1, <1>2, <1>3, <1>4, CallCounts DEF Environment, IInv

-----------------------------------------------------------------------------
(* Where the panes of the call are in its columns.                         *)

\* The pane before the m-th one stands above it, or at the foot of the column
\* to its left, whose first pane is an earlier one too.
LEMMA Predecessor ==
  ASSUME call \in Calls, NEW m \in 2..Len(Desired)
  PROVE  \E k \in 1..Len(call.columns) : \E r \in 1..Len(call.columns[k]) :
           /\ Desired[m] = call.columns[k][r]
           /\ r > 1 => Desired[m - 1] = call.columns[k][r - 1]
           /\ r = 1 => /\ k > 1
                       /\ Desired[m - 1] = call.columns[k - 1][Len(call.columns[k - 1])]
                       /\ \E i \in 1..(m - 1) : Desired[i] = call.columns[k - 1][1]
<1> DEFINE cs == call.columns
           F  == Desired
           n  == Len(cs)
<1>1. /\ cs \in Seq(Seq(Wanted)) /\ n \in Nat
      /\ \A k \in 1..n : Len(cs[k]) \in Nat \ {0}
  BY CallLaid, LaysTypes
<1>2. PICK off : Offsets(cs, F, off)
  BY <1>1, FlattenPlaces DEF Desired, Order
<1>3. Len(F) \in Nat /\ m \in 1..Len(F)
  BY CallFacts
<1> HIDE DEF cs, F
<1>4. /\ off \in [0..n -> Nat] /\ off[0] = 0
      /\ \A k \in 1..n : off[k] = off[k - 1] + Len(cs[k])
  BY <1>2 DEF Offsets
<1>5. \A k \in 1..n : \A r \in 1..Len(cs[k]) : F[off[k - 1] + r] = cs[k][r]
  BY <1>2, Zenon DEF Offsets, n
<1>6. \A i \in 1..Len(F) : \E k \in 1..n : \E r \in 1..Len(cs[k]) : i = off[k - 1] + r
  BY <1>2, Zenon DEF Offsets, n
<1>0. PICK k \in 1..n : \E r \in 1..Len(cs[k]) : m = off[k - 1] + r
  BY <1>3, <1>6, Zenon
<1>7. PICK r \in 1..Len(cs[k]) : m = off[k - 1] + r
  BY <1>0
<1> HIDE DEF n
<1>8. /\ off[k - 1] \in Nat /\ r \in Nat /\ k \in Nat /\ k - 1 \in 0..n
      /\ Len(cs[k]) \in Nat
  BY <1>1, <1>4, <1>7
<1>9. F[m] = cs[k][r]
  BY <1>5, <1>7, Zenon
<1>10. ASSUME r > 1 PROVE F[m - 1] = cs[k][r - 1]
  <2>1. r - 1 \in 1..Len(cs[k]) /\ m - 1 = off[k - 1] + (r - 1)
    BY <1>7, <1>8, <1>10
  <2> QED
    BY <1>5, <2>1
<1>11. ASSUME r = 1
       PROVE  /\ k > 1
              /\ F[m - 1] = cs[k - 1][Len(cs[k - 1])]
              /\ \E i \in 1..(m - 1) : F[i] = cs[k - 1][1]
  <2>1. k > 1
    <3>1. k # 1
      BY <1>3, <1>4, <1>7, <1>8, <1>11
    <3> QED
      BY <1>8, <3>1, <1>7
  <2> DEFINE j == k - 1
  <2>2. j \in 1..n /\ j - 1 \in 0..n
    BY <1>1, <1>8, <2>1
  <2> HIDE DEF j
  <2>3. /\ off[j] = off[j - 1] + Len(cs[j]) /\ off[j - 1] \in Nat
        /\ Len(cs[j]) \in Nat \ {0}
    BY <1>1, <1>4, <2>2
  <2>4. m - 1 = off[j - 1] + Len(cs[j])
    BY <1>7, <1>11, <2>3, <1>8 DEF j
  <2>5. F[off[j - 1] + Len(cs[j])] = cs[j][Len(cs[j])] /\ F[off[j - 1] + 1] = cs[j][1]
    <3>1. 1 \in 1..Len(cs[j]) /\ Len(cs[j]) \in 1..Len(cs[j])
      BY <2>3
    <3> QED
      BY <1>5, <2>2, <3>1
  <2>6. off[j - 1] + 1 \in 1..(m - 1)
    BY <2>3, <2>4
  <2> QED
    BY <2>1, <2>4, <2>5, <2>6 DEF j
<1> QED
  BY <1>7, <1>9, <1>10, <1>11 DEF cs, F, n

\* The ends of the order are the ends of the columns.
LEMMA OrderEnds ==
  ASSUME call \in Calls
  PROVE  /\ 1 \in 1..Len(call.columns) /\ 1 \in 1..Len(call.columns[1])
         /\ 1 \in 1..Len(Desired) /\ First = call.columns[1][1]
         /\ LET n == Len(call.columns)
            IN  Desired[Len(Desired)] = call.columns[n][Len(call.columns[n])]
<1> DEFINE cs == call.columns
           F  == Desired
           n  == Len(cs)
<1>1. /\ cs \in Seq(Seq(Wanted)) /\ n \in Nat
      /\ \A k \in 1..n : Len(cs[k]) \in Nat \ {0}
  BY CallLaid, LaysTypes
<1>2. PICK off : Offsets(cs, F, off)
  BY <1>1, FlattenPlaces DEF Desired, Order
<1>3. Len(F) \in Nat
  BY CallFacts
<1>4. n >= 1
  BY <1>1, CallsAssumption
<1> HIDE DEF cs, F
<1>5. /\ off \in [0..n -> Nat] /\ off[0] = 0 /\ off[n] = Len(F)
      /\ \A k \in 1..n : off[k] = off[k - 1] + Len(cs[k])
  BY <1>2 DEF Offsets
<1>6. \A k \in 1..n : \A r \in 1..Len(cs[k]) : F[off[k - 1] + r] = cs[k][r]
  BY <1>2, Zenon DEF Offsets, n
<1> HIDE DEF n
<1>7. 1 \in 1..n /\ n \in 1..n
  BY <1>1, <1>4
<1>8. /\ 1 \in 1..Len(cs[1]) /\ Len(cs[n]) \in 1..Len(cs[n])
  BY <1>1, <1>7
<1>9. F[1] = cs[1][1]
  <2>1. F[off[1 - 1] + 1] = cs[1][1]
    BY <1>6, <1>7, <1>8
  <2> QED
    BY <2>1, <1>5
<1>10. F[Len(F)] = cs[n][Len(cs[n])]
  <2>1. F[off[n - 1] + Len(cs[n])] = cs[n][Len(cs[n])]
    BY <1>6, <1>7, <1>8
  <2>2. Len(F) = off[n - 1] + Len(cs[n])
    BY <1>5, <1>7
  <2> QED
    BY <2>1, <2>2
<1>11. 1 \in 1..Len(F)
  <2>1. n - 1 \in 0..n /\ off[n - 1] \in Nat /\ Len(cs[n]) \in Nat \ {0}
    BY <1>1, <1>5, <1>7
  <2>2. Len(F) = off[n - 1] + Len(cs[n])
    BY <1>5, <1>7
  <2> QED
    BY <1>3, <2>1, <2>2
<1> QED
  BY <1>7, <1>8, <1>9, <1>10, <1>11 DEF First, cs, F, n

\* A pane is joined to one that comes before it.
LEMMA JoinTargetBefore ==
  ASSUME call \in Calls, NEW m \in 2..Len(Desired)
  PROVE  \E i \in 1..(m - 1) : JoinTarget(Desired[m]).pane = Desired[i]
<1> DEFINE cs == call.columns
           p  == Desired[m]
<1>0. PICK k \in 1..Len(cs) : \E r \in 1..Len(cs[k]) :
        /\ p = cs[k][r]
        /\ r > 1 => Desired[m - 1] = cs[k][r - 1]
        /\ r = 1 => \E i \in 1..(m - 1) : Desired[i] = cs[k - 1][1]
  BY Predecessor
<1>1. PICK r \in 1..Len(cs[k]) :
        /\ p = cs[k][r]
        /\ r > 1 => Desired[m - 1] = cs[k][r - 1]
        /\ r = 1 => \E i \in 1..(m - 1) : Desired[i] = cs[k - 1][1]
  BY <1>0
<1>2. Lays(cs, Wanted) /\ p \in Wanted /\ Len(Desired) \in Nat
  BY CallLaid, CallFacts
<1> HIDE DEF cs, p
<1>3. k = ColOf(cs, p) /\ r = RowOf(cs, p)
  <2>1. \A l \in 1..Len(cs) : \A q \in 1..Len(cs[l]) :
          cs[l][q] = p => l = ColOf(cs, p) /\ q = RowOf(cs, p)
    BY <1>2, LaysPlace
  <2> QED
    BY <1>1, <2>1, Zenon
<1>n. r \in Nat
  <2>1. Len(cs[k]) \in Nat
    BY <1>2, LaysTypes
  <2> QED
    BY <2>1
<1>4. JoinTarget(p).pane = IF r > 1 THEN cs[k][r - 1] ELSE cs[k - 1][1]
  BY <1>3 DEF JoinTarget, cs
<1>5. m - 1 \in 1..(m - 1)
  BY <1>2
<1> QED
  BY <1>1, <1>n, <1>4, <1>5 DEF p

-----------------------------------------------------------------------------
(* Settling is inductive, one part after the other.                        *)

\* While it is quiet a pane that ATTACH joins to one of Target arrives there,
\* and no pane of Target leaves.
LEMMA CalmJoin ==
  ASSUME server \in Server, Calm, ~CountFail, NEW p \in Wanted, NEW t, NEW flag,
         Wanted \subseteq Pane, t \in InWindow(server, Target),
         JoinTo(p, t, flag) \/ JoinFails(p, t)
  PROVE  /\ server'.loc[p] = Target
         /\ JoinTo(p, t, flag)
         /\ Keeps(server, server', {p})
         /\ \A q \in Pane : server.loc[q] = Target => server'.loc[q] = Target
<1>1. Alive(server, p) /\ Alive(server, t) /\ server.loc[t] = Target
  BY ServerAssumption DEF Calm, InWindow, Alive
<1>2. JoinTo(p, t, flag)
  BY <1>1 DEF JoinFails
<1>3. server'.loc[p] = Target /\ Keeps(server, server', {p})
  BY <1>1, <1>2, JoinMoves
<1> QED
  BY <1>2, <1>3 DEF Keeps

\* The loop of ATTACH leaves the panes it has passed in Target.
LEMMA AttachInductive ==
  ASSUME IInv, Settling, [Next]_vars
  PROVE  Attached'
<1> SUFFICES ASSUME Calm', pc' = "attach", NEW i \in 1..Len(Desired), i < next'
             PROVE  server'.loc[Desired[i]] = Target
  BY CallStays DEF Attached
<1>a. /\ Calm /\ ~PaneDies /\ ~CountFail /\ ~Scatters
      /\ server \in Server /\ call \in Calls /\ next \in Nat
      /\ Wanted \subseteq Pane /\ First \in Wanted
      /\ Len(Desired) \in Nat /\ \A j \in 1..Len(Desired) : Desired[j] \in Wanted
  BY CalmBefore, CallFacts DEF IInv, TypeOK
<1>1. CASE AttachFirst
  <2>1. i = 1
    BY <1>1 DEF AttachFirst
  <2>2. CASE UNCHANGED server /\ First \in seen
    BY <1>1, <1>a, <2>1, <2>2 DEF AttachFirst, IInv, SeenReady, Calm, First
  <2>3. InWindow(server, Target) # {}
    BY <1>a DEF Calm, IInv, TargetKept
  <2>4. ASSUME NEW t \in InWindow(server, Target),
               JoinTo(First, t, FirstPaneJoinFlag(t)) \/ JoinFails(First, t)
        PROVE  server'.loc[First] = Target
    BY <1>a, <2>4, CalmJoin
  <2> QED
    BY <1>1, <2>1, <2>2, <2>3, <2>4 DEF AttachFirst, tmuxVars, First
<1>2. CASE Attach
  <2> DEFINE p == Desired[next]
             t == JoinTarget(p)
  <2>1. next >= 2 /\ next <= Len(Desired) /\ next' = next + 1
    BY <1>2 DEF Attach, IInv, NextReady
  <2>2. next \in 2..Len(Desired) /\ p \in Wanted
    BY <1>a, <2>1
  <2>3. \A j \in 1..Len(Desired) : j < next => server.loc[Desired[j]] = Target
    BY <1>2, <1>a DEF Attach, Settling, Attached
  <2>4. t.pane \in InWindow(server, Target)
    <3>1. PICK j \in 1..(next - 1) : t.pane = Desired[j]
      BY <1>a, <2>2, JoinTargetBefore
    <3>2. j \in 1..Len(Desired) /\ j < next
      BY <1>a, <2>2, <3>1
    <3> QED
      BY <1>a, <2>3, <3>1, <3>2 DEF InWindow
  <2>5. i < next \/ i = next
    BY <1>a, <2>1
  <2>6. CASE p \in InWindow(server, Target)
    <3>1. UNCHANGED server
      BY <1>2, <2>6 DEF Attach, tmuxVars
    <3> QED
      BY <2>3, <2>5, <2>6, <3>1 DEF InWindow
  <2>7. CASE p \notin InWindow(server, Target)
    <3>1. JoinTo(p, t.pane, t.flag) \/ JoinFails(p, t.pane)
      BY <1>2, <2>7 DEF Attach
    <3> HIDE DEF t
    <3>2. /\ server'.loc[p] = Target
          /\ \A q \in Pane : server.loc[q] = Target => server'.loc[q] = Target
      BY <1>a, <2>2, <2>4, <3>1, CalmJoin
    <3> QED
      BY <1>a, <2>3, <2>5, <3>2
  <2> QED
    BY <2>6, <2>7
<1>3. CASE ~AttachFirst /\ ~Attach
  <2>1. pc = "attach" /\ next' = next /\ UNCHANGED cols
    BY <1>3, <1>a DEF IInv, PathKept, SelectSteps, Next, Step, Select, Detach, Environment, vars, callVars, tmuxVars,
       Goto, Return, Snapshot, Plan, SwapSkipped, Swap, AttachDone, SelectCheck, SelectActivate,
       SelectInPlace, SelectGuard, DetachList, DetachSkip, DetachDecide, StashPane, StashPaneFails,
       DetachDone, Reorder, Break, BreakDone, Rejoin, RejoinDone, Verify, Restore, CallAgain,
       OperatorSelects, PaneFrees
  <2>2. server'.loc = server.loc
    BY <1>3, <1>a, <2>1, Undisturbed DEF IInv, Swap, StashPane, Break, Rejoin
  <2> QED
    BY <1>a, <2>1, <2>2 DEF Settling, Attached
<1> QED
  BY <1>1, <1>2, <1>3

\* Where the steps of the later phases come from.
LEMMA CompleteFrom ==
  ASSUME IInv, [Next]_vars, Complete'
  PROVE  Complete \/ AttachDone \/ RejoinDone
BY DEF IInv, PathKept, SelectSteps, Complete, Ordered, Next, Step, Select, Detach, Environment, vars, callVars,
   selVars, Goto, Return, Snapshot, Plan, SwapSkipped, Swap, AttachFirst, Attach, AttachDone,
   SelectCheck, SelectActivate, SelectInPlace, SelectGuard, DetachList, DetachSkip, DetachDecide,
   StashPane, StashPaneFails, DetachDone, Reorder, Break, BreakDone, Rejoin, RejoinDone, Verify,
   Restore, CallAgain, PaneDies, OperatorSelects, PaneFrees

\* The same for those after REORDER.
LEMMA OrderedFrom ==
  ASSUME IInv, [Next]_vars, Ordered'
  PROVE  Ordered \/ Reorder \/ RejoinDone
BY DEF IInv, PathKept, SelectSteps, Ordered, Next, Step, Select, Detach, Environment, vars, callVars,
   selVars, Goto, Return, Snapshot, Plan, SwapSkipped, Swap, AttachFirst, Attach, AttachDone,
   SelectCheck, SelectActivate, SelectInPlace, SelectGuard, DetachList, DetachSkip, DetachDecide,
   StashPane, StashPaneFails, DetachDone, Reorder, Break, BreakDone, Rejoin, RejoinDone, Verify,
   Restore, CallAgain, PaneDies, OperatorSelects, PaneFrees

\* What is so far apart in the call that no wanted pane moves.
LEMMA LaterSteps ==
  ASSUME IInv
  PROVE  /\ Complete => pc \notin AttachSteps \union {"swap"}
         /\ Ordered => pc \notin AttachSteps \union {"swap", "stash"}
BY DEF IInv, PathKept, SelectSteps, AttachSteps, Complete, Ordered

-----------------------------------------------------------------------------
(* How REORDER rebuilds the columns.                                       *)

\* A window of one pane has one geometry.
LEMMA LaysSingle ==
  ASSUME NEW cs, NEW p, Lays(cs, {p})
  PROVE  cs = << <<p>> >>
<1>1. /\ cs \in Seq(Seq({p})) /\ Len(cs) \in Nat
      /\ \A k \in 1..Len(cs) : cs[k] \in Seq({p}) /\ Len(cs[k]) \in Nat \ {0}
      /\ \A k \in 1..Len(cs) : \A r \in 1..Len(cs[k]) : cs[k][r] \in {p}
  BY LaysTypes
<1>2. /\ \A k, j \in 1..Len(cs) : \A r \in 1..Len(cs[k]), q \in 1..Len(cs[j]) :
           cs[k][r] = cs[j][q] => k = j /\ r = q
      /\ \A q \in {p} : \E k \in 1..Len(cs) : \E r \in 1..Len(cs[k]) : cs[k][r] = q
  <2> DEFINE Q == {p}
  <2>1. Lays(cs, Q)
    OBVIOUS
  <2> HIDE DEF Q
  <2>2. /\ \A k, j \in 1..Len(cs) : \A r \in 1..Len(cs[k]), q \in 1..Len(cs[j]) :
             cs[k][r] = cs[j][q] => k = j /\ r = q
        /\ \A q \in Q : \E k \in 1..Len(cs) : \E r \in 1..Len(cs[k]) : cs[k][r] = q
    BY <2>1, LaysPlaces
  <2> QED
    BY <2>2 DEF Q
<1>3. \A k, j \in 1..Len(cs) : \A r \in 1..Len(cs[k]), q \in 1..Len(cs[j]) : k = j /\ r = q
  <2> SUFFICES ASSUME NEW k \in 1..Len(cs), NEW j \in 1..Len(cs),
                      NEW r \in 1..Len(cs[k]), NEW q \in 1..Len(cs[j])
               PROVE  k = j /\ r = q
    OBVIOUS
  <2>1. cs[k][r] = cs[j][q]
    BY <1>1
  <2> QED
    BY <1>2, <2>1
<1>4. Len(cs) \in Nat \ {0}
  BY <1>1, <1>2
<1>5. Len(cs) = 1
  <2> SUFFICES ASSUME Len(cs) # 1 PROVE FALSE
    OBVIOUS
  <2> DEFINE n == Len(cs)
  <2>0. n \in Nat \ {0} /\ n # 1
    BY <1>4
  <2> HIDE DEF n
  <2>1. 1 \in 1..n /\ 2 \in 1..n
    BY <2>0
  <2> USE DEF n
  <2>2. 1 \in 1..Len(cs[1]) /\ 1 \in 1..Len(cs[2])
    BY <1>1, <2>1
  <2>3. 1 = 2
    BY <1>3, <2>1, <2>2, Zenon
  <2> QED
    BY <2>3
<1>6. cs[1] \in Seq({p}) /\ Len(cs[1]) \in Nat \ {0} /\ \A r \in 1..Len(cs[1]) : cs[1][r] = p
  BY <1>1, <1>5
<1>7. Len(cs[1]) = 1
  <2> SUFFICES ASSUME Len(cs[1]) # 1 PROVE FALSE
    OBVIOUS
  <2> DEFINE n == Len(cs[1])
  <2>0. n \in Nat \ {0} /\ n # 1
    BY <1>6
  <2> HIDE DEF n
  <2>1. 1 \in 1..n /\ 2 \in 1..n
    BY <2>0
  <2> USE DEF n
  <2>2. 1 \in 1..Len(cs)
    BY <1>5
  <2>3. 1 = 2
    BY <1>3, <2>1, <2>2, Zenon
  <2> QED
    BY <2>3
<1>8. cs[1] = <<p>>
  BY <1>6, <1>7
<1> QED
  BY <1>1, <1>5, <1>8

\* The panes that have been put in place are where the call wants them.
LEMMA BuiltPlaces ==
  ASSUME call \in Calls, NEW k \in 1..Len(call.columns), NEW r \in 1..Len(call.columns[k]),
         NEW cs, BuiltTo(cs, k, r)
  PROVE  /\ Len(cs) = k /\ Len(cs[k]) = r
         /\ \A j \in 1..k : \A q \in 1..Len(cs[j]) :
              /\ j \in 1..Len(call.columns) /\ q \in 1..Len(call.columns[j])
              /\ cs[j][q] = call.columns[j][q]
<1> DEFINE C == call.columns
<1>1. /\ Len(C) \in Nat
      /\ \A j \in 1..Len(C) : C[j] \in Seq(Wanted) /\ Len(C[j]) \in Nat \ {0}
  BY CallLaid, LaysTypes
<1>2. Len(cs) = k /\ cs[k] = SubSeq(C[k], 1, r) /\ \A j \in 1..(k - 1) : cs[j] = C[j]
  BY DEF BuiltTo
<1> HIDE DEF C
<1>3. k \in 1..Len(C) /\ r \in 1..Len(C[k])
  BY DEF C
<1>4. C[k] \in Seq(Wanted) /\ Len(C[k]) \in Nat
  BY <1>1, <1>3
<1>5. Len(cs[k]) = r /\ \A q \in 1..Len(cs[k]) : q \in 1..Len(C[k]) /\ cs[k][q] = C[k][q]
  <2> DEFINE s == C[k]
  <2>1. s \in Seq(Wanted) /\ Len(s) \in Nat /\ r \in 1..Len(s)
    BY <1>3, <1>4
  <2> HIDE DEF s
  <2>2. Len(SubSeq(s, 1, r)) = r /\ \A q \in 1..r : q \in 1..Len(s) /\ SubSeq(s, 1, r)[q] = s[q]
    BY <2>1
  <2> QED
    BY <1>2, <2>2 DEF s
<1>6. ASSUME NEW j \in 1..k
      PROVE  j \in 1..Len(C) /\ (j = k \/ j \in 1..(k - 1))
  BY <1>1, <1>3
<1>7. \A j \in 1..k : \A q \in 1..Len(cs[j]) : q \in 1..Len(C[j]) /\ cs[j][q] = C[j][q]
  BY <1>2, <1>5, <1>6
<1> QED
  BY <1>2, <1>5, <1>6, <1>7 DEF C

\* The next pane to put in place is not in Target yet; the one it is joined to
\* is, and the join puts it in its place.
LEMMA BuiltNext ==
  ASSUME call \in Calls, NEW m \in 2..Len(Desired), NEW cs, NEW P, Lays(cs, P), Built(cs, m - 1)
  PROVE  /\ Desired[m] \notin P
         /\ JoinTarget(Desired[m]).pane \in P
         /\ \A c \in Joins(cs, Desired[m], JoinTarget(Desired[m]).pane, JoinTarget(Desired[m]).flag) :
              Built(c, m)
<1> DEFINE C == call.columns
           p == Desired[m]
           t == JoinTarget(p)
<1>1. /\ Lays(C, Wanted) /\ Len(C) \in Nat
      /\ \A j \in 1..Len(C) : C[j] \in Seq(Wanted) /\ Len(C[j]) \in Nat \ {0}
  BY CallLaid, LaysTypes
<1>2. PICK k \in 1..Len(C) : \E r \in 1..Len(C[k]) :
        /\ p = C[k][r]
        /\ r > 1 => Desired[m - 1] = C[k][r - 1]
        /\ r = 1 => k > 1 /\ Desired[m - 1] = C[k - 1][Len(C[k - 1])]
  BY Predecessor
<1>3. PICK r \in 1..Len(C[k]) :
        /\ p = C[k][r]
        /\ r > 1 => Desired[m - 1] = C[k][r - 1]
        /\ r = 1 => k > 1 /\ Desired[m - 1] = C[k - 1][Len(C[k - 1])]
  BY <1>2
<1>4. PICK k0 \in 1..Len(C) : \E q \in 1..Len(C[k0]) :
        Desired[m - 1] = C[k0][q] /\ BuiltTo(cs, k0, q)
  BY DEF Built
<1>5. PICK r0 \in 1..Len(C[k0]) : Desired[m - 1] = C[k0][r0] /\ BuiltTo(cs, k0, r0)
  BY <1>4
<1>6. /\ Len(cs) = k0 /\ Len(cs[k0]) = r0
      /\ \A j \in 1..k0 : \A q \in 1..Len(cs[j]) :
           /\ j \in 1..Len(C) /\ q \in 1..Len(C[j])
           /\ cs[j][q] = C[j][q]
  <2>1. \A i \in 1..Len(call.columns) : \A q \in 1..Len(call.columns[i]) : BuiltTo(cs, i, q)
          => /\ Len(cs) = i /\ Len(cs[i]) = q
             /\ \A j \in 1..i : \A u \in 1..Len(cs[j]) :
                  /\ j \in 1..Len(call.columns) /\ u \in 1..Len(call.columns[j])
                  /\ cs[j][u] = call.columns[j][u]
    BY BuiltPlaces
  <2> QED
    BY <1>5, <2>1, Zenon
<1>7. p \in Wanted
  <2>1. m \in 1..Len(Desired)
    BY CallFacts
  <2> QED
    BY <2>1, CallFacts
<1> HIDE DEF p
<1>8. k = ColOf(C, p) /\ r = RowOf(C, p)
  <2>1. \A l \in 1..Len(C) : \A q \in 1..Len(C[l]) :
          C[l][q] = p => l = ColOf(C, p) /\ q = RowOf(C, p)
    <3> HIDE DEF C
    <3> QED
      BY <1>1, <1>7, LaysPlace
  <2> QED
    BY <1>3, <2>1, Zenon
<1>9. t = IF r > 1 THEN [pane |-> C[k][r - 1], flag |-> "-dv"]
                   ELSE [pane |-> C[k - 1][1], flag |-> "-dh"]
  BY <1>8 DEF JoinTarget
<1>10. \A j, l \in 1..Len(C) : \A q \in 1..Len(C[j]), u \in 1..Len(C[l]) :
         C[j][q] = C[l][u] => j = l /\ q = u
  BY <1>1, LaysPlaces
<1>d. \A c : (\E j \in 1..Len(C) : \E q \in 1..Len(C[j]) : p = C[j][q] /\ BuiltTo(c, j, q)) => Built(c, m)
  BY DEF Built, p
<1>e. \A c : Len(c) = k /\ c[k] = SubSeq(C[k], 1, r) /\ (\A j \in 1..(k - 1) : c[j] = C[j])
              => BuiltTo(c, k, r)
  <2> SUFFICES ASSUME NEW c, Len(c) = k, \A j \in 1..(k - 1) : c[j] = C[j],
                      c[k] = SubSeq(C[k], 1, r)
               PROVE  BuiltTo(c, k, r)
    OBVIOUS
  <2> QED
    BY DEF BuiltTo
<1>f. cs[k0] = SubSeq(C[k0], 1, r0) /\ \A j \in 1..(k0 - 1) : cs[j] = C[j]
  BY <1>5 DEF BuiltTo
<1> HIDE DEF C, t
<1>11. /\ r \in Nat /\ k \in Nat /\ Len(C[k]) \in Nat /\ C[k] \in Seq(Wanted)
       /\ r0 \in Nat /\ k0 \in Nat /\ Len(C[k0]) \in Nat /\ C[k0] \in Seq(Wanted)
       /\ r >= 1 /\ r <= Len(C[k]) /\ k >= 1 /\ r0 >= 1 /\ k0 >= 1
  <2>1. /\ C[k] \in Seq(Wanted) /\ Len(C[k]) \in Nat
        /\ C[k0] \in Seq(Wanted) /\ Len(C[k0]) \in Nat
    BY <1>1, <1>3, <1>5
  <2> QED
    BY <2>1
<1>12. r > 1 => k0 = k /\ r0 = r - 1
  <2> SUFFICES ASSUME r > 1 PROVE k0 = k /\ r0 = r - 1
    OBVIOUS
  <2>1. r - 1 \in 1..Len(C[k])
    BY <1>11
  <2> QED
    BY <1>3, <1>5, <1>10, <2>1, SMTT(20)
<1>13. r = 1 => k > 1 /\ k0 = k - 1 /\ r0 = Len(C[k - 1])
  <2> SUFFICES ASSUME r = 1 PROVE k > 1 /\ k0 = k - 1 /\ r0 = Len(C[k - 1])
    OBVIOUS
  <2>1. k > 1 /\ k - 1 \in 1..Len(C)
    BY <1>1, <1>3, <1>11, SMTT(20)
  <2>2. Len(C[k - 1]) \in 1..Len(C[k - 1])
    <3>1. Len(C[k - 1]) \in Nat \ {0}
      BY <1>1, <2>1
    <3> QED
      BY <3>1
  <2> DEFINE j == k - 1
  <2>3. Desired[m - 1] = C[j][Len(C[j])] /\ j \in 1..Len(C) /\ Len(C[j]) \in 1..Len(C[j])
    BY <1>3, <2>1, <2>2
  <2> HIDE DEF j
  <2>4. k0 = j /\ r0 = Len(C[j])
    <3> DEFINE u == Len(C[j])
    <3>1. C[j][u] = C[k0][r0] /\ j \in 1..Len(C) /\ u \in 1..Len(C[j])
      BY <1>5, <2>3
    <3> HIDE DEF u
    <3>2. j = k0 /\ u = r0
      BY <1>10, <3>1
    <3> QED
      BY <3>2 DEF u
  <2> QED
    BY <2>1, <2>4 DEF j
<1>14. p \notin P
  <2> SUFFICES ASSUME p \in P PROVE FALSE
    OBVIOUS
  <2>1. PICK j \in 1..k0 : \E q \in 1..Len(cs[j]) : cs[j][q] = p
    <3>1. \A x \in P : \E j \in 1..Len(cs) : \E q \in 1..Len(cs[j]) : cs[j][q] = x
      BY LaysPlaces, SMTT(20)
    <3> QED
      BY <1>6, <3>1
  <2>2. PICK q \in 1..Len(cs[j]) : cs[j][q] = p
    BY <2>1
  <2>3. j = k /\ q = r
    BY <1>3, <1>6, <1>10, <2>2
  <2>4. CASE r > 1
    BY <1>6, <1>11, <1>12, <2>3, <2>4
  <2>5. CASE r = 1
    BY <1>11, <1>13, <2>3, <2>5
  <2> QED
    BY <1>11, <2>4, <2>5
<1>15. \A j \in 1..Len(cs) : \A q \in 1..Len(cs[j]) : cs[j][q] \in P
  BY LaysTypes
<1>16. \A x \in P : \A j \in 1..Len(cs) : \A q \in 1..Len(cs[j]) :
         cs[j][q] = x => j = ColOf(cs, x) /\ q = RowOf(cs, x)
  <2> SUFFICES ASSUME NEW x \in P
               PROVE  \A j \in 1..Len(cs) : \A q \in 1..Len(cs[j]) :
                        cs[j][q] = x => j = ColOf(cs, x) /\ q = RowOf(cs, x)
    OBVIOUS
  <2> QED
    BY LaysPlace
<1>17. cs \in Seq(Seq(P)) /\ k0 \in 1..Len(cs)
  BY <1>6, <1>11, LaysTypes
<1>18. CASE r > 1
  <2>1. t.pane = C[k][r - 1] /\ t.flag = "-dv"
    BY <1>9, <1>18
  <2>2. r0 \in 1..Len(cs[k0]) /\ cs[k0][r0] = t.pane
    <3>1. r0 \in 1..Len(cs[k0])
      BY <1>6, <1>11
    <3> QED
      BY <1>6, <1>11, <1>12, <1>18, <2>1, <3>1
  <2>3. t.pane \in P
    BY <1>15, <1>17, <2>2
  <2>4. ColOf(cs, t.pane) = k0 /\ RowOf(cs, t.pane) = r0
    BY <1>16, <1>17, <2>2, <2>3
  <2>5. ASSUME NEW c \in Joins(cs, p, t.pane, t.flag)
        PROVE  Built(c, m)
    <3>1. c = [cs EXCEPT ![k] = InsertAt(cs[k], r, p)]
      <4>1. k0 = k /\ r0 + 1 = r
        BY <1>11, <1>12, <1>18
      <4> QED
        BY <2>1, <2>4, <4>1 DEF Joins
    <3>2. InsertAt(cs[k], r, p) = SubSeq(C[k], 1, r)
      <4> DEFINE s == C[k]
      <4>1. cs[k] = SubSeq(s, 1, r - 1) /\ p = s[r] /\ s \in Seq(Wanted) /\ r \in 2..Len(s)
        BY <1>3, <1>f, <1>11, <1>12, <1>18
      <4> HIDE DEF s
      <4>2. InsertAt(SubSeq(s, 1, r - 1), r, s[r]) = SubSeq(s, 1, r)
        <5>1. Len(s) \in Nat /\ \A i \in 1..Len(s) : s[i] \in Wanted
          BY <4>1
        <5> QED
          BY <4>1, <5>1 DEF InsertAt
      <4> QED
        BY <4>1, <4>2 DEF s
    <3>3. /\ Len(c) = k /\ c[k] = SubSeq(C[k], 1, r)
          /\ \A j \in 1..(k - 1) : c[j] = C[j]
      <4>1. k0 = k /\ DOMAIN cs = 1..k /\ Len(cs) = k
        BY <1>6, <1>12, <1>17, <1>18
      <4>2. DOMAIN c = 1..k /\ c[k] = SubSeq(C[k], 1, r) /\ \A j \in (1..k) \ {k} : c[j] = cs[j]
        BY <1>11, <3>1, <3>2, <4>1
      <4>3. \A j \in 1..(k - 1) : j \in (1..k) \ {k}
        BY <1>11
      <4>4. Len(c) = k
        BY <1>11, <4>2
      <4> QED
        BY <1>f, <4>1, <4>2, <4>3, <4>4
    <3> QED
      BY <1>3, <1>d, <1>e, <3>3
  <2> QED
    BY <1>14, <2>3, <2>5 DEF t, p
<1>19. CASE r = 1
  <2>1. t.pane = C[k - 1][1] /\ t.flag = "-dh" /\ k > 1 /\ k0 = k - 1
    BY <1>9, <1>13, <1>19
  <2>2. 1 \in 1..Len(cs[k0]) /\ cs[k0][1] = t.pane
    <3>1. 1 \in 1..Len(cs[k0])
      BY <1>6, <1>11
    <3> QED
      BY <1>6, <1>11, <2>1, <3>1, SMTT(20)
  <2>3. t.pane \in P
    BY <1>15, <1>17, <2>2
  <2>4. ColOf(cs, t.pane) = k0
    BY <1>16, <1>17, <2>2, <2>3
  <2>5. ASSUME NEW c \in Joins(cs, p, t.pane, t.flag)
        PROVE  Built(c, m)
    <3>1. c = Append(cs, <<p>>)
      <4>1. c \in RightOf(cs, k0, p)
        BY <2>1, <2>4, <2>5 DEF Joins
      <4>2. c = Before(cs, k0 + 1) \o << <<p>> >> \o After(cs, k0)
        BY <1>6, <4>1 DEF RightOf
      <4>3. Before(cs, k0 + 1) = cs /\ After(cs, k0) = <<>>
        BY <1>6, <1>11, <1>17 DEF Before, After
      <4> QED
        BY <1>17, <4>2, <4>3, SMTT(20)
    <3>2. Len(c) = k /\ c[k] = <<p>> /\ \A j \in 1..k0 : c[j] = cs[j]
      BY <1>6, <1>11, <1>17, <2>1, <3>1, SMTT(20)
    <3>3. c[k] = SubSeq(C[k], 1, r)
      <4> DEFINE s == C[k]
      <4>1. p = s[1] /\ s \in Seq(Wanted) /\ 1 \in 1..Len(s)
        BY <1>3, <1>11, <1>19
      <4> HIDE DEF s
      <4>2. <<s[1]>> = SubSeq(s, 1, 1)
        BY <4>1
      <4> QED
        BY <1>19, <3>2, <4>1, <4>2 DEF s
    <3>4. \A j \in 1..k0 : cs[j] = C[j]
      <4>1. cs[k0] = C[k0]
        <5> DEFINE s == C[k0]
        <5>1. s \in Seq(Wanted) /\ cs[k0] = SubSeq(s, 1, Len(s))
          BY <1>f, <1>11, <1>13, <1>19
        <5> HIDE DEF s
        <5>2. SubSeq(s, 1, Len(s)) = s
          BY <5>1
        <5> QED
          BY <5>1, <5>2 DEF s
      <4>2. \A j \in 1..k0 : j = k0 \/ j \in 1..(k0 - 1)
        BY <1>11
      <4> QED
        BY <1>f, <4>1, <4>2
    <3> QED
      BY <1>3, <1>d, <1>e, <2>1, <3>2, <3>3, <3>4
  <2> QED
    BY <1>14, <2>3, <2>5 DEF t, p
<1> QED
  BY <1>11, <1>18, <1>19

\* The first pane alone is in its place.
LEMMA BuiltFirst ==
  ASSUME call \in Calls, NEW cs, Lays(cs, {First})
  PROVE  Built(cs, 1)
<1> DEFINE s == call.columns[1]
<1>1. cs = << <<First>> >>
  BY LaysSingle
<1>2. /\ 1 \in 1..Len(call.columns) /\ 1 \in 1..Len(s)
      /\ First = s[1]
  BY OrderEnds
<1>3. s \in Seq(Wanted)
  BY <1>2, CallLaid, LaysTypes
<1> HIDE DEF s
<1>4. SubSeq(s, 1, 1) = <<s[1]>>
  <2>1. 1 \in 1..Len(s) /\ Len(s) \in Nat
    BY <1>2, <1>3
  <2>2. Len(SubSeq(s, 1, 1)) = 1 /\ SubSeq(s, 1, 1)[1] = s[1]
    BY <1>3, <2>1
  <2>3. SubSeq(s, 1, 1) \in Seq(Wanted)
    BY <1>3, <2>1
  <2>4. \A x \in Seq(Wanted) : Len(x) = 1 => x = <<x[1]>>
    OBVIOUS
  <2> QED
    BY <2>2, <2>3, <2>4
<1>5. BuiltTo(cs, 1, 1)
  <2>1. cs[1] = SubSeq(s, 1, 1)
    BY <1>1, <1>2, <1>4
  <2>2. Len(cs) = 1 /\ 1..(1 - 1) = {}
    BY <1>1
  <2> QED
    BY <2>1, <2>2 DEF BuiltTo, s
<1> QED
  BY <1>2, <1>5 DEF Built, First, s

\* The last pane completes the columns.
LEMMA BuiltLast ==
  ASSUME call \in Calls, NEW cs, NEW P, Lays(cs, P), Built(cs, Len(Desired))
  PROVE  P = Wanted /\ Order(cs) = Desired
<1> DEFINE C == call.columns
           n == Len(C)
<1>1. /\ Lays(C, Wanted) /\ C \in Seq(Seq(Wanted)) /\ n \in Nat
      /\ \A j \in 1..n : C[j] \in Seq(Wanted) /\ Len(C[j]) \in Nat \ {0}
  BY CallLaid, LaysTypes
<1>2. PICK k \in 1..n : \E q \in 1..Len(C[k]) :
        Desired[Len(Desired)] = C[k][q] /\ BuiltTo(cs, k, q)
  BY DEF Built
<1>3. PICK r \in 1..Len(C[k]) : Desired[Len(Desired)] = C[k][r] /\ BuiltTo(cs, k, r)
  BY <1>2
<1>4. Len(cs) = k /\ cs[k] = SubSeq(C[k], 1, r) /\ \A j \in 1..(k - 1) : cs[j] = C[j]
  BY <1>3 DEF BuiltTo
<1>5. Desired[Len(Desired)] = C[n][Len(C[n])] /\ n >= 1
  BY <1>1, OrderEnds
<1>6. \A j, l \in 1..n : \A q \in 1..Len(C[j]), u \in 1..Len(C[l]) :
        C[j][q] = C[l][u] => j = l /\ q = u
  BY <1>1, LaysPlaces
<1>c. cs \in Seq(Seq(P))
  BY LaysTypes
<1> HIDE DEF C, n
<1>7. k = n /\ r = Len(C[n])
  <2>1. n \in 1..n /\ Len(C[n]) \in 1..Len(C[n])
    <3>1. n \in 1..n
      BY <1>1, <1>5
    <3>2. Len(C[n]) \in Nat \ {0}
      BY <1>1, <3>1
    <3> QED
      BY <3>1, <3>2
  <2>2. C[k][r] = C[n][Len(C[n])]
    BY <1>3, <1>5
  <2> QED
    BY <1>6, <2>1, <2>2
<1>8. cs[n] = C[n]
  <2> DEFINE s == C[n]
  <2>1. s \in Seq(Wanted) /\ cs[n] = SubSeq(s, 1, Len(s))
    BY <1>1, <1>4, <1>7
  <2> HIDE DEF s
  <2>2. SubSeq(s, 1, Len(s)) = s
    BY <2>1
  <2> QED
    BY <2>1, <2>2 DEF s
<1>9. cs = C
  <2>1. \A j \in 1..n : j = n \/ j \in 1..(n - 1)
    BY <1>1
  <2>2. \A j \in 1..n : cs[j] = C[j]
    BY <1>4, <1>7, <1>8, <2>1
  <2>3. Len(cs) = n /\ Len(C) = n
    BY <1>4, <1>7 DEF n
  <2>4. DOMAIN cs = 1..n /\ DOMAIN C = 1..n /\ cs = [j \in DOMAIN cs |-> cs[j]] /\ C = [j \in DOMAIN C |-> C[j]]
    BY <1>1, <1>c, <2>3
  <2> QED
    BY <2>2, <2>4
<1>10. P = PanesOf(cs) /\ Wanted = PanesOf(C)
  <2>1. Lays(cs, P) /\ Lays(C, Wanted)
    BY <1>1
  <2> QED
    BY <2>1, LaysGeometry
<1> QED
  BY <1>9, <1>10 DEF Desired, C

-----------------------------------------------------------------------------

\* Once ATTACH is through, every wanted pane is in Target and stays there.
LEMMA AllInInductive ==
  ASSUME IInv, Settling, [Next]_vars
  PROVE  AllIn'
<1> SUFFICES ASSUME Calm', Complete', NEW p \in Wanted
             PROVE  p \in Pane /\ server'.loc[p] = Target
  BY CallStays DEF AllIn, InWindow
<1>a. /\ Calm /\ ~PaneDies
      /\ server \in Server /\ call \in Calls /\ next \in Nat
      /\ Wanted \subseteq Pane /\ Len(Desired) \in Nat
  BY CalmBefore, CallFacts DEF IInv, TypeOK
<1>1. CASE AttachDone
  <2>1. UNCHANGED server /\ pc = "attach" /\ next > Len(Desired)
    BY <1>1 DEF AttachDone, tmuxVars
  <2>2. PICK i \in 1..Len(Desired) : Desired[i] = p
    BY <1>a, CallLaid DEF Lists
  <2>3. server.loc[Desired[i]] = Target
    BY <1>a, <2>1, <2>2 DEF Settling, Attached
  <2> QED
    BY <1>a, <2>1, <2>2, <2>3
<1>2. CASE RejoinDone
  <2> DEFINE P == InWindow(server, Target)
  <2>1. UNCHANGED server /\ pc = "rejoin" /\ next > Len(Desired)
    BY <1>2 DEF RejoinDone, tmuxVars
  <2>2. next - 1 \in 1..Len(Desired) /\ Built(cols, next - 1) /\ Lays(cols, P)
    BY <1>a, <2>1 DEF Settling, Rejoining, IInv, Geometry
  <2>3. next - 1 = Len(Desired)
    BY <1>a, <2>1, <2>2
  <2> HIDE DEF P
  <2>4. P = Wanted
    BY <1>a, <2>2, <2>3, BuiltLast
  <2> QED
    BY <1>a, <2>1, <2>4 DEF P, InWindow
<1>3. CASE Complete
  <2>1. server.loc[p] = Target
    BY <1>a, <1>3 DEF Settling, AllIn, InWindow
  <2>2. pc \notin AttachSteps \union {"swap"}
    BY <1>3, LaterSteps
  <2>3. ~(StashPane /\ p = moving)
    BY DEF StashPane, IInv, StashReady
  <2>4. Stays(p)
    BY <1>a, <2>2, <2>3, WhoMoves DEF Swap
  <2> QED
    BY <1>a, <2>1, <2>4 DEF Stays
<1> QED
  BY <1>1, <1>2, <1>3, CompleteFrom

\* The unwanted panes of Target that DETACH does not leave to their work are
\* those it has still to visit.
LEMMA DetachInductive ==
  ASSUME IInv, Settling, [Next]_vars
  PROVE  Detaching'
<1> SUFFICES ASSUME Quiet', pc' \in {"detach", "stash"},
                    NEW q \in Pane, server'.loc[q] = Target, q \notin Wanted,
                    q \notin busy' \union used'.freed
             PROVE  q \in left' \/ (pc' = "stash" /\ q = moving')
  BY CallStays DEF Detaching, InWindow
<1>a. /\ Quiet /\ ~PaneDies /\ ~CountFail /\ ~Scatters
      /\ server \in Server /\ server' \in Server
      /\ Wanted \subseteq Pane /\ First \in Wanted
      /\ q \notin busy /\ q \notin used.freed
  BY QuietBefore, TypeInductive, FreedKept, CallFacts DEF IInv, TypeOK
<1>b. ASSUME pc \in {"detach", "stash"}, server.loc[q] = Target
      PROVE  q \in left \/ (pc = "stash" /\ q = moving)
  BY <1>a, <1>b DEF Settling, Detaching, InWindow
<1>1. CASE DetachList
  BY <1>1 DEF DetachList, tmuxVars, InWindow
<1>2. CASE DetachSkip
  <2>1. PICK p \in left : ~Detachable(p) /\ left' = left \ {p}
    BY <1>2 DEF DetachSkip
  <2>2. UNCHANGED server /\ pc = "detach"
    BY <1>2 DEF DetachSkip, tmuxVars
  <2>3. First \in InWindow(server, Target)
    BY <1>a, <2>2 DEF Settling, AllIn, Complete, Quiet
  <2>4. q \in InWindow(server, Target) /\ q # First
    BY <1>a, <2>2 DEF InWindow
  <2>5. Detachable(q)
    BY <1>a, <2>3, <2>4 DEF Detachable
  <2> QED
    BY <1>b, <2>1, <2>2, <2>5
<1>3. CASE DetachDecide
  BY <1>3, <1>b DEF DetachDecide, tmuxVars, Goto
<1>4. CASE StashPane
  <2>1. /\ Stashed(server', moving) \/ server'.loc[moving] # Target
        /\ Keeps(server, server', {moving})
    BY <1>4, StashMoves DEF IInv
  <2>2. q # moving
    BY <1>b, <2>1 DEF Quiet, Stashed
  <2>3. pc = "stash" /\ left' = left
    BY <1>4 DEF StashPane
  <2> QED
    BY <1>b, <2>1, <2>2, <2>3 DEF Keeps
<1>5. CASE StashPaneFails
  <2>1. pc = "stash" /\ left' = left /\ ~Alive(server, moving)
    BY <1>5, <1>a DEF StashPaneFails, StashRefuses
  <2>2. server'.loc = server.loc
    BY <1>5, StillMoves DEF IInv
  <2>3. q # moving
    BY <2>1, <2>2, ServerAssumption DEF Alive
  <2> QED
    BY <1>b, <2>1, <2>2, <2>3
<1>6. CASE ~(DetachList \/ DetachSkip \/ DetachDecide \/ StashPane \/ StashPaneFails)
  <2>1. pc \in {"detach", "stash"} /\ pc' = pc /\ left' = left /\ moving' = moving
    BY <1>6, <1>a DEF IInv, PathKept, SelectSteps, Next, Step, Select, Detach, Environment, vars, callVars, tmuxVars,
       Goto, Return, Snapshot, Plan, SwapSkipped, Swap, AttachFirst, Attach, AttachDone, SelectCheck,
       SelectActivate, SelectInPlace, SelectGuard,
       DetachDone, Reorder, Break, BreakDone, Rejoin, RejoinDone, Verify, Restore, CallAgain,
       OperatorSelects, PaneFrees
  <2>2. server'.loc = server.loc
    BY <1>6, <1>a, <2>1, Undisturbed DEF IInv, Swap, AttachFirst, Attach, Break, Rejoin
  <2> QED
    BY <1>b, <2>1, <2>2
<1> QED
  BY <1>1, <1>2, <1>3, <1>4, <1>5, <1>6

\* After DETACH no pane enters Target but wanted ones.
LEMMA DetachedInductive ==
  ASSUME IInv, Settling, [Next]_vars
  PROVE  Detached'
<1> SUFFICES ASSUME Quiet', Ordered' \/ pc' \in {"reorder", "break", "rejoin"},
                    NEW q \in Pane, server'.loc[q] = Target, q \notin Wanted,
                    q \notin busy' \union used'.freed
             PROVE  FALSE
  BY CallStays DEF Detached, InWindow
<1>a. Quiet /\ ~PaneDies /\ q \notin busy /\ q \notin used.freed
  BY QuietBefore, FreedKept
<1>1. CASE DetachDone
  <2>1. left = {} /\ pc = "detach"
    BY <1>1 DEF DetachDone, DetachEnds
  <2>2. server'.loc = server.loc
    BY <1>1, StillMoves DEF IInv
  <2> QED
    BY <1>a, <2>1, <2>2 DEF Settling, Detaching, InWindow
<1>2. CASE ~DetachDone
  <2>1. Ordered \/ pc \in {"reorder", "break", "rejoin"}
    <3>1. CASE Ordered'
      BY <3>1, OrderedFrom DEF Reorder, RejoinDone
    <3>2. CASE pc' \in {"reorder", "break", "rejoin"}
      BY <1>2, <3>2 DEF IInv, PathKept, SelectSteps, Next, Step, Select, Detach, Environment, vars, callVars,
         selVars, Goto, Return, Snapshot, Plan, SwapSkipped, Swap, AttachFirst, Attach, AttachDone,
         SelectCheck, SelectActivate, SelectInPlace, SelectGuard, DetachList, DetachSkip, DetachDecide,
         StashPane, StashPaneFails, Reorder, Break, BreakDone, Rejoin, RejoinDone, Verify,
         Restore, CallAgain, PaneDies, OperatorSelects, PaneFrees
    <3> QED
      BY <3>1, <3>2
  <2>2. pc \notin {"swap", "stash"}
    BY <2>1, LaterSteps
  <2>3. Stays(q)
    BY <1>a, <2>2, WhoMoves DEF Swap, StashPane
  <2> QED
    BY <1>a, <2>1, <2>3 DEF Settling, Detached, Stays, InWindow
<1> QED
  BY <1>1, <1>2

\* Breaking takes the panes out one by one and brings none in.
LEMMA BreakInductive ==
  ASSUME IInv, Settling, [Next]_vars
  PROVE  Breaking'
<1> SUFFICES ASSUME Calm', pc' = "break"
             PROVE  /\ InWindow(server', Target) \subseteq Wanted
                    /\ \A i \in 2..Len(Desired) : i < next' => server'.loc[Desired[i]] # Target
  BY CallStays DEF Breaking
<1>a. /\ Calm /\ ~PaneDies /\ ~CountFail /\ ~Scatters
      /\ server \in Server /\ call \in Calls /\ next \in Nat
      /\ Wanted \subseteq Pane
      /\ Len(Desired) \in Nat /\ \A j \in 1..Len(Desired) : Desired[j] \in Wanted
  BY CalmBefore, CallFacts DEF IInv, TypeOK
<1>b. ASSUME pc = "break"
      PROVE  /\ InWindow(server, Target) \subseteq Wanted
             /\ \A i \in 2..Len(Desired) : i < next => server.loc[Desired[i]] # Target
  BY <1>a, <1>b DEF Settling, Breaking
<1>1. CASE Reorder
  <2>1. UNCHANGED server /\ InWindow(server, Target) = Wanted /\ next' = 2
    BY <1>1 DEF Reorder, Goto, tmuxVars
  <2>2. \A i \in 2..Len(Desired) : ~(i < 2)
    BY <1>a
  <2> QED
    BY <2>1, <2>2
<1>2. CASE Break
  <2> DEFINE p == Desired[next]
  <2>1. pc = "break" /\ next <= Len(Desired) /\ next' = next + 1 /\ p \in Wanted
    BY <1>2, NextPane DEF Break
  <2>2. Alive(server, p)
    BY <1>a, <2>1 DEF Calm
  <2>3. server' \in Broken(server, p)
    BY <1>2, <1>a, <2>2 DEF Break
  <2>4. server'.loc[p] # Target /\ Keeps(server, server', {p})
    BY <1>a, <2>1, <2>3, BrokenEffect
  <2>5. InWindow(server', Target) \subseteq InWindow(server, Target)
    BY <2>4 DEF Keeps, InWindow
  <2>6. ASSUME NEW i \in 2..Len(Desired), i < next'
        PROVE  server'.loc[Desired[i]] # Target
    <3>1. i < next \/ i = next
      BY <1>a, <2>1, <2>6
    <3>2. Desired[i] \in Pane
      <4>1. i \in 1..Len(Desired)
        BY <1>a
      <4> QED
        BY <1>a, <4>1
    <3> QED
      BY <1>b, <2>1, <2>4, <3>1, <3>2 DEF Keeps
  <2> QED
    BY <1>b, <2>1, <2>5, <2>6
<1>3. CASE ~Reorder /\ ~Break
  <2>1. pc = "break" /\ next' = next /\ UNCHANGED cols
    BY <1>3, <1>a DEF IInv, PathKept, SelectSteps, Next, Step, Select, Detach, Environment, vars, callVars, tmuxVars,
       Goto, Return, Snapshot, Plan, SwapSkipped, Swap, AttachFirst, Attach, AttachDone, SelectCheck,
       SelectActivate, SelectInPlace, SelectGuard, DetachList, DetachSkip, DetachDecide, StashPane,
       StashPaneFails, DetachDone, BreakDone, Rejoin, RejoinDone, Verify, Restore, CallAgain,
       OperatorSelects, PaneFrees
  <2>2. server'.loc = server.loc
    BY <1>3, <1>a, <2>1, Undisturbed DEF IInv, Swap, StashPane, AttachFirst, Attach, Rejoin
  <2> QED
    BY <1>b, <2>1, <2>2 DEF InWindow
<1> QED
  BY <1>1, <1>2, <1>3

\* Rejoining puts the panes in their places in the order of the call.
LEMMA RejoinInductive ==
  ASSUME IInv, Settling, [Next]_vars
  PROVE  Rejoining'
<1> SUFFICES ASSUME Calm', pc' = "rejoin"
             PROVE  next' - 1 \in 1..Len(Desired) /\ Built(cols', next' - 1)
  <2>1. Built(cols, next - 1)' <=> Built(cols', next' - 1)
    BY CallStays DEF Built, BuiltTo
  <2> QED
    BY <2>1, CallStays DEF Rejoining
<1>a. /\ Calm /\ ~PaneDies /\ ~CountFail /\ ~Scatters
      /\ server \in Server /\ call \in Calls /\ next \in Nat
      /\ Wanted \subseteq Pane /\ First \in Wanted
      /\ Len(Desired) \in Nat /\ \A j \in 1..Len(Desired) : Desired[j] \in Wanted
      /\ Lays(cols, InWindow(server, Target))
  BY CalmBefore, CallFacts DEF IInv, TypeOK, Geometry
<1>b. pc = "rejoin" => next - 1 \in 1..Len(Desired) /\ Built(cols, next - 1)
  BY <1>a DEF Settling, Rejoining
<1>1. CASE BreakDone
  <2>1. pc = "break" /\ next > Len(Desired) /\ next' = 2 /\ UNCHANGED cols
    BY <1>1 DEF BreakDone, tmuxVars
  <2>2. InWindow(server, Target) = {First}
    <3>1. First \in InWindow(server, Target)
      BY <1>a, <2>1 DEF Calm, IInv, FirstStays, InWindow
    <3>2. ASSUME NEW q \in InWindow(server, Target) PROVE q = First
      <4>1. q \in Wanted
        BY <1>a, <2>1, <3>2 DEF Settling, Breaking
      <4>2. PICK i \in 1..Len(Desired) : Desired[i] = q
        BY <1>a, <4>1, CallLaid DEF Lists
      <4>3. i \notin 2..Len(Desired)
        BY <1>a, <2>1, <3>2, <4>2 DEF Settling, Breaking, InWindow
      <4>4. i = 1
        BY <1>a, <4>3
      <4> QED
        BY <4>2, <4>4 DEF First
    <3> QED
      BY <3>1, <3>2
  <2>3. Built(cols, 1)
    BY <1>a, <2>2, BuiltFirst
  <2>4. 1 \in 1..Len(Desired)
    BY <1>a, OrderEnds
  <2>5. next' - 1 = 1
    BY <2>1
  <2> QED
    BY <2>1, <2>3, <2>4, <2>5
<1>2. CASE Rejoin
  <2> DEFINE p == Desired[next]
             t == JoinTarget(p)
             P == InWindow(server, Target)
  <2>1. pc = "rejoin" /\ next <= Len(Desired) /\ next' = next + 1 /\ next >= 2
    BY <1>2 DEF Rejoin, IInv, NextReady
  <2>2. next \in 2..Len(Desired) /\ p \in Wanted
    BY <1>a, <2>1
  <2>3. /\ p \notin P /\ t.pane \in P
        /\ \A c \in Joins(cols, p, t.pane, t.flag) : Built(c, next)
    BY <1>a, <1>b, <2>1, <2>2, BuiltNext
  <2>4. JoinTo(p, t.pane, t.flag) \/ JoinFails(p, t.pane)
    BY <1>2, <2>3 DEF Rejoin
  <2> HIDE DEF t, p
  <2>5. JoinTo(p, t.pane, t.flag)
    BY <1>a, <2>2, <2>3, <2>4, CalmJoin
  <2>6. cols' \in Joins(cols, p, t.pane, t.flag)
    BY <2>3, <2>5 DEF JoinTo, InWindow
  <2>7. Built(cols', next)
    BY <2>3, <2>6
  <2>8. next' - 1 = next /\ next \in 1..Len(Desired)
    BY <1>a, <2>1
  <2> QED
    BY <2>7, <2>8
<1>3. CASE ~BreakDone /\ ~Rejoin
  <2>1. pc = "rejoin" /\ next' = next
    BY <1>3, <1>a DEF IInv, PathKept, SelectSteps, Next, Step, Select, Detach, Environment, vars, callVars, tmuxVars,
       Goto, Return, Snapshot, Plan, SwapSkipped, Swap, AttachFirst, Attach, AttachDone, SelectCheck,
       SelectActivate, SelectInPlace, SelectGuard, DetachList, DetachSkip, DetachDecide, StashPane,
       StashPaneFails, DetachDone, Reorder, Break, RejoinDone, Verify, Restore, CallAgain,
       OperatorSelects, PaneFrees
  <2>2. cols' = cols
    BY <1>3, <1>a, <2>1, Undisturbed DEF IInv, Swap, StashPane, AttachFirst, Attach, Break
  <2> QED
    BY <1>b, <2>1, <2>2
<1> QED
  BY <1>1, <1>2, <1>3

\* After REORDER the panes are in the desired order and nothing moves any more.
LEMMA OrderInductive ==
  ASSUME IInv, Settling, [Next]_vars
  PROVE  InOrder'
<1> SUFFICES ASSUME Calm', Ordered', InWindow(server', Target) = Wanted
             PROVE  Order(cols') = Desired
  BY CallStays DEF InOrder
<1>a. /\ Calm /\ ~PaneDies
      /\ call \in Calls /\ next \in Nat /\ Len(Desired) \in Nat
      /\ Lays(cols, InWindow(server, Target))
  BY CalmBefore, CallFacts DEF IInv, TypeOK, Geometry
<1>1. CASE Reorder
  BY <1>1 DEF Reorder, tmuxVars, Goto, Ordered, SelectSteps, IInv, PathKept
<1>2. CASE RejoinDone
  <2>1. UNCHANGED cols /\ pc = "rejoin" /\ next > Len(Desired)
    BY <1>2 DEF RejoinDone, tmuxVars
  <2>2. next - 1 \in 1..Len(Desired) /\ Built(cols, next - 1)
    BY <1>a, <2>1 DEF Settling, Rejoining
  <2>3. next - 1 = Len(Desired)
    BY <1>a, <2>1, <2>2
  <2>4. Order(cols) = Desired
    BY <1>a, <2>2, <2>3, BuiltLast
  <2> QED
    BY <2>1, <2>4
<1>3. CASE Ordered
  <2>1. pc \notin AttachSteps \union {"swap", "stash"}
    BY <1>3, LaterSteps
  <2>2. server'.loc = server.loc /\ cols' = cols
    BY <1>a, <2>1, Undisturbed DEF IInv, Swap, StashPane, AttachFirst, Attach, Break, Rejoin, AttachSteps
  <2> QED
    BY <1>a, <1>3, <2>2 DEF Settling, InOrder, InWindow
<1> QED
  BY <1>1, <1>2, <1>3, OrderedFrom

\* A call that has returned early moves nothing.
LEMMA ReturnedInductive ==
  ASSUME IInv, Settling, [Next]_vars
  PROVE  Returned'
<1> SUFFICES ASSUME Calm', path' \in {"fast", "deferred"}
             PROVE  /\ path' = "fast" => Wanted' \subseteq InWindow(server', Target)
                    /\ path' = "deferred" => ~(InWindow(server', Target) \subseteq Wanted')
  BY DEF Returned
<1>a. /\ Calm /\ ~PaneDies /\ Wanted' = Wanted
      /\ TypeOK /\ PathKept /\ Returned
  BY CalmBefore, CallStays DEF IInv, Settling
<1>1. CASE Snapshot
  <2>1. CASE path' = "fast" /\ Order(cols) = Desired
    <3>1. Lists(Desired, InWindow(server, Target)) /\ Lists(Desired, Wanted)
      BY <1>a, <2>1, LaysOrder, CallLaid DEF IInv, Geometry, TypeOK
    <3>2. Wanted \subseteq InWindow(server, Target)
      <4> DEFINE P == InWindow(server, Target)
      <4> HIDE DEF P
      <4> QED
        BY <3>1 DEF Lists, P
    <3> QED
      BY <1>1, <1>a, <2>1, <3>2 DEF Snapshot, tmuxVars
  <2> QED
    BY <1>1, <1>a, <2>1 DEF Snapshot, Return, Goto, PathKept, SelectSteps
<1>2. CASE Plan
  <2>1. path' = "deferred" /\ UNCHANGED server /\ IsSingleton(InWindow(server, Target) \ Wanted)
    BY <1>2, <1>a DEF Plan, Return, Goto, PathKept, SelectSteps, tmuxVars
  <2> QED
    BY <1>a, <2>1 DEF IsSingleton
<1>3. CASE ~(Snapshot \/ Plan)
  <2>1. path' = path
    BY <1>3, PlanKept DEF CallAgain
  <2>2. pc = "done"
    BY <2>1, <1>a DEF PathKept, SelectSteps
  <2>3. server'.loc = server.loc
    BY <1>a, <2>2, Undisturbed DEF Swap, StashPane, AttachFirst, Attach, Break, Rejoin
  <2> QED
    BY <1>a, <2>1, <2>3 DEF Returned, InWindow
<1> QED
  BY <1>1, <1>2, <1>3

\* What a call that is not disturbed has achieved, it keeps.
LEMMA SettlingInductive ==
  ASSUME IInv, Settling, [Next]_vars
  PROVE  Settling'
BY AttachInductive, AllInInductive, DetachInductive, DetachedInductive, BreakInductive,
   RejoinInductive, OrderInductive, ReturnedInductive DEF Settling

\* Both invariants hold at every moment of every call.
LEMMA SettlingAlways == Spec => [](IInv /\ Settling)
<1>1. Init => IInv /\ Settling
  BY Initial DEF Init, Settling, Attached, AllIn, Detaching, Detached, Breaking, Rejoining, InOrder,
     Ordered, Complete, SelectSteps, Returned
<1>2. (IInv /\ Settling) /\ [Next]_vars => (IInv /\ Settling)'
  BY Inductive, SettlingInductive
<1> QED
  BY <1>1, <1>2, PTL DEF Spec

\* What has been achieved when the call returns.
LEMMA RunSettled ==
  ASSUME IInv, Settling
  PROVE  FullRunSettles
<1> SUFFICES ASSUME pc = "done", path \in {"swapped", "full"}, Calm
             PROVE  /\ Wanted \subseteq InWindow(server, Target)
                    /\ ~IsStash(server, Target)
                         => InWindow(server, Target) \ Wanted \subseteq busy \union used.freed
                    /\ path = "full" /\ InWindow(server, Target) = Wanted => Order(cols) = Desired
  BY DEF FullRunSettles
<1>1. CASE path = "full"
  BY <1>1 DEF Settling, AllIn, Detached, InOrder, Complete, Ordered, Quiet
<1>2. CASE path = "swapped"
  <2>1. \A p \in Pane : Alive(server, p) => (server.loc[p] = Target <=> p \in Wanted)
    BY <1>2 DEF IInv, SwapDone
  <2>2. Wanted \subseteq InWindow(server, Target)
    BY <2>1 DEF Calm, InWindow, Alive
  <2>3. InWindow(server, Target) \subseteq Wanted
    BY <2>1, ServerAssumption DEF InWindow, Alive
  <2> QED
    BY <1>2, <2>2, <2>3
<1> QED
  BY <1>1, <1>2

\* A call in which nothing goes wrong leaves the wanted panes in Target, next to
\* none but panes that were busy, and when there are none of those it has put
\* them in the desired order, whatever the geometry it found.
THEOREM RunsSettle == Spec => []FullRunSettles
BY RunSettled, SettlingAlways, PTL

-----------------------------------------------------------------------------
(* What is on view.  Every window shows one of its panes, and moving panes *)
(* about does not bring a stash window to the front.                       *)

\* u is consistent and, when the current window of s still exists and is no
\* stash window, it is the current one of u and still none.
Shows(s, u) ==
  /\ Consistent(u)
  /\ s.cur \notin s.stash /\ s.cur \in Live(u.loc, u.shells) => u.cur = s.cur /\ u.cur \notin u.stash

\* What tmux does on its own after a move makes the windows consistent and
\* turns to another window only when the current one has closed.
LEMMA SettledShows ==
  ASSUME NEW loc \in [Pane -> Window \union {Gone}],
         NEW stash \in SUBSET Window,
         NEW shells \in SUBSET Window,
         NEW sel \in [Window -> Pane \union {Shell}],
         NEW cur \in Window \ Foreign,
         NEW u \in Settled(loc, stash, shells, sel, cur)
  PROVE  /\ Consistent(u)
         /\ u.shells = shells
         /\ cur \in Live(u.loc, u.shells) => u.cur = cur
         /\ u.stash \subseteq stash
<1> DEFINE occ(w) == Occupants(loc, shells, w)
<1> DEFINE selection(w, heir) ==
        IF occ(w) = {} THEN Shell
        ELSE IF sel[w] \in occ(w) THEN sel[w]
        ELSE IF heir \in occ(w) THEN heir
        ELSE CHOOSE q \in occ(w) : TRUE
<1> DEFINE result(heir, c) ==
        [loc |-> loc, stash |-> stash \intersect Live(loc, shells), shells |-> shells,
         sel |-> [w \in Window |-> selection(w, heir)], cur |-> c]
<1> DEFINE currents == IF occ(cur) # {} THEN {cur} ELSE Live(loc, shells) \ Foreign
<1>0. Settled(loc, stash, shells, sel, cur) =
        {result(heir, c) : heir \in Pane \union {Shell}, c \in currents}
  BY DEF Settled
<1>1. PICK heir \in Pane \union {Shell}, c \in currents : u = result(heir, c)
  <2> HIDE DEF result, currents
  <2> QED
    BY <1>0
<1>2. \A w : w \in Live(loc, shells) <=> w \in Window /\ occ(w) # {}
  BY DEF Live
<1>3. ASSUME NEW w \in Window, occ(w) # {}
      PROVE  selection(w, heir) \in occ(w)
  <2>1. (CHOOSE q \in occ(w) : TRUE) \in occ(w)
    BY <1>3
  <2> QED
    BY <1>3, <2>1
<1>4. c \in Live(loc, shells) /\ (occ(cur) # {} => c = cur)
  BY <1>2
<1> HIDE DEF occ, selection, currents
<1>5. /\ u.loc = loc /\ u.shells = shells /\ u.cur = c
      /\ u.stash = stash \intersect Live(loc, shells)
      /\ u.sel = [w \in Window |-> selection(w, heir)]
  BY <1>1
<1>6. \A w \in Live(loc, shells) : u.sel[w] \in occ(w)
  BY <1>2, <1>3, <1>5
<1>7. Consistent(u)
  BY <1>4, <1>5, <1>6 DEF Consistent, occ
<1> QED
  BY <1>2, <1>4, <1>5, <1>7

\* The same for a move that renames no window.
LEMMA MovedToShows ==
  ASSUME NEW s \in Server, NEW p \in Pane, NEW w \in Window, NEW u \in MovedTo(s, p, w)
  PROVE  Shows(s, u) /\ u.shells = s.shells
<1> DEFINE loc == [s.loc EXCEPT ![p] = w]
<1>1. /\ loc \in [Pane -> Window \union {Gone}]
      /\ s.stash \in SUBSET Window /\ s.shells \in SUBSET Window
      /\ s.sel \in [Window -> Pane \union {Shell}]
      /\ s.cur \in Window \ Foreign
      /\ u \in Settled(loc, s.stash, s.shells, s.sel, s.cur)
  BY DEF Server, MovedTo
<1> HIDE DEF loc
<1> QED
  BY <1>1, SettledShows DEF Shows

\* A pane that dies.
LEMMA DiedShows ==
  ASSUME NEW s \in Server, NEW p \in Pane, NEW u \in Died(s, p)
  PROVE  Shows(s, u) /\ u.shells = s.shells /\ u.stash \subseteq s.stash
<1> DEFINE loc == [s.loc EXCEPT ![p] = Gone]
<1>1. /\ loc \in [Pane -> Window \union {Gone}]
      /\ s.stash \in SUBSET Window /\ s.shells \in SUBSET Window
      /\ s.sel \in [Window -> Pane \union {Shell}]
      /\ s.cur \in Window \ Foreign
      /\ u \in Settled(loc, s.stash, s.shells, s.sel, s.cur)
  BY DEF Server, Died
<1> HIDE DEF loc
<1> QED
  BY <1>1, SettledShows DEF Shows

\* A join and a break.
LEMMA JoinedShows ==
  ASSUME NEW s \in Server, NEW p, NEW t, NEW u \in Joined(s, p, t)
  PROVE  Shows(s, u)
<1>1. p \in Pane /\ s.loc[t] \in Window /\ u \in MovedTo(s, p, s.loc[t])
  BY DEF Joined, Alive, Server
<1> QED
  BY <1>1, MovedToShows

\* break_pane shows no stash window, and leaves every window one of its panes.
LEMMA BrokenShows ==
  ASSUME NEW s \in Server, NEW p, NEW u \in Broken(s, p)
  PROVE  Shows(s, u)
<1>1. p \in Pane /\ \E w \in FreshWindow(s) : u \in MovedTo(s, p, w)
  BY DEF Broken, Alive
<1>2. \A w \in FreshWindow(s) : w \in Window
  BY DEF FreshWindow
<1> QED
  BY <1>1, <1>2, MovedToShows

\* A window that is made is not the current one, which has a pane.
LEMMA FreshIsNotCurrent ==
  ASSUME NEW s, Consistent(s), NEW w \in FreshWindow(s)
  PROVE  w \in Window /\ w # s.cur /\ Occupants(s.loc, s.shells, w) = {}
BY DEF FreshWindow, Consistent, Live

\* A new stash window shows its shell and stays in the background.
LEMMA WithStashShows ==
  ASSUME NEW s \in Server, Consistent(s), NEW u \in WithStash(s)
  PROVE  Shows(s, u) /\ (s.cur \notin s.stash => u.cur \notin u.stash)
<1>1. CASE u = s
  BY <1>1 DEF Shows
<1>2. ASSUME NEW w \in FreshWindow(s),
             u = [s EXCEPT !.stash = @ \union {w}, !.shells = @ \union {w},
                           !.sel = [@ EXCEPT ![w] = Shell]]
      PROVE  Shows(s, u) /\ (s.cur \notin s.stash => u.cur \notin u.stash)
  <2>1. w \in Window /\ w # s.cur /\ Occupants(s.loc, s.shells, w) = {}
    BY FreshIsNotCurrent
  <2>2. /\ u.loc = s.loc /\ u.cur = s.cur /\ u.stash = s.stash \union {w}
        /\ u.shells = s.shells \union {w} /\ u.sel = [s.sel EXCEPT ![w] = Shell]
    BY <1>2 DEF Server
  <2>3. /\ \A v : v # w => Occupants(u.loc, u.shells, v) = Occupants(s.loc, s.shells, v)
        /\ Shell \in Occupants(u.loc, u.shells, w)
    BY <2>2 DEF Occupants
  <2>4. \A v : v \in Live(s.loc, s.shells) \/ v = w <=> v \in Live(u.loc, u.shells)
    BY <2>1, <2>3 DEF Live
  <2>5. u.sel[w] = Shell /\ \A v \in Window : v # w => u.sel[v] = s.sel[v]
    BY <2>1, <2>2 DEF Server
  <2>6. Consistent(u)
    <3>1. \A v \in Live(u.loc, u.shells) : u.sel[v] \in Occupants(u.loc, u.shells, v)
      BY <2>3, <2>4, <2>5 DEF Consistent, Live
    <3> QED
      BY <2>2, <2>4, <3>1 DEF Consistent
  <2> QED
    BY <2>1, <2>2, <2>6 DEF Shows
<1> QED
  BY <1>1, <1>2 DEF WithStash

\* Stashing a pane by a join ...
LEMMA JoinedStashShows ==
  ASSUME NEW s \in Server, Consistent(s), NEW p \in Pane, NEW u \in JoinedStash(s, p)
  PROVE  Shows(s, u)
<1>1. PICK v \in WithStash(s) : \E w \in SessionStash(v) : u \in MovedTo(v, p, w)
  BY DEF JoinedStash
<1>2. v \in Server /\ v.cur = s.cur /\ (s.cur \notin s.stash => v.cur \notin v.stash)
  BY <1>1, WithStashEffect, WithStashShows
<1>3. PICK w \in Window : u \in MovedTo(v, p, w)
  BY <1>1, <1>2 DEF SessionStash, Server
<1>4. Shows(v, u)
  BY <1>2, <1>3, MovedToShows
<1> QED
  BY <1>2, <1>4 DEF Shows

\* ... or by breaking it out.
LEMMA BrokenToStashShows ==
  ASSUME NEW s \in Server, Consistent(s), NEW p \in Pane, NEW u \in BrokenToStash(s, p)
  PROVE  Shows(s, u)
<1>1. PICK v \in WithStash(s) : \E w \in FreshWindow(v) :
        u \in Settled([v.loc EXCEPT ![p] = w], v.stash \union {w}, v.shells, v.sel, v.cur)
  BY ONLY u \in BrokenToStash(s, p) DEF BrokenToStash
<1>2. PICK w \in FreshWindow(v) :
        u \in Settled([v.loc EXCEPT ![p] = w], v.stash \union {w}, v.shells, v.sel, v.cur)
  BY <1>1
<1>3. /\ v \in Server /\ v.cur = s.cur /\ (s.cur \notin s.stash => v.cur \notin v.stash)
      /\ Consistent(v)
  BY <1>1, WithStashEffect, WithStashShows DEF Shows
<1>4. w \in Window /\ w # v.cur
  BY <1>3, FreshIsNotCurrent
<1> DEFINE loc   == [v.loc EXCEPT ![p] = w]
           stash == v.stash \union {w}
<1>5. /\ loc \in [Pane -> Window \union {Gone}]
      /\ stash \in SUBSET Window /\ v.shells \in SUBSET Window
      /\ v.sel \in [Window -> Pane \union {Shell}]
      /\ v.cur \in Window \ Foreign
      /\ u \in Settled(loc, stash, v.shells, v.sel, v.cur)
  BY <1>2, <1>3, <1>4 DEF Server
<1> HIDE DEF loc, stash
<1>6. /\ Consistent(u)
      /\ v.cur \in Live(u.loc, u.shells) => u.cur = v.cur
      /\ u.stash \subseteq stash
  BY <1>5, SettledShows
<1> QED
  BY <1>3, <1>4, <1>6 DEF Shows, stash

\* Neither does a pane without a stash window take the place of what is shown.
LEMMA ScatteredShows ==
  ASSUME NEW s \in Server, Consistent(s), NEW p \in Pane, NEW u \in Scattered(s, p)
  PROVE  Shows(s, u)
<1>1. PICK v \in {s} \union WithStash(s) : u \in Broken(v, p)
  BY DEF Scattered
<1>2. v \in Server /\ v.cur = s.cur /\ (s.cur \notin s.stash => v.cur \notin v.stash)
  BY <1>1, WithStashEffect, WithStashShows
<1>3. Shows(v, u)
  BY <1>1, <1>2, BrokenShows
<1> QED
  BY <1>2, <1>3 DEF Shows

\* stash_pane, whatever comes of it.
LEMMA StashesShow ==
  ASSUME server \in Server, Consistent(server), NEW p, StashesPane(p) \/ StashRefuses(p)
  PROVE  Shows(server, server')
<1>1. CASE StashRefuses(p)
  <2>1. server' = server \/ server' \in WithStash(server)
    BY <1>1 DEF StashRefuses
  <2> QED
    BY <2>1, WithStashShows DEF Shows
<1>2. CASE StashesPane(p)
  <2>1. p \in Pane
    BY <1>2 DEF StashesPane, Alive
  <2>2. \/ server' \in JoinedStash(server, p)
        \/ server' \in BrokenToStash(server, p)
        \/ server' \in Scattered(server, p)
    BY <1>2 DEF StashesPane
  <2> QED
    BY <2>1, <2>2, JoinedStashShows, BrokenToStashShows, ScatteredShows
<1> QED
  BY <1>1, <1>2

\* The swap shows each pane where the other one was shown.
LEMMA SwappedShows ==
  ASSUME NEW s \in Server, Consistent(s), NEW a, NEW b, NEW u \in Swapped(s, a, b)
  PROVE  Shows(s, u)
<1> DEFINE loc == [[s.loc EXCEPT ![a] = s.loc[b]] EXCEPT ![b] = s.loc[a]]
<1> DEFINE sel == [w \in Window |-> IF s.sel[w] = a THEN b
                                    ELSE IF s.sel[w] = b THEN a ELSE s.sel[w]]
<1>1. /\ Alive(s, a) /\ Alive(s, b)
      /\ u = [[s EXCEPT !.loc = loc] EXCEPT !.sel = sel]
  BY DEF Swapped
<1>2. /\ a \in Pane /\ b \in Pane
      /\ loc[a] = s.loc[b] /\ loc[b] = s.loc[a]
      /\ \A q \in Pane \ {a, b} : loc[q] = s.loc[q]
  BY <1>1 DEF Server, Alive
<1>3. \A w \in Window : sel[w] = IF s.sel[w] = a THEN b ELSE IF s.sel[w] = b THEN a ELSE s.sel[w]
  OBVIOUS
<1> HIDE DEF loc, sel
<1>4. u.loc = loc /\ u.stash = s.stash /\ u.shells = s.shells /\ u.cur = s.cur /\ u.sel = sel
  BY <1>1 DEF Server
<1> DEFINE before_(w) == Occupants(s.loc, s.shells, w)
           after_(w)  == Occupants(u.loc, u.shells, w)
<1>5. ASSUME NEW w
      PROVE  /\ a \in before_(w) <=> b \in after_(w)
             /\ b \in before_(w) <=> a \in after_(w)
             /\ \A q : q # a /\ q # b => (q \in before_(w) <=> q \in after_(w))
  <2>1. Shell # a /\ Shell # b
    BY <1>2, ServerAssumption
  <2> QED
    BY <1>2, <1>4, <2>1 DEF Occupants
<1> HIDE DEF before_, after_
<1>6. \A w : before_(w) # {} <=> after_(w) # {}
  BY <1>5
<1>7. \A w : w \in Live(s.loc, s.shells) <=> w \in Live(u.loc, u.shells)
  BY <1>6 DEF Live, before_, after_
<1>8. ASSUME NEW w \in Live(u.loc, u.shells)
      PROVE  u.sel[w] \in after_(w)
  <2>1. w \in Window /\ s.sel[w] \in before_(w)
    BY <1>7, <1>8 DEF Consistent, Live, before_
  <2> QED
    BY <1>3, <1>4, <1>5, <2>1
<1>9. Consistent(u)
  BY <1>4, <1>7, <1>8 DEF Consistent, after_
<1> QED
  BY <1>4, <1>9 DEF Shows

\* Selecting a pane of a window shows it there.
LEMMA ActivatedShows ==
  ASSUME NEW s \in Server, Consistent(s), NEW w \in Window, NEW q \in Occupants(s.loc, s.shells, w)
  PROVE  /\ Consistent(SelectedIn(s, w, q)) /\ Consistent(Activated(s, w, q))
         /\ SelectedIn(s, w, q).shells = s.shells /\ Activated(s, w, q).shells = s.shells
         /\ SelectedIn(s, w, q).cur = s.cur /\ Activated(s, w, q).cur \in {s.cur, w}
<1> DEFINE sel == [s.sel EXCEPT ![w] = q]
<1>1. w \in Live(s.loc, s.shells)
  BY DEF Live
<1>2. \A v \in Live(s.loc, s.shells) : sel[v] \in Occupants(s.loc, s.shells, v)
  BY DEF Consistent, Live, Server
<1> HIDE DEF sel
<1>3. SelectedIn(s, w, q) = [s EXCEPT !.sel = sel]
  BY DEF SelectedIn, sel
<1>4. /\ SelectedIn(s, w, q).loc = s.loc /\ SelectedIn(s, w, q).shells = s.shells
      /\ SelectedIn(s, w, q).cur = s.cur /\ SelectedIn(s, w, q).sel = sel
  BY <1>3 DEF Server
<1>5. /\ Activated(s, w, q).loc = s.loc /\ Activated(s, w, q).shells = s.shells
      /\ Activated(s, w, q).cur \in {s.cur, w} /\ Activated(s, w, q).sel = sel
  BY <1>3 DEF Activated, Current, Server
<1>6. Consistent(SelectedIn(s, w, q))
  BY <1>2, <1>4 DEF Consistent
<1>7. Consistent(Activated(s, w, q))
  BY <1>1, <1>2, <1>5 DEF Consistent
<1> QED
  BY <1>4, <1>5, <1>6, <1>7

\* The same for select_pane, with and without its window ...
LEMMA SelectedShows ==
  ASSUME NEW s \in Server, Consistent(s), NEW p, Alive(s, p)
  PROVE  /\ Consistent(SelectedInPlace(s, p)) /\ Consistent(Selected(s, p))
         /\ SelectedInPlace(s, p).shells = s.shells /\ Selected(s, p).shells = s.shells
         /\ SelectedInPlace(s, p).cur = s.cur /\ Selected(s, p).cur \in {s.cur, s.loc[p]}
<1>1. s.loc[p] \in Window /\ p \in Occupants(s.loc, s.shells, s.loc[p])
  BY DEF Alive, Server, Occupants
<1> QED
  BY <1>1, ActivatedShows DEF SelectedInPlace, Selected

\* ... and for the pane of a remembered focus, wherever it is now.
LEMMA RefocusedShows ==
  ASSUME NEW s \in Server, Consistent(s), NEW f \in Focuses
  PROVE  /\ Consistent(Refocused(s, f))
         /\ Refocused(s, f).shells = s.shells
         /\ Refocused(s, f).cur # s.cur => Refocused(s, f).cur = FocusWindow(s, f)
<1>1. CASE FocusWindow(s, f) = Gone
  BY <1>1 DEF Refocused
<1>2. CASE FocusWindow(s, f) # Gone
  <2> DEFINE w == FocusWindow(s, f)
  <2>1. w \in Window /\ f.pane \in Occupants(s.loc, s.shells, w)
    BY <1>2 DEF FocusWindow, Occupants, Server, Focuses
  <2>2. Refocused(s, f) = Activated(s, w, f.pane)
    BY <1>2 DEF Refocused
  <2> HIDE DEF w
  <2>3. /\ Consistent(Activated(s, w, f.pane))
        /\ Activated(s, w, f.pane).shells = s.shells
        /\ Activated(s, w, f.pane).cur \in {s.cur, w}
    BY <2>1, ActivatedShows
  <2> QED
    BY <2>2, <2>3 DEF w
<1> QED
  BY <1>1, <1>2

-----------------------------------------------------------------------------
(* No stash window comes to the front.                                     *)

\* What the selections rely on: the windows are consistent, a pane that is
\* about to be selected with its window is in no stash window, and the focus
\* that is about to be checked is where it was taken, if its pane lives.
ActivateReady == pc = "selectActivate" => ~Stashed(server, SelectTarget)
GuardReady ==
  pc \in {"selectInPlace", "selectGuard"}
    => FocusWindow(server, before) \in {before.window, Gone}
Facing == Consistent(server) /\ ActivateReady /\ GuardReady

\* The session's own steps make no window, name none and end no shell.
LEMMA EnvironmentShows ==
  ASSUME TypeOK, PathKept, Consistent(server), Environment \/ UNCHANGED vars
  PROVE  /\ Shows(server, server') \/ OperatorSelects
         /\ Consistent(server')
         /\ server'.shells = server.shells /\ server'.stash \subseteq server.stash
<1>a. server \in Server
  BY DEF TypeOK
<1>1. CASE UNCHANGED server
  BY <1>1 DEF Shows
<1>2. CASE PaneDies
  <2>1. PICK p \in Pane : server' \in Died(server, p)
    BY <1>2 DEF PaneDies
  <2>2. Shows(server, server') /\ server'.shells = server.shells /\ server'.stash \subseteq server.stash
    BY <1>a, <2>1, DiedShows
  <2> QED
    BY <2>2 DEF Shows
<1>3. CASE OperatorSelects
  <2>1. PICK p \in Pane : Alive(server, p) /\ server' = Selected(server, p)
    BY <1>3 DEF OperatorSelects
  <2> QED
    BY <1>a, <1>3, <2>1, SelectedShows, SelectedEffect
<1> QED
  BY <1>1, <1>2, <1>3 DEF Environment, PaneFrees, vars, tmuxVars

\* A move of panes keeps the current window, unless that has closed.
LEMMA MovesShow ==
  ASSUME TypeOK, PathKept, Consistent(server),
         \/ Swap \/ AttachFirst \/ Attach \/ StashPane \/ StashPaneFails \/ Break \/ Rejoin
  PROVE  Shows(server, server')
<1>a. server \in Server
  BY DEF TypeOK
<1>b. CASE UNCHANGED server
  BY <1>b DEF Shows
<1>c. ASSUME NEW p, NEW t, NEW flag, JoinTo(p, t, flag)
      PROVE  Shows(server, server')
  BY <1>a, <1>c, JoinedShows DEF JoinTo
<1>1. CASE Swap
  BY <1>a, <1>1, SwappedShows DEF Swap, SwapTo
<1>2. CASE AttachFirst
  <2>1. \/ \E t \in InWindow(server, Target) : JoinTo(First, t, FirstPaneJoinFlag(t))
        \/ UNCHANGED server
    BY <1>2 DEF AttachFirst, JoinFails, tmuxVars
  <2> QED
    BY <1>b, <1>c, <2>1
<1>3. CASE Attach \/ Rejoin
  <2> DEFINE p == Desired[next]
  <2>1. JoinTo(p, JoinTarget(p).pane, JoinTarget(p).flag) \/ UNCHANGED server
    BY <1>3 DEF Attach, Rejoin, JoinFails, tmuxVars
  <2> QED
    BY <1>b, <1>c, <2>1
<1>4. CASE StashPane
  BY <1>a, <1>4, StashesShow DEF StashPane
<1>5. CASE StashPaneFails
  BY <1>a, <1>5, StashesShow DEF StashPaneFails
<1>6. CASE Break
  <2>1. server' \in Broken(server, Desired[next]) \/ UNCHANGED server
    BY <1>6 DEF Break
  <2> QED
    BY <1>a, <1>b, <2>1, BrokenShows
<1> QED
  BY <1>1, <1>2, <1>3, <1>4, <1>5, <1>6

\* A selection keeps the windows consistent, and turns to a stash window only
\* where StashStaysHidden says so.
Hidden ==
  (/\ used'.moves = used.moves
   /\ server.cur \notin server.stash
   /\ server.cur \in Live(server'.loc, server'.shells)
   /\ before.window \notin server.stash /\ ~IsStash(server, Target)
   /\ ~(Passive /\ pc = "detach"))
    => server'.cur \notin server'.stash

\* Nor do the selections of a call, of which Facing says what they rely on.
LEMMA SelectionsShow ==
  ASSUME TypeOK, PathKept, Facing, SelectActivate \/ SelectInPlace \/ SelectGuard \/ DetachDone \/ Restore
  PROVE  Consistent(server') /\ Hidden
<1>a. /\ server \in Server /\ Consistent(server)
      /\ opFocus \in Focuses /\ before \in Focuses
      /\ before.window \in Window \union {Gone} /\ before.pane \in Pane \union {Shell, NoPane}
      /\ opFocus.window \in Window \union {Gone} /\ opFocus.pane \in Pane \union {Shell, NoPane}
  BY DEF TypeOK, Focuses, Facing
<1>b. server' = server => Consistent(server') /\ Hidden
  BY <1>a DEF Hidden
<1>c. ASSUME NEW f \in Focuses, server' = Refocused(server, f)
      PROVE  /\ Consistent(server')
             /\ server'.stash = server.stash
             /\ server'.cur # server.cur => server'.cur = FocusWindow(server, f)
             /\ server'.cur # Gone
  <2>1. f.window \in Window \union {Gone} /\ f.pane \in Pane \union {Shell, NoPane}
    BY DEF Focuses
  <2>2. server' \in Server /\ server'.stash = server.stash
    BY <1>a, <1>c, <2>1, RefocusedEffect
  <2> QED
    BY <1>a, <1>c, <2>2, RefocusedShows, ServerAssumption DEF Server
<1>1. CASE SelectActivate
  <2>1. CASE Alive(server, SelectTarget)
    <3>1. server' = Selected(server, SelectTarget) /\ server.loc[SelectTarget] \notin server.stash
      BY <1>1, <2>1 DEF SelectActivate, Facing, ActivateReady, Stashed, IsStash, StashWindows
    <3> QED
      BY <1>a, <2>1, <3>1, SelectedShows, SelectedEffect DEF Hidden
  <2> QED
    BY <1>b, <1>1, <2>1 DEF SelectActivate
<1>2. CASE SelectInPlace
  <2>1. CASE Alive(server, SelectTarget)
    <3>1. server' = SelectedInPlace(server, SelectTarget)
      BY <1>2, <2>1 DEF SelectInPlace
    <3> QED
      BY <1>a, <2>1, <3>1, SelectedShows, SelectedEffect DEF Hidden
  <2> QED
    BY <1>b, <1>2, <2>1 DEF SelectInPlace
<1>3. CASE SelectGuard
  <2>1. CASE server' = Refocused(server, before)
    <3>1. FocusWindow(server, before) \in {before.window, Gone}
      BY <1>3 DEF SelectGuard, Facing, GuardReady
    <3> QED
      BY <1>a, <1>c, <2>1, <3>1 DEF Hidden
  <2> QED
    BY <1>b, <1>3, <2>1 DEF SelectGuard
<1>4. CASE Restore
  <2>1. CASE server' = Refocused(server, opFocus) /\ FocusWindow(server, opFocus) \notin server.stash
    BY <1>a, <1>c, <2>1 DEF Hidden
  <2> QED
    BY <1>b, <1>4, <2>1 DEF Restore
<1>5. CASE DetachDone
  <2>1. CASE Passive
    <3>1. Consistent(server')
      BY <1>a, <1>b, <1>c, <1>5, <2>1 DEF DetachDone
    <3> QED
      BY <1>5, <2>1, <3>1 DEF DetachDone, Hidden
  <2>2. CASE ~Passive /\ InWindow(server, Target) # {}
    <3>1. server' = [server EXCEPT !.cur = Target]
      BY <1>5, <2>2 DEF DetachDone
    <3>2. /\ server'.loc = server.loc /\ server'.shells = server.shells /\ server'.sel = server.sel
          /\ server'.stash = server.stash /\ server'.cur = Target
      BY <1>a, <3>1 DEF Server
    <3>3. Target \in Live(server.loc, server.shells)
      BY <2>2, ServerAssumption DEF InWindow, Live, Occupants
    <3>4. Consistent(server')
      BY <1>a, <3>2, <3>3 DEF Consistent
    <3> QED
      BY <3>2, <3>4 DEF Hidden, IsStash, StashWindows
  <2> QED
    BY <1>b, <1>5, <2>1, <2>2 DEF DetachDone
<1> QED
  BY <1>1, <1>2, <1>3, <1>4, <1>5

\* What every step shows.
LEMMA StepShows ==
  ASSUME TypeOK, PathKept, Facing, [Next]_vars
  PROVE  Consistent(server') /\ Hidden
<1>a. /\ Consistent(server)
      /\ used.moves \in Nat
  BY DEF TypeOK, Facing
<1>b. Shows(server, server') => Consistent(server') /\ Hidden
  BY DEF Shows, Hidden
<1>c. UNCHANGED server => Shows(server, server')
  BY <1>a DEF Shows
<1>1. CASE Environment \/ UNCHANGED vars
  <2>1. OperatorSelects => Hidden
    BY <1>a DEF OperatorSelects, TypeOK, Hidden
  <2> QED
    BY <1>a, <1>b, <1>1, <2>1, EnvironmentShows
<1>2. CASE \/ Swap \/ AttachFirst \/ Attach \/ StashPane \/ StashPaneFails \/ Break \/ Rejoin
  BY <1>a, <1>b, <1>2, MovesShow
<1>3. CASE SelectActivate \/ SelectInPlace \/ SelectGuard \/ DetachDone \/ Restore
  BY <1>3, SelectionsShow
<1>4. CASE \/ Snapshot \/ Plan \/ SwapSkipped \/ AttachDone \/ SelectCheck \/ DetachList
           \/ DetachSkip \/ DetachDecide \/ Reorder \/ BreakDone \/ RejoinDone \/ Verify
           \/ CallAgain
  <2>1. UNCHANGED server
    BY <1>4 DEF tmuxVars, Snapshot, Plan, SwapSkipped, AttachDone, SelectCheck, DetachList,
         DetachSkip, DetachDecide, Reorder, BreakDone, RejoinDone, Verify, CallAgain
  <2> QED
    BY <1>b, <1>c, <2>1
<1> QED
  BY <1>1, <1>2, <1>3, <1>4 DEF Next, Step, Select, Detach

\* What select_reconcile_pane has looked at still holds when it selects.
LEMMA LooksKept ==
  ASSUME TypeOK, PathKept, Facing, [Next]_vars
  PROVE  ActivateReady' /\ GuardReady'
<1>a. /\ server \in Server /\ Consistent(server)
      /\ SelectTarget \in Pane /\ SelectTarget' = SelectTarget
      /\ before \in Focuses /\ before.window \in Window \union {Gone}
  <2>1. call \in Calls /\ call' = call
    BY CallStays DEF TypeOK
  <2>2. SelectTarget \in Pane
    BY <2>1, CallFacts
  <2> QED
    BY <2>1, <2>2 DEF TypeOK, Facing, SelectTarget, First, Desired, Focuses
<1>b. Gone \notin server.stash
  BY <1>a, ServerAssumption DEF Server
<1>1. CASE Environment \/ UNCHANGED vars
  <2>1. /\ pc' = pc /\ server'.shells = server.shells /\ server'.stash \subseteq server.stash
        /\ \A q \in Pane : server'.loc[q] \in {server.loc[q], Gone}
    BY <1>a, <1>1, EnvironmentKeeps, EnvironmentShows DEF Stays
  <2>2. before' = before
    BY <1>1 DEF Environment, PaneDies, OperatorSelects, PaneFrees, vars, selVars
  <2>3. ActivateReady'
    BY <1>a, <1>b, <2>1 DEF Facing, ActivateReady, Stashed, IsStash, StashWindows
  <2>4. GuardReady'
    BY <1>a, <2>1, <2>2, ServerAssumption DEF Facing, GuardReady, FocusWindow
  <2> QED
    BY <2>3, <2>4
<1>2. CASE SelectCheck
  <2>1. server' = server
    BY <1>2 DEF SelectCheck, tmuxVars
  <2>2. ActivateReady'
    BY <1>a, <1>2, <2>1 DEF SelectCheck, Goto, MayActivate, ActivateReady, Stashed, IsStash,
       StashWindows, PathKept, SelectSteps
  <2>3. FocusWindow(server, Focus(server)) = server.cur
    BY <1>a, ServerAssumption DEF Consistent, Occupants, FocusWindow, Focus, ActivePane, ActiveWindow
  <2>4. GuardReady'
    BY <1>2, <2>1, <2>3 DEF SelectCheck, Goto, GuardReady, Focus, ActiveWindow, PathKept, SelectSteps
  <2> QED
    BY <2>2, <2>4
<1>3. CASE SelectInPlace
  <2>1. pc' # "selectActivate"
    BY <1>3 DEF SelectInPlace, Goto, PathKept, SelectSteps
  <2>2. CASE Alive(server, SelectTarget)
    <3>1. server' = SelectedInPlace(server, SelectTarget) /\ before' = before /\ pc = "selectInPlace"
      BY <1>3, <2>2 DEF SelectInPlace
    <3>2. server'.loc = server.loc /\ server'.shells = server.shells
      BY <1>a, <2>2, <3>1, SelectedShows, SelectedEffect
    <3> QED
      BY <2>1, <3>1, <3>2 DEF Facing, GuardReady, ActivateReady, FocusWindow
  <2>3. CASE ~Alive(server, SelectTarget)
    BY <1>3, <2>1, <2>3 DEF SelectInPlace, Goto, PathKept, SelectSteps, GuardReady, ActivateReady
  <2> QED
    BY <2>2, <2>3
<1>4. CASE ~(Environment \/ UNCHANGED vars \/ SelectCheck \/ SelectInPlace)
  <2>1. pc' \notin {"selectActivate", "selectInPlace", "selectGuard"}
    BY <1>4 DEF PathKept, SelectSteps, Goto, Return, Next, Step, Select, Detach,
       Snapshot, Plan, SwapSkipped, Swap, AttachFirst, Attach, AttachDone, SelectActivate,
       SelectGuard, DetachList, DetachSkip, DetachDecide, StashPane, StashPaneFails, DetachDone,
       Reorder, Break, BreakDone, Rejoin, RejoinDone, Verify, Restore, CallAgain
  <2> QED
    BY <2>1 DEF ActivateReady, GuardReady
<1> QED
  BY <1>1, <1>2, <1>3, <1>4

\* The windows are consistent at every moment of every call.
LEMMA FacingAlways == Spec => [](IInv /\ Facing)
<1>1. Init => Facing
  BY StartsAssumption DEF Init, Starts, Facing, ActivateReady, GuardReady
<1>2. IInv /\ Facing /\ [Next]_vars => Facing'
  BY StepShows, LooksKept DEF Facing, IInv
<1> QED
  BY <1>1, <1>2, Invariance, PTL DEF Spec

\* No stash window comes to the front on its own: none of the selections of a
\* call, nor what tmux does when its moves close a window, makes a stash window
\* the current one while the window the client looked at is there.
THEOREM StashHidden == Spec => StashStaysHidden
<1>1. IInv /\ Facing /\ [Next]_vars => [Hidden]_vars
  BY StepShows DEF IInv
<1>2. StashStaysHidden <=> [][Hidden]_vars
  BY DEF StashStaysHidden, Hidden
<1> QED
  BY <1>1, <1>2, FacingAlways, PTL DEF Spec

-----------------------------------------------------------------------------
(* The whole call: what becomes of a layout after reconcile.  SyncTyped    *)
(* says in which order the stages come; Rest, what the stages after        *)
(* reconcile rely on and keep while nothing goes wrong.                    *)

Stages == {"capture", "reconcile", "equalize", "measure", "trim", "shed", "reselect", "activate",
           "inPlace", "restore", "end"}
Early  == {"capture", "reconcile"}

SyncTyped ==
  /\ TypeOK /\ PathKept /\ NextReady /\ LeftUnwanted
  /\ stage \in Stages /\ height \in Heights /\ origin \in Focuses

SyncOrder ==
  /\ stage = "capture" => pc = "snapshot" /\ path = "none" /\ seen = {}
  /\ stage \notin Early => pc = "done"
  /\ stage # "capture" /\ ~Passive => origin = NoFocus
  /\ stage \in {"activate", "inPlace"} => ~Passive

\* The steps of sync that are none of reconcile and change what it works on.
Beyond == Equalize \/ Trim \/ Shed \/ ShedDone \/ Reselected \/ RestoreOperator

\* Every other step is one of reconcile, or changes no variable of its.
LEMMA StepsOfSync ==
  ASSUME [SyncNext]_allVars
  PROVE  [Next]_vars \/ Beyond
BY DEF SyncNext, SyncStep, Meanwhile, SyncAgain, Reconciling, Beyond, Next, allVars, vars, reconcileVars,
   CaptureOperator, Reconciled, Measure, Trimmed, Reselect, ReselectFails

\* stash_pane, from the overflow stash as from reconcile, moves the pane it is
\* given or leaves everything where it is.
LEMMA StashKeeps ==
  ASSUME TypeOK, NEW p, NEW ps, Stash(p, ps)
  PROVE  /\ server' \in Server
         /\ Keeps(server, server', {p})
         /\ p \in Pane /\ ~Alive(server, p) => server'.loc[p] = Gone
         /\ UNCHANGED used \/ CountFail \/ Scatters
<1>a. server \in Server
  BY DEF TypeOK
<1>1. CASE StashRefuses(p)
  <2>1. server' = server \/ server' \in WithStash(server)
    BY <1>1 DEF StashRefuses
  <2>2. server' \in Server /\ server'.loc = server.loc /\ server.stash \subseteq server'.stash
    BY <1>a, <2>1, WithStashEffect
  <2>3. UNCHANGED used \/ CountFail
    BY <1>1 DEF StashRefuses
  <2> QED
    BY <2>2, <2>3 DEF Keeps, Stashed, IsStash, StashWindows, Alive
<1>2. CASE StashesPane(p)
  <2>1. Alive(server, p)
    BY <1>2 DEF StashesPane
  <2> QED
    BY <1>a, <1>2, <2>1, StashesMove
<1> QED
  BY <1>1, <1>2 DEF Stash

\* What these steps leave alone.
LEMMA BeyondKeeps ==
  ASSUME SyncTyped, Beyond
  PROVE  /\ TypeOK'
         /\ UNCHANGED <<registered, busy, selVars, callVars, call, pc, err>>
         /\ Wanted' = Wanted /\ Passive' = Passive /\ FocusPane' = FocusPane
         /\ UNCHANGED used \/ CountFail \/ Scatters
         /\ \A q \in Pane : Alive(server', q) => Alive(server, q)
<1>a. /\ TypeOK /\ server \in Server
      /\ used \in [deaths : Nat, fails : Nat, moves : Nat, freed : SUBSET Pane,
                     scattered : SUBSET Pane, may : Limits]
      /\ origin.window \in Window \union {Gone} /\ origin.pane \in Pane \union {Shell, NoPane}
  BY DEF SyncTyped, TypeOK, Focuses
<1>1. UNCHANGED <<registered, busy, selVars, callVars, call, pc, err>>
  BY DEF Beyond, Equalize, Trim, Shed, ShedDone, Reselected, RestoreOperator, envVars
<1>2. Wanted' = Wanted /\ Passive' = Passive /\ FocusPane' = FocusPane
  BY <1>1 DEF Wanted, Desired, Passive, FocusPane
<1>3. /\ server' \in Server
      /\ UNCHANGED used \/ CountFail \/ Scatters
      /\ \A q \in Pane : Alive(server', q) => Alive(server, q)
  <2>1. CASE UNCHANGED <<server, used>>
    BY <1>a, <2>1
  <2>2. ASSUME NEW p, NEW ps, Stash(p, ps)
        PROVE  /\ server' \in Server
               /\ UNCHANGED used \/ CountFail \/ Scatters
               /\ \A q \in Pane : Alive(server', q) => Alive(server, q)
    BY <1>a, <2>2, StashKeeps DEF Keeps, Alive
  <2>3. CASE Reselected
    BY <1>a, <2>3, SelectedEffect DEF Reselected, Alive, envVars
  <2>4. CASE RestoreOperator
    BY <1>a, <2>4, RefocusedEffect DEF RestoreOperator, Alive, envVars
  <2> QED
    BY <2>1, <2>2, <2>3, <2>4 DEF Beyond, Equalize, Trim, Shed, ShedDone, envVars
<1>4. used' \in [deaths : Nat, fails : Nat, moves : Nat, freed : SUBSET Pane,
                     scattered : SUBSET Pane, may : Limits]
  BY <1>a, <1>3, FailCounted
<1>5. TypeOK'
  BY <1>a, <1>1, <1>3, <1>4 DEF TypeOK, selVars, callVars
<1> QED
  BY <1>1, <1>2, <1>3, <1>5

\* The types and the order of the stages.
LEMMA SyncTypedInductive ==
  ASSUME SyncTyped, SyncOrder, [SyncNext]_allVars
  PROVE  SyncTyped' /\ SyncOrder'
<1>a. TypeOK /\ PathKept /\ NextReady /\ LeftUnwanted
  BY DEF SyncTyped
<1>1. TypeOK' /\ PathKept' /\ NextReady' /\ LeftUnwanted' /\ Passive' = Passive
  <2>1. CASE [Next]_vars
    <3>1. Passive' = Passive
      BY <2>1, CallStays DEF Passive
    <3> QED
      BY <1>a, <2>1, <3>1, TypeInductive, ControlKept
  <2>2. CASE Beyond
    BY <1>a, <2>2, BeyondKeeps DEF PathKept, NextReady, LeftUnwanted, selVars, callVars
  <2> QED
    BY <2>1, <2>2, StepsOfSync
<1>2. Focus(server) \in Focuses /\ NoFocus \in Focuses
  BY <1>a DEF TypeOK, Server, Focus, ActiveWindow, ActivePane, Focuses, NoFocus
<1>3. stage' \in Stages /\ height' \in Heights /\ origin' \in Focuses
  BY <1>2 DEF SyncTyped, SyncNext, SyncStep, Meanwhile, SyncAgain, Enter, Stages, allVars, syncVars,
     CaptureOperator, Reconciling, Reconciled, Equalize, Measure, Trim, Trimmed, Shed, ShedDone,
     Reselect, ReselectFails, Reselected, RestoreOperator
<1>4. SyncOrder'
  <2> USE DEF SyncOrder, Early, Enter, syncVars
  <2>1. CASE UNCHANGED allVars
    BY <2>1 DEF allVars, vars, callVars, Passive
  <2>2. CASE CaptureOperator \/ Reconciled \/ Measure \/ Trimmed \/ Reselect \/ ReselectFails
    BY <1>1, <2>2 DEF CaptureOperator, Reconciled, Measure, Trimmed, Reselect, ReselectFails,
                      ShouldReselect, reconcileVars
  <2>3. CASE Reconciling
    BY <1>1, <2>3 DEF Reconciling
  <2>4. CASE Beyond
    BY <1>1, <2>4 DEF Beyond, Equalize, Trim, Shed, ShedDone, Reselected, RestoreOperator
  <2>5. CASE SyncAgain
    BY <1>1, <2>5 DEF SyncAgain, CallAgain, Goto
  <2>6. CASE Meanwhile
    <3>1. UNCHANGED <<callVars, pc>>
      BY <1>a, <2>6, EnvironmentKeeps DEF Meanwhile
    <3> QED
      BY <1>1, <2>6, <3>1 DEF Meanwhile, callVars
  <2> QED
    BY <2>1, <2>2, <2>3, <2>4, <2>5, <2>6 DEF SyncNext, SyncStep, Beyond
<1> QED
  BY <1>1, <1>3, <1>4 DEF SyncTyped

\* What is calm has been calm, in every stage.
LEMMA SyncCalmBefore ==
  ASSUME SyncTyped, [SyncNext]_allVars, Calm'
  PROVE  Calm /\ ~PaneDies /\ ~CountFail /\ ~Scatters
<1>a. /\ TypeOK
      /\ used \in [deaths : Nat, fails : Nat, moves : Nat, freed : SUBSET Pane,
                     scattered : SUBSET Pane, may : Limits]
  BY DEF SyncTyped, TypeOK
<1>1. CASE [Next]_vars
  BY <1>a, <1>1, CalmBefore
<1>2. CASE Beyond
  <2>1. used'.deaths = 0 /\ used'.fails = 0
    BY DEF Calm
  <2>2. ~CountFail /\ ~Scatters /\ ~PaneDies
    BY <1>a, <2>1, FailCounted DEF PaneDies
  <2>3. used' = used
    BY <1>2, <2>2, BeyondKeeps
  <2>4. \A p \in Wanted : p \in Pane /\ Alive(server', p)
    BY <1>2, BeyondKeeps DEF Calm, Alive
  <2> QED
    BY <1>2, <2>1, <2>2, <2>3, <2>4, BeyondKeeps DEF Calm
<1> QED
  BY <1>1, <1>2, StepsOfSync

-----------------------------------------------------------------------------
(* The window survives the call.                                           *)

\* The columns that are left are of wanted panes, which are all in the window
\* unless reconcile has put the layout off.
Laid ==
  \E P \in SUBSET Wanted :
    /\ Lays(panes, P) /\ P # {}
    /\ path # "deferred" => P \subseteq InWindow(server, Target)

\* Then a pane that is not wanted is there; otherwise the focus pane is.
Rest ==
  /\ Geometry /\ Laid
  /\ path = "deferred" => ~(InWindow(server, Target) \subseteq Wanted)
  /\ path # "deferred" /\ FocusPane \in Wanted => server.loc[FocusPane] = Target

Going ==
  Calm => IF stage \in Early THEN IInv /\ Settling ELSE Rest

\* Equalizing lays out the same panes.
LEMMA EqualizedLays ==
  ASSUME NEW cs, NEW P, Lays(cs, P), NEW ps, NEW s
  PROVE  Lays(Equalized(cs, ps, s), P)
BY LaysOrder, LaysFlat DEF Equalized, Flattened

\* What the overflow stash does to the geometry.
LEMMA StashLays ==
  ASSUME TypeOK, NEW p, NEW ps, Stash(p, ps), Geometry
  PROVE  Geometry'
<1>a. server \in Server /\ server' \in Server /\ Keeps(server, server', {p})
  BY StashKeeps DEF TypeOK
<1>1. ASSUME NEW cs \in Leaving(p), Alive(server, p), cols' = Equalized(cs, ps, server')
      PROVE  Geometry'
  <2>1. p \in Pane
    BY <1>1 DEF Alive
  <2>2. Lays(cs, InWindow(server', Target))
    BY <1>a, <2>1, LeftLays
  <2> QED
    BY <1>1, <2>2, EqualizedLays DEF Geometry
<1>2. CASE StashRefuses(p) /\ cols' = Equalized(cols, ps, server')
  <2>1. server'.loc = server.loc
    BY <1>a, <1>2, WithStashEffect DEF StashRefuses
  <2>2. InWindow(server', Target) = InWindow(server, Target)
    BY <2>1 DEF InWindow
  <2> QED
    BY <1>2, <2>2, EqualizedLays DEF Geometry
<1> QED
  BY <1>1, <1>2 DEF Stash, StashesPane

\* A column that is too tall has two panes at least.
LEMMA TooTallLen ==
  ASSUME height \in Nat
  PROVE  MaxPanesPerCol \in Nat /\ MaxPanesPerCol >= 1
BY DEF MaxPanesPerCol, MIN_PANE_HEIGHT

\* Of two panes or more, another one is left.
LEMMA OtherPane ==
  ASSUME NEW cs, NEW P, Lays(cs, P), NEW k \in 1..Len(cs), NEW r \in 1..Len(cs[k]),
         Len(cs[k]) > 1 \/ Len(cs) > 1
  PROVE  cs[k][r] \in P /\ P \ {cs[k][r]} # {}
<1>1. /\ Len(cs) \in Nat /\ \A j \in 1..Len(cs) : Len(cs[j]) \in Nat \ {0}
      /\ \A j \in 1..Len(cs) : \A q \in 1..Len(cs[j]) : cs[j][q] \in P
  BY LaysTypes
<1>2. \A j \in 1..Len(cs) : \A q \in 1..Len(cs[j]) : cs[j][q] = cs[k][r] => j = k /\ q = r
  BY LaysPlaces
<1>3. CASE Len(cs[k]) > 1
  <2>1. 1 \in 1..Len(cs[k]) /\ 2 \in 1..Len(cs[k])
    BY <1>1, <1>3
  <2>2. cs[k][1] # cs[k][r] \/ cs[k][2] # cs[k][r]
    BY <1>2, <2>1
  <2> QED
    BY <1>1, <2>1, <2>2
<1>4. CASE Len(cs) > 1
  <2>1. PICK j \in 1..Len(cs) : j # k
    <3>1. 1 \in 1..Len(cs) /\ 2 \in 1..Len(cs)
      BY <1>1, <1>4
    <3> QED
      BY <3>1
  <2>2. 1 \in 1..Len(cs[j])
    BY <1>1
  <2>3. cs[j][1] # cs[k][r]
    BY <1>2, <2>1, <2>2
  <2> QED
    BY <1>1, <2>2, <2>3
<1> QED
  BY <1>3, <1>4

\* The pane to go from a column is one of it, and not the focus.
LEMMA LastInColumn ==
  ASSUME NEW P, Lays(panes, P), NEW k \in DOMAIN panes, Sheddable(k) # {}
  PROVE  k \in 1..Len(panes) /\ LastIn(k) \in 1..Len(panes[k]) /\ panes[k][LastIn(k)] # FocusPane
<1>1. /\ panes \in Seq(Seq(P)) /\ Len(panes) \in Nat
      /\ \A j \in 1..Len(panes) : panes[j] \in Seq(P) /\ Len(panes[j]) \in Nat
  BY LaysTypes
<1>2. k \in 1..Len(panes)
  BY <1>1
<1>3. DOMAIN panes[k] = 1..Len(panes[k]) /\ Len(panes[k]) \in Nat
  BY <1>1, <1>2
<1>4. Sheddable(k) \in SUBSET (1..Len(panes[k]))
  BY <1>3 DEF Sheddable
<1>5. LastIn(k) \in Sheddable(k)
  <2> DEFINE T == Sheddable(k)
             n == Len(panes[k])
  <2>1. n \in Nat /\ T \in SUBSET (1..n) /\ T # {}
    BY <1>3, <1>4
  <2> HIDE DEF T, n
  <2>2. Max(T) \in T
    BY <2>1, Greatest
  <2> QED
    BY <2>2 DEF LastIn, T
<1> QED
  BY <1>2, <1>4, <1>5 DEF Sheddable, MayShed

\* The overflow stash takes one pane out of the columns and, if anywhere, that
\* pane out of the window; it is not the focus.
LEMMA OverflowMoves ==
  ASSUME NEW P, Lays(panes, P), height \in Nat, Trim \/ Shed
  PROVE  \E p \in P :
           /\ p # FocusPane
           /\ \E ps : Stash(p, ps)
           /\ Lays(panes', P \ {p}) /\ P \ {p} # {}
<1>a. /\ panes \in Seq(Seq(P)) /\ Len(panes) \in Nat /\ DOMAIN panes = 1..Len(panes)
      /\ \A j \in 1..Len(panes) : Len(panes[j]) \in Nat
  BY LaysTypes
<1>1. CASE Trim
  <2> DEFINE k == Max(Trimmable)
             r == LastIn(k)
  <2>1. Trimmable # {} /\ panes' = Shorter(k) /\ Stash(panes[k][r], <<>>)
    BY <1>1 DEF Trim
  <2>2. k \in Trimmable
    <3> DEFINE T == Trimmable
               n == Len(panes)
    <3>1. n \in Nat /\ T \in SUBSET (1..n) /\ T # {}
      BY <1>a, <2>1 DEF Trimmable
    <3> HIDE DEF T, n
    <3>2. Max(T) \in T
      BY <3>1, Greatest
    <3> QED
      BY <3>2 DEF T
  <2> HIDE DEF k
  <2>3. k \in DOMAIN panes /\ TooTall(k) /\ Sheddable(k) # {}
    BY <2>2 DEF Trimmable
  <2>4. k \in 1..Len(panes) /\ r \in 1..Len(panes[k]) /\ panes[k][r] # FocusPane
    BY <2>3, LastInColumn
  <2>5. Len(panes[k]) > 1
    BY <1>a, <2>3, <2>4, TooTallLen DEF TooTall
  <2>6. panes' = [panes EXCEPT ![k] = RemoveAt(@, r)]
    BY <2>1 DEF Shorter
  <2> HIDE DEF r
  <2>7. Lays(panes', P \ {panes[k][r]})
    BY <2>4, <2>5, <2>6, RemovalSpreads
  <2> QED
    BY <2>1, <2>4, <2>5, <2>7, OtherPane, SMTT(20)
<1>2. CASE Shed
  <2>1. PICK k \in DOMAIN panes :
          /\ Sheddable(k) # {}
          /\ panes' = NonEmpty(Shorter(k))
          /\ Stash(panes[k][LastIn(k)], panes')
    BY <1>2 DEF Shed
  <2>2. Len(panes) > 1
    BY <1>2 DEF Shed, ManyColumns
  <2> DEFINE r == LastIn(k)
  <2>3. k \in 1..Len(panes) /\ r \in 1..Len(panes[k]) /\ panes[k][r] # FocusPane
    BY <2>1, LastInColumn
  <2>4. panes' = NonEmpty([panes EXCEPT ![k] = RemoveAt(@, r)]) /\ Stash(panes[k][r], panes')
    BY <2>1 DEF Shorter
  <2> HIDE DEF r
  <2> DEFINE c == [panes EXCEPT ![k] = RemoveAt(@, r)]
  <2>5. Spreads(c, P \ {panes[k][r]})
    BY <2>3, RemovalSpreads
  <2> HIDE DEF c
  <2>6. Lays(NonEmpty(c), P \ {panes[k][r]})
    BY <2>5, NonEmptyLays
  <2>7. Lays(panes', P \ {panes[k][r]})
    BY <2>4, <2>6 DEF c
  <2>8. panes[k][r] \in P /\ P \ {panes[k][r]} # {}
    BY <2>2, <2>3, OtherPane
  <2>9. \E ps : Stash(panes[k][r], ps)
    BY <2>4
  <2> QED
    BY <2>3, <2>7, <2>8, <2>9
<1> QED
  BY <1>1, <1>2

\* When reconcile returns, the columns are laid out as they are to be.
LEMMA RestBegins ==
  ASSUME SyncTyped, IInv, Settling, Calm, Reconciled
  PROVE  Rest'
<1>a. /\ pc = "done" /\ panes' = call.columns
      /\ UNCHANGED <<server, cols, path, call>>
      /\ path \in {"fast", "deferred", "swapped", "full"}
      /\ Geometry
  BY DEF Reconciled, reconcileVars, tmuxVars, callVars, SyncTyped, PathKept, TypeOK, IInv
<1>b. /\ Lays(call.columns, Wanted) /\ First \in Wanted /\ Wanted \subseteq Pane
      /\ Wanted' = Wanted /\ FocusPane' = FocusPane
  BY <1>a, CallLaid, CallFacts, CallKept DEF SyncTyped, TypeOK, FocusPane
<1>1. path # "deferred" => Wanted \subseteq InWindow(server, Target)
  BY <1>a, RunSettled DEF FullRunSettles, Settling, Returned
<1>2. path = "deferred" => ~(InWindow(server, Target) \subseteq Wanted)
  BY DEF Settling, Returned
<1>3. Laid'
  BY <1>a, <1>b, <1>1 DEF Laid
<1>4. path # "deferred" /\ FocusPane \in Wanted => server.loc[FocusPane] = Target
  BY <1>1 DEF InWindow
<1>5. Geometry'
  BY <1>a DEF Geometry
<1> QED
  BY <1>a, <1>b, <1>2, <1>3, <1>4, <1>5 DEF Rest

\* What the later stages leave in the window.
LEMMA RestKept ==
  ASSUME SyncTyped, SyncOrder, [SyncNext]_allVars, Calm', Calm, stage \notin Early,
         stage' \notin Early, Rest
  PROVE  Rest'
<1>a. /\ TypeOK /\ PathKept /\ pc = "done" /\ server \in Server /\ height \in Nat
      /\ Geometry /\ Laid
  BY HeightsAssumption DEF SyncTyped, SyncOrder, Rest, TypeOK
<1>1. ASSUME server'.loc = server.loc, UNCHANGED <<path, call, panes>>, Geometry'
      PROVE  Rest'
  <2>1. /\ Wanted' = Wanted /\ FocusPane' = FocusPane
        /\ InWindow(server', Target) = InWindow(server, Target)
    BY <1>1, CallKept DEF FocusPane, InWindow
  <2>2. Laid'
    BY <1>a, <1>1, <2>1 DEF Laid
  <2> QED
    BY <1>1, <2>1, <2>2 DEF Rest
<1>b. ASSUME server'.loc = server.loc, cols' = cols  PROVE Geometry'
  <2>1. InWindow(server', Target) = InWindow(server, Target)
    BY <1>b DEF InWindow
  <2> QED
    BY <1>a, <1>b, <2>1 DEF Geometry
<1>2. CASE \/ UNCHANGED allVars \/ Meanwhile
           \/ Measure \/ Trimmed \/ Reselect \/ ReselectFails
  <2>1. [Next]_vars
    BY <1>2 DEF Next, Meanwhile, Measure, Trimmed, Reselect, ReselectFails, allVars, reconcileVars, vars
  <2>2. UNCHANGED <<path, call>>
    <3>1. CASE Meanwhile
      BY <1>a, <3>1, EnvironmentKeeps DEF Meanwhile, callVars
    <3> QED
      BY <1>2, <3>1 DEF Measure, Trimmed, Reselect, ReselectFails, allVars, reconcileVars, vars, callVars
  <2>3. panes' = panes
    BY <1>2 DEF Meanwhile, Measure, Trimmed, Reselect, ReselectFails, allVars, syncVars
  <2>4. server'.loc = server.loc /\ cols' = cols
    BY <1>a, <2>1, SyncCalmBefore, Undisturbed DEF Swap, StashPane, AttachFirst, Attach, Break, Rejoin
  <2> QED
    BY <1>1, <1>b, <2>2, <2>3, <2>4
<1>3. CASE Reselected \/ RestoreOperator
  <2>1. origin.window \in Window \union {Gone} /\ origin.pane \in Pane \union {Shell, NoPane}
    BY DEF SyncTyped, Focuses
  <2>2. server'.loc = server.loc
    BY <1>a, <1>3, <2>1, SelectedEffect, RefocusedEffect DEF Reselected, RestoreOperator
  <2>3. UNCHANGED <<cols, panes, path, call>>
    BY <1>3 DEF Reselected, RestoreOperator, callVars
  <2> QED
    BY <1>1, <1>b, <2>2, <2>3
<1>4. CASE Equalize \/ ShedDone
  <2>1. UNCHANGED <<server, panes, path, call>>
    BY <1>4 DEF Equalize, ShedDone, callVars
  <2>2. cols' = cols \/ \E ps, s : cols' = Equalized(cols, ps, s)
    BY <1>4 DEF Equalize, ShedDone
  <2>3. Geometry'
    BY <1>a, <2>1, <2>2, EqualizedLays DEF Geometry
  <2> QED
    BY <1>1, <2>1, <2>3
<1>5. CASE Trim \/ Shed
  <2>1. PICK P \in SUBSET Wanted :
          /\ Lays(panes, P) /\ P # {}
          /\ path # "deferred" => P \subseteq InWindow(server, Target)
    BY <1>a DEF Laid
  <2>2. PICK p \in P :
          /\ p # FocusPane
          /\ \E ps : Stash(p, ps)
          /\ Lays(panes', P \ {p}) /\ P \ {p} # {}
    BY <1>a, <1>5, <2>1, OverflowMoves
  <2>3. Keeps(server, server', {p}) /\ Geometry'
    BY <1>a, <2>2, StashKeeps, StashLays
  <2>4. /\ path' = path /\ Wanted' = Wanted /\ FocusPane' = FocusPane
    BY <1>5, BeyondKeeps DEF Beyond, callVars
  <2>5. \A q \in Pane \ {p} : server'.loc[q] = server.loc[q]
    BY <2>3 DEF Keeps
  <2>6. Wanted \subseteq Pane
    BY <1>a, CallFacts DEF TypeOK
  <2>7. Laid'
    <3>1. path # "deferred" => P \ {p} \subseteq InWindow(server', Target)
      BY <2>1, <2>5 DEF InWindow
    <3>2. P \ {p} \in SUBSET Wanted
      OBVIOUS
    <3> QED
      BY <2>2, <2>4, <3>1, <3>2 DEF Laid
  <2>8. path = "deferred" => ~(InWindow(server', Target) \subseteq Wanted)
    BY <2>5 DEF Rest, InWindow
  <2>9. path # "deferred" /\ FocusPane \in Wanted => server'.loc[FocusPane] = Target
    BY <2>2, <2>5, <2>6 DEF Rest
  <2> QED
    BY <2>3, <2>4, <2>7, <2>8, <2>9 DEF Rest
<1>6. ~CaptureOperator /\ ~Reconciling /\ ~Reconciled /\ ~SyncAgain
  BY DEF CaptureOperator, Reconciling, Reconciled, SyncAgain, Early, Enter
<1> QED
  BY <1>2, <1>3, <1>4, <1>5, <1>6 DEF SyncNext, SyncStep

\* The panes of the window that the next poll begins with.
LEMMA RestOccupied ==
  ASSUME Rest
  PROVE  InWindow(server, Target) # {}
<1>1. PICK P \in SUBSET Wanted : P # {} /\ (path # "deferred" => P \subseteq InWindow(server, Target))
  BY DEF Rest, Laid
<1> QED
  BY <1>1 DEF Rest

\* The next poll finds the window in order.
LEMMA BeginsAgain ==
  ASSUME SyncTyped, SyncOrder, Rest, SyncAgain
  PROVE  IInv' /\ Settling'
<1>a. /\ TypeOK /\ PathKept /\ NextReady /\ LeftUnwanted
      /\ pc' = "snapshot" /\ path' = "none" /\ seen' = {}
      /\ UNCHANGED <<server, cols>>
      /\ [Next]_vars
  BY DEF SyncTyped, SyncAgain, CallAgain, Goto, tmuxVars, Next
<1>1. TypeOK' /\ PathKept' /\ NextReady' /\ LeftUnwanted'
  BY <1>a, TypeInductive, ControlKept
<1>2. TargetKept'
  BY <1>a, RestOccupied DEF TargetKept
<1>3. Geometry'
  BY <1>a DEF Rest, Geometry
<1>4. SwapReady' /\ StashReady' /\ FirstStays' /\ EvictedSafe' /\ RegistrySafe'
  BY <1>a DEF SwapReady, StashReady, FirstStays, EvictedSafe, RegistrySafe
<1>5. SeenReady' /\ SwapDone' /\ NoLoss'
  BY <1>a DEF SeenReady, SwapDone, NoLoss
<1>6. Settling'
  BY <1>a DEF Settling, Attached, AllIn, Detaching, Detached, Breaking, Rejoining, InOrder, Ordered,
     Complete, SelectSteps, Returned
<1> QED
  BY <1>1, <1>2, <1>3, <1>4, <1>5, <1>6 DEF IInv

\* While nothing goes wrong, every stage finds what it relies on.
LEMMA GoingInductive ==
  ASSUME SyncTyped, SyncOrder, Going, [SyncNext]_allVars
  PROVE  Going'
<1> SUFFICES ASSUME Calm'
             PROVE  (IF stage \in Early THEN IInv /\ Settling ELSE Rest)'
  BY DEF Going
<1>1. Calm
  BY SyncCalmBefore
<1>2. CASE stage \in Early /\ stage' \in Early
  <2>1. IInv /\ Settling
    BY <1>1, <1>2 DEF Going
  <2>2. [Next]_vars
    BY <1>2, StepsOfSync DEF Beyond, Early, Equalize, Trim, Shed, ShedDone, Reselected, RestoreOperator
  <2>3. IInv' /\ Settling'
    BY <2>1, <2>2, Inductive, SettlingInductive
  <2> QED
    BY <1>2, <2>3
<1>3. CASE stage \in Early /\ stage' \notin Early
  <2>1. Reconciled
    BY <1>3 DEF Early, Enter, SyncNext, SyncStep, Meanwhile, SyncAgain, Reconciling, allVars, syncVars,
       CaptureOperator, Equalize, Measure, Trim, Trimmed, Shed, ShedDone, Reselect, ReselectFails,
       Reselected, RestoreOperator
  <2>2. Rest'
    BY <1>1, <1>3, <2>1, RestBegins DEF Going
  <2> QED
    BY <1>3, <2>2
<1>4. CASE stage \notin Early /\ stage' \in Early
  <2>1. SyncAgain
    BY <1>4 DEF Early, Enter, SyncNext, SyncStep, Meanwhile, Reconciling, Reconciled, allVars, syncVars,
       CaptureOperator, Equalize, Measure, Trim, Trimmed, Shed, ShedDone, Reselect, ReselectFails,
       Reselected, RestoreOperator
  <2>2. IInv' /\ Settling'
    BY <1>1, <1>4, <2>1, BeginsAgain DEF Going
  <2> QED
    BY <1>4, <2>2
<1>5. CASE stage \notin Early /\ stage' \notin Early
  <2>1. Rest'
    BY <1>1, <1>5, RestKept DEF Going
  <2> QED
    BY <1>5, <2>1
<1> QED
  BY <1>2, <1>3, <1>4, <1>5

SyncInv == SyncTyped /\ SyncOrder /\ Going

\* A call of sync begins before the first step of reconcile.
LEMMA SyncInitial ==
  ASSUME SyncInit
  PROVE  SyncInv
<1>1. IInv /\ pc = "snapshot" /\ path = "none" /\ seen = {}
  BY Initial DEF SyncInit, Init
<1>2. Settling
  BY <1>1 DEF Settling, Attached, AllIn, Detaching, Detached, Breaking, Rejoining, InOrder, Ordered,
     Complete, SelectSteps, Returned
<1>3. SyncTyped
  BY <1>1 DEF SyncInit, SyncTyped, IInv, Stages, Focuses, NoFocus
<1> QED
  BY <1>1, <1>2, <1>3 DEF SyncInit, SyncInv, SyncOrder, Going, Early

\* Types, order of the stages and what they achieve hold throughout.
LEMMA SyncInvariance == SyncSpec => []SyncInv
<1>1. SyncInv /\ [SyncNext]_allVars => SyncInv'
  BY SyncTypedInductive, GoingInductive DEF SyncInv
<1> QED
  BY <1>1, SyncInitial, PTL DEF SyncSpec

\* As long as nothing goes wrong the target window is there, whatever the loops
\* of the overflow stash take out of it and whatever reconcile has left.
THEOREM WindowKept == SyncSpec => []WindowSurvives
<1>1. SyncInv => WindowSurvives
  <2> SUFFICES ASSUME SyncInv, Calm  PROVE InWindow(server, Target) # {}
    BY DEF WindowSurvives
  <2>1. CASE stage \in Early
    BY <2>1 DEF SyncInv, Going, IInv, TargetKept, Calm
  <2>2. CASE stage \notin Early
    BY <2>2, RestOccupied DEF SyncInv, Going
  <2> QED
    BY <2>1, <2>2
<1> QED
  BY <1>1, SyncInvariance, PTL

-----------------------------------------------------------------------------
(* The focus, when the call ends.                                          *)

\* The focus pane is where an explicit call does not bring it to the front.
Away == IsStash(server, Target) \/ (path = "deferred" /\ server.loc[FocusPane] # Target)

Shown ==
  ~Passive /\ FocusPane \in Wanted /\ Calm /\ used.moves = 0 =>
    /\ stage = "inPlace" => Away
    /\ stage \in {"restore", "end"} => Away \/ ActivePane(server) = FocusPane

\* The selections of the operator are counted and never taken back.
LEMMA MovesCounted ==
  ASSUME SyncTyped, [SyncNext]_allVars, used'.moves = 0
  PROVE  used.moves = 0 /\ ~OperatorSelects
<1>a. used \in [deaths : Nat, fails : Nat, moves : Nat, freed : SUBSET Pane,
                     scattered : SUBSET Pane, may : Limits]
  BY DEF SyncTyped, TypeOK
<1>1. CASE UNCHANGED used \/ CountFail \/ Scatters \/ Environment
  BY <1>a, <1>1, FailCounted DEF Environment, PaneDies, OperatorSelects, PaneFrees
<1>2. UNCHANGED used \/ CountFail \/ Scatters \/ Environment
  <2>1. CASE Beyond
    BY <2>1, BeyondKeeps
  <2>2. CASE [Next]_vars
    BY <2>2, CallCounts DEF SyncTyped
  <2> QED
    BY <2>1, <2>2, StepsOfSync
<1> QED
  BY <1>1, <1>2

\* Selecting a pane shows it, if its window is of the session.
LEMMA SelectedActive ==
  ASSUME server \in Server, NEW p, Alive(server, p)
  PROVE  server.loc[p] \notin Foreign => ActivePane(Selected(server, p)) = p
<1>1. server.loc[p] \in Window
  BY DEF Alive, Server
<1> QED
  BY <1>1 DEF Selected, Activated, SelectedIn, Current, ActivePane, Server

\* Nothing but the operator takes the selection from the focus pane.
LEMMA ShownInductive ==
  ASSUME SyncInv, Shown, [SyncNext]_allVars
  PROVE  Shown'
<1> SUFFICES ASSUME ~Passive', (FocusPane \in Wanted)', Calm', used'.moves = 0,
                    stage' \in {"inPlace", "restore", "end"}
             PROVE  /\ stage' = "inPlace" => Away'
                    /\ stage' \in {"restore", "end"} => Away' \/ ActivePane(server') = FocusPane'
  BY DEF Shown
<1>a. /\ SyncTyped /\ SyncOrder /\ Going /\ server \in Server
      /\ Calm /\ ~PaneDies /\ used.moves = 0 /\ ~OperatorSelects
  BY SyncCalmBefore, MovesCounted DEF SyncInv, SyncTyped, TypeOK
<1>b. ASSUME UNCHANGED <<path, call, server>>
      PROVE  /\ ~Passive /\ FocusPane \in Wanted
             /\ FocusPane' = FocusPane /\ (Away' <=> Away)
  BY <1>b, CallKept DEF Passive, FocusPane, Away
<1>1. CASE UNCHANGED allVars \/ Meanwhile
  <2>1. UNCHANGED <<path, call, server, stage>>
    BY <1>1, <1>a DEF Meanwhile, Environment, PaneFrees, allVars, vars, syncVars, callVars, tmuxVars
  <2> QED
    BY <1>a, <1>b, <2>1 DEF Shown
<1>2. CASE Reselect
  <2>1. UNCHANGED <<path, call, server>> /\ stage = "reselect"
    BY <1>2 DEF Reselect, reconcileVars, callVars, tmuxVars
  <2>2. Alive(server, FocusPane)
    BY <1>a, <1>b, <2>1 DEF Calm
  <2>3. stage' = "inPlace" /\ Stashed(server, FocusPane)
    BY <1>2, <1>b, <2>1, <2>2 DEF Reselect, Enter, ShouldReselect
  <2>4. path # "deferred" => server.loc[FocusPane] = Target
    BY <1>a, <1>b, <2>1 DEF Going, Early, Rest
  <2>5. Away
    BY <2>3, <2>4 DEF Away, Stashed
  <2> QED
    BY <1>b, <2>1, <2>3, <2>5
<1>3. CASE ReselectFails
  <2>1. UNCHANGED <<path, call, server>> /\ ~Alive(server, FocusPane)
    BY <1>3 DEF ReselectFails, reconcileVars, callVars, tmuxVars
  <2> QED
    BY <1>a, <1>b, <2>1 DEF Calm
<1>4. CASE Reselected
  <2>1. /\ UNCHANGED <<path, call>>
        /\ stage \in {"activate", "inPlace"} /\ stage' = "restore" /\ Alive(server, FocusPane)
        /\ server' = IF stage = "activate" THEN Selected(server, FocusPane)
                     ELSE SelectedInPlace(server, FocusPane)
    BY <1>4 DEF Reselected, callVars, Enter
  <2>2. server'.loc = server.loc /\ server'.stash = server.stash
    BY <1>a, <2>1, SelectedEffect
  <2>3. /\ ~Passive /\ FocusPane \in Wanted /\ FocusPane' = FocusPane
        /\ Away' <=> Away
    BY <2>1, <2>2, CallKept DEF Passive, FocusPane, Away, IsStash, StashWindows
  <2>4. path # "deferred" => server.loc[FocusPane] = Target
    BY <1>a, <2>1, <2>3 DEF Going, Early, Rest
  <2>5. CASE stage = "inPlace"
    BY <1>a, <2>1, <2>3, <2>5 DEF Shown
  <2>6. CASE stage = "activate"
    <3>1. server.loc[FocusPane] = Target => ActivePane(server') = FocusPane
      BY <1>a, <2>1, <2>6, SelectedActive, ServerAssumption
    <3> QED
      BY <2>1, <2>3, <2>4, <3>1 DEF Away
  <2> QED
    BY <2>1, <2>5, <2>6
<1>5. CASE RestoreOperator
  <2>1. UNCHANGED <<path, call>> /\ stage = "restore" /\ stage' = "end"
    BY <1>5 DEF RestoreOperator, callVars, Enter
  <2>2. origin = NoFocus
    BY <1>a, <2>1 DEF SyncOrder, Passive
  <2>3. FocusWindow(server, origin) = Gone
    BY <2>2, ServerAssumption DEF FocusWindow, NoFocus
  <2>4. server' = server
    BY <1>5, <2>3 DEF RestoreOperator, Refocused
  <2> QED
    BY <1>a, <1>b, <2>1, <2>4 DEF Shown
<1>6. CASE Reconciling \/ Trim \/ Shed
  BY <1>6 DEF Reconciling, Trim, Shed, syncVars
<1>7. CASE CaptureOperator \/ Reconciled \/ Equalize \/ Measure \/ Trimmed \/ ShedDone \/ SyncAgain
  BY <1>7 DEF CaptureOperator, Reconciled, Equalize, Measure, Trimmed, ShedDone, SyncAgain, Enter
<1> QED
  BY <1>1, <1>2, <1>3, <1>4, <1>5, <1>6, <1>7 DEF SyncNext, SyncStep

\* An explicit sync ends with the focus pane active, if nothing has gone wrong
\* and no busy pane has kept it out of the window.
THEOREM FocusShown == SyncSpec => []FocusIsShown
<1>1. SyncInit => Shown
  BY DEF SyncInit, Shown
<1>2. SyncInv /\ Shown /\ [SyncNext]_allVars => Shown'
  BY ShownInductive
<1>3. Shown => FocusIsShown
  BY DEF Shown, FocusIsShown, Away
<1> QED
  BY <1>1, <1>2, <1>3, SyncInvariance, PTL DEF SyncSpec

\* The operator's pane is the active one, or is where the call leaves it.
Neutral ==
  stage = "end" /\ Passive /\ used.moves = 0 =>
    \/ FocusWindow(server, origin) \in server.stash \union Foreign \union {Gone}
    \/ server.cur = FocusWindow(server, origin) /\ ActivePane(server) = origin.pane

\* What tmux does on its own leaves a selected pane selected, and the name of
\* its window.
LEMMA SettledKeepsSelection ==
  ASSUME NEW loc \in [Pane -> Window \union {Gone}],
         NEW stash \in SUBSET Window,
         NEW shells \in SUBSET Window,
         NEW sel \in [Window -> Pane \union {Shell}],
         NEW cur \in Window \ Foreign,
         NEW u \in Settled(loc, stash, shells, sel, cur),
         NEW w \in Window, NEW q \in Occupants(loc, shells, w)
  PROVE  /\ w \in stash => w \in u.stash
         /\ w = cur /\ sel[w] = q => u.cur = w /\ u.sel[w] = q
<1> DEFINE occ(v) == Occupants(loc, shells, v)
<1> DEFINE selection(v, heir) ==
        IF occ(v) = {} THEN Shell
        ELSE IF sel[v] \in occ(v) THEN sel[v]
        ELSE IF heir \in occ(v) THEN heir
        ELSE CHOOSE r \in occ(v) : TRUE
<1> DEFINE result(heir, c) ==
        [loc |-> loc, stash |-> stash \intersect Live(loc, shells), shells |-> shells,
         sel |-> [v \in Window |-> selection(v, heir)], cur |-> c]
<1> DEFINE currents == IF occ(cur) # {} THEN {cur} ELSE Live(loc, shells) \ Foreign
<1>0. Settled(loc, stash, shells, sel, cur) =
        {result(heir, c) : heir \in Pane \union {Shell}, c \in currents}
  BY DEF Settled
<1>1. PICK heir \in Pane \union {Shell}, c \in currents : u = result(heir, c)
  <2> HIDE DEF result, currents
  <2> QED
    BY <1>0
<1>2. w \in Live(loc, shells)
  BY DEF Live
<1>3. u.stash = stash \intersect Live(loc, shells) /\ u.cur = c /\ u.sel[w] = selection(w, heir)
  BY <1>1
<1>4. ASSUME w = cur, sel[w] = q  PROVE c = w /\ selection(w, heir) = q
  BY <1>4
<1> QED
  BY <1>2, <1>3, <1>4

\* And nothing but the operator from the pane that restore_operator_focus selects.
LEMMA NeutralInductive ==
  ASSUME SyncInv, Neutral, [SyncNext]_allVars
  PROVE  Neutral'
<1> SUFFICES ASSUME stage' = "end", Passive', used'.moves = 0
             PROVE  \/ FocusWindow(server', origin') \in server'.stash \union Foreign \union {Gone}
                    \/ /\ server'.cur = FocusWindow(server', origin')
                       /\ ActivePane(server') = origin'.pane
  BY DEF Neutral
<1>a. /\ SyncTyped /\ SyncOrder /\ server \in Server
      /\ origin.window \in Window \union {Gone} /\ origin.pane \in Pane \union {Shell, NoPane}
      /\ used.moves = 0 /\ ~OperatorSelects
  BY MovesCounted DEF SyncInv, SyncTyped, TypeOK, Focuses
<1> DEFINE w == FocusWindow(server, origin)
<1>b. w # Gone => w \in Window /\ origin.pane \in Occupants(server.loc, server.shells, w)
  BY <1>a DEF FocusWindow, Occupants, Server
<1>1. CASE \/ UNCHANGED allVars
           \/ Meanwhile /\ ~PaneDies
  <2>1. UNCHANGED <<call, server, stage, origin>>
    BY <1>1, <1>a DEF Meanwhile, Environment, PaneFrees, allVars, vars, syncVars, tmuxVars
  <2> QED
    BY <1>a, <2>1 DEF Neutral, Passive
<1>2. CASE Meanwhile /\ PaneDies
  <2>1. PICK p \in Pane : server' \in Died(server, p)
    BY <1>2 DEF PaneDies
  <2>2. UNCHANGED <<call, stage, origin>>
    BY <1>2 DEF Meanwhile, PaneDies, syncVars
  <2> DEFINE loc == [server.loc EXCEPT ![p] = Gone]
  <2>3. /\ loc \in [Pane -> Window \union {Gone}]
        /\ server.stash \in SUBSET Window /\ server.shells \in SUBSET Window
        /\ server.sel \in [Window -> Pane \union {Shell}]
        /\ server.cur \in Window \ Foreign
        /\ server' \in Settled(loc, server.stash, server.shells, server.sel, server.cur)
    BY <1>a, <2>1 DEF Died, Server
  <2>4. server'.loc = loc /\ server'.shells = server.shells
    BY <2>3, SettledEffect, SettledShows
  <2>5. FocusWindow(server', origin') \in {w, Gone}
    BY <1>a, <2>2, <2>4 DEF FocusWindow, Server
  <2>6. CASE FocusWindow(server', origin') = Gone
    BY <2>6
  <2>7. CASE FocusWindow(server', origin') = w /\ w # Gone
    <3>1. w \in Window /\ origin.pane \in Occupants(loc, server.shells, w)
      <4>1. w \in Window /\ origin.pane \in Occupants(server.loc, server.shells, w)
        BY <1>b, <2>7
      <4>2. origin.pane # p \/ p \notin Pane
        BY <2>2, <2>4, <2>7, <1>a DEF FocusWindow, Server
      <4> QED
        BY <1>a, <4>1, <4>2 DEF Occupants, Server
    <3> HIDE DEF loc, w
    <3>2. /\ w \in server.stash => w \in server'.stash
          /\ w = server.cur /\ server.sel[w] = origin.pane
               => server'.cur = w /\ server'.sel[w] = origin.pane
      BY <2>3, <3>1, SettledKeepsSelection
    <3>3. \/ w \in server.stash \union Foreign
          \/ server.cur = w /\ server.sel[w] = origin.pane
      BY <1>a, <2>2, <2>7 DEF Neutral, Passive, w, ActivePane
    <3> QED
      BY <2>2, <2>7, <3>2, <3>3 DEF ActivePane
  <2> QED
    BY <2>5, <2>6, <2>7
<1>3. CASE ReselectFails
  BY <1>3, <1>a DEF ReselectFails, SyncOrder, reconcileVars, Passive
<1>4. CASE RestoreOperator
  <2>1. UNCHANGED <<call, origin>>
    BY <1>4 DEF RestoreOperator
  <2>2. CASE w \in server.stash \union {Gone}
    <3>1. server' = server
      BY <1>4, <2>2 DEF RestoreOperator, Refocused
    <3> QED
      BY <2>1, <2>2, <3>1
  <2>3. CASE w \notin server.stash \union {Gone}
    <3>1. server' = Activated(server, w, origin.pane) /\ w \in Window
      BY <1>4, <1>b, <2>3 DEF RestoreOperator, Refocused
    <3> HIDE DEF w
    <3>2. /\ server'.loc = server.loc /\ server'.shells = server.shells
          /\ w \notin Foreign => server'.cur = w
          /\ server'.sel[w] = origin.pane
      BY <1>a, <3>1 DEF Activated, SelectedIn, Current, Server
    <3>3. FocusWindow(server', origin') = w
      BY <2>1, <3>2 DEF FocusWindow, w
    <3> QED
      BY <2>1, <3>2, <3>3 DEF ActivePane
  <2> QED
    BY <2>2, <2>3
<1>5. CASE Reconciling \/ Trim \/ Shed
  BY <1>5 DEF Reconciling, Trim, Shed, syncVars
<1>6. CASE \/ CaptureOperator \/ Reconciled \/ Equalize \/ Measure \/ Trimmed \/ ShedDone
           \/ Reselect \/ Reselected \/ SyncAgain
  BY <1>6 DEF CaptureOperator, Reconciled, Equalize, Measure, Trimmed, ShedDone, Reselect, Reselected,
     SyncAgain, Enter
<1> QED
  BY <1>1, <1>2, <1>3, <1>4, <1>5, <1>6 DEF SyncNext, SyncStep

\* A passive sync ends with the operator's pane active, unless he has selected
\* another one meanwhile or the pane is gone, stashed or in another session.
THEOREM FocusNeutral == SyncSpec => []SyncIsFocusNeutral
<1>1. SyncInit => Neutral
  BY DEF SyncInit, Neutral
<1>2. SyncInv /\ Neutral /\ [SyncNext]_allVars => Neutral'
  BY NeutralInductive
<1>3. Neutral => SyncIsFocusNeutral
  BY DEF Neutral, SyncIsFocusNeutral, Focus
<1> QED
  BY <1>1, <1>2, <1>3, SyncInvariance, PTL DEF SyncSpec

-----------------------------------------------------------------------------
(* No stash window comes to the front in the later stages either.          *)

SyncFacing ==
  Facing /\ (stage = "activate" => FocusPane \in Pane /\ ~Stashed(server, FocusPane))

\* What the later stages show.
LEMMA BeyondShows ==
  ASSUME SyncTyped, SyncFacing, Beyond
  PROVE  Consistent(server') /\ Hidden
<1>a. /\ server \in Server /\ Consistent(server)
      /\ origin \in Focuses
  BY DEF SyncTyped, SyncFacing, Facing, TypeOK
<1>b. Shows(server, server') => Consistent(server') /\ Hidden
  BY DEF Shows, Hidden
<1>1. CASE UNCHANGED server
  BY <1>a, <1>b, <1>1 DEF Shows
<1>2. ASSUME NEW p, NEW ps, Stash(p, ps)
      PROVE  Consistent(server') /\ Hidden
  BY <1>a, <1>b, <1>2, StashesShow DEF Stash
<1>3. CASE Reselected
  <2>1. /\ Alive(server, FocusPane)
        /\ server' = IF stage = "activate" THEN Selected(server, FocusPane)
                     ELSE SelectedInPlace(server, FocusPane)
    BY <1>3 DEF Reselected
  <2>2. server'.stash = server.stash /\ Consistent(server')
    BY <1>a, <2>1, SelectedEffect, SelectedShows
  <2>3. server'.cur # server.cur => server'.cur \notin server.stash
    BY <1>a, <2>1, SelectedShows DEF SyncFacing, Stashed, IsStash, StashWindows
  <2> QED
    BY <2>2, <2>3 DEF Hidden
<1>4. CASE RestoreOperator
  <2>1. CASE FocusWindow(server, origin) \in server.stash
    BY <1>1, <1>4, <2>1 DEF RestoreOperator
  <2>2. CASE FocusWindow(server, origin) \notin server.stash
    <3>1. server' = Refocused(server, origin)
      BY <1>4, <2>2 DEF RestoreOperator
    <3>2. server'.stash = server.stash
      BY <1>a, <3>1, RefocusedEffect DEF Focuses
    <3>3. Consistent(server') /\ (server'.cur # server.cur => server'.cur \notin server.stash)
      BY <1>a, <2>2, <3>1, RefocusedShows
    <3> QED
      BY <3>2, <3>3 DEF Hidden
  <2> QED
    BY <2>1, <2>2
<1> QED
  BY <1>1, <1>2, <1>3, <1>4 DEF Beyond, Equalize, Trim, Shed, ShedDone

\* No step of a whole call shows a stash window, and SyncFacing is kept.
LEMMA SyncShows ==
  ASSUME SyncInv, SyncFacing, [SyncNext]_allVars
  PROVE  SyncFacing' /\ Hidden
<1>a. /\ SyncTyped /\ SyncOrder /\ TypeOK /\ PathKept /\ Facing /\ server \in Server
      /\ SyncTyped' /\ SyncOrder'
  BY SyncTypedInductive DEF SyncInv, SyncTyped, SyncFacing, TypeOK
<1>1. Consistent(server') /\ Hidden
  BY <1>a, StepShows, BeyondShows, StepsOfSync
<1>2. ActivateReady' /\ GuardReady'
  <2>1. CASE [Next]_vars
    BY <1>a, <2>1, LooksKept
  <2>2. CASE Beyond
    <3>1. pc' = "done"
      BY <1>a, <2>2 DEF Beyond, SyncOrder, Early, Enter, Equalize, Trim, Shed, ShedDone, Reselected,
         RestoreOperator
    <3> QED
      BY <3>1 DEF ActivateReady, GuardReady
  <2> QED
    BY <2>1, <2>2, StepsOfSync
<1>3. ASSUME stage' = "activate"  PROVE FocusPane' \in Pane /\ ~Stashed(server', FocusPane')
  <2>1. CASE Reselect
    BY <1>3, <2>1 DEF Reselect, Enter, reconcileVars, tmuxVars, FocusPane, Alive
  <2>2. CASE UNCHANGED allVars \/ Meanwhile
    <3>1. stage = "activate" /\ call' = call
      BY <1>a, <1>3, <2>2, EnvironmentKeeps DEF Meanwhile, allVars, syncVars, vars
    <3>2. Environment \/ UNCHANGED vars
      BY <2>2 DEF Meanwhile, allVars
    <3>3. FocusPane \in Pane /\ ~Stashed(server, FocusPane) /\ FocusPane' = FocusPane
      BY <3>1 DEF SyncFacing, FocusPane
    <3>4. Consistent(server)
      BY DEF SyncFacing, Facing
    <3>5. server'.stash \subseteq server.stash
      BY <1>a, <3>2, <3>4, EnvironmentShows
    <3>6. server'.loc[FocusPane] = server.loc[FocusPane] \/ server'.loc[FocusPane] = Gone
      BY <1>a, <3>2, <3>3, EnvironmentKeeps DEF Stays
    <3>7. Gone \notin server'.stash
      BY <1>a, <3>5, ServerAssumption DEF Server
    <3> QED
      BY <3>3, <3>5, <3>6, <3>7 DEF Stashed, IsStash, StashWindows
  <2> QED
    BY <1>3, <2>1, <2>2 DEF SyncNext, SyncStep, SyncAgain, Enter, CaptureOperator, Reconciling,
       Reconciled, Equalize, Measure, Trimmed, Trim, Shed, ShedDone, ReselectFails, Reselected,
       RestoreOperator, syncVars
<1> QED
  BY <1>1, <1>2, <1>3 DEF SyncFacing, Facing


\* No stash window comes to the front on its own during a whole call either,
\* whatever Phase 6 and the overflow stash move and the reselection selects.
THEOREM StashHiddenThroughout == SyncSpec => StashStaysHidden
<1>1. SyncInit => SyncFacing
  BY StartsAssumption DEF SyncInit, Init, Starts, SyncFacing, Facing, ActivateReady, GuardReady
<1>2. SyncInv /\ SyncFacing /\ [SyncNext]_allVars => SyncFacing' /\ [Hidden]_vars
  BY SyncShows
<1>3. StashStaysHidden <=> [][Hidden]_vars
  BY DEF StashStaysHidden, Hidden
<1> QED
  BY <1>1, <1>2, <1>3, SyncInvariance, PTL DEF SyncSpec

=============================================================================
