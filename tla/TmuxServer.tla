----------------------------- MODULE TmuxServer -----------------------------
(***************************************************************************)
(* A tmux server as the wrappers of tmux.rs read and change it: which      *)
(* window every pane is in, which windows are named "stash", the selected  *)
(* pane of each window and the current window of the session of the        *)
(* layout.  tmux runs one command at a time, so each wrapper that is one   *)
(* command is one operator from a server state to the set of states it can *)
(* lead to.                                                                *)
(*                                                                         *)
(* A window exists as long as it holds a pane.  The shells that new-window *)
(* starts (the placeholder of break_pane, the first pane of a new stash    *)
(* window) are not panes of a document: "shells" is the set of windows     *)
(* that hold one, and Shell stands for it where a pane is selected.        *)
(***************************************************************************)
EXTENDS Naturals, FiniteSets

CONSTANTS Pane,    \* panes of the documents and of the operator
          Window,  \* window ids
          Target,  \* the window the layout is built in
          Foreign, \* the windows of other sessions than Target's
          Shell,   \* an anonymous shell pane
          NoPane   \* the absence of a pane (Option::None, empty id)

Gone == 0

ASSUME ServerAssumption ==
  /\ Window \subseteq Nat \ {Gone}
  /\ Foreign \subseteq Window
  /\ Target \in Window \ Foreign
  /\ Shell \notin Pane
  /\ NoPane \notin Pane \union {Shell}
  /\ IsFiniteSet(Pane)

Server == [loc    : [Pane -> Window \union {Gone}],
           stash  : SUBSET Window,
           shells : SUBSET Window,
           sel    : [Window -> Pane \union {Shell}],
           cur    : Window \ Foreign]

Alive(s, p)     == p \in Pane /\ s.loc[p] # Gone
InWindow(s, w)  == {p \in Pane : s.loc[p] = w}
ActiveWindow(s) == s.cur
ActivePane(s)   == s.sel[s.cur]

\* find_all_stash_windows, of the session of the layout or of a pane's own.
StashWindows(s) == s.stash
IsStash(s, w)   == w \in StashWindows(s)
Stashed(s, p)   == IsStash(s, s.loc[p])

Occupants(loc, shells, w) ==
  {p \in Pane : loc[p] = w} \union (IF w \in shells THEN {Shell} ELSE {})

Live(loc, shells) == {w \in Window : Occupants(loc, shells, w) # {}}

\* Every window has selected one of its panes, and the current one exists.
Consistent(s) ==
  /\ s.cur \in Live(s.loc, s.shells)
  /\ \A w \in Live(s.loc, s.shells) : s.sel[w] \in Occupants(s.loc, s.shells, w)

\* new-window in the session: new ids are taken in order; an id is free when no
\* window has it, and that of Target is not used again when it has closed.
FreshWindow(s) ==
  LET free(w) == w \notin Foreign \union {Target} /\ Occupants(s.loc, s.shells, w) = {}
  IN  {w \in Window : free(w) /\ \A v \in Window : free(v) => w <= v}

-----------------------------------------------------------------------------
(* What tmux does on its own when panes have moved: a window left without  *)
(* a pane closes, a window that lost its selected pane selects another one *)
(* (heir), a session that lost its current window turns to another one.    *)

Settled(loc, stash, shells, sel, cur) ==
  LET occ(w) == Occupants(loc, shells, w)
      selection(w, heir) ==
        IF occ(w) = {} THEN Shell
        ELSE IF sel[w] \in occ(w) THEN sel[w]
        ELSE IF heir \in occ(w) THEN heir
        ELSE CHOOSE q \in occ(w) : TRUE
  IN  {[loc |-> loc, stash |-> stash \intersect Live(loc, shells), shells |-> shells,
        sel |-> [w \in Window |-> selection(w, heir)], cur |-> c] :
          heir \in Pane \union {Shell},
          c \in IF occ(cur) # {} THEN {cur} ELSE Live(loc, shells) \ Foreign}

MovedTo(s, p, w) ==
  Settled([s.loc EXCEPT ![p] = w], s.stash, s.shells, s.sel, s.cur)

\* join-pane -d: p moves next to t, in whichever window t is.
Joined(s, p, t) ==
  IF Alive(s, p) /\ Alive(s, t) /\ p # t THEN MovedTo(s, p, s.loc[t]) ELSE {}

\* swap-pane -d: the panes trade places; where one was selected, the other is.
Swapped(s, a, b) ==
  IF ~Alive(s, a) \/ ~Alive(s, b) THEN {}
  ELSE {[s EXCEPT
          !.loc = [@ EXCEPT ![a] = s.loc[b], ![b] = s.loc[a]],
          !.sel = [w \in Window |-> IF s.sel[w] = a THEN b
                                    ELSE IF s.sel[w] = b THEN a ELSE s.sel[w]]]}

\* break_pane: new-window -d, join the pane to its placeholder, kill the
\* placeholder: the pane ends alone in a new window.
Broken(s, p) ==
  IF Alive(s, p) THEN UNION {MovedTo(s, p, w) : w \in FreshWindow(s)} ELSE {}

\* find_stash_window lists the session's windows, in the order of their indexes.
SessionStash(s) == s.stash \ Foreign

\* ensure_stash_window: a window named "stash", created with its shell if none is.
WithStash(s) ==
  IF SessionStash(s) # {} THEN {s}
  ELSE {[s EXCEPT !.stash = @ \union {w}, !.shells = @ \union {w},
                  !.sel = [@ EXCEPT ![w] = Shell]] : w \in FreshWindow(s)}

\* stash_pane when its join succeeds: p joins the first stash window listed.
JoinedStash(s, p) ==
  UNION {UNION {MovedTo(u, p, w) : w \in SessionStash(u)} : u \in WithStash(s)}

\* Mutant: the rename of the new window is forgotten.
BrokenToStash_Unnamed(s, p) ==
  UNION {UNION {MovedTo(u, p, w) : w \in FreshWindow(u)} : u \in WithStash(s)}

\* break_pane_to_stash: p alone in a new window, which is renamed "stash".
BrokenToStash(s, p) ==
  UNION {UNION {Settled([u.loc EXCEPT ![p] = w], u.stash \union {w}, u.shells, u.sel, u.cur) :
                  w \in FreshWindow(u)} : u \in WithStash(s)}

\* stash_pane succeeds and leaves p alone in a window of another name: it found no
\* stash window and could not make one, so it called break_pane; or the window of
\* break_pane_to_stash could not be asked for or renamed, which is ignored.
Scattered(s, p) == UNION {Broken(u, p) : u \in {s} \union WithStash(s)}

\* select-window: the window becomes the current one of its own session.
Current(s, w) == IF w \in Foreign THEN s.cur ELSE w

\* select_pane_preserving_window: select-pane alone.
SelectedIn(s, w, q) == [s EXCEPT !.sel = [@ EXCEPT ![w] = q]]
SelectedInPlace(s, p) == SelectedIn(s, s.loc[p], p)

\* select_pane: select-window and select-pane on the window p is in now.
Activated(s, w, q) == [SelectedIn(s, w, q) EXCEPT !.cur = Current(s, w)]
Selected(s, p) == Activated(s, s.loc[p], p)

\* What the operator looks at: the current window and its selected pane.
NoFocus == [window |-> Gone, pane |-> NoPane]
Focus(s) == [window |-> ActiveWindow(s), pane |-> ActivePane(s)]

\* The window a remembered focus is in now; Gone when its pane has died.
FocusWindow(s, f) ==
  IF f.pane \in Pane THEN s.loc[f.pane]
  ELSE IF f.pane = Shell /\ f.window \in s.shells THEN f.window
  ELSE Gone

\* Mutant: the window is selected, and not the pane.
Refocused_Window(s, f) ==
  IF FocusWindow(s, f) = Gone THEN s ELSE [s EXCEPT !.cur = Current(s, FocusWindow(s, f))]

\* select_pane on the pane of a remembered focus, if it is alive.
Refocused(s, f) ==
  IF FocusWindow(s, f) = Gone THEN s ELSE Activated(s, FocusWindow(s, f), f.pane)

\* A pane's process exits and tmux removes the pane.
Died(s, p) == Settled([s.loc EXCEPT ![p] = Gone], s.stash, s.shells, s.sel, s.cur)

=============================================================================
