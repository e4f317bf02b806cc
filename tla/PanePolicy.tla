------------------------------ MODULE PanePolicy ------------------------------
(***************************************************************************)
(* PaneMoveOp (pane_policy.rs) on top of the pane snapshot: the sessions   *)
(* of the two panes are asked for, one after the other, before a join or a *)
(* swap; unless the caller allows it, panes of two sessions are not moved. *)
(* The answers come from the cached listing where a scope is open.  A      *)
(* query that fails, for whatever reason, lets the move through.           *)
(***************************************************************************)
EXTENDS PaneSnapshot

VARIABLES
  move,   \* the PaneMoveOp the thread is in
  drifted \* panes changed by others since the sessions were asked for, or the
          \* listing was taken that answers

policyVars == <<vars, move, drifted>>

\* erred: the panes, of those that are there, that a query has failed for.
NoMove == [step |-> "none", src |-> NoPane, dst |-> NoPane, allow |-> FALSE,
           session |-> Absent, erred |-> {}]

\* Whether a listing names the session of p.
Answered(c, p) == c # NoListing /\ c[p] # Absent

\* pane_session, with the listing c: a pane that is in it has the session it
\* says.  Another is asked for on its own, which may fail (Absent), and does for
\* a pane that does not exist.
PaneSession(c, p) == IF Answered(c, p) THEN {c[p]} ELSE {Listed(p), Absent}

\* A query of p that answers s.
Erred(s, p) == IF s = Absent /\ Listed(p) # Absent THEN {p} ELSE {}

\* The count of the others' changes starts with a listing, but not between the
\* two answers of a move, and where there is none with the first answer.
Drifts(P) ==
  drifted' = IF \/ cached' = NoListing /\ move'.step \in {"none", "source"}
                \/ cached' \notin {cached, NoListing} /\ move.step # "target"
             THEN {} ELSE drifted \union P

\* Mutant: the sessions are not compared.
Refuses_Never(s, d, allow) == FALSE

\* check_session: only two different answers without permission refuse the move.
Refuses(s, d, allow) == s # Absent /\ d # Absent /\ s # d /\ ~allow

\* PaneMoveOp::new and allow_cross_session
MoveOp(p, q, allow) ==
  /\ move = NoMove /\ At("idle") /\ p # q /\ p \in born /\ q \in born
  /\ move' = [NoMove EXCEPT !.step = "source", !.src = p, !.dst = q, !.allow = allow]
  /\ UNCHANGED vars
  /\ Drifts({})

\* A failed query of the source ends the check.
AskSource ==
  /\ move.step = "source"
  /\ Sample
  /\ \E s \in PaneSession(cached', move.src) :
       move' = [move EXCEPT !.step = IF s = Absent THEN "move" ELSE "target",
                            !.session = s, !.erred = Erred(s, move.src)]
  /\ Drifts({})
  /\ UNCHANGED <<serverVars, depth, job, known>>

AskTarget ==
  /\ move.step = "target"
  /\ Sample
  /\ \E s \in PaneSession(cached', move.dst) :
       move' = IF Refuses(move.session, s, move.allow) THEN NoMove
               ELSE [move EXCEPT !.step = "move", !.erred = Erred(s, move.dst)]
  /\ Drifts({})
  /\ UNCHANGED <<serverVars, depth, job, known>>

\* join or swap, which tmux may refuse.
DoMove ==
  /\ move.step = "move"
  /\ JoinPane(move.src, move.dst) \/ SwapPane(move.src, move.dst) \/ UNCHANGED vars
  /\ move' = NoMove
  /\ Drifts({})

PolicyInit == Init /\ move = NoMove /\ drifted = {}

\* Everything else the thread does.
Otherwise == move = NoMove /\ Step /\ UNCHANGED move /\ Drifts({})

\* What others do to panes.
Interference == Others /\ UNCHANGED move /\ Drifts({p \in Pane : place'[p] # place[p]})

PolicyNext ==
  \/ Otherwise \/ Interference
  \/ \E p, q \in Pane, allow \in BOOLEAN : MoveOp(p, q, allow)
  \/ AskSource \/ AskTarget \/ DoMove

PolicySpec == PolicyInit /\ [][PolicyNext]_policyVars

-----------------------------------------------------------------------------
(* Properties.                                                             *)

\* Both answers were had, and nothing has changed behind them.
Accurate == {move.src, move.dst} \intersect (drifted \union untold \union move.erred) = {}

\* A move without permission takes a pane into another session only if a query of
\* a pane that is there failed (the policy then lets the move through), or others
\* changed one of the two panes since the answers, or the thread itself by an
\* operation that leaves the listing in place.  The failed query of a pane that
\* does not exist is no such way: tmux refuses that move.
DeniedStaysHome ==
  [][move.step = "move" /\ move' = NoMove /\ ~move.allow /\ Accurate =>
       \A p \in Pane : Listed(p)' = Listed(p)]_policyVars

=============================================================================
