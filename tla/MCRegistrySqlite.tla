--------------------------- MODULE MCRegistrySqlite ---------------------------
(***************************************************************************)
(* Instances of RegistrySqlite for TLC: two threads, two keys of which the *)
(* actor uses one, and two panes.  Entries are registered with one window, *)
(* which a window update changes.  The key that has no document is also    *)
(* the session_id of what is stored under the other.                       *)
(***************************************************************************)
EXTENDS RegistrySqlite, TLC

CONSTANTS k1, k2, p1, p2, w1, w2

Bare(p) == [pane |-> p, window |-> w1, started |-> 1]

Call(c, k, p) == [kind |-> c, key |-> k, entry |-> Bare(p)]

AllCalls ==
  {Call("bind", k1, p1), [kind |-> "unbind", key |-> k2]}
    \union {Call("register", k2, p1), [kind |-> "unregister", key |-> k1]}
    \union {Call("describe", k1, p2), [kind |-> "window", pane |-> p2, window |-> w2]}
    \union {[kind |-> "lookup", key |-> k2]} \union PruneOps

MCAliases == [n \in Stamp |-> {k2}]

MCCorrupt == {Bare(p2)}

Documents == {[pane |-> p2, window |-> w1, started |-> 1, closed |-> c] : c \in BOOLEAN}

MCSymmetry == Permutations(Thread)

=============================================================================
