----------------------------- MODULE RegistryMap -----------------------------
(***************************************************************************)
(* A registry as a value (registry.rs: Registry, RegistryEntry): a partial *)
(* map from keys to entries, and what the operations compute from it.  An  *)
(* entry keeps what the operations compare or treat apart: its pane, its   *)
(* window, and the time it was started for the rest of its metadata.       *)
(***************************************************************************)
EXTENDS Naturals

CONSTANTS Key, Pane, Window,
          Stamp,    \* values of "started"
          NoEntry   \* not an entry

ASSUME MapAssumption == /\ Stamp \subseteq Nat
                        /\ NoEntry \notin [pane : Pane, window : Window, started : Stamp]

Entry == [pane : Pane, window : Window, started : Stamp]

Registries == [Key -> Entry \union {NoEntry}]

Empty == [k \in Key |-> NoEntry]

Bound(r) == {k \in Key : r[k] # NoEntry}

Only(r, K) == [k \in Key |-> IF k \in K THEN r[k] ELSE NoEntry]

With(r, j, e) == [k \in Key |-> IF k = j THEN e ELSE r[k]]

\* The window of every entry of the pane is set.
Moved(r, p, w) ==
  [k \in Key |-> IF k \in Bound(r) /\ r[k].pane = p THEN [r[k] EXCEPT !.window = w] ELSE r[k]]

\* The metadata of an entry is replaced; its pane and window stay.
Described(r, j, e) ==
  With(r, j, IF j \in Bound(r) THEN [r[j] EXCEPT !.started = e.started] ELSE e)

SamePane(r, j, k) == r[j].pane = r[k].pane

\* The operations a thread can call.
BindOps     == [kind : {"bind"}, key : Key, entry : Entry]
UnbindOps   == [kind : {"unbind"}, key : Key]
WindowOps   == [kind : {"window"}, pane : Pane, window : Window]
DescribeOps == [kind : {"describe"}, key : Key, entry : Entry]
PruneOps    == [kind : {"prune"}]
Ops == BindOps \union UnbindOps \union WindowOps \union DescribeOps \union PruneOps

\* Mutant: the entries of one pane are not deduplicated.
Kept_Twins(r, A, S) == S = {k \in Bound(r) : r[k].pane \in A}

\* The entries of dead panes go, and those of one pane except a newest.
Kept(r, A, S) ==
  /\ \A k \in S : r[k].pane \in A
  /\ \A j, k \in S : SamePane(r, j, k) => j = k
  /\ \A k \in Bound(r) : r[k].pane \in A =>
       \E j \in S : SamePane(r, j, k) /\ r[j].started >= r[k].started

Results(o, r, A) ==
  IF o \in PruneOps THEN {Only(r, S) : S \in {T \in SUBSET Bound(r) : Kept(r, A, T)}}
  ELSE { CASE o \in BindOps     -> With(r, o.key, o.entry)
           [] o \in UnbindOps   -> With(r, o.key, NoEntry)
           [] o \in WindowOps   -> Moved(r, o.pane, o.window)
           [] o \in DescribeOps -> Described(r, o.key, o.entry) }

=============================================================================
