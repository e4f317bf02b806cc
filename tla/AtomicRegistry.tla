--------------------------- MODULE AtomicRegistry ---------------------------
(***************************************************************************)
(* What the operations of a registry promise their callers: each call      *)
(* takes effect at one moment between its start and its return, on the     *)
(* registry as it is at that moment, or fails and has no effect.           *)
(***************************************************************************)
EXTENDS RegistryMap

CONSTANTS Thread,
          NoOp      \* no call

VARIABLES
  reg,   \* the registry
  op,    \* the call each thread is in
  done,  \* the threads whose call has taken effect
  alive  \* the panes that exist and are alive

vars == <<reg, op, done, alive>>

Init ==
  /\ reg = Empty
  /\ op = [t \in Thread |-> NoOp]
  /\ done = {}
  /\ alive = {}

Call(t, o) ==
  /\ op[t] = NoOp
  /\ op' = [op EXCEPT ![t] = o]
  /\ UNCHANGED <<reg, done, alive>>

\* A prune keeps one entry for a pane at most, and drops the entry of a live
\* pane only for one of the same pane that is at least as new.
PruneKeeps(S) ==
  /\ \A j, k \in S : SamePane(reg, j, k) => j = k
  /\ \A k \in Bound(reg) \ S : reg[k].pane \in alive =>
       \E j \in S : SamePane(reg, j, k) /\ reg[j].started >= reg[k].started

Effect(o) ==
  \/ o \in BindOps /\ reg' = With(reg, o.key, o.entry)
  \/ o \in UnbindOps /\ reg' = With(reg, o.key, NoEntry)
  \/ o \in WindowOps /\ reg' = Moved(reg, o.pane, o.window)
  \/ o \in DescribeOps /\ reg' = Described(reg, o.key, o.entry)
  \/ /\ o \in PruneOps
     /\ \E S \in SUBSET Bound(reg) : PruneKeeps(S) /\ reg' = Only(reg, S)

Commit(t) ==
  /\ op[t] # NoOp /\ t \notin done
  /\ Effect(op[t])
  /\ done' = done \union {t}
  /\ UNCHANGED <<op, alive>>

\* With its effect, or by an error without it.
Return(t) ==
  /\ op[t] # NoOp
  /\ op' = [op EXCEPT ![t] = NoOp]
  /\ done' = done \ {t}
  /\ UNCHANGED <<reg, alive>>

PanesChange == alive' \in SUBSET Pane /\ UNCHANGED <<reg, op, done>>

Next ==
  \/ \E t \in Thread : (\E o \in Ops : Call(t, o)) \/ Commit(t) \/ Return(t)
  \/ PanesChange

Spec == Init /\ [][Next]_vars

=============================================================================
