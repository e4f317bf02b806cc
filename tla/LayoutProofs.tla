----------------------------- MODULE LayoutProofs -----------------------------
(***************************************************************************)
(* Lemmas about the operators the models are built from: induction and     *)
(* recursion over the naturals, stated with sets and functions instead of  *)
(* operators, so that the provers can use them; what Filter keeps of a     *)
(* sequence of any length; flattening; and which columns a geometry that   *)
(* tmux reports stands for, and what is left of them when panes go.        *)
(***************************************************************************)
EXTENDS TmuxLayout, Integers, FiniteSetTheorems, WellFoundedInduction, TLAPS

-----------------------------------------------------------------------------
(* Induction and recursion.                                                *)

\* A set of naturals has a least element.
LEMMA Least ==
  ASSUME NEW T \in SUBSET Nat, T # {}
  PROVE  \E x \in T : \A y \in T : x <= y
<1>1. \E x \in T : \A y \in T : ~(<<y, x>> \in OpToRel(<, Nat))
  BY NatLessThanWellFounded, WFMin
<1>2. \A x, y \in Nat : y < x => <<y, x>> \in OpToRel(<, Nat)
  BY DEF OpToRel
<1>3. PICK x \in T : \A y \in T : ~(y < x)
  BY <1>1, <1>2, Zenon
<1> QED
  BY <1>3

\* What holds at the start, and after each step if it holds before it, holds
\* throughout.
LEMMA Induction ==
  ASSUME NEW n \in Nat, NEW T, 0 \in T, \A i \in 0..(n - 1) : i \in T => i + 1 \in T
  PROVE  0..n \subseteq T
<1> SUFFICES ASSUME (0..n) \ T # {} PROVE FALSE
  OBVIOUS
<1>1. PICK m \in (0..n) \ T : \A x \in (0..n) \ T : m <= x
  <2>1. (0..n) \ T \in SUBSET Nat
    OBVIOUS
  <2> QED
    BY <2>1, Least
<1>2. m # 0 /\ m - 1 \in 0..(n - 1) /\ m - 1 < m
  BY <1>1
<1>3. m - 1 \in T
  BY <1>1, <1>2
<1> QED
  BY <1>1, <1>2, <1>3

\* f starts at c and follows step.
Iterates(f, n, c, step) == f[0] = c /\ \A i \in 1..n : f[i] = step[<<i, f[i - 1]>>]

\* A function on 0..n can be given by its first value and a step.
LEMMA Recursion ==
  ASSUME NEW n \in Nat, NEW S, NEW c \in S, NEW step \in [(1..n) \X S -> S]
  PROVE  \E f \in [0..n -> S] : Iterates(f, n, c, step)
<1> DEFINE Upto(m) ==
      \E f \in [0..m -> S] : f[0] = c /\ \A i \in 1..m : f[i] = step[<<i, f[i - 1]>>]
<1> DEFINE T == {m \in 0..n : Upto(m)}
<1>1. Upto(0)
  <2> DEFINE g == [i \in 0..0 |-> c]
  <2>1. g \in [0..0 -> S] /\ g[0] = c /\ 1..0 = {}
    OBVIOUS
  <2> HIDE DEF g
  <2> QED
    BY <2>1
<1>2. ASSUME NEW m \in 0..(n - 1), Upto(m) PROVE Upto(m + 1)
  <2>1. PICK f \in [0..m -> S] : f[0] = c /\ \A i \in 1..m : f[i] = step[<<i, f[i - 1]>>]
    BY <1>2
  <2>2. step[<<m + 1, f[m]>>] \in S
    BY <2>1
  <2> DEFINE g == [i \in 0..(m + 1) |-> IF i = m + 1 THEN step[<<m + 1, f[m]>>] ELSE f[i]]
  <2>3. g \in [0..(m + 1) -> S]
    BY <2>2
  <2>4. g[0] = c
    BY <2>1
  <2>5. ASSUME NEW i \in 1..(m + 1) PROVE g[i] = step[<<i, g[i - 1]>>]
    <3>1. g[i - 1] = f[i - 1]
      OBVIOUS
    <3>2. CASE i = m + 1
      <4>1. i - 1 = m /\ g[i] = step[<<m + 1, f[m]>>]
        BY <3>2
      <4> QED
        BY <3>1, <3>2, <4>1
    <3>3. CASE i # m + 1
      BY <2>1, <3>1, <3>3
    <3> QED
      BY <3>2, <3>3
  <2> HIDE DEF g
  <2> QED
    BY <2>3, <2>4, <2>5
<1>3. 0 \in T
  BY <1>1
<1>4. \A m \in 0..(n - 1) : m \in T => m + 1 \in T
  BY <1>2
<1> HIDE DEF T
<1>5. n \in T
  BY <1>3, <1>4, Induction
<1> QED
  BY <1>5 DEF T, Iterates

-----------------------------------------------------------------------------
(* What is kept.                                                           *)

\* f[i] is what is kept of the first i entries.
Builds(s, K, f) ==
  /\ f[0] = <<>>
  /\ \A i \in 1..Len(s) : f[i] = IF s[i] \in K THEN Append(f[i - 1], s[i]) ELSE f[i - 1]

\* The entries of t are those of the first m of s that are in K, and "at" has
\* their positions, which increase.
Picks(s, m, K, t, at) ==
  /\ at \in [1..Len(t) -> 1..m]
  /\ \A i, j \in 1..Len(t) : i < j => at[i] < at[j]
  /\ \A i \in 1..Len(t) : t[i] = s[at[i]] /\ s[at[i]] \in K
  /\ \A j \in 1..m : s[j] \in K => \E i \in 1..Len(t) : at[i] = j

\* Retained is the last value of its recursion.
LEMMA RetainedRecursion ==
  ASSUME NEW S, NEW s \in Seq(S), NEW K
  PROVE  \E f \in [0..Len(s) -> Seq(S)] : Builds(s, K, f) /\ Retained(s, K) = f[Len(s)]
<1> DEFINE n == Len(s)
           step == [x \in (1..n) \X Seq(S) |->
                      IF s[x[1]] \in K THEN Append(x[2], s[x[1]]) ELSE x[2]]
           Rec(g) == [i \in 0..n |-> IF i = 0 THEN <<>>
                                     ELSE IF s[i] \in K THEN Append(g[i - 1], s[i]) ELSE g[i - 1]]
           retained == CHOOSE g : g = Rec(g)
<1>1. n \in Nat /\ <<>> \in Seq(S) /\ \A i \in 1..n : s[i] \in S
  OBVIOUS
<1>2. step \in [(1..n) \X Seq(S) -> Seq(S)]
  <2>1. ASSUME NEW x \in (1..n) \X Seq(S)
        PROVE  (IF s[x[1]] \in K THEN Append(x[2], s[x[1]]) ELSE x[2]) \in Seq(S)
    <3>1. x[2] \in Seq(S) /\ s[x[1]] \in S
      BY <1>1
    <3> QED
      BY <3>1
  <2> QED
    BY <2>1
<1>3. PICK f \in [0..n -> Seq(S)] : Iterates(f, n, <<>>, step)
  <2> HIDE DEF step, n
  <2> QED
    BY <1>1, <1>2, Recursion
<1>4. ASSUME NEW i \in 1..n
      PROVE  f[i] = IF s[i] \in K THEN Append(f[i - 1], s[i]) ELSE f[i - 1]
  <2>1. f[i - 1] \in Seq(S)
    <3>1. i - 1 \in 0..n
      BY <1>1
    <3> HIDE DEF n, step, Rec, retained
    <3> QED
      BY <3>1
  <2>2. f[i] = step[<<i, f[i - 1]>>]
    BY <1>3 DEF Iterates
  <2> QED
    BY <2>1, <2>2
<1>5. f = Rec(f)
  <2> HIDE DEF n, step
  <2>1. ASSUME NEW i \in 0..n PROVE f[i] = Rec(f)[i]
    <3>1. i = 0 \/ i \in 1..n
      BY <1>1
    <3> QED
      BY <1>3, <1>4, <3>1 DEF Iterates
  <2>2. f = [i \in 0..n |-> f[i]] /\ Rec(f) = [i \in 0..n |-> Rec(f)[i]]
    OBVIOUS
  <2> HIDE DEF Rec
  <2> QED
    BY <2>1, <2>2
<1>6. retained = Rec(retained)
  <2> HIDE DEF Rec
  <2> QED
    BY <1>5
<1>7. Retained(s, K) = retained[n]
  BY DEF Retained
<1>8. 0..n \subseteq {i \in 0..n : retained[i] = f[i]}
  <2> DEFINE T == {i \in 0..n : retained[i] = f[i]}
  <2> HIDE DEF retained, n
  <2>1. 0 \in T
    BY <1>1, <1>3, <1>6 DEF Iterates
  <2>2. ASSUME NEW i \in 0..(n - 1), i \in T PROVE i + 1 \in T
    <3>1. i + 1 \in 1..n /\ (i + 1) - 1 = i /\ i + 1 # 0 /\ i + 1 \in 0..n
      BY <1>1
    <3>2. retained[i + 1] = IF s[i + 1] \in K THEN Append(retained[i], s[i + 1]) ELSE retained[i]
      BY <1>6, <3>1
    <3>3. f[i + 1] = IF s[i + 1] \in K THEN Append(f[i], s[i + 1]) ELSE f[i]
      BY <1>4, <3>1
    <3> QED
      BY <2>2, <3>1, <3>2, <3>3
  <2> HIDE DEF T
  <2>3. 0..n \subseteq T
    BY <1>1, <2>1, <2>2, Induction
  <2> QED
    BY <2>3 DEF T
<1>9. Retained(s, K) = f[n]
  <2> HIDE DEF retained, n
  <2>1. n \in 0..n
    BY <1>1
  <2> QED
    BY <1>7, <1>8, <2>1
<1>10. Builds(s, K, f)
  BY <1>3, <1>4 DEF Builds, Iterates
<1> HIDE DEF step, Rec, retained
<1> QED
  BY <1>9, <1>10

\* The entries kept are those in K, at increasing positions.
LEMMA RetainedPositions ==
  ASSUME NEW S, NEW s \in Seq(S), NEW K
  PROVE  /\ Retained(s, K) \in Seq(S)
         /\ \E at : Picks(s, Len(s), K, Retained(s, K), at)
<1> DEFINE n == Len(s)
<1>0. PICK f \in [0..n -> Seq(S)] : Builds(s, K, f) /\ Retained(s, K) = f[n]
  BY RetainedRecursion
<1>1. f[0] = <<>> /\ \A i \in 1..n : f[i] = IF s[i] \in K THEN Append(f[i - 1], s[i]) ELSE f[i - 1]
  BY <1>0 DEF Builds
<1>2. n \in Nat /\ \A i \in 1..n : s[i] \in S
  OBVIOUS
<1> DEFINE Good(m, at) == Picks(s, m, K, f[m], at)
<1> DEFINE T == {m \in 0..n : \E at : Good(m, at)}
<1> HIDE DEF n
<1>3. 0 \in T
  <2>1. 1..Len(f[0]) = {} /\ 1..0 = {}
    BY <1>1
  <2>2. Good(0, [i \in {} |-> 0])
    BY <2>1 DEF Picks
  <2> QED
    BY <1>2, <2>2
<1>4. ASSUME NEW m \in 0..(n - 1), m \in T PROVE m + 1 \in T
  <2>1. PICK at : Good(m, at)
    BY <1>4
  <2>2. m \in 0..n /\ m + 1 \in 1..n /\ m + 1 \in 0..n /\ (m + 1) - 1 = m /\ m \in Nat
    BY <1>2
  <2>3. f[m] \in Seq(S) /\ s[m + 1] \in S
    BY <1>2, <2>2
  <2>4. CASE s[m + 1] \notin K
    <3>1. f[m + 1] = f[m]
      BY <1>1, <2>2, <2>4
    <3>2. Good(m + 1, at)
      BY <2>1, <2>2, <2>3, <2>4, <3>1 DEF Picks
    <3> HIDE DEF Good
    <3> QED
      BY <2>2, <3>2
  <2>5. CASE s[m + 1] \in K
    <3> DEFINE l == Len(f[m])
               to == [i \in 1..(l + 1) |-> IF i = l + 1 THEN m + 1 ELSE at[i]]
    <3>1. f[m + 1] = Append(f[m], s[m + 1])
      BY <1>1, <2>2, <2>5
    <3>2. l \in Nat /\ Len(f[m + 1]) = l + 1 /\ f[m + 1][l + 1] = s[m + 1]
          /\ \A i \in 1..l : f[m + 1][i] = f[m][i]
      BY <2>3, <3>1
    <3>3. to[l + 1] = m + 1 /\ \A i \in 1..l : to[i] = at[i]
      BY <3>2
    <3>4. \A i \in 1..l : at[i] \in 1..m
      BY <2>1 DEF Picks
    <3>5. to \in [1..(l + 1) -> 1..(m + 1)]
      BY <2>2, <3>2, <3>4
    <3>6. \A i, j \in 1..(l + 1) : i < j => to[i] < to[j]
      <4> HIDE DEF to
      <4>1. ASSUME NEW i \in 1..(l + 1), NEW j \in 1..(l + 1), i < j PROVE to[i] < to[j]
        <5>1. i \in 1..l /\ (j = l + 1 \/ j \in 1..l)
          BY <3>2, <4>1
        <5> QED
          BY <2>1, <2>2, <3>3, <3>4, <4>1, <5>1 DEF Picks
      <4> QED
        BY <4>1
    <3>7. \A i \in 1..(l + 1) : f[m + 1][i] = s[to[i]] /\ s[to[i]] \in K
      <4> HIDE DEF to
      <4>1. \A i \in 1..(l + 1) : i = l + 1 \/ i \in 1..l
        BY <3>2
      <4> QED
        BY <2>1, <2>5, <3>2, <3>3, <4>1 DEF Picks
    <3>8. \A j \in 1..(m + 1) : s[j] \in K => \E i \in 1..(l + 1) : to[i] = j
      <4> HIDE DEF to
      <4>1. \A j \in 1..(m + 1) : j = m + 1 \/ j \in 1..m
        BY <2>2
      <4>2. l + 1 \in 1..(l + 1) /\ 1..l \subseteq 1..(l + 1)
        BY <3>2
      <4> QED
        BY <2>1, <3>3, <4>1, <4>2 DEF Picks
    <3> HIDE DEF to
    <3>9. Good(m + 1, to)
      BY <3>2, <3>5, <3>6, <3>7, <3>8 DEF Picks
    <3> HIDE DEF Good
    <3> QED
      BY <2>2, <3>9
  <2> QED
    BY <2>4, <2>5
<1>5. n \in T
  <2> HIDE DEF T
  <2>1. 0..n \subseteq T
    BY <1>2, <1>3, <1>4, Induction
  <2> QED
    BY <1>2, <2>1
<1>6. \E at : Good(n, at)
  BY <1>5
<1>7. Retained(s, K) \in Seq(S) /\ Retained(s, K) = f[n] /\ n = Len(s)
  BY <1>0, <1>2 DEF n
<1> QED
  BY <1>6, <1>7

\* Nothing is kept exactly if nothing is in K.
LEMMA RetainedNothing ==
  ASSUME NEW S, NEW s \in Seq(S), NEW K
  PROVE  Retained(s, K) = <<>> <=> \A i \in 1..Len(s) : s[i] \notin K
<1>1. PICK at : Picks(s, Len(s), K, Retained(s, K), at)
  BY RetainedPositions
<1>2. Retained(s, K) \in Seq(S)
  BY RetainedPositions
<1>3. \A t \in Seq(S) : t = <<>> <=> 1..Len(t) = {}
  <2>1. ASSUME NEW t \in Seq(S), 1..Len(t) = {} PROVE t = <<>>
    <3>1. Len(t) \in Nat /\ ~(1 \in 1..Len(t))
      BY <2>1
    <3>2. Len(t) = 0
      BY <3>1
    <3> QED
      BY <3>2
  <2> QED
    BY <2>1
<1> QED
  BY <1>1, <1>2, <1>3 DEF Picks

-----------------------------------------------------------------------------
(* Flattening.                                                             *)

\* f[i] is the concatenation of the first i entries.
Concats(cs, f) == f[0] = <<>> /\ \A i \in 1..Len(cs) : f[i] = f[i - 1] \o cs[i]

\* FlattenSeq is the last value of its recursion.
LEMMA FlattenRecursion ==
  ASSUME NEW S, NEW cs \in Seq(Seq(S))
  PROVE  \E f \in [0..Len(cs) -> Seq(S)] : Concats(cs, f) /\ FlattenSeq(cs) = f[Len(cs)]
<1> DEFINE n == Len(cs)
           step == [x \in (1..n) \X Seq(S) |-> x[2] \o cs[x[1]]]
           Rec(g) == [i \in 1..n |-> IF i = 1 THEN cs[i] ELSE g[i - 1] \o cs[i]]
           flatten == CHOOSE g : g = Rec(g)
<1>1. n \in Nat /\ <<>> \in Seq(S) /\ \A i \in 1..n : cs[i] \in Seq(S)
  OBVIOUS
<1>2. step \in [(1..n) \X Seq(S) -> Seq(S)]
  <2>1. ASSUME NEW x \in (1..n) \X Seq(S) PROVE x[2] \o cs[x[1]] \in Seq(S)
    <3>1. x[2] \in Seq(S) /\ cs[x[1]] \in Seq(S)
      BY <1>1
    <3> QED
      BY <3>1
  <2> QED
    BY <2>1
<1>3. PICK f \in [0..n -> Seq(S)] : Iterates(f, n, <<>>, step)
  <2> HIDE DEF step, n
  <2> QED
    BY <1>1, <1>2, Recursion
<1>4. ASSUME NEW i \in 1..n PROVE f[i] = f[i - 1] \o cs[i]
  <2>1. f[i - 1] \in Seq(S)
    <3>1. i - 1 \in 0..n
      BY <1>1
    <3> HIDE DEF n, step, Rec, flatten
    <3> QED
      BY <3>1
  <2>2. f[i] = step[<<i, f[i - 1]>>]
    BY <1>3 DEF Iterates
  <2> QED
    BY <2>1, <2>2
<1>5. f[0] = <<>>
  BY <1>3 DEF Iterates
<1>6. Concats(cs, f)
  BY <1>4, <1>5 DEF Concats
<1>7. CASE n = 0
  <2>1. cs = <<>>
    BY <1>7
  <2>2. FlattenSeq(cs) = cs
    BY <1>7 DEF FlattenSeq
  <2> HIDE DEF step, Rec, flatten
  <2> QED
    BY <1>5, <1>6, <1>7, <2>1, <2>2
<1>8. CASE n # 0
  <2> DEFINE h == [i \in 1..n |-> f[i]]
  <2>1. h = Rec(h)
    <3>1. ASSUME NEW i \in 1..n PROVE h[i] = Rec(h)[i]
      <4>1. CASE i = 1
        <5>1. f[1] = <<>> \o cs[1]
          <6>0. i - 1 = 0
            BY <4>1
          <6>1. f[i] = f[i - 1] \o cs[i]
            BY <1>4
          <6> HIDE DEF n, step, flatten
          <6> QED
            BY ONLY <1>5, <4>1, <6>0, <6>1, Zenon
        <5>2. \A t \in Seq(S) : <<>> \o t = t
          OBVIOUS
        <5> HIDE DEF n, step, flatten
        <5> QED
          BY <1>1, <4>1, <5>1, <5>2
      <4>2. CASE i # 1
        <5>1. i - 1 \in 1..n
          BY <1>1, <4>2
        <5> HIDE DEF n, step, flatten
        <5> QED
          BY <1>4, <4>2, <5>1
      <4> QED
        BY <4>1, <4>2
    <3> HIDE DEF n, step, flatten
    <3>2. h = [i \in 1..n |-> h[i]] /\ Rec(h) = [i \in 1..n |-> Rec(h)[i]]
      OBVIOUS
    <3> HIDE DEF Rec, h
    <3> QED
      BY <3>1, <3>2
  <2>2. flatten = Rec(flatten)
    <3> HIDE DEF Rec, h
    <3> QED
      BY <2>1
  <2>3. FlattenSeq(cs) = flatten[n]
    BY <1>8 DEF FlattenSeq
  <2> HIDE DEF flatten, n, step, h
  <2> DEFINE T == {i \in 0..n : i = 0 \/ flatten[i] = f[i]}
  <2>4. ASSUME NEW i \in 0..(n - 1), i \in T PROVE i + 1 \in T
    <3>1. i + 1 \in 1..n /\ (i + 1) - 1 = i /\ i + 1 \in 0..n
      BY <1>1
    <3>2. f[i + 1] = f[i] \o cs[i + 1]
      BY <1>4, <3>1
    <3>3. CASE i = 0
      <4>1. \A t \in Seq(S) : <<>> \o t = t
        OBVIOUS
      <4>2. f[1] = cs[1]
        <5>1. i + 1 = 1
          BY <3>3
        <5>2. f[1] = <<>> \o cs[1]
          BY <1>5, <3>2, <3>3, <5>1, Zenon
        <5>3. cs[1] \in Seq(S)
          BY <1>1, <3>1, <5>1
        <5> QED
          BY <4>1, <5>2, <5>3
      <4>3. flatten[1] = cs[1]
        BY <2>2, <3>1, <3>3
      <4> QED
        BY <3>1, <3>3, <4>2, <4>3
    <3>4. CASE i # 0
      <4>1. i + 1 # 1
        BY <3>4
      <4>2. flatten[i + 1] = flatten[i] \o cs[i + 1]
        BY <2>2, <3>1, <4>1
      <4> QED
        BY <2>4, <3>1, <3>2, <3>4, <4>2
    <3> QED
      BY <3>3, <3>4
  <2>5. 0 \in T
    BY <1>1
  <2> HIDE DEF T
  <2>6. n \in T
    <3>1. 0..n \subseteq T
      BY <1>1, <2>4, <2>5, Induction
    <3> QED
      BY <1>1, <3>1
  <2>7. flatten[n] = f[n]
    BY <1>8, <2>6 DEF T
  <2>8. FlattenSeq(cs) = f[Len(cs)]
    BY <2>3, <2>7 DEF n
  <2>9. f \in [0..Len(cs) -> Seq(S)]
    BY DEF n
  <2> QED
    BY <1>6, <2>8, <2>9
<1> QED
  BY <1>7, <1>8

\* The lengths of concatenated sequences and their entries.
LEMMA Concatenated ==
  ASSUME NEW S, NEW s \in Seq(S), NEW t \in Seq(S)
  PROVE  /\ s \o t \in Seq(S)
         /\ Len(s) \in Nat /\ Len(t) \in Nat /\ Len(s \o t) = Len(s) + Len(t)
         /\ \A i \in 1..Len(s) : (s \o t)[i] = s[i]
         /\ \A i \in 1..Len(t) : (s \o t)[Len(s) + i] = t[i]
OBVIOUS

\* The parts of cs start in the flattened sequence F after off[0], off[1], ...
Offsets(cs, F, off) ==
  /\ off \in [0..Len(cs) -> Nat]
  /\ off[0] = 0 /\ off[Len(cs)] = Len(F)
  /\ \A k \in 1..Len(cs) : off[k] = off[k - 1] + Len(cs[k])
  /\ \A k \in 1..Len(cs) : \A r \in 1..Len(cs[k]) : F[off[k - 1] + r] = cs[k][r]
  /\ \A i \in 1..Len(F) : \E k \in 1..Len(cs) : \E r \in 1..Len(cs[k]) : i = off[k - 1] + r
  /\ \A k, j \in 1..Len(cs) : k < j => off[k] <= off[j - 1]

\* Every entry of the flattened sequence is at its place.
LEMMA FlattenPlaces ==
  ASSUME NEW S, NEW cs \in Seq(Seq(S))
  PROVE  FlattenSeq(cs) \in Seq(S) /\ \E off : Offsets(cs, FlattenSeq(cs), off)
<1> DEFINE n == Len(cs)
           F == FlattenSeq(cs)
<1>1. PICK f \in [0..n -> Seq(S)] : Concats(cs, f) /\ F = f[n]
  BY FlattenRecursion
<1>2. n \in Nat /\ \A k \in 1..n : cs[k] \in Seq(S) /\ Len(cs[k]) \in Nat
  <2>1. \A k \in 1..n : cs[k] \in Seq(S)
    OBVIOUS
  <2>2. \A t \in Seq(S) : Len(t) \in Nat
    OBVIOUS
  <2> QED
    BY <2>1, <2>2
<1> DEFINE off == [k \in 0..n |-> Len(f[k])]
<1> HIDE DEF n, F
<1>3. /\ \A k \in 0..n : f[k] \in Seq(S) /\ Len(f[k]) \in Nat
      /\ f[0] = <<>> /\ \A k \in 1..n : f[k] = f[k - 1] \o cs[k]
  <2>1. \A t \in Seq(S) : Len(t) \in Nat
    OBVIOUS
  <2> QED
    BY <1>1, <2>1 DEF Concats, n
<1>4. off \in [0..n -> Nat] /\ \A k \in 0..n : off[k] = Len(f[k])
  BY <1>3
<1>5. n \in 0..n /\ 0 \in 0..n
  BY <1>2
<1>6. off[0] = 0 /\ off[n] = Len(F)
  <2>1. Len(<<>>) = 0
    OBVIOUS
  <2> QED
    BY <1>1, <1>3, <1>4, <1>5, <2>1
<1>7. ASSUME NEW k \in 1..n
      PROVE  /\ k - 1 \in 0..n /\ k \in 0..n
             /\ off[k] = off[k - 1] + Len(cs[k])
             /\ \A i \in 1..off[k - 1] : f[k][i] = f[k - 1][i]
             /\ \A r \in 1..Len(cs[k]) : f[k][off[k - 1] + r] = cs[k][r]
  <2>1. k - 1 \in 0..n /\ k \in 0..n
    BY <1>2
  <2>2. /\ Len(f[k - 1] \o cs[k]) = Len(f[k - 1]) + Len(cs[k])
        /\ \A i \in 1..Len(f[k - 1]) : (f[k - 1] \o cs[k])[i] = f[k - 1][i]
        /\ \A i \in 1..Len(cs[k]) : (f[k - 1] \o cs[k])[Len(f[k - 1]) + i] = cs[k][i]
    BY <1>2, <1>3, <2>1, Concatenated
  <2>3. f[k] = f[k - 1] \o cs[k] /\ off[k] = Len(f[k]) /\ off[k - 1] = Len(f[k - 1])
    BY <1>3, <1>4, <2>1
  <2> QED
    BY ONLY <2>1, <2>2, <2>3, Zenon
<1> HIDE DEF off
<1>8. ASSUME NEW k \in 0..n, NEW d \in 0..(n - k)
      PROVE  off[k] <= off[k + d] /\ \A i \in 1..off[k] : f[k + d][i] = f[k][i]
  <2> DEFINE T == {e \in 0..(n - k) : off[k] <= off[k + e]
                                       /\ \A i \in 1..off[k] : f[k + e][i] = f[k][i]}
  <2>1. n - k \in Nat /\ k \in Nat
    BY <1>2
  <2>2. 0 \in T
    BY <1>4, <2>1
  <2>3. ASSUME NEW e \in 0..((n - k) - 1), e \in T PROVE e + 1 \in T
    <3>1. k + (e + 1) \in 1..n /\ (k + (e + 1)) - 1 = k + e /\ k + e \in 0..n /\ e + 1 \in 0..(n - k)
      BY <1>2, <2>1
    <3>2. /\ off[k + (e + 1)] = off[k + e] + Len(cs[k + (e + 1)])
          /\ \A i \in 1..off[k + e] : f[k + (e + 1)][i] = f[k + e][i]
      BY <1>7, <3>1
    <3>3. off[k] <= off[k + e] /\ \A i \in 1..off[k] : f[k + e][i] = f[k][i]
      BY <2>3
    <3>4. off[k] \in Nat /\ off[k + e] \in Nat /\ Len(cs[k + (e + 1)]) \in Nat
      BY <1>2, <1>4, <3>1
    <3>5. \A i \in 1..off[k] : i \in 1..off[k + e]
      BY <3>3, <3>4
    <3>6. \A i \in 1..off[k] : f[k + (e + 1)][i] = f[k][i]
      BY <3>2, <3>3, <3>5
    <3>7. off[k] <= off[k + (e + 1)]
      BY <3>2, <3>3, <3>4
    <3> QED
      BY <3>1, <3>6, <3>7
  <2> HIDE DEF T
  <2>4. 0..(n - k) \subseteq T
    BY <2>1, <2>2, <2>3, Induction
  <2> QED
    BY <2>4 DEF T
<1>9. ASSUME NEW k \in 0..n, NEW j \in 0..n, k <= j PROVE off[k] <= off[j]
  <2>1. j - k \in 0..(n - k) /\ k + (j - k) = j
    BY <1>2, <1>9
  <2>2. off[k] <= off[k + (j - k)]
    BY <1>8, <2>1
  <2> QED
    BY <2>1, <2>2
<1>10. ASSUME NEW k \in 1..n, NEW r \in 1..Len(cs[k]) PROVE F[off[k - 1] + r] = cs[k][r]
  <2>1. n - k \in 0..(n - k) /\ k + (n - k) = n /\ k \in 0..n /\ k - 1 \in 0..n
    BY <1>2
  <2>2. \A i \in 1..off[k] : f[k + (n - k)][i] = f[k][i]
    BY <1>8, <2>1
  <2>3. off[k - 1] \in Nat /\ off[k] = off[k - 1] + Len(cs[k]) /\ Len(cs[k]) \in Nat
    BY <1>2, <1>4, <1>7, <2>1
  <2>4. off[k - 1] + r \in 1..off[k]
    BY <2>3
  <2>5. f[k][off[k - 1] + r] = cs[k][r]
    BY <1>7
  <2> QED
    BY <1>1, <2>1, <2>2, <2>4, <2>5
<1>11. ASSUME NEW i \in 1..Len(F)
       PROVE  \E k \in 1..n : \E r \in 1..Len(cs[k]) : i = off[k - 1] + r
  <2> DEFINE T == {k \in 0..n : i <= off[k]}
  <2>1. n \in T
    BY <1>5, <1>6
  <2>2. T \in SUBSET Nat
    BY <1>2
  <2> HIDE DEF T
  <2>3. PICK k \in T : \A j \in T : k <= j
    BY <2>1, <2>2, Least
  <2>4. k \in 0..n /\ i <= off[k] /\ k # 0
    BY <1>6, <2>3 DEF T
  <2>5. k \in 1..n /\ k - 1 \in 0..n /\ ~(k <= k - 1)
    BY <1>2, <2>4
  <2>6. k - 1 \notin T
    BY <2>3, <2>5
  <2>7. ~(i <= off[k - 1])
    BY <2>5, <2>6 DEF T
  <2>8. off[k - 1] \in Nat /\ off[k] = off[k - 1] + Len(cs[k]) /\ Len(cs[k]) \in Nat /\ i \in Nat
    <3>1. Len(F) \in Nat
      BY <1>1, <1>3, <1>5
    <3> QED
      BY <1>2, <1>4, <1>7, <2>5, <3>1
  <2>9. i - off[k - 1] \in 1..Len(cs[k]) /\ i = off[k - 1] + (i - off[k - 1])
    BY <2>4, <2>7, <2>8, SMTT(20)
  <2> QED
    BY <2>5, <2>9
<1>12. ASSUME NEW k \in 1..n, NEW j \in 1..n, k < j PROVE off[k] <= off[j - 1]
  <2>1. k \in 0..n /\ j - 1 \in 0..n /\ k <= j - 1
    BY <1>2, <1>12
  <2> QED
    BY <1>9, <2>1
<1>13. F \in Seq(S)
  BY <1>1, <1>3, <1>5
<1>14. Offsets(cs, F, off)
  BY <1>4, <1>6, <1>7, <1>10, <1>11, <1>12 DEF Offsets, n
<1> QED
  BY <1>13, <1>14 DEF F

\* The entries of the flattened sequence are those of its parts.
LEMMA FlattenParts ==
  ASSUME NEW S, NEW cs \in Seq(Seq(S))
  PROVE  /\ FlattenSeq(cs) \in Seq(S)
         /\ \A i \in 1..Len(FlattenSeq(cs)) :
              \E k \in 1..Len(cs) : \E r \in 1..Len(cs[k]) : FlattenSeq(cs)[i] = cs[k][r]
         /\ \A k \in 1..Len(cs) : \A r \in 1..Len(cs[k]) :
              \E i \in 1..Len(FlattenSeq(cs)) : FlattenSeq(cs)[i] = cs[k][r]
<1> DEFINE F == FlattenSeq(cs)
           n == Len(cs)
<1>1. PICK off : Offsets(cs, F, off)
  BY FlattenPlaces
<1>2. F \in Seq(S)
  BY FlattenPlaces
<1>3. n \in Nat /\ \A k \in 1..n : Len(cs[k]) \in Nat
  <2>1. \A k \in 1..n : cs[k] \in Seq(S)
    OBVIOUS
  <2>2. \A t \in Seq(S) : Len(t) \in Nat
    OBVIOUS
  <2> QED
    BY <2>1, <2>2
<1> HIDE DEF F, n
<1>4. \A i \in 1..Len(F) : \E k \in 1..n : \E r \in 1..Len(cs[k]) : F[i] = cs[k][r]
  BY <1>1 DEF Offsets, n
<1>5. ASSUME NEW k \in 1..n, NEW r \in 1..Len(cs[k])
      PROVE  \E i \in 1..Len(F) : F[i] = cs[k][r]
  <2>1. k - 1 \in 0..n /\ k \in 0..n /\ n \in 1..n
    BY <1>3
  <2>2. off[k] <= Len(F)
    <3>1. k = n \/ k < n
      BY <1>3
    <3>2. CASE k = n
      BY <1>1, <2>1, <3>2 DEF Offsets, n
    <3>3. CASE k < n
      <4>1. off[k] <= off[n - 1] /\ off[n] = off[n - 1] + Len(cs[n]) /\ off[n] = Len(F)
        BY <1>1, <2>1, <3>3 DEF Offsets, n
      <4>2. n - 1 \in 0..n /\ n \in 1..n
        BY <1>3, <2>1
      <4>3. off[k] \in Nat /\ off[n - 1] \in Nat
        BY <1>1, <2>1, <4>2 DEF Offsets, n
      <4>4. Len(cs[n]) \in Nat
        BY <1>3, <4>2
      <4> QED
        BY <4>1, <4>3, <4>4
    <3> QED
      BY <3>1, <3>2, <3>3
  <2>3. off[k] = off[k - 1] + Len(cs[k]) /\ off[k - 1] \in Nat /\ F[off[k - 1] + r] = cs[k][r]
    BY <1>1, <2>1 DEF Offsets, n
  <2>4. off[k - 1] + r \in 1..Len(F)
    <3>1. Len(F) \in Nat /\ Len(cs[k]) \in Nat
      BY <1>2, <1>3
    <3> QED
      BY <2>2, <2>3, <3>1
  <2> QED
    BY <2>3, <2>4
<1> QED
  BY <1>2, <1>4, <1>5 DEF F, n

-----------------------------------------------------------------------------
(* Columns and geometries.                                                 *)

\* s lists the elements of A, each once.
Lists(s, A) ==
  /\ s \in Seq(A)
  /\ \A i, j \in 1..Len(s) : s[i] = s[j] => i = j
  /\ \A a \in A : \E i \in 1..Len(s) : s[i] = a

\* cs is a geometry of exactly the panes P.
Lays(cs, P) ==
  /\ cs \in Seq(Seq(P))
  /\ \A k \in 1..Len(cs) : cs[k] # <<>>
  /\ \A k, j \in 1..Len(cs) : \A r \in 1..Len(cs[k]), q \in 1..Len(cs[j]) :
       cs[k][r] = cs[j][q] => k = j /\ r = q
  /\ \A p \in P : \E k \in 1..Len(cs) : \E r \in 1..Len(cs[k]) : cs[k][r] = p

\* Lists of disjoint sets can be concatenated.
LEMMA ListsJoin ==
  ASSUME NEW A, NEW B, NEW s, NEW t, Lists(s, A), Lists(t, B), A \intersect B = {}
  PROVE  Lists(s \o t, A \union B)
<1> DEFINE c == s \o t
           U == A \union B
<1>1. s \in Seq(U) /\ t \in Seq(U)
  BY DEF Lists
<1>2. /\ c \in Seq(U)
      /\ Len(s) \in Nat /\ Len(t) \in Nat /\ Len(c) = Len(s) + Len(t)
      /\ \A i \in 1..Len(s) : c[i] = s[i]
      /\ \A i \in 1..Len(t) : c[Len(s) + i] = t[i]
  BY <1>1, Concatenated
<1>3. /\ \A i \in 1..Len(s) : s[i] \in A
      /\ \A i \in 1..Len(t) : t[i] \in B
  BY DEF Lists
<1> HIDE DEF c
<1>4. ASSUME NEW i \in 1..Len(c)
      PROVE  \/ i \in 1..Len(s) /\ c[i] = s[i] /\ c[i] \in A
             \/ i - Len(s) \in 1..Len(t) /\ c[i] = t[i - Len(s)] /\ c[i] \in B
  <2>1. CASE i <= Len(s)
    BY <1>2, <1>3, <2>1
  <2>2. CASE ~(i <= Len(s))
    <3>1. i - Len(s) \in 1..Len(t) /\ i = Len(s) + (i - Len(s))
      BY <1>2, <2>2
    <3> QED
      BY <1>2, <1>3, <3>1
  <2> QED
    BY <2>1, <2>2
<1>5. ASSUME NEW i \in 1..Len(c), NEW j \in 1..Len(c), c[i] = c[j] PROVE i = j
  <2>1. i \in Int /\ j \in Int /\ Len(s) \in Int
    BY <1>2
  <2>2. CASE c[i] \in A
    <3>1. i \in 1..Len(s) /\ j \in 1..Len(s) /\ s[i] = s[j]
      BY <1>4, <1>5, <2>2
    <3> QED
      BY <3>1 DEF Lists
  <2>3. CASE c[i] \in B
    <3>1. i - Len(s) \in 1..Len(t) /\ j - Len(s) \in 1..Len(t) /\ t[i - Len(s)] = t[j - Len(s)]
      BY <1>4, <1>5, <2>3
    <3>2. i - Len(s) = j - Len(s)
      BY <3>1 DEF Lists
    <3> QED
      BY <2>1, <3>2
  <2> QED
    BY <1>4, <2>2, <2>3
<1>6. ASSUME NEW a \in A \union B PROVE \E i \in 1..Len(c) : c[i] = a
  <2>1. CASE a \in A
    <3>1. PICK i \in 1..Len(s) : s[i] = a
      BY <2>1 DEF Lists
    <3>2. i \in 1..Len(c)
      BY <1>2
    <3> QED
      BY <1>2, <3>1, <3>2
  <2>2. CASE a \in B
    <3>1. PICK i \in 1..Len(t) : t[i] = a
      BY <2>2 DEF Lists
    <3>2. Len(s) + i \in 1..Len(c)
      BY <1>2
    <3> QED
      BY <1>2, <3>1, <3>2
  <2> QED
    BY <2>1, <2>2
<1>7. Lists(c, A \union B)
  BY <1>2, <1>5, <1>6 DEF Lists
<1> QED
  BY <1>7 DEF c

\* A piece of a list lists the elements at its positions.
LEMMA ListsCut ==
  ASSUME NEW A, NEW s, Lists(s, A),
         NEW a \in 1..(Len(s) + 1), NEW b \in 0..Len(s), a <= b + 1
  PROVE  Lists(SubSeq(s, a, b), {s[i] : i \in a..b})
<1> DEFINE c == SubSeq(s, a, b)
           B == {s[i] : i \in a..b}
<1>1. s \in Seq(A) /\ Len(s) \in Nat
  BY DEF Lists
<1>2. /\ Len(c) = b - a + 1
      /\ c = [i \in 1..(b - a + 1) |-> s[a + i - 1]]
  BY <1>1
<1>3. Len(c) \in Nat /\ \A i \in 1..Len(c) : a + i - 1 \in a..b /\ c[i] = s[a + i - 1]
  BY <1>1, <1>2
<1>4. c \in Seq(B)
  <2>1. c = [i \in 1..Len(c) |-> c[i]]
    BY <1>2
  <2> HIDE DEF c
  <2>2. \A i \in 1..Len(c) : c[i] \in B
    BY <1>3
  <2> HIDE DEF B
  <2> QED
    BY <1>3, <2>1, <2>2
<1> HIDE DEF c
<1>5. ASSUME NEW i \in 1..Len(c), NEW j \in 1..Len(c), c[i] = c[j] PROVE i = j
  <2>1. s[a + i - 1] = s[a + j - 1] /\ a + i - 1 \in 1..Len(s) /\ a + j - 1 \in 1..Len(s)
    BY <1>1, <1>3, <1>5
  <2>2. a + i - 1 = a + j - 1
    BY <2>1 DEF Lists
  <2> QED
    BY <1>3, <2>2
<1>6. ASSUME NEW x \in B PROVE \E i \in 1..Len(c) : c[i] = x
  <2>1. PICK j \in a..b : x = s[j]
    OBVIOUS
  <2>2. j - a + 1 \in 1..Len(c) /\ a + (j - a + 1) - 1 = j
    BY <1>1, <1>2 DEF c
  <2> QED
    BY <1>3, <2>1, <2>2
<1> HIDE DEF B
<1>7. Lists(c, B)
  BY <1>4, <1>5, <1>6 DEF Lists
<1> QED
  BY <1>7 DEF B, c

\* One element makes a list.
LEMMA ListsOne ==
  ASSUME NEW p
  PROVE  Lists(<<p>>, {p})
BY DEF Lists

\* The pieces of a list before and after a position do not meet.
LEMMA ListsSplit ==
  ASSUME NEW A, NEW s, Lists(s, A), NEW r \in 0..Len(s)
  PROVE  \E B, C : /\ Lists(SubSeq(s, 1, r), B) /\ Lists(SubSeq(s, r + 1, Len(s)), C)
                   /\ B \intersect C = {} /\ B \union C = A
                   /\ \A i \in 1..Len(s) : IF i <= r THEN s[i] \in B ELSE s[i] \in C
<1> DEFINE B == {s[i] : i \in 1..r}
           C == {s[i] : i \in (r + 1)..Len(s)}
<1>1. s \in Seq(A) /\ Len(s) \in Nat
  BY DEF Lists
<1>2. Lists(SubSeq(s, 1, r), B)
  <2>1. 1 \in 1..(Len(s) + 1) /\ 1 <= r + 1
    BY <1>1
  <2> QED
    BY <2>1, ListsCut
<1>3. Lists(SubSeq(s, r + 1, Len(s)), C)
  <2>1. r + 1 \in 1..(Len(s) + 1) /\ Len(s) \in 0..Len(s) /\ r + 1 <= Len(s) + 1
    BY <1>1
  <2> QED
    BY <2>1, ListsCut
<1>4. B \intersect C = {}
  <2>1. ASSUME NEW i \in 1..r, NEW j \in (r + 1)..Len(s), s[i] = s[j] PROVE FALSE
    <3>1. i \in 1..Len(s) /\ j \in 1..Len(s) /\ i # j
      BY <1>1
    <3> QED
      BY <2>1, <3>1 DEF Lists
  <2> QED
    BY <2>1
<1>5. B \union C = A
  <2>1. \A i \in 1..Len(s) : s[i] \in A
    BY <1>1
  <2>2. 1..Len(s) = (1..r) \union ((r + 1)..Len(s))
    BY <1>1
  <2>3. \A a \in A : \E i \in 1..Len(s) : s[i] = a
    BY DEF Lists
  <2> QED
    BY <2>1, <2>2, <2>3
<1>6. \A i \in 1..Len(s) : IF i <= r THEN s[i] \in B ELSE s[i] \in C
  <2>1. \A i \in 1..Len(s) : IF i <= r THEN i \in 1..r ELSE i \in (r + 1)..Len(s)
    BY <1>1
  <2> QED
    BY <2>1
<1> HIDE DEF B, C
<1> QED
  BY <1>2, <1>3, <1>4, <1>5, <1>6

\* Inserting an element into a list, and removing one.
LEMMA ListsInsert ==
  ASSUME NEW A, NEW s, Lists(s, A), NEW p, p \notin A, NEW r \in 1..(Len(s) + 1)
  PROVE  Lists(InsertAt(s, r, p), A \union {p})
<1>1. Len(s) \in Nat /\ r - 1 \in 0..Len(s) /\ (r - 1) + 1 = r
  <2>1. s \in Seq(A)
    BY DEF Lists
  <2> QED
    BY <2>1
<1>2. PICK B, C : /\ Lists(SubSeq(s, 1, r - 1), B) /\ Lists(SubSeq(s, r, Len(s)), C)
                  /\ B \intersect C = {} /\ B \union C = A
  <2> DEFINE m == r - 1
  <2>1. m \in 0..Len(s) /\ m + 1 = r
    BY <1>1
  <2> HIDE DEF m
  <2>2. PICK B, C : /\ Lists(SubSeq(s, 1, m), B) /\ Lists(SubSeq(s, m + 1, Len(s)), C)
                    /\ B \intersect C = {} /\ B \union C = A
                    /\ \A i \in 1..Len(s) : IF i <= m THEN s[i] \in B ELSE s[i] \in C
    BY <2>1, ListsSplit, Zenon
  <2> QED
    BY <2>1, <2>2 DEF m
<1> DEFINE head == SubSeq(s, 1, r - 1)
           tail == SubSeq(s, r, Len(s))
<1> HIDE DEF head, tail
<1>3. Lists(head, B) /\ Lists(tail, C)
  BY <1>2 DEF head, tail
<1>4. Lists(head \o <<p>>, B \union {p})
  <2>1. B \intersect {p} = {}
    BY <1>2
  <2> QED
    BY <1>3, <2>1, ListsOne, ListsJoin
<1>5. Lists((head \o <<p>>) \o tail, (B \union {p}) \union C)
  <2>1. (B \union {p}) \intersect C = {}
    BY <1>2
  <2> QED
    BY <1>3, <1>4, <2>1, ListsJoin
<1>6. (B \union {p}) \union C = A \union {p}
  BY <1>2
<1> QED
  BY <1>5, <1>6 DEF InsertAt, head, tail

\* A list without one of its entries lists the others.
LEMMA ListsRemove ==
  ASSUME NEW A, NEW s, Lists(s, A), NEW r \in 1..Len(s)
  PROVE  Lists(RemoveAt(s, r), A \ {s[r]})
<1>1. s \in Seq(A) /\ Len(s) \in Nat
  BY DEF Lists
<1> DEFINE B == {s[i] : i \in 1..(r - 1)}
           C == {s[i] : i \in (r + 1)..Len(s)}
<1>2. Lists(SubSeq(s, 1, r - 1), B)
  <2>1. 1 \in 1..(Len(s) + 1) /\ 1 <= (r - 1) + 1 /\ r - 1 \in 0..Len(s)
    BY <1>1
  <2> QED
    BY <2>1, ListsCut
<1>3. Lists(SubSeq(s, r + 1, Len(s)), C)
  <2>1. r + 1 \in 1..(Len(s) + 1) /\ Len(s) \in 0..Len(s) /\ r + 1 <= Len(s) + 1
    BY <1>1
  <2> QED
    BY <2>1, ListsCut
<1>4. B \intersect C = {}
  <2>1. ASSUME NEW i \in 1..(r - 1), NEW j \in (r + 1)..Len(s), s[i] = s[j] PROVE FALSE
    <3>1. i \in 1..Len(s) /\ j \in 1..Len(s) /\ i # j
      BY <1>1
    <3> QED
      BY <2>1, <3>1 DEF Lists
  <2> QED
    BY <2>1
<1>5. B \union C = A \ {s[r]}
  <2>1. ASSUME NEW x \in B \union C PROVE x \in A \ {s[r]}
    <3>1. PICK i \in (1..(r - 1)) \union ((r + 1)..Len(s)) : x = s[i]
      BY <2>1
    <3>2. i \in 1..Len(s) /\ i # r
      BY <1>1
    <3>3. s[i] \in A
      BY <1>1, <3>2
    <3>4. s[i] # s[r]
      BY <3>2 DEF Lists
    <3> QED
      BY <3>1, <3>3, <3>4
  <2>2. ASSUME NEW x \in A, x # s[r] PROVE x \in B \union C
    <3>1. PICK i \in 1..Len(s) : s[i] = x
      BY DEF Lists
    <3>2. i \in 1..(r - 1) \/ i \in (r + 1)..Len(s)
      BY <1>1, <2>2, <3>1
    <3> QED
      BY <3>1, <3>2
  <2> QED
    BY <2>1, <2>2
<1> HIDE DEF B, C
<1>6. Lists(SubSeq(s, 1, r - 1) \o SubSeq(s, r + 1, Len(s)), B \union C)
  BY <1>2, <1>3, <1>4, ListsJoin
<1> QED
  BY <1>5, <1>6 DEF RemoveAt

\* The types of the parts of a geometry.
LEMMA LaysTypes ==
  ASSUME NEW cs, NEW P, Lays(cs, P)
  PROVE  /\ cs \in Seq(Seq(P)) /\ Len(cs) \in Nat
         /\ \A k \in 1..Len(cs) : cs[k] \in Seq(P) /\ Len(cs[k]) \in Nat \ {0}
         /\ \A k \in 1..Len(cs) : \A r \in 1..Len(cs[k]) : cs[k][r] \in P
<1>1. cs \in Seq(Seq(P))
  BY DEF Lays
<1>2. Len(cs) \in Nat /\ \A k \in 1..Len(cs) : cs[k] \in Seq(P)
  BY <1>1
<1>3. ASSUME NEW k \in 1..Len(cs)
      PROVE  Len(cs[k]) \in Nat \ {0} /\ \A r \in 1..Len(cs[k]) : cs[k][r] \in P
  <2>1. cs[k] \in Seq(P) /\ cs[k] # <<>>
    BY <1>2 DEF Lays
  <2> HIDE DEF Lays
  <2> QED
    BY <2>1
<1> QED
  BY <1>1, <1>2, <1>3

\* A sequence is one of the elements of any set that has its entries.
LEMMA Retyped ==
  ASSUME NEW S, NEW s \in Seq(S), NEW C, \A i \in 1..Len(s) : s[i] \in C
  PROVE  s \in Seq(C)
<1>1. Len(s) \in Nat /\ s = [i \in 1..Len(s) |-> s[i]]
  OBVIOUS
<1> QED
  BY <1>1

\* Where the panes of a geometry are.
LEMMA LaysPlaces ==
  ASSUME NEW cs, NEW P, Lays(cs, P)
  PROVE  /\ \A k \in 1..Len(cs) : cs[k] # <<>>
         /\ \A k, j \in 1..Len(cs) : \A r \in 1..Len(cs[k]), q \in 1..Len(cs[j]) :
              cs[k][r] = cs[j][q] => k = j /\ r = q
         /\ \A p \in P : \E k \in 1..Len(cs) : \E r \in 1..Len(cs[k]) : cs[k][r] = p
BY Zenon DEF Lays

\* The panes of a sequence of columns, one by one.
LEMMA PanesPlaces ==
  ASSUME NEW S, NEW cs \in Seq(Seq(S)), NEW p
  PROVE  p \in PanesOf(cs) <=> \E k \in 1..Len(cs) : \E r \in 1..Len(cs[k]) : cs[k][r] = p
<1>1. DOMAIN cs = 1..Len(cs) /\ \A k \in 1..Len(cs) : cs[k] \in Seq(S)
  OBVIOUS
<1>2. \A s \in Seq(S) : DOMAIN s = 1..Len(s)
  OBVIOUS
<1>3. \A k \in 1..Len(cs) : DOMAIN cs[k] = 1..Len(cs[k])
  BY <1>1, <1>2
<1>4. p \in PanesOf(cs) <=> \E k \in DOMAIN cs : p \in ToSet(cs[k])
  BY DEF PanesOf
<1>5. \A k \in DOMAIN cs : p \in ToSet(cs[k]) <=> \E r \in DOMAIN cs[k] : cs[k][r] = p
  BY DEF ToSet
<1> QED
  BY <1>1, <1>3, <1>4, <1>5

\* A geometry whose panes are P lays P out.
LEMMA GeometryLays ==
  ASSUME NEW Q, NEW cs, IsGeometry(cs, Q)
  PROVE  Lays(cs, PanesOf(cs)) /\ PanesOf(cs) \subseteq Q
<1> DEFINE P == PanesOf(cs)
<1>1. cs \in Seq(Seq(Q) \ {<<>>})
  BY DEF IsGeometry
<1>2. cs \in Seq(Seq(Q)) /\ Len(cs) \in Nat /\ DOMAIN cs = 1..Len(cs)
  BY <1>1
<1>3. \A k \in 1..Len(cs) : cs[k] \in Seq(Q) /\ cs[k] # <<>>
  BY <1>1
<1>4. \A s \in Seq(Q) : DOMAIN s = 1..Len(s) /\ Len(s) \in Nat /\ s = [i \in 1..Len(s) |-> s[i]]
  OBVIOUS
<1>5. \A p : p \in P <=> \E k \in 1..Len(cs) : \E r \in 1..Len(cs[k]) : cs[k][r] = p
  BY <1>2, PanesPlaces
<1> HIDE DEF P
<1>6. ASSUME NEW k \in 1..Len(cs) PROVE cs[k] \in Seq(P)
  <2>1. \A r \in 1..Len(cs[k]) : cs[k][r] \in P
    BY <1>5
  <2>2. Len(cs[k]) \in Nat /\ cs[k] = [i \in 1..Len(cs[k]) |-> cs[k][i]]
    BY <1>3, <1>4
  <2> QED
    BY <2>1, <2>2
<1>7. cs \in Seq(Seq(P))
  <2>1. cs = [k \in 1..Len(cs) |-> cs[k]]
    BY <1>2
  <2> QED
    BY <1>2, <1>6, <2>1
<1>8. ASSUME NEW k \in 1..Len(cs), NEW j \in 1..Len(cs),
             NEW r \in 1..Len(cs[k]), NEW q \in 1..Len(cs[j]), cs[k][r] = cs[j][q]
      PROVE  k = j /\ r = q
  <2>1. k \in DOMAIN cs /\ j \in DOMAIN cs
    BY <1>2
  <2>2. r \in DOMAIN cs[k] /\ q \in DOMAIN cs[j]
    BY <1>3, <1>4
  <2> QED
    BY <1>8, <2>1, <2>2, Zenon DEF IsGeometry
<1>9. Lays(cs, P)
  BY <1>3, <1>5, <1>7, <1>8 DEF Lays
<1>10. P \subseteq Q
  <2>1. ASSUME NEW s \in Seq(Q), NEW r \in 1..Len(s) PROVE s[r] \in Q
    OBVIOUS
  <2> QED
    BY <1>3, <1>5, <2>1
<1> QED
  BY <1>9, <1>10 DEF P

\* What lays P out is a geometry, and its panes are P.
LEMMA LaysGeometry ==
  ASSUME NEW cs, NEW P, Lays(cs, P), NEW Q, P \subseteq Q
  PROVE  IsGeometry(cs, Q) /\ PanesOf(cs) = P
<1>1. /\ cs \in Seq(Seq(P)) /\ Len(cs) \in Nat
      /\ \A k \in 1..Len(cs) : cs[k] \in Seq(P) /\ Len(cs[k]) \in Nat \ {0}
      /\ \A k \in 1..Len(cs) : \A r \in 1..Len(cs[k]) : cs[k][r] \in P
  BY LaysTypes
<1>2. \A s \in Seq(P) : s \in Seq(Q) /\ DOMAIN s = 1..Len(s)
  OBVIOUS
<1>3. DOMAIN cs = 1..Len(cs) /\ cs = [k \in 1..Len(cs) |-> cs[k]]
  BY <1>1
<1>4. cs \in Seq(Seq(Q) \ {<<>>})
  <2> DEFINE C == Seq(Q) \ {<<>>}
  <2>1. \A k \in 1..Len(cs) : cs[k] \in C
    BY <1>1, <1>2, LaysPlaces
  <2> HIDE DEF C
  <2>2. cs \in Seq(C)
    BY <1>1, <2>1, Retyped
  <2> QED
    BY <2>2 DEF C
<1>5. \A k \in 1..Len(cs) : DOMAIN cs[k] = 1..Len(cs[k])
  BY <1>1, <1>2
<1>6. IsGeometry(cs, Q)
  <2>1. \A k, j \in 1..Len(cs) : \A r \in 1..Len(cs[k]), q \in 1..Len(cs[j]) :
          cs[k][r] = cs[j][q] => k = j /\ r = q
    BY LaysPlaces
  <2>2. \A k, j \in DOMAIN cs : \A r \in DOMAIN cs[k], q \in DOMAIN cs[j] :
          cs[k][r] = cs[j][q] => k = j /\ r = q
    BY ONLY <1>3, <1>5, <2>1
  <2> QED
    BY <1>4, <2>2, Zenon DEF IsGeometry
<1>7. \A p : p \in PanesOf(cs) <=> p \in P
  <2>1. \A p : p \in PanesOf(cs) <=> \E k \in 1..Len(cs) : \E r \in 1..Len(cs[k]) : cs[k][r] = p
    BY <1>1, PanesPlaces
  <2>2. \A p \in P : \E k \in 1..Len(cs) : \E r \in 1..Len(cs[k]) : cs[k][r] = p
    BY LaysPlaces
  <2>3. \A k \in 1..Len(cs) : \A r \in 1..Len(cs[k]) : cs[k][r] \in P
    BY <1>1
  <2> QED
    BY ONLY <2>1, <2>2, <2>3
<1> QED
  BY <1>6, <1>7

\* A column of a geometry lists its panes.
LEMMA LaysColumn ==
  ASSUME NEW cs, NEW P, Lays(cs, P), NEW k \in 1..Len(cs)
  PROVE  Lists(cs[k], ToSet(cs[k])) /\ ToSet(cs[k]) \subseteq P
<1> DEFINE s == cs[k]
           A == ToSet(s)
<1>1. s \in Seq(P) /\ Len(s) \in Nat /\ \A r \in 1..Len(s) : s[r] \in P
  BY LaysTypes
<1>2. \A i, j \in 1..Len(s) : s[i] = s[j] => i = j
  BY DEF Lays
<1> HIDE DEF s
<1>3. DOMAIN s = 1..Len(s) /\ s = [i \in 1..Len(s) |-> s[i]]
  BY <1>1
<1>4. A = {s[i] : i \in 1..Len(s)}
  BY <1>3 DEF ToSet
<1> HIDE DEF A
<1>5. s \in Seq(A)
  <2>1. \A i \in 1..Len(s) : s[i] \in A
    BY <1>4
  <2> QED
    BY <1>1, <1>3, <2>1
<1>6. Lists(s, A)
  BY <1>2, <1>4, <1>5 DEF Lists
<1>7. A \subseteq P
  BY <1>1, <1>4
<1> QED
  BY <1>6, <1>7 DEF A, s

\* One column of a list of panes lays them out.
LEMMA LaysOne ==
  ASSUME NEW s, NEW A, Lists(s, A), s # <<>>
  PROVE  Lays(<<s>>, A)
<1>1. s \in Seq(A) /\ Len(<<s>>) = 1 /\ <<s>>[1] = s /\ <<s>> \in Seq(Seq(A))
  BY DEF Lists
<1> QED
  BY <1>1 DEF Lists, Lays

\* Nothing lays no pane out.
LEMMA LaysNothing == Lays(<<>>, {})
BY DEF Lays

\* Geometries of disjoint sets of panes can be put side by side.
LEMMA LaysJoin ==
  ASSUME NEW a, NEW b, NEW P, NEW Q, Lays(a, P), Lays(b, Q), P \intersect Q = {}
  PROVE  Lays(a \o b, P \union Q)
<1> DEFINE c == a \o b
           U == P \union Q
<1>1. /\ a \in Seq(Seq(P)) /\ Len(a) \in Nat
      /\ \A k \in 1..Len(a) : a[k] \in Seq(P)
      /\ \A k \in 1..Len(a) : \A r \in 1..Len(a[k]) : a[k][r] \in P
  BY LaysTypes
<1>2. /\ b \in Seq(Seq(Q)) /\ Len(b) \in Nat
      /\ \A k \in 1..Len(b) : b[k] \in Seq(Q)
      /\ \A k \in 1..Len(b) : \A r \in 1..Len(b[k]) : b[k][r] \in Q
  BY LaysTypes
<1>3. a \in Seq(Seq(U)) /\ b \in Seq(Seq(U))
  <2>1. \A s : s \in Seq(P) \/ s \in Seq(Q) => s \in Seq(U)
    OBVIOUS
  <2>2. Seq(P) \subseteq Seq(U) /\ Seq(Q) \subseteq Seq(U)
    BY <2>1
  <2> HIDE DEF U
  <2>3. ASSUME NEW A, NEW B, A \subseteq B, NEW t \in Seq(A) PROVE t \in Seq(B)
    BY <2>3
  <2> QED
    BY <1>1, <1>2, <2>2, <2>3, Zenon
<1>4. /\ c \in Seq(Seq(U))
      /\ Len(c) = Len(a) + Len(b)
      /\ \A k \in 1..Len(a) : c[k] = a[k]
      /\ \A k \in 1..Len(b) : c[Len(a) + k] = b[k]
  BY <1>3, Concatenated
<1> HIDE DEF c, U
<1>5. ASSUME NEW k \in 1..Len(c)
      PROVE  \/ k \in 1..Len(a) /\ c[k] = a[k]
             \/ k - Len(a) \in 1..Len(b) /\ c[k] = b[k - Len(a)]
  <2>1. CASE k <= Len(a)
    BY <1>1, <1>4, <2>1
  <2>2. CASE ~(k <= Len(a))
    <3>1. k - Len(a) \in 1..Len(b) /\ k = Len(a) + (k - Len(a))
      BY <1>1, <1>2, <1>4, <2>2
    <3> QED
      BY <1>4, <3>1
  <2> QED
    BY <2>1, <2>2
<1>6. \A k \in 1..Len(c) : c[k] # <<>>
  BY <1>5, LaysPlaces
<1>7. ASSUME NEW k \in 1..Len(c), NEW j \in 1..Len(c),
             NEW r \in 1..Len(c[k]), NEW q \in 1..Len(c[j]), c[k][r] = c[j][q]
      PROVE  k = j /\ r = q
  <2>1. CASE k \in 1..Len(a) /\ c[k] = a[k]
    <3>1. c[k][r] \in P
      BY <1>1, <2>1
    <3>2. j \in 1..Len(a) /\ c[j] = a[j]
      BY <1>2, <1>5, <1>7, <3>1
    <3>3. \A x, y \in 1..Len(a) : \A u \in 1..Len(a[x]), v \in 1..Len(a[y]) :
            a[x][u] = a[y][v] => x = y /\ u = v
      BY LaysPlaces
    <3>4. r \in 1..Len(a[k]) /\ q \in 1..Len(a[j]) /\ a[k][r] = a[j][q]
      BY ONLY <1>7, <2>1, <3>2
    <3> QED
      BY ONLY <2>1, <3>2, <3>3, <3>4, Zenon
  <2>2. CASE k - Len(a) \in 1..Len(b) /\ c[k] = b[k - Len(a)]
    <3>1. c[k][r] \in Q
      BY <1>2, <2>2
    <3>2. j - Len(a) \in 1..Len(b) /\ c[j] = b[j - Len(a)]
      BY <1>1, <1>5, <1>7, <3>1
    <3> DEFINE x == k - Len(a)
               y == j - Len(a)
    <3>3. /\ x \in 1..Len(b) /\ r \in 1..Len(b[x])
          /\ y \in 1..Len(b) /\ q \in 1..Len(b[y])
          /\ b[x][r] = b[y][q]
      BY ONLY <1>7, <2>2, <3>2
    <3> HIDE DEF x, y
    <3>4. x = y /\ r = q
      BY <3>3, LaysPlaces, SMTT(20)
    <3> QED
      BY <1>1, <3>4 DEF x, y
  <2> QED
    BY <1>5, <2>1, <2>2
<1>8. ASSUME NEW p \in U PROVE \E k \in 1..Len(c) : \E r \in 1..Len(c[k]) : c[k][r] = p
  <2>1. CASE p \in P
    <3>1. PICK k \in 1..Len(a) : \E r \in 1..Len(a[k]) : a[k][r] = p
      BY <2>1 DEF Lays
    <3>2. k \in 1..Len(c) /\ c[k] = a[k]
      BY <1>1, <1>2, <1>4
    <3> QED
      BY <3>1, <3>2
  <2>2. CASE p \in Q
    <3>1. PICK k \in 1..Len(b) : \E r \in 1..Len(b[k]) : b[k][r] = p
      BY <2>2 DEF Lays
    <3>2. Len(a) + k \in 1..Len(c) /\ c[Len(a) + k] = b[k]
      BY <1>1, <1>2, <1>4
    <3> QED
      BY <3>1, <3>2
  <2> QED
    BY <2>1, <2>2 DEF U
<1>9. Lays(c, U)
  BY <1>4, <1>6, <1>7, <1>8 DEF Lays
<1> QED
  BY <1>9 DEF c, U

\* The panes of the columns from a to b.
Held(cs, a, b) == UNION {ToSet(cs[k]) : k \in a..b}

\* What is held, pane by pane.
LEMMA HeldPlaces ==
  ASSUME NEW cs, NEW P, Lays(cs, P), NEW a \in 1..(Len(cs) + 1), NEW b \in 0..Len(cs)
  PROVE  /\ a..b \subseteq 1..Len(cs)
         /\ \A p : p \in Held(cs, a, b) <=> \E k \in a..b : \E r \in 1..Len(cs[k]) : cs[k][r] = p
<1>1. a..b \subseteq 1..Len(cs)
  BY LaysTypes
<1>2. ASSUME NEW k \in a..b, NEW p
      PROVE  p \in ToSet(cs[k]) <=> \E r \in 1..Len(cs[k]) : cs[k][r] = p
  <2>1. cs[k] \in Seq(P)
    BY <1>1, LaysTypes
  <2>2. DOMAIN cs[k] = 1..Len(cs[k])
    BY <2>1
  <2> QED
    BY <2>2 DEF ToSet
<1>3. \A p : p \in Held(cs, a, b) <=> \E k \in a..b : p \in ToSet(cs[k])
  BY DEF Held
<1> QED
  BY <1>1, <1>2, <1>3

\* Different columns hold different panes.
LEMMA HeldApart ==
  ASSUME NEW cs, NEW P, Lays(cs, P),
         NEW a \in 1..(Len(cs) + 1), NEW b \in 0..Len(cs),
         NEW c \in 1..(Len(cs) + 1), NEW d \in 0..Len(cs), (a..b) \intersect (c..d) = {}
  PROVE  Held(cs, a, b) \intersect Held(cs, c, d) = {}
<1> SUFFICES ASSUME NEW p, p \in Held(cs, a, b), p \in Held(cs, c, d) PROVE FALSE
  OBVIOUS
<1>1. a..b \subseteq 1..Len(cs) /\ c..d \subseteq 1..Len(cs)
  BY HeldPlaces
<1>2. PICK k \in a..b : \E r \in 1..Len(cs[k]) : cs[k][r] = p
  BY HeldPlaces
<1>3. PICK j \in c..d : \E r \in 1..Len(cs[j]) : cs[j][r] = p
  BY HeldPlaces
<1>4. k \in 1..Len(cs) /\ j \in 1..Len(cs) /\ k # j
  BY <1>1
<1>5. \A x, y \in 1..Len(cs) : \A u \in 1..Len(cs[x]), v \in 1..Len(cs[y]) :
        cs[x][u] = cs[y][v] => x = y /\ u = v
  BY LaysPlaces
<1> QED
  BY <1>2, <1>3, <1>4, <1>5

\* All columns hold all panes.
LEMMA HeldWhole ==
  ASSUME NEW cs, NEW P, Lays(cs, P)
  PROVE  Held(cs, 1, Len(cs)) = P
<1>1. 1 \in 1..(Len(cs) + 1) /\ Len(cs) \in 0..Len(cs)
  BY LaysTypes
<1>2. \A p : p \in Held(cs, 1, Len(cs)) <=> \E k \in 1..Len(cs) : \E r \in 1..Len(cs[k]) : cs[k][r] = p
  BY <1>1, HeldPlaces
<1>3. \A p \in P : \E k \in 1..Len(cs) : \E r \in 1..Len(cs[k]) : cs[k][r] = p
  BY LaysPlaces
<1>4. \A k \in 1..Len(cs) : \A r \in 1..Len(cs[k]) : cs[k][r] \in P
  BY LaysTypes
<1> QED
  BY <1>2, <1>3, <1>4

\* Some of the columns of a geometry are a geometry of the panes they hold.
LEMMA LaysCut ==
  ASSUME NEW cs, NEW P, Lays(cs, P),
         NEW a \in 1..(Len(cs) + 1), NEW b \in 0..Len(cs), a <= b + 1
  PROVE  Lays(SubSeq(cs, a, b), Held(cs, a, b))
<1> DEFINE c == SubSeq(cs, a, b)
           Q == Held(cs, a, b)
<1>1. cs \in Seq(Seq(P)) /\ Len(cs) \in Nat
  BY LaysTypes
<1>2. /\ c \in Seq(Seq(P)) /\ Len(c) = b - a + 1
      /\ \A k \in 1..(b - a + 1) : c[k] = cs[a + k - 1]
  BY <1>1
<1>3. \A k \in 1..Len(c) : a + k - 1 \in a..b /\ a + k - 1 \in 1..Len(cs) /\ c[k] = cs[a + k - 1]
  BY <1>1, <1>2
<1>4. \A p : p \in Q <=> \E k \in a..b : \E r \in 1..Len(cs[k]) : cs[k][r] = p
  BY HeldPlaces
<1> HIDE DEF c, Q
<1>5. ASSUME NEW k \in 1..Len(c) PROVE c[k] \in Seq(Q)
  <2>1. c[k] \in Seq(P)
    BY <1>3, LaysTypes
  <2>2. \A r \in 1..Len(c[k]) : c[k][r] \in Q
    BY <1>3, <1>4
  <2> QED
    BY <2>1, <2>2, Retyped
<1>6. c \in Seq(Seq(Q))
  BY <1>2, <1>5, Retyped
<1>7. \A k \in 1..Len(c) : c[k] # <<>>
  BY <1>3, LaysPlaces
<1>8. ASSUME NEW k \in 1..Len(c), NEW j \in 1..Len(c),
             NEW r \in 1..Len(c[k]), NEW q \in 1..Len(c[j]), c[k][r] = c[j][q]
      PROVE  k = j /\ r = q
  <2>1. \A x, y \in 1..Len(cs) : \A u \in 1..Len(cs[x]), v \in 1..Len(cs[y]) :
          cs[x][u] = cs[y][v] => x = y /\ u = v
    BY LaysPlaces
  <2> DEFINE x == a + k - 1
             y == a + j - 1
  <2>3. x \in 1..Len(cs) /\ y \in 1..Len(cs) /\ c[k] = cs[x] /\ c[j] = cs[y]
    BY <1>3
  <2> HIDE DEF x, y
  <2>4. x = y /\ r = q
    BY ONLY <1>8, <2>1, <2>3, r \in 1..Len(c[k]), q \in 1..Len(c[j]), SMTT(20)
  <2>2. a + k - 1 = a + j - 1 /\ r = q
    BY <2>4 DEF x, y
  <2> QED
    BY <1>1, <1>2, <2>2
<1>9. ASSUME NEW p \in Q PROVE \E k \in 1..Len(c) : \E r \in 1..Len(c[k]) : c[k][r] = p
  <2>1. PICK k \in a..b : \E r \in 1..Len(cs[k]) : cs[k][r] = p
    BY <1>4
  <2>2. k - a + 1 \in 1..Len(c) /\ a + (k - a + 1) - 1 = k
    BY <1>1, <1>2
  <2>3. c[k - a + 1] = cs[k]
    BY <1>3, <2>2
  <2> QED
    BY <2>1, <2>2, <2>3
<1>10. Lays(c, Q)
  BY <1>6, <1>7, <1>8, <1>9 DEF Lays
<1> QED
  BY <1>10 DEF c, Q

\* A geometry falls into the columns before and after any place.
LEMMA LaysSplit ==
  ASSUME NEW cs, NEW P, Lays(cs, P), NEW k \in 0..Len(cs), NEW j, j = k + 1
  PROVE  /\ Lays(Before(cs, j), Held(cs, 1, k)) /\ Lays(After(cs, k), Held(cs, k + 1, Len(cs)))
         /\ Held(cs, 1, k) \intersect Held(cs, k + 1, Len(cs)) = {}
         /\ Held(cs, 1, k) \union Held(cs, k + 1, Len(cs)) = P
<1> DEFINE n == Len(cs)
           L == Held(cs, 1, k)
           R == Held(cs, k + 1, n)
<1>1. n \in Nat /\ k \in Nat /\ k <= n
  BY LaysTypes
<1>2. /\ 1 \in 1..(n + 1) /\ k \in 0..n /\ 1 <= k + 1
      /\ k + 1 \in 1..(n + 1) /\ n \in 0..n /\ k + 1 <= n + 1
      /\ (1..k) \intersect ((k + 1)..n) = {} /\ 1..n = (1..k) \union ((k + 1)..n)
      /\ (k + 1) - 1 = k
  BY <1>1
<1>3. Lays(SubSeq(cs, 1, k), L) /\ Lays(SubSeq(cs, k + 1, n), R)
  BY <1>2, LaysCut
<1>4. L \intersect R = {}
  BY <1>2, HeldApart
<1>5. L \union R = P
  <2>1. Held(cs, 1, n) = P
    BY HeldWhole
  <2>2. Held(cs, 1, n) = L \union R
    BY ONLY <1>2 DEF Held
  <2> QED
    BY <2>1, <2>2
<1> HIDE DEF L, R
<1>6. Lays(Before(cs, k + 1), L) /\ Lays(After(cs, k), R)
  BY <1>2, <1>3 DEF Before, After
<1>7. Before(cs, j) = Before(cs, k + 1)
  OBVIOUS
<1> QED
  BY <1>4, <1>5, <1>6, <1>7 DEF L, R

\* A geometry is the columns before one, that one, and the columns after it.
LEMMA LaysAround ==
  ASSUME NEW cs, NEW P, Lays(cs, P), NEW k \in 1..Len(cs)
  PROVE  \E L, R : /\ Lays(Before(cs, k), L) /\ Lays(After(cs, k), R)
                   /\ L \intersect R = {} /\ (L \union R) \intersect ToSet(cs[k]) = {}
                   /\ L \union R \union ToSet(cs[k]) = P
                   /\ PanesOf(After(cs, k)) = R
<1> DEFINE n == Len(cs)
           L == Held(cs, 1, k - 1)
           M == Held(cs, k, k)
           R == Held(cs, k + 1, n)
<1>1. n \in Nat /\ k \in Nat /\ k <= n /\ 1 <= k
  BY LaysTypes
<1>2. /\ 1 \in 1..(n + 1) /\ k - 1 \in 0..n /\ 1 <= (k - 1) + 1
      /\ k + 1 \in 1..(n + 1) /\ n \in 0..n /\ k + 1 <= n + 1
      /\ k \in 1..(n + 1) /\ k \in 0..n
      /\ (1..(k - 1)) \intersect ((k + 1)..n) = {}
      /\ (1..(k - 1)) \intersect (k..k) = {} /\ ((k + 1)..n) \intersect (k..k) = {}
      /\ 1..n = (1..(k - 1)) \union ((k + 1)..n) \union (k..k)
      /\ k..k = {k}
  BY <1>1
<1>3. Lays(SubSeq(cs, 1, k - 1), L) /\ Lays(SubSeq(cs, k + 1, n), R)
  BY <1>2, LaysCut
<1>4. L \intersect R = {}
  BY <1>2, HeldApart
<1>5. L \intersect M = {}
  BY <1>2, HeldApart
<1>6. R \intersect M = {}
  BY <1>2, HeldApart
<1>7. Held(cs, 1, n) = P
  BY HeldWhole
<1>8. Held(cs, 1, n) = L \union R \union M
  BY ONLY <1>2 DEF Held
<1>9. M = ToSet(cs[k])
  BY ONLY <1>2 DEF Held
<1> HIDE DEF L, R, M
<1>10. Lays(Before(cs, k), L) /\ Lays(After(cs, k), R)
  BY <1>3 DEF Before, After
<1>11. PanesOf(After(cs, k)) = R
  BY <1>10, LaysGeometry
<1> QED
  BY <1>4, <1>5, <1>6, <1>7, <1>8, <1>9, <1>10, <1>11

\* A column can be exchanged for one of other panes.
LEMMA LaysChange ==
  ASSUME NEW cs, NEW P, Lays(cs, P), NEW k \in 1..Len(cs),
         NEW s, NEW A, Lists(s, A), s # <<>>, A \intersect (P \ ToSet(cs[k])) = {}
  PROVE  Lays([cs EXCEPT ![k] = s], (P \ ToSet(cs[k])) \union A)
<1> DEFINE c == [cs EXCEPT ![k] = s]
           D == P \ ToSet(cs[k])
           U == D \union A
<1>1. /\ cs \in Seq(Seq(P)) /\ Len(cs) \in Nat
      /\ \A j \in 1..Len(cs) : cs[j] \in Seq(P)
      /\ \A j \in 1..Len(cs) : \A r \in 1..Len(cs[j]) : cs[j][r] \in P
  BY LaysTypes
<1>2. DOMAIN c = 1..Len(cs) /\ c[k] = s /\ \A j \in (1..Len(cs)) \ {k} : c[j] = cs[j]
  BY <1>1
<1>3. c \in Seq(Seq(P) \union Seq(A)) /\ Len(c) = Len(cs)
  <2> DEFINE X == Seq(P) \union Seq(A)
  <2>1. s \in X /\ \A j \in 1..Len(cs) : cs[j] \in X
    BY <1>1 DEF Lists
  <2>2. cs \in Seq(X)
    BY <1>1, <2>1, Retyped
  <2> HIDE DEF X
  <2>3. c \in Seq(X) /\ Len(c) = Len(cs)
    BY <2>1, <2>2
  <2> QED
    BY <2>3 DEF X
<1> HIDE DEF c
<1>4. \A x, y \in 1..Len(cs) : \A u \in 1..Len(cs[x]), v \in 1..Len(cs[y]) :
        cs[x][u] = cs[y][v] => x = y /\ u = v
  BY LaysPlaces
<1>5. \A p : p \in ToSet(cs[k]) <=> \E r \in 1..Len(cs[k]) : cs[k][r] = p
  <2>1. DOMAIN cs[k] = 1..Len(cs[k])
    BY <1>1
  <2> QED
    BY <2>1 DEF ToSet
<1>6. ASSUME NEW j \in (1..Len(cs)) \ {k}, NEW r \in 1..Len(cs[j]) PROVE cs[j][r] \in D
  <2>1. cs[j][r] \notin ToSet(cs[k])
    BY <1>4, <1>5
  <2> QED
    BY <1>1, <2>1
<1>7. s \in Seq(A) /\ \A r \in 1..Len(s) : s[r] \in A
  BY DEF Lists
<1> HIDE DEF D
<1>8. A \intersect D = {}
  BY DEF D
<1>9. ASSUME NEW j \in 1..Len(c) PROVE c[j] \in Seq(U)
  <2>1. CASE j = k
    BY <1>2, <1>7, <2>1
  <2>2. CASE j # k
    <3>1. c[j] = cs[j] /\ cs[j] \in Seq(P) /\ \A r \in 1..Len(cs[j]) : cs[j][r] \in U
      BY <1>1, <1>2, <1>3, <1>6, <2>2
    <3> QED
      BY <3>1, Retyped
  <2> QED
    BY <2>1, <2>2
<1>10. c \in Seq(Seq(U))
  BY <1>3, <1>9, Retyped
<1>11. \A j \in 1..Len(c) : c[j] # <<>>
  BY <1>2, <1>3, LaysPlaces
<1>12. ASSUME NEW x \in 1..Len(c), NEW y \in 1..Len(c),
              NEW u \in 1..Len(c[x]), NEW v \in 1..Len(c[y]), c[x][u] = c[y][v]
       PROVE  x = y /\ u = v
  <2>1. CASE x = k /\ y = k
    <3>1. \A i, j \in 1..Len(s) : s[i] = s[j] => i = j
      BY DEF Lists
    <3> QED
      BY <1>2, <1>12, <2>1, <3>1
  <2>2. CASE x # k /\ y # k
    BY <1>2, <1>3, <1>4, <1>12, <2>2
  <2>3. CASE x = k /\ y # k
    <3>1. c[x][u] \in A /\ c[y][v] \in D
      BY <1>2, <1>3, <1>6, <1>7, <2>3
    <3> QED
      BY <1>8, <1>12, <3>1
  <2>4. CASE x # k /\ y = k
    <3>1. c[x][u] \in D /\ c[y][v] \in A
      BY <1>2, <1>3, <1>6, <1>7, <2>4
    <3> QED
      BY <1>8, <1>12, <3>1
  <2> QED
    BY <2>1, <2>2, <2>3, <2>4
<1>13. ASSUME NEW p \in U PROVE \E j \in 1..Len(c) : \E r \in 1..Len(c[j]) : c[j][r] = p
  <2>1. CASE p \in A
    <3>1. PICK r \in 1..Len(s) : s[r] = p
      BY <2>1 DEF Lists
    <3> QED
      BY <1>2, <1>3, <3>1
  <2>2. CASE p \in D
    <3>1. p \in P /\ p \notin ToSet(cs[k])
      BY <2>2 DEF D
    <3>2. PICK j \in 1..Len(cs) : \E r \in 1..Len(cs[j]) : cs[j][r] = p
      BY <3>1, LaysPlaces
    <3>3. j # k
      BY <1>5, <3>1, <3>2
    <3> QED
      BY <1>2, <1>3, <3>2, <3>3
  <2> QED
    BY <2>1, <2>2
<1>14. Lays(c, U)
  BY <1>10, <1>11, <1>12, <1>13 DEF Lays
<1> QED
  BY <1>14 DEF c, D

\* The place of a pane.
LEMMA LaysPlace ==
  ASSUME NEW cs, NEW P, Lays(cs, P), NEW p \in P
  PROVE  /\ ColOf(cs, p) \in 1..Len(cs)
         /\ RowOf(cs, p) \in 1..Len(cs[ColOf(cs, p)])
         /\ cs[ColOf(cs, p)][RowOf(cs, p)] = p
         /\ \A k \in 1..Len(cs) : \A r \in 1..Len(cs[k]) :
              cs[k][r] = p => k = ColOf(cs, p) /\ r = RowOf(cs, p)
<1>1. /\ cs \in Seq(Seq(P))
      /\ \A j \in 1..Len(cs) : cs[j] \in Seq(P)
  BY LaysTypes
<1>2. DOMAIN cs = 1..Len(cs) /\ \A j \in 1..Len(cs) : DOMAIN cs[j] = 1..Len(cs[j])
  BY <1>1
<1>3. PICK k \in 1..Len(cs) : \E r \in 1..Len(cs[k]) : cs[k][r] = p
  BY LaysPlaces
<1>4. \E j \in DOMAIN cs : p \in ToSet(cs[j])
  BY <1>2, <1>3 DEF ToSet
<1>5. ColOf(cs, p) \in 1..Len(cs) /\ p \in ToSet(cs[ColOf(cs, p)])
  <2>1. ColOf(cs, p) \in DOMAIN cs /\ p \in ToSet(cs[ColOf(cs, p)])
    BY <1>4 DEF ColOf
  <2> QED
    BY <1>2, <2>1
<1>6. \E r \in DOMAIN cs[ColOf(cs, p)] : cs[ColOf(cs, p)][r] = p
  BY <1>5 DEF ToSet
<1>7. RowOf(cs, p) \in 1..Len(cs[ColOf(cs, p)]) /\ cs[ColOf(cs, p)][RowOf(cs, p)] = p
  <2>1. RowOf(cs, p) \in DOMAIN cs[ColOf(cs, p)] /\ cs[ColOf(cs, p)][RowOf(cs, p)] = p
    BY <1>6 DEF RowOf
  <2> QED
    BY <1>2, <1>5, <2>1
<1>8. \A x, y \in 1..Len(cs) : \A u \in 1..Len(cs[x]), v \in 1..Len(cs[y]) :
        cs[x][u] = cs[y][v] => x = y /\ u = v
  BY LaysPlaces
<1> QED
  BY <1>5, <1>7, <1>8

\* The column of a pane without it, if anything is left.
LEMMA LaysWithout ==
  ASSUME NEW cs, NEW P, Lays(cs, P), NEW p \in P
  PROVE  LET k    == ColOf(cs, p)
             rest == RemoveAt(cs[k], RowOf(cs, p))
         IN  /\ Lists(rest, ToSet(cs[k]) \ {p}) /\ ToSet(rest) = ToSet(cs[k]) \ {p}
             /\ Lays(IF rest = <<>> THEN <<>> ELSE <<rest>>, ToSet(cs[k]) \ {p})
<1> DEFINE k == ColOf(cs, p)
           r == RowOf(cs, p)
           A == ToSet(cs[k])
           rest == RemoveAt(cs[k], r)
<1>1. k \in 1..Len(cs) /\ r \in 1..Len(cs[k]) /\ cs[k][r] = p
  BY LaysPlace
<1> HIDE DEF k, r
<1>2. Lists(cs[k], A)
  BY <1>1, LaysColumn
<1> HIDE DEF A
<1>3. Lists(rest, A \ {p})
  BY <1>1, <1>2, ListsRemove
<1> HIDE DEF rest
<1>4. rest \in Seq(A \ {p}) /\ (\A a \in A \ {p} : \E i \in 1..Len(rest) : rest[i] = a)
  BY <1>3 DEF Lists
<1>5. ToSet(rest) = A \ {p}
  <2>1. DOMAIN rest = 1..Len(rest) /\ \A i \in 1..Len(rest) : rest[i] \in A \ {p}
    BY <1>4
  <2> QED
    BY <1>4, <2>1 DEF ToSet
<1>6. CASE rest = <<>>
  <2>1. A \ {p} = {}
    BY <1>5, <1>6 DEF ToSet
  <2>2. Lays(IF rest = <<>> THEN <<>> ELSE <<rest>>, A \ {p})
    BY <1>6, <2>1, LaysNothing
  <2> QED
    BY <1>3, <1>5, <2>2 DEF rest, A, k, r
<1>7. CASE rest # <<>>
  <2>1. Lays(<<rest>>, A \ {p})
    BY <1>3, <1>7, LaysOne
  <2>2. Lays(IF rest = <<>> THEN <<>> ELSE <<rest>>, A \ {p})
    BY <1>7, <2>1
  <2> QED
    BY <1>3, <1>5, <2>2 DEF rest, A, k, r
<1> QED
  BY <1>6, <1>7

\* A set of n elements is listed by each of its sequences.
LEMMA SetListed ==
  ASSUME NEW P, IsFiniteSet(P), NEW s \in SetToSeqs(P)
  PROVE  Lists(s, P) /\ Len(s) = Cardinality(P)
<1> DEFINE n == Cardinality(P)
<1>1. n \in Nat
  BY FS_CardinalityType
<1>2. s \in [1..n -> P] /\ \A i, j \in 1..n : i # j => s[i] # s[j]
  BY DEF SetToSeqs
<1>3. s \in Injection(1..n, P)
  BY <1>2 DEF Injection, IsInjective
<1>4. Cardinality(1..n) = n
  <2> HIDE DEF n
  <2> QED
    BY <1>1, FS_Interval
<1>5. s \in Surjection(1..n, P)
  BY <1>3, <1>4, FS_Injection
<1>6. \A a \in P : \E i \in 1..n : s[i] = a
  BY <1>5 DEF Surjection
<1> HIDE DEF n
<1>7. s \in Seq(P) /\ Len(s) = n
  BY <1>1, <1>2
<1>8. Lists(s, P)
  BY <1>2, <1>6, <1>7 DEF Lists
<1> QED
  BY <1>7, <1>8 DEF n

\* Cutting a list into columns lays its elements out.
LEMMA CutsLay ==
  ASSUME NEW P, NEW s, Lists(s, P), s # <<>>, NEW T
  PROVE  Lays(Cuts(s, T \union {1}), P)
<1> DEFINE n == Len(s)
           S == T \union {1}
           id == [i \in DOMAIN s |-> i]
           start == Retained(id, S)
           m == Len(start)
           end(i) == IF i = m THEN n ELSE start[i + 1] - 1
           c == Cuts(s, S)
<1>1. s \in Seq(P) /\ n \in Nat /\ 1 \in 1..n /\ DOMAIN s = 1..n /\ \A i \in 1..n : s[i] \in P
  <2>1. s \in Seq(P)
    BY DEF Lists
  <2> QED
    BY <2>1
<1>2. id \in Seq(Nat) /\ Len(id) = n /\ \A i \in 1..n : id[i] = i
  BY <1>1
<1> HIDE DEF id, S, n
<1>3. /\ start \in Seq(Nat)
      /\ \E at : Picks(id, Len(id), S, start, at)
  BY <1>2, RetainedPositions
<1>4. PICK at : Picks(id, n, S, start, at)
  BY <1>2, <1>3
<1> HIDE DEF start, m
<1>5. m \in Nat /\ \A i \in 1..m : start[i] \in Nat
  BY <1>3 DEF m
<1>6. /\ at \in [1..m -> 1..n]
      /\ \A i, j \in 1..m : i < j => at[i] < at[j]
      /\ \A i \in 1..m : start[i] = id[at[i]] /\ id[at[i]] \in S
      /\ \A j \in 1..n : id[j] \in S => \E i \in 1..m : at[i] = j
  BY <1>4, Zenon DEF Picks, m
<1>7. /\ \A i \in 1..m : start[i] \in 1..n
      /\ \A i, j \in 1..m : i < j => start[i] < start[j]
      /\ \E i \in 1..m : start[i] = 1
  <2>1. \A i \in 1..m : at[i] \in 1..n /\ start[i] = at[i]
    BY <1>2, <1>6
  <2>2. \E i \in 1..m : at[i] = 1
    BY <1>1, <1>2, <1>6 DEF S
  <2> QED
    BY <1>6, <2>1, <2>2
<1>8. m \in 1..m /\ 1 \in 1..m /\ start[1] = 1
  <2>1. PICK i \in 1..m : start[i] = 1
    BY <1>7
  <2>2. 1 \in 1..m /\ m \in 1..m
    BY <1>5, <2>1
  <2>3. i = 1
    <3> SUFFICES ASSUME i # 1 PROVE FALSE
      OBVIOUS
    <3>1. 1 < i /\ start[1] \in 1..n
      BY <1>5, <1>7, <2>2
    <3>2. start[1] < start[i]
      BY <1>7, <2>2, <3>1
    <3> QED
      BY <1>1, <2>1, <3>1, <3>2
  <2> QED
    BY <2>1, <2>2, <2>3
<1>9. ASSUME NEW i \in 1..m PROVE end(i) \in start[i]..n
  <2>1. CASE i = m
    BY <1>1, <1>7, <2>1
  <2>2. CASE i # m
    <3>1. i + 1 \in 1..m /\ i < i + 1
      BY <1>5, <2>2
    <3>2. start[i] < start[i + 1] /\ start[i + 1] \in 1..n /\ start[i] \in 1..n
      BY <1>7, <3>1
    <3> QED
      BY <1>1, <2>2, <3>2
  <2> QED
    BY <2>1, <2>2
<1>10. ASSUME NEW i \in 1..m, NEW j \in 1..m, i < j PROVE end(i) < start[j]
  <2>1. i + 1 \in 1..m /\ i # m /\ (i + 1 = j \/ i + 1 < j)
    BY <1>5, <1>10
  <2>2. start[i + 1] \in 1..n /\ start[j] \in 1..n /\ start[i + 1] <= start[j]
    <3>1. start[i + 1] \in 1..n /\ start[j] \in 1..n
      BY <1>7, <2>1
    <3>2. i + 1 < j => start[i + 1] < start[j]
      BY <1>7, <2>1
    <3> QED
      BY <1>1, <2>1, <3>1, <3>2
  <2> QED
    BY <1>1, <2>1, <2>2
<1>11. c = [i \in 1..m |-> SubSeq(s, start[i], end(i))]
  BY DEF Cuts, start, id, m, n
<1> HIDE DEF c, end
<1>12. ASSUME NEW i \in 1..m
       PROVE  /\ c[i] \in Seq(P) /\ c[i] # <<>> /\ Len(c[i]) = end(i) - start[i] + 1
              /\ start[i] \in 1..n /\ end(i) \in 1..n /\ start[i] <= end(i)
              /\ \A r \in 1..Len(c[i]) : /\ start[i] + r - 1 \in start[i]..end(i)
                                         /\ start[i] + r - 1 \in 1..n
                                         /\ c[i][r] = s[start[i] + r - 1]
  <2>1. start[i] \in 1..n /\ end(i) \in 1..n /\ start[i] <= end(i)
    BY <1>1, <1>7, <1>9
  <2>2. c[i] = SubSeq(s, start[i], end(i))
    BY <1>11
  <2> DEFINE a == start[i]
             b == end(i)
  <2> HIDE DEF a, b
  <2>3. a \in 1..n /\ b \in 1..n /\ a <= b
    BY <2>1 DEF a, b
  <2>4. /\ SubSeq(s, a, b) \in Seq(P) /\ Len(SubSeq(s, a, b)) = b - a + 1
        /\ \A r \in 1..(b - a + 1) : SubSeq(s, a, b)[r] = s[a + r - 1]
    BY <1>1, <2>3 DEF n
  <2>5. b - a + 1 \in Nat \ {0}
    BY <1>1, <2>3
  <2>6. \A r \in 1..(b - a + 1) : a + r - 1 \in a..b /\ a + r - 1 \in 1..n
    BY <1>1, <2>3
  <2>7. SubSeq(s, a, b) # <<>>
    BY <2>4, <2>5
  <2>8. c[i] = SubSeq(s, a, b)
    BY <2>2 DEF a, b
  <2>9. \A r \in 1..Len(c[i]) : a + r - 1 \in a..b /\ a + r - 1 \in 1..n /\ c[i][r] = s[a + r - 1]
    BY <2>4, <2>6, <2>8
  <2> QED
    BY <2>1, <2>4, <2>7, <2>8, <2>9 DEF a, b
<1>13. c \in Seq(Seq(P)) /\ Len(c) = m
  <2> DEFINE X == Seq(P)
  <2>1. \A i \in 1..m : c[i] \in X
    BY <1>12
  <2> HIDE DEF X
  <2>2. c = [i \in 1..m |-> c[i]]
    BY <1>11
  <2>3. c \in Seq(X) /\ Len(c) = m
    BY <1>5, <2>1, <2>2
  <2> QED
    BY <2>3 DEF X
<1>14. ASSUME NEW i \in 1..m, NEW j \in 1..m,
              NEW r \in 1..Len(c[i]), NEW q \in 1..Len(c[j]), c[i][r] = c[j][q]
       PROVE  i = j /\ r = q
  <2> DEFINE x == start[i] + r - 1
             y == start[j] + q - 1
  <2>1. /\ x \in start[i]..end(i) /\ x \in 1..n /\ c[i][r] = s[x]
        /\ y \in start[j]..end(j) /\ y \in 1..n /\ c[j][q] = s[y]
    BY <1>12
  <2>2. \A u, v \in 1..n : s[u] = s[v] => u = v
    BY DEF Lists, n
  <2>3. x = y
    BY <1>14, <2>1, <2>2
  <2>4. start[i] \in Int /\ end(i) \in Int /\ start[j] \in Int /\ end(j) \in Int /\ r \in Int /\ q \in Int
    BY <1>1, <1>12, SMTT(20)
  <2>5. ~(i < j)
    <3> HIDE DEF x, y
    <3> SUFFICES ASSUME i < j PROVE FALSE
      OBVIOUS
    <3>1. end(i) < start[j]
      BY <1>10
    <3> QED
      BY <1>1, <2>1, <2>3, <2>4, <3>1
  <2>6. ~(j < i)
    <3> HIDE DEF x, y
    <3> SUFFICES ASSUME j < i PROVE FALSE
      OBVIOUS
    <3>1. end(j) < start[i]
      BY <1>10
    <3> QED
      BY <1>1, <2>1, <2>3, <2>4, <3>1
  <2>7. i = j
    BY <1>5, <2>5, <2>6
  <2> QED
    BY <2>3, <2>4, <2>7
<1>15. ASSUME NEW p \in P PROVE \E i \in 1..m : \E r \in 1..Len(c[i]) : c[i][r] = p
  <2>1. PICK x \in 1..n : s[x] = p
    BY DEF Lists, n
  <2> DEFINE J == {j \in 1..m : x <= end(j)}
  <2>2. m \in J
    BY <1>1, <1>8 DEF end
  <2>3. J \in SUBSET Nat
    OBVIOUS
  <2> HIDE DEF J
  <2>4. PICK i \in J : \A j \in J : i <= j
    BY <2>2, <2>3, Least
  <2>5. i \in 1..m /\ x <= end(i)
    BY <2>4 DEF J
  <2>6. start[i] <= x
    <3>1. CASE i = 1
      BY <1>1, <1>8, <3>1
    <3>2. CASE i # 1
      <4>1. i - 1 \in 1..m /\ i - 1 # m /\ (i - 1) + 1 = i /\ ~(i <= i - 1)
        BY <1>5, <2>5, <3>2
      <4>2. i - 1 \notin J
        BY <2>4, <4>1
      <4>3. ~(x <= end(i - 1)) /\ end(i - 1) = start[i] - 1
        BY <4>1, <4>2 DEF J, end
      <4> QED
        BY <1>1, <1>7, <2>5, <4>3
    <3> QED
      BY <3>1, <3>2
  <2> DEFINE r == x - start[i] + 1
  <2>7. start[i] \in 1..n /\ end(i) \in 1..n /\ Len(c[i]) = end(i) - start[i] + 1
    BY <1>12, <2>5
  <2>8. r \in 1..Len(c[i]) /\ start[i] + r - 1 = x
    BY <1>1, <2>5, <2>6, <2>7
  <2>9. c[i][r] = s[start[i] + r - 1]
    BY <1>12, <2>5, <2>8
  <2> QED
    BY <2>1, <2>5, <2>8, <2>9
<1>16. Lays(c, P)
  BY <1>12, <1>13, <1>14, <1>15 DEF Lays
<1> QED
  BY <1>16 DEF c, S

\* Every arrangement of some panes lays them out.
LEMMA ArrangementsLay ==
  ASSUME NEW P, IsFiniteSet(P), NEW cs \in Arrangements(P)
  PROVE  Lays(cs, P)
<1>1. CASE P = {}
  <2>1. cs = <<>>
    BY <1>1 DEF Arrangements
  <2> QED
    BY <1>1, <2>1, LaysNothing
<1>2. CASE P # {}
  <2>1. PICK s \in SetToSeqs(P), S \in SUBSET (2..Cardinality(P)) : cs = Cuts(s, S \union {1})
    <3> DEFINE X == {Cuts(s, S \union {1}) : s \in SetToSeqs(P), S \in SUBSET (2..Cardinality(P))}
    <3>1. Arrangements(P) = IF P = {} THEN {<<>>} ELSE X
      BY DEF Arrangements
    <3> HIDE DEF X
    <3>2. cs \in X
      BY <1>2, <3>1
    <3> QED
      BY <3>2, SMT DEF X
  <2>2. Lists(s, P)
    BY SetListed
  <2>3. s # <<>>
    <3>1. \A a \in P : \E i \in 1..Len(s) : s[i] = a
      BY <2>2 DEF Lists
    <3>2. Len(<<>>) = 0
      OBVIOUS
    <3> QED
      BY <1>2, <3>1, <3>2
  <2> QED
    BY <2>1, <2>2, <2>3, CutsLay
<1> QED
  BY <1>1, <1>2

\* A pane that leaves the window leaves a geometry of the other ones.
LEMMA RemovalsLay ==
  ASSUME NEW P, IsFiniteSet(P), NEW cs, Lays(cs, P), NEW p \in P, NEW c \in Removals(cs, p)
  PROVE  Lays(c, P \ {p})
<1> DEFINE k    == ColOf(cs, p)
           C    == ToSet(cs[k])
           rest == RemoveAt(cs[k], RowOf(cs, p))
           kept == IF rest = <<>> THEN <<>> ELSE <<rest>>
           room == ToSet(rest) \union PanesOf(After(cs, k))
           ends == IsRow(cs) \/ k = Len(cs)
           Rests == {Before(cs, k) \o tail : tail \in Arrangements(room)}
<1>1. k \in 1..Len(cs) /\ p \in C
  <2>1. k \in 1..Len(cs) /\ RowOf(cs, p) \in 1..Len(cs[k]) /\ cs[k][RowOf(cs, p)] = p
    BY LaysPlace
  <2>2. Lists(cs[k], C)
    BY <2>1, LaysColumn
  <2>3. cs[k] \in Seq(C)
    BY <2>2 DEF Lists
  <2> HIDE DEF k, C
  <2> QED
    BY <2>1, <2>3
<1>2. ToSet(rest) = C \ {p} /\ Lays(kept, C \ {p})
  BY LaysWithout
<1>3. Removals(cs, p) = IF ends THEN {Before(cs, k) \o kept \o After(cs, k)} ELSE Rests
  BY DEF Removals
<1> HIDE DEF k, C, rest, kept, ends
<1>4. PICK L, R : /\ Lays(Before(cs, k), L) /\ Lays(After(cs, k), R)
                  /\ L \intersect R = {} /\ (L \union R) \intersect C = {}
                  /\ L \union R \union C = P
                  /\ PanesOf(After(cs, k)) = R
  BY <1>1, LaysAround DEF C
<1>5. CASE ends
  <2>1. c = (Before(cs, k) \o kept) \o After(cs, k)
    BY <1>3, <1>5
  <2>2. L \intersect (C \ {p}) = {} /\ (L \union (C \ {p})) \intersect R = {}
    BY <1>4
  <2>3. Lays(Before(cs, k) \o kept, L \union (C \ {p}))
    BY <1>2, <1>4, <2>2, LaysJoin
  <2>4. Lays(c, (L \union (C \ {p})) \union R)
    BY <1>4, <2>1, <2>2, <2>3, LaysJoin
  <2>5. (L \union (C \ {p})) \union R = P \ {p}
    BY <1>1, <1>4
  <2> QED
    BY <2>4, <2>5
<1>6. CASE ~ends
  <2>1. room = (C \ {p}) \union R
    BY <1>2, <1>4
  <2> HIDE DEF room
  <2>2. c \in Rests
    BY <1>3, <1>6
  <2>3. PICK tail \in Arrangements(room) : c = Before(cs, k) \o tail
    BY <2>2
  <2>4. IsFiniteSet(room)
    <3>1. room \in SUBSET P
      BY <1>4, <2>1
    <3> QED
      BY <3>1, FS_Subset
  <2>5. Lays(tail, room)
    BY <2>4, ArrangementsLay
  <2>6. L \intersect room = {} /\ L \union room = P \ {p}
    BY <1>1, <1>4, <2>1
  <2>7. Lays(c, L \union room)
    BY <1>4, <2>3, <2>5, <2>6, LaysJoin
  <2> QED
    BY <2>6, <2>7
<1> QED
  BY <1>5, <1>6

\* A new column between two others.
LEMMA LaysBeside ==
  ASSUME NEW P, NEW cs, Lays(cs, P), NEW p, p \notin P, NEW k \in 0..Len(cs)
  PROVE  Lays(Before(cs, k + 1) \o << <<p>> >> \o After(cs, k), P \union {p})
<1> DEFINE j == k + 1
<1> DEFINE L == Held(cs, 1, k)
           R == Held(cs, k + 1, Len(cs))
<1>1. /\ Lays(Before(cs, j), L) /\ Lays(After(cs, k), R)
      /\ L \intersect R = {} /\ L \union R = P
  BY LaysSplit
<1> HIDE DEF j, L, R
<1>2. Lays(<< <<p>> >>, {p})
  <2>1. Lists(<<p>>, {p}) /\ <<p>> # <<>>
    BY ListsOne
  <2> QED
    BY <2>1, LaysOne
<1>3. L \intersect {p} = {} /\ (L \union {p}) \intersect R = {} /\ (L \union {p}) \union R = P \union {p}
  BY <1>1
<1>4. Lays(Before(cs, j) \o << <<p>> >>, L \union {p})
  BY <1>1, <1>2, <1>3, LaysJoin
<1>5. Lays((Before(cs, j) \o << <<p>> >>) \o After(cs, k), (L \union {p}) \union R)
  BY <1>1, <1>3, <1>4, LaysJoin
<1> QED
  BY <1>3, <1>5 DEF j

\* A new pane in a column.
LEMMA LaysStacked ==
  ASSUME NEW P, NEW cs, Lays(cs, P), NEW p, p \notin P,
         NEW k \in 1..Len(cs), NEW r \in 1..(Len(cs[k]) + 1)
  PROVE  Lays([cs EXCEPT ![k] = InsertAt(cs[k], r, p)], P \union {p})
<1> DEFINE A == ToSet(cs[k])
           s == InsertAt(cs[k], r, p)
<1>1. Lists(cs[k], A) /\ A \subseteq P
  BY LaysColumn
<1> HIDE DEF A
<1>2. Lists(s, A \union {p})
  BY <1>1, ListsInsert
<1> HIDE DEF s
<1>3. s # <<>>
  <2>1. \E i \in 1..Len(s) : s[i] = p
    BY <1>2 DEF Lists
  <2>2. Len(<<>>) = 0
    OBVIOUS
  <2> QED
    BY <2>1, <2>2
<1>4. (A \union {p}) \intersect (P \ A) = {} /\ (P \ A) \union (A \union {p}) = P \union {p}
  BY <1>1
<1>5. Lays([cs EXCEPT ![k] = s], (P \ A) \union (A \union {p}))
  BY <1>2, <1>3, <1>4, LaysChange DEF A
<1> QED
  BY <1>4, <1>5 DEF s

\* A pane in the place of another one.
LEMMA LaysInstead ==
  ASSUME NEW P, NEW cs, Lays(cs, P), NEW t \in P, NEW p, p \notin P,
         NEW S, NEW c \in Seq(Seq(S)), Len(c) = Len(cs),
         \A k \in 1..Len(cs) : Len(c[k]) = Len(cs[k]),
         \A k \in 1..Len(cs) : \A r \in 1..Len(cs[k]) :
           c[k][r] = IF cs[k][r] = t THEN p ELSE cs[k][r]
  PROVE  Lays(c, (P \ {t}) \union {p})
<1> DEFINE U == (P \ {t}) \union {p}
<1>1. \A k \in 1..Len(cs) : \A r \in 1..Len(cs[k]) : cs[k][r] \in P
  BY LaysTypes
<1>2. ASSUME NEW k \in 1..Len(c) PROVE c[k] \in Seq(U)
  <2>1. k \in 1..Len(cs) /\ Len(c[k]) = Len(cs[k])
    OBVIOUS
  <2>2. \A r \in 1..Len(c[k]) : c[k][r] \in U
    BY <1>1, <2>1
  <2>3. c[k] \in Seq(S)
    OBVIOUS
  <2> QED
    BY <2>2, <2>3, Retyped
<1>3. c \in Seq(Seq(U))
  BY <1>2, Retyped
<1>4. \A k \in 1..Len(c) : c[k] # <<>>
  <2>1. \A k \in 1..Len(cs) : Len(cs[k]) \in Nat \ {0}
    BY LaysTypes
  <2>2. Len(<<>>) = 0
    OBVIOUS
  <2> QED
    BY <2>1, <2>2
<1>5. ASSUME NEW k \in 1..Len(c), NEW j \in 1..Len(c),
             NEW r \in 1..Len(c[k]), NEW q \in 1..Len(c[j]), c[k][r] = c[j][q]
      PROVE  k = j /\ r = q
  <2>1. \A x, y \in 1..Len(cs) : \A u \in 1..Len(cs[x]), v \in 1..Len(cs[y]) :
          cs[x][u] = cs[y][v] => x = y /\ u = v
    BY LaysPlaces
  <2>2. k \in 1..Len(cs) /\ j \in 1..Len(cs) /\ r \in 1..Len(cs[k]) /\ q \in 1..Len(cs[j])
    OBVIOUS
  <2>3. /\ c[k][r] = IF cs[k][r] = t THEN p ELSE cs[k][r]
        /\ c[j][q] = IF cs[j][q] = t THEN p ELSE cs[j][q]
        /\ cs[k][r] # p /\ cs[j][q] # p
    BY <1>1, <2>2
  <2>4. cs[k][r] = cs[j][q]
    BY <1>5, <2>3
  <2> QED
    BY ONLY <2>1, <2>2, <2>4
<1>6. ASSUME NEW q \in U PROVE \E k \in 1..Len(c) : \E r \in 1..Len(c[k]) : c[k][r] = q
  <2>1. CASE q = p
    <3>1. PICK k \in 1..Len(cs) : \E r \in 1..Len(cs[k]) : cs[k][r] = t
      BY LaysPlaces
    <3> QED
      BY <2>1, <3>1
  <2>2. CASE q \in P \ {t}
    <3>1. q \in P /\ q # t
      BY <2>2
    <3>2. PICK k \in 1..Len(cs) : \E r \in 1..Len(cs[k]) : cs[k][r] = q
      BY <3>1, LaysPlaces
    <3> QED
      BY <3>1, <3>2
  <2> QED
    BY <2>1, <2>2
<1> HIDE DEF U
<1>7. Lays(c, U)
  BY <1>3, <1>4, <1>5, <1>6 DEF Lays
<1> QED
  BY <1>7 DEF U

\* swap-pane lays out the new pane instead of the old one.
LEMMA ReplacedLay ==
  ASSUME NEW P, NEW cs, Lays(cs, P), NEW t \in P, NEW p, p \notin P
  PROVE  Lays(Replaced(cs, t, p), (P \ {t}) \union {p})
<1> DEFINE U == P \union {p}
           c == Replaced(cs, t, p)
           col(k) == [r \in DOMAIN cs[k] |-> IF cs[k][r] = t THEN p ELSE cs[k][r]]
<1>1. /\ cs \in Seq(Seq(P)) /\ Len(cs) \in Nat
      /\ \A k \in 1..Len(cs) : cs[k] \in Seq(P) /\ Len(cs[k]) \in Nat
      /\ \A k \in 1..Len(cs) : \A r \in 1..Len(cs[k]) : cs[k][r] \in P
  BY LaysTypes
<1>2. DOMAIN cs = 1..Len(cs) /\ \A k \in 1..Len(cs) : DOMAIN cs[k] = 1..Len(cs[k])
  BY <1>1
<1>3. c = [k \in 1..Len(cs) |-> col(k)]
  BY <1>2 DEF Replaced
<1>4. ASSUME NEW k \in 1..Len(cs)
      PROVE  /\ col(k) \in Seq(U) /\ Len(col(k)) = Len(cs[k])
             /\ \A r \in 1..Len(cs[k]) : col(k)[r] = IF cs[k][r] = t THEN p ELSE cs[k][r]
  <2>1. col(k) = [r \in 1..Len(cs[k]) |-> IF cs[k][r] = t THEN p ELSE cs[k][r]]
    BY <1>2
  <2>2. \A r \in 1..Len(cs[k]) : cs[k][r] \in P
    BY <1>1
  <2>3. Len(cs[k]) \in Nat
    BY <1>1
  <2> QED
    BY <2>1, <2>2, <2>3
<1> HIDE DEF c, col
<1>6. (\A k \in 1..Len(cs) : c[k] = col(k)) /\ c = [k \in 1..Len(cs) |-> c[k]]
  BY <1>3
<1>5. c \in Seq(Seq(U)) /\ Len(c) = Len(cs)
  <2> DEFINE X == Seq(U)
  <2>1. \A k \in 1..Len(cs) : c[k] \in X
    BY <1>4, <1>6
  <2> HIDE DEF X
  <2>2. Len(cs) \in Nat
    BY <1>1
  <2>3. c \in Seq(X) /\ Len(c) = Len(cs)
    BY ONLY <1>6, <2>1, <2>2
  <2> QED
    BY <2>3 DEF X
<1>7. \A k \in 1..Len(cs) : Len(c[k]) = Len(cs[k])
  BY <1>4, <1>6
<1>8. \A k \in 1..Len(cs) : \A r \in 1..Len(cs[k]) : c[k][r] = IF cs[k][r] = t THEN p ELSE cs[k][r]
  BY <1>4, <1>6
<1> HIDE DEF U
<1>9. Lays(c, (P \ {t}) \union {p})
  BY <1>5, <1>7, <1>8, LaysInstead
<1> QED
  BY <1>9 DEF c

\* So does a change of one place.
LEMMA ExceptLay ==
  ASSUME NEW P, NEW cs, Lays(cs, P), NEW p, p \notin P,
         NEW k \in 1..Len(cs), NEW r \in 1..Len(cs[k])
  PROVE  /\ Lays([cs EXCEPT ![k][r] = p], (P \ {cs[k][r]}) \union {p})
         /\ Len([cs EXCEPT ![k][r] = p]) = Len(cs)
<1> DEFINE U == P \union {p}
           t == cs[k][r]
           col == [cs[k] EXCEPT ![r] = p]
           c == [cs EXCEPT ![k] = col]
<1>1. /\ cs \in Seq(Seq(P)) /\ Len(cs) \in Nat
      /\ \A j \in 1..Len(cs) : cs[j] \in Seq(P) /\ Len(cs[j]) \in Nat
      /\ \A j \in 1..Len(cs) : \A q \in 1..Len(cs[j]) : cs[j][q] \in P
  BY LaysTypes
<1>2. \A x, y \in 1..Len(cs) : \A u \in 1..Len(cs[x]), v \in 1..Len(cs[y]) :
        cs[x][u] = cs[y][v] => x = y /\ u = v
  BY LaysPlaces
<1>3. t \in P
  BY <1>1
<1>4. /\ col \in Seq(U) /\ Len(col) = Len(cs[k])
      /\ \A q \in 1..Len(cs[k]) : col[q] = IF q = r THEN p ELSE cs[k][q]
  <2> DEFINE s == cs[k]
  <2>1. s \in Seq(P) /\ r \in 1..Len(s)
    BY <1>1
  <2> HIDE DEF s
  <2>2. s \in Seq(U) /\ p \in U
    BY <2>1
  <2> HIDE DEF U
  <2>3. /\ [s EXCEPT ![r] = p] \in Seq(U) /\ Len([s EXCEPT ![r] = p]) = Len(s)
        /\ \A q \in 1..Len(s) : [s EXCEPT ![r] = p][q] = IF q = r THEN p ELSE s[q]
    BY <2>1, <2>2
  <2> QED
    BY <2>3 DEF s
<1>5. \A j \in 1..Len(cs) : cs[j] \in Seq(U)
  <2>1. \A s \in Seq(P) : s \in Seq(U)
    OBVIOUS
  <2> QED
    BY <1>1, <2>1
<1> HIDE DEF U, t, col
<1>6. c \in Seq(Seq(U)) /\ Len(c) = Len(cs) /\ \A j \in 1..Len(cs) : c[j] = IF j = k THEN col ELSE cs[j]
  <2> DEFINE X == Seq(U)
  <2>1. col \in X /\ \A j \in 1..Len(cs) : cs[j] \in X
    BY <1>4, <1>5
  <2> HIDE DEF X
  <2>2. cs \in Seq(X)
    BY <1>1, <2>1, Retyped
  <2>3. c \in Seq(X) /\ Len(c) = Len(cs) /\ \A j \in 1..Len(cs) : c[j] = IF j = k THEN col ELSE cs[j]
    BY <2>1, <2>2
  <2> QED
    BY <2>3 DEF X
<1> HIDE DEF c
<1>7. \A j \in 1..Len(cs) : Len(c[j]) = Len(cs[j])
  BY <1>4, <1>6
<1>8. ASSUME NEW j \in 1..Len(cs), NEW q \in 1..Len(cs[j])
      PROVE  c[j][q] = IF cs[j][q] = t THEN p ELSE cs[j][q]
  <2>1. cs[j][q] = t <=> j = k /\ q = r
    BY <1>2 DEF t
  <2>2. CASE j = k
    BY <1>4, <1>6, <2>1, <2>2
  <2>3. CASE j # k
    BY <1>6, <2>1, <2>3
  <2> QED
    BY <2>2, <2>3
<1>9. Lays(c, (P \ {t}) \union {p})
  BY <1>3, <1>6, <1>7, <1>8, LaysInstead
<1>10. c = [cs EXCEPT ![k][r] = p]
  BY DEF c, col
<1> QED
  BY <1>6, <1>9, <1>10 DEF t

\* A pane that is split off to the right of a column.
LEMMA RightOfLay ==
  ASSUME NEW P, NEW cs, Lays(cs, P), NEW p, p \notin P, NEW k \in 1..Len(cs), NEW c \in RightOf(cs, k, p)
  PROVE  Lays(c, P \union {p})
<1> DEFINE n == Len(cs)
           beside(j) == Before(cs, j + 1) \o << <<p>> >> \o After(cs, j)
           stacked(j, r) == [cs EXCEPT ![j] = InsertAt(cs[j], r, p)]
           ends == IsRow(cs) \/ k = n
           A == {beside(j) : j \in k..n}
           B == UNION {{stacked(j, r) : r \in 1..(Len(cs[j]) + 1)} : j \in (k + 1)..n}
<1>1. RightOf(cs, k, p) = IF ends THEN {beside(k)} ELSE A \union B
  BY DEF RightOf
<1>2. n \in Nat
  BY LaysTypes
<1>3. \A j \in 0..n : Lays(beside(j), P \union {p})
  BY LaysBeside
<1>4. \A j \in 1..n : \A r \in 1..(Len(cs[j]) + 1) : Lays(stacked(j, r), P \union {p})
  BY LaysStacked
<1> HIDE DEF beside, stacked, ends, n
<1>5. CASE c = beside(k)
  <2>1. k \in 0..n
    BY <1>2 DEF n
  <2> QED
    BY <1>3, <1>5, <2>1
<1>6. CASE c \in A
  <2>1. PICK j \in k..n : c = beside(j)
    BY <1>6
  <2>2. j \in 0..n
    BY <1>2, <2>1 DEF n
  <2> QED
    BY <1>3, <2>1, <2>2
<1>7. CASE c \in B
  <2>1. PICK j \in (k + 1)..n : c \in {stacked(j, r) : r \in 1..(Len(cs[j]) + 1)}
    BY <1>7
  <2>2. PICK r \in 1..(Len(cs[j]) + 1) : c = stacked(j, r)
    BY <2>1
  <2>3. j \in 1..n
    BY <1>2, <2>1 DEF n
  <2> QED
    BY <1>4, <2>2, <2>3
<1> HIDE DEF A, B
<1> QED
  BY <1>1, <1>5, <1>6, <1>7

\* The flags join_pane is called with.
Flags == {"-dv", "-dbv", "-dh", "-dbh"}

\* A pane that joins the window makes a geometry with the panes that were there.
LEMMA JoinsLay ==
  ASSUME NEW P, NEW cs, Lays(cs, P), NEW t \in P, NEW p, p \notin P,
         NEW flag \in Flags, NEW c \in Joins(cs, p, t, flag)
  PROVE  Lays(c, P \union {p})
<1> DEFINE k == ColOf(cs, t)
           r == RowOf(cs, t)
<1>1. k \in 1..Len(cs) /\ r \in 1..Len(cs[k]) /\ cs[k][r] = t /\ Len(cs[k]) \in Nat
  <2>1. k \in 1..Len(cs) /\ r \in 1..Len(cs[k]) /\ cs[k][r] = t
    BY LaysPlace
  <2> HIDE DEF k, r
  <2> QED
    BY <2>1, LaysTypes
<1>2. /\ flag = "-dv"  => c \in {[cs EXCEPT ![k] = InsertAt(cs[k], r + 1, p)]}
      /\ flag = "-dbv" => c \in {[cs EXCEPT ![k] = InsertAt(cs[k], r, p)]}
      /\ flag = "-dh"  => c \in RightOf(cs, k, p)
      /\ flag = "-dbh" => c \in RightOf([cs EXCEPT ![k][r] = p], k, t)
  BY DEF Joins
<1> HIDE DEF k, r
<1>3. r + 1 \in 1..(Len(cs[k]) + 1) /\ r \in 1..(Len(cs[k]) + 1)
  BY <1>1
<1>4. CASE flag = "-dv"
  BY <1>1, <1>2, <1>3, <1>4, LaysStacked
<1>5. CASE flag = "-dbv"
  BY <1>1, <1>2, <1>3, <1>5, LaysStacked
<1>6. CASE flag = "-dh"
  BY <1>1, <1>2, <1>6, RightOfLay
<1>7. CASE flag = "-dbh"
  <2> DEFINE d == [cs EXCEPT ![k][r] = p]
             D == (P \ {t}) \union {p}
  <2>1. Lays(d, D) /\ Len(d) = Len(cs)
    BY <1>1, ExceptLay
  <2>2. c \in RightOf(d, k, t)
    BY <1>2, <1>7
  <2>3. t \notin D /\ D \union {t} = P \union {p}
    OBVIOUS
  <2> HIDE DEF d, D
  <2>4. Lays(c, D \union {t})
    BY <1>1, <2>1, <2>2, <2>3, RightOfLay
  <2> QED
    BY <2>3, <2>4
<1> QED
  BY <1>4, <1>5, <1>6, <1>7 DEF Flags

\* The panes of a geometry in position order.
LEMMA LaysOrder ==
  ASSUME NEW P, NEW cs, Lays(cs, P)
  PROVE  Lists(Order(cs), P)
<1> DEFINE F == Order(cs)
           n == Len(cs)
<1>1. /\ cs \in Seq(Seq(P)) /\ n \in Nat
      /\ \A j \in 1..n : Len(cs[j]) \in Nat
  BY LaysTypes
<1>2. F \in Seq(P)
  BY <1>1, FlattenPlaces DEF Order
<1>3. PICK off : Offsets(cs, F, off)
  BY <1>1, FlattenPlaces DEF Order
<1> HIDE DEF F
<1>4. /\ \A k \in 1..n : \A r \in 1..Len(cs[k]) : F[off[k - 1] + r] = cs[k][r]
      /\ \A i \in 1..Len(F) : \E k \in 1..n : \E r \in 1..Len(cs[k]) : i = off[k - 1] + r
  BY <1>3, Zenon DEF Offsets, n
<1>5. ASSUME NEW i \in 1..Len(F), NEW j \in 1..Len(F), F[i] = F[j] PROVE i = j
  <2>1. PICK k \in 1..n : \E r \in 1..Len(cs[k]) : i = off[k - 1] + r
    BY <1>4
  <2>2. PICK r \in 1..Len(cs[k]) : i = off[k - 1] + r
    BY <2>1
  <2>3. PICK l \in 1..n : \E q \in 1..Len(cs[l]) : j = off[l - 1] + q
    BY <1>4
  <2>4. PICK q \in 1..Len(cs[l]) : j = off[l - 1] + q
    BY <2>3
  <2>5. F[i] = cs[k][r] /\ F[j] = cs[l][q]
    BY <1>4, <2>2, <2>4
  <2>6. \A x, y \in 1..n : \A u \in 1..Len(cs[x]), v \in 1..Len(cs[y]) :
          cs[x][u] = cs[y][v] => x = y /\ u = v
    BY LaysPlaces DEF n
  <2>7. cs[k][r] = cs[l][q]
    BY <1>5, <2>5
  <2>8. k = l /\ r = q
    BY <2>6, <2>7, Zenon
  <2> QED
    BY <2>2, <2>4, <2>8
<1>6. ASSUME NEW p \in P PROVE \E i \in 1..Len(F) : F[i] = p
  <2>1. PICK k \in 1..n : \E r \in 1..Len(cs[k]) : cs[k][r] = p
    BY LaysPlaces DEF n
  <2>2. PICK r \in 1..Len(cs[k]) : cs[k][r] = p
    BY <2>1
  <2>3. \E i \in 1..Len(F) : F[i] = cs[k][r]
    BY <1>1, <2>1, <2>2, FlattenParts DEF F, Order, n
  <2> QED
    BY <2>2, <2>3
<1>7. Lists(F, P)
  BY <1>2, <1>5, <1>6 DEF Lists
<1> QED
  BY <1>7 DEF F

-----------------------------------------------------------------------------
(* Shorter columns and flat ones.                                          *)

\* A set of naturals with a bound has a greatest element.
LEMMA Greatest ==
  ASSUME NEW n \in Nat, NEW T \in SUBSET (1..n), T # {}
  PROVE  Max(T) \in T
<1> DEFINE D == {n - x : x \in T}
<1>1. D \in SUBSET Nat /\ D # {}
  <2>1. ASSUME NEW x \in T PROVE n - x \in Nat
    <3>1. x \in 1..n
      OBVIOUS
    <3> QED
      BY <3>1
  <2> QED
    BY <2>1
<1>2. PICK d \in D : \A e \in D : d <= e
  BY <1>1, Least
<1>3. PICK x \in T : d = n - x
  BY <1>2
<1>4. ASSUME NEW y \in T PROVE x >= y
  <2>1. n - y \in D /\ x \in 1..n /\ y \in 1..n
    OBVIOUS
  <2>2. n - x <= n - y
    BY <1>2, <1>3, <2>1
  <2> QED
    BY <2>1, <2>2
<1>5. \E z \in T : \A y \in T : z >= y
  BY <1>3, <1>4
<1> QED
  BY <1>5 DEF Max

\* cs has every pane of P once, in columns that may be empty.
Spreads(cs, P) ==
  /\ cs \in Seq(Seq(P))
  /\ \A k, j \in 1..Len(cs) : \A r \in 1..Len(cs[k]), q \in 1..Len(cs[j]) :
       cs[k][r] = cs[j][q] => k = j /\ r = q
  /\ \A p \in P : \E k \in 1..Len(cs) : \E r \in 1..Len(cs[k]) : cs[k][r] = p

\* Without its empty columns, that is a geometry.
LEMMA NonEmptyLays ==
  ASSUME NEW cs, NEW P, Spreads(cs, P)
  PROVE  /\ Lays(NonEmpty(cs), P)
         /\ P # {} => NonEmpty(cs) # <<>>
<1> DEFINE K == ToSet(cs) \ {<<>>}
           t == Retained(cs, K)
           n == Len(cs)
<1>1. cs \in Seq(Seq(P)) /\ n \in Nat /\ DOMAIN cs = 1..n /\ \A k \in 1..n : cs[k] \in Seq(P)
  <2>1. cs \in Seq(Seq(P))
    BY DEF Spreads
  <2> QED
    BY <2>1
<1>2. /\ \A k, j \in 1..n : \A r \in 1..Len(cs[k]), q \in 1..Len(cs[j]) :
           cs[k][r] = cs[j][q] => k = j /\ r = q
      /\ \A p \in P : \E k \in 1..n : \E r \in 1..Len(cs[k]) : cs[k][r] = p
  BY Zenon DEF Spreads
<1>3. \A k \in 1..n : \A r \in 1..Len(cs[k]) : cs[k] \in K
  <2> SUFFICES ASSUME NEW k \in 1..n, NEW r \in 1..Len(cs[k])  PROVE cs[k] \in ToSet(cs) \ {<<>>}
    OBVIOUS
  <2>1. cs[k] # <<>>
    BY <1>1
  <2> QED
    BY <1>1, <2>1 DEF ToSet
<1>4. <<>> \notin K
  OBVIOUS
<1>5. NonEmpty(cs) = t
  BY DEF NonEmpty
<1> HIDE DEF K
<1>6. t \in Seq(Seq(P)) /\ \E at : Picks(cs, n, K, t, at)
  BY <1>1, RetainedPositions
<1>7. PICK at : Picks(cs, n, K, t, at)
  BY <1>6
<1> HIDE DEF t, n
<1>8. /\ Len(t) \in Nat
      /\ \A i \in 1..Len(t) : at[i] \in 1..n /\ t[i] = cs[at[i]] /\ cs[at[i]] \in K
      /\ \A i, j \in 1..Len(t) : i < j => at[i] < at[j]
      /\ \A j \in 1..n : cs[j] \in K => \E i \in 1..Len(t) : at[i] = j
  <2>1. Len(t) \in Nat
    BY <1>6
  <2> QED
    BY <1>7, <2>1 DEF Picks
<1>9. \A i, j \in 1..Len(t) : at[i] = at[j] => i = j
  BY <1>1, <1>8
<1>10. \A k, j \in 1..Len(t) : \A r \in 1..Len(t[k]), q \in 1..Len(t[j]) :
         t[k][r] = t[j][q] => k = j /\ r = q
  <2> SUFFICES ASSUME NEW k \in 1..Len(t), NEW j \in 1..Len(t),
                      NEW r \in 1..Len(t[k]), NEW q \in 1..Len(t[j]), t[k][r] = t[j][q]
               PROVE  k = j /\ r = q
    BY Zenon
  <2>1. /\ at[k] \in 1..n /\ at[j] \in 1..n
        /\ r \in 1..Len(cs[at[k]]) /\ q \in 1..Len(cs[at[j]])
        /\ cs[at[k]][r] = cs[at[j]][q]
    BY <1>8
  <2>2. at[k] = at[j] /\ r = q
    BY <1>2, <2>1, SMTT(20)
  <2> QED
    BY <1>9, <2>2
<1>11. ASSUME NEW p \in P
       PROVE  \E k \in 1..Len(t) : \E r \in 1..Len(t[k]) : t[k][r] = p
  <2>1. PICK j \in 1..n : \E r \in 1..Len(cs[j]) : cs[j][r] = p
    BY <1>2
  <2>2. PICK r \in 1..Len(cs[j]) : cs[j][r] = p
    BY <2>1
  <2>3. PICK i \in 1..Len(t) : at[i] = j
    BY <1>3, <1>8, <2>1, <2>2
  <2>4. t[i] = cs[j]
    BY <1>8, <2>3
  <2> QED
    BY <2>2, <2>4
<1>12. \A k \in 1..Len(t) : t[k] # <<>>
  BY <1>4, <1>8
<1>13. Lays(t, P)
  BY <1>6, <1>10, <1>11, <1>12 DEF Lays
<1>14. P # {} => t # <<>>
  BY <1>11
<1> QED
  BY <1>5, <1>13, <1>14

\* A geometry less one pane.
LEMMA RemovalSpreads ==
  ASSUME NEW cs, NEW P, Lays(cs, P), NEW k \in 1..Len(cs), NEW r \in 1..Len(cs[k])
  PROVE  LET c == [cs EXCEPT ![k] = RemoveAt(@, r)]
         IN  /\ Spreads(c, P \ {cs[k][r]})
             /\ Len(cs[k]) > 1 => Lays(c, P \ {cs[k][r]})
<1> DEFINE s == RemoveAt(cs[k], r)
           c == [cs EXCEPT ![k] = s]
           A == ToSet(cs[k])
           p == cs[k][r]
           Q == P \ {p}
<1>1. /\ cs \in Seq(Seq(P)) /\ Len(cs) \in Nat
      /\ \A j \in 1..Len(cs) : cs[j] \in Seq(P) /\ Len(cs[j]) \in Nat
      /\ \A j \in 1..Len(cs) : \A q \in 1..Len(cs[j]) : cs[j][q] \in P
  BY LaysTypes
<1>2. /\ \A j \in 1..Len(cs) : cs[j] # <<>>
      /\ \A x, y \in 1..Len(cs) : \A u \in 1..Len(cs[x]), v \in 1..Len(cs[y]) :
           cs[x][u] = cs[y][v] => x = y /\ u = v
      /\ \A v \in P : \E x \in 1..Len(cs) : \E u \in 1..Len(cs[x]) : cs[x][u] = v
  BY LaysPlaces
<1>3. A = {cs[k][q] : q \in 1..Len(cs[k])}
  BY <1>1 DEF ToSet
<1>4. Lists(s, A \ {p})
  BY LaysColumn, ListsRemove
<1>5. /\ s \in Seq(A \ {p}) /\ Len(s) \in Nat
      /\ \A i, j \in 1..Len(s) : s[i] = s[j] => i = j
      /\ \A a \in A \ {p} : \E i \in 1..Len(s) : s[i] = a
      /\ \A i \in 1..Len(s) : s[i] \in A \ {p}
  <2>1. /\ s \in Seq(A \ {p})
        /\ \A i, j \in 1..Len(s) : s[i] = s[j] => i = j
        /\ \A a \in A \ {p} : \E i \in 1..Len(s) : s[i] = a
    BY <1>4 DEF Lists
  <2> HIDE DEF s
  <2> QED
    BY <2>1
<1>6. DOMAIN c = 1..Len(cs) /\ c[k] = s /\ \A j \in (1..Len(cs)) \ {k} : c[j] = cs[j]
  BY <1>1
<1> HIDE DEF s, A
<1>7. c \in Seq(Seq(Q)) /\ Len(c) = Len(cs)
  <2>1. s \in Seq(Q)
    <3>1. \A a \in A : a \in P
      BY <1>1, <1>3
    <3>2. \A i \in 1..Len(s) : s[i] \in Q
      BY <1>5, <3>1
    <3> QED
      BY <1>5, <3>2, Retyped
  <2>2. \A j \in (1..Len(cs)) \ {k} : cs[j] \in Seq(Q)
    <3> SUFFICES ASSUME NEW j \in (1..Len(cs)) \ {k}  PROVE cs[j] \in Seq(Q)
      OBVIOUS
    <3>1. \A i \in 1..Len(cs[j]) : cs[j][i] \in Q
      BY <1>1, <1>2
    <3> QED
      BY <1>1, <3>1, Retyped
  <2>3. \A j \in 1..Len(cs) : c[j] \in Seq(Q)
    BY <1>6, <2>1, <2>2
  <2>4. c \in Seq(Seq(P)) /\ Len(c) = Len(cs)
    <3>1. s \in Seq(P)
      <4>1. \A a \in A : a \in P
        BY <1>1, <1>3
      <4>2. \A i \in 1..Len(s) : s[i] \in P
        BY <1>5, <4>1
      <4> QED
        BY <1>5, <4>2, Retyped
    <3> QED
      BY <1>1, <3>1
  <2> HIDE DEF c, Q
  <2> QED
    BY <2>3, <2>4, Retyped
<1> HIDE DEF c
<1>8. \A x, y \in 1..Len(c) : \A u \in 1..Len(c[x]), v \in 1..Len(c[y]) :
        c[x][u] = c[y][v] => x = y /\ u = v
  <2> SUFFICES ASSUME NEW x \in 1..Len(c), NEW y \in 1..Len(c),
                      NEW u \in 1..Len(c[x]), NEW v \in 1..Len(c[y]), c[x][u] = c[y][v]
               PROVE  x = y /\ u = v
    BY Zenon
  <2>1. CASE x # k /\ y # k
    <3>1. c[x] = cs[x] /\ c[y] = cs[y] /\ x \in 1..Len(cs) /\ y \in 1..Len(cs)
      BY <1>6, <1>7, <2>1
    <3> QED
      BY <1>2, <3>1
  <2>2. ASSUME NEW i \in 1..Len(s), NEW j \in (1..Len(cs)) \ {k}, NEW w \in 1..Len(cs[j])
        PROVE  s[i] # cs[j][w]
    <3>1. PICK z \in 1..Len(cs[k]) : s[i] = cs[k][z]
      BY <1>3, <1>5
    <3> QED
      BY <1>2, <3>1
  <2>3. CASE x = k /\ y = k
    BY <1>5, <1>6, <2>3
  <2>4. CASE (x = k) # (y = k)
    BY <1>6, <1>7, <2>2, <2>4
  <2> QED
    BY <2>1, <2>3, <2>4
<1>9. ASSUME NEW v \in Q PROVE \E x \in 1..Len(c) : \E u \in 1..Len(c[x]) : c[x][u] = v
  <2>1. PICK x \in 1..Len(cs) : \E u \in 1..Len(cs[x]) : cs[x][u] = v
    BY <1>2
  <2>2. CASE x = k
    <3>1. v \in A \ {p}
      BY <1>3, <2>1, <2>2
    <3>2. PICK i \in 1..Len(s) : s[i] = v
      BY <1>5, <3>1
    <3> QED
      BY <1>6, <1>7, <3>2
  <2>3. CASE x # k
    BY <1>6, <1>7, <2>1, <2>3
  <2> QED
    BY <2>2, <2>3
<1>10. Spreads(c, Q)
  BY <1>7, <1>8, <1>9 DEF Spreads
<1>11. Len(cs[k]) > 1 => Lays(c, Q)
  <2> SUFFICES ASSUME Len(cs[k]) > 1  PROVE Lays(c, Q)
    OBVIOUS
  <2>1. PICK q \in 1..Len(cs[k]) : q # r
    <3>1. 1 \in 1..Len(cs[k]) /\ 2 \in 1..Len(cs[k])
      BY <1>1
    <3> QED
      BY <3>1
  <2>2. cs[k][q] \in A \ {p}
    BY <1>2, <1>3, <2>1
  <2>3. s # <<>>
    BY <1>5, <2>2
  <2>4. \A j \in 1..Len(c) : c[j] # <<>>
    BY <1>2, <1>6, <1>7, <2>3
  <2> QED
    BY <1>7, <1>8, <1>9, <2>4 DEF Lays
<1>12. [cs EXCEPT ![k] = RemoveAt(@, r)] = c
  BY DEF c, s
<1> QED
  BY <1>10, <1>11, <1>12

\* A list of panes, each a column of its own.
LEMMA LaysFlat ==
  ASSUME NEW s, NEW P, Lists(s, P)
  PROVE  Lays([i \in DOMAIN s |-> <<s[i]>>], P)
<1> DEFINE c == [i \in DOMAIN s |-> <<s[i]>>]
<1>1. /\ s \in Seq(P) /\ Len(s) \in Nat /\ DOMAIN s = 1..Len(s)
      /\ \A i, j \in 1..Len(s) : s[i] = s[j] => i = j
      /\ \A p \in P : \E i \in 1..Len(s) : s[i] = p
      /\ \A i \in 1..Len(s) : s[i] \in P
  BY DEF Lists
<1>2. \A i \in 1..Len(s) : c[i] = <<s[i]>> /\ <<s[i]>> \in Seq(P)
  BY <1>1
<1>3. c \in Seq(Seq(P)) /\ Len(c) = Len(s)
  BY <1>1, <1>2
<1> HIDE DEF c
<1>4. \A i \in 1..Len(s) : c[i] # <<>> /\ Len(c[i]) = 1 /\ c[i][1] = s[i]
  <2> SUFFICES ASSUME NEW i \in 1..Len(s)
               PROVE  c[i] # <<>> /\ Len(c[i]) = 1 /\ c[i][1] = s[i]
    OBVIOUS
  <2> DEFINE v == s[i]
  <2>1. c[i] = <<v>>
    BY <1>2
  <2> HIDE DEF v
  <2>2. c[i] # <<>> /\ Len(c[i]) = 1 /\ c[i][1] = v
    BY <2>1
  <2> QED
    BY <2>2 DEF v
<1>5. \A x, y \in 1..Len(c) : \A u \in 1..Len(c[x]), v \in 1..Len(c[y]) :
        c[x][u] = c[y][v] => x = y /\ u = v
  <2> SUFFICES ASSUME NEW x \in 1..Len(c), NEW y \in 1..Len(c),
                      NEW u \in 1..Len(c[x]), NEW v \in 1..Len(c[y]), c[x][u] = c[y][v]
               PROVE  x = y /\ u = v
    BY Zenon
  <2>1. x \in 1..Len(s) /\ y \in 1..Len(s)
    BY <1>3
  <2>2. Len(c[x]) = 1 /\ Len(c[y]) = 1 /\ c[x][1] = s[x] /\ c[y][1] = s[y]
    BY <1>4, <2>1
  <2>3. u = 1 /\ v = 1
    BY <2>2
  <2> QED
    BY <1>1, <2>1, <2>2, <2>3
<1>6. ASSUME NEW p \in P PROVE \E x \in 1..Len(c) : \E u \in 1..Len(c[x]) : c[x][u] = p
  <2>1. PICK i \in 1..Len(s) : s[i] = p
    BY <1>1
  <2>2. i \in 1..Len(c) /\ 1 \in 1..Len(c[i]) /\ c[i][1] = p
    BY <1>3, <1>4, <2>1
  <2> QED
    BY <2>2
<1> QED
  BY <1>3, <1>4, <1>5, <1>6 DEF Lays, c

=============================================================================
