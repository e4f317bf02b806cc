-------------------------- MODULE PaneStreamsProofs --------------------------
(***************************************************************************)
(* Theorems about PaneStreams, for any panes, texts, notices and guards:   *)
(* the types, that the decoding undoes the escapes of any text, when a     *)
(* wait may end with an error, and which guards have the whole stream.     *)
(***************************************************************************)
EXTENDS PaneStreams, LayoutProofs

\* What the owner has not been given is in the channel first, in its order.
Ahead ==
  /\ Len(events) <= Len(owed)
  /\ \A i \in 1..Len(events) : events[i] = Parsed(owed[i])

\* The rest is what the reader has to read.
Behind ==
  reader = "reading" =>
    /\ Len(owed) = Len(events) + Len(lines)
    /\ \A i \in 1..Len(lines) : owed[Len(events) + i] = lines[i]

Unreadable(l) == ~l.utf8

\* A reader that has ended has read everything, or up to a line that is not UTF-8.
ReaderDone ==
  reader = "ended" /\ Len(events) < Len(owed) => Unreadable(owed[Len(events) + 1])

\* A guard in whose life no other of its pane began or ended is the only one of
\* the pane, and its pipe is the pane's as long as the pane lives.
SoleGuards ==
  \A g \in Guard \ shared :
    guard[g] # NoPane => /\ Guards(guard[g]) = {g}
                         /\ guard[g] \in alive => piped[guard[g]] = g

\* Every event was made of a line that is UTF-8.
EventsRead == \A i \in 1..Len(events) : \E l \in Lines : l.utf8 /\ events[i] = Parsed(l)

Owed == Ahead /\ Behind /\ ReaderDone

StreamInv == TypeOK /\ EventsRead /\ Owed /\ SoleGuards /\ StreamIsWhole

-----------------------------------------------------------------------------
(* Lines and events.                                                       *)

\* What the client writes are lines.
LEMMA LineTypes ==
  /\ \A p \in Pane, x \in Text : OutputLine(p, x) \in Lines
  /\ \A n \in Notice : NoticeLine(n) \in Lines
BY DEF Lines

\* What the reader makes of the first of them is an event.
LEMMA FirstEvent ==
  ASSUME lines \in Seq(Lines), lines # <<>>
  PROVE  Parsed(Head(lines)) \in Events /\ Tail(lines) \in Seq(Lines)
<1>1. Head(lines) \in Lines
  OBVIOUS
<1> QED
  BY <1>1 DEF Events

\* No line is a sequence of lines, and of events.
LEMMA Empty == <<>> \in Seq(Lines) /\ <<>> \in Seq(Events)
OBVIOUS

\* An event in the channel is of a line that is owed.
LEMMA EmptyOwed ==
  ASSUME owed \in Seq(Lines), events \in Seq(Events), Ahead, events # <<>>
  PROVE  owed # <<>> /\ Head(events) = Parsed(Head(owed))
<1>1. 1 \in 1..Len(events) /\ Len(owed) >= 1
  BY DEF Ahead
<1>2. Head(events) = events[1] /\ Head(owed) = owed[1] /\ owed # <<>>
  BY <1>1
<1> QED
  BY <1>1, <1>2 DEF Ahead

\* A line more, or a client that is dead.
LEMMA WriteTypes ==
  ASSUME TypeOK, NEW l \in Lines, ClientWrites(l)
  PROVE  lines' \in Seq(Lines) /\ owed' \in Seq(Lines) /\ child' \in {"running", "dead"}
<1>1. lines \in Seq(Lines) /\ owed \in Seq(Lines) /\ child \in {"running", "dead"}
  BY DEF TypeOK
<1>2. \/ lines' = Append(lines, l) /\ owed' = Append(owed, l) /\ child' = child
      \/ lines' = lines /\ owed' = owed /\ child' = "dead"
  BY DEF ClientWrites
<1>3. Append(lines, l) \in Seq(Lines) /\ Append(owed, l) \in Seq(Lines)
  BY <1>1
<1> QED
  BY <1>1, <1>2, <1>3

-----------------------------------------------------------------------------
(* The escapes.                                                            *)

\* A byte is its own escape, or a backslash and its three octal digits.
LEMMA EscapedForm ==
  ASSUME NEW b \in Byte
  PROVE  \/ b # Backslash /\ Escaped(b) = <<b>>
         \/ \E c, d, e \in 0..7 :
              /\ Escaped(b) = <<Backslash, Zero + c, Zero + d, Zero + e>>
              /\ b = c * 64 + d * 8 + e
<1>1. CASE b >= 32 /\ b # Backslash
  BY <1>1 DEF Escaped
<1>2. CASE ~(b >= 32 /\ b # Backslash)
  <2> DEFINE c == b \div 64
             d == (b \div 8) % 8
             e == b % 8
  <2>1. c \in 0..7 /\ d \in 0..7 /\ e \in 0..7 /\ b = c * 64 + d * 8 + e
    BY DEF Byte
  <2>2. Escaped(b) = <<Backslash, Zero + c, Zero + d, Zero + e>>
    BY <1>2 DEF Escaped
  <2> HIDE DEF c, d, e
  <2> QED
    BY <2>1, <2>2
<1> QED
  BY <1>1, <1>2

\* Escapes are sequences of bytes, of one byte or four.
LEMMA EscapedType ==
  ASSUME NEW b \in Byte
  PROVE  /\ Escaped(b) \in Seq(Byte)
         /\ Len(Escaped(b)) \in Nat /\ Len(Escaped(b)) >= 1
<1>1. CASE Escaped(b) = <<b>>
  <2>1. Len(<<b>>) = 1 /\ <<b>> \in Seq(Byte)
    OBVIOUS
  <2> QED
    BY <1>1, <2>1
<1>2. ASSUME NEW c \in 0..7, NEW d \in 0..7, NEW e \in 0..7,
             Escaped(b) = <<Backslash, Zero + c, Zero + d, Zero + e>>
      PROVE  /\ Escaped(b) \in Seq(Byte)
         /\ Len(Escaped(b)) \in Nat /\ Len(Escaped(b)) >= 1
  <2>1. /\ Backslash \in Byte /\ Zero + c \in Byte
        /\ Zero + d \in Byte /\ Zero + e \in Byte
    BY DEF Backslash, Zero, Byte
  <2> DEFINE t == <<Backslash, Zero + c, Zero + d, Zero + e>>
  <2>2. Len(t) = 4 /\ t \in Seq(Byte)
    BY <2>1
  <2> HIDE DEF t
  <2> QED
    BY <1>2, <2>2 DEF t
<1>3. CASE \E c, d, e \in 0..7 : Escaped(b) = <<Backslash, Zero + c, Zero + d, Zero + e>>
  <2>1. PICK c \in 0..7, d \in 0..7, e \in 0..7 :
          Escaped(b) = <<Backslash, Zero + c, Zero + d, Zero + e>>
    BY <1>3
  <2> QED
    BY <1>2, <2>1, Zenon
<1>4. \/ Escaped(b) = <<b>>
      \/ \E c, d, e \in 0..7 : Escaped(b) = <<Backslash, Zero + c, Zero + d, Zero + e>>
  BY EscapedForm
<1> QED
  BY <1>1, <1>3, <1>4

\* A byte fits into u8.
LEMMA ByteFits == \A b \in Byte : b % 256 = b
BY DEF Byte

\* A round at the escape of b decodes b, and passes the escape.
LEMMA RoundDecodes ==
  ASSUME NEW s \in Seq(Byte), NEW b \in Byte,
         NEW st \in [i : Nat \ {0}, decoded : Seq(Byte)],
         st.i + Len(Escaped(b)) - 1 <= Len(s),
         \A r \in 1..Len(Escaped(b)) : s[(st.i - 1) + r] = Escaped(b)[r]
  PROVE  Loop(s)[st] = [i |-> st.i + Len(Escaped(b)), decoded |-> Append(st.decoded, b)]
<1> DEFINE i == st.i
<1>a. i \in Nat /\ i > 0 /\ Len(s) \in Nat
  OBVIOUS
<1>1. CASE b # Backslash /\ Escaped(b) = <<b>>
  <2>1. Len(Escaped(b)) = 1 /\ s[i] = b /\ i <= Len(s)
    <3>1. Len(Escaped(b)) = 1 /\ 1 \in 1..Len(Escaped(b)) /\ Escaped(b)[1] = b /\ (i - 1) + 1 = i
      BY <1>1
    <3> HIDE DEF i
    <3>2. s[(i - 1) + 1] = Escaped(b)[1]
      BY <3>1 DEF i
    <3>3. i + 1 - 1 <= Len(s)
      BY <3>1 DEF i
    <3> QED
      BY <1>a, <3>1, <3>2, <3>3
  <2>2. ~(i > Len(s)) /\ s[i] # Backslash
    <3> HIDE DEF i
    <3> QED
      BY <1>a, <1>1, <2>1
  <2>3. Loop(s)[st] = [i |-> st.i + 1, decoded |-> Append(st.decoded, s[i])]
    BY <2>2, Zenon DEF Loop
  <2> QED
    BY <2>1, <2>3
<1>2. ASSUME NEW c \in 0..7, NEW d \in 0..7, NEW e \in 0..7,
             Escaped(b) = <<Backslash, Zero + c, Zero + d, Zero + e>>,
             b = c * 64 + d * 8 + e
      PROVE  Loop(s)[st] = [i |-> st.i + Len(Escaped(b)), decoded |-> Append(st.decoded, b)]
  <2>1. /\ Len(Escaped(b)) = 4
        /\ Escaped(b)[1] = Backslash /\ Escaped(b)[2] = Zero + c
        /\ Escaped(b)[3] = Zero + d /\ Escaped(b)[4] = Zero + e
    BY <1>2
  <2>2. /\ i + 3 <= Len(s)
        /\ s[i] = Backslash /\ s[i + 1] = Zero + c /\ s[i + 2] = Zero + d /\ s[i + 3] = Zero + e
    <3>1. i + 4 - 1 <= Len(s)
      BY <2>1
    <3>2. \A r \in 1..4 : s[(i - 1) + r] = Escaped(b)[r]
      BY <2>1
    <3> HIDE DEF i
    <3>3. /\ s[(i - 1) + 1] = Backslash /\ s[(i - 1) + 2] = Zero + c
          /\ s[(i - 1) + 3] = Zero + d /\ s[(i - 1) + 4] = Zero + e
      BY <2>1, <3>2, SMTT(20)
    <3>4. (i - 1) + 1 = i /\ (i - 1) + 2 = i + 1 /\ (i - 1) + 3 = i + 2 /\ (i - 1) + 4 = i + 3
      BY <1>a
    <3> QED
      BY <1>a, <3>1, <3>3, <3>4
  <2>3. Octal(s, i)
    <3>1. \A j \in 1..3 : j = 1 \/ j = 2 \/ j = 3
      OBVIOUS
    <3>2. IsDigit(Zero + c) /\ IsDigit(Zero + d) /\ IsDigit(Zero + e)
      BY DEF IsDigit, Zero
    <3> HIDE DEF i
    <3> QED
      BY <2>2, <3>1, <3>2 DEF Octal
  <2>4. (c * 64 + d * 8 + e) % 256 = b
    BY <1>2, ByteFits
  <2>5. ~(i > Len(s)) /\ ~(s[i] # Backslash \/ i + 1 > Len(s))
    <3> HIDE DEF i
    <3> QED
      BY <1>a, <2>2
  <2>6. Loop(s)[st] =
          [i |-> st.i + 4,
           decoded |-> Append(st.decoded, ((s[i+1] - Zero) * 64 + (s[i+2] - Zero) * 8 + s[i+3] - Zero) % 256)]
    BY <2>3, <2>5, Zenon DEF Loop
  <2>7. (s[i+1] - Zero) * 64 + (s[i+2] - Zero) * 8 + s[i+3] - Zero = c * 64 + d * 8 + e
    <3> HIDE DEF i
    <3>1. s[i + 1] - Zero = c /\ s[i + 2] - Zero = d /\ s[i + 3] - Zero = e
      BY <2>2 DEF Zero
    <3> QED
      BY <3>1
  <2> HIDE DEF i
  <2>8. ((s[i+1] - Zero) * 64 + (s[i+2] - Zero) * 8 + s[i+3] - Zero) % 256 = b
    BY <2>4, <2>7, Zenon
  <2> QED
    BY <2>1, <2>6, <2>8, Zenon
<1> QED
  BY <1>1, <1>2, EscapedForm

\* Decoding undoes the escapes, whatever the bytes: a backslash, or digits after
\* one, are not taken for an escape that tmux did not write.
LEMMA RoundTrip ==
  ASSUME NEW x \in Seq(Byte)
  PROVE  Decode(Encode(x)) = x
<1> DEFINE m  == Len(x)
           cs == [k \in DOMAIN x |-> Escaped(x[k])]
           s  == Encode(x)
<1>1. m \in Nat /\ DOMAIN x = 1..m /\ \A k \in 1..m : x[k] \in Byte
  OBVIOUS
<1>1a. \A k \in 1..m : /\ Escaped(x[k]) \in Seq(Byte)
                       /\ Len(Escaped(x[k])) \in Nat /\ Len(Escaped(x[k])) >= 1
  BY <1>1, EscapedType
<1>2. cs \in Seq(Seq(Byte)) /\ Len(cs) = m /\ \A k \in 1..m : cs[k] = Escaped(x[k])
  <2> HIDE DEF m
  <2> QED
    BY <1>1, <1>1a
<1>3. s = FlattenSeq(cs)
  BY DEF Encode
<1> HIDE DEF cs, s, m
<1>4. s \in Seq(Byte) /\ \E off : Offsets(cs, s, off)
  BY <1>2, <1>3, FlattenPlaces
<1>5. PICK off : Offsets(cs, s, off)
  BY <1>4
<1> DEFINE l == Len(s)
<1>6. /\ l \in Nat
      /\ off \in [0..m -> Nat] /\ off[0] = 0 /\ off[m] = l
      /\ \A k \in 1..m : off[k] = off[k - 1] + Len(Escaped(x[k]))
      /\ \A k \in 1..m : \A r \in 1..Len(Escaped(x[k])) : s[off[k - 1] + r] = Escaped(x[k])[r]
      /\ \A k, j \in 1..m : k < j => off[k] <= off[j - 1]
  BY <1>2, <1>4, <1>5 DEF Offsets
<1>7. \A k \in 1..m : off[k] <= l
  <2> SUFFICES ASSUME NEW k \in 1..m PROVE off[k] <= l
    OBVIOUS
  <2>1. CASE k = m
    BY <1>6, <2>1
  <2>2. CASE k # m
    <3>1. k < m /\ m \in 1..m /\ m - 1 \in 0..m /\ k \in 0..m
      BY <1>1, <2>2
    <3>2. off[k] <= off[m - 1] /\ off[m] = off[m - 1] + Len(Escaped(x[m]))
      BY <1>6, <3>1
    <3>3. Len(Escaped(x[m])) \in Nat
      BY <1>1, <3>1, <1>1a
    <3>4. off[m] \in Nat /\ off[m - 1] \in Nat /\ off[k] \in Nat /\ off[m] = l
      BY <1>6, <3>1
    <3> QED
      BY <3>2, <3>3, <3>4
  <2> QED
    BY <2>1, <2>2
<1>8. m <= l
  <2> DEFINE T == {k \in 0..m : k <= off[k]}
  <2>1. 0 \in T
    BY <1>1, <1>6
  <2>2. ASSUME NEW k \in 0..(m - 1), k \in T PROVE k + 1 \in T
    <3>1. k + 1 \in 1..m /\ (k + 1) - 1 = k /\ k + 1 \in 0..m /\ k \in 0..m
      BY <1>1
    <3>2. Len(Escaped(x[k + 1])) >= 1
      BY <1>1, <3>1, <1>1a
    <3>3. off[k + 1] = off[k] + Len(Escaped(x[k + 1]))
      BY <1>6, <3>1
    <3>4. off[k] \in Nat /\ Len(Escaped(x[k + 1])) \in Nat
      BY <1>1, <1>6, <3>1, <1>1a
    <3> QED
      BY <2>2, <3>1, <3>2, <3>3, <3>4
  <2> HIDE DEF T
  <2>3. 0..m \subseteq T
    BY <1>1, <2>1, <2>2, Induction
  <2>4. m \in T
    BY <1>1, <2>3
  <2> QED
    BY <1>6, <2>4 DEF T
<1> DEFINE some(n) == [j \in 1..n |-> x[j]]
           state(n) == IF n <= m THEN [i |-> off[n] + 1, decoded |-> some(n)]
                       ELSE [i |-> l + 1, decoded |-> x]
           start == [i |-> 1, decoded |-> <<>>]
           Rec(g) == [n \in 0..l |-> IF n = 0 THEN start ELSE Loop(s)[g[n - 1]]]
           after == CHOOSE g : g = Rec(g)
           h == [n \in 0..l |-> state(n)]
<1>9. \A n \in 0..m : some(n) \in Seq(Byte) /\ Len(some(n)) = n
  BY <1>1
<1>10. some(0) = <<>> /\ some(m) = x
  BY <1>1
<1>11. ASSUME NEW n \in 1..m PROVE some(n) = Append(some(n - 1), x[n])
  <2>1. n - 1 \in 0..m /\ n \in 0..m /\ n \in Nat /\ (n - 1) + 1 = n
    BY <1>1
  <2>2. some(n - 1) \in Seq(Byte) /\ Len(some(n - 1)) = n - 1
    BY <1>9, <2>1
  <2>3. \A j \in 1..n : j = n \/ j \in 1..(n - 1)
    BY <2>1
  <2>4. Append(some(n - 1), x[n]) = [j \in 1..n |-> IF j = n THEN x[n] ELSE some(n - 1)[j]]
    <3> DEFINE t == some(n - 1)
    <3> HIDE DEF some
    <3>1. Append(t, x[n]) = [j \in 1..(Len(t) + 1) |-> IF j = Len(t) + 1 THEN x[n] ELSE t[j]]
      BY <2>2
    <3> QED
      BY <2>1, <2>2, <3>1
  <2> QED
    BY <2>3, <2>4
<1>12. \A n \in 0..m : [i |-> off[n] + 1, decoded |-> some(n)] \in [i : Nat \ {0}, decoded : Seq(Byte)]
  <2> SUFFICES ASSUME NEW n \in 0..m
               PROVE  [i |-> off[n] + 1, decoded |-> some(n)] \in [i : Nat \ {0}, decoded : Seq(Byte)]
    OBVIOUS
  <2>1. off[n] + 1 \in Nat \ {0} /\ some(n) \in Seq(Byte)
    BY <1>6, <1>9
  <2> HIDE DEF some
  <2> QED
    BY <2>1
<1> HIDE DEF some, l
<1>13. ASSUME NEW n \in 1..l PROVE state(n) = Loop(s)[state(n - 1)]
  <2>0. n \in Nat /\ n - 1 \in Nat /\ l \in Nat /\ m \in Nat
    BY <1>1, <1>6
  <2>1. CASE n <= m
    <3> DEFINE st == [i |-> off[n - 1] + 1, decoded |-> some(n - 1)]
    <3>1. n \in 1..m /\ n - 1 \in 0..m /\ n - 1 <= m /\ n \in 0..m
      BY <2>0, <2>1
    <3>2. st \in [i : Nat \ {0}, decoded : Seq(Byte)] /\ st.i = off[n - 1] + 1 /\ st.decoded = some(n - 1)
      BY <1>12, <3>1
    <3>3. /\ off[n - 1] \in Nat /\ off[n] \in Nat /\ off[n] <= l
          /\ off[n] = off[n - 1] + Len(Escaped(x[n]))
          /\ Len(Escaped(x[n])) \in Nat
          /\ x[n] \in Byte
      BY <1>1, <1>6, <1>7, <3>1, <1>1a
    <3> HIDE DEF st
    <3>4. st.i + Len(Escaped(x[n])) - 1 <= Len(s) /\ st.i - 1 = off[n - 1]
      BY <2>0, <3>2, <3>3 DEF l
    <3>5. \A r \in 1..Len(Escaped(x[n])) : s[(st.i - 1) + r] = Escaped(x[n])[r]
      BY <1>6, <3>1, <3>4
    <3>6. Loop(s)[st] = [i |-> st.i + Len(Escaped(x[n])), decoded |-> Append(st.decoded, x[n])]
      BY <1>4, <3>2, <3>3, <3>4, <3>5, RoundDecodes
    <3>7. st.i + Len(Escaped(x[n])) = off[n] + 1 /\ Append(st.decoded, x[n]) = some(n)
      BY <1>11, <3>1, <3>2, <3>3, SMTT(20)
    <3>8. state(n - 1) = st /\ state(n) = [i |-> off[n] + 1, decoded |-> some(n)]
      BY <2>1, <3>1 DEF st
    <3> HIDE DEF state
    <3> QED
      BY <3>6, <3>7, <3>8
  <2>2. CASE ~(n <= m)
    <3> DEFINE st == [i |-> l + 1, decoded |-> x]
    <3>1. state(n) = st
      BY <2>2
    <3>2. state(n - 1) = st
      <4>1. CASE n - 1 <= m
        <5>1. n - 1 = m
          BY <2>0, <2>2, <4>1
        <5> QED
          BY <1>6, <1>10, <4>1, <5>1
      <4>2. CASE ~(n - 1 <= m)
        BY <4>2
      <4> QED
        BY <4>1, <4>2
    <3>3. st \in [i : Nat \ {0}, decoded : Seq(Byte)] /\ st.i = l + 1
      BY <2>0
    <3>4. st.i > Len(s)
      BY <2>0, <3>3 DEF l
    <3> HIDE DEF st, state
    <3>5. Loop(s)[st] = st
      BY <3>3, <3>4 DEF Loop
    <3> QED
      BY <3>1, <3>2, <3>5
  <2> QED
    BY <2>1, <2>2
<1>14. state(0) = start /\ state(l) = [i |-> l + 1, decoded |-> x]
  <2>1. 0 <= m /\ off[0] = 0 /\ 0 + 1 = 1
    BY <1>1, <1>6
  <2>2. l <= m => l = m
    BY <1>1, <1>6, <1>8
  <2> QED
    BY <1>6, <1>10, <2>1, <2>2
<1> HIDE DEF state, start
<1>15. h = Rec(h)
  <2>1. ASSUME NEW n \in 0..l PROVE h[n] = Rec(h)[n]
    <3>1. CASE n = 0
      BY <1>14, <3>1
    <3>2. CASE n # 0
      <4>1. n \in 1..l /\ n - 1 \in 0..l
        BY <1>6, <3>2
      <4> QED
        BY <1>13, <3>2, <4>1
    <3> QED
      BY <3>1, <3>2
  <2>2. h = [n \in 0..l |-> h[n]] /\ Rec(h) = [n \in 0..l |-> Rec(h)[n]]
    OBVIOUS
  <2> HIDE DEF h, Rec
  <2> QED
    BY <2>1, <2>2
<1>16. after = Rec(after)
  <2> HIDE DEF h, Rec
  <2> QED
    BY <1>15
<1>17. Decode(s) = after[l].decoded
  BY DEF Decode, start, l
<1> HIDE DEF after
<1> DEFINE T == {n \in 0..l : after[n] = state(n)}
<1>18. 0 \in T
  BY <1>6, <1>14, <1>16
<1>19. ASSUME NEW n \in 0..(l - 1), n \in T PROVE n + 1 \in T
  <2>1. n + 1 \in 1..l /\ (n + 1) - 1 = n /\ n + 1 # 0 /\ n + 1 \in 0..l
    BY <1>6
  <2>2. after[n + 1] = Loop(s)[after[n]]
    BY <1>16, <2>1
  <2>3. state(n + 1) = Loop(s)[state(n)]
    BY <1>13, <2>1
  <2> QED
    BY <1>19, <2>1, <2>2, <2>3
<1> HIDE DEF T
<1>20. 0..l \subseteq T
  BY <1>6, <1>18, <1>19, Induction
<1>21. l \in T
  BY <1>6, <1>20
<1> QED
  BY <1>14, <1>17, <1>21 DEF T, s

-----------------------------------------------------------------------------
(* The types.                                                              *)

\* Every action keeps the types.
LEMMA TypeInductive == TypeOK /\ Ahead /\ [Next]_vars => TypeOK'
<1> SUFFICES ASSUME TypeOK, Ahead, [Next]_vars PROVE TypeOK'
  OBVIOUS
<1> USE StreamsAssumption DEF clientVars, pipeVars
<1>1. CASE Notifies
  <2>1. PICK n \in Notice : ClientWrites(NoticeLine(n)) /\ UNCHANGED <<alive, pipeVars>>
    BY <1>1 DEF Notifies
  <2> QED
    BY <2>1, LineTypes, WriteTypes DEF TypeOK, ClientWrites
<1>2. CASE ClientExits
  BY <1>2 DEF TypeOK, ClientExits
<1>3. CASE ReadLine
  <2>1. Parsed(Head(lines)) \in Events /\ lines' \in Seq(Lines)
    BY <1>3, FirstEvent DEF TypeOK, ReadLine
  <2>2. events \in Seq(Events) /\ (events' = events \/ events' = Append(events, Parsed(Head(lines))))
    BY <1>3 DEF TypeOK, ReadLine
  <2>3. events' \in Seq(Events)
    BY <2>1, <2>2
  <2> QED
    BY <1>3, <2>1, <2>3 DEF TypeOK, ReadLine
<1>4. CASE ReaderEnds
  BY <1>4 DEF TypeOK, ReaderEnds
<1>5. CASE Attach
  <2>1. 0 \in 0..Timeout
    OBVIOUS
  <2> QED
    BY <1>5, <2>1, Empty DEF TypeOK, Attach
<1>6. CASE SendCommand
  <2>1. NoticeLine(Reply) \in Lines
    BY LineTypes
  <2> QED
    BY <1>6, <2>1, WriteTypes DEF TypeOK, SendCommand, ClientWrites
<1>7. ASSUME NEW W \in Wants, StartWait(W) PROVE TypeOK'
  <2>1. W \subseteq Events /\ Timeout \in 0..Timeout
    BY DEF Wants
  <2> QED
    BY <1>7, <2>1 DEF TypeOK, StartWait
<1>8. CASE Caller
  <2>1. CASE Take
    <3>1. events \in Seq(Events) /\ events # <<>> /\ events' = Tail(events)
      BY <2>1 DEF TypeOK, Take
    <3>2. events' \in Seq(Events) /\ 0 \in 0..Timeout
      BY <3>1
    <3>3. owed \in Seq(Lines) /\ owed # <<>>
      BY <3>1, EmptyOwed DEF TypeOK
    <3>4. owed' \in Seq(Lines)
      BY <2>1, <3>3 DEF Take
    <3> QED
      BY <2>1, <3>2, <3>4 DEF TypeOK, Take, Ends, LeftAfter
  <2>2. CASE Expire \/ Disconnected
    BY <2>2 DEF TypeOK, Expire, Disconnected, Ends
  <2> QED
    BY <1>8, <2>1, <2>2 DEF Caller
<1>9. CASE Tick
  <2>1. left - 1 \in 0..Timeout
    <3>1. left \in 0..Timeout /\ left > 0
      BY <1>9 DEF TypeOK, Tick
    <3> QED
      BY <3>1
  <2> QED
    BY <1>9, <2>1 DEF TypeOK, Tick
<1>10. CASE DropKills \/ DropJoins
  <2>1. CASE DropKills
    BY <2>1 DEF TypeOK, DropKills
  <2>2. CASE DropJoins
    BY <2>2, Empty DEF TypeOK, DropJoins
  <2> QED
    BY <1>10, <2>1, <2>2
<1>11. ASSUME NEW g \in Guard, DropPipe(g) \/ GuardLost(g) PROVE TypeOK'
  BY <1>11 DEF TypeOK, DropPipe, GuardLost, Gone, Guards
<1>12. ASSUME NEW g \in Guard, NEW p \in Pane, StartPipe(g, p) PROVE TypeOK'
  BY <1>12 DEF TypeOK, StartPipe, NewPipe, Guards
<1>13. ASSUME NEW p \in Pane, PaneDies(p) PROVE TypeOK'
  BY <1>13 DEF TypeOK, PaneDies
<1>14. ASSUME NEW p \in Pane, NEW x \in Text, PaneWrites(p, x) PROVE TypeOK'
  <2>1. missed' \subseteq Guard
    BY <1>14 DEF TypeOK, PaneWrites, Guards
  <2>2. CASE ClientWrites(OutputLine(p, x))
    BY <1>14, <2>1, <2>2, LineTypes, WriteTypes DEF TypeOK, PaneWrites, ClientWrites
  <2>3. CASE UNCHANGED clientVars
    BY <1>14, <2>1, <2>3 DEF TypeOK, PaneWrites
  <2> QED
    BY <1>14, <2>2, <2>3 DEF PaneWrites
<1>15. CASE UNCHANGED vars
  BY <1>15 DEF TypeOK, vars
<1> QED
  BY <1>1, <1>2, <1>3, <1>4, <1>5, <1>6, <1>7, <1>8, <1>9, <1>10, <1>11, <1>12, <1>13, <1>14,
     <1>15 DEF Next

-----------------------------------------------------------------------------
(* The client and its reader.                                              *)

\* A line that is written is owed last, and the last to read.
LEMMA OwedWrite ==
  ASSUME TypeOK, Owed, NEW l \in Lines, ClientWrites(l)
  PROVE  Owed'
<1>1. owed \in Seq(Lines) /\ lines \in Seq(Lines) /\ events \in Seq(Events)
  BY DEF TypeOK
<1>2. CASE reader = "reading"
  <2>1. /\ lines' = Append(lines, l) /\ owed' = Append(owed, l)
        /\ events' = events /\ reader' = reader
    BY <1>2 DEF ClientWrites
  <2> DEFINE m == Len(events)
             k == Len(lines)
             n == Len(owed)
  <2>2. /\ m \in Nat /\ k \in Nat /\ n \in Nat
        /\ Len(lines') = k + 1 /\ Len(owed') = n + 1
        /\ lines'[k + 1] = l /\ owed'[n + 1] = l
        /\ \A i \in 1..k : lines'[i] = lines[i]
        /\ \A i \in 1..n : owed'[i] = owed[i]
    BY <1>1, <2>1
  <2>3. /\ n = m + k
        /\ \A i \in 1..k : owed[m + i] = lines[i]
        /\ \A i \in 1..m : events[i] = Parsed(owed[i])
    BY <1>2 DEF Owed, Ahead, Behind
  <2> HIDE DEF m, k, n
  <2>4. /\ \A i \in 1..m : i \in 1..n
        /\ \A i \in 1..k : m + i \in 1..n
        /\ \A i \in 1..(k + 1) : i \in 1..k \/ i = k + 1
        /\ m + (k + 1) = n + 1 /\ m <= n + 1
    BY <2>2, <2>3
  <2>5. Ahead'
    BY <2>1, <2>2, <2>3, <2>4 DEF Ahead, m
  <2>6. \A i \in 1..(k + 1) : owed'[m + i] = lines'[i]
    BY <2>2, <2>3, <2>4
  <2>7. Behind'
    BY <2>1, <2>2, <2>4, <2>6 DEF Behind, m
  <2> QED
    BY <1>2, <2>1, <2>5, <2>7 DEF Owed, ReaderDone
<1>3. CASE reader # "reading"
  BY <1>3 DEF ClientWrites, Owed, Ahead, Behind, ReaderDone
<1> QED
  BY <1>2, <1>3

\* A line that is read goes to the end of the channel, or stops the reader.
LEMMA OwedRead ==
  ASSUME TypeOK, Owed, ReadLine
  PROVE  Owed'
<1>1. owed \in Seq(Lines) /\ lines \in Seq(Lines) /\ events \in Seq(Events) /\ lines # <<>>
  BY DEF TypeOK, ReadLine
<1> DEFINE m == Len(events)
           k == Len(lines)
           n == Len(owed)
<1>2. /\ m \in Nat /\ k \in Nat /\ n \in Nat /\ k >= 1
      /\ Head(lines) = lines[1] /\ Len(Tail(lines)) = k - 1
      /\ \A i \in 1..(k - 1) : Tail(lines)[i] = lines[i + 1]
  BY <1>1
<1>3. /\ n = m + k
      /\ \A i \in 1..k : owed[m + i] = lines[i]
      /\ \A i \in 1..m : events[i] = Parsed(owed[i])
  BY DEF Owed, Ahead, Behind, ReadLine
<1>4. owed' = owed /\ lines' = Tail(lines)
  BY DEF ReadLine
<1>5. owed[m + 1] = Head(lines) /\ m < n
  <2> HIDE DEF m, k, n
  <2> QED
    BY <1>2, <1>3
<1>6. CASE Head(lines).utf8
  <2>1. events' = Append(events, Parsed(Head(lines))) /\ reader' = reader /\ reader = "reading"
    BY <1>6 DEF ReadLine
  <2>2. Parsed(Head(lines)) \in Events
    BY <1>1, FirstEvent
  <2> DEFINE e == Parsed(Head(lines))
  <2> HIDE DEF e
  <2>3. /\ Len(events') = m + 1 /\ events'[m + 1] = e
        /\ \A i \in 1..m : events'[i] = events[i]
    BY <1>1, <2>1, <2>2 DEF e
  <2> HIDE DEF m, k, n
  <2>4. \A i \in 1..(m + 1) : i \in 1..m \/ i = m + 1
    BY <1>2
  <2>5. \A i \in 1..(m + 1) : events'[i] = Parsed(owed[i])
    BY <1>3, <1>5, <2>3, <2>4 DEF e
  <2>6. Ahead'
    BY <1>2, <1>4, <1>5, <2>3, <2>5 DEF Ahead, n
  <2>7. \A i \in 1..(k - 1) : i + 1 \in 1..k /\ (m + 1) + i = m + (i + 1)
    BY <1>2
  <2>8. \A i \in 1..(k - 1) : owed[(m + 1) + i] = Tail(lines)[i]
    BY <1>2, <1>3, <2>7
  <2>9. n = (m + 1) + (k - 1)
    BY <1>2, <1>3
  <2>10. Behind'
    BY <1>2, <1>4, <2>3, <2>8, <2>9 DEF Behind, n
  <2> QED
    BY <2>1, <2>6, <2>10 DEF Owed, ReaderDone
<1>7. CASE ~Head(lines).utf8
  <2>1. events' = events /\ reader' = "ended"
    BY <1>7 DEF ReadLine
  <2>2. Unreadable(owed[m + 1])
    <3>1. Unreadable(Head(lines))
      BY <1>7 DEF Unreadable
    <3> HIDE DEF m, k, n
    <3> QED
      BY <1>5, <3>1
  <2> QED
    BY <1>4, <2>1, <2>2 DEF Owed, Ahead, Behind, ReaderDone
<1> QED
  BY <1>6, <1>7

\* The event a caller takes is of the line it is owed first.
LEMMA OwedTake ==
  ASSUME TypeOK, Owed, Take
  PROVE  Owed'
<1>1. /\ owed \in Seq(Lines) /\ lines \in Seq(Lines) /\ events \in Seq(Events)
      /\ events # <<>> /\ owed # <<>>
  BY EmptyOwed DEF TypeOK, Take, Owed
<1>2. events' = Tail(events) /\ owed' = Tail(owed) /\ lines' = lines /\ reader' = reader
  BY DEF Take
<1> DEFINE m == Len(events)
           k == Len(lines)
           n == Len(owed)
<1>3. /\ m \in Nat /\ k \in Nat /\ n \in Nat /\ m >= 1 /\ n >= 1
      /\ Len(events') = m - 1 /\ Len(owed') = n - 1
      /\ \A i \in 1..(m - 1) : events'[i] = events[i + 1]
      /\ \A i \in 1..(n - 1) : owed'[i] = owed[i + 1]
  BY <1>1, <1>2
<1>4. m <= n /\ \A i \in 1..m : events[i] = Parsed(owed[i])
  BY DEF Owed, Ahead
<1>5. Ahead'
  <2> HIDE DEF m, k, n
  <2>1. /\ m - 1 <= n - 1
        /\ \A i \in 1..(m - 1) : i + 1 \in 1..m /\ i \in 1..(n - 1)
    BY <1>3, <1>4
  <2>2. \A i \in 1..(m - 1) : events'[i] = Parsed(owed'[i])
    BY <1>3, <1>4, <2>1
  <2> QED
    BY <1>3, <2>1, <2>2 DEF Ahead
<1>6. ASSUME reader = "reading" PROVE Behind'
  <2>1. n = m + k /\ \A i \in 1..k : owed[m + i] = lines[i]
    BY <1>6 DEF Owed, Behind
  <2> HIDE DEF m, n
  <2>2. /\ n - 1 = (m - 1) + k
        /\ \A i \in 1..k : (m - 1) + i \in 1..(n - 1) /\ ((m - 1) + i) + 1 = m + i
    BY <1>3, <2>1
  <2>3. \A i \in 1..k : owed'[(m - 1) + i] = lines[i]
    BY <1>3, <2>1, <2>2
  <2> QED
    BY <1>2, <1>3, <2>2, <2>3 DEF Behind, k
<1>7. ASSUME reader = "ended", m < n PROVE Unreadable(owed'[(m - 1) + 1])
  <2>1. Unreadable(owed[m + 1])
    BY <1>7 DEF Owed, ReaderDone
  <2> HIDE DEF m, k, n
  <2>2. (m - 1) + 1 \in 1..(n - 1) /\ ((m - 1) + 1) + 1 = m + 1
    BY <1>3, <1>7
  <2>3. owed'[(m - 1) + 1] = owed[m + 1]
    BY <1>3, <2>2
  <2> QED
    BY <2>1, <2>3
<1>8. ReaderDone'
  <2> HIDE DEF m, k, n
  <2>1. m - 1 < n - 1 => m < n
    BY <1>3
  <2> QED
    BY <1>2, <1>3, <1>7, <2>1 DEF ReaderDone
<1> QED
  BY <1>2, <1>5, <1>6, <1>8 DEF Owed, Behind

\* A client that has ended writes nothing, so what is read stays read.
LEMMA OwedInductive == TypeOK /\ Owed /\ [Next]_vars => Owed'
<1> SUFFICES ASSUME TypeOK, Owed, [Next]_vars PROVE Owed'
  OBVIOUS
<1> USE DEF clientVars, pipeVars
<1>1. ASSUME UNCHANGED <<lines, reader, events, owed>> PROVE Owed'
  BY <1>1 DEF Owed, Ahead, Behind, ReaderDone
<1>2. CASE Notifies \/ SendCommand
  BY <1>2, StreamsAssumption, LineTypes, OwedWrite DEF Notifies, SendCommand
<1>3. CASE ReaderEnds
  <2>1. lines = <<>> /\ Len(lines) = 0 /\ reader = "reading"
    BY <1>3 DEF ReaderEnds, AtEof
  <2>2. Len(events) \in Nat /\ Len(owed) = Len(events)
    BY <2>1 DEF TypeOK, Owed, Behind
  <2>3. UNCHANGED <<events, owed>> /\ reader' = "ended"
    BY <1>3 DEF ReaderEnds
  <2> QED
    BY <2>2, <2>3 DEF Owed, Ahead, Behind, ReaderDone
<1>4. ASSUME lines' = <<>> \/ reader' = "ended", events' = <<>>, owed' = <<>> PROVE Owed'
  <2>1. Len(events') = 0 /\ Len(owed') = 0 /\ (lines' = <<>> => Len(lines') = 0)
    BY <1>4
  <2> QED
    BY <1>4, <2>1 DEF Owed, Ahead, Behind, ReaderDone
<1>5. CASE Attach \/ DropJoins
  BY <1>4, <1>5 DEF Attach, DropJoins
<1>6. CASE ClientExits \/ DropKills \/ Tick \/ Expire \/ Disconnected \/ \E W \in Wants : StartWait(W)
  BY <1>1, <1>6 DEF ClientExits, DropKills, Tick, Expire, Disconnected, StartWait
<1>7. ASSUME NEW p \in Pane, NEW x \in Text, PaneWrites(p, x) PROVE Owed'
  BY <1>1, <1>7, LineTypes, OwedWrite DEF PaneWrites
<1>8. CASE UNCHANGED clientVars
  BY <1>1, <1>8
<1> QED
  BY <1>2, <1>3, <1>5, <1>6, <1>7, <1>8, OwedRead, OwedTake
     DEF Next, vars, Caller, DropPipe, GuardLost, StartPipe, PaneDies

\* The reader adds an event of the line it has read; a caller takes one away.
LEMMA EventsInductive == TypeOK /\ EventsRead /\ [Next]_vars => EventsRead'
<1> SUFFICES ASSUME TypeOK, EventsRead, [Next]_vars PROVE EventsRead'
  OBVIOUS
<1> USE DEF clientVars, pipeVars
<1>a. events \in Seq(Events) /\ lines \in Seq(Lines)
  BY DEF TypeOK
<1>1. CASE events' = events
  BY <1>1 DEF EventsRead
<1>2. CASE events' = <<>>
  BY <1>2 DEF EventsRead
<1>3. CASE Take
  <2>1. events # <<>> /\ events' = Tail(events)
    BY <1>3 DEF Take
  <2>2. \A i \in 1..Len(events') : i + 1 \in 1..Len(events) /\ events'[i] = events[i + 1]
    BY <1>a, <2>1
  <2> QED
    BY <2>2 DEF EventsRead
<1>4. CASE ReadLine /\ events' # events
  <2>1. lines # <<>> /\ Head(lines).utf8 /\ events' = Append(events, Parsed(Head(lines)))
    BY <1>4 DEF ReadLine
  <2>2. Head(lines) \in Lines
    BY <1>a, <2>1
  <2>3. Parsed(Head(lines)) \in Events
    BY <2>2 DEF Events
  <2> DEFINE e == Parsed(Head(lines))
             n == Len(events)
  <2> HIDE DEF e
  <2>4. /\ n \in Nat /\ Len(events') = n + 1 /\ events'[n + 1] = e
        /\ \A i \in 1..n : events'[i] = events[i]
    BY <1>a, <2>1, <2>3 DEF e
  <2> HIDE DEF n
  <2>5. \A i \in 1..(n + 1) : i = n + 1 \/ i \in 1..n
    BY <2>4
  <2>6. \A i \in 1..n : \E l \in Lines : l.utf8 /\ events'[i] = Parsed(l)
    BY <2>4 DEF EventsRead, n
  <2>7. \E l \in Lines : l.utf8 /\ events'[n + 1] = Parsed(l)
    BY <2>1, <2>2, <2>4 DEF e
  <2> QED
    BY <2>4, <2>5, <2>6, <2>7 DEF EventsRead
<1> QED
  BY <1>1, <1>2, <1>3, <1>4
     DEF Next, vars, Notifies, ClientWrites, ClientExits, ReadLine, ReaderEnds, Attach, SendCommand,
         StartWait, Caller, Expire, Disconnected, Tick, DropKills, DropJoins, DropPipe, GuardLost,
         StartPipe, PaneDies, PaneWrites

-----------------------------------------------------------------------------
(* The pipes.                                                              *)

\* Every action keeps SoleGuards: a second guard of a pane makes all of them
\* shared, and so does a drop, which stops whatever pipe the pane has.
LEMMA SoleInductive == TypeOK /\ SoleGuards /\ [Next]_vars => SoleGuards'
<1> SUFFICES ASSUME TypeOK, SoleGuards, [Next]_vars PROVE SoleGuards'
  OBVIOUS
<1> USE StreamsAssumption DEF SoleGuards, Guards
<1>1. ASSUME UNCHANGED <<alive, guard, piped, shared>> PROVE SoleGuards'
  BY <1>1
<1>2. ASSUME NEW g \in Guard, NEW p \in Pane, StartPipe(g, p) PROVE SoleGuards'
  <2>1. /\ guard[g] = NoPane
        /\ guard' = [guard EXCEPT ![g] = p] /\ piped' = [piped EXCEPT ![p] = g]
        /\ shared' = shared \union (IF Guards(p) = {} THEN {} ELSE Guards(p) \union {g})
        /\ alive' = alive
    BY <1>2 DEF StartPipe, NewPipe
  <2> SUFFICES ASSUME NEW h \in Guard \ shared', guard'[h] # NoPane
               PROVE  /\ \A k \in Guard : guard'[k] = guard'[h] => k = h
                      /\ guard'[h] \in alive => piped'[guard'[h]] = h
    BY <2>1 DEF TypeOK
  <2>2. CASE h = g
    BY <2>1, <2>2 DEF TypeOK
  <2>3. CASE h # g
    <3>1. guard'[h] = guard[h] /\ h \notin shared /\ guard[h] \in Pane
      BY <2>1, <2>3 DEF TypeOK
    <3>2. guard[h] # p
      BY <2>1, <3>1
    <3> QED
      BY <2>1, <2>3, <3>1, <3>2 DEF TypeOK
  <2> QED
    BY <2>2, <2>3
<1>3. ASSUME NEW g \in Guard, DropPipe(g) PROVE SoleGuards'
  <2>1. /\ guard[g] # NoPane
        /\ guard' = [guard EXCEPT ![g] = NoPane]
        /\ piped' = [piped EXCEPT ![guard[g]] = NoGuard]
        /\ shared' = (shared \union Guards(guard[g])) \ {g}
        /\ alive' = alive
    BY <1>3 DEF DropPipe, Gone
  <2> SUFFICES ASSUME NEW h \in Guard \ shared', guard'[h] # NoPane
               PROVE  /\ \A k \in Guard : guard'[k] = guard'[h] => k = h
                      /\ guard'[h] \in alive => piped'[guard'[h]] = h
    BY <2>1 DEF TypeOK
  <2>2. h # g /\ guard'[h] = guard[h] /\ h \notin shared /\ guard[h] # guard[g]
    BY <2>1 DEF TypeOK
  <2> QED
    BY <2>1, <2>2 DEF TypeOK
<1>4. ASSUME NEW g \in Guard, GuardLost(g) PROVE SoleGuards'
  BY <1>4 DEF TypeOK, GuardLost, Gone
<1>5. ASSUME NEW p \in Pane, PaneDies(p) PROVE SoleGuards'
  BY <1>5 DEF TypeOK, PaneDies
<1>6. ASSUME NEW p \in Pane, NEW x \in Text, PaneWrites(p, x) PROVE SoleGuards'
  BY <1>1, <1>6 DEF PaneWrites
<1>7. CASE UNCHANGED <<alive, pipeVars>>
  BY <1>1, <1>7 DEF pipeVars
<1> QED
  BY <1>2, <1>3, <1>4, <1>5, <1>6, <1>7
     DEF Next, vars, Notifies, ClientExits, ReadLine, ReaderEnds, Attach, SendCommand, StartWait,
         Caller, Take, Expire, Disconnected, Tick, DropKills, DropJoins

\* Only a shared guard misses anything.
LEMMA WholeInductive ==
  TypeOK /\ SoleGuards /\ StreamIsWhole /\ [Next]_vars => StreamIsWhole'
<1> SUFFICES ASSUME TypeOK, SoleGuards, StreamIsWhole, [Next]_vars PROVE StreamIsWhole'
  OBVIOUS
<1> USE StreamsAssumption DEF StreamIsWhole
<1>1. ASSUME NEW p \in Pane, NEW x \in Text, PaneWrites(p, x) PROVE StreamIsWhole'
  <2>1. ASSUME NEW g \in Guards(p), piped[p] # g PROVE g \in shared
    BY <1>1, <2>1 DEF PaneWrites, SoleGuards, Guards, TypeOK
  <2> QED
    BY <1>1, <2>1 DEF PaneWrites
<1>2. ASSUME NEW g \in Guard, DropPipe(g) \/ GuardLost(g) PROVE StreamIsWhole'
  BY <1>2 DEF DropPipe, GuardLost, Gone
<1>3. ASSUME NEW g \in Guard, NEW p \in Pane, StartPipe(g, p) PROVE StreamIsWhole'
  BY <1>3 DEF StartPipe
<1>4. ASSUME UNCHANGED <<missed, shared>> PROVE StreamIsWhole'
  BY <1>4
<1> QED
  BY <1>1, <1>2, <1>3, <1>4
     DEF Next, vars, pipeVars, Notifies, ClientExits, ReadLine, ReaderEnds, Attach, SendCommand,
         StartWait, Caller, Take, Expire, Disconnected, Tick, DropKills, DropJoins, PaneDies

-----------------------------------------------------------------------------

\* StreamInv is an invariant.
LEMMA Invariance == Spec => []StreamInv
<1>1. Init => StreamInv
  <2> SUFFICES ASSUME Init PROVE StreamInv
    OBVIOUS
  <2> USE StreamsAssumption DEF Init
  <2>1. TypeOK
    <3>1. 0 \in 0..Timeout
      OBVIOUS
    <3> QED
      BY <3>1, Empty DEF TypeOK
  <2>2. SoleGuards /\ StreamIsWhole
    BY DEF SoleGuards, StreamIsWhole
  <2>3. EventsRead
    BY DEF EventsRead
  <2>4. Owed
    <3>1. Len(events) = 0 /\ Len(owed) = 0 /\ Len(lines) = 0
      OBVIOUS
    <3> QED
      BY <3>1 DEF Owed, Ahead, Behind, ReaderDone
  <2> QED
    BY <2>1, <2>2, <2>3, <2>4 DEF StreamInv
<1>2. StreamInv /\ [Next]_vars => StreamInv'
  BY TypeInductive, EventsInductive, OwedInductive, SoleInductive, WholeInductive
     DEF StreamInv, Owed
<1> QED
  BY <1>1, <1>2, PTL DEF Spec

\* The types hold.
THEOREM TypeCorrect == Spec => []TypeOK
<1>1. StreamInv => TypeOK
  BY DEF StreamInv
<1> QED
  BY <1>1, Invariance, PTL

\* An output event carries the very bytes the pane has written, whatever they
\* are.
THEOREM OutputExact == Spec => []OutputIsExact
<1>1. StreamInv => OutputIsExact
  <2> SUFFICES ASSUME EventsRead, NEW i \in 1..Len(events), events[i].name = "output"
               PROVE  events[i].bytes \in Utf8
    BY DEF StreamInv, OutputIsExact
  <2>1. PICK l \in Lines : l.utf8 /\ events[i] = Parsed(l)
    BY DEF EventsRead
  <2>2. events[i].name = l.name /\ events[i].bytes = Decode(l.payload)
    BY <2>1 DEF Parsed
  <2>3. PICK p \in Pane, x \in Text : l = OutputLine(p, x)
    BY <2>2, StreamsAssumption DEF Lines, NoticeLine
  <2>4. l.payload = Encode(x) /\ x \in Utf8
    BY <2>1, <2>3 DEF OutputLine
  <2>5. x \in Seq(Byte)
    BY StreamsAssumption
  <2> QED
    BY <2>2, <2>4, <2>5, RoundTrip
<1> QED
  BY <1>1, Invariance, PTL

\* A guard whose pane had no other guard begin or end has all the output, for
\* any guards on any panes, however they are started, dropped and lost.
THEOREM SoleStreamWhole == Spec => []StreamIsWhole
<1>1. StreamInv => StreamIsWhole
  BY DEF StreamInv
<1> QED
  BY <1>1, Invariance, PTL

\* The caller has been given the lines, in their order, before the error, however
\* much is on its way when the client goes, and whoever makes it go.
THEOREM LinesBeforeError == Spec => ErrorComesLast
<1>1. StreamInv /\ [Next]_vars =>
        [call = "wait" =>
           /\ events # <<>> => owed # <<>> /\ Head(events) = Parsed(Head(owed))
           /\ call' = "none" /\ result' = "error" => owed = <<>> \/ ~Head(owed).utf8]_vars
  <2> SUFFICES ASSUME StreamInv, [Next]_vars, call = "wait"
               PROVE  /\ events # <<>> => owed # <<>> /\ Head(events) = Parsed(Head(owed))
                      /\ call' = "none" /\ result' = "error" => owed = <<>> \/ ~Head(owed).utf8
    OBVIOUS
  <2>1. owed \in Seq(Lines) /\ events \in Seq(Events) /\ Ahead
    BY DEF StreamInv, TypeOK, Owed
  <2>2. ASSUME call' = "none", result' = "error", owed # <<>> PROVE ~Head(owed).utf8
    <3>1. Disconnected
      BY <2>2 DEF Next, vars, clientVars, pipeVars, Notifies, ClientWrites, ClientExits, ReadLine,
         ReaderEnds, Attach, SendCommand, StartWait, Caller, Take, Expire, Ends, Tick, DropKills,
         DropJoins, DropPipe, GuardLost, StartPipe, PaneDies, PaneWrites
    <3>2. events = <<>> /\ reader = "ended"
      BY <3>1 DEF Disconnected
    <3>3. Len(events) = 0 /\ Len(owed) > 0 /\ Head(owed) = owed[1] /\ 0 + 1 = 1
      BY <2>1, <2>2, <3>2
    <3>4. Unreadable(Head(owed))
      BY <3>2, <3>3 DEF StreamInv, Owed, ReaderDone
    <3> QED
      BY <3>4 DEF Unreadable
  <2> QED
    BY <2>1, <2>2, EmptyOwed
<1> QED
  BY <1>1, Invariance, PTL DEF Spec, ErrorComesLast

=============================================================================
