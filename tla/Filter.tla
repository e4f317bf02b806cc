-------------------------------- MODULE Filter --------------------------------
(***************************************************************************)
(* The filters over vectors that sync.rs writes with retain and filter.    *)
(* They are SelectSeq with the test as a set, of which the proof system    *)
(* can reason: it has no definition of SelectSeq.                          *)
(***************************************************************************)
EXTENDS Naturals, Sequences, SequencesExt

\* The entries of s that are in K, in their order.
Retained(s, K) ==
  LET retained[i \in 0..Len(s)] ==
        IF i = 0 THEN <<>>
        ELSE IF s[i] \in K THEN Append(retained[i - 1], s[i]) ELSE retained[i - 1]
  IN  retained[Len(s)]

\* retain(|col| !col.is_empty())
NonEmpty(cs) == Retained(cs, ToSet(cs) \ {<<>>})

=============================================================================
