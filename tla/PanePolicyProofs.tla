--------------------------- MODULE PanePolicyProofs ---------------------------
(***************************************************************************)
(* Theorems about PaneSnapshot and PanePolicy, for any panes, windows,     *)
(* sessions and depth of scopes.  Of the snapshot: the cached listing      *)
(* follows the thread's own changes, and a scope shows one view.  Of the   *)
(* policy: a move is one of the operations of the snapshot, and a move     *)
(* without permission leaves every pane in its session, as far as both     *)
(* answers were had and accurate.                                          *)
(***************************************************************************)
EXTENDS PanePolicy, TLAPS

USE DEF cacheVars, Drop, Keep

-----------------------------------------------------------------------------
(* The snapshot.                                                           *)

\* What the thread knows of a pane is so.
KnownIsTrue == \A p \in Pane : known[p] \in {Unknown, Listed(p)}

\* Between the drop of the listing and the next probe nothing is cached.
DroppedFirst == job.step \in {"guard", "ask", "kill", "source"} => cached = NoListing

\* The listing agrees with what the thread knows, but for the placeholder a
\* break_pane is about to kill.
ListingFollows ==
  cached # NoListing /\ ~At("join") =>
    \A p \in Pane \ untold : known[p] \in {Unknown, cached[p]}

\* What probes answer from is what is cached: nothing but a drop by the thread
\* and the end of the outermost scope takes the listing away.
SeenIsCached == seen = cached

SnapshotInv == TypeOK /\ KnownIsTrue /\ DroppedFirst /\ ListingFollows /\ SeenIsCached

-----------------------------------------------------------------------------

\* A listing is a listing.
LEMMA ListingType == TypeOK => Listing \in Listings
<1> SUFFICES ASSUME TypeOK, NEW p \in Pane PROVE Listed(p) \in Answers
  BY DEF Listing, Listings
<1> QED
  BY SnapshotAssumption DEF TypeOK, Listed, Answers, Sessions

\* A probe leaves what is cached, or takes a listing where there is none.
LEMMA SampleCases ==
  ASSUME Sample
  PROVE  /\ Cache(cached', {}) /\ seen' = cached'
         /\ cached' \in {NoListing, cached, Listing}
         /\ cached # NoListing => cached' \in {cached, NoListing}
         /\ depth = 0 => cached' \in {cached, NoListing}
         /\ depth > 0 /\ cached # NoListing => cached' = cached
BY DEF Sample, Sampled, Cache

\* Where a pane is put is where it is listed, and its owner knows.
LEMMA PutEffect ==
  ASSUME TypeOK, NEW P \in SUBSET Pane, NEW w \in Window \union {Gone}, Put(P, w)
  PROVE  /\ place' \in [Pane -> Window \union {Gone}]
         /\ known' \in [Pane -> Answers \union {Unknown}]
         /\ KnownIsTrue => KnownIsTrue'
         /\ \A p \in Pane \ P : known'[p] = known[p]
<1>1. /\ place' = [p \in Pane |-> IF p \in P THEN w ELSE place[p]]
      /\ known' = [p \in Pane |-> IF p \in P
                                  THEN IF w = Gone THEN Absent ELSE SessionOf[w] ELSE known[p]]
  BY DEF Put
<1>2. (IF w = Gone THEN Absent ELSE SessionOf[w]) \in Answers
  BY DEF Answers, Sessions
<1> QED
  BY <1>1, <1>2 DEF TypeOK, KnownIsTrue, Listed

\* Every action keeps the types.
LEMMA TypeInductive == TypeOK /\ [Next]_vars => TypeOK'
<1> SUFFICES ASSUME TypeOK, [Next]_vars PROVE TypeOK'
  OBVIOUS
<1> USE SnapshotAssumption
<1>1. CASE BeginScope
  BY <1>1 DEF TypeOK, BeginScope, serverVars
<1>2. CASE EndScope
  BY <1>2 DEF TypeOK, EndScope, Cache, serverVars
<1>3. CASE Probe
  BY <1>3, ListingType, SampleCases DEF TypeOK, Probe, Cache, serverVars
<1>4. CASE Invalidate
  BY <1>4 DEF TypeOK, Invalidate, Cache, serverVars
<1>5. ASSUME NEW p \in Pane, NEW w \in Window, NewPane(p, w) PROVE TypeOK'
  BY <1>5, PutEffect DEF TypeOK, NewPane, Create, Cache
<1>6. ASSUME NEW p \in Pane, NEW w \in Window, NewStash(p, w) PROVE TypeOK'
  BY <1>6, PutEffect DEF TypeOK, NewStash, Create, Cache
<1>7. ASSUME NEW p \in Pane, NEW w \in Window, Placeholder(p, w) PROVE TypeOK'
  BY <1>7, PutEffect DEF TypeOK, Placeholder, At, Jobs, Steps
<1>8. ASSUME NEW p \in Pane, NEW q \in Pane, JoinPane(p, q) PROVE TypeOK'
  BY <1>8, PutEffect DEF TypeOK, JoinPane, Cache
<1>9. ASSUME NEW p \in Pane, NEW q \in Pane, SwapPane(p, q) PROVE TypeOK'
  <2>1. Listed(p) \in Answers /\ Listed(q) \in Answers
    BY <1>9 DEF TypeOK, SwapPane, Listed, Answers, Sessions
  <2> QED
    BY <1>9, <2>1 DEF TypeOK, SwapPane, Cache
<1>10. ASSUME NEW s \in Sessions, KillSession(s) PROVE TypeOK'
  BY <1>10, PutEffect DEF TypeOK, KillSession, Cache
<1>11. ASSUME NEW p \in Pane, KillPane(p) PROVE TypeOK'
  BY <1>11 DEF TypeOK, KillPane, Cache, Idle, Jobs, Steps, serverVars, Answers
<1>12. ASSUME NEW p \in Pane, BreakPane(p) PROVE TypeOK'
  BY <1>12 DEF TypeOK, BreakPane, Cache, Idle, Jobs, Steps, serverVars, Answers
<1>13. CASE Guard
  BY <1>13 DEF TypeOK, Guard, At, Goes, Jobs, Steps, serverVars
<1>14. CASE Ask
  <2>1. job' \in Jobs
    BY <1>14 DEF TypeOK, Ask, At, Goes, Idle, Jobs, Steps, Answers
  <2> QED
    BY <1>14, <2>1, ListingType, SampleCases DEF TypeOK, Ask, Cache, serverVars
<1>15. CASE Kill
  <2>1. job.pane \in Pane /\ job' = Idle /\ Idle \in Jobs
    BY <1>15 DEF TypeOK, Kill, At, Idle, Jobs, Steps, Answers
  <2>2. CASE Put({job.pane}, Gone)
    BY <1>15, <2>1, <2>2, PutEffect DEF TypeOK, Kill, Cache
  <2>3. CASE UNCHANGED <<place, known, cacheVars>>
    BY <1>15, <2>1, <2>3 DEF TypeOK, Kill
  <2> QED
    BY <1>15, <2>2, <2>3 DEF Kill
<1>16. CASE BreakAsk
  <2>1. job.moving \in Pane
    BY <1>16 DEF TypeOK, BreakAsk, At, Jobs
  <2>2. Listed(job.moving) \in Answers
    BY <2>1 DEF TypeOK, Listed, Answers, Sessions
  <2>3. job' \in Jobs
    <3>1. Idle \in Jobs
      BY DEF Idle, Jobs, Steps, Answers
    <3>2. [job EXCEPT !.step = "break", !.session = Listed(job.moving)] \in Jobs
      BY <2>1, <2>2 DEF TypeOK, Jobs, Steps
    <3> QED
      BY <1>16, <3>1, <3>2 DEF BreakAsk
  <2> QED
    BY <1>16, <2>3, ListingType, SampleCases DEF TypeOK, BreakAsk, Cache, serverVars
<1>17. CASE PlaceholderFails
  BY <1>17 DEF TypeOK, PlaceholderFails, Idle, Jobs, Steps, serverVars, Answers
<1>18. CASE BreakJoin
  <2>1. job.pane \in Pane /\ job.moving \in Pane /\ job' \in Jobs
    BY <1>18 DEF TypeOK, BreakJoin, At, Goes, Jobs, Steps
  <2>2. CASE Put({job.moving}, place[job.pane])
    BY <1>18, <2>1, <2>2, PutEffect DEF TypeOK, BreakJoin, Cache
  <2>3. CASE UNCHANGED <<place, known>>
    BY <1>18, <2>1, <2>3 DEF TypeOK, BreakJoin, Cache
  <2> QED
    BY <1>18, <2>2, <2>3 DEF BreakJoin
<1>19. ASSUME NEW p \in Pane, NEW w \in Window \union {Gone}, OthersCreate(p, w) \/ OthersChange(p, w)
       PROVE TypeOK'
  BY <1>19 DEF TypeOK, OthersCreate, OthersChange, OthersPut
<1>20. CASE UNCHANGED vars
  BY <1>20 DEF TypeOK, vars, serverVars
<1>21. ASSUME NEW s \in Sessions, AutoStart(s) PROVE TypeOK'
  BY <1>21 DEF TypeOK, AutoStart, Idle, Jobs, Steps, serverVars, Answers
<1>22. Idle \in Jobs
  BY DEF Idle, Jobs, Steps, Answers
<1>23. ASSUME NEW p \in Pane, NEW w \in Window, Launch(p, w) PROVE TypeOK'
  BY <1>22, <1>23, PutEffect DEF TypeOK, Launch, Cache
<1>24. CASE LaunchFails
  BY <1>22, <1>24 DEF TypeOK, LaunchFails, Cache, serverVars
<1> QED
  BY <1>1, <1>2, <1>3, <1>4, <1>5, <1>6, <1>7, <1>8, <1>9, <1>10, <1>11, <1>12, <1>13, <1>14,
     <1>15, <1>16, <1>17, <1>18, <1>19, <1>20, <1>21, <1>23, <1>24 DEF Next, Step, Others

\* The thread's knowledge stays true: what others do, it forgets.
LEMMA KnownInductive == TypeOK /\ KnownIsTrue /\ [Next]_vars => KnownIsTrue'
<1> SUFFICES ASSUME TypeOK, KnownIsTrue, [Next]_vars PROVE KnownIsTrue'
  OBVIOUS
<1> USE SnapshotAssumption
<1>1. ASSUME UNCHANGED <<place, known>> PROVE KnownIsTrue'
  BY <1>1 DEF KnownIsTrue, Listed
<1>2. CASE BeginScope \/ EndScope \/ Probe \/ Invalidate
  BY <1>1, <1>2 DEF BeginScope, EndScope, Probe, Invalidate, serverVars
<1>3. ASSUME NEW p \in Pane, NEW w \in Window,
             NewPane(p, w) \/ NewStash(p, w) \/ Placeholder(p, w) \/ Launch(p, w)
      PROVE KnownIsTrue'
  BY <1>3, PutEffect DEF NewPane, NewStash, Placeholder, Launch, Create
<1>4. ASSUME NEW p \in Pane, NEW q \in Pane, JoinPane(p, q) PROVE KnownIsTrue'
  BY <1>4, PutEffect DEF TypeOK, JoinPane
<1>5. ASSUME NEW p \in Pane, NEW q \in Pane, SwapPane(p, q) PROVE KnownIsTrue'
  BY <1>5 DEF TypeOK, KnownIsTrue, SwapPane, Listed
<1>6. ASSUME NEW s \in Sessions, KillSession(s) PROVE KnownIsTrue'
  BY <1>6, PutEffect DEF KillSession
<1>7. ASSUME NEW p \in Pane, KillPane(p) \/ BreakPane(p) PROVE KnownIsTrue'
  BY <1>1, <1>7 DEF KillPane, BreakPane, serverVars
<1>8. CASE Guard \/ Ask \/ BreakAsk \/ PlaceholderFails \/ LaunchFails \/ \E s \in Sessions : AutoStart(s)
  BY <1>1, <1>8 DEF Guard, Ask, BreakAsk, PlaceholderFails, LaunchFails, AutoStart, serverVars
<1>9. CASE Kill
  <2>1. job.pane \in Pane
    BY <1>9 DEF TypeOK, Kill, At, Jobs
  <2> QED
    BY <1>1, <1>9, <2>1, PutEffect DEF Kill
<1>10. CASE BreakJoin
  <2>1. job.pane \in Pane /\ job.moving \in Pane
    BY <1>10 DEF TypeOK, BreakJoin, At, Jobs
  <2> QED
    BY <1>1, <1>10, <2>1, PutEffect DEF TypeOK, BreakJoin
<1>11. ASSUME NEW p \in Pane, NEW w \in Window \union {Gone}, OthersCreate(p, w) \/ OthersChange(p, w)
       PROVE KnownIsTrue'
  BY <1>11 DEF TypeOK, KnownIsTrue, OthersCreate, OthersChange, OthersPut, Listed
<1> QED
  BY <1>1, <1>2, <1>3, <1>4, <1>5, <1>6, <1>7, <1>8, <1>9, <1>10, <1>11
     DEF Next, Step, Others, vars, serverVars

\* An operation that drops the listing first has none until it probes.
LEMMA DroppedInductive == TypeOK /\ DroppedFirst /\ [Next]_vars => DroppedFirst'
<1> SUFFICES ASSUME TypeOK, DroppedFirst, [Next]_vars PROVE DroppedFirst'
  OBVIOUS
<1>1. ASSUME UNCHANGED <<cached, job>> PROVE DroppedFirst'
  BY <1>1 DEF DroppedFirst
<1>2. ASSUME At("idle"), UNCHANGED job PROVE DroppedFirst'
  BY <1>2 DEF DroppedFirst, At
<1>3. CASE BeginScope \/ EndScope \/ Probe \/ Invalidate
  BY <1>2, <1>3 DEF BeginScope, EndScope, Probe, Invalidate
<1>4. ASSUME NEW p \in Pane, NEW w \in Window, NewPane(p, w) \/ NewStash(p, w) PROVE DroppedFirst'
  BY <1>2, <1>4 DEF NewPane, NewStash, Create
<1>5. ASSUME NEW p \in Pane, NEW w \in Window, Placeholder(p, w) PROVE DroppedFirst'
  <2>1. job'.step = "join"
    BY <1>5 DEF TypeOK, Placeholder, Jobs
  <2> QED
    BY <2>1 DEF DroppedFirst
<1>6. ASSUME NEW p \in Pane, NEW q \in Pane, JoinPane(p, q) \/ SwapPane(p, q) PROVE DroppedFirst'
  BY <1>2, <1>6 DEF JoinPane, SwapPane
<1>7. ASSUME NEW s \in Sessions, KillSession(s) PROVE DroppedFirst'
  BY <1>2, <1>7 DEF KillSession
<1>8. ASSUME NEW p \in Pane, KillPane(p) \/ BreakPane(p) PROVE DroppedFirst'
  BY <1>8 DEF KillPane, BreakPane, Cache, DroppedFirst
<1>9. CASE Guard
  BY <1>9 DEF Guard, At, DroppedFirst
<1>10. CASE Ask \/ Kill \/ BreakAsk \/ PlaceholderFails
  <2>1. job'.step \in {"idle", "killAlone", "break"}
    <3>1. /\ Idle.step = "idle"
          /\ [job EXCEPT !.step = "killAlone"].step = "killAlone"
          /\ [job EXCEPT !.step = "break", !.session = Listed(job.moving)].step = "break"
      BY DEF TypeOK, Idle, Jobs
    <3> QED
      BY <1>10, <3>1 DEF Ask, Kill, BreakAsk, PlaceholderFails, Goes
  <2> QED
    BY <2>1 DEF DroppedFirst
<1>11. CASE BreakJoin
  BY <1>11 DEF BreakJoin, Cache, DroppedFirst
<1>12. CASE Others
  BY <1>1, <1>12 DEF Others, OthersCreate, OthersChange, OthersPut
<1>13. ASSUME NEW s \in Sessions, AutoStart(s) PROVE DroppedFirst'
  BY <1>13 DEF AutoStart, Idle, DroppedFirst
<1>14. CASE LaunchFails \/ \E p \in Pane, w \in Window : Launch(p, w)
  BY <1>14 DEF LaunchFails, Launch, Cache, DroppedFirst
<1> QED
  BY <1>1, <1>3, <1>4, <1>5, <1>6, <1>7, <1>8, <1>9, <1>10, <1>11, <1>12, <1>13, <1>14
     DEF Next, Step, vars

\* A listing taken now agrees with what the thread knows; one that is kept
\* agrees but for the panes changed without telling.
LEMMA ListingInductive ==
  TypeOK /\ KnownIsTrue /\ DroppedFirst /\ ListingFollows /\ [Next]_vars => ListingFollows'
<1> SUFFICES ASSUME TypeOK, KnownIsTrue, DroppedFirst, ListingFollows, [Next]_vars
             PROVE  ListingFollows'
  OBVIOUS
<1> USE SnapshotAssumption
<1>1. ASSUME cached' = NoListing PROVE ListingFollows'
  BY <1>1 DEF ListingFollows
<1>2. ASSUME ~At("join"), UNCHANGED <<cached, known, untold>> PROVE ListingFollows'
  BY <1>2 DEF ListingFollows
<1>3. ASSUME ~At("join"), Sample, UNCHANGED known PROVE ListingFollows'
  <2>1. Cache(cached', {})
    BY <1>3, SampleCases
  <2>2. CASE cached' = cached
    BY <1>3, <2>1, <2>2 DEF Cache, ListingFollows
  <2>3. CASE cached' = Listing
    BY <1>3, <2>1, <2>3 DEF Cache, ListingFollows, KnownIsTrue, Listing
  <2> QED
    BY <1>1, <1>3, <2>2, <2>3, SampleCases
<1>4. ASSUME ~At("join"), NEW P \in SUBSET Pane, Cache(cached, P),
             \A p \in Pane \ P : known'[p] = known[p]
      PROVE ListingFollows'
  BY <1>4 DEF Cache, ListingFollows
<1>5. CASE BeginScope \/ Invalidate
  BY <1>1, <1>2, <1>5 DEF BeginScope, Invalidate, Cache, At
<1>6. CASE EndScope
  <2>1. UNCHANGED known /\ At("idle")
    BY <1>6 DEF EndScope
  <2>2. CASE depth = 1
    BY <1>1, <1>6, <2>2 DEF EndScope, Cache
  <2>3. CASE depth # 1
    BY <1>4, <1>6, <2>1, <2>3 DEF EndScope, At
  <2> QED
    BY <2>2, <2>3
<1>7. CASE Probe
  BY <1>3, <1>7 DEF Probe, At
<1>8. ASSUME NEW p \in Pane, NEW w \in Window, NewPane(p, w) PROVE ListingFollows'
  BY <1>1, <1>8 DEF NewPane, Cache
<1>9. ASSUME NEW p \in Pane, NEW w \in Window, NewStash(p, w) PROVE ListingFollows'
  BY <1>4, <1>9, PutEffect DEF NewStash, Create, At
<1>10. ASSUME NEW p \in Pane, NEW w \in Window, Placeholder(p, w) PROVE ListingFollows'
  <2>1. job'.step = "join"
    BY <1>10 DEF TypeOK, Placeholder, Jobs
  <2> QED
    BY <2>1 DEF ListingFollows, At
<1>11. ASSUME NEW p \in Pane, NEW q \in Pane, JoinPane(p, q) PROVE ListingFollows'
  BY <1>4, <1>11, PutEffect DEF TypeOK, JoinPane, At
<1>12. ASSUME NEW p \in Pane, NEW q \in Pane, SwapPane(p, q) PROVE ListingFollows'
  <2>1. \A r \in Pane \ {p, q} : known'[r] = known[r]
    BY <1>12 DEF TypeOK, SwapPane
  <2> QED
    BY <1>4, <1>12, <2>1 DEF SwapPane, At
<1>13. ASSUME NEW s \in Sessions, KillSession(s) PROVE ListingFollows'
  <2> DEFINE P == {p \in Pane : Listed(p) = s}
  <2>1. Put(P, Gone) /\ Cache(cached, P) /\ ~At("join")
    BY <1>13 DEF KillSession, At
  <2> QED
    BY <1>4, <2>1, PutEffect
<1>14. ASSUME NEW p \in Pane, KillPane(p) \/ BreakPane(p) PROVE ListingFollows'
  BY <1>1, <1>14 DEF KillPane, BreakPane, Cache
<1>15. CASE Guard
  BY <1>2, <1>15 DEF Guard, At
<1>16. CASE Ask \/ BreakAsk
  BY <1>3, <1>16 DEF Ask, BreakAsk, serverVars, At
<1>17. CASE Kill
  <2>1. job.pane \in Pane /\ ~At("join")
    BY <1>17 DEF TypeOK, Kill, At, Jobs
  <2>2. CASE UNCHANGED <<place, known, cacheVars>>
    BY <1>2, <2>1, <2>2
  <2>3. CASE At("kill") /\ ~UNCHANGED <<place, known, cacheVars>>
    BY <1>1, <1>17, <2>3 DEF Kill, Cache, DroppedFirst, At
  <2>4. CASE At("killAlone") /\ ~UNCHANGED <<place, known, cacheVars>>
    BY <1>4, <1>17, <2>1, <2>4, PutEffect DEF Kill
  <2> QED
    BY <1>17, <2>2, <2>3, <2>4 DEF Kill
<1>18. CASE PlaceholderFails
  BY <1>2, <1>18 DEF PlaceholderFails, serverVars, At
<1>19. CASE BreakJoin
  BY <1>1, <1>19 DEF BreakJoin, Cache
<1>20. ASSUME NEW p \in Pane, NEW w \in Window \union {Gone}, OthersCreate(p, w) \/ OthersChange(p, w)
       PROVE ListingFollows'
  BY <1>20 DEF TypeOK, ListingFollows, OthersCreate, OthersChange, OthersPut, At
<1>21. CASE UNCHANGED vars
  BY <1>21 DEF ListingFollows, At, vars
<1>22. ASSUME NEW s \in Sessions, AutoStart(s) PROVE ListingFollows'
  BY <1>2, <1>22 DEF AutoStart, At
<1>23. CASE LaunchFails \/ \E p \in Pane, w \in Window : Launch(p, w)
  BY <1>1, <1>23 DEF LaunchFails, Launch, Cache
<1> QED
  BY <1>5, <1>6, <1>7, <1>8, <1>9, <1>10, <1>11, <1>12, <1>13, <1>14, <1>15, <1>16, <1>17,
     <1>18, <1>19, <1>20, <1>21, <1>22, <1>23 DEF Next, Step, Others

-----------------------------------------------------------------------------

\* What probes answer from is left, dropped, or sampled by a probe, and always
\* together with what is cached.
LEMMA SeenChanges ==
  SeenIsCached /\ [Next]_vars =>
    /\ SeenIsCached'
    /\ seen' = seen \/ seen' = NoListing \/ (Sample /\ seen' = cached')
<1> DEFINE Goal == /\ SeenIsCached'
                   /\ seen' = seen \/ seen' = NoListing \/ (Sample /\ seen' = cached')
<1> SUFFICES ASSUME SeenIsCached, [Next]_vars PROVE Goal
  OBVIOUS
<1>1. ASSUME UNCHANGED <<cached, seen>> PROVE Goal
  BY <1>1 DEF SeenIsCached
<1>2. ASSUME Drop PROVE Goal
  BY <1>2 DEF SeenIsCached, Cache
<1>3. ASSUME NEW P, Keep(P) PROVE Goal
  BY <1>1, <1>3 DEF Cache
<1>4. ASSUME Sample PROVE Goal
  BY <1>4, SampleCases DEF SeenIsCached
<1> HIDE DEF Goal
<1>5. CASE BeginScope \/ EndScope \/ Probe \/ Invalidate
  BY <1>1, <1>2, <1>3, <1>4, <1>5 DEF BeginScope, EndScope, Probe, Invalidate
<1>6. CASE \E p \in Pane, w \in Window : NewPane(p, w) \/ NewStash(p, w) \/ Placeholder(p, w)
                                          \/ Launch(p, w)
  BY <1>1, <1>2, <1>3, <1>6 DEF NewPane, NewStash, Placeholder, Launch
<1>7. CASE \E p, q \in Pane : JoinPane(p, q) \/ SwapPane(p, q)
  BY <1>3, <1>7 DEF JoinPane, SwapPane
<1>8. CASE \E s \in Sessions : KillSession(s) \/ AutoStart(s)
  BY <1>1, <1>3, <1>8 DEF KillSession, AutoStart
<1>9. CASE \E p \in Pane : KillPane(p) \/ BreakPane(p)
  BY <1>2, <1>9 DEF KillPane, BreakPane
<1>10. CASE Guard \/ Ask \/ BreakAsk \/ PlaceholderFails \/ BreakJoin \/ LaunchFails
  BY <1>1, <1>2, <1>4, <1>10 DEF Guard, Ask, BreakAsk, PlaceholderFails, BreakJoin, LaunchFails
<1>11. CASE Kill
  BY <1>1, <1>3, <1>11 DEF Kill
<1>12. CASE Others \/ UNCHANGED vars
  BY <1>1, <1>12 DEF Others, OthersCreate, OthersChange, OthersPut, vars
<1> QED
  BY <1>5, <1>6, <1>7, <1>8, <1>9, <1>10, <1>11, <1>12 DEF Next, Step

\* SnapshotInv is an invariant.
LEMMA InvariantHolds == Spec => []SnapshotInv
<1>1. Init => SnapshotInv
  BY SnapshotAssumption DEF Init, SnapshotInv, TypeOK, KnownIsTrue, DroppedFirst, ListingFollows,
     SeenIsCached, Idle, Jobs, Steps, Answers
<1>2. SnapshotInv /\ [Next]_vars => SnapshotInv'
  BY TypeInductive, KnownInductive, DroppedInductive, ListingInductive, SeenChanges DEF SnapshotInv
<1> QED
  BY <1>1, <1>2, PTL DEF Spec

\* The types, and that nothing is cached outside a scope.
THEOREM TypeCorrect == Spec => []TypeOK
<1>1. SnapshotInv => TypeOK
  BY DEF SnapshotInv
<1> QED
  BY <1>1, InvariantHolds, PTL

\* What a probe answers is never older than the thread's own last change.
THEOREM FollowsOwn == Spec => []FollowsOwnChanges
<1>1. SnapshotInv => FollowsOwnChanges
  BY DEF SnapshotInv, ListingFollows, FollowsOwnChanges, At
<1> QED
  BY <1>1, InvariantHolds, PTL

\* From its first answer to the last, however scopes are nested inside and whatever
\* others change, a scope answers from one listing, unless the thread drops it.
THEOREM ScopeShowsOneView == Spec => OneView
<1>1. SnapshotInv /\ SnapshotInv' /\ [Next]_vars =>
        [IF seen = NoListing THEN seen' \in {NoListing, Listing}
         ELSE seen' \in {seen, NoListing}]_vars
  <2> SUFFICES ASSUME SnapshotInv, [Next]_vars,
                      seen' = seen \/ seen' = NoListing \/ (Sample /\ seen' = cached')
               PROVE  IF seen = NoListing THEN seen' \in {NoListing, Listing}
                      ELSE seen' \in {seen, NoListing}
    BY SeenChanges DEF SnapshotInv
  <2> QED
    BY SampleCases DEF SnapshotInv, SeenIsCached
<1> QED
  BY <1>1, InvariantHolds, PTL DEF Spec, OneView

-----------------------------------------------------------------------------
(* The policy.                                                             *)

Moves == [step : {"source", "target", "move"}, src : Pane, dst : Pane, allow : BOOLEAN,
          session : Answers, erred : SUBSET Pane]

\* The thread does nothing else in a move.
MoveOK == move = NoMove \/ (move \in Moves /\ At("idle"))

\* The listing is right about every pane that has not changed behind it.
ListingIsTrue ==
  cached # NoListing /\ ~At("join") =>
    \A p \in Pane \ (drifted \union untold) : cached[p] = Listed(p)

\* Nothing is behind a listing that is not there.
NothingUntold == cached = NoListing => untold = {}

\* So is the answer about the source.
SourceIsTrue ==
  move.step = "target" /\ move.src \notin drifted \union untold => move.session = Listed(move.src)

\* What the check has let through, all queries answered: panes of one session, or
\* one that is gone.
Checked ==
  move.step = "move" /\ ~move.allow /\ Accurate =>
    \/ Listed(move.src) = Listed(move.dst)
    \/ Absent \in {Listed(move.src), Listed(move.dst)}

PolicyInv ==
  /\ TypeOK /\ DroppedFirst /\ NothingUntold
  /\ MoveOK /\ ListingIsTrue /\ SourceIsTrue /\ Checked

-----------------------------------------------------------------------------

\* A pane has no session exactly if it is gone.
LEMMA ListedGone == ASSUME TypeOK, NEW p \in Pane
                    PROVE  Listed(p) = Absent <=> place[p] = Gone
BY SnapshotAssumption DEF TypeOK, Listed, Sessions

\* No move is under way at first.
LEMMA NoMoveStep == NoMove.step = "none"
BY DEF NoMove

\* Every step of the policy is a step of the snapshot, or none.
LEMMA StepIsStep == MoveOK /\ [PolicyNext]_policyVars => [Next]_vars
<1> SUFFICES ASSUME MoveOK, [PolicyNext]_policyVars PROVE [Next]_vars
  OBVIOUS
<1>1. CASE Otherwise \/ Interference \/ UNCHANGED policyVars
  BY <1>1 DEF Otherwise, Interference, Next, policyVars
<1>2. CASE \E p, q \in Pane, allow \in BOOLEAN : MoveOp(p, q, allow)
  BY <1>2 DEF MoveOp
<1>3. CASE AskSource \/ AskTarget
  <2>1. At("idle")
    BY <1>3, NoMoveStep DEF AskSource, AskTarget, MoveOK
  <2>2. Probe
    BY <1>3, <2>1 DEF AskSource, AskTarget, Probe
  <2> QED
    BY <2>2 DEF Next, Step
<1>4. CASE DoMove
  <2>1. move.src \in Pane /\ move.dst \in Pane
    BY <1>4, NoMoveStep DEF DoMove, MoveOK, Moves
  <2> QED
    BY <1>4, <2>1 DEF DoMove, Next, Step
<1> QED
  BY <1>1, <1>2, <1>3, <1>4 DEF PolicyNext

\* What an answer about a pane is worth.
LEMMA SessionIsTrue ==
  ASSUME TypeOK, ListingIsTrue', ~At("join")', Sample, UNCHANGED place,
         NEW p \in Pane, NEW s \in PaneSession(cached', p)
  PROVE  /\ s \in Answers
         /\ s = Absent => Listed(p) = Absent \/ Erred(s, p) = {p}
         /\ s # Absent /\ p \notin (drifted \union untold)' => s = Listed(p)
<1>1. Listing \in Listings /\ Listed(p) \in Answers
  BY ListingType DEF Listing, Listings
<1>2. cached' \in Listings \union {NoListing}
  BY <1>1, SampleCases DEF TypeOK
<1>3. Absent \in Answers
  BY DEF Answers
<1>4. Listed(p)' = Listed(p)
  BY DEF Listed
<1>5. CASE Answered(cached', p)
  BY <1>2, <1>4, <1>5 DEF PaneSession, Answered, ListingIsTrue, Listings
<1>6. CASE ~Answered(cached', p)
  BY <1>1, <1>3, <1>6 DEF PaneSession, Erred
<1> QED
  BY <1>5, <1>6

\* The listing stays right about the panes that nobody changes.
LEMMA ListingStaysTrue ==
  TypeOK /\ DroppedFirst /\ MoveOK /\ ListingIsTrue /\ [PolicyNext]_policyVars => ListingIsTrue'
<1> SUFFICES ASSUME TypeOK, DroppedFirst, MoveOK, ListingIsTrue, [PolicyNext]_policyVars
             PROVE  ListingIsTrue'
  OBVIOUS
<1> USE SnapshotAssumption
<1>1. ASSUME cached' = NoListing PROVE ListingIsTrue'
  BY <1>1 DEF ListingIsTrue
<1>2. ASSUME UNCHANGED place, cached' = Listing PROVE ListingIsTrue'
  BY <1>2 DEF ListingIsTrue, Listing, Listed
<1>3. ASSUME cached' = cached, cached # NoListing, ~At("join"), NEW P \in SUBSET Pane,
             drifted' \union untold' = drifted \union untold \union P,
             \A p \in Pane \ P : place'[p] = place[p]
      PROVE  ListingIsTrue'
  BY <1>3 DEF ListingIsTrue, Listed
<1>4. CASE UNCHANGED policyVars
  BY <1>4 DEF policyVars, vars, serverVars, ListingIsTrue, Listed, At
<1>5. ASSUME NEW P, Drifts(P), cached' = cached, cached # NoListing PROVE drifted' = drifted \union P
  BY <1>5 DEF Drifts
<1>6. ASSUME UNCHANGED place, Sample, Drifts({}), ~At("join") PROVE ListingIsTrue'
  <2>1. CASE cached' = cached /\ cached # NoListing
    BY <1>3, <1>5, <1>6, <2>1, SampleCases DEF Cache
  <2> QED
    BY <1>1, <1>2, <1>6, <2>1, SampleCases
<1>7. ASSUME NEW P \in SUBSET Pane, Cache(cached, P), Drifts({}), ~At("join"),
             \A p \in Pane \ P : place'[p] = place[p]
      PROVE  ListingIsTrue'
  <2>1. CASE cached # NoListing
    BY <1>3, <1>5, <1>7, <2>1 DEF Cache
  <2> QED
    BY <1>1, <1>7, <2>1 DEF Cache
<1>8. ASSUME UNCHANGED <<place, cached, untold>>, Drifts({}), ~At("join") PROVE ListingIsTrue'
  <2>1. CASE cached # NoListing
    BY <1>3, <1>5, <1>8, <2>1
  <2> QED
    BY <1>1, <1>8, <2>1
<1>9. CASE Interference
  <2> DEFINE P == {p \in Pane : place'[p] # place[p]}
  <2>1. Drifts(P) /\ UNCHANGED <<cached, untold, job>>
    BY <1>9 DEF Interference, Others, OthersCreate, OthersChange, OthersPut
  <2>2. CASE cached = NoListing
    BY <1>1, <2>1, <2>2
  <2>3. CASE cached # NoListing /\ At("join")
    BY <2>1, <2>3 DEF ListingIsTrue, At
  <2>4. CASE cached # NoListing /\ ~At("join")
    BY <1>3, <1>5, <2>1, <2>4
  <2> QED
    BY <2>2, <2>3, <2>4
<1>10. ASSUME NEW p \in Pane, NEW q \in Pane, NEW allow \in BOOLEAN, MoveOp(p, q, allow)
       PROVE  ListingIsTrue'
  BY <1>8, <1>10 DEF MoveOp, vars, serverVars, At
<1>11. CASE AskSource \/ AskTarget
  <2>1. At("idle")
    BY <1>11, NoMoveStep DEF AskSource, AskTarget, MoveOK
  <2> QED
    BY <1>6, <1>11, <2>1 DEF AskSource, AskTarget, serverVars, At
<1>12. ASSUME NEW p \in Pane, NEW q \in Pane, JoinPane(p, q), Drifts({}) PROVE ListingIsTrue'
  BY <1>7, <1>12 DEF TypeOK, JoinPane, Put, At
<1>13. ASSUME NEW p \in Pane, NEW q \in Pane, SwapPane(p, q), Drifts({}) PROVE ListingIsTrue'
  <2>1. \A r \in Pane \ {p, q} : place'[r] = place[r]
    BY <1>13 DEF TypeOK, SwapPane
  <2> QED
    BY <1>7, <1>13, <2>1 DEF SwapPane, At
<1>14. CASE DoMove
  <2>1. move.src \in Pane /\ move.dst \in Pane /\ At("idle")
    BY <1>14, NoMoveStep DEF DoMove, MoveOK, Moves
  <2> QED
    BY <1>8, <1>12, <1>13, <1>14, <2>1 DEF DoMove, vars, serverVars, At
<1>15. ASSUME Step, Drifts({}) PROVE ListingIsTrue'
  <2>1. CASE BeginScope
    BY <1>8, <1>15, <2>1 DEF BeginScope, serverVars, At
  <2>2. CASE EndScope
    <3>1. UNCHANGED place /\ ~At("join")
      BY <2>2 DEF EndScope, serverVars, At
    <3> QED
      BY <1>1, <1>7, <1>15, <2>2, <3>1 DEF EndScope, Cache
  <2>3. CASE Probe \/ Ask \/ BreakAsk
    BY <1>6, <1>15, <2>3 DEF Probe, Ask, BreakAsk, serverVars, At
  <2>4. CASE Invalidate \/ BreakJoin \/ LaunchFails
    BY <1>1, <2>4 DEF Invalidate, BreakJoin, LaunchFails, Cache
  <2>5. ASSUME NEW p \in Pane, NEW w \in Window, NewPane(p, w) \/ Launch(p, w) PROVE ListingIsTrue'
    BY <1>1, <2>5 DEF NewPane, Launch, Cache
  <2>6. ASSUME NEW p \in Pane, NEW w \in Window, NewStash(p, w) PROVE ListingIsTrue'
    BY <1>7, <1>15, <2>6 DEF NewStash, Create, Put, At
  <2>7. ASSUME NEW p \in Pane, NEW w \in Window, Placeholder(p, w) PROVE ListingIsTrue'
    <3>1. job'.step = "join"
      BY <2>7 DEF TypeOK, Placeholder, Jobs
    <3> QED
      BY <3>1 DEF ListingIsTrue, At
  <2>8. ASSUME NEW p \in Pane, NEW q \in Pane, JoinPane(p, q) \/ SwapPane(p, q) PROVE ListingIsTrue'
    BY <1>12, <1>13, <1>15, <2>8
  <2>9. ASSUME NEW s \in Sessions, KillSession(s) PROVE ListingIsTrue'
    <3> DEFINE P == {p \in Pane : Listed(p) = s}
    <3>1. Put(P, Gone) /\ Cache(cached, P) /\ ~At("join")
      BY <2>9 DEF KillSession, At
    <3> QED
      BY <1>7, <1>15, <3>1 DEF Put
  <2>10. ASSUME NEW s \in Sessions, AutoStart(s) PROVE ListingIsTrue'
    BY <1>8, <1>15, <2>10 DEF AutoStart, serverVars, At
  <2>11. ASSUME NEW p \in Pane, KillPane(p) \/ BreakPane(p) PROVE ListingIsTrue'
    BY <1>1, <2>11 DEF KillPane, BreakPane, Cache
  <2>12. CASE Guard \/ PlaceholderFails
    BY <1>8, <1>15, <2>12 DEF Guard, PlaceholderFails, serverVars, At
  <2>13. CASE Kill
    <3>1. job.pane \in Pane /\ ~At("join")
      BY <2>13 DEF TypeOK, Kill, At, Jobs
    <3>2. CASE UNCHANGED <<place, known, cacheVars>>
      BY <1>8, <1>15, <3>1, <3>2
    <3>3. CASE At("kill") /\ ~UNCHANGED <<place, known, cacheVars>>
      BY <1>1, <2>13, <3>3 DEF Kill, Cache, DroppedFirst, At
    <3>4. CASE At("killAlone") /\ ~UNCHANGED <<place, known, cacheVars>>
      <4>1. Put({job.pane}, Gone) /\ Cache(cached, {job.pane})
        BY <2>13, <3>4 DEF Kill
      <4> QED
        BY <1>7, <1>15, <3>1, <4>1 DEF Put
    <3> QED
      BY <2>13, <3>2, <3>3, <3>4 DEF Kill
  <2> QED
    BY <1>15, <2>1, <2>2, <2>3, <2>4, <2>5, <2>6, <2>7, <2>8, <2>9, <2>10, <2>11, <2>12, <2>13 DEF Step
<1> QED
  BY <1>4, <1>9, <1>10, <1>11, <1>14, <1>15 DEF PolicyNext, Otherwise

\* A query leaves the panes and the thread's operation alone.
LEMMA QueryStep ==
  ASSUME MoveOK, AskSource \/ AskTarget
  PROVE  /\ move \in Moves /\ ~At("join")' /\ Sample /\ Drifts({})
         /\ UNCHANGED <<place, depth, job>>
         /\ \A p \in Pane : Listed(p)' = Listed(p)
<1>1. move \in Moves /\ At("idle")
  BY NoMoveStep DEF AskSource, AskTarget, MoveOK
<1>2. UNCHANGED <<place, depth, job>> /\ Sample /\ Drifts({})
  BY DEF AskSource, AskTarget, serverVars
<1> QED
  BY <1>1, <1>2 DEF At, Listed

\* A move in progress is one.
LEMMA MovesStayOK ==
  TypeOK /\ MoveOK /\ ListingIsTrue' /\ [PolicyNext]_policyVars => MoveOK'
<1> SUFFICES ASSUME TypeOK, MoveOK, ListingIsTrue', [PolicyNext]_policyVars
             PROVE  MoveOK'
  OBVIOUS
<1> USE SnapshotAssumption
<1>1. ASSUME move' = NoMove PROVE MoveOK'
  BY <1>1, NoMoveStep DEF MoveOK
<1>2. CASE Otherwise \/ DoMove
  BY <1>1, <1>2 DEF Otherwise, DoMove
<1>3. CASE Interference \/ UNCHANGED policyVars
  BY <1>3 DEF Interference, Others, OthersCreate, OthersChange, OthersPut, policyVars, vars,
     serverVars, MoveOK, At
<1>4. ASSUME NEW p \in Pane, NEW q \in Pane, NEW allow \in BOOLEAN, MoveOp(p, q, allow)
      PROVE  MoveOK'
  <2>1. move' \in Moves
    BY <1>4 DEF MoveOp, NoMove, Moves, Answers
  <2> QED
    BY <1>4, <2>1 DEF MoveOp, MoveOK, vars, serverVars, At
<1>5. ASSUME NEW s, NEW p \in Pane PROVE Erred(s, p) \in SUBSET Pane
  BY <1>5 DEF Erred
<1>6. CASE AskSource
  <2>1. PICK s \in PaneSession(cached', move.src) :
          move' = [move EXCEPT !.step = IF s = Absent THEN "move" ELSE "target",
                               !.session = s, !.erred = Erred(s, move.src)]
    BY <1>6 DEF AskSource
  <2>2. move \in Moves /\ s \in Answers
    BY <1>6, <2>1, QueryStep, SessionIsTrue DEF Moves
  <2>3. move' \in Moves
    BY <1>5, <2>1, <2>2 DEF Moves
  <2> QED
    BY <1>6, <2>3, QueryStep, NoMoveStep DEF AskSource, MoveOK, At
<1>7. CASE AskTarget
  <2>1. PICK s \in PaneSession(cached', move.dst) :
          move' = IF Refuses(move.session, s, move.allow) THEN NoMove
                  ELSE [move EXCEPT !.step = "move", !.erred = Erred(s, move.dst)]
    BY <1>7 DEF AskTarget
  <2>2. move' = NoMove \/ move' \in Moves
    BY <1>5, <1>7, <2>1, QueryStep DEF Moves
  <2> QED
    BY <1>1, <1>7, <2>2, QueryStep, NoMoveStep DEF AskTarget, MoveOK, At
<1> QED
  BY <1>2, <1>3, <1>4, <1>6, <1>7 DEF PolicyNext

\* The answers stay true of the panes that nobody has changed since.
LEMMA AnswersStayTrue ==
  PolicyInv /\ ListingIsTrue' /\ [PolicyNext]_policyVars => SourceIsTrue' /\ Checked'
<1> SUFFICES ASSUME PolicyInv, ListingIsTrue', [PolicyNext]_policyVars
             PROVE  SourceIsTrue' /\ Checked'
  OBVIOUS
<1> USE SnapshotAssumption DEF PolicyInv
<1>1. ASSUME move'.step \in {"none", "source"} PROVE SourceIsTrue' /\ Checked'
  BY <1>1 DEF SourceIsTrue, Checked
<1>2. CASE Otherwise \/ DoMove
  BY <1>1, <1>2, NoMoveStep DEF Otherwise, DoMove
<1>3. ASSUME NEW p \in Pane, NEW q \in Pane, NEW allow \in BOOLEAN, MoveOp(p, q, allow)
      PROVE  SourceIsTrue' /\ Checked'
  BY <1>1, <1>3 DEF MoveOp, NoMove
<1>4. CASE UNCHANGED policyVars
  BY <1>4 DEF policyVars, vars, serverVars, SourceIsTrue, Checked, Accurate, Listed
<1>5. CASE Interference /\ move \in Moves /\ move.step # "source"
  <2> DEFINE P == {p \in Pane : place'[p] # place[p]}
  <2>1. Drifts(P) /\ UNCHANGED <<cached, untold, move>>
    BY <1>5 DEF Interference, Others, OthersCreate, OthersChange, OthersPut
  <2>2. drifted' = drifted \union P
    BY <1>5, <2>1 DEF Drifts, Moves
  <2>3. \A p \in Pane \ drifted' : Listed(p)' = Listed(p)
    BY <2>2 DEF Listed
  <2>4. move.src \in Pane /\ move.dst \in Pane
    BY <1>5 DEF Moves
  <2>5. SourceIsTrue'
    BY <2>1, <2>2, <2>3, <2>4 DEF SourceIsTrue
  <2>6. Accurate' => /\ Accurate
                     /\ Listed(move.src)' = Listed(move.src)
                     /\ Listed(move.dst)' = Listed(move.dst)
    BY <2>1, <2>2, <2>3, <2>4 DEF Accurate
  <2>7. Checked'
    BY <2>1, <2>6 DEF Checked
  <2> QED
    BY <2>5, <2>7
<1>6. CASE Interference /\ ~(move \in Moves /\ move.step # "source")
  BY <1>1, <1>6, NoMoveStep DEF Interference, MoveOK
<1>7. CASE AskSource
  <2>1. PICK s \in PaneSession(cached', move.src) :
          move' = [move EXCEPT !.step = IF s = Absent THEN "move" ELSE "target",
                               !.session = s, !.erred = Erred(s, move.src)]
    BY <1>7 DEF AskSource
  <2>2. /\ move'.src = move.src /\ move'.session = s /\ move'.erred = Erred(s, move.src)
        /\ move'.step = IF s = Absent THEN "move" ELSE "target"
    BY <1>7, <2>1, QueryStep DEF Moves
  <2>3. /\ s = Absent => Listed(move.src) = Absent \/ Erred(s, move.src) = {move.src}
        /\ s # Absent /\ move.src \notin (drifted \union untold)' => s = Listed(move.src)
    BY <1>7, <2>1, QueryStep, SessionIsTrue DEF Moves
  <2>4. Listed(move.src)' = Listed(move.src)
    BY <1>7, <2>2, QueryStep DEF Moves
  <2>5. SourceIsTrue'
    BY <2>2, <2>3, <2>4 DEF SourceIsTrue
  <2>6. Checked'
    BY <2>2, <2>3, <2>4 DEF Checked, Accurate
  <2> QED
    BY <2>5, <2>6
<1>8. CASE AskTarget
  <2>1. PICK s \in PaneSession(cached', move.dst) :
          move' = IF Refuses(move.session, s, move.allow) THEN NoMove
                  ELSE [move EXCEPT !.step = "move", !.erred = Erred(s, move.dst)]
    BY <1>8 DEF AskTarget
  <2>2. CASE Refuses(move.session, s, move.allow)
    BY <1>1, <2>1, <2>2, NoMoveStep
  <2>3. CASE ~Refuses(move.session, s, move.allow)
    <3>1. /\ move'.src = move.src /\ move'.dst = move.dst /\ move'.allow = move.allow
          /\ move'.step = "move" /\ move'.erred = Erred(s, move.dst)
      BY <1>8, <2>1, <2>3, QueryStep DEF Moves
    <3>2. /\ s = Absent => Listed(move.dst) = Absent \/ Erred(s, move.dst) = {move.dst}
          /\ s # Absent /\ move.dst \notin (drifted \union untold)' => s = Listed(move.dst)
      BY <1>8, <2>1, QueryStep, SessionIsTrue DEF Moves
    <3>3. Listed(move.src)' = Listed(move.src) /\ Listed(move.dst)' = Listed(move.dst)
      BY <1>8, <3>1, QueryStep DEF Moves
    <3>4. drifted' = drifted
      BY <1>8, <3>1, QueryStep DEF AskTarget, Drifts
    <3>5. untold' = untold
      <4>1. Cache(cached', {}) /\ (cached' = NoListing => cached = NoListing)
        BY <1>8, QueryStep, SampleCases, ListingType DEF TypeOK
      <4> QED
        BY <4>1 DEF Cache, NothingUntold
    <3>6. ASSUME Accurate' PROVE move.session = Listed(move.src)
      BY <1>8, <3>1, <3>4, <3>5, <3>6 DEF AskTarget, Accurate, SourceIsTrue
    <3>7. Checked'
      BY <2>3, <3>1, <3>2, <3>3, <3>6 DEF Checked, Accurate, Refuses
    <3> QED
      BY <3>1, <3>7 DEF SourceIsTrue
  <2> QED
    BY <2>2, <2>3
<1> QED
  BY <1>2, <1>3, <1>4, <1>5, <1>6, <1>7, <1>8 DEF PolicyNext

\* What is left of a listing without one.
LEMMA NothingStaysUntold == NothingUntold /\ [Next]_vars => NothingUntold'
<1> SUFFICES ASSUME NothingUntold, [Next]_vars PROVE NothingUntold'
  OBVIOUS
<1>1. ASSUME UNCHANGED <<cached, untold>> PROVE NothingUntold'
  BY <1>1 DEF NothingUntold
<1>2. ASSUME NEW c, NEW P, Cache(c, P) PROVE NothingUntold'
  BY <1>2 DEF NothingUntold, Cache
<1>3. CASE Others \/ UNCHANGED vars
  BY <1>1, <1>3 DEF Others, OthersCreate, OthersChange, OthersPut, vars
<1>4. CASE BeginScope \/ Guard \/ PlaceholderFails \/ Kill
  BY <1>1, <1>2, <1>4 DEF BeginScope, Guard, PlaceholderFails, Kill
<1>5. CASE EndScope \/ Probe \/ Invalidate \/ Ask \/ BreakAsk \/ BreakJoin \/ LaunchFails
  BY <1>2, <1>5, SampleCases DEF EndScope, Probe, Invalidate, Ask, BreakAsk, BreakJoin, LaunchFails
<1>6. CASE \E p \in Pane, w \in Window : NewPane(p, w) \/ NewStash(p, w) \/ Placeholder(p, w)
                                        \/ Launch(p, w)
  BY <1>1, <1>2, <1>6 DEF NewPane, NewStash, Placeholder, Launch
<1>7. CASE \E p, q \in Pane : JoinPane(p, q) \/ SwapPane(p, q)
  BY <1>2, <1>7 DEF JoinPane, SwapPane
<1>8. CASE \E s \in Sessions : KillSession(s) \/ AutoStart(s)
  BY <1>1, <1>2, <1>8 DEF KillSession, AutoStart
<1>9. CASE \E p \in Pane : KillPane(p) \/ BreakPane(p)
  BY <1>2, <1>9 DEF KillPane, BreakPane
<1> QED
  BY <1>3, <1>4, <1>5, <1>6, <1>7, <1>8, <1>9 DEF Next, Step

-----------------------------------------------------------------------------

\* PolicyInv is an invariant.
LEMMA PolicyInvariantHolds == PolicySpec => []PolicyInv
<1>1. PolicyInit => PolicyInv
  <2> SUFFICES ASSUME PolicyInit PROVE PolicyInv
    OBVIOUS
  <2>1. TypeOK /\ DroppedFirst
    BY SnapshotAssumption DEF PolicyInit, Init, TypeOK, DroppedFirst, Idle, Jobs, Steps, Answers
  <2> QED
    BY <2>1, NoMoveStep DEF PolicyInit, Init, PolicyInv, NothingUntold, MoveOK,
       ListingIsTrue, SourceIsTrue, Checked
<1>2. PolicyInv /\ [PolicyNext]_policyVars => PolicyInv'
  <2> SUFFICES ASSUME PolicyInv, [PolicyNext]_policyVars PROVE PolicyInv'
    OBVIOUS
  <2>1. [Next]_vars
    BY StepIsStep DEF PolicyInv
  <2>2. ListingIsTrue'
    BY ListingStaysTrue DEF PolicyInv
  <2> QED
    BY <2>1, <2>2, TypeInductive, DroppedInductive, NothingStaysUntold, MovesStayOK, AnswersStayTrue
       DEF PolicyInv
<1> QED
  BY <1>1, <1>2, PTL DEF PolicySpec

\* The policy adds no operation to those of the snapshot.
THEOREM PolicyIsSnapshot == PolicySpec => Spec
<1>1. PolicyInit => Init
  BY DEF PolicyInit
<1>2. PolicyInv /\ [PolicyNext]_policyVars => [Next]_vars
  BY StepIsStep DEF PolicyInv
<1> QED
  BY <1>1, <1>2, PolicyInvariantHolds, PTL DEF PolicySpec, Spec

\* Moves included, what a probe answers is never older than the thread's own
\* last change of the pane.
THEOREM FollowsOwnMoves == PolicySpec => []FollowsOwnChanges
BY PolicyIsSnapshot, FollowsOwn, PTL

\* A move without permission takes a pane into another session only if a query of
\* a pane that is there failed, or one of the two panes has changed behind the
\* answers.
THEOREM DeniedMovesStayHome == PolicySpec => DeniedStaysHome
<1>1. PolicyInv /\ [PolicyNext]_policyVars =>
        [move.step = "move" /\ move' = NoMove /\ ~move.allow /\ Accurate =>
           \A p \in Pane : Listed(p)' = Listed(p)]_policyVars
  <2> SUFFICES ASSUME PolicyInv, [PolicyNext]_policyVars,
                      move.step = "move", move' = NoMove, ~move.allow, Accurate,
                      NEW p \in Pane
               PROVE  Listed(p)' = Listed(p)
    OBVIOUS
  <2>1. DoMove
    BY NoMoveStep DEF PolicyNext, Otherwise, Interference, MoveOp, AskSource, AskTarget, policyVars
  <2>2. move.src \in Pane /\ move.dst \in Pane
    BY NoMoveStep DEF PolicyInv, MoveOK, Moves
  <2>3. /\ Listed(move.src) = Absent <=> place[move.src] = Gone
        /\ Listed(move.dst) = Absent <=> place[move.dst] = Gone
    BY <2>2, ListedGone DEF PolicyInv
  <2>4. \/ Listed(move.src) = Listed(move.dst)
        \/ Absent \in {Listed(move.src), Listed(move.dst)}
    BY DEF PolicyInv, Checked
  <2>5. CASE JoinPane(move.src, move.dst)
    BY <2>2, <2>3, <2>4, <2>5 DEF PolicyInv, TypeOK, JoinPane, Put, Listed
  <2>6. CASE SwapPane(move.src, move.dst)
    BY <2>2, <2>3, <2>4, <2>6 DEF PolicyInv, TypeOK, SwapPane, Listed
  <2>7. CASE UNCHANGED vars
    BY <2>7 DEF vars, serverVars, Listed
  <2> QED
    BY <2>1, <2>5, <2>6, <2>7 DEF DoMove
<1> QED
  BY <1>1, PolicyInvariantHolds, PTL DEF PolicySpec, DeniedStaysHome
=============================================================================
