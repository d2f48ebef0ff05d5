-------------------------- MODULE PageRouter_proofs --------------------------
(***************************************************************************)
(* Theorems about PageRouter, for any pages, dwells, commands and          *)
(* snapshots: every component keeps its range, an override ends without a  *)
(* trace, and rotation stands still where it should.                       *)
(*                                                                         *)
(* The argument: whatever holds rotation back also sets paused, except a   *)
(* rotation command that comes while a critical page is shown; and the     *)
(* dwell left is never more than the interval in force.                    *)
(***************************************************************************)
EXTENDS PageRouter, WellFoundedInduction, TLAPS

\* The interval an override has set.
IntervalOf(o) == CHOOSE n \in o.interval : TRUE

Types ==
  /\ index \in Positions /\ remaining \in Nat \ {0} /\ lag \in 0 .. MaxLag
  /\ paused \in BOOLEAN /\ critical \in BOOLEAN /\ turned \in BOOLEAN
  /\ remote \in [page : Pages, left : Nat] \cup {NoRemote}
  /\ override \in [enabled : BOOLEAN, interval : Intervals, left : Nat] \cup {NoOverride}

\* What holds rotation back sets paused.
HeldBack ==
  /\ (critical \/ remote # NoRemote) /\ ~ turned => paused
  /\ ~ override.enabled => paused

\* The dwell left is within the interval in force.
WithinInterval ==
  /\ override = NoOverride => remaining <= Dwell[Page]
  /\ override.enabled /\ override.interval # {} => remaining <= IntervalOf(override)

RouterInv == Types /\ HeldBack /\ WithinInterval

SnapshotTypeOK == snapshot \in {NoSnapshot} \cup Snapshots

-----------------------------------------------------------------------------
(* The constants. *)

LEMMA PageTypes ==
  /\ Pages # {} /\ Positions = DOMAIN Order /\ Positions \subseteq Nat
  /\ \A i \in Positions : /\ Order[i] \in Pages
                          /\ Following(i) \in Positions /\ Preceding(i) \in Positions
                          /\ Dwell[Order[i]] \in Nat /\ Dwell[Order[i]] > MaxLag
  /\ \A page \in Pages : \E i \in Positions : Order[i] = page
<1>1. Order \in Seq(Pages) /\ Len(Order) \in Nat /\ Len(Order) > 0
  BY RouterAssumption
<1>2. DOMAIN Order = Positions
  BY <1>1 DEF Positions
<1>3. \A i \in Positions : Order[i] \in Pages
  BY <1>2 DEF Pages
<1>4. \A i \in Positions : Following(i) \in Positions /\ Preceding(i) \in Positions
  BY <1>1 DEF Positions, Following, Preceding
<1>5. \A page \in Pages : \E i \in Positions : Order[i] = page
  BY <1>2 DEF Pages
<1>6. \A page \in Pages : Dwell[page] \in Nat /\ Dwell[page] > MaxLag
  BY RouterAssumption
<1>7. Positions \subseteq Nat /\ 1 \in Positions
  BY <1>1 DEF Positions
<1> QED
  BY <1>2, <1>3, <1>4, <1>5, <1>6, <1>7

LEMMA IntervalType ==
  ASSUME NEW interval \in Intervals, interval # {}
  PROVE  /\ (CHOOSE n \in interval : TRUE) \in Nat
         /\ (CHOOSE n \in interval : TRUE) > MaxLag
<1>1. (CHOOSE n \in interval : TRUE) \in interval
  OBVIOUS
<1>2. interval \subseteq Nat /\ \A n \in interval : n > MaxLag
  BY RouterAssumption
<1> QED
  BY <1>1, <1>2

\* A page is held for longer than two draws are apart.
LEMMA DwellType ==
  ASSUME Types, NEW i \in Positions
  PROVE  /\ DwellOf(override, Order[i]) \in Nat /\ DwellOf(override, Order[i]) > MaxLag
         /\ override.enabled /\ override.interval # {}
              => DwellOf(override, Order[i]) = IntervalOf(override)
         /\ override = NoOverride => DwellOf(override, Order[i]) = Dwell[Order[i]]
<1>1. override.enabled /\ override.interval # {} => override.interval \in Intervals
  BY DEF Types, NoOverride
<1>2. override = NoOverride => override.interval = {}
  BY DEF NoOverride
<1> QED
  BY <1>1, <1>2, IntervalType, PageTypes DEF DwellOf, IntervalOf

-----------------------------------------------------------------------------
(* The clock. *)

LEMMA ClockFacts ==
  ASSUME RouterInv
  PROVE  /\ IndexNow \in Positions
         /\ RemainingNow \in Nat \ {0}
         /\ paused => IndexNow = index /\ RemainingNow = remaining
         /\ override = NoOverride => RemainingNow <= Dwell[Order[IndexNow]]
         /\ override.enabled /\ override.interval # {} => RemainingNow <= IntervalOf(override)
<1>1. /\ index \in Positions /\ remaining \in Nat /\ remaining > 0
      /\ lag \in Nat /\ lag <= MaxLag /\ MaxLag \in Nat
  BY RouterAssumption DEF RouterInv, Types
<1>2. IndexNow \in Positions
  BY <1>1, PageTypes DEF IndexNow
<1> DEFINE dwell == DwellOf(override, Order[IndexNow])
<1>3. /\ dwell \in Nat /\ dwell > MaxLag
      /\ override.enabled /\ override.interval # {} => dwell = IntervalOf(override)
      /\ override = NoOverride => dwell = Dwell[Order[IndexNow]]
  BY <1>2, DwellType DEF RouterInv
<1> HIDE DEF dwell
<1>4. CASE paused
  BY <1>1, <1>2, <1>4 DEF IndexNow, RemainingNow, TurnsPage, RouterInv, WithinInterval, Page
<1>5. CASE ~ paused /\ lag >= remaining
  <2>1. RemainingNow = dwell - (lag - remaining)
    BY <1>5 DEF RemainingNow, TurnsPage, dwell
  <2>2. RemainingNow \in Nat \ {0} /\ RemainingNow <= dwell
    BY <1>1, <1>3, <1>5, <2>1
  <2> QED
    BY <1>2, <1>3, <1>5, <2>2
<1>6. CASE ~ paused /\ ~ lag >= remaining
  <2>1. IndexNow = index /\ RemainingNow = remaining - lag
    BY <1>6 DEF IndexNow, RemainingNow, TurnsPage
  <2>2. RemainingNow \in Nat \ {0} /\ RemainingNow <= remaining
    BY <1>1, <1>6, <2>1
  <2>3. override = NoOverride => Dwell[Order[index]] \in Nat /\ remaining <= Dwell[Order[index]]
    BY <1>1, PageTypes DEF RouterInv, WithinInterval, Page
  <2>4. override.enabled /\ override.interval # {} =>
          IntervalOf(override) \in Nat /\ remaining <= IntervalOf(override)
    BY <1>3 DEF RouterInv, WithinInterval
  <2> QED
    BY <1>1, <1>2, <1>6, <2>1, <2>2, <2>3, <2>4
<1> QED
  BY <1>4, <1>5, <1>6

\* What a draw leaves of the dwell.
LEMMA CappedFacts ==
  ASSUME RouterInv
  PROVE  /\ CappedRemaining \in Nat \ {0}
         /\ override.left # 0 => CappedRemaining = RemainingNow
         /\ override.left = 0 \/ override = NoOverride
              => CappedRemaining <= Dwell[Order[IndexNow]]
<1>1. /\ IndexNow \in Positions /\ RemainingNow \in Nat \ {0}
      /\ override = NoOverride => RemainingNow <= Dwell[Order[IndexNow]]
  BY ClockFacts
<1>2. /\ Dwell[Order[IndexNow]] \in Nat /\ Dwell[Order[IndexNow]] > 0
  BY <1>1, PageTypes, RouterAssumption
<1> QED
  BY <1>1, <1>2 DEF CappedRemaining

LEMMA EndsAreTypes ==
  ASSUME RouterInv
  PROVE  /\ RemoteNow \in [page : Pages, left : Nat] \cup {NoRemote}
         /\ OverrideNow \in [enabled : BOOLEAN, interval : Intervals, left : Nat] \cup {NoOverride}
         /\ override.left = 0 => OverrideNow = NoOverride /\ override # NoOverride
         /\ override.left # 0 => OverrideNow = override
         /\ NoOverride.enabled = TRUE /\ NoOverride.interval = {} /\ NoOverride.left = -1
BY DEF RouterInv, Types, RemoteNow, OverrideNow, NoOverride

-----------------------------------------------------------------------------
(* Each step keeps the invariant. *)

LEMMA UpdateKeeps ==
  ASSUME RouterInv, NEW pages, Update(pages), turned' = FALSE
  PROVE  RouterInv'
<1>1. Types'
  <2>1. lag' \in 0 .. MaxLag
    BY RouterAssumption DEF Update
  <2>2. index' \in Positions /\ remaining' \in Nat \ {0}
    BY ClockFacts, CappedFacts DEF Update
  <2>3. paused' \in BOOLEAN /\ critical' \in BOOLEAN /\ turned' \in BOOLEAN
    BY DEF Update
  <2> QED
    BY <2>1, <2>2, <2>3, EndsAreTypes DEF Update, Types
<1>2. HeldBack'
  <2>1. (critical' \/ remote' # NoRemote) => paused'
    BY DEF Update
  <2>2. ~ override'.enabled => paused'
    BY DEF Update
  <2> QED
    BY <2>1, <2>2 DEF HeldBack
<1>3. WithinInterval'
  <2>1. CASE override.left = 0
    <3>1. override' = NoOverride /\ remaining' <= Dwell[Order[index']]
      BY <2>1, CappedFacts, EndsAreTypes DEF Update
    <3> QED
      BY <3>1, EndsAreTypes DEF WithinInterval, Page
  <2>2. CASE override.left # 0
    <3>1. override' = override /\ remaining' = RemainingNow /\ index' = IndexNow
      BY <2>2, CappedFacts, EndsAreTypes DEF Update
    <3> QED
      BY <3>1, ClockFacts DEF WithinInterval, Page, IntervalOf
  <2> QED
    BY <2>1, <2>2
<1> QED
  BY <1>1, <1>2, <1>3 DEF RouterInv

LEMMA ShowRemoteKeeps ==
  ASSUME RouterInv, NEW page \in Pages, NEW duration \in Durations, ShowRemote(page, duration)
  PROVE  RouterInv'
<1>1. duration \in Nat /\ 0 \in 0 .. MaxLag
  BY RouterAssumption
<1>2. Types'
  BY <1>1, ClockFacts DEF ShowRemote, RouterInv, Types
<1>3. HeldBack'
  BY DEF ShowRemote, HeldBack
<1>4. WithinInterval'
  BY ClockFacts DEF ShowRemote, WithinInterval, Page, IntervalOf
<1> QED
  BY <1>2, <1>3, <1>4 DEF RouterInv

LEMMA SetRotationKeeps ==
  ASSUME RouterInv, NEW enabled \in BOOLEAN, NEW interval \in Intervals,
         NEW duration \in Durations, SetRotation(enabled, interval, duration)
  PROVE  RouterInv'
<1>1. duration \in Nat /\ duration > 0 /\ 0 \in 0 .. MaxLag /\ MaxLag \in Nat
  BY RouterAssumption
<1>2. /\ override' = [enabled |-> enabled, interval |-> interval, left |-> duration]
      /\ override'.enabled = enabled /\ override'.interval = interval
      /\ override'.left = duration
  BY DEF SetRotation
<1>3. override' # NoOverride
  BY <1>1, <1>2 DEF NoOverride
<1>4. interval # {} => IntervalOf(override') \in Nat /\ IntervalOf(override') > MaxLag
  BY <1>2, IntervalType DEF IntervalOf
<1>5. /\ remaining' \in Nat \ {0}
      /\ enabled /\ interval # {} => remaining' = IntervalOf(override')
  <2>1. enabled /\ interval # {} => remaining' = IntervalOf(override')
    BY <1>2 DEF SetRotation, IntervalOf
  <2>2. ~ (enabled /\ interval # {}) => remaining' = RemainingNow
    BY DEF SetRotation
  <2>3. RemainingNow \in Nat \ {0}
    BY ClockFacts
  <2> QED
    BY <1>1, <1>4, <2>1, <2>2, <2>3
<1>6. Types'
  <2>1. index' \in Positions /\ lag' \in 0 .. MaxLag
    BY <1>1, ClockFacts DEF SetRotation
  <2>2. override' \in [enabled : BOOLEAN, interval : Intervals, left : Nat]
    BY <1>1, <1>2
  <2>3. /\ paused' \in BOOLEAN /\ turned' \in BOOLEAN /\ critical' \in BOOLEAN
        /\ remote' \in [page : Pages, left : Nat] \cup {NoRemote}
    BY DEF SetRotation, RouterInv, Types
  <2> QED
    BY <1>5, <2>1, <2>2, <2>3 DEF Types
<1>7. HeldBack'
  BY <1>2 DEF SetRotation, HeldBack
<1>8. WithinInterval'
  <2>1. (override.enabled /\ override.interval # {})' => remaining' <= IntervalOf(override')
    BY <1>2, <1>4, <1>5
  <2> QED
    BY <1>3, <2>1 DEF WithinInterval, IntervalOf
<1> QED
  BY <1>6, <1>7, <1>8 DEF RouterInv

LEMMA TickKeeps ==
  ASSUME RouterInv, Tick
  PROVE  RouterInv' /\ (override' = NoOverride <=> override = NoOverride)
<1>1. /\ lag' \in 0 .. MaxLag
      /\ UNCHANGED <<index, remaining, paused, critical, turned>>
  BY RouterAssumption DEF Tick, RouterInv, Types
<1>2. /\ remote' \in [page : Pages, left : Nat] \cup {NoRemote}
      /\ remote = NoRemote => remote' = NoRemote
  <2>1. CASE remote = NoRemote
    BY <2>1 DEF Tick, Less, NoRemote
  <2>2. CASE remote \in [page : Pages, left : Nat]
    <3>1. remote.left \in Nat
      BY <2>2
    <3>2. Less(remote.left) \in Nat
      BY <3>1 DEF Less
    <3>3. remote' \in [page : Pages, left : Nat]
      BY <2>2, <3>2 DEF Tick
    <3>4. remote = NoRemote => remote' = NoRemote
      BY DEF Tick, Less, NoRemote
    <3> QED
      BY <3>3, <3>4
  <2> QED
    BY <2>1, <2>2 DEF RouterInv, Types
<1>3. /\ override' \in [enabled : BOOLEAN, interval : Intervals, left : Nat] \cup {NoOverride}
      /\ override'.enabled = override.enabled /\ override'.interval = override.interval
      /\ override' = NoOverride <=> override = NoOverride
  <2>1. CASE override = NoOverride
    BY <2>1 DEF Tick, Less, NoOverride
  <2>2. CASE override \in [enabled : BOOLEAN, interval : Intervals, left : Nat]
    <3>1. override.left \in Nat
      BY <2>2
    <3>2. Less(override.left) \in Nat
      BY <3>1 DEF Less
    <3>3. /\ override' \in [enabled : BOOLEAN, interval : Intervals, left : Nat]
          /\ override'.enabled = override.enabled /\ override'.interval = override.interval
      BY <2>2, <3>2 DEF Tick
    <3>4. override'.left \in Nat
      BY <3>3
    <3>5. override # NoOverride /\ override' # NoOverride
      BY <3>1, <3>4 DEF NoOverride
    <3> QED
      BY <3>3, <3>5
  <2> QED
    BY <2>1, <2>2 DEF RouterInv, Types
<1>4. Types'
  BY <1>1, <1>2, <1>3 DEF RouterInv, Types
<1>5. HeldBack'
  BY <1>1, <1>2, <1>3 DEF RouterInv, HeldBack
<1>6. WithinInterval'
  BY <1>1, <1>3 DEF RouterInv, WithinInterval, Page, IntervalOf
<1> QED
  BY <1>3, <1>4, <1>5, <1>6 DEF RouterInv

LEMMA RouterIdle ==
  ASSUME RouterInv, UNCHANGED <<router, turned>>
  PROVE  RouterInv'
BY DEF RouterInv, Types, HeldBack, WithinInterval, Page, IntervalOf, router

\* Wherever the step command starts from, it goes to a configured page.
LEMMA StepBaseType ==
  ASSUME RouterInv
  PROVE  StepBase \in Positions
<1>1. CASE remote = NoRemote
  BY <1>1, ClockFacts DEF StepBase
<1>2. CASE remote # NoRemote
  <2>1. remote.page \in Pages
    BY <1>2 DEF RouterInv, Types
  <2>2. \E i \in Positions : Order[i] = remote.page
    BY <2>1, PageTypes
  <2> QED
    BY <1>2, <2>2 DEF StepBase
<1> QED
  BY <1>1, <1>2

\* The commands that show a page show one for some time.
LEMMA ShowsRemote ==
  ASSUME RouterInv, ShowPage \/ NextPage \/ PreviousPage
  PROVE  \E page \in Pages, duration \in Durations : ShowRemote(page, duration)
<1>1. Order[Following(StepBase)] \in Pages /\ Order[Preceding(StepBase)] \in Pages
  BY StepBaseType, PageTypes
<1> QED
  BY <1>1 DEF ShowPage, NextPage, PreviousPage

LEMMA RouterStep ==
  ASSUME RouterInv, [RouterNext]_screenVars
  PROVE  RouterInv'
<1>1. CASE Draw
  BY <1>1, UpdateKeeps DEF Draw
<1>2. CASE Tick
  BY <1>2, TickKeeps
<1>3. CASE Receive
  BY <1>3, RouterIdle DEF Receive
<1>4. CASE ShowPage \/ NextPage \/ PreviousPage
  BY <1>4, ShowsRemote, ShowRemoteKeeps
<1>5. CASE SetAnyRotation
  BY <1>5, SetRotationKeeps DEF SetAnyRotation
<1>6. CASE UNCHANGED screenVars
  BY <1>6, RouterIdle DEF screenVars
<1> QED
  BY <1>1, <1>2, <1>3, <1>4, <1>5, <1>6 DEF RouterNext

LEMMA RouterStart ==
  ASSUME RouterInit
  PROVE  RouterInv
<1>1. PICK i \in Positions : Order[i] = FirstPage
  BY PageTypes, RouterAssumption
<1>2. index \in Positions /\ Order[index] = FirstPage
  BY <1>1 DEF RouterInit
<1>3. remaining \in Nat \ {0} /\ remaining = Dwell[Page] /\ lag \in 0 .. MaxLag
  BY <1>2, PageTypes, RouterAssumption DEF RouterInit, Page
<1>4. Types
  BY <1>2, <1>3 DEF RouterInit, Types
<1>5. HeldBack
  BY DEF RouterInit, HeldBack, NoOverride
<1>6. WithinInterval
  BY <1>3 DEF RouterInit, WithinInterval, NoOverride
<1> QED
  BY <1>4, <1>5, <1>6 DEF RouterInv

LEMMA RouterInvariant == RouterSpec => []RouterInv
<1>1. RouterInit => RouterInv
  BY RouterStart
<1>2. RouterInv /\ [RouterNext]_screenVars => RouterInv'
  BY RouterStep
<1> QED
  BY <1>1, <1>2, PTL DEF RouterSpec

-----------------------------------------------------------------------------
(* What is shown. *)

\* The first critical page in the order exists.
LEMMA FirstCriticalType ==
  ASSUME NEW pages \in SUBSET Pages, pages # {}
  PROVE  FirstCritical(pages) \in pages
<1> DEFINE at == {i \in Positions : Order[i] \in pages}
           less == OpToRel(<, Nat)
<1>1. at \subseteq Nat /\ at # {}
  BY PageTypes
<1>2. IsWellFoundedOn(less, Nat)
  BY NatLessThanWellFounded
<1>3. PICK i \in at : \A j \in at : <<j, i>> \notin less
  <2> HIDE DEF at, less
  <2> QED
    BY <1>1, <1>2, WFMin
<1>4. \A j \in at : ~ (j < i)
  BY <1>1, <1>3 DEF OpToRel
<1>5. \A j \in 1 .. i - 1 : Order[j] \notin pages
  BY <1>4, RouterAssumption DEF Positions
<1> QED
  BY <1>3, <1>5 DEF FirstCritical

LEMMA CriticalPagesType == CriticalPages \subseteq Pages
BY SnapshotAssumption DEF CriticalPages

LEMMA UpdateShows ==
  ASSUME RouterInv, NEW pages \in SUBSET Pages, Update(pages)
  PROVE  displayed' \in Pages
<1>1. Order[IndexNow] \in Pages
  BY ClockFacts, PageTypes
<1>2. RemoteNow # NoRemote => RemoteNow.page \in Pages
  BY EndsAreTypes
<1> QED
  BY <1>1, <1>2, FirstCriticalType DEF Update

LEMMA TickAges ==
  ASSUME SnapshotTypeOK, Tick
  PROVE  SnapshotTypeOK'
<1>1. CASE snapshot = NoSnapshot
  BY <1>1 DEF Tick, SnapshotTypeOK
<1>2. CASE snapshot # NoSnapshot
  <2>1. snapshot \in Snapshots
    BY <1>2 DEF SnapshotTypeOK
  <2>2. /\ [m \in Metrics |-> Older(snapshot.metrics[m])] \in [Metrics -> MetricReadings]
        /\ [e \in Entities |-> Older(snapshot.entities[e])] \in [Entities -> EntityReadings]
    BY <2>1, SnapshotAssumption DEF Snapshots
  <2> QED
    BY <1>2, <2>2 DEF Tick, SnapshotTypeOK, Snapshots
<1> QED
  BY <1>1, <1>2

LEMMA ShownStep ==
  ASSUME RouterInv, SnapshotTypeOK, displayed \in Pages, [RouterNext]_screenVars
  PROVE  SnapshotTypeOK' /\ displayed' \in Pages
<1>1. CASE Draw
  BY <1>1, CriticalPagesType, UpdateShows DEF Draw, SnapshotTypeOK
<1>2. CASE Tick
  BY <1>2, TickAges DEF Tick
<1>3. CASE Receive
  BY <1>3 DEF Receive, SnapshotTypeOK, router
<1>4. CASE ShowPage \/ NextPage \/ PreviousPage
  BY <1>4, ShowsRemote DEF ShowRemote, SnapshotTypeOK
<1>5. CASE SetAnyRotation
  BY <1>5 DEF SetAnyRotation, SetRotation, SnapshotTypeOK
<1>6. CASE UNCHANGED screenVars
  BY <1>6 DEF screenVars, router, SnapshotTypeOK
<1> QED
  BY <1>1, <1>2, <1>3, <1>4, <1>5, <1>6 DEF RouterNext

\* The display only ever shows a configured page, and no component of the router
\* leaves its range; in particular a dwell is never used up and still running
\* (pages.go Update, advanceLocked, firstCritical).
THEOREM RouterTypeCorrect == RouterSpec => []RouterTypeOK
<1> DEFINE Shown == SnapshotTypeOK /\ displayed \in Pages
<1>1. RouterInit => Shown
  BY RouterAssumption DEF RouterInit, SnapshotTypeOK
<1>2. RouterInv /\ Shown /\ [RouterNext]_screenVars => Shown'
  BY ShownStep
<1>3. RouterInv /\ Shown => RouterTypeOK
  BY DEF RouterInv, Types, SnapshotTypeOK, RouterTypeOK
<1> HIDE DEF Shown
<1> QED
  BY <1>1, <1>2, <1>3, RouterInvariant, PTL DEF RouterSpec

\* An override that has ended leaves the page in rotation no more than its own dwell,
\* whatever came before (pages.go expireOverrideLocked).
THEOREM OverridesLeaveNoTrace == RouterSpec => []OverridesEnd
<1>1. RouterInv => OverridesEnd
  BY DEF RouterInv, WithinInterval, OverridesEnd
<1> QED
  BY <1>1, RouterInvariant, PTL

-----------------------------------------------------------------------------
(* Where rotation stands still. *)

\* A rotation command may shorten the dwell only by changing the override.
LEMMA RotationShortens ==
  ASSUME RouterInv, paused, NEW enabled \in BOOLEAN, NEW interval \in Intervals,
         NEW duration \in Durations, SetRotation(enabled, interval, duration),
         override' = override
  PROVE  ~ (remaining' < remaining)
<1>1. override.enabled = enabled /\ override.interval = interval
  BY DEF SetRotation
<1>2. remaining \in Nat
  BY DEF RouterInv, Types
<1>3. CASE enabled /\ interval # {}
  <2>1. remaining' = IntervalOf(override)
    BY <1>1, <1>3 DEF SetRotation, IntervalOf
  <2>2. remaining <= IntervalOf(override)
    BY <1>1, <1>3 DEF RouterInv, WithinInterval
  <2>3. IntervalOf(override) \in Nat
    BY <1>1, <1>3, IntervalType DEF IntervalOf
  <2> QED
    BY <1>2, <2>1, <2>2, <2>3
<1>4. CASE ~ (enabled /\ interval # {})
  BY <1>2, <1>4, ClockFacts DEF SetRotation
<1> QED
  BY <1>3, <1>4

LEMMA PausedStep ==
  ASSUME RouterInv, paused, [RouterNext]_screenVars
  PROVE  index' = index /\ (remaining' < remaining => override' # override)
<1>1. /\ IndexNow = index /\ RemainingNow = remaining /\ remaining \in Nat
      /\ ~ (remaining < remaining)
  BY ClockFacts DEF RouterInv, Types
<1>2. CASE Draw
  <2>1. override.left = 0 => override' # override
    BY <1>2, EndsAreTypes DEF Draw, Update
  <2> QED
    BY <1>1, <1>2, <2>1, CappedFacts DEF Draw, Update
<1>3. CASE Tick
  BY <1>1, <1>3 DEF Tick
<1>4. CASE Receive
  BY <1>1, <1>4 DEF Receive, router
<1>5. CASE ShowPage \/ NextPage \/ PreviousPage
  BY <1>1, <1>5, ShowsRemote DEF ShowRemote
<1>6. CASE SetAnyRotation
  BY <1>1, <1>6, RotationShortens DEF SetAnyRotation, SetRotation
<1>7. CASE UNCHANGED screenVars
  BY <1>1, <1>7 DEF screenVars, router
<1> QED
  BY <1>2, <1>3, <1>4, <1>5, <1>6, <1>7 DEF RouterNext

\* Behind a remote page or a critical one, rotation stands still, but for a rotation
\* command during the critical page (pages.go freezeLocked, Update, SetRotation).
THEOREM RotationIsFrozen == RouterSpec => FrozenWhilePreempted
<1>1. RouterInv /\ [RouterNext]_screenVars
        => [(critical \/ remote # NoRemote) /\ ~ turned
              => index' = index /\ (remaining' < remaining => override' # override)]_screenVars
  BY PausedStep DEF RouterInv, HeldBack
<1> QED
  BY <1>1, RouterInvariant, PTL DEF RouterSpec, FrozenWhilePreempted

LEMMA OffStep ==
  ASSUME RouterInv, ~ override.enabled, ~ override'.enabled, [RouterNext]_screenVars
  PROVE  index' = index /\ remaining' = remaining
<1>1. IndexNow = index /\ RemainingNow = remaining
  BY ClockFacts DEF RouterInv, HeldBack
<1>2. CASE Draw
  BY <1>1, <1>2, CappedFacts, EndsAreTypes DEF Draw, Update
<1>3. CASE Tick
  BY <1>3 DEF Tick
<1>4. CASE Receive
  BY <1>4 DEF Receive, router
<1>5. CASE ShowPage \/ NextPage \/ PreviousPage
  BY <1>1, <1>5, ShowsRemote DEF ShowRemote
<1>6. CASE SetAnyRotation
  BY <1>1, <1>6 DEF SetAnyRotation, SetRotation
<1>7. CASE UNCHANGED screenVars
  BY <1>7 DEF screenVars, router
<1> QED
  BY <1>2, <1>3, <1>4, <1>5, <1>6, <1>7 DEF RouterNext

\* A rotation switched off does not move until the override ends or is replaced
\* (pages.go SetRotation, Update).
THEOREM RotationOffStaysOff == RouterSpec => PauseHolds
<1>1. RouterInv /\ [RouterNext]_screenVars
        => [~ override.enabled /\ ~ override'.enabled
              => index' = index /\ remaining' = remaining]_screenVars
  BY OffStep
<1> QED
  BY <1>1, RouterInvariant, PTL DEF RouterSpec, PauseHolds
=============================================================================
