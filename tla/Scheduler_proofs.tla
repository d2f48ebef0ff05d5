-------------------------- MODULE Scheduler_proofs --------------------------
(***************************************************************************)
(* Theorems about Scheduler, for any number of connectors, of concurrent   *)
(* refreshes and of slots: types with the accounting of the slots, the     *)
(* versions, the values of nodes that are down and the limits on merged    *)
(* reports; then the order of attempts: what is shown of a connector       *)
(* agrees with its last attempt, and a refresh that is done with a         *)
(* connector left nothing older than its request unmarked.                 *)
(*                                                                         *)
(* The argument: one lemma per operation on the current state says what it *)
(* changes; the steps of the workers are brought down to these operations  *)
(* (StateCases).  For the order, a worker between Lock and the end of its  *)
(* attempt is the holder of its connector (Exclusive), so only that worker *)
(* disturbs what the connector shows, and only of that connector           *)
(* (Confined); the stage of that worker says how far the state has been    *)
(* brought to its answer (Carries).  A worker that locked after a refresh  *)
(* was asked for carries a later reading (LaterReadings).                  *)
(***************************************************************************)
EXTENDS Scheduler, FiniteSetTheorems, TLAPS

-----------------------------------------------------------------------------
(* The operations on the current state. *)

\* An item is the null item exactly if nobody owns it.
LEMMA ItemFacts ==
  /\ NoItem \notin Item
  /\ \A x \in Item \cup {NoItem} : x = NoItem <=> x.owner = Nobody
  /\ \A x \in Item \cup {NoItem} : x.owner # Nobody => x \in Item /\ x.owner \in Connectors
BY StateAssumption DEF Item, NoItem, Nobody

\* Versions stay below the wrap, and the next one is another one.
LEMMA BumpedFacts ==
  ASSUME NEW v \in 0 .. VersionWrap - 1
  PROVE  /\ Bumped(v) \in 0 .. VersionWrap - 1
         /\ Bumped(v) # v
<1> USE StateAssumption
<1>1. CASE v + 1 < VersionWrap
  <2>1. (v + 1) % VersionWrap = v + 1
    BY <1>1
  <2> QED BY <1>1, <2>1 DEF Bumped
<1>2. CASE v + 1 = VersionWrap
  <2>1. (v + 1) % VersionWrap = 0
    BY <1>2
  <2> QED BY <1>2, <2>1 DEF Bumped
<1> QED
  BY <1>1, <1>2

\* A state that shows something else under the next version.
Changed(s, observed, shown) ==
  [s EXCEPT !.version = Bumped(@), !.observedSeq = observed, !.shown = shown]

\* It is a current state, of another version.
LEMMA ChangedState ==
  ASSUME NEW s \in CurrentStates,
         NEW shown \in [Items -> Item \cup {NoItem}],
         NEW observed \in [Metrics -> Nat],
         NEW s2, s2 = Changed(s, observed, shown)
  PROVE  /\ s2 \in CurrentStates
         /\ s2.shown = shown
         /\ s2.observedSeq = observed
         /\ s2.health = s.health
         /\ s2.version # s.version
<1>1. s.version \in 0 .. VersionWrap - 1
  BY DEF CurrentStates
<1>2. Bumped(s.version) \in 0 .. VersionWrap - 1 /\ Bumped(s.version) # s.version
  BY <1>1, BumpedFacts
<1> QED
  BY <1>2 DEF Changed, CurrentStates

\* What a batch of metrics changes.
LEMMA WithMetricsFacts ==
  ASSUME NEW s \in CurrentStates, NEW c \in Connectors, NEW sq \in Nat, NEW at \in Nat,
         NEW batch \in SUBSET Metrics,
         NEW s2, s2 = WithMetrics(s, c, sq, at, batch)
  PROVE  /\ s2 \in CurrentStates
         /\ s2.health = s.health
         /\ s2.shown # s.shown => s2.version # s.version
         /\ \A m \in Metrics : s2.observedSeq[m] \in {s.observedSeq[m], sq}
         /\ \A i \in Items : s2.shown[i] =
              IF i \in Taken(s, sq, batch) THEN Measured(c, at)
              ELSE IF i \in Withdrawn(s, c, sq, batch) THEN NoItem ELSE s.shown[i]
<1> DEFINE gone  == Withdrawn(s, c, sq, batch)
           taken == Taken(s, sq, batch)
           shown == [i \in Items |-> IF i \in taken THEN Measured(c, at)
                                     ELSE IF i \in gone THEN NoItem ELSE s.shown[i]]
           observed == [m \in Metrics |-> IF m \in gone \cup taken THEN sq ELSE s.observedSeq[m]]
<1>1. CASE gone \cup taken = {}
  BY <1>1 DEF WithMetrics
<1>2. CASE gone \cup taken # {}
  <2>1. shown \in [Items -> Item \cup {NoItem}]
    BY DEF CurrentStates, Measured, Item
  <2>2. observed \in [Metrics -> Nat]
    BY DEF CurrentStates
  <2>3. s2 = Changed(s, observed, shown)
    BY <1>2 DEF Changed, WithMetrics, CurrentStates
  <2> HIDE DEF shown, observed
  <2>4. /\ s2 \in CurrentStates /\ s2.shown = shown /\ s2.observedSeq = observed
        /\ s2.health = s.health /\ s2.version # s.version
    BY <2>1, <2>2, <2>3, ChangedState
  <2>5. \A m \in Metrics : s2.observedSeq[m] = IF m \in gone \cup taken THEN sq ELSE s.observedSeq[m]
    BY <2>4 DEF observed
  <2>6. \A i \in Items : s2.shown[i] = IF i \in taken THEN Measured(c, at)
                                       ELSE IF i \in gone THEN NoItem ELSE s.shown[i]
    BY <2>4 DEF shown
  <2> QED BY <2>4, <2>5, <2>6
<1> QED
  BY <1>1, <1>2

\* What an accepted report changes: only what its connector owns, and what nobody
\* owned.
LEMMA WithHomeLabFacts ==
  ASSUME NEW s \in CurrentStates, NEW c \in Connectors, NEW at \in Nat,
         NEW report \in AllReports, ~ Refuses(s, c, report),
         NEW s2, s2 = WithHomeLab(s, c, at, report)
  PROVE  /\ s2 \in CurrentStates
         /\ s2.health = s.health
         /\ s2.version # s.version
         /\ s2.observedSeq = s.observedSeq
         /\ DOMAIN report \subseteq Nodes \cup Services
         /\ \A i \in DOMAIN report : report[i] \in BOOLEAN
         /\ \A i \in DOMAIN report : s.shown[i].owner \in {c, Nobody}
         /\ \A i \in Items : s2.shown[i] =
              IF i \in DOMAIN report THEN Inherited(Reported(c, at, report, i), s.shown[i])
              ELSE IF i \in Owned(s, c) \ Metrics THEN NoItem ELSE s.shown[i]
<1> DEFINE shown == [i \in Items |->
              IF i \in DOMAIN report THEN Inherited(Reported(c, at, report, i), s.shown[i])
              ELSE IF i \in Owned(s, c) \ Metrics THEN NoItem ELSE s.shown[i]]
<1>1. DOMAIN report \subseteq Nodes \cup Services /\ \A i \in DOMAIN report : report[i] \in BOOLEAN
  BY DEF AllReports
<1>2. \A i \in DOMAIN report : s.shown[i].owner \in {c, Nobody}
  BY <1>1 DEF Refuses, Others, Items
<1>3. shown \in [Items -> Item \cup {NoItem}]
  <2> SUFFICES ASSUME NEW i \in DOMAIN report
               PROVE  Inherited(Reported(c, at, report, i), s.shown[i]) \in Item
    BY DEF CurrentStates
  <2>1. Reported(c, at, report, i) \in Item
    BY <1>1 DEF Reported, Item
  <2>2. s.shown[i] \in Item \cup {NoItem}
    BY <1>1 DEF CurrentStates, Items
  <2> QED BY <2>1, <2>2 DEF Inherited, Item
<1>4. s.observedSeq \in [Metrics -> Nat]
  BY DEF CurrentStates
<1>5. s2 = Changed(s, s.observedSeq, shown)
  BY DEF Changed, WithHomeLab, CurrentStates
<1> HIDE DEF shown
<1>6. /\ s2 \in CurrentStates /\ s2.shown = shown /\ s2.observedSeq = s.observedSeq
      /\ s2.health = s.health /\ s2.version # s.version
  BY <1>3, <1>4, <1>5, ChangedState
<1>7. \A i \in Items : s2.shown[i] =
        IF i \in DOMAIN report THEN Inherited(Reported(c, at, report, i), s.shown[i])
        ELSE IF i \in Owned(s, c) \ Metrics THEN NoItem ELSE s.shown[i]
  BY <1>6 DEF shown
<1> QED
  BY <1>1, <1>2, <1>6, <1>7

\* What an annotation changes: the error of everything the connector owns.
LEMMA WithErrorFacts ==
  ASSUME NEW s \in CurrentStates, NEW c \in Connectors, NEW class \in AllClasses,
         NEW s2, s2 = WithError(s, c, class)
  PROVE  /\ s2 \in CurrentStates
         /\ s2.health = s.health
         /\ s2.shown # s.shown => s2.version # s.version
         /\ s2.observedSeq = s.observedSeq
         /\ \A i \in Items : s2.shown[i] =
              IF i \in Owned(s, c) THEN Annotated(s.shown[i], class) ELSE s.shown[i]
<1> DEFINE shown == [i \in Items |-> IF i \in Owned(s, c)
                                       THEN Annotated(s.shown[i], class) ELSE s.shown[i]]
<1>1. \A i \in Owned(s, c) : s.shown[i] \in Item
  BY ItemFacts, StateAssumption DEF Owned, CurrentStates
<1>2. CASE \A i \in Owned(s, c) : s.shown[i].error = class
  <2>1. \A i \in Owned(s, c) : Annotated(s.shown[i], class) = s.shown[i]
    BY <1>1, <1>2 DEF Item, Annotated
  <2> QED BY <1>2, <2>1 DEF WithError
<1>3. CASE ~ \A i \in Owned(s, c) : s.shown[i].error = class
  <2>1. shown \in [Items -> Item \cup {NoItem}]
    BY <1>1 DEF CurrentStates, Item, Annotated
  <2>2. s.observedSeq \in [Metrics -> Nat]
    BY DEF CurrentStates
  <2>3. s2 = Changed(s, s.observedSeq, shown)
    BY <1>3 DEF Changed, WithError, CurrentStates
  <2> HIDE DEF shown
  <2>4. /\ s2 \in CurrentStates /\ s2.shown = shown /\ s2.observedSeq = s.observedSeq
        /\ s2.health = s.health /\ s2.version # s.version
    BY <2>1, <2>2, <2>3, ChangedState
  <2>5. \A i \in Items : s2.shown[i] = shown[i]
    BY <2>4
  <2>6. \A i \in Items : s2.shown[i] =
          IF i \in Owned(s, c) THEN Annotated(s.shown[i], class) ELSE s.shown[i]
    BY <2>5, Zenon DEF shown
  <2> QED BY <2>4, <2>6
<1> QED
  BY <1>2, <1>3

\* A health record changes nothing that is shown.
LEMMA WithHealthFacts ==
  ASSUME NEW s \in CurrentStates, NEW c \in Connectors, NEW h \in Health,
         NEW s2, s2 = WithHealth(s, c, h)
  PROVE  /\ s2 \in CurrentStates
         /\ s2.shown = s.shown
         /\ s2.version # s.version
         /\ s2.observedSeq = s.observedSeq
<1>1. s.version \in 0 .. VersionWrap - 1
  BY DEF CurrentStates
<1>2. Bumped(s.version) \in 0 .. VersionWrap - 1 /\ Bumped(s.version) # s.version
  BY <1>1, BumpedFacts
<1> QED
  BY <1>2 DEF WithHealth, CurrentStates

-----------------------------------------------------------------------------
(* Types. *)

\* Where a worker may be, and what it carries there.
LEMMA StageFacts ==
  /\ \A name \in {"idle", "lock", "slot", "collect"} :
       Stage(name) \in Stages /\ Stage(name).at = name
  /\ Idle = Stage("idle")
  /\ \A class \in AllClasses \cup {ErrNone}, reading \in Nat :
       /\ Ended(class, reading) \in Stages
       /\ Ended(class, reading).at = "publish"
  /\ \A x \in Stages :
       /\ x.at \in {"idle", "lock", "slot", "collect", "store", "report", "publish"}
       /\ x.at \in {"store", "report"} =>
            x.reading \in Nat /\ x.batch \in SUBSET Metrics /\ x.report \in AllReports
       /\ x.at = "publish" => x.class \in AllClasses \cup {ErrNone} /\ x.reading \in Nat
BY DEF Stages, Stage, Ended, Idle

\* A worker is a pair, and there are finitely many.
LEMMA WorkerFacts ==
  /\ IsFiniteSet(Workers)
  /\ \A w \in Workers : TaskOf(w) \in Connectors /\ ByWhom(w) \in {"run"} \cup Refreshes
  /\ \A w \in Workers : w = <<ByWhom(w), TaskOf(w)>>
  /\ \A r \in Refreshes, c \in Connectors : <<r, c>> \in Workers
  /\ NoWorker \notin Workers
<1>1. IsFiniteSet(Refreshes \cup {"run"})
  BY SchedulerAssumption, FS_AddElement
<1>2. {"run"} \cup Refreshes = Refreshes \cup {"run"}
  OBVIOUS
<1>3. IsFiniteSet(Workers)
  BY <1>1, <1>2, SchedulerAssumption, FS_Product DEF Workers
<1> QED
  BY <1>3, SchedulerAssumption DEF Workers, TaskOf, ByWhom, NoWorker

\* The report of a connector is a report.
LEMMA ReportsFacts ==
  ASSUME NEW c \in Connectors, NEW report \in ReportsFrom(c)
  PROVE  report \in AllReports
<1>1. CASE report \in Reports(c)
  <2>1. PICK D \in SUBSET EntitiesOf(c) : report \in [D -> BOOLEAN]
    BY <1>1 DEF Reports
  <2>2. D \in SUBSET (Nodes \cup Services)
    BY DEF EntitiesOf
  <2> QED BY <2>1, <2>2 DEF AllReports
<1>2. CASE report = NoReport
  <2>1. NoReport \in [{} -> BOOLEAN]
    BY DEF NoReport
  <2> QED BY <1>2, <2>1 DEF AllReports
<1> QED
  BY <1>1, <1>2 DEF ReportsFrom

\* The number of slots in use when one worker moves on.
LEMMA SlotCount ==
  ASSUME SchedTypeOK, NEW w \in Workers, NEW stage \in Stages, Goto(w, stage)
  PROVE  /\ work' \in [Workers -> Stages]
         /\ work'[w] = stage
         /\ \A v \in Workers \ {w} : work'[v] = work[v]
         /\ Cardinality({v \in Workers : InSlot(v)}') =
              slots + (IF stage.at \in {"collect", "store", "report"} THEN 1 ELSE 0)
                    - (IF InSlot(w) THEN 1 ELSE 0)
<1> DEFINE before == {v \in Workers : InSlot(v)}
           after  == {v \in Workers : InSlot(v)}'
<1>1. /\ work' \in [Workers -> Stages]
      /\ work'[w] = stage
      /\ \A v \in Workers \ {w} : work'[v] = work[v]
  BY DEF Goto, SchedTypeOK
<1>2. after = IF stage.at \in {"collect", "store", "report"} THEN before \cup {w} ELSE before \ {w}
  BY <1>1 DEF InSlot
<1>3. w \in before <=> InSlot(w)
  OBVIOUS
<1>4. IsFiniteSet(before)
  BY WorkerFacts, FS_Subset
<1>5. Cardinality(before) = slots /\ Cardinality(before) \in Nat
  BY <1>4, FS_CardinalityType DEF SchedTypeOK
<1>6. /\ Cardinality(before \cup {w}) = IF w \in before THEN slots ELSE slots + 1
      /\ Cardinality(before \ {w}) = IF w \in before THEN slots - 1 ELSE slots
  BY <1>4, <1>5, FS_AddElement, FS_RemoveElement
<1> HIDE DEF before, after
<1>7. Cardinality(after) = slots + (IF stage.at \in {"collect", "store", "report"} THEN 1 ELSE 0)
                    - (IF InSlot(w) THEN 1 ELSE 0)
  BY <1>2, <1>3, <1>5, <1>6
<1> QED
  BY <1>1, <1>7 DEF after

\* The initial state has its types.
LEMMA InitType == SchedInit => SchedTypeOK
<1> SUFFICES ASSUME SchedInit PROVE SchedTypeOK
  OBVIOUS
<1>1. state \in CurrentStates
  BY StateAssumption DEF SchedInit, EmptyState, CurrentStates
<1>2. {w \in Workers : InSlot(w)} = {}
  BY StageFacts DEF SchedInit, InSlot
<1>3. Cardinality({w \in Workers : InSlot(w)}) = 0
  BY <1>2, FS_EmptySet
<1> QED
  BY <1>1, <1>3, StageFacts, WorkerFacts, SchedulerAssumption DEF SchedInit, SchedTypeOK

\* What the three steps that touch shown items do to the state.
LEMMA StoreTypes ==
  ASSUME SchedTypeOK, NEW w \in Workers
  PROVE  /\ \A class \in AllClasses : WithError(state, TaskOf(w), class) \in CurrentStates
         /\ work[w].at \in {"store", "report"} =>
              /\ WithMetrics(state, TaskOf(w), seq + 1, work[w].reading, work[w].batch) \in CurrentStates
              /\ ~ Refuses(state, TaskOf(w), work[w].report) =>
                   WithHomeLab(state, TaskOf(w), work[w].reading, work[w].report) \in CurrentStates
<1> USE DEF SchedTypeOK
<1>1. TaskOf(w) \in Connectors /\ work[w] \in Stages
  BY WorkerFacts
<1>2. \A class \in AllClasses : WithError(state, TaskOf(w), class) \in CurrentStates
  BY <1>1, WithErrorFacts
<1>3. ASSUME work[w].at \in {"store", "report"}
      PROVE  WithMetrics(state, TaskOf(w), seq + 1, work[w].reading, work[w].batch) \in CurrentStates
  <2>1. work[w].reading \in Nat /\ work[w].batch \in SUBSET Metrics /\ seq + 1 \in Nat
    BY <1>1, <1>3, StageFacts
  <2> QED BY <1>1, <2>1, WithMetricsFacts
<1>4. ASSUME work[w].at \in {"store", "report"}, ~ Refuses(state, TaskOf(w), work[w].report)
      PROVE  WithHomeLab(state, TaskOf(w), work[w].reading, work[w].report) \in CurrentStates
  <2>1. work[w].reading \in Nat /\ work[w].report \in AllReports
    BY <1>1, <1>4, StageFacts
  <2> QED BY <1>1, <1>4, <2>1, WithHomeLabFacts
<1> QED
  BY <1>2, <1>3, <1>4

\* A worker that ends its attempt gives its slot back.
LEMMA DoneType ==
  ASSUME SchedTypeOK, NEW w \in Workers, InSlot(w),
         NEW class \in AllClasses \cup {ErrNone}, NEW reading \in Nat,
         Done(w, class, reading)
  PROVE  /\ work' \in [Workers -> Stages]
         /\ holder' \in [Connectors -> Workers \cup {NoWorker}]
         /\ slots' = Cardinality({v \in Workers : InSlot(v)}')
         /\ slots' <= MaxConcurrency
         /\ outcome' \in [Connectors -> AllClasses \cup {ErrNone}]
<1>1. Ended(class, reading) \in Stages /\ Ended(class, reading).at = "publish"
  BY StageFacts
<1>2. Goto(w, Ended(class, reading)) /\ slots' = slots - 1
  BY DEF Done
<1>3. /\ work' \in [Workers -> Stages]
      /\ Cardinality({v \in Workers : InSlot(v)}') = slots - 1
  <2>1. slots \in Int
    BY WorkerFacts, FS_Subset, FS_CardinalityType DEF SchedTypeOK
  <2> DEFINE stage == Ended(class, reading)
  <2>2. stage \in Stages /\ Goto(w, stage)
    BY <1>1, <1>2
  <2>3. stage.at \notin {"collect", "store", "report"}
    BY <1>1
  <2> HIDE DEF stage
  <2>4. /\ work' \in [Workers -> Stages]
        /\ Cardinality({v \in Workers : InSlot(v)}') =
             slots + (IF stage.at \in {"collect", "store", "report"} THEN 1 ELSE 0)
                   - (IF InSlot(w) THEN 1 ELSE 0)
    BY <2>2, SlotCount
  <2> QED BY <2>1, <2>3, <2>4
<1>4. slots \in Nat
  BY WorkerFacts, FS_Subset, FS_CardinalityType DEF SchedTypeOK
<1>5. slots' <= MaxConcurrency
  BY <1>2, <1>4, SchedulerAssumption DEF SchedTypeOK
<1> QED
  BY <1>2, <1>3, <1>5 DEF Done, SchedTypeOK

\* A worker of a refresh is busy only for a connector its call selected.
CallsCoverWork ==
  \A w \in Workers : ByWhom(w) \in Refreshes /\ work[w].at # "idle" =>
    call[ByWhom(w)] # NoCall /\ TaskOf(w) \in call[ByWhom(w)].selected

TypeInv == SchedTypeOK /\ CallsCoverWork

\* Moving a worker on covers its work if the worker was covered before.
LEMMA MoveCovered ==
  ASSUME TypeInv, UNCHANGED call, NEW w \in Workers, NEW stage \in Stages, Goto(w, stage),
         ByWhom(w) \in Refreshes => work[w].at # "idle"
  PROVE  CallsCoverWork'
<1>1. \A v \in Workers \ {w} : work'[v] = work[v]
  BY SlotCount DEF TypeInv
<1> QED
  BY <1>1 DEF TypeInv, CallsCoverWork

\* A step that moves one worker between stages on the same side of a slot.
LEMMA MoveType ==
  ASSUME SchedTypeOK, NEW w \in Workers, NEW stage \in Stages, Goto(w, stage), UNCHANGED slots,
         InSlot(w) <=> stage.at \in {"collect", "store", "report"}
  PROVE  /\ work' \in [Workers -> Stages]
         /\ slots' = Cardinality({v \in Workers : InSlot(v)}')
         /\ slots' <= MaxConcurrency
<1>1. slots \in Nat
  BY WorkerFacts, FS_Subset, FS_CardinalityType DEF SchedTypeOK
<1>2. /\ work' \in [Workers -> Stages]
      /\ Cardinality({v \in Workers : InSlot(v)}') =
           slots + (IF stage.at \in {"collect", "store", "report"} THEN 1 ELSE 0)
                 - (IF InSlot(w) THEN 1 ELSE 0)
  BY SlotCount
<1> QED
  BY <1>1, <1>2 DEF SchedTypeOK

\* The steps of a call keep the types.
LEMMA CallType ==
  ASSUME TypeInv, NEW r \in Refreshes,
         \/ \E selected \in SUBSET Connectors : Refresh(r, selected)
         \/ Expire(r) \/ Return(r)
  PROVE  TypeInv'
<1> USE DEF TypeInv
<1>1. ASSUME NEW selected \in SUBSET Connectors, Refresh(r, selected) PROVE TypeInv'
  <2>1. \A w \in Workers : ByWhom(w) = r => work[w].at = "idle"
    BY <1>1 DEF Refresh, CallsCoverWork
  <2>2. work' \in [Workers -> Stages]
    BY <1>1, StageFacts DEF Refresh, SchedTypeOK
  <2>3. \A w \in Workers : work'[w].at \in {"collect", "store", "report"} <=> InSlot(w)
    BY <1>1, <2>1, StageFacts DEF Refresh, InSlot
  <2>4. {w \in Workers : InSlot(w)}' = {w \in Workers : InSlot(w)}
    BY <2>3 DEF InSlot
  <2>5. call' \in [Refreshes -> Calls \cup {NoCall}]
    BY <1>1 DEF Refresh, SchedTypeOK, Calls
  <2>6. remembered' \in [Workers -> Nat]
    <3>1. \A c \in Connectors : state.health[c] # NoHealth => state.health[c].lastSuccess \in Nat
      BY DEF SchedTypeOK, CurrentStates, Health
    <3> QED BY <1>1, <3>1, WorkerFacts DEF Refresh, SchedTypeOK
  <2>7. SchedTypeOK'
    BY <1>1, <2>2, <2>4, <2>5, <2>6 DEF Refresh, SchedTypeOK, history
  <2>8. call'[r] # NoCall /\ call'[r].selected = selected
    BY <1>1 DEF Refresh, SchedTypeOK, NoCall
  <2>9. CallsCoverWork'
    <3> SUFFICES ASSUME NEW w \in Workers, ByWhom(w) \in Refreshes, work'[w].at # "idle"
                 PROVE  call'[ByWhom(w)] # NoCall /\ TaskOf(w) \in call'[ByWhom(w)].selected
      BY DEF CallsCoverWork
    <3>1. CASE ByWhom(w) = r
      BY <1>1, <2>1, <2>8, <3>1 DEF Refresh
    <3>2. CASE ByWhom(w) # r
      <4>1. work'[w] = work[w] /\ call'[ByWhom(w)] = call[ByWhom(w)]
        BY <1>1, <3>2 DEF Refresh, SchedTypeOK
      <4> QED BY <4>1 DEF CallsCoverWork
    <3> QED BY <3>1, <3>2
  <2> QED BY <2>7, <2>9
<1>2. CASE Expire(r)
  <2>1. call[r] \in Calls
    BY <1>2 DEF Expire, SchedTypeOK
  <2>2. /\ call' \in [Refreshes -> Calls \cup {NoCall}]
        /\ \A q \in Refreshes : call[q] # NoCall => call'[q] # NoCall /\ call'[q].selected = call[q].selected
    BY <1>2, <2>1 DEF Expire, SchedTypeOK, Calls, NoCall
  <2> QED BY <1>2, <2>2 DEF Expire, SchedTypeOK, CallsCoverWork, InSlot, history
<1>3. CASE Return(r)
  <2>1. \A c \in call[r].selected : <<r, c>> \in Workers => work[<<r, c>>].at = "idle"
    BY <1>3, StageFacts DEF Return
  <2>2. \A w \in Workers : ByWhom(w) = r => work[w].at = "idle"
    BY <1>3, <2>1, WorkerFacts DEF CallsCoverWork
  <2>3. SchedTypeOK'
    BY <1>3 DEF Return, SchedTypeOK, InSlot, history
  <2> QED BY <1>3, <2>2, <2>3 DEF Return, SchedTypeOK, CallsCoverWork
<1> QED
  BY <1>1, <1>2, <1>3

\* A step of a worker.
WorkStep(w) ==
  Lock(w) \/ TakeSlot(w) \/ GiveUp(w) \/ Ask(w) \/ Store(w) \/ PublishHealth(w)

\* The steps of a worker keep the types.
LEMMA WorkType ==
  ASSUME TypeInv, NEW w \in Workers, WorkStep(w)
  PROVE  TypeInv'
<1> USE DEF TypeInv
<1> DEFINE c == TaskOf(w)
<1>0. /\ c \in Connectors /\ work[w] \in Stages
      /\ slots \in Nat
  BY WorkerFacts, FS_Subset, FS_CardinalityType DEF SchedTypeOK
<1>1. CASE Lock(w)
  <2>1. /\ Stage("slot") \in Stages /\ Stage("slot").at = "slot" /\ ~ InSlot(w)
        /\ ByWhom(w) \in Refreshes => work[w].at # "idle"
    BY <1>1, StageFacts, SchedulerAssumption DEF Lock, InSlot
  <2>2. Goto(w, Stage("slot")) /\ UNCHANGED slots /\ UNCHANGED call
    BY <1>1 DEF Lock
  <2>3. /\ work' \in [Workers -> Stages]
        /\ slots' = Cardinality({v \in Workers : InSlot(v)}')
        /\ slots' <= MaxConcurrency
    BY <2>1, <2>2, MoveType
  <2>4. CallsCoverWork'
    BY <2>1, <2>2, MoveCovered
  <2> QED BY <1>0, <1>1, <2>3, <2>4 DEF Lock, SchedTypeOK, history
<1>2. CASE TakeSlot(w)
  <2>1. /\ Stage("collect") \in Stages /\ Stage("collect").at = "collect" /\ ~ InSlot(w)
        /\ work[w].at # "idle"
    BY <1>2, StageFacts DEF TakeSlot, InSlot
  <2>2. Goto(w, Stage("collect")) /\ UNCHANGED call /\ slots' = slots + 1 /\ slots' <= MaxConcurrency
    BY <1>0, <1>2, SchedulerAssumption DEF TakeSlot
  <2>3. /\ work' \in [Workers -> Stages]
        /\ slots' = Cardinality({v \in Workers : InSlot(v)}')
    <3> DEFINE stage == Stage("collect")
    <3>1. stage \in Stages /\ stage.at = "collect" /\ Goto(w, stage)
      BY <2>1, <2>2
    <3> HIDE DEF stage
    <3>2. /\ work' \in [Workers -> Stages]
          /\ Cardinality({v \in Workers : InSlot(v)}') =
               slots + (IF stage.at \in {"collect", "store", "report"} THEN 1 ELSE 0)
                     - (IF InSlot(w) THEN 1 ELSE 0)
      BY <3>1, SlotCount
    <3> QED BY <1>0, <2>1, <2>2, <3>1, <3>2
  <2>4. CallsCoverWork'
    BY <2>1, <2>2, MoveCovered
  <2> QED BY <1>2, <2>2, <2>3, <2>4 DEF TakeSlot, SchedTypeOK, history
<1>3. CASE GiveUp(w)
  <2> DEFINE stage == Ended("timeout", 0)
  <2>1. /\ stage \in Stages /\ stage.at = "publish" /\ ~ InSlot(w)
        /\ work[w].at # "idle"
    BY <1>3, StageFacts DEF GiveUp, InSlot, AllClasses
  <2>2. Goto(w, stage) /\ UNCHANGED slots /\ UNCHANGED call
    BY <1>3 DEF GiveUp
  <2> HIDE DEF stage
  <2>3. /\ work' \in [Workers -> Stages]
        /\ slots' = Cardinality({v \in Workers : InSlot(v)}')
        /\ slots' <= MaxConcurrency
    BY <2>1, <2>2, MoveType
  <2>4. CallsCoverWork'
    BY <2>1, <2>2, MoveCovered
  <2> QED BY <1>0, <1>3, <2>3, <2>4 DEF GiveUp, SchedTypeOK, history
<1>4. ASSUME NEW batch \in SUBSET MetricsOf(c), NEW report \in ReportsFrom(c), Collect(w, batch, report)
      PROVE  TypeInv'
  <2> DEFINE stage == [at |-> "store", reading |-> reads'[c], batch |-> batch, report |-> report]
  <2>1. reads' \in [Connectors -> Nat] /\ answer' \in [Connectors -> SUBSET Metrics]
    BY <1>0, <1>4 DEF Collect, SchedTypeOK, MetricsOf
  <2>2. stage \in Stages /\ stage.at = "store"
    BY <1>0, <2>1, ReportsFacts DEF Stages, MetricsOf
  <2>3. Goto(w, stage) /\ UNCHANGED slots /\ UNCHANGED call /\ InSlot(w) /\ work[w].at # "idle"
    BY <1>4, StageFacts DEF Collect, InSlot
  <2> HIDE DEF stage
  <2>4. /\ work' \in [Workers -> Stages]
        /\ slots' = Cardinality({v \in Workers : InSlot(v)}')
        /\ slots' <= MaxConcurrency
    BY <2>2, <2>3, MoveType
  <2>5. CallsCoverWork'
    BY <2>2, <2>3, MoveCovered
  <2> QED BY <1>4, <2>1, <2>4, <2>5 DEF Collect, SchedTypeOK
<1>5. ASSUME NEW class \in AllClasses \cup {ErrNone}, NEW reading \in Nat,
             Done(w, class, reading), InSlot(w), UNCHANGED call
      PROVE  /\ work' \in [Workers -> Stages]
             /\ holder' \in [Connectors -> Workers \cup {NoWorker}]
             /\ slots' = Cardinality({v \in Workers : InSlot(v)}')
             /\ slots' <= MaxConcurrency
             /\ outcome' \in [Connectors -> AllClasses \cup {ErrNone}]
             /\ CallsCoverWork'
  <2>1. Ended(class, reading) \in Stages /\ Goto(w, Ended(class, reading)) /\ work[w].at # "idle"
    BY <1>5, StageFacts DEF Done, InSlot
  <2>2. CallsCoverWork'
    BY <1>5, <2>1, MoveCovered
  <2> QED BY <1>5, <2>2, DoneType
<1>6. ASSUME NEW class \in Classes, FailCollect(w, class) PROVE TypeInv'
  <2>1. InSlot(w) /\ class \in AllClasses /\ UNCHANGED call /\ Done(w, class, 0)
    BY <1>6, StageFacts DEF FailCollect, InSlot, AllClasses
  <2>2. state' \in CurrentStates
    BY <1>6, <2>1, StoreTypes DEF FailCollect
  <2> QED BY <1>5, <1>6, <2>1, <2>2 DEF FailCollect, SchedTypeOK
<1>7. CASE StoreMetrics(w)
  <2>1. /\ work[w].reading \in Nat /\ work[w].batch \in SUBSET Metrics /\ work[w].report \in AllReports
        /\ InSlot(w) /\ work[w].at # "idle"
    BY <1>0, <1>7, StageFacts DEF StoreMetrics, InSlot
  <2>2. state' \in CurrentStates /\ seq' \in Nat
    BY <1>7, StoreTypes DEF StoreMetrics, SchedTypeOK
  <2>3. CASE c \in HomeLabReporters
    <3> DEFINE stage == [work[w] EXCEPT !.at = "report"]
    <3>1. stage \in Stages /\ stage.at = "report"
      BY <1>0, <1>7 DEF StoreMetrics, Stages, Stage
    <3>2. Goto(w, stage) /\ UNCHANGED <<holder, slots, outcome, call>>
      BY <1>7, <2>3 DEF StoreMetrics
    <3> HIDE DEF stage
    <3>3. /\ work' \in [Workers -> Stages]
          /\ slots' = Cardinality({v \in Workers : InSlot(v)}')
          /\ slots' <= MaxConcurrency
      BY <2>1, <3>1, <3>2, MoveType
    <3>4. CallsCoverWork'
      BY <2>1, <3>1, <3>2, MoveCovered
    <3> QED BY <1>7, <2>2, <3>2, <3>3, <3>4 DEF StoreMetrics, SchedTypeOK
  <2>4. CASE c \notin HomeLabReporters
    <3>1. Done(w, ErrNone, work[w].reading) /\ UNCHANGED call
      BY <1>7, <2>4 DEF StoreMetrics
    <3> QED BY <1>5, <1>7, <2>1, <2>2, <3>1 DEF StoreMetrics, SchedTypeOK
  <2> QED BY <2>3, <2>4
<1>8. CASE StoreHomeLab(w)
  <2>1. work[w].reading \in Nat /\ InSlot(w) /\ UNCHANGED call
    BY <1>0, <1>8, StageFacts DEF StoreHomeLab, InSlot
  <2>2. state' \in CurrentStates
    BY <1>8, StoreTypes DEF StoreHomeLab, AllClasses
  <2>3. \/ Done(w, "schema_changed", 0)
        \/ Done(w, ErrNone, work[w].reading)
    BY <1>8 DEF StoreHomeLab
  <2> QED BY <1>5, <1>8, <2>1, <2>2, <2>3 DEF StoreHomeLab, SchedTypeOK, AllClasses
<1>9. CASE PublishHealth(w)
  <2> DEFINE last == IF work[w].class = ErrNone THEN work[w].reading ELSE remembered[w]
  <2>1. work[w].class \in AllClasses \cup {ErrNone} /\ last \in Nat /\ ~ InSlot(w) /\ work[w].at # "idle"
    BY <1>0, <1>9, StageFacts DEF PublishHealth, SchedTypeOK, InSlot
  <2>2. state' = WithHealth(state, c, [class |-> work[w].class, lastSuccess |-> last])
    BY <1>9 DEF PublishHealth
  <2>3. state' \in CurrentStates
    BY <1>0, <2>1, <2>2, WithHealthFacts DEF Health, SchedTypeOK
  <2>4. remembered' \in [Workers -> Nat]
    BY <1>9, <2>1 DEF PublishHealth, SchedTypeOK
  <2>5. Idle \in Stages /\ Idle.at = "idle" /\ Goto(w, Idle) /\ UNCHANGED <<slots, call>>
    BY <1>9, StageFacts DEF PublishHealth
  <2>6. /\ work' \in [Workers -> Stages]
        /\ slots' = Cardinality({v \in Workers : InSlot(v)}')
        /\ slots' <= MaxConcurrency
    BY <2>1, <2>5, MoveType
  <2>7. CallsCoverWork'
    BY <2>1, <2>5, MoveCovered
  <2> QED BY <1>9, <2>3, <2>4, <2>6, <2>7 DEF PublishHealth, SchedTypeOK, history
<1> QED
  BY <1>1, <1>2, <1>3, <1>4, <1>6, <1>7, <1>8, <1>9 DEF WorkStep, Ask, Store

\* Every step is a step of a call or of a worker.
LEMMA StepCases ==
  ASSUME SchedNext
  PROVE  \/ \E r \in Refreshes : \/ \E selected \in SUBSET Connectors : Refresh(r, selected)
                                 \/ Expire(r) \/ Return(r)
         \/ \E w \in Workers : WorkStep(w)
BY DEF SchedNext, WorkStep

\* The types hold at the start.
LEMMA TypeInit == SchedInit => TypeInv
BY InitType, StageFacts DEF TypeInv, CallsCoverWork, SchedInit

\* Every step keeps the types.
LEMMA TypeStep == TypeInv /\ [SchedNext]_schedVars => TypeInv'
<1>1. ASSUME TypeInv, SchedNext PROVE TypeInv'
  BY <1>1, StepCases, CallType, WorkType
<1>2. ASSUME TypeInv, UNCHANGED schedVars PROVE TypeInv'
  BY <1>2 DEF TypeInv, SchedTypeOK, CallsCoverWork, InSlot, schedVars
<1> QED BY <1>1, <1>2

\* Type correctness, the slot accounting included: every path out of an attempt
\* gives its slot back (collectOnce).
THEOREM SchedTypeCorrect == SchedSpec => []SchedTypeOK
<1>1. TypeInv => SchedTypeOK
  BY DEF TypeInv
<1> QED
  BY <1>1, TypeInit, TypeStep, PTL DEF SchedSpec

-----------------------------------------------------------------------------
(* What one step may do to what is shown. *)

\* The steps of a call leave the state alone.
LEMMA CallLeavesState ==
  ASSUME NEW r \in Refreshes,
         \/ \E selected \in SUBSET Connectors : Refresh(r, selected)
         \/ Expire(r) \/ Return(r)
  PROVE  UNCHANGED state
BY DEF Refresh, Expire, Return

\* Publishing replaces the health record.
LEMMA PublishFacts ==
  ASSUME TypeInv, NEW w \in Workers, PublishHealth(w)
  PROVE  \E h \in Health : state' = WithHealth(state, TaskOf(w), h)
<1> DEFINE h == [class |-> work[w].class,
                 lastSuccess |-> IF work[w].class = ErrNone THEN work[w].reading ELSE remembered[w]]
<1>1. work[w] \in Stages
  BY DEF TypeInv, SchedTypeOK
<1>2. h \in Health
  BY <1>1, StageFacts DEF PublishHealth, TypeInv, SchedTypeOK, Health
<1>3. state' = WithHealth(state, TaskOf(w), h)
  BY DEF PublishHealth
<1> QED
  BY <1>2, <1>3

\* The step of a worker is one of the four that reach the state, or leaves it.
LEMMA StateCases ==
  ASSUME TypeInv, NEW w \in Workers, WorkStep(w)
  PROVE  \/ UNCHANGED state
         \/ \E class \in Classes : FailCollect(w, class) /\ state' = WithError(state, TaskOf(w), class)
         \/ /\ StoreMetrics(w)
            /\ work[w].reading \in Nat /\ work[w].batch \in SUBSET Metrics
            /\ state' = WithMetrics(state, TaskOf(w), seq + 1, work[w].reading, work[w].batch)
         \/ /\ StoreHomeLab(w)
            /\ work[w].reading \in Nat /\ work[w].report \in AllReports
            /\ \/ /\ Refuses(state, TaskOf(w), work[w].report)
                  /\ state' = WithError(state, TaskOf(w), "schema_changed")
                  /\ Done(w, "schema_changed", 0)
               \/ /\ ~ Refuses(state, TaskOf(w), work[w].report)
                  /\ state' = WithHomeLab(state, TaskOf(w), work[w].reading, work[w].report)
                  /\ Done(w, ErrNone, work[w].reading)
         \/ /\ PublishHealth(w)
            /\ \E h \in Health : state' = WithHealth(state, TaskOf(w), h)
<1>1. work[w] \in Stages
  BY DEF TypeInv, SchedTypeOK
<1>2. CASE Lock(w) \/ TakeSlot(w) \/ GiveUp(w)
  BY <1>2 DEF Lock, TakeSlot, GiveUp
<1>3. CASE Ask(w)
  BY <1>3 DEF Ask, Collect, FailCollect
<1>4. CASE StoreMetrics(w)
  BY <1>1, <1>4, StageFacts DEF StoreMetrics
<1>5. CASE StoreHomeLab(w)
  BY <1>1, <1>5, StageFacts DEF StoreHomeLab
<1>6. CASE PublishHealth(w)
  BY <1>6, PublishFacts
<1> QED
  BY <1>2, <1>3, <1>4, <1>5, <1>6 DEF WorkStep, Store

\* A step of a worker that changes what a snapshot shows moves the version.
LEMMA StepIsVersioned ==
  ASSUME TypeInv, NEW w \in Workers, WorkStep(w)
  PROVE  state'.shown # state.shown \/ state'.health # state.health
           => state'.version # state.version
<1>0. TaskOf(w) \in Connectors /\ state \in CurrentStates /\ seq + 1 \in Nat
  BY WorkerFacts DEF TypeInv, SchedTypeOK
<1>1. ASSUME NEW class \in AllClasses, state' = WithError(state, TaskOf(w), class)
      PROVE  /\ state'.health = state.health
             /\ state'.shown # state.shown => state'.version # state.version
  BY <1>0, <1>1, WithErrorFacts
<1>2. ASSUME work[w].reading \in Nat, work[w].batch \in SUBSET Metrics,
             state' = WithMetrics(state, TaskOf(w), seq + 1, work[w].reading, work[w].batch)
      PROVE  /\ state'.health = state.health
             /\ state'.shown # state.shown => state'.version # state.version
  BY <1>0, <1>2, WithMetricsFacts
<1>3. ASSUME work[w].reading \in Nat, work[w].report \in AllReports,
             ~ Refuses(state, TaskOf(w), work[w].report),
             state' = WithHomeLab(state, TaskOf(w), work[w].reading, work[w].report)
      PROVE  state'.version # state.version
  BY <1>0, <1>3, WithHomeLabFacts
<1>4. ASSUME NEW h \in Health, state' = WithHealth(state, TaskOf(w), h)
      PROVE  state'.version # state.version
  BY <1>0, <1>4, WithHealthFacts
<1> QED
  BY <1>1, <1>2, <1>3, <1>4, StateCases DEF AllClasses

\* Whatever changes for a reader of snapshots changes under a new version, so that
\* the display, which compares versions, sees it (applyMetrics, ApplyConnectorError,
\* ApplyConnectorHomeLab, ApplyHealth).
THEOREM ChangesAreVersioned == SchedSpec => EveryChangeIsVersioned
<1>1. TypeInv /\ [SchedNext]_schedVars =>
        [state'.shown # state.shown \/ state'.health # state.health
           => state'.version # state.version]_schedVars
  <2>1. ASSUME TypeInv, SchedNext
        PROVE  state'.shown # state.shown \/ state'.health # state.health
                 => state'.version # state.version
    BY <2>1, CallLeavesState, StepCases, StepIsVersioned
  <2> QED BY <2>1
<1> QED
  BY <1>1, TypeInit, TypeStep, PTL DEF SchedSpec, EveryChangeIsVersioned

\* The values of a node that is down or failed survive a step.
LEMMA StepKeepsValues ==
  ASSUME TypeInv, NEW w \in Workers, WorkStep(w), NEW n \in Nodes,
         state.shown[n] # NoItem, state'.shown[n] # NoItem, state.shown[n].value > 0,
         ~ state'.shown[n].online \/ state'.shown[n].error # ErrNone
  PROVE  state'.shown[n].value > 0
<1>0. /\ TaskOf(w) \in Connectors /\ state \in CurrentStates /\ seq + 1 \in Nat
      /\ n \in Items /\ n \notin Metrics /\ state.shown[n] \in Item
  BY WorkerFacts, StateAssumption DEF TypeInv, SchedTypeOK, Items, CurrentStates
<1>1. ASSUME NEW class \in AllClasses, state' = WithError(state, TaskOf(w), class)
      PROVE  state'.shown[n].value > 0
  <2>1. state'.shown[n] = IF n \in Owned(state, TaskOf(w))
                            THEN Annotated(state.shown[n], class) ELSE state.shown[n]
    BY <1>0, <1>1, WithErrorFacts
  <2> QED BY <1>0, <2>1 DEF Item, Annotated
<1>2. ASSUME work[w].reading \in Nat, work[w].batch \in SUBSET Metrics,
             state' = WithMetrics(state, TaskOf(w), seq + 1, work[w].reading, work[w].batch)
      PROVE  state'.shown[n].value > 0
  <2>1. /\ n \notin Taken(state, seq + 1, work[w].batch)
        /\ n \notin Withdrawn(state, TaskOf(w), seq + 1, work[w].batch)
    BY <1>0, <1>2 DEF Taken, Withdrawn
  <2>2. state'.shown[n] = state.shown[n]
    BY <1>0, <1>2, <2>1, WithMetricsFacts
  <2> QED BY <2>2
<1>3. ASSUME work[w].reading \in Nat, work[w].report \in AllReports,
             ~ Refuses(state, TaskOf(w), work[w].report),
             state' = WithHomeLab(state, TaskOf(w), work[w].reading, work[w].report)
      PROVE  state'.shown[n].value > 0
  <2> DEFINE reported == Reported(TaskOf(w), work[w].reading, work[w].report, n)
  <2>1. state'.shown[n] = IF n \in DOMAIN work[w].report THEN Inherited(reported, state.shown[n])
                          ELSE IF n \in Owned(state, TaskOf(w)) \ Metrics THEN NoItem ELSE state.shown[n]
    BY <1>0, <1>3, WithHomeLabFacts
  <2>2. CASE n \in DOMAIN work[w].report
    <3>1. work[w].report[n] \in BOOLEAN
      BY <1>0, <1>3, <2>2, WithHomeLabFacts
    <3>2. reported.online = work[w].report[n] /\ reported.error = ErrNone
      BY DEF Reported
    <3>3. CASE work[w].report[n]
      <4>1. state'.shown[n] = reported
        BY <2>1, <2>2, <3>2, <3>3 DEF Inherited
      <4> QED BY <3>2, <3>3, <4>1
    <3>4. CASE ~ work[w].report[n]
      <4>1. state'.shown[n] = [reported EXCEPT !.value = state.shown[n].value]
        BY <2>1, <2>2, <3>2, <3>4 DEF Inherited
      <4> QED BY <4>1 DEF Reported
    <3> QED BY <3>1, <3>3, <3>4
  <2>3. CASE n \notin DOMAIN work[w].report
    BY <2>1, <2>3
  <2> QED BY <2>2, <2>3
<1>4. ASSUME NEW h \in Health, state' = WithHealth(state, TaskOf(w), h)
      PROVE  state'.shown[n].value > 0
  BY <1>0, <1>4, WithHealthFacts
<1> QED
  BY <1>1, <1>2, <1>3, <1>4, StateCases DEF AllClasses

\* A node that stays in the reports and is down, or whose connector fails, keeps the
\* resource values it had, through any alternation of reports and failures
\* (inheritNodeValues, ApplyConnectorError).
THEOREM ValuesAreKept == SchedSpec => KeepsLastKnownGood
<1>1. TypeInv /\ [SchedNext]_schedVars =>
        [\A n \in Nodes :
           /\ state.shown[n] # NoItem /\ state'.shown[n] # NoItem
           /\ state.shown[n].value > 0
           /\ ~ state'.shown[n].online \/ state'.shown[n].error # ErrNone
           => state'.shown[n].value > 0]_schedVars
  <2>1. ASSUME TypeInv, SchedNext, NEW n \in Nodes,
               state.shown[n] # NoItem, state'.shown[n] # NoItem, state.shown[n].value > 0,
               ~ state'.shown[n].online \/ state'.shown[n].error # ErrNone
        PROVE  state'.shown[n].value > 0
    BY <2>1, CallLeavesState, StepCases, StepKeepsValues
  <2> QED BY <2>1
<1> QED
  BY <1>1, TypeInit, TypeStep, PTL DEF SchedSpec, KeepsLastKnownGood

-----------------------------------------------------------------------------
(* The limits on what all connectors report together. *)

\* What is shown after an accepted report is the report and what others own.
LEMMA ReportCount ==
  ASSUME NEW s \in CurrentStates, NEW c \in Connectors, NEW at \in Nat,
         NEW report \in AllReports, ~ Refuses(s, c, report),
         NEW ids \in {Nodes, Services}, NEW limit \in Nat, ~ Crowded(s, c, report, ids, limit),
         NEW s2, s2 = WithHomeLab(s, c, at, report)
  PROVE  Cardinality({i \in ids : s2.shown[i] # NoItem}) <= limit
<1> DEFINE shown    == {i \in ids : s2.shown[i] # NoItem}
           others   == Others(s, c) \cap ids
           reported == DOMAIN report \cap ids
<1>1. shown \subseteq others \cup reported
  <2> SUFFICES ASSUME NEW i \in ids, s2.shown[i] # NoItem, i \notin DOMAIN report
               PROVE  i \in Others(s, c)
    OBVIOUS
  <2>1. i \in Items /\ i \notin Metrics
    BY StateAssumption DEF Items
  <2>2. s2.shown[i] = s.shown[i] /\ i \notin Owned(s, c)
    <3>1. \A j \in Items : s2.shown[j] =
            IF j \in DOMAIN report THEN Inherited(Reported(c, at, report, j), s.shown[j])
            ELSE IF j \in Owned(s, c) \ Metrics THEN NoItem ELSE s.shown[j]
      BY WithHomeLabFacts
    <3>2. s2.shown[i] = IF i \in Owned(s, c) \ Metrics THEN NoItem ELSE s.shown[i]
      BY <2>1, <3>1
    <3>3. i \notin Owned(s, c)
      BY <2>1, <3>2
    <3> QED BY <3>2, <3>3
  <2>3. s.shown[i].owner # Nobody
    BY <2>1, <2>2, ItemFacts DEF CurrentStates
  <2> QED BY <2>1, <2>2, <2>3 DEF Owned, Others
<1>2. IsFiniteSet(others) /\ IsFiniteSet(reported)
  BY StateAssumption, FS_Subset
<1>3. Cardinality(others) + Cardinality(reported) <= limit
  <2>1. Cardinality(others) \in Nat /\ Cardinality(reported) \in Nat
    BY <1>2, FS_CardinalityType
  <2> QED BY <2>1 DEF Crowded
<1> HIDE DEF shown, others, reported
<1>4. /\ IsFiniteSet(others \cup reported)
      /\ Cardinality(others \cup reported) =
           Cardinality(others) + Cardinality(reported) - Cardinality(others \cap reported)
  BY <1>2, FS_Union
<1>5. Cardinality(others \cap reported) \in Nat
  BY <1>2, FS_Intersection, FS_CardinalityType
<1>6. Cardinality(shown) <= Cardinality(others \cup reported)
  BY <1>1, <1>4, FS_Subset
<1>7. /\ Cardinality(others) \in Nat /\ Cardinality(reported) \in Nat
      /\ Cardinality(others \cup reported) \in Nat /\ Cardinality(shown) \in Nat
  BY <1>1, <1>2, <1>4, FS_CardinalityType, FS_Subset
<1>8. Cardinality(shown) <= limit
  BY <1>3, <1>4, <1>5, <1>6, <1>7
<1> QED
  BY <1>8 DEF shown

\* No step of a worker leads out of the limits.
LEMMA StepWithinLimits ==
  ASSUME TypeInv, WithinEntityLimits, NEW w \in Workers, WorkStep(w)
  PROVE  WithinEntityLimits'
<1>0. /\ TaskOf(w) \in Connectors /\ state \in CurrentStates /\ seq + 1 \in Nat
  BY WorkerFacts DEF TypeInv, SchedTypeOK
<1>1. ASSUME \A i \in Nodes \cup Services : state'.shown[i] # NoItem <=> state.shown[i] # NoItem
      PROVE  WithinEntityLimits'
  <2>1. /\ {i \in Nodes : state'.shown[i] # NoItem} = {i \in Nodes : state.shown[i] # NoItem}
        /\ {i \in Services : state'.shown[i] # NoItem} = {i \in Services : state.shown[i] # NoItem}
    BY <1>1
  <2> QED BY <2>1 DEF WithinEntityLimits
<1>2. ASSUME NEW class \in AllClasses, state' = WithError(state, TaskOf(w), class)
      PROVE  WithinEntityLimits'
  <2> SUFFICES ASSUME NEW i \in Nodes \cup Services
               PROVE  state'.shown[i] # NoItem <=> state.shown[i] # NoItem
    BY <1>1
  <2>0. \A j \in Items : j \notin Owned(state, TaskOf(w)) => state'.shown[j] = state.shown[j]
    BY <1>0, <1>2, WithErrorFacts
  <2>1. i \in Items /\ state.shown[i] \in Item \cup {NoItem}
    BY <1>0 DEF Items, CurrentStates
  <2>2. CASE i \in Owned(state, TaskOf(w))
    <3>1. state'.shown[i] = Annotated(state.shown[i], class)
      BY <1>0, <1>2, <2>1, <2>2, WithErrorFacts
    <3>2. state.shown[i] \in Item
      BY <1>0, <2>1, <2>2, StateAssumption, ItemFacts DEF Owned
    <3>3. state'.shown[i] \in Item
      BY <3>1, <3>2 DEF Item, Annotated
    <3> QED BY <3>2, <3>3, ItemFacts
  <2>3. CASE i \notin Owned(state, TaskOf(w))
    <3>1. state'.shown[i] = state.shown[i]
      BY <2>0, <2>1, <2>3
    <3> QED BY <3>1
  <2> QED BY <2>2, <2>3
<1>3. ASSUME work[w].reading \in Nat, work[w].batch \in SUBSET Metrics,
             state' = WithMetrics(state, TaskOf(w), seq + 1, work[w].reading, work[w].batch)
      PROVE  WithinEntityLimits'
  <2> SUFFICES ASSUME NEW i \in Nodes \cup Services
               PROVE  state'.shown[i] = state.shown[i]
    BY <1>1
  <2>1. /\ i \in Items
        /\ i \notin Taken(state, seq + 1, work[w].batch)
        /\ i \notin Withdrawn(state, TaskOf(w), seq + 1, work[w].batch)
    BY <1>3, StateAssumption DEF Taken, Withdrawn, Items
  <2> QED BY <1>0, <1>3, <2>1, WithMetricsFacts
<1>4. ASSUME work[w].reading \in Nat, work[w].report \in AllReports,
             ~ Refuses(state, TaskOf(w), work[w].report),
             state' = WithHomeLab(state, TaskOf(w), work[w].reading, work[w].report)
      PROVE  WithinEntityLimits'
  <2>1. /\ ~ Crowded(state, TaskOf(w), work[w].report, Nodes, NodeLimit)
        /\ ~ Crowded(state, TaskOf(w), work[w].report, Services, ServiceLimit)
    BY <1>4 DEF Refuses
  <2>2. Cardinality({i \in Nodes : state'.shown[i] # NoItem}) <= NodeLimit
    BY <1>0, <1>4, <2>1, ReportCount, StateAssumption
  <2>3. Cardinality({i \in Services : state'.shown[i] # NoItem}) <= ServiceLimit
    BY <1>0, <1>4, <2>1, ReportCount, StateAssumption
  <2> QED BY <2>2, <2>3 DEF WithinEntityLimits
<1>5. ASSUME NEW h \in Health, state' = WithHealth(state, TaskOf(w), h)
      PROVE  WithinEntityLimits'
  <2>1. state'.shown = state.shown
    BY <1>0, <1>5, WithHealthFacts
  <2> QED BY <1>1, <2>1
<1>6. ASSUME UNCHANGED state PROVE WithinEntityLimits'
  BY <1>6 DEF WithinEntityLimits
<1> QED
  BY <1>2, <1>3, <1>4, <1>5, <1>6, StateCases DEF AllClasses

\* However the reports of the connectors interleave, a snapshot never exceeds the
\* limits its receiver enforces (ApplyConnectorHomeLab).
THEOREM LimitsHold == SchedSpec => []WithinEntityLimits
<1>1. SchedInit => WithinEntityLimits
  <2>1. ASSUME SchedInit
        PROVE  \A i \in Items : state.shown[i] = NoItem
    BY <2>1 DEF SchedInit, EmptyState
  <2>2. ASSUME SchedInit
        PROVE  /\ {i \in Nodes : state.shown[i] # NoItem} = {}
               /\ {i \in Services : state.shown[i] # NoItem} = {}
    BY <2>1, <2>2 DEF Items
  <2> QED BY <2>2, FS_EmptySet, StateAssumption DEF WithinEntityLimits
<1>2. TypeInv /\ WithinEntityLimits /\ [SchedNext]_schedVars => WithinEntityLimits'
  <2>1. ASSUME TypeInv, WithinEntityLimits, SchedNext PROVE WithinEntityLimits'
    <3>1. ASSUME UNCHANGED state PROVE WithinEntityLimits'
      BY <2>1, <3>1 DEF WithinEntityLimits
    <3> QED BY <2>1, <3>1, CallLeavesState, StepCases, StepWithinLimits
  <2>2. ASSUME WithinEntityLimits, UNCHANGED schedVars PROVE WithinEntityLimits'
    BY <2>2 DEF WithinEntityLimits, schedVars
  <2> QED BY <2>1, <2>2
<1> QED
  BY <1>1, <1>2, TypeInit, TypeStep, PTL DEF SchedSpec

-----------------------------------------------------------------------------
(* The order of attempts. *)

Holding(w) == work[w].at \in {"slot", "collect", "store", "report"}

Exclusive == \A w \in Workers : Holding(w) => holder[TaskOf(w)] = w

SequenceAhead == \A m \in Metrics : state.observedSeq[m] <= seq

\* Who may own an item.
OwnItems ==
  /\ \A m \in Metrics : state.shown[m].owner # Nobody => state.shown[m].owner \in Sources[m]
  /\ \A i \in Nodes \cup Services :
       state.shown[i].owner # Nobody => state.shown[i].owner \in HomeLabReporters

AnswersOwn == \A c \in Connectors : answer[c] \subseteq MetricsOf(c)

\* Nothing a connector owns among these items is marked.
Unmarked(c, items) == \A i \in Owned(state, c) \cap items : state.shown[i].error = ErrNone

Carries(w) ==
  /\ work[w].at \in {"slot", "collect"} => Settled(TaskOf(w))
  /\ work[w].at \in {"store", "report"} => work[w].reading = reads[TaskOf(w)]
  /\ work[w].at = "store" => work[w].batch = answer[TaskOf(w)]
  /\ work[w].at = "report" => /\ TaskOf(w) \in HomeLabReporters
                              /\ ShowsAnswer(TaskOf(w))
                              /\ Unmarked(TaskOf(w), Metrics)

OrderInv ==
  /\ TypeInv
  /\ Exclusive
  /\ SequenceAhead
  /\ OwnItems
  /\ AnswersOwn
  /\ \A w \in Workers : Carries(w)
  /\ LastAttemptShows

-----------------------------------------------------------------------------
(* A step of a worker stays within its connector. *)

\* What is shown changes only where the connector owns it or may own it.
ShownConfined(c) ==
  \A i \in Items : state'.shown[i] # state.shown[i] =>
    /\ state.shown[i].owner \in {c, Nobody} /\ state'.shown[i].owner \in {c, Nobody}
    /\ i \in Metrics => c \in Sources[i]

Confined(c) ==
  /\ ShownConfined(c)
  /\ \A d \in Connectors \ {c} : /\ holder'[d] = holder[d] /\ answer'[d] = answer[d]
                                 /\ reads'[d] = reads[d] /\ outcome'[d] = outcome[d]

\* What other connectors show stays as it was.
LEMMA OthersUntouched ==
  ASSUME StateAssumption, NEW c \in Connectors, NEW d \in Connectors \ {c}, ShownConfined(c)
  PROVE  /\ \A m \in MetricsOf(d) : state'.shown[m] = state.shown[m]
         /\ Owned(state', d) = Owned(state, d)
         /\ \A i \in Owned(state, d) : state'.shown[i] = state.shown[i]
<1>1. \A m \in MetricsOf(d) : state'.shown[m] = state.shown[m]
  BY SchedulerAssumption DEF ShownConfined, MetricsOf, Items
<1>2. \A i \in Items : state.shown[i].owner = d \/ state'.shown[i].owner = d
                         => state'.shown[i] = state.shown[i]
  BY StateAssumption DEF ShownConfined
<1>3. Owned(state', d) = Owned(state, d)
  BY <1>2 DEF Owned
<1> QED
  BY <1>1, <1>2, <1>3 DEF Owned

\* So they stay as settled as they were.
LEMMA OthersSettled ==
  ASSUME NEW c \in Connectors, NEW d \in Connectors \ {c}, Confined(c)
  PROVE  /\ ShowsAnswer(d) => ShowsAnswer(d)'
         /\ Settled(d) => Settled(d)'
         /\ Unmarked(d, Metrics) => Unmarked(d, Metrics)'
<1>1. /\ \A m \in MetricsOf(d) : state'.shown[m] = state.shown[m]
      /\ Owned(state', d) = Owned(state, d)
      /\ \A i \in Owned(state, d) : state'.shown[i] = state.shown[i]
  BY OthersUntouched, StateAssumption DEF Confined
<1>2. answer'[d] = answer[d] /\ reads'[d] = reads[d] /\ outcome'[d] = outcome[d]
  BY DEF Confined
<1>3. ShowsAnswer(d) => ShowsAnswer(d)'
  BY <1>1, <1>2 DEF ShowsAnswer
<1>4. ShowsOutcome(d) => ShowsOutcome(d)'
  BY <1>1, <1>2 DEF ShowsOutcome
<1>5. Unmarked(d, Metrics) => Unmarked(d, Metrics)'
  BY <1>1 DEF Unmarked
<1> QED
  BY <1>3, <1>4, <1>5 DEF Settled

\* A worker that moves on alone in its connector keeps the order if it carries
\* what its new stage asks for.
LEMMA MovesAlone ==
  ASSUME OrderInv, NEW w \in Workers, NEW stage \in Stages, Goto(w, stage),
         Confined(TaskOf(w)),
         \A v \in Workers \ {w} : TaskOf(v) = TaskOf(w) => ~ Holding(v),
         stage.at \in {"slot", "collect", "store", "report"} => holder'[TaskOf(w)] = w,
         Carries(w)',
         holder'[TaskOf(w)] = NoWorker => Settled(TaskOf(w))'
  PROVE  Exclusive' /\ (\A v \in Workers : Carries(v)') /\ LastAttemptShows'
<1> USE DEF OrderInv
<1> DEFINE c == TaskOf(w)
<1>0. /\ c \in Connectors
      /\ \A v \in Workers : TaskOf(v) \in Connectors
  BY WorkerFacts
<1>1. /\ work'[w] = stage
      /\ \A v \in Workers \ {w} : work'[v] = work[v]
  BY SlotCount DEF TypeInv
<1>2. Exclusive'
  <2> SUFFICES ASSUME NEW v \in Workers, Holding(v)' PROVE holder'[TaskOf(v)] = v
    BY DEF Exclusive
  <2>1. CASE v = w
    BY <1>1, <2>1 DEF Holding
  <2>2. CASE v # w
    <3>1. Holding(v)
      BY <1>1, <2>2 DEF Holding
    <3>2. TaskOf(v) \in Connectors \ {c}
      BY <1>0, <2>2, <3>1
    <3> QED BY <3>1, <3>2 DEF Exclusive, Confined
  <2> QED BY <2>1, <2>2
<1>3. \A v \in Workers : Carries(v)'
  <2> SUFFICES ASSUME NEW v \in Workers \ {w} PROVE Carries(v)'
    OBVIOUS
  <2>1. work'[v] = work[v] /\ Carries(v)
    BY <1>1
  <2>2. CASE TaskOf(v) = c
    <3>1. ~ Holding(v)
      BY <2>2
    <3> QED BY <2>1, <3>1 DEF Carries, Holding
  <2>3. CASE TaskOf(v) # c
    <3> DEFINE d == TaskOf(v)
    <3>1. d \in Connectors \ {c}
      BY <1>0, <2>3
    <3>2. /\ answer'[d] = answer[d] /\ reads'[d] = reads[d]
          /\ ShowsAnswer(d) => ShowsAnswer(d)'
          /\ Settled(d) => Settled(d)'
          /\ Unmarked(d, Metrics) => Unmarked(d, Metrics)'
      BY <1>0, <3>1, OthersSettled DEF Confined
    <3> QED BY <2>1, <3>2 DEF Carries
  <2> QED BY <2>2, <2>3
<1>4. LastAttemptShows'
  <2> SUFFICES ASSUME NEW d \in Connectors, holder'[d] = NoWorker PROVE Settled(d)'
    BY DEF LastAttemptShows
  <2>1. CASE d = c
    BY <2>1
  <2>2. CASE d # c
    <3>1. holder[d] = NoWorker
      BY <2>2 DEF Confined
    <3> QED BY <1>0, <2>2, <3>1, OthersSettled DEF LastAttemptShows
  <2> QED BY <2>1, <2>2
<1> QED
  BY <1>2, <1>3, <1>4

-----------------------------------------------------------------------------
(* The operations on the state, seen from the connector they are made for. *)

\* Items of a typed state have a type.
LEMMA ShownFacts ==
  ASSUME TypeInv
  PROVE  /\ state \in CurrentStates /\ seq + 1 \in Nat
         /\ \A i \in Items : state.shown[i] \in Item \cup {NoItem}
         /\ \A i \in Items, c \in Connectors : i \in Owned(state, c) => state.shown[i] \in Item
<1>1. state \in CurrentStates /\ seq + 1 \in Nat
  BY DEF TypeInv, SchedTypeOK
<1>2. \A i \in Items : state.shown[i] \in Item \cup {NoItem}
  BY <1>1 DEF CurrentStates
<1> QED
  BY <1>1, <1>2, ItemFacts, StateAssumption DEF Owned

\* An annotation marks all the connector owns, and changes neither owners nor
\* readings.
LEMMA ErrorSettles ==
  ASSUME OrderInv, NEW c \in Connectors, NEW class \in AllClasses,
         state' = WithError(state, c, class), UNCHANGED <<answer, reads>>
  PROVE  /\ ShownConfined(c) /\ OwnItems'
         /\ state'.observedSeq = state.observedSeq
         /\ ShowsAnswer(c) => ShowsAnswer(c)'
         /\ \A i \in Owned(state', c) : state'.shown[i].error = class
<1> USE DEF OrderInv
<1>1. /\ state'.observedSeq = state.observedSeq
      /\ \A i \in Items : state'.shown[i] =
           IF i \in Owned(state, c) THEN Annotated(state.shown[i], class) ELSE state.shown[i]
  BY ShownFacts, WithErrorFacts
<1>2. \A i \in Items : i \notin Owned(state, c) => state'.shown[i] = state.shown[i]
  BY <1>1
<1>3. ASSUME NEW i \in Owned(state, c)
      PROVE  /\ i \in Items
             /\ state'.shown[i].owner = c /\ state'.shown[i].at = state.shown[i].at
             /\ state'.shown[i].error = class
  <2>1. i \in Items /\ state.shown[i].owner = c
    BY DEF Owned
  <2>2. state.shown[i] \in Item
    BY <2>1, ShownFacts
  <2>3. state'.shown[i] = Annotated(state.shown[i], class)
    BY <1>1, <2>1
  <2> QED BY <2>1, <2>2, <2>3 DEF Annotated, Item
<1>4. \A i \in Items : state'.shown[i].owner = state.shown[i].owner
  BY <1>2, <1>3 DEF Owned
<1>5. ShownConfined(c)
  <2> SUFFICES ASSUME NEW i \in Items, i \in Owned(state, c)
               PROVE  /\ state.shown[i].owner = c /\ state'.shown[i].owner = c
                      /\ i \in Metrics => c \in Sources[i]
    BY <1>2 DEF ShownConfined
  <2> QED BY <1>3, StateAssumption DEF Owned, OwnItems
<1>6. OwnItems'
  BY <1>4 DEF OwnItems, Items
<1>7. ASSUME ShowsAnswer(c) PROVE ShowsAnswer(c)'
  <2> SUFFICES ASSUME NEW m \in MetricsOf(c)
               PROVE  IF m \in answer[c]
                        THEN state'.shown[m].owner = c /\ state'.shown[m].at = reads[c]
                        ELSE state'.shown[m] = NoItem
    BY DEF ShowsAnswer
  <2>1. m \in Items
    BY DEF MetricsOf, Items
  <2>2. CASE m \in answer[c]
    <3>1. state.shown[m].owner = c /\ state.shown[m].at = reads[c]
      BY <1>7, <2>2 DEF ShowsAnswer
    <3> QED BY <1>3, <2>1, <2>2, <3>1 DEF Owned
  <2>3. CASE m \notin answer[c]
    <3>1. state.shown[m] = NoItem
      BY <1>7, <2>3 DEF ShowsAnswer
    <3>2. m \notin Owned(state, c)
      BY <3>1, StateAssumption DEF Owned, NoItem
    <3> QED BY <1>2, <2>1, <2>3, <3>1, <3>2
  <2> QED BY <2>2, <2>3
<1>8. \A i \in Owned(state', c) : state'.shown[i].error = class
  BY <1>3, <1>4 DEF Owned
<1> QED
  BY <1>1, <1>5, <1>6, <1>7, <1>8

\* Storing an answer shows it: no newer sequence was ever observed.
LEMMA MetricsSettle ==
  ASSUME OrderInv, NEW w \in Workers, work[w].at = "store",
         work[w].reading \in Nat, work[w].batch \in SUBSET Metrics,
         state' = WithMetrics(state, TaskOf(w), seq + 1, work[w].reading, work[w].batch),
         seq' = seq + 1, UNCHANGED <<answer, reads>>
  PROVE  /\ ShownConfined(TaskOf(w)) /\ OwnItems' /\ SequenceAhead'
         /\ ShowsAnswer(TaskOf(w))'
         /\ Unmarked(TaskOf(w), Metrics)'
         /\ \A i \in Items \ Metrics : state'.shown[i] = state.shown[i]
<1> USE DEF OrderInv
<1> DEFINE c == TaskOf(w)
           batch == work[w].batch
<1>0. /\ c \in Connectors /\ seq \in Nat
      /\ work[w].reading = reads[c] /\ batch = answer[c] /\ batch \subseteq MetricsOf(c)
  BY WorkerFacts DEF Carries, AnswersOwn, TypeInv, SchedTypeOK
<1>1. /\ \A m \in Metrics : state'.observedSeq[m] \in {state.observedSeq[m], seq + 1}
      /\ \A i \in Items : state'.shown[i] =
           IF i \in Taken(state, seq + 1, batch) THEN Measured(c, work[w].reading)
           ELSE IF i \in Withdrawn(state, c, seq + 1, batch) THEN NoItem ELSE state.shown[i]
  BY <1>0, ShownFacts, WithMetricsFacts
<1>2. \A m \in Metrics : state.observedSeq[m] \in Nat /\ seq + 1 > state.observedSeq[m]
  BY <1>0, ShownFacts DEF SequenceAhead, CurrentStates
<1>3. /\ Taken(state, seq + 1, batch) = batch
      /\ Withdrawn(state, c, seq + 1, batch) = (Owned(state, c) \cap Metrics) \ batch
  BY <1>2 DEF Taken, Withdrawn
<1>4. /\ \A i \in batch : state'.shown[i] = Measured(c, reads[c])
      /\ \A i \in Items \ batch : i \in Owned(state, c) \cap Metrics => state'.shown[i] = NoItem
      /\ \A i \in Items \ batch : i \notin Owned(state, c) \cap Metrics => state'.shown[i] = state.shown[i]
  BY <1>0, <1>1, <1>3 DEF Items
<1>5. /\ Measured(c, reads[c]).owner = c /\ Measured(c, reads[c]).at = reads[c]
      /\ Measured(c, reads[c]).error = ErrNone
      /\ NoItem.owner = Nobody /\ c # Nobody
  BY <1>0, StateAssumption DEF Measured, NoItem
<1>6. \A m \in MetricsOf(c) : state.shown[m].owner \in {c, Nobody}
  BY SchedulerAssumption DEF OwnItems, MetricsOf
<1>7. \A m \in MetricsOf(c) \ batch : state'.shown[m] = NoItem
  <2> SUFFICES ASSUME NEW m \in MetricsOf(c) \ batch PROVE state'.shown[m] = NoItem
    OBVIOUS
  <2>1. m \in Items /\ m \in Metrics
    BY DEF MetricsOf, Items
  <2>2. CASE state.shown[m].owner = c
    BY <1>4, <2>1, <2>2 DEF Owned
  <2>3. CASE state.shown[m].owner = Nobody
    BY <1>4, <1>5, <2>1, <2>3, ShownFacts, ItemFacts DEF Owned
  <2> QED BY <1>6, <2>2, <2>3
<1>8. ShowsAnswer(c)'
  BY <1>0, <1>4, <1>5, <1>7 DEF ShowsAnswer
<1>9. \A i \in Items \ Metrics : state'.shown[i] = state.shown[i]
  BY <1>4
<1>10. \A m \in Metrics : \/ m \in batch /\ state'.shown[m] = Measured(c, reads[c])
                          \/ m \in Owned(state, c) /\ state'.shown[m] = NoItem
                          \/ m \notin Owned(state, c) /\ state'.shown[m] = state.shown[m]
  BY <1>4 DEF Items
<1>11. OwnItems'
  <2>1. \A m \in Metrics : state'.shown[m].owner # Nobody => state'.shown[m].owner \in Sources[m]
    BY <1>0, <1>5, <1>10 DEF OwnItems, MetricsOf
  <2>2. \A i \in Nodes \cup Services : state'.shown[i] = state.shown[i]
    BY <1>9, StateAssumption DEF Items
  <2> QED BY <2>1, <2>2 DEF OwnItems
<1>12. SequenceAhead'
  BY <1>0, <1>1, <1>2 DEF SequenceAhead
<1>13. Unmarked(c, Metrics)'
  <2> SUFFICES ASSUME NEW m \in Metrics, state'.shown[m].owner = c
               PROVE  state'.shown[m].error = ErrNone
    BY DEF Unmarked, Owned
  <2> QED BY <1>5, <1>10 DEF Owned, Items
<1>14. ShownConfined(c)
  <2> SUFFICES ASSUME NEW i \in Items, state'.shown[i] # state.shown[i]
               PROVE  /\ state.shown[i].owner \in {c, Nobody} /\ state'.shown[i].owner \in {c, Nobody}
                      /\ i \in Metrics => c \in Sources[i]
    BY DEF ShownConfined
  <2>1. i \in Metrics
    BY <1>9
  <2>2. CASE i \in batch
    <3>1. i \in MetricsOf(c)
      BY <1>0, <2>2
    <3>2. state'.shown[i].owner = c
      BY <1>4, <1>5, <2>2
    <3> QED BY <1>6, <3>1, <3>2 DEF MetricsOf
  <2>3. CASE i \in Owned(state, c) /\ state'.shown[i] = NoItem
    BY <1>5, <2>1, <2>3 DEF Owned, OwnItems
  <2> QED BY <1>10, <2>1, <2>2, <2>3
<1> QED
  BY <1>8, <1>9, <1>11, <1>12, <1>13, <1>14

\* An accepted report replaces what the connector owned: everything it owns
\* besides its metrics comes from this reading and is not marked.
LEMMA ReportSettles ==
  ASSUME OrderInv, NEW w \in Workers, work[w].at = "report",
         work[w].reading \in Nat, work[w].report \in AllReports,
         ~ Refuses(state, TaskOf(w), work[w].report),
         state' = WithHomeLab(state, TaskOf(w), work[w].reading, work[w].report),
         UNCHANGED <<answer, reads>>
  PROVE  /\ ShownConfined(TaskOf(w)) /\ OwnItems'
         /\ state'.observedSeq = state.observedSeq
         /\ ShowsAnswer(TaskOf(w))'
         /\ Unmarked(TaskOf(w), Items)'
         /\ \A i \in Owned(state', TaskOf(w)) \ Metrics : state'.shown[i].at = reads[TaskOf(w)]
<1> USE DEF OrderInv
<1> DEFINE c == TaskOf(w)
           report == work[w].report
           New(i) == Inherited(Reported(c, reads[c], report, i), state.shown[i])
<1>0. /\ c \in Connectors /\ c \in HomeLabReporters
      /\ work[w].reading = reads[c] /\ ShowsAnswer(c) /\ Unmarked(c, Metrics)
  BY WorkerFacts DEF Carries
<1>1. /\ state'.observedSeq = state.observedSeq
      /\ DOMAIN report \subseteq Nodes \cup Services
      /\ \A i \in DOMAIN report : state.shown[i].owner \in {c, Nobody}
      /\ \A i \in Items : state'.shown[i] =
           IF i \in DOMAIN report THEN New(i)
           ELSE IF i \in Owned(state, c) \ Metrics THEN NoItem ELSE state.shown[i]
  BY <1>0, ShownFacts, WithHomeLabFacts
<1>2. \A i \in DOMAIN report : New(i).owner = c /\ New(i).at = reads[c] /\ New(i).error = ErrNone
  BY DEF Inherited, Reported
<1> HIDE DEF New
<1>3. NoItem.owner = Nobody /\ c # Nobody
  BY <1>0, StateAssumption DEF NoItem
<1>4. \A i \in Items : \/ i \in DOMAIN report /\ state'.shown[i] = New(i)
                       \/ i \in Owned(state, c) \ Metrics /\ state'.shown[i] = NoItem
                       \/ i \notin Owned(state, c) \ Metrics /\ state'.shown[i] = state.shown[i]
  BY <1>1
<1>5. \A m \in Metrics : state'.shown[m] = state.shown[m]
  BY <1>1, <1>4, StateAssumption DEF Items
<1>6. ShowsAnswer(c)'
  BY <1>0, <1>5 DEF ShowsAnswer, MetricsOf
<1>7. OwnItems'
  <2> SUFFICES ASSUME NEW i \in Nodes \cup Services, state'.shown[i].owner # Nobody
               PROVE  state'.shown[i].owner \in HomeLabReporters
    BY <1>5 DEF OwnItems
  <2> QED BY <1>0, <1>2, <1>3, <1>4 DEF OwnItems, Items
<1>8. ASSUME NEW i \in Owned(state', c)
      PROVE  /\ state'.shown[i].error = ErrNone
             /\ i \notin Metrics => state'.shown[i].at = reads[c]
  <2>1. i \in Items /\ state'.shown[i].owner = c
    BY DEF Owned
  <2>2. CASE i \in Metrics
    <3>1. state'.shown[i] = state.shown[i] /\ i \in Owned(state, c)
      BY <1>5, <2>1, <2>2 DEF Owned
    <3> QED BY <1>0, <2>2, <3>1 DEF Unmarked
  <2>3. CASE i \notin Metrics
    <3>1. i \in DOMAIN report /\ state'.shown[i] = New(i)
      BY <1>3, <1>4, <2>1, <2>3 DEF Owned
    <3> QED BY <1>2, <3>1
  <2> QED BY <2>2, <2>3
<1>9. ShownConfined(c)
  <2> SUFFICES ASSUME NEW i \in Items, state'.shown[i] # state.shown[i]
               PROVE  /\ state.shown[i].owner \in {c, Nobody} /\ state'.shown[i].owner \in {c, Nobody}
                      /\ i \notin Metrics
    BY DEF ShownConfined
  <2> QED BY <1>1, <1>2, <1>3, <1>4, <1>5 DEF Owned
<1> QED
  BY <1>1, <1>6, <1>7, <1>8, <1>9 DEF Unmarked

-----------------------------------------------------------------------------
(* The steps. *)

\* The holder is alone in its connector; so is whoever finds the lock free.
LEMMA Alone ==
  ASSUME OrderInv, NEW w \in Workers, Holding(w) \/ holder[TaskOf(w)] = NoWorker
  PROVE  /\ TaskOf(w) \in Connectors
         /\ \A v \in Workers \ {w} : TaskOf(v) = TaskOf(w) => ~ Holding(v)
         /\ Holding(w) => holder[TaskOf(w)] = w
BY WorkerFacts DEF OrderInv, Exclusive

\* The end of an attempt hands a settled connector over.
LEMMA EndsAttempt ==
  ASSUME OrderInv, NEW w \in Workers, InSlot(w),
         NEW class \in AllClasses \cup {ErrNone}, NEW reading \in Nat,
         Done(w, class, reading), UNCHANGED <<answer, reads>>,
         ShownConfined(TaskOf(w)), ShowsAnswer(TaskOf(w))',
         \A i \in Owned(state', TaskOf(w)) : state'.shown[i].error = class
  PROVE  Exclusive' /\ (\A v \in Workers : Carries(v)') /\ LastAttemptShows'
<1> DEFINE c == TaskOf(w)
           stage == Ended(class, reading)
<1>1. stage \in Stages /\ stage.at = "publish"
  BY StageFacts
<1>2. Goto(w, stage)
  BY DEF Done
<1> HIDE DEF stage
<1>3. /\ c \in Connectors
      /\ \A v \in Workers \ {w} : TaskOf(v) = TaskOf(w) => ~ Holding(v)
  BY Alone DEF InSlot, Holding
<1>4. Confined(c) /\ outcome'[c] = class
  BY <1>3 DEF Done, Confined, OrderInv, TypeInv, SchedTypeOK
<1>5. Settled(c)'
  BY <1>4 DEF Settled, ShowsOutcome
<1>6. work'[w] = stage
  BY <1>1, <1>2, SlotCount DEF OrderInv, TypeInv
<1>7. Carries(w)'
  BY <1>1, <1>6 DEF Carries
<1> QED
  BY <1>1, <1>2, <1>3, <1>4, <1>5, <1>7, MovesAlone

\* A step that shows the same confines what is shown to any connector.
LEMMA SameShown ==
  ASSUME UNCHANGED <<state, answer>>, OrderInv
  PROVE  /\ \A c \in Connectors : ShownConfined(c)
         /\ OwnItems' /\ AnswersOwn'
         /\ seq' = seq => SequenceAhead'
BY DEF ShownConfined, OrderInv, OwnItems, AnswersOwn, SequenceAhead

\* A worker keeps the order up to its answer.
LEMMA OrderUntilAnswer ==
  ASSUME OrderInv, NEW w \in Workers, Lock(w) \/ TakeSlot(w) \/ GiveUp(w)
  PROVE  OrderInv'
<1> DEFINE c == TaskOf(w)
<1>0. /\ TypeInv' /\ UNCHANGED <<state, seq, answer, reads, outcome>>
      /\ holder \in [Connectors -> Workers \cup {NoWorker}]
  BY WorkType DEF WorkStep, Lock, TakeSlot, GiveUp, history, OrderInv, TypeInv, SchedTypeOK
<1>1. c \in Connectors /\ ShownConfined(c) /\ OwnItems' /\ AnswersOwn' /\ SequenceAhead'
  BY <1>0, WorkerFacts, SameShown
<1>2. Settled(c) /\ \A v \in Workers \ {w} : TaskOf(v) = c => ~ Holding(v)
  <2>1. CASE Lock(w)
    BY <1>1, <2>1, Alone DEF Lock, OrderInv, LastAttemptShows
  <2>2. CASE TakeSlot(w) \/ GiveUp(w)
    <3>1. work[w].at = "slot" /\ Holding(w)
      BY <2>2, StageFacts DEF TakeSlot, GiveUp, Holding
    <3> QED BY <3>1, Alone DEF OrderInv, Carries
  <2> QED BY <2>1, <2>2
<1>3. Settled(c)'
  BY <1>0, <1>2 DEF Settled, ShowsAnswer, ShowsOutcome, Owned
<1>4. PICK stage \in Stages :
        /\ stage.at \in {"slot", "collect", "publish"} /\ Goto(w, stage)
        /\ stage.at \in {"slot", "collect"} => holder'[c] = w
        /\ \A d \in Connectors \ {c} : holder'[d] = holder[d]
  <2>1. CASE Lock(w)
    <3>1. Stage("slot") \in Stages /\ Stage("slot").at = "slot"
      BY StageFacts
    <3>2. Goto(w, Stage("slot")) /\ holder'[c] = w /\ \A d \in Connectors \ {c} : holder'[d] = holder[d]
      BY <1>0, <1>1, <2>1 DEF Lock
    <3> QED BY <3>1, <3>2
  <2>2. CASE TakeSlot(w)
    <3>1. holder[c] = w
      BY <2>2, StageFacts DEF TakeSlot, OrderInv, Exclusive, Holding
    <3>2. Stage("collect") \in Stages /\ Stage("collect").at = "collect"
      BY StageFacts
    <3>3. Goto(w, Stage("collect")) /\ UNCHANGED holder
      BY <2>2 DEF TakeSlot
    <3> QED BY <3>1, <3>2, <3>3
  <2>3. CASE GiveUp(w)
    <3>1. Ended("timeout", 0) \in Stages /\ Ended("timeout", 0).at = "publish"
      BY StageFacts DEF AllClasses
    <3>2. Goto(w, Ended("timeout", 0)) /\ \A d \in Connectors \ {c} : holder'[d] = holder[d]
      BY <1>0, <2>3 DEF GiveUp
    <3> QED BY <3>1, <3>2
  <2> QED BY <2>1, <2>2, <2>3
<1>5. Confined(c)
  BY <1>0, <1>1, <1>4 DEF Confined
<1>6. Carries(w)'
  <2>1. work'[w] = stage
    BY <1>4, SlotCount DEF OrderInv, TypeInv
  <2> QED BY <1>3, <1>4, <2>1 DEF Carries
<1>7. Exclusive' /\ (\A v \in Workers : Carries(v)') /\ LastAttemptShows'
  BY <1>2, <1>3, <1>4, <1>5, <1>6, MovesAlone
<1> QED
  BY <1>0, <1>1, <1>7 DEF OrderInv

\* An answer is carried by the one worker that may store it.
LEMMA OrderCollect ==
  ASSUME OrderInv, NEW w \in Workers, NEW batch \in SUBSET MetricsOf(TaskOf(w)),
         NEW report \in ReportsFrom(TaskOf(w)), Collect(w, batch, report)
  PROVE  OrderInv'
<1> DEFINE c == TaskOf(w)
           stage == [at |-> "store", reading |-> reads'[c], batch |-> batch, report |-> report]
<1>0. /\ TypeInv' /\ UNCHANGED <<state, seq, holder, outcome>>
      /\ Holding(w) /\ c \in Connectors
  BY WorkType, WorkerFacts, StageFacts DEF WorkStep, Ask, Collect, OrderInv, Holding
<1>1. /\ reads' = [reads EXCEPT ![c] = @ + 1] /\ reads \in [Connectors -> Nat]
      /\ answer' = [answer EXCEPT ![c] = batch] /\ answer \in [Connectors -> SUBSET Metrics]
      /\ Goto(w, stage)
  BY DEF Collect, OrderInv, TypeInv, SchedTypeOK
<1>2. stage \in Stages /\ stage.at = "store" /\ stage.reading = reads'[c] /\ stage.batch = answer'[c]
  BY <1>0, <1>1, ReportsFacts DEF Stages, MetricsOf
<1> HIDE DEF stage
<1>3. /\ \A v \in Workers \ {w} : TaskOf(v) = TaskOf(w) => ~ Holding(v)
      /\ holder'[c] = w /\ w # NoWorker
  BY <1>0, Alone, WorkerFacts
<1>4. Confined(c) /\ AnswersOwn' /\ OwnItems' /\ SequenceAhead'
  <2>1. ShownConfined(c) /\ OwnItems' /\ SequenceAhead'
    BY <1>0 DEF ShownConfined, OrderInv, OwnItems, SequenceAhead
  <2>2. AnswersOwn'
    BY <1>0, <1>1 DEF OrderInv, AnswersOwn, MetricsOf
  <2> QED BY <1>0, <1>1, <2>1, <2>2 DEF Confined
<1>5. Carries(w)'
  <2>1. work'[w] = stage
    BY <1>1, <1>2, SlotCount DEF OrderInv, TypeInv
  <2> QED BY <1>2, <2>1 DEF Carries
<1>6. Exclusive' /\ (\A v \in Workers : Carries(v)') /\ LastAttemptShows'
  BY <1>1, <1>2, <1>3, <1>4, <1>5, MovesAlone
<1> QED
  BY <1>0, <1>4, <1>6 DEF OrderInv

\* A failed attempt leaves its connector marked.
LEMMA OrderFail ==
  ASSUME OrderInv, NEW w \in Workers, NEW class \in AllClasses, InSlot(w),
         ShowsAnswer(TaskOf(w)),
         state' = WithError(state, TaskOf(w), class), Done(w, class, 0),
         UNCHANGED <<seq, answer, reads>>, TypeInv'
  PROVE  OrderInv'
<1> DEFINE c == TaskOf(w)
<1>1. c \in Connectors
  BY WorkerFacts
<1>2. /\ ShownConfined(c) /\ OwnItems'
      /\ state'.observedSeq = state.observedSeq
      /\ ShowsAnswer(c)'
      /\ \A i \in Owned(state', c) : state'.shown[i].error = class
  BY <1>1, ErrorSettles
<1>3. Exclusive' /\ (\A v \in Workers : Carries(v)') /\ LastAttemptShows'
  BY <1>2, EndsAttempt
<1>4. SequenceAhead' /\ AnswersOwn'
  BY <1>2 DEF OrderInv, SequenceAhead, AnswersOwn
<1> QED
  BY <1>2, <1>3, <1>4 DEF OrderInv

\* Storing the metrics of an answer, which ends the attempt of a connector without
\* reports.
LEMMA OrderMetrics ==
  ASSUME OrderInv, NEW w \in Workers, StoreMetrics(w)
  PROVE  OrderInv'
<1> DEFINE c == TaskOf(w)
<1>0. /\ TypeInv' /\ work[w].at = "store" /\ work[w] \in Stages
      /\ work[w].reading \in Nat /\ work[w].batch \in SUBSET Metrics
      /\ InSlot(w) /\ Holding(w)
  BY WorkType, StageFacts DEF WorkStep, Store, StoreMetrics, OrderInv, TypeInv, SchedTypeOK, InSlot, Holding
<1>1. UNCHANGED <<answer, reads>> /\ seq' = seq + 1
  BY DEF StoreMetrics
<1>2. state' = WithMetrics(state, c, seq + 1, work[w].reading, work[w].batch)
  BY DEF StoreMetrics
<1>3. /\ ShownConfined(c) /\ OwnItems' /\ SequenceAhead'
      /\ ShowsAnswer(c)'
      /\ Unmarked(c, Metrics)'
      /\ \A i \in Items \ Metrics : state'.shown[i] = state.shown[i]
  BY <1>0, <1>1, <1>2, MetricsSettle
<1>4. c \in Connectors /\ AnswersOwn'
  BY <1>1, WorkerFacts DEF OrderInv, AnswersOwn
<1>5. Exclusive' /\ (\A v \in Workers : Carries(v)') /\ LastAttemptShows'
  <2>1. CASE c \in HomeLabReporters
    <3> DEFINE stage == [work[w] EXCEPT !.at = "report"]
    <3>1. /\ stage \in Stages /\ stage.at = "report" /\ stage.reading = work[w].reading
          /\ Goto(w, stage) /\ UNCHANGED <<holder, outcome>>
      BY <1>0, <2>1 DEF StoreMetrics, Stages, Stage
    <3> HIDE DEF stage
    <3>2. work'[w] = stage
      BY <3>1, SlotCount DEF OrderInv, TypeInv
    <3>3. Carries(w)'
      BY <1>0, <1>1, <1>3, <2>1, <3>1, <3>2 DEF Carries, OrderInv
    <3>4. Confined(c)
      BY <1>1, <1>3, <3>1 DEF Confined
    <3>5. /\ \A v \in Workers \ {w} : TaskOf(v) = TaskOf(w) => ~ Holding(v)
          /\ holder'[c] = w /\ w # NoWorker
      BY <1>0, <3>1, Alone, WorkerFacts
    <3> QED BY <3>1, <3>3, <3>4, <3>5, MovesAlone
  <2>2. CASE c \notin HomeLabReporters
    <3>1. Done(w, ErrNone, work[w].reading)
      BY <2>2 DEF StoreMetrics
    <3>2. \A i \in Owned(state', c) : state'.shown[i].error = ErrNone
      <4> SUFFICES ASSUME NEW i \in Owned(state', c), i \notin Metrics PROVE FALSE
        BY <1>3 DEF Unmarked
      <4>1. i \in Nodes \cup Services /\ state'.shown[i].owner = c
        BY DEF Owned, Items
      <4> QED BY <1>3, <1>4, <2>2, <4>1, StateAssumption DEF OwnItems
    <3> QED BY <1>0, <1>1, <1>3, <3>1, <3>2, EndsAttempt
  <2> QED BY <2>1, <2>2
<1> QED
  BY <1>0, <1>3, <1>4, <1>5 DEF OrderInv

\* Storing the report, or marking the connector because it is refused.
LEMMA OrderReport ==
  ASSUME OrderInv, NEW w \in Workers, StoreHomeLab(w)
  PROVE  OrderInv'
<1> DEFINE c == TaskOf(w)
<1>0. /\ TypeInv' /\ work[w].at = "report" /\ InSlot(w)
      /\ work[w].reading \in Nat /\ work[w].report \in AllReports
      /\ ShowsAnswer(c)
  BY WorkType, StageFacts
     DEF WorkStep, Store, StoreHomeLab, OrderInv, TypeInv, SchedTypeOK, InSlot, Carries
<1>1. UNCHANGED <<seq, answer, reads>>
  BY DEF StoreHomeLab
<1>2. CASE Refuses(state, c, work[w].report)
  <2>1. state' = WithError(state, c, "schema_changed") /\ Done(w, "schema_changed", 0)
    BY <1>2 DEF StoreHomeLab
  <2>2. "schema_changed" \in AllClasses
    BY DEF AllClasses
  <2> QED BY <1>0, <1>1, <2>1, <2>2, OrderFail
<1>3. CASE ~ Refuses(state, c, work[w].report)
  <2>1. /\ state' = WithHomeLab(state, c, work[w].reading, work[w].report)
        /\ Done(w, ErrNone, work[w].reading)
    BY <1>3 DEF StoreHomeLab
  <2>2. /\ ShownConfined(c) /\ OwnItems'
        /\ state'.observedSeq = state.observedSeq
        /\ ShowsAnswer(c)'
        /\ Unmarked(c, Items)'
    BY <1>0, <1>1, <1>3, <2>1, ReportSettles
  <2>3. \A i \in Owned(state', c) : state'.shown[i].error = ErrNone
    BY <2>2 DEF Unmarked, Owned
  <2>4. Exclusive' /\ (\A v \in Workers : Carries(v)') /\ LastAttemptShows'
    BY <1>0, <1>1, <2>1, <2>2, <2>3, EndsAttempt
  <2>5. SequenceAhead' /\ AnswersOwn'
    BY <1>1, <2>2 DEF OrderInv, SequenceAhead, AnswersOwn
  <2> QED BY <1>0, <2>2, <2>4, <2>5 DEF OrderInv
<1> QED
  BY <1>2, <1>3

\* A step that leaves what is shown, and every worker that holds a lock, leaves the
\* order.
LEMMA OrderElsewhere ==
  ASSUME OrderInv, TypeInv', UNCHANGED <<seq, holder, answer, reads, outcome>>,
         state'.shown = state.shown, state'.observedSeq = state.observedSeq,
         \A w \in Workers : work'[w] = work[w] \/ ~ Holding(w)'
  PROVE  OrderInv'
<1> USE DEF OrderInv
<1>1. /\ \A c \in Connectors : ShowsAnswer(c) => ShowsAnswer(c)'
      /\ \A c \in Connectors : Settled(c) => Settled(c)'
      /\ \A c \in Connectors : Unmarked(c, Metrics) => Unmarked(c, Metrics)'
  BY DEF Settled, ShowsAnswer, ShowsOutcome, Owned, Unmarked
<1>2. ASSUME NEW w \in Workers PROVE Carries(w)' /\ (Holding(w)' => holder'[TaskOf(w)] = w)
  <2>1. TaskOf(w) \in Connectors
    BY WorkerFacts
  <2>2. CASE work'[w] = work[w]
    <3>1. Carries(w) /\ (Holding(w)' => Holding(w))
      BY <2>2 DEF Holding
    <3> QED BY <1>1, <2>1, <2>2, <3>1 DEF Carries, Exclusive
  <2>3. CASE ~ Holding(w)'
    BY <2>3 DEF Holding, Carries
  <2> QED BY <2>2, <2>3
<1>3. OwnItems' /\ SequenceAhead' /\ AnswersOwn' /\ LastAttemptShows'
  BY <1>1 DEF OwnItems, SequenceAhead, AnswersOwn, LastAttemptShows
<1> QED
  BY <1>2, <1>3 DEF Exclusive

\* A step of a worker keeps the order.
LEMMA WorkOrder ==
  ASSUME OrderInv, NEW w \in Workers, WorkStep(w)
  PROVE  OrderInv'
<1>1. CASE Lock(w) \/ TakeSlot(w) \/ GiveUp(w)
  BY <1>1, OrderUntilAnswer
<1>2. CASE Ask(w)
  <2>1. ASSUME NEW class \in Classes, FailCollect(w, class) PROVE OrderInv'
    <3>1. work[w].at = "collect" /\ InSlot(w) /\ class \in AllClasses
      BY <2>1, StageFacts DEF FailCollect, InSlot, AllClasses
    <3>2. ShowsAnswer(TaskOf(w))
      BY <3>1 DEF OrderInv, Carries, Settled
    <3>3. TypeInv'
      BY WorkType DEF OrderInv
    <3> QED BY <2>1, <3>1, <3>2, <3>3, OrderFail DEF FailCollect
  <2> QED BY <1>2, <2>1, OrderCollect DEF Ask
<1>3. CASE Store(w)
  BY <1>3, OrderMetrics, OrderReport DEF Store
<1>4. CASE PublishHealth(w)
  <2>1. /\ UNCHANGED <<seq, holder, answer, reads, outcome>> /\ Goto(w, Idle)
        /\ TypeInv'
    BY <1>4, WorkType DEF PublishHealth, history, OrderInv
  <2>2. \E h \in Health : state' = WithHealth(state, TaskOf(w), h)
    BY <1>4, PublishFacts DEF OrderInv
  <2>3. state'.shown = state.shown /\ state'.observedSeq = state.observedSeq
    BY <2>2, ShownFacts, WorkerFacts, WithHealthFacts DEF OrderInv
  <2>4. /\ Idle \in Stages /\ Idle.at = "idle"
    BY StageFacts
  <2>5. \A v \in Workers : work'[v] = work[v] \/ ~ Holding(v)'
    BY <2>1, <2>4, SlotCount DEF OrderInv, TypeInv, Holding
  <2> QED BY <2>1, <2>3, <2>5, OrderElsewhere
<1> QED
  BY <1>1, <1>2, <1>3, <1>4 DEF WorkStep

\* A step of a call keeps the order: it moves workers that hold nothing.
LEMMA CallOrder ==
  ASSUME OrderInv, NEW r \in Refreshes,
         \/ \E selected \in SUBSET Connectors : Refresh(r, selected)
         \/ Expire(r) \/ Return(r)
  PROVE  OrderInv'
<1>1. TypeInv' /\ UNCHANGED <<state, seq, holder, answer, reads, outcome>>
  BY CallType DEF OrderInv, Refresh, Expire, Return, history
<1>2. \A w \in Workers : work'[w] = work[w] \/ ~ Holding(w)'
  BY StageFacts DEF Refresh, Expire, Return, Holding
<1> QED
  BY <1>1, <1>2, OrderElsewhere

\* The order holds at the start.
LEMMA OrderInit == SchedInit => OrderInv
<1> SUFFICES ASSUME SchedInit PROVE OrderInv
  OBVIOUS
<1>1. /\ TypeInv
      /\ \A i \in Items : state.shown[i] = NoItem
      /\ \A w \in Workers : work[w].at = "idle"
  BY TypeInit, StageFacts DEF SchedInit, EmptyState
<1>2. /\ NoItem.owner = Nobody
      /\ \A m \in Metrics : state.observedSeq[m] = 0
      /\ \A c \in Connectors : answer[c] = {} /\ c # Nobody
      /\ seq = 0
  BY StateAssumption DEF NoItem, SchedInit, EmptyState
<1>3. Exclusive /\ (\A w \in Workers : Carries(w))
  BY <1>1 DEF Exclusive, Holding, Carries
<1>4. SequenceAhead /\ OwnItems /\ AnswersOwn
  BY <1>1, <1>2 DEF SequenceAhead, OwnItems, AnswersOwn, Items
<1>5. \A c \in Connectors : Owned(state, c) = {}
  BY <1>1, <1>2 DEF Owned
<1>6. LastAttemptShows
  BY <1>1, <1>2, <1>5 DEF LastAttemptShows, Settled, ShowsAnswer, ShowsOutcome, MetricsOf, Items
<1> QED
  BY <1>1, <1>3, <1>4, <1>6 DEF OrderInv

\* Every step keeps the order.
LEMMA OrderStep == OrderInv /\ [SchedNext]_schedVars => OrderInv'
<1>1. ASSUME OrderInv, SchedNext PROVE OrderInv'
  BY <1>1, StepCases, CallOrder, WorkOrder
<1>2. ASSUME OrderInv, UNCHANGED schedVars PROVE OrderInv'
  <2>1. TypeInv'
    BY <1>2, TypeStep DEF OrderInv
  <2> QED BY <1>2, <2>1, OrderElsewhere DEF schedVars, history
<1> QED
  BY <1>1, <1>2

\* While nobody collects from a connector, what is shown of it is its newest
\* answer, marked with how its last attempt ended: the lock of the connector puts
\* its attempts, the scheduled ones and those of refreshes, in an order
\* (collectTask, collectOnce).
THEOREM AttemptsInOrder == SchedSpec => []LastAttemptShows
<1>1. OrderInv => LastAttemptShows
  BY DEF OrderInv
<1> QED
  BY <1>1, OrderInit, OrderStep, PTL DEF SchedSpec

-----------------------------------------------------------------------------
(* What a refresh may rely on. *)

\* A refresh remembers no more answers than were given.
AskedBefore ==
  \A r \in Refreshes : call[r] # NoCall =>
    \A c \in Connectors : call[r].asked[c] <= reads[c]

\* Once a refresh has had its turn in a connector, every answer still to be stored
\* was given after it was asked for.
LaterReadings ==
  \A r \in Refreshes : call[r] # NoCall =>
    \A c \in call[r].selected : work[<<r, c>>].at # "lock" =>
      \A v \in Workers : TaskOf(v) = c /\ work[v].at \in {"store", "report"} =>
        reads[c] > call[r].asked[c]

FreshInv == OrderInv /\ AskedBefore /\ LaterReadings /\ RefreshAnswersFresh

Fresh(r, c) ==
  \A i \in Owned(state, c) :
    state.shown[i].at > call[r].asked[c] \/ state.shown[i].error # ErrNone

\* The refreshes that are done with a connector in time.
DoneWith(c) ==
  {r \in Refreshes : /\ call[r] # NoCall /\ ~ call[r].expired
                     /\ c \in call[r].selected
                     /\ work[<<r, c>>].at \in {"idle", "publish"}}

\* The property, by connector.
LEMMA FreshByConnector ==
  ASSUME TypeInv
  PROVE  RefreshAnswersFresh <=> \A c \in Connectors : \A r \in DoneWith(c) : Fresh(r, c)
<1>1. \A r \in Refreshes : call[r] # NoCall => call[r].selected \subseteq Connectors
  BY DEF TypeInv, SchedTypeOK, Calls
<1> QED
  BY <1>1 DEF RefreshAnswersFresh, DoneWith, Fresh

\* And after a step.
LEMMA FreshByConnectorNext ==
  ASSUME TypeInv'
  PROVE  RefreshAnswersFresh' <=> \A c \in Connectors : \A r \in DoneWith(c)' : Fresh(r, c)'
<1>1. \A r \in Refreshes : call'[r] # NoCall => call'[r].selected \subseteq Connectors
  BY DEF TypeInv, SchedTypeOK, Calls
<1> QED
  BY <1>1 DEF RefreshAnswersFresh, DoneWith, Fresh

\* A step of a worker concerns the refreshes of its own connector only.
LEMMA FreshStep ==
  ASSUME FreshInv, OrderInv', NEW w \in Workers, UNCHANGED call,
         \A v \in Workers \ {w} : work'[v] = work[v],
         ShownConfined(TaskOf(w)),
         \A r \in DoneWith(TaskOf(w))' : Fresh(r, TaskOf(w))'
  PROVE  RefreshAnswersFresh'
<1> SUFFICES ASSUME NEW d \in Connectors, NEW r \in DoneWith(d)', d # TaskOf(w)
             PROVE  Fresh(r, d)'
  BY FreshByConnectorNext DEF OrderInv
<1>1. r \in DoneWith(d)
  <2>1. r \in Refreshes /\ <<r, d>> \in Workers /\ TaskOf(<<r, d>>) = d
    BY WorkerFacts DEF DoneWith, TaskOf
  <2>2. work'[<<r, d>>] = work[<<r, d>>]
    BY <2>1
  <2> QED BY <2>2 DEF DoneWith
<1>2. Fresh(r, d)
  BY <1>1, FreshByConnector DEF FreshInv, OrderInv
<1>3. /\ Owned(state', d) = Owned(state, d)
      /\ \A i \in Owned(state, d) : state'.shown[i] = state.shown[i]
  BY WorkerFacts, StateAssumption, OthersUntouched
<1> QED
  BY <1>2, <1>3 DEF Fresh

\* What is shown after a step of the metrics of a connector that shows its answer
\* was read last.
LEMMA NewestMetrics ==
  ASSUME OrderInv', NEW c \in Connectors, ShowsAnswer(c)'
  PROVE  \A i \in Owned(state', c) \cap Metrics : state'.shown[i].at = reads'[c]
<1> SUFFICES ASSUME NEW i \in Owned(state', c) \cap Metrics PROVE state'.shown[i].at = reads'[c]
  OBVIOUS
<1>1. i \in MetricsOf(c) /\ state'.shown[i] # NoItem
  BY StateAssumption DEF Owned, OrderInv, OwnItems, MetricsOf, NoItem
<1> QED
  BY <1>1 DEF ShowsAnswer

\* An answer to store is a later one for every refresh that is past the lock.
LEMMA LaterFor ==
  ASSUME FreshInv, NEW w \in Workers, work[w].at \in {"store", "report"},
         NEW r \in Refreshes, call[r] # NoCall, TaskOf(w) \in call[r].selected,
         work[<<r, TaskOf(w)>>].at # "lock"
  PROVE  reads[TaskOf(w)] > call[r].asked[TaskOf(w)]
BY DEF FreshInv, LaterReadings

\* A step of a worker moves that worker alone, and never back to the lock.
LEMMA WorkMoves ==
  ASSUME TypeInv, NEW w \in Workers, WorkStep(w)
  PROVE  /\ UNCHANGED call
         /\ work'[w].at \in {"slot", "collect", "store", "report", "publish", "idle"}
         /\ \A v \in Workers \ {w} : work'[v] = work[v]
<1>1. work \in [Workers -> Stages]
  BY DEF TypeInv, SchedTypeOK
<1>2. CASE Lock(w) \/ TakeSlot(w) \/ GiveUp(w)
  BY <1>1, <1>2 DEF Lock, TakeSlot, GiveUp, Goto, Stage, Ended
<1>3. CASE Ask(w)
  BY <1>1, <1>3 DEF Ask, Collect, FailCollect, Done, Goto, Ended
<1>4. CASE StoreMetrics(w)
  <2>1. work[w] \in [at : {"store", "report"}, reading : Nat, batch : SUBSET Metrics, report : AllReports]
    BY <1>1, <1>4 DEF StoreMetrics, Stages, Stage
  <2> QED BY <1>1, <1>4, <2>1 DEF StoreMetrics, Done, Goto, Ended
<1>5. CASE StoreHomeLab(w)
  BY <1>1, <1>5 DEF StoreHomeLab, Done, Goto, Ended
<1>6. CASE PublishHealth(w)
  BY <1>1, <1>6 DEF PublishHealth, Goto, Idle
<1> QED
  BY <1>2, <1>3, <1>4, <1>5, <1>6 DEF WorkStep, Store

\* A worker on the way to its answer is not done, unless its refresh expired.
LEMMA StepOnTheWay ==
  ASSUME TypeInv, NEW w \in Workers,
         \/ Lock(w) \/ TakeSlot(w) \/ GiveUp(w)
         \/ \E batch \in SUBSET MetricsOf(TaskOf(w)), report \in ReportsFrom(TaskOf(w)) :
              Collect(w, batch, report)
  PROVE  \A r \in DoneWith(TaskOf(w))' : <<r, TaskOf(w)>> # w
<1>1. work \in [Workers -> Stages] /\ w \in Workers
  BY DEF TypeInv, SchedTypeOK
<1>2. CASE GiveUp(w)
  <2>1. call[ByWhom(w)].expired /\ UNCHANGED call
    BY <1>2 DEF GiveUp
  <2> QED BY <2>1 DEF DoneWith, ByWhom
<1>3. CASE ~ GiveUp(w)
  <2>1. work'[w].at \in {"slot", "collect", "store"}
    BY <1>1, <1>3 DEF Lock, TakeSlot, Collect, Goto, Stage
  <2> QED BY <2>1 DEF DoneWith
<1> QED
  BY <1>2, <1>3

\* The metrics of a connector with reports are followed by its report.
LEMMA ReportNext ==
  ASSUME TypeInv, NEW w \in Workers, StoreMetrics(w), TaskOf(w) \in HomeLabReporters
  PROVE  work'[w].at = "report"
<1>1. work \in [Workers -> Stages]
  BY DEF TypeInv, SchedTypeOK
<1>2. work[w] \in [at : {"store", "report"}, reading : Nat, batch : SUBSET Metrics, report : AllReports]
  BY <1>1 DEF StoreMetrics, Stages, Stage
<1> QED
  BY <1>1, <1>2 DEF StoreMetrics, Goto

\* A step of a worker leaves refreshes fresh.
LEMMA WorkFresh ==
  ASSUME FreshInv, NEW w \in Workers, WorkStep(w), OrderInv'
  PROVE  RefreshAnswersFresh'
<1> DEFINE c == TaskOf(w)
<1>0. /\ c \in Connectors
      /\ TypeInv /\ OrderInv
      /\ UNCHANGED call
      /\ work'[w].at \in {"slot", "collect", "store", "report", "publish", "idle"}
      /\ \A v \in Workers \ {w} : work'[v] = work[v]
  BY WorkerFacts, WorkMoves DEF FreshInv, OrderInv
<1>1. \A r \in Refreshes : <<r, c>> # w => work'[<<r, c>>] = work[<<r, c>>]
  BY <1>0, WorkerFacts
<1>2. \A r \in DoneWith(c)' : <<r, c>> # w => r \in DoneWith(c)
  BY <1>0, <1>1 DEF DoneWith
<1>3. \A r \in DoneWith(c) : Fresh(r, c)
  BY <1>0, FreshByConnector DEF FreshInv
<1>4. \A r \in Calls : r.asked \in [Connectors -> Nat]
  BY DEF Calls
<1>5. ASSUME state'.shown = state.shown, \A r \in DoneWith(c)' : <<r, c>> # w \/ r \in DoneWith(c)
      PROVE  RefreshAnswersFresh'
  <2>1. ShownConfined(c)
    BY <1>5 DEF ShownConfined
  <2>2. \A r \in DoneWith(c)' : Fresh(r, c)'
    BY <1>0, <1>2, <1>3, <1>5 DEF Fresh, Owned
  <2> QED BY <1>0, <2>1, <2>2, FreshStep
<1>6. ASSUME NEW class \in AllClasses, state' = WithError(state, c, class),
             UNCHANGED <<answer, reads>>
      PROVE  RefreshAnswersFresh'
  <2>1. ShownConfined(c) /\ \A i \in Owned(state', c) : state'.shown[i].error = class
    BY <1>0, <1>6, ErrorSettles
  <2>2. \A r \in DoneWith(c)' : Fresh(r, c)'
    BY <2>1, StateAssumption DEF Fresh
  <2> QED BY <1>0, <2>1, <2>2, FreshStep
<1>7. CASE Lock(w) \/ TakeSlot(w) \/ GiveUp(w)
  <2>1. \A r \in DoneWith(c)' : <<r, c>> # w
    BY <1>0, <1>7, StepOnTheWay
  <2> QED BY <1>5, <1>7, <2>1 DEF Lock, TakeSlot, GiveUp
<1>8. CASE Ask(w)
  <2>1. ASSUME NEW class \in Classes, FailCollect(w, class) PROVE RefreshAnswersFresh'
    BY <1>6, <2>1 DEF FailCollect, AllClasses
  <2>2. ASSUME NEW batch \in SUBSET MetricsOf(c), NEW report \in ReportsFrom(c),
               Collect(w, batch, report)
        PROVE  RefreshAnswersFresh'
    <3>1. \A r \in DoneWith(c)' : <<r, c>> # w
      <4>1. \E b \in SUBSET MetricsOf(c), s \in ReportsFrom(c) : Collect(w, b, s)
        BY <2>2
      <4> QED BY <1>0, <4>1, StepOnTheWay
    <3> QED BY <1>5, <2>2, <3>1 DEF Collect
  <2> QED BY <1>8, <2>1, <2>2 DEF Ask
<1>9. ASSUME work[w].at \in {"store", "report"}, UNCHANGED reads,
             NEW r \in DoneWith(c)'
      PROVE  reads'[c] > call'[r].asked[c]
  <2>1. work[<<r, c>>].at # "lock"
    BY <1>0, <1>1, <1>9 DEF DoneWith
  <2> QED BY <1>0, <1>9, <2>1, LaterFor DEF DoneWith
<1>10. CASE StoreMetrics(w)
  <2>1. /\ work[w].at = "store" /\ work[w].reading \in Nat /\ work[w].batch \in SUBSET Metrics
        /\ UNCHANGED <<answer, reads>> /\ seq' = seq + 1
        /\ state' = WithMetrics(state, c, seq + 1, work[w].reading, work[w].batch)
    BY <1>0, <1>10, StageFacts DEF StoreMetrics, TypeInv, SchedTypeOK
  <2>2. /\ ShownConfined(c) /\ ShowsAnswer(c)'
        /\ \A i \in Items \ Metrics : state'.shown[i] = state.shown[i]
    BY <1>0, <2>1, MetricsSettle
  <2>3. \A i \in Owned(state', c) \cap Metrics : state'.shown[i].at = reads'[c]
    BY <1>0, <2>2, NewestMetrics
  <2>4. ASSUME NEW r \in DoneWith(c)', NEW i \in Owned(state', c) \ Metrics
        PROVE  state'.shown[i].at > call'[r].asked[c] \/ state'.shown[i].error # ErrNone
    <3>1. state'.shown[i] = state.shown[i] /\ i \in Owned(state, c)
      BY <2>2 DEF Owned
    <3>2. <<r, c>> # w
      <4>1. c \in HomeLabReporters
        BY <3>1, <1>0, StateAssumption DEF OrderInv, OwnItems, Owned, Items
      <4> QED BY <1>10, <4>1, ReportNext DEF DoneWith, FreshInv, OrderInv
    <3> QED BY <1>0, <1>2, <1>3, <3>1, <3>2 DEF Fresh
  <2>5. \A r \in DoneWith(c)' : Fresh(r, c)'
    BY <1>9, <2>1, <2>3, <2>4 DEF Fresh
  <2> QED BY <1>0, <2>2, <2>5, FreshStep
<1>11. CASE StoreHomeLab(w)
  <2>1. /\ work[w].at = "report" /\ work[w].reading \in Nat /\ work[w].report \in AllReports
        /\ UNCHANGED <<answer, reads>>
    BY <1>0, <1>11, StageFacts DEF StoreHomeLab, TypeInv, SchedTypeOK
  <2>2. CASE state' = WithError(state, c, "schema_changed")
    BY <1>6, <2>1, <2>2 DEF AllClasses
  <2>3. ASSUME ~ Refuses(state, c, work[w].report),
               state' = WithHomeLab(state, c, work[w].reading, work[w].report)
        PROVE  RefreshAnswersFresh'
    <3>1. /\ ShownConfined(c) /\ ShowsAnswer(c)'
          /\ \A i \in Owned(state', c) \ Metrics : state'.shown[i].at = reads[c]
      BY <1>0, <2>1, <2>3, ReportSettles
    <3>2. \A i \in Owned(state', c) \cap Metrics : state'.shown[i].at = reads'[c]
      BY <1>0, <3>1, NewestMetrics
    <3>3. \A r \in DoneWith(c)' : Fresh(r, c)'
      BY <1>9, <2>1, <3>1, <3>2 DEF Fresh
    <3> QED BY <1>0, <3>1, <3>3, FreshStep
  <2> QED BY <1>11, <2>2, <2>3 DEF StoreHomeLab
<1>12. CASE PublishHealth(w)
  <2>1. state'.shown = state.shown
    BY <1>0, <1>12, PublishFacts, WithHealthFacts, ShownFacts
  <2>2. \A r \in DoneWith(c)' : r \in DoneWith(c)
    BY <1>0, <1>2, <1>12 DEF PublishHealth, DoneWith
  <2> QED BY <1>5, <2>1, <2>2
<1> QED
  BY <1>7, <1>8, <1>10, <1>11, <1>12 DEF WorkStep, Store

\* Only Lock leaves the lock.
LEMMA OnlyLockUnlocks ==
  ASSUME TypeInv, NEW w \in Workers, WorkStep(w),
         NEW v \in Workers, work[v].at = "lock", work'[v].at # "lock"
  PROVE  v = w /\ Lock(w)
<1>1. v = w
  BY WorkMoves
<1> QED
  BY <1>1, StageFacts DEF WorkStep, TakeSlot, GiveUp, Ask, Collect, FailCollect, Store,
                         StoreMetrics, StoreHomeLab, PublishHealth

\* It leads to the wait for a slot.
LEMMA LockNext ==
  ASSUME TypeInv, NEW w \in Workers, Lock(w)
  PROVE  work'[w].at = "slot"
BY DEF TypeInv, SchedTypeOK, Lock, Goto, Stage

\* Only an answer brings something to store.
LEMMA OnlyAnswersAreStored ==
  ASSUME TypeInv, NEW w \in Workers, WorkStep(w),
         NEW v \in Workers, work[v].at \notin {"store", "report"}, work'[v].at \in {"store", "report"}
  PROVE  v = w /\ reads' = [reads EXCEPT ![TaskOf(w)] = @ + 1]
<1>1. v = w
  BY WorkMoves
<1>2. work \in [Workers -> Stages]
  BY DEF TypeInv, SchedTypeOK
<1>3. CASE Lock(w) \/ TakeSlot(w) \/ GiveUp(w)
  BY <1>1, <1>2, <1>3 DEF Lock, TakeSlot, GiveUp, Goto, Stage, Ended
<1>4. CASE Ask(w)
  BY <1>1, <1>2, <1>4 DEF Ask, Collect, FailCollect, Done, Goto, Ended
<1>5. CASE Store(w)
  BY <1>1, <1>5 DEF Store, StoreMetrics, StoreHomeLab
<1>6. CASE PublishHealth(w)
  BY <1>1, <1>2, <1>6 DEF PublishHealth, Goto, Idle
<1> QED
  BY <1>3, <1>4, <1>5, <1>6 DEF WorkStep

\* A step of a worker leaves later readings to be stored.
LEMMA WorkLater ==
  ASSUME FreshInv, NEW w \in Workers, WorkStep(w), OrderInv'
  PROVE  AskedBefore' /\ LaterReadings'
<1> DEFINE c == TaskOf(w)
<1>0. /\ c \in Connectors /\ TypeInv /\ OrderInv
      /\ UNCHANGED call
      /\ \A v \in Workers \ {w} : work'[v] = work[v]
      /\ reads \in [Connectors -> Nat]
      /\ \A r \in Refreshes : call[r] # NoCall =>
           call[r].selected \subseteq Connectors /\ call[r].asked \in [Connectors -> Nat]
  BY WorkerFacts, WorkMoves DEF FreshInv, OrderInv, TypeInv, SchedTypeOK, Calls
<1>1. reads' = reads \/ reads' = [reads EXCEPT ![c] = @ + 1]
  BY DEF WorkStep, Lock, TakeSlot, GiveUp, Ask, Collect, FailCollect, Store, StoreMetrics,
         StoreHomeLab, PublishHealth, history
<1>2. \A d \in Connectors : reads'[d] \in Nat /\ reads'[d] >= reads[d]
  BY <1>0, <1>1
<1>3. AskedBefore'
  BY <1>0, <1>2 DEF FreshInv, AskedBefore
<1>4. LaterReadings'
  <2> SUFFICES ASSUME NEW r \in Refreshes, call'[r] # NoCall,
                      NEW d \in call'[r].selected, work'[<<r, d>>].at # "lock",
                      NEW v \in Workers, TaskOf(v) = d, work'[v].at \in {"store", "report"}
               PROVE  reads'[d] > call'[r].asked[d]
    BY DEF LaterReadings
  <2>0. /\ call[r] # NoCall /\ d \in call[r].selected /\ d \in Connectors
        /\ call[r].asked \in [Connectors -> Nat] /\ <<r, d>> \in Workers /\ TaskOf(<<r, d>>) = d
    BY <1>0, WorkerFacts DEF TaskOf
  <2>1. CASE work[<<r, d>>].at # "lock" /\ work[v].at \in {"store", "report"}
    <3>1. reads[d] > call[r].asked[d]
      BY <2>0, <2>1 DEF FreshInv, LaterReadings
    <3> QED BY <1>0, <1>2, <2>0, <3>1
  <2>2. CASE work[<<r, d>>].at = "lock"
    <3>1. <<r, d>> = w /\ Lock(w)
      BY <1>0, <2>0, <2>2, OnlyLockUnlocks
    <3>2. v # w /\ work'[v] = work[v] /\ Holding(v) /\ TaskOf(v) = c
      BY <1>0, <2>0, <3>1, LockNext DEF Holding
    <3> QED BY <1>0, <3>1, <3>2, Alone DEF Lock
  <2>3. CASE work[v].at \notin {"store", "report"}
    <3>1. v = w /\ reads' = [reads EXCEPT ![c] = @ + 1]
      BY <1>0, <2>3, OnlyAnswersAreStored
    <3>2. call[r].asked[d] <= reads[d]
      BY <2>0 DEF FreshInv, AskedBefore
    <3> QED BY <1>0, <2>0, <3>1, <3>2
  <2> QED BY <2>1, <2>2, <2>3
<1> QED
  BY <1>3, <1>4

\* The steps of a call: a new one finds its workers at the lock.
LEMMA CallFresh ==
  ASSUME FreshInv, NEW r \in Refreshes,
         \/ \E selected \in SUBSET Connectors : Refresh(r, selected)
         \/ Expire(r) \/ Return(r)
  PROVE  FreshInv'
<1>1. OrderInv'
  BY CallOrder DEF FreshInv
<1>2. /\ TypeInv /\ UNCHANGED <<state, reads>>
      /\ reads \in [Connectors -> Nat]
      /\ \A q \in Refreshes : call[q] # NoCall => call[q] \in Calls
      /\ call \in [Refreshes -> Calls \cup {NoCall}]
  BY DEF FreshInv, OrderInv, TypeInv, SchedTypeOK, Refresh, Expire, Return
<1>3. ASSUME NEW selected \in SUBSET Connectors, Refresh(r, selected) PROVE FreshInv'
  <2>1. /\ call'[r] = [selected |-> selected, asked |-> reads, expired |-> FALSE]
        /\ \A q \in Refreshes \ {r} : call'[q] = call[q]
    BY <1>2, <1>3 DEF Refresh
  <2>2. /\ \A w \in Workers : ByWhom(w) = r /\ TaskOf(w) \in selected => work'[w].at = "lock"
        /\ \A w \in Workers : work'[w] = work[w] \/ work'[w].at = "lock"
        /\ \A w \in Workers : ByWhom(w) # r => work'[w] = work[w]
    BY <1>3, StageFacts DEF Refresh
  <2>3. \A q \in Refreshes, d \in Connectors :
          <<q, d>> \in Workers /\ ByWhom(<<q, d>>) = q /\ TaskOf(<<q, d>>) = d
    BY WorkerFacts DEF ByWhom, TaskOf
  <2>4. AskedBefore'
    BY <1>2, <2>1 DEF FreshInv, AskedBefore
  <2>5. LaterReadings'
    <3> SUFFICES ASSUME NEW q \in Refreshes, call'[q] # NoCall,
                        NEW d \in call'[q].selected, work'[<<q, d>>].at # "lock",
                        NEW v \in Workers, TaskOf(v) = d, work'[v].at \in {"store", "report"}
                 PROVE  reads'[d] > call'[q].asked[d]
      BY DEF LaterReadings
    <3>1. q # r
      BY <2>1, <2>2, <2>3
    <3>2. work'[<<q, d>>] = work[<<q, d>>] /\ work'[v] = work[v]
      BY <2>2, <2>3, <3>1, WorkerFacts
    <3> QED BY <1>2, <2>1, <3>1, <3>2 DEF FreshInv, LaterReadings
  <2>6. RefreshAnswersFresh'
    <3>1. ASSUME NEW d \in Connectors, NEW q \in DoneWith(d)' PROVE Fresh(q, d)'
      <4>1. q # r
        BY <2>1, <2>2, <2>3, <3>1 DEF DoneWith
      <4>2. q \in DoneWith(d)
        BY <2>1, <2>2, <2>3, <3>1, <4>1 DEF DoneWith
      <4>3. Fresh(q, d)
        BY <1>2, <4>2, FreshByConnector DEF FreshInv
      <4> QED BY <1>2, <2>1, <3>1, <4>1, <4>3 DEF Fresh, DoneWith, Owned
    <3> QED BY <1>1, <3>1, FreshByConnectorNext DEF OrderInv
  <2> QED BY <1>1, <2>4, <2>5, <2>6 DEF FreshInv
<1>4. CASE Expire(r) \/ Return(r)
  <2>1. /\ UNCHANGED work
        /\ \A q \in Refreshes \ {r} : call'[q] = call[q]
        /\ call[r] \in Calls
    BY <1>2, <1>4 DEF Expire, Return
  <2>2. \A q \in Refreshes : call'[q] # NoCall =>
          /\ call[q] # NoCall
          /\ call'[q].selected = call[q].selected /\ call'[q].asked = call[q].asked
          /\ ~ call'[q].expired => ~ call[q].expired
    <3>1. CASE Expire(r)
      <4>1. call'[r] = [call[r] EXCEPT !.expired = TRUE] /\ call[r] # NoCall
        BY <1>2, <3>1 DEF Expire
      <4> QED BY <2>1, <4>1 DEF Calls
    <3>2. CASE Return(r)
      <4>1. call'[r] = NoCall
        BY <1>2, <3>2 DEF Return
      <4> QED BY <2>1, <4>1
    <3> QED BY <1>4, <3>1, <3>2
  <2> QED BY <1>1, <1>2, <2>1, <2>2
          DEF FreshInv, AskedBefore, LaterReadings, RefreshAnswersFresh, Owned
<1> QED
  BY <1>3, <1>4

\* Every step keeps it.
LEMMA FreshInductive == FreshInv /\ [SchedNext]_schedVars => FreshInv'
<1>1. ASSUME FreshInv, SchedNext PROVE FreshInv'
  <2>1. OrderInv'
    BY <1>1, OrderStep DEF FreshInv
  <2> QED BY <1>1, <2>1, StepCases, CallFresh, WorkFresh, WorkLater DEF FreshInv
<1>2. ASSUME FreshInv, UNCHANGED schedVars PROVE FreshInv'
  <2>1. OrderInv'
    BY <1>2, OrderStep DEF FreshInv
  <2> QED BY <1>2, <2>1
          DEF FreshInv, AskedBefore, LaterReadings, RefreshAnswersFresh, Owned, schedVars, history
<1> QED
  BY <1>1, <1>2

\* A refresh that is done in time leaves nothing of its connectors that is older
\* than its request and not marked as failed: it waits for the attempt under way
\* and makes its own (Refresh, collectTask).
THEOREM RefreshesAnswerFresh == SchedSpec => []RefreshAnswersFresh
<1>1. SchedInit => FreshInv
  BY OrderInit DEF SchedInit, FreshInv, AskedBefore, LaterReadings, RefreshAnswersFresh
<1>2. FreshInv => RefreshAnswersFresh
  BY DEF FreshInv
<1> QED
  BY <1>1, <1>2, FreshInductive, PTL DEF SchedSpec

=============================================================================
