----------------------------- MODULE Scheduler ------------------------------
(***************************************************************************)
(* Collection: the scheduler's goroutines                                  *)
(* (src/internal/scheduler/scheduler.go) over the current state.           *)
(*                                                                         *)
(* Run starts one worker per connector, which collects again and again.    *)
(* Refresh, called for an accepted refresh command, starts one worker per  *)
(* selected connector and returns when all have ended.  A worker takes the *)
(* connector's lock, then one of MaxConcurrency slots, asks the upstream,  *)
(* stores what it got (metrics first, the HomeLab report after them),      *)
(* gives slot and lock back and only then publishes its health record.     *)
(*                                                                         *)
(* Abstractions.                                                           *)
(*  - Delays (backoff, jitter, start-up stagger) are arbitrary, so the     *)
(*    failure count that selects them and next_attempt_at are left out.    *)
(*  - The time of a success is the reading it brought.                     *)
(*  - A batch that fails validation is an upstream failure of its own      *)
(*    class: both annotate and store nothing.                              *)
(*  - HomeLab() always has a report: no connector's fails.                 *)
(*  - A refusal of the report and the annotation that follows it are one   *)
(*    step: no other worker touches this connector's items in between.     *)
(*  - Disabled connectors are left out: they publish one constant record   *)
(*    and Refresh refuses them before it starts anything.  So are the      *)
(*    health records of the mock connector's fixture, and the end of the   *)
(*    process, after which the state is gone (SnapshotSync).               *)
(*                                                                         *)
(* A definition X_flaw is X with a plausible mistake in it.  No action     *)
(* uses it: it serves to see that the properties notice the mistake.       *)
(***************************************************************************)
EXTENDS CurrentState, Functions

CONSTANTS
  Sources,         \* item -> the connectors that may report it; a metric id
                   \* starts with its connector's, so it has one at most
  HomeLabReporters,\* the connectors that implement HomeLabReporter
  Refreshes,       \* concurrent calls of Refresh
  MaxConcurrency,  \* 4 in the code
  MaxReads         \* bound: successful answers of the upstreams

ASSUME SchedulerAssumption ==
  /\ IsFiniteSet(Connectors) /\ IsFiniteSet(Refreshes)
  /\ Sources \in [Items -> SUBSET Connectors]
  /\ \A m \in Metrics : \A c, d \in Sources[m] : c = d
  /\ HomeLabReporters \subseteq Connectors
  /\ Refreshes \cap {"run", "nobody"} = {}
  /\ MaxConcurrency \in Nat \ {0}
  /\ MaxReads \in Nat

Workers    == ({"run"} \cup Refreshes) \X Connectors
ByWhom(w)  == w[1]
TaskOf(w)  == w[2]
NoWorker   == <<"nobody", "nobody">>
NoCall     == [selected |-> {}]

VARIABLES
  state,       \* Current
  seq,         \* Scheduler.seq
  work,        \* where each worker is, and what it carries
  remembered,  \* its last success: runTask's local, Refresh's previousHealth
  holder,      \* who holds taskMu of each connector
  slots,       \* len(sem)
  call,        \* the running calls of Refresh
  reads,       \* successful answers each upstream has given
  answer,      \* history: the metrics in the newest answer of each upstream
  outcome      \* history: how the last finished attempt of each ended

schedVars == <<state, seq, work, remembered, holder, slots, call, reads, answer, outcome>>
history   == <<answer, outcome>>

MetricsOf(c)  == {m \in Metrics : c \in Sources[m]}
EntitiesOf(c) == {i \in Nodes \cup Services : c \in Sources[i]}

\* A report says which of its nodes and services are up.
Reports(c) ==
  UNION {{r \in [D -> BOOLEAN] : \A i \in D \cap Services : r[i]} : D \in SUBSET EntitiesOf(c)}

NoReport == [i \in {} |-> TRUE]

ReportsFrom(c) == IF c \in HomeLabReporters THEN Reports(c) ELSE {NoReport}

AllReports == UNION {[D -> BOOLEAN] : D \in SUBSET (Nodes \cup Services)}

Idle          == [at |-> "idle"]
Stage(name)   == [at |-> name]
Ended(class, reading) == [at |-> "publish", class |-> class, reading |-> reading]

Stages ==
  {Stage(name) : name \in {"idle", "lock", "slot", "collect"}}
    \cup [at : {"store", "report"}, reading : Nat, batch : SUBSET Metrics, report : AllReports]
    \cup [at : {"publish"}, class : AllClasses \cup {ErrNone}, reading : Nat]

Calls == [selected : SUBSET Connectors, asked : [Connectors -> Nat], expired : BOOLEAN]

InSlot(w) == work[w].at \in {"collect", "store", "report"}

-----------------------------------------------------------------------------
SchedInit ==
  /\ state = EmptyState
  /\ seq = 0
  /\ work = [w \in Workers |-> Idle]
  /\ remembered = [w \in Workers |-> 0]
  /\ holder = [c \in Connectors |-> NoWorker]
  /\ slots = 0
  /\ call = [r \in Refreshes |-> NoCall]
  /\ reads = [c \in Connectors |-> 0]
  /\ answer = [c \in Connectors |-> {}]
  /\ outcome = [c \in Connectors |-> ErrNone]

Goto(w, stage) == work' = [work EXCEPT ![w] = stage]

\* Refresh: remember the health records, then start a worker per connector.
Refresh(r, selected) ==
  /\ call[r] = NoCall
  /\ selected # {}
  /\ call' = [call EXCEPT ![r] = [selected |-> selected, asked |-> reads, expired |-> FALSE]]
  /\ work' = [w \in Workers |-> IF ByWhom(w) = r /\ TaskOf(w) \in selected
                                  THEN Stage("lock") ELSE work[w]]
  /\ remembered' = [w \in Workers |->
       IF ByWhom(w) = r /\ TaskOf(w) \in selected /\ state.health[TaskOf(w)] # NoHealth
         THEN state.health[TaskOf(w)].lastSuccess ELSE remembered[w]]
  /\ UNCHANGED <<state, seq, holder, slots, reads, history>>

\* The 35 s of refreshAfterAccepted are over.
Expire(r) ==
  /\ call[r] # NoCall
  /\ ~ call[r].expired
  /\ call' = [call EXCEPT ![r].expired = TRUE]
  /\ UNCHANGED <<state, seq, work, remembered, holder, slots, reads, history>>

Return(r) ==
  /\ call[r] # NoCall
  /\ \A c \in call[r].selected : work[<<r, c>>] = Idle
  /\ call' = [call EXCEPT ![r] = NoCall]
  /\ UNCHANGED <<state, seq, work, remembered, holder, slots, reads, history>>

-----------------------------------------------------------------------------
(* collectTask and collectOnce. *)

Lock_none(w) ==
  /\ work[w] = IF ByWhom(w) = "run" THEN Idle ELSE Stage("lock")
  /\ holder' = [holder EXCEPT ![TaskOf(w)] = w]
  /\ Goto(w, Stage("slot"))
  /\ UNCHANGED <<state, seq, remembered, slots, call, reads, history>>

\* collectTask takes the lock; runTask's delay ends at any time before.
Lock(w) ==
  /\ work[w] = IF ByWhom(w) = "run" THEN Idle ELSE Stage("lock")
  /\ holder[TaskOf(w)] = NoWorker
  /\ holder' = [holder EXCEPT ![TaskOf(w)] = w]
  /\ Goto(w, Stage("slot"))
  /\ UNCHANGED <<state, seq, remembered, slots, call, reads, history>>

TakeSlot(w) ==
  /\ work[w] = Stage("slot")
  /\ slots < MaxConcurrency
  /\ slots' = slots + 1
  /\ Goto(w, Stage("collect"))
  /\ UNCHANGED <<state, seq, remembered, holder, call, reads, history>>

\* The context ends while waiting for a slot: a timeout that annotates nothing.
GiveUp(w) ==
  /\ work[w] = Stage("slot")
  /\ ByWhom(w) \in Refreshes /\ call[ByWhom(w)].expired
  /\ holder' = [holder EXCEPT ![TaskOf(w)] = NoWorker]
  /\ Goto(w, Ended("timeout", 0))
  /\ UNCHANGED <<state, seq, remembered, slots, call, reads, history>>

\* The upstream answers.
Collect(w, batch, report) ==
  LET c == TaskOf(w) IN
  /\ work[w] = Stage("collect")
  /\ SumFunction(reads) < MaxReads
  /\ reads' = [reads EXCEPT ![c] = @ + 1]
  /\ answer' = [answer EXCEPT ![c] = batch]
  /\ Goto(w, [at |-> "store", reading |-> reads'[c], batch |-> batch, report |-> report])
  /\ UNCHANGED <<state, seq, remembered, holder, slots, call, outcome>>

Done_keepsSlot(w, class, reading) ==
  /\ holder' = [holder EXCEPT ![TaskOf(w)] = NoWorker]
  /\ slots' = IF class = ErrNone THEN slots - 1 ELSE slots
  /\ outcome' = [outcome EXCEPT ![TaskOf(w)] = class]
  /\ Goto(w, Ended(class, reading))

\* The deferred releases, and the result the caller gets.
Done(w, class, reading) ==
  /\ holder' = [holder EXCEPT ![TaskOf(w)] = NoWorker]
  /\ slots' = slots - 1
  /\ outcome' = [outcome EXCEPT ![TaskOf(w)] = class]
  /\ Goto(w, Ended(class, reading))

\* The upstream fails or its answer cannot be used.
FailCollect(w, class) ==
  /\ work[w] = Stage("collect")
  /\ state' = WithError(state, TaskOf(w), class)
  /\ Done(w, class, 0)
  /\ UNCHANGED <<seq, remembered, call, reads, answer>>

StoreMetrics(w) ==
  LET c == TaskOf(w) IN
  /\ work[w].at = "store"
  /\ seq' = seq + 1
  /\ state' = WithMetrics(state, c, seq', work[w].reading, work[w].batch)
  /\ IF c \in HomeLabReporters
       THEN /\ Goto(w, [work[w] EXCEPT !.at = "report"])
            /\ UNCHANGED <<holder, slots, outcome>>
       ELSE Done(w, ErrNone, work[w].reading)
  /\ UNCHANGED <<remembered, call, reads, answer>>

StoreHomeLab(w) ==
  LET c == TaskOf(w) IN
  /\ work[w].at = "report"
  /\ \/ /\ Refuses(state, c, work[w].report)
        /\ state' = WithError(state, c, "schema_changed")
        /\ Done(w, "schema_changed", 0)
     \/ /\ ~ Refuses(state, c, work[w].report)
        /\ state' = WithHomeLab(state, c, work[w].reading, work[w].report)
        /\ Done(w, ErrNone, work[w].reading)
  /\ UNCHANGED <<seq, remembered, call, reads, answer>>

\* publishHealth, after the lock is given back.
PublishHealth(w) ==
  LET last == IF work[w].class = ErrNone THEN work[w].reading ELSE remembered[w] IN
  /\ work[w].at = "publish"
  /\ state' = WithHealth(state, TaskOf(w), [class |-> work[w].class, lastSuccess |-> last])
  /\ remembered' = [remembered EXCEPT ![w] = IF ByWhom(w) = "run" THEN last ELSE 0]
  /\ Goto(w, Idle)
  /\ UNCHANGED <<seq, holder, slots, call, reads, history>>

-----------------------------------------------------------------------------
Ask(w) ==
  \/ \E batch \in SUBSET MetricsOf(TaskOf(w)), report \in ReportsFrom(TaskOf(w)) :
       Collect(w, batch, report)
  \/ \E class \in Classes : FailCollect(w, class)

Store(w) == StoreMetrics(w) \/ StoreHomeLab(w)

SchedNext ==
  \/ \E r \in Refreshes, selected \in SUBSET Connectors : Refresh(r, selected)
  \/ \E r \in Refreshes : Expire(r) \/ Return(r)
  \/ \E w \in Workers : Lock(w) \/ TakeSlot(w) \/ GiveUp(w) \/ Ask(w) \/ Store(w) \/ PublishHealth(w)

SchedSpec == SchedInit /\ [][SchedNext]_schedVars

\* A mutex and a channel hand over in turn, every call of an upstream is bounded
\* by a timeout, and a goroutine that can run does.
SchedFairness ==
  /\ \A r \in Refreshes : WF_schedVars(Return(r))
  /\ \A w \in Workers :
       /\ SF_schedVars(Lock(w)) /\ SF_schedVars(TakeSlot(w))
       /\ WF_schedVars(Ask(w)) /\ WF_schedVars(Store(w)) /\ WF_schedVars(PublishHealth(w))

LiveSchedSpec == SchedSpec /\ SchedFairness

-----------------------------------------------------------------------------
(* Properties. *)

\* Every variable has its type, and the slots in use are the workers between
\* taking and releasing one.
SchedTypeOK ==
  /\ state \in CurrentStates
  /\ seq \in Nat
  /\ work \in [Workers -> Stages]
  /\ remembered \in [Workers -> Nat]
  /\ holder \in [Connectors -> Workers \cup {NoWorker}]
  /\ slots = Cardinality({w \in Workers : InSlot(w)})
  /\ slots <= MaxConcurrency
  /\ call \in [Refreshes -> Calls \cup {NoCall}]
  /\ reads \in [Connectors -> Nat]
  /\ answer \in [Connectors -> SUBSET Metrics]
  /\ outcome \in [Connectors -> AllClasses \cup {ErrNone}]

ShowsAnswer(c) ==
  \A m \in MetricsOf(c) :
    IF m \in answer[c]
      THEN state.shown[m].owner = c /\ state.shown[m].at = reads[c]
      ELSE state.shown[m] = NoItem

ShowsOutcome(c) == \A i \in Owned(state, c) : state.shown[i].error = outcome[c]

Settled(c) == ShowsAnswer(c) /\ ShowsOutcome(c)

\* While nobody is collecting from a connector, exactly the metrics of its
\* newest answer are shown, and all it owns is marked with how its last attempt
\* ended: a slow answer never overwrites a newer one (collectTask's lock).
LastAttemptShows == \A c \in Connectors : holder[c] = NoWorker => Settled(c)

\* When a refresh is done with a connector in time, everything shown of it was
\* read after the refresh was asked for, or is marked as failed (Refresh).
RefreshAnswersFresh ==
  \A r \in Refreshes : call[r] # NoCall /\ ~ call[r].expired =>
    \A c \in call[r].selected : work[<<r, c>>].at \in {"idle", "publish"} =>
      \A i \in Owned(state, c) :
        state.shown[i].at > call[r].asked[c] \/ state.shown[i].error # ErrNone

\* However the reports of several connectors interleave, the snapshot stays
\* within the limits its receiver enforces (ApplyConnectorHomeLab).
WithinEntityLimits ==
  /\ Cardinality({i \in Nodes : state.shown[i] # NoItem}) <= NodeLimit
  /\ Cardinality({i \in Services : state.shown[i] # NoItem}) <= ServiceLimit

\* No step changes what a snapshot shows under the same version: the display
\* keeps what it has unless the version is higher.
EveryChangeIsVersioned ==
  [][ state'.shown # state.shown \/ state'.health # state.health
        => state'.version # state.version ]_schedVars

\* A node that stays in the reports and is down, or whose connector fails, never
\* loses the resource values it had (inheritNodeValues, ApplyConnectorError).
KeepsLastKnownGood ==
  [][ \A n \in Nodes :
        /\ state.shown[n] # NoItem /\ state'.shown[n] # NoItem
        /\ state.shown[n].value > 0
        /\ ~ state'.shown[n].online \/ state'.shown[n].error # ErrNone
        => state'.shown[n].value > 0 ]_schedVars

\* Every connector is asked again and again, whatever the others and the calls
\* of Refresh do (Run).
EveryConnectorIsAsked ==
  \A c \in Connectors : []<><<Ask(<<"run", c>>)>>_schedVars

\* Every call of Refresh comes to an end.
RefreshReturns ==
  \A r \in Refreshes : call[r] # NoCall ~> call[r] = NoCall

\* A failed attempt keeps the connector's last success on record: "Health 保留
\* 最后成功时间" (.vibe/Test-Module-001-NodeDataCollection.md:38).
FailureKeepsLastSuccess ==
  [][ \A c \in Connectors :
        /\ state.health[c] # NoHealth
        /\ state'.health[c] # state.health[c]
        /\ state'.health[c].class # ErrNone
        => state'.health[c].lastSuccess >= state.health[c].lastSuccess ]_schedVars

=============================================================================
