----------------------------- MODULE PageRouter -----------------------------
(***************************************************************************)
(* Which page the display shows: the router (src/internal/ui/pages.go)     *)
(* under the draw loop (src/cmd/homepi-display/main.go), the remote        *)
(* commands of the controller, and the snapshots whose critical values     *)
(* pre-empt rotation (DisplayStatus).                                      *)
(*                                                                         *)
(* Time is discrete and relative: lag is what has passed since the         *)
(* router's last, and a remote page or an override carries what is left    *)
(* until its end.                                                          *)
(*                                                                         *)
(* Abstractions.                                                           *)
(*  - The loop draws every second and after a snapshot, so no two draws    *)
(*    are further apart than MaxLag, which is less than any dwell: the     *)
(*    loop of advanceLocked turns at most once.                            *)
(*  - A snapshot is replaced as a whole; the one read from disk at start   *)
(*    may be of any age, so may be any that follows.  An age counts up to  *)
(*    MaxAge, where everything is stale.                                   *)
(*  - A configured order names every page once and has CODING              *)
(*    (ParseRotationConfig refuses anything else).                         *)
(*                                                                         *)
(* A definition X_flaw is X with a plausible mistake in it.  No action     *)
(* uses it: it serves to see that the properties notice the mistake.       *)
(***************************************************************************)
EXTENDS DisplayStatus, Sequences

CONSTANTS
  Order,        \* the configured order of the pages
  Dwell,        \* page -> its configured dwell
  FirstPage,    \* CODING
  Intervals,    \* the intervals a rotation command may set, none being {}
  Durations,    \* how long a remote command may last
  MaxLag,       \* the longest time between two draws
  Cards,        \* provider cards
  Metrics,      \* metrics
  Entities,     \* HomeLab nodes and services
  CardOf,       \* metric -> its card
  PageOf,       \* card or entity -> the page that shows it
  MetricReadings, EntityReadings,  \* what a snapshot may say of one of them
  MaxAge        \* bound of the model: ages are told apart up to here

Pages     == {Order[i] : i \in DOMAIN Order}
Positions == 1 .. Len(Order)

ASSUME RouterAssumption ==
  /\ Order \in Seq(Pages) /\ Len(Order) > 0 /\ FirstPage \in Pages
  /\ \A i, j \in Positions : Order[i] = Order[j] => i = j
  /\ MaxLag \in Nat \ {0}
  /\ Dwell \in [Pages -> Nat] /\ \A p \in Pages : Dwell[p] > MaxLag
  /\ Intervals \subseteq SUBSET Nat /\ \A i \in Intervals : \A n \in i : n > MaxLag
  /\ Durations \subseteq Nat \ {0}

Older(x) == [x EXCEPT !.age = IF @ < MaxAge THEN @ + 1 ELSE @]

ASSUME SnapshotAssumption ==
  /\ CardOf \in [Metrics -> Cards] /\ PageOf \in [Cards \cup Entities -> Pages]
  /\ MaxAge \in Nat
  /\ \A x \in MetricReadings : x \in Metric /\ x.age <= MaxAge /\ Budget(x) < MaxAge
  /\ \A x \in EntityReadings : x \in Entity /\ x.age <= MaxAge /\ Budget(x) < MaxAge
  /\ \A x \in MetricReadings : Older(x) \in MetricReadings
  /\ \A x \in EntityReadings : Older(x) \in EntityReadings

NoSnapshot == [metrics |-> << >>, entities |-> << >>]
Snapshots  == [metrics : [Metrics -> MetricReadings], entities : [Entities -> EntityReadings]]

NoRemote   == [page |-> "none", left |-> 0]
NoOverride == [enabled |-> TRUE, interval |-> {}, left |-> -1]

VARIABLES
  snapshot,   \* what the client holds
  index,      \* Router.index; Router.page is Order[index]
  remaining,  \* of the dwell of that page
  lag,        \* now - Router.last
  paused,
  remote,     \* remotePage and remoteUntil
  override,   \* the rotation override
  displayed,  \* what the last draw showed
  critical,   \* criticalActive
  turned      \* history: since the last draw, a rotation command came while a
              \* critical page was shown

router     == <<index, remaining, lag, paused, remote, override, displayed, critical>>
screenVars == <<snapshot, router, turned>>

Page == Order[index]

-----------------------------------------------------------------------------
(* CriticalPages. *)

CriticalCard(c) ==
  Critical(CardStatus({snapshot.metrics[m] : m \in {n \in Metrics : CardOf[n] = c}},
                      DefaultThresholds))

CriticalPages ==
  IF snapshot = NoSnapshot THEN {}
  ELSE {PageOf[c] : c \in {d \in Cards : CriticalCard(d)}}
         \cup {PageOf[e] : e \in {f \in Entities : Critical(EntityStatus(snapshot.entities[f]))}}

\* firstCritical: the first of them in the configured order.
FirstCritical(pages) ==
  Order[CHOOSE i \in Positions : Order[i] \in pages
                                   /\ \A j \in 1 .. i - 1 : Order[j] \notin pages]

-----------------------------------------------------------------------------
(* The clock of rotation. *)

Following(i) == IF i = Len(Order) THEN 1 ELSE i + 1
Preceding(i) == IF i = 1 THEN Len(Order) ELSE i - 1

\* dwellLocked.
DwellOf(o, page) == IF o.enabled /\ o.interval # {} THEN CHOOSE n \in o.interval : TRUE
                                                   ELSE Dwell[page]

\* advanceLocked, by the time since last, unless the router is paused.
TurnsPage == ~ paused /\ lag >= remaining

IndexNow == IF TurnsPage THEN Following(index) ELSE index

RemainingNow ==
  IF paused THEN remaining
  ELSE IF TurnsPage THEN DwellOf(override, Order[IndexNow]) - (lag - remaining)
                    ELSE remaining - lag

RemoteNow   == IF remote.left = 0 THEN NoRemote ELSE remote
OverrideNow == IF override.left = 0 THEN NoOverride ELSE override

CappedRemaining_never == RemainingNow

\* An override that ends leaves no more than the configured dwell.
CappedRemaining ==
  IF override.left = 0 /\ RemainingNow > Dwell[Order[IndexNow]]
    THEN Dwell[Order[IndexNow]] ELSE RemainingNow

-----------------------------------------------------------------------------
(* Init and actions. *)

RouterInit ==
  /\ snapshot \in {NoSnapshot} \cup Snapshots
  /\ index = CHOOSE i \in Positions : Order[i] = FirstPage
  /\ remaining = Dwell[FirstPage]
  /\ lag = 0 /\ paused = FALSE
  /\ remote = NoRemote /\ override = NoOverride
  /\ displayed = FirstPage /\ critical = FALSE
  /\ turned = FALSE

\* Update: what draw asks for the page.
Update(pages) ==
  /\ index' = IndexNow /\ remaining' = CappedRemaining /\ lag' = 0
  /\ remote' = RemoteNow /\ override' = OverrideNow
  /\ critical' = (pages # {})
  /\ paused' = (pages # {} \/ RemoteNow # NoRemote \/ ~ OverrideNow.enabled)
  /\ displayed' = IF pages # {} THEN FirstCritical(pages)
                  ELSE IF RemoteNow # NoRemote THEN RemoteNow.page
                  ELSE Order[IndexNow]

Draw ==
  /\ Update(CriticalPages)
  /\ turned' = FALSE
  /\ UNCHANGED snapshot

\* freezeLocked, then a page for some time.
ShowRemote_unfrozen(page, duration) ==
  /\ index' = IndexNow /\ remaining' = RemainingNow /\ lag' = 0
  /\ remote' = [page |-> page, left |-> duration]
  /\ UNCHANGED <<paused, override, displayed, critical, snapshot, turned>>

ShowRemote(page, duration) ==
  /\ index' = IndexNow /\ remaining' = RemainingNow /\ lag' = 0
  /\ paused' = TRUE
  /\ remote' = [page |-> page, left |-> duration]
  /\ UNCHANGED <<override, displayed, critical, snapshot, turned>>

ShowPage == \E page \in Pages, duration \in Durations : ShowRemote(page, duration)

\* showStepLocked: from the remote page if there is one.
StepBase ==
  IF remote = NoRemote THEN IndexNow ELSE CHOOSE i \in Positions : Order[i] = remote.page

NextPage     == \E duration \in Durations : ShowRemote(Order[Following(StepBase)], duration)
PreviousPage == \E duration \in Durations : ShowRemote(Order[Preceding(StepBase)], duration)

SetRotation_neverPauses(enabled, interval, duration) ==
  /\ index' = IndexNow /\ lag' = 0
  /\ remaining' = IF enabled /\ interval # {} THEN CHOOSE n \in interval : TRUE
                                              ELSE RemainingNow
  /\ override' = [enabled |-> enabled, interval |-> interval, left |-> duration]
  /\ paused' = (remote # NoRemote)
  /\ turned' = critical
  /\ UNCHANGED <<remote, displayed, critical, snapshot>>

\* The new interval counts from now; paused is decided without the critical page.
SetRotation(enabled, interval, duration) ==
  /\ index' = IndexNow /\ lag' = 0
  /\ remaining' = IF enabled /\ interval # {} THEN CHOOSE n \in interval : TRUE
                                              ELSE RemainingNow
  /\ override' = [enabled |-> enabled, interval |-> interval, left |-> duration]
  /\ paused' = (remote # NoRemote \/ ~ enabled)
  /\ turned' = critical
  /\ UNCHANGED <<remote, displayed, critical, snapshot>>

SetAnyRotation ==
  \E enabled \in BOOLEAN, interval \in Intervals, duration \in Durations :
    SetRotation(enabled, interval, duration)

\* applySnapshot gave the loop another snapshot.
Receive == snapshot' \in Snapshots /\ UNCHANGED <<router, turned>>

Less(left) == IF left > 0 THEN left - 1 ELSE left

\* Time passes.  A draw is never further away than MaxLag.
Tick ==
  /\ lag < MaxLag
  /\ lag' = lag + 1
  /\ remote' = [remote EXCEPT !.left = Less(@)]
  /\ override' = [override EXCEPT !.left = Less(@)]
  /\ snapshot' = IF snapshot = NoSnapshot THEN NoSnapshot
                 ELSE [metrics  |-> [m \in Metrics |-> Older(snapshot.metrics[m])],
                       entities |-> [e \in Entities |-> Older(snapshot.entities[e])]]
  /\ UNCHANGED <<index, remaining, paused, displayed, critical, turned>>

RouterNext ==
  \/ Draw \/ Tick \/ Receive
  \/ ShowPage \/ NextPage \/ PreviousPage \/ SetAnyRotation

RouterSpec == RouterInit /\ [][RouterNext]_screenVars

\* The loop draws on every tick of its timer, and time goes on.
RouterFairness == WF_screenVars(Draw) /\ WF_screenVars(Tick)

LiveRouterSpec == RouterSpec /\ RouterFairness

-----------------------------------------------------------------------------
(* Properties. *)

\* Every component of the router in its range: no page but a configured one is
\* ever shown, and a dwell is never used up and still running.
RouterTypeOK ==
  /\ snapshot \in {NoSnapshot} \cup Snapshots
  /\ index \in Positions /\ remaining \in Nat \ {0} /\ lag \in 0 .. MaxLag
  /\ paused \in BOOLEAN /\ critical \in BOOLEAN /\ turned \in BOOLEAN
  /\ remote \in [page : Pages, left : Nat] \cup {NoRemote}
  /\ override \in [enabled : BOOLEAN, interval : Intervals, left : Nat] \cup {NoOverride}
  /\ displayed \in Pages

\* Once no override is in force, the page in rotation has at most its own dwell
\* left, whatever intervals, remote pages and critical pages came before.
OverridesEnd == override = NoOverride => remaining <= Dwell[Page]

\* While a remote page is in force or a critical page is shown, the page in
\* rotation neither leaves nor loses dwell: rotation resumes where it stood.
\* The exception is a rotation command during a CRIT pre-emption, which lets
\* the clock of rotation go behind the critical page until the next draw.
FrozenWhilePreempted ==
  [][(critical \/ remote # NoRemote) /\ ~ turned
       => index' = index /\ (remaining' < remaining => override' # override)]_screenVars

\* A rotation that is switched off stands still until the override ends or
\* another takes its place, over remote pages, critical pages and snapshots.
PauseHolds ==
  [][~ override.enabled /\ ~ override'.enabled
       => index' = index /\ remaining' = remaining]_screenVars

\* When snapshots and commands cease, every page is shown again and again,
\* unless the last snapshot reports a node or service as down: everything else
\* that is critical goes stale and lets the rotation go on.
Quiet == <>[][Draw \/ Tick]_screenVars

ReportsDown == snapshot # NoSnapshot /\ \E e \in Entities : Down(snapshot.entities[e])

EveryPageComesRound ==
  Quiet /\ <>[]~ ReportsDown => \A p \in Pages : []<>(displayed = p)
=============================================================================
