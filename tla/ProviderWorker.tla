--------------------------- MODULE ProviderWorker ---------------------------
(***************************************************************************)
(* One connector under the scheduler: runTask collects, waits as its       *)
(* policy says (src/internal/scheduler/policy.go) and collects again;      *)
(* Refresh collects out of turn.  Scheduler abstracts the waiting and      *)
(* details what is stored; this module details the waiting.                *)
(*                                                                         *)
(* Time is counted in ticks.  A delay is jittered to any number of ticks   *)
(* within the fraction; a time.Duration holds MaxSeconds seconds and wraps *)
(* around beyond.  Refresh takes the connector's lock like runTask but     *)
(* neither waits for the delay nor changes it.                             *)
(*                                                                         *)
(* A definition X_flaw is X with a plausible mistake in it.  No action     *)
(* uses it: it serves to see that the properties notice the mistake.       *)
(***************************************************************************)
EXTENDS ProviderCollect, Integers

CONSTANTS
  Interval, MinBackoff, MaxBackoff, AuthBackoff, UnsupportedBackoff, \* ticks
  JitterDivisor,  \* 1 / JitterFraction, 10 in the code
  FastRetries,    \* 1 in the code
  MaxSeconds,     \* the longest time.Duration
  FailureCap      \* bound: failures are not counted further, where the
                  \* exponential delay has long reached MaxBackoff

ASSUME WorkerAssumption ==
  /\ {Interval, MinBackoff, MaxBackoff, AuthBackoff, UnsupportedBackoff} \subseteq 1..MaxSeconds
  /\ JitterDivisor \in Nat \ {0}
  /\ FastRetries \in Nat /\ MaxSeconds \in Nat
  /\ FailureCap \in Nat /\ FailureCap > FastRetries
  /\ MinBackoff * 2 ^ (FailureCap - 1) >= MaxBackoff

VARIABLES
  holder,    \* who holds taskMu: "nobody", "run" or "refresh"
  worker,    \* runTask, between its collections
  failures,  \* its consecutive failures
  wait,      \* its timer
  refresh,   \* Refresh, outside its collection
  health,    \* the state of the published health record
  embargo    \* history: the wait the upstream asked for

workerVars == <<collectVars, holder, worker, failures, wait, refresh, health, embargo>>

-----------------------------------------------------------------------------
(* The policy. *)

\* time.Duration(seconds) * time.Second, in 64 bits.
Seconds(r) == ((r + MaxSeconds + 1) % (2 * (MaxSeconds + 1))) - (MaxSeconds + 1)

Lesser(a, b) == IF a < b THEN a ELSE b

\* The class and the failures of an attempt, and its base delay.
Exponential(n) == Lesser(MinBackoff * 2 ^ (IF n < 1 THEN 0 ELSE n - 1), MaxBackoff)

Delay(class, n, retryAfter) ==
  CASE class = "none" -> Interval
    [] class = "auth" -> AuthBackoff
    [] class = "invalid_config" -> UnsupportedBackoff
    [] class = "rate_limited" ->
         IF retryAfter > 0 THEN Seconds(retryAfter) ELSE Exponential(n)
    [] class \in {"timeout", "network", "upstream"} ->
         IF n <= FastRetries THEN MinBackoff ELSE Exponential(n)
    [] class = "schema_changed" -> MaxBackoff

Jitter(d) == IF d <= 0 THEN {d} ELSE (d - d \div JitterDivisor)..(d + d \div JitterDivisor)

NextDelay_noFloor(class, n, retryAfter) == Jitter(Delay(class, n, retryAfter))

\* The jitter may lengthen what the upstream asked for and never shortens it.
NextDelay(class, n, retryAfter) ==
  {IF retryAfter > 0 /\ d < Seconds(retryAfter) THEN Seconds(retryAfter) ELSE d :
     d \in Jitter(Delay(class, n, retryAfter))}

\* StateFor: what the display shows of a class.
StateFor(class) ==
  CASE class = "none" -> "ok"
    [] class = "auth" -> "blocked_auth"
    [] class \in {"rate_limited", "timeout", "network"} -> "degraded"
    [] OTHER -> "error"

-----------------------------------------------------------------------------
\* The wait an upstream asked of runTask or of Refresh: what is left of it, and whether
\* the code keeps to it: Refresh drops what it is told, and a Duration holds no more
\* than MaxSeconds.
Wish(who, retryAfter) ==
  [left |-> retryAfter, kept |-> who = "run" /\ retryAfter <= MaxSeconds]

NoWish == Wish("run", 0)

Heeded(wish) == wish.left > 0 /\ wish.kept

Resting == [at |-> "rest"]
Publishing(class) == [at |-> "publish", class |-> class]

WorkerInit ==
  /\ CollectInit
  /\ holder = "nobody"
  /\ worker = Resting
  /\ failures = 0
  /\ wait \in 0..(Interval \div JitterDivisor)   \* StartupJitter
  /\ refresh = Resting
  /\ health = "unknown"
  /\ embargo = NoWish

Sleeping == worker = Resting /\ wait > 0

\* Only the worker's sleep takes time, so that a wish rather lasts too long.
Tick ==
  /\ Sleeping
  /\ wait' = wait - 1
  /\ embargo' = IF embargo.left > 1 THEN [embargo EXCEPT !.left = @ - 1] ELSE NoWish
  /\ UNCHANGED <<collectVars, holder, worker, failures, refresh, health>>

World ==
  /\ Environment
  /\ UNCHANGED <<holder, worker, failures, wait, refresh, health, embargo>>

Collect ==
  /\ holder # "nobody"
  /\ Proceed
  /\ UNCHANGED <<holder, worker, failures, wait, refresh, health, embargo>>

Begin(who) ==
  /\ holder = "nobody"
  /\ holder' = who
  /\ stage' = Stage("credential")
  /\ UNCHANGED <<worldVars, failures, wait, health, embargo>>

\* runTask's timer has fired.
BeginRun ==
  /\ worker = Resting /\ wait = 0
  /\ Begin("run")
  /\ UNCHANGED <<worker, refresh>>

BeginRefresh ==
  /\ refresh = Resting
  /\ Begin("refresh")
  /\ UNCHANGED <<worker, refresh>>

Release == holder' = "nobody" /\ stage' = Idle /\ UNCHANGED worldVars

EndRun_givesUpOnAuth ==
  /\ holder = "run" /\ stage.at = "ended"
  /\ Release
  /\ failures' = IF stage.class = "none" THEN 0 ELSE Lesser(failures + 1, FailureCap)
  /\ embargo' = IF stage.retryAfter > 0 THEN Wish("run", stage.retryAfter) ELSE embargo
  /\ \E d \in NextDelay(stage.class, failures', stage.retryAfter) : wait' = IF d > 0 THEN d ELSE 0
  /\ worker' = IF stage.class = "auth" THEN [at |-> "stopped"] ELSE Publishing(stage.class)
  /\ UNCHANGED <<refresh, health>>

\* collectTask returns to runTask, which chooses the delay.
EndRun ==
  /\ holder = "run" /\ stage.at = "ended"
  /\ Release
  /\ failures' = IF stage.class = "none" THEN 0 ELSE Lesser(failures + 1, FailureCap)
  /\ embargo' = IF stage.retryAfter > 0 THEN Wish("run", stage.retryAfter) ELSE embargo
  /\ \E d \in NextDelay(stage.class, failures', stage.retryAfter) : wait' = IF d > 0 THEN d ELSE 0
  /\ worker' = Publishing(stage.class)
  /\ UNCHANGED <<refresh, health>>

\* Refresh has no use for Retry-After and leaves next_attempt_at as it was.
EndRefresh ==
  /\ holder = "refresh" /\ stage.at = "ended"
  /\ Release
  /\ refresh' = Publishing(stage.class)
  /\ embargo' = IF stage.retryAfter > 0 /\ ~ Heeded(embargo)
                THEN Wish("refresh", stage.retryAfter) ELSE embargo
  /\ UNCHANGED <<worker, failures, wait, health>>

\* publishHealth, in any order with the other caller's collection or publication.
PublishRun ==
  /\ worker.at = "publish"
  /\ health' = StateFor(worker.class)
  /\ worker' = Resting
  /\ UNCHANGED <<collectVars, holder, failures, wait, refresh, embargo>>

PublishRefresh ==
  /\ refresh.at = "publish"
  /\ health' = StateFor(refresh.class)
  /\ refresh' = Resting
  /\ UNCHANGED <<collectVars, holder, worker, failures, wait, embargo>>

-----------------------------------------------------------------------------
WorkerNext ==
  \/ Tick \/ World \/ Collect
  \/ BeginRun \/ EndRun \/ PublishRun
  \/ BeginRefresh \/ EndRefresh \/ PublishRefresh

WorkerSpec == WorkerInit /\ [][WorkerNext]_workerVars

\* Timers fire, requests are bounded by timeouts, and a mutex serves everyone who
\* waits for it.  Nothing is assumed of the callers of Refresh, the CLI or the
\* upstream.
WorkerFairness ==
  /\ WF_workerVars(Tick) /\ WF_workerVars(Collect)
  /\ SF_workerVars(BeginRun) /\ WF_workerVars(EndRun) /\ WF_workerVars(PublishRun)
  /\ WF_workerVars(EndRefresh) /\ WF_workerVars(PublishRefresh)

LiveWorkerSpec == WorkerSpec /\ WorkerFairness

-----------------------------------------------------------------------------
(* Properties. *)

\* Whatever the jitter and the refreshes in between, the periodic collection sends
\* nothing while its upstream still wants to be left alone (NextDelay), but in two cases
\* that Wish names: where the upstream told a Refresh, which drops it (scheduler.go
\* Refresh), and where it asked for more than a Duration holds, which wraps around to a
\* shorter wait or none (policy.go Delay).  HL-Spec section 12 wants no exception.
RetryAfterHolds == Heeded(embargo) => ~ (holder = "run" /\ stage.at = "request")

Sane ==
  /\ upstream = "good"
  /\ IF type \in FileTypes THEN path # Absent /\ Whole(inodes[path]) ELSE keyring

\* Whatever went wrong, once the upstream answers and the credential is there for
\* good, the connector is collected and shown as well (runTask, publishHealth).
Recovers == <>[]Sane => <>[](health = "ok")

=============================================================================
