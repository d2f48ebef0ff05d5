--------------------------- MODULE DisplayStatus ----------------------------
(***************************************************************************)
(* How the display judges what a snapshot says: the badge of a metric, of  *)
(* a HomeLab item, of a card, of the link, and the pages that must be seen *)
(* at once (src/internal/protocol/status.go, src/internal/ui/build.go).    *)
(*                                                                         *)
(* Abstractions.                                                           *)
(*  - A value that may be missing is a set with at most one member: the    *)
(*    percentage left of a quota, the amount of a balance, a threshold,    *)
(*    whether a node is online.                                            *)
(*  - The time of an observation is its age, in the clock of the display.  *)
(*    An observation from the future counts as made now.                   *)
(*  - A card is the set of its metrics: one per window, as the connectors  *)
(*    report them.                                                         *)
(*                                                                         *)
(* A definition X_flaw is X with a plausible mistake in it.  No action     *)
(* uses it: it serves to see that the properties notice the mistake.       *)
(***************************************************************************)
EXTENDS Integers

CONSTANT DefaultStaleAfter  \* three minutes: the budget of what carries none

ASSUME StatusAssumption == DefaultStaleAfter \in Nat \ {0}

MetricKinds    == {"quota", "balance", "other"}
Precisions     == {"exact", "verified", "estimated", "manual", "unavailable"}
MetricStatuses == {"ok", "warning", "critical", "unknown", "error", "stale"}
ErrorClasses   == {"none", "auth", "rate_limited", "timeout", "network",
                   "schema_changed", "unsupported", "invalid_config", "upstream"}
DisplayStatuses == {"OK", "WARN", "CRIT", "DELAY", "STALE", "AUTH", "NA", "ERROR"}

Metric == [kind : MetricKinds, value : SUBSET Int, status : MetricStatuses,
           precision : Precisions, error : ErrorClasses, age : Nat, staleAfter : Nat]

\* A HomeLab node with its Online, or a HomeLab service with its Healthy.
Entity == [up : SUBSET BOOLEAN, status : MetricStatuses, error : ErrorClasses,
           age : Nat, staleAfter : Nat]

\* Thresholds: of quotas in percent left, of balances as an amount; {} is off.
DefaultThresholds ==
  [kind \in {"quota", "balance"} |->
     IF kind = "quota" THEN [warn |-> {20}, crit |-> {10}] ELSE [warn |-> {}, crit |-> {}]]

Soft(precision) == precision \in {"estimated", "manual"}

\* IsStale, and the same test in homeLabStatus.
Budget(x) == IF x.staleAfter > 0 THEN x.staleAfter ELSE DefaultStaleAfter

IsStale_never(x) == FALSE

IsStale(x) == x.age > Budget(x)

-----------------------------------------------------------------------------
(* Metrics. *)

AtMost(value, limit) == \E v \in value, l \in limit : v <= l

Severity(m, thresholds) ==
  IF m.kind = "other" THEN m.status
  ELSE IF m.value = {} THEN "unknown"
  ELSE IF AtMost(m.value, thresholds[m.kind].crit) THEN "critical"
  ELSE IF AtMost(m.value, thresholds[m.kind].warn) THEN "warning"
  ELSE "ok"

\* A value that is only estimated does not alarm.
Capped(severity, precision) ==
  IF Soft(precision) /\ severity = "critical" THEN "warning" ELSE severity

BadgeOfSeverity(severity) ==
  CASE severity = "critical" -> "CRIT"
    [] severity = "warning"  -> "WARN"
    [] severity = "unknown"  -> "NA"
    [] OTHER                 -> "OK"

\* The order of the cases is the rule: failure, then freshness, then value.
DeriveDisplayStatus(m, thresholds) ==
  IF m.error = "auth" THEN "AUTH"
  ELSE IF m.error = "unsupported" THEN "NA"
  ELSE IF m.error \in {"schema_changed", "invalid_config", "upstream"} THEN "ERROR"
  ELSE IF m.error = "rate_limited" THEN "DELAY"
  ELSE IF m.precision = "unavailable" THEN "NA"
  ELSE IF m.status = "error" THEN "ERROR"
  ELSE IF m.error \in {"timeout", "network"} \/ IsStale(m) THEN "STALE"
  ELSE BadgeOfSeverity(Capped(Severity(m, thresholds), m.precision))

Critical(badge) == badge = "CRIT"

\* toCard: the badge that ranks highest; AUTH above all, so that a card never
\* shows a value it cannot read any more.
Rank(badge) ==
  CASE badge = "AUTH"  -> 6
    [] badge = "CRIT"  -> 5
    [] badge = "ERROR" -> 3
    [] badge = "WARN"  -> 2
    [] badge \in {"STALE", "DELAY", "NA"} -> 1
    [] OTHER           -> 0

Worst(badges) ==
  CHOOSE b \in badges \cup {"OK"} : \A other \in badges : Rank(other) <= Rank(b)

CardStatus(metrics, thresholds) ==
  Worst({DeriveDisplayStatus(m, thresholds) : m \in metrics})

-----------------------------------------------------------------------------
(* HomeLab. *)

HomeLabStatus(x) ==
  IF x.error = "auth" THEN "AUTH"
  ELSE IF x.error = "unsupported" THEN "NA"
  ELSE IF x.error \in {"network", "timeout"} THEN "STALE"
  ELSE IF x.error = "rate_limited" THEN "DELAY"
  ELSE IF x.error # "none" THEN "ERROR"
  ELSE IF IsStale(x) THEN "STALE"
  ELSE CASE x.status = "critical" -> "CRIT"
         [] x.status = "warning"  -> "WARN"
         [] x.status = "error"    -> "ERROR"
         [] x.status = "stale"    -> "STALE"
         [] x.status = "unknown"  -> "NA"
         [] OTHER                 -> "OK"

\* buildNodeCards, buildServiceCards: what is reported down is critical, at
\* whatever age.
Down(x) == x.up = {FALSE} /\ x.error = "none"

EntityStatus(x) == IF Down(x) THEN "CRIT" ELSE HomeLabStatus(x)

=============================================================================
