-------------------------- MODULE ProviderAnswers ---------------------------
(***************************************************************************)
(* What the connectors make of a complete, well-formed JSON answer         *)
(* (src/internal/connector/*/*.go): a batch of metrics, or the class of    *)
(* the refusal (a mock fixture is an answer too).                          *)
(*                                                                         *)
(* A metric is the suffix of its id; the connector id before it is the     *)
(* same for the whole batch.  A batch maps the places of the answer where  *)
(* a metric was found to the metrics.  A quantity of an answer is absent, good, or  *)
(* bad: not a decimal, or outside the range the connector accepts.  What   *)
(* a metric says beside its id, and the order of a batch (the store        *)
(* and the display sort by Order), are left out.                           *)
(*                                                                         *)
(* A definition X_flaw is X with a plausible mistake in it.  No action     *)
(* uses it: it serves to see that the properties notice the mistake.       *)
(***************************************************************************)
EXTENDS Naturals, Sequences, FiniteSets, SequencesExt

CONSTANTS
  MaxSeries, \* Prometheus: max_series, 64 by default
  MaxRows    \* bound: rows in a part of an answer

ASSUME AnswersAssumption == MaxSeries \in Nat \ {0} /\ MaxRows \in Nat

Field == {"absent", "bad", "good"}

Refused(class) == [class |-> class, ids |-> <<>>]
Batch(ids)     == [class |-> "none", ids |-> ids]
Changed        == Refused("schema_changed")

BatchOf(ids) == IF DOMAIN ids = {} THEN Changed ELSE Batch(ids)

\* One metric per quantity that must be there.
AllGood(values, ids) ==
  IF \A i \in DOMAIN values : values[i] = "good" THEN Batch(ids) ELSE Changed

\* The metrics of those quantities that are given.
Chosen(names, given) == [i \in {j \in DOMAIN names : names[j] \in given} |-> names[i]]

Rows(S) == UNION {[1..n -> S] : n \in 0..MaxRows}

-----------------------------------------------------------------------------
(* MiniMax: the row of the plan that selectQuotaRow picks.  A row counts as a *)
(* candidate when it has any quota; status 3 is an unlimited window, and an   *)
(* unlimited plan without any other value is one metric without a value.      *)

MiniMaxAnswers ==
  [failed : BOOLEAN, candidate : BOOLEAN,
   interval : Field \cup {"unlimited"}, weekly : Field \cup {"unlimited"}]

MiniMaxParse(a) ==
  LET given == {w \in {"5h", "weekly"} : (IF w = "5h" THEN a.interval ELSE a.weekly) = "good"}
  IN CASE a.failed -> Refused("upstream")
       [] ~ a.candidate -> Changed
       [] a.interval \in {"absent", "bad"} \/ a.weekly = "bad" -> Changed
       [] OTHER -> Batch(IF given = {} THEN <<"5h">> ELSE Chosen(<<"5h", "weekly">>, given))

-----------------------------------------------------------------------------
(* Kimi Coding: ratio windows, then legacy rows for the windows they leave    *)
(* open.  A row's window is classified from its labels and its duration; the  *)
(* top-level usage object is the weekly row.                                  *)

RatioWindows  == <<"5h", "weekly", "monthly-total", "monthly-code">>
LegacyWindows == {"5h", "weekly", "unknown"}

KimiCodingAnswers ==
  [ratios : [Range(RatioWindows) -> Field],
   rows   : Rows([window : LegacyWindows, value : {"bad", "good"}])]

LegacyRows_unseen(a) ==
  {i \in DOMAIN a.rows : a.rows[i].window # "unknown" /\ a.ratios[a.rows[i].window] = "absent"}

\* The legacy rows whose window is known and not seen yet.
LegacyRows(a) ==
  {i \in DOMAIN a.rows :
     /\ a.rows[i].window # "unknown"
     /\ a.ratios[a.rows[i].window] = "absent"
     /\ \A j \in 1..(i - 1) : a.rows[j].window # a.rows[i].window}

\* The rows come after the ratios.
KimiCodingParse(a) ==
  LET ratios == {i \in DOMAIN RatioWindows : a.ratios[RatioWindows[i]] # "absent"}
      legacy == LegacyRows(a)
      n      == Len(RatioWindows)
  IN IF \/ \E i \in ratios : a.ratios[RatioWindows[i]] = "bad"
        \/ \E i \in legacy : a.rows[i].value = "bad"
       THEN Changed
       ELSE BatchOf([place \in ratios \cup {n + i : i \in legacy} |->
                       IF place <= n THEN RatioWindows[place] ELSE a.rows[place - n].window])

-----------------------------------------------------------------------------
(* Kimi API and DeepSeek: prepaid balances.  The currency of Kimi follows     *)
(* from the region, so it is left out.                                        *)

KimiAPIAnswers == [complete : BOOLEAN, values : [1..3 -> Field]]

KimiAPIParse(a) ==
  IF a.complete THEN AllGood(a.values, <<"available", "voucher", "cash">>) ELSE Changed

Balances == {"total", "granted", "topped_up"}

DeepSeekAnswers ==
  [complete : BOOLEAN,
   infos : Rows([currency : {"cny", "usd", "other"}, value : {"bad", "good"}])]

DeepSeekParse(a) ==
  IF \/ ~ a.complete \/ a.infos = <<>>
     \/ \E i \in DOMAIN a.infos :
          \/ a.infos[i].currency = "other"
          \/ a.infos[i].value = "bad"
          \/ \E j \in 1..(i - 1) : a.infos[j].currency = a.infos[i].currency
    THEN Changed
    ELSE Batch([place \in (DOMAIN a.infos) \X Balances |->
                  <<place[2], a.infos[place[1]].currency>>])

-----------------------------------------------------------------------------
(* Codex: the primary window, and the optional ones; the review window is     *)
(* the answer's own or else the first additional limit named for reviews.     *)

CodexAnswers == [primary : Field, secondary : Field, own : Field, additional : Field]

CodexParse(a) ==
  LET review == IF a.own # "absent" THEN a.own ELSE a.additional
      value(id) == CASE id = "5h" -> a.primary [] id = "weekly" -> a.secondary
                     [] id = "code_review" -> review
      given == {id \in {"5h", "weekly", "code_review"} : value(id) # "absent"}
  IN IF a.primary = "absent" \/ \E id \in given : value(id) = "bad"
       THEN Changed ELSE Batch(Chosen(<<"5h", "weekly", "code_review">>, given))

-----------------------------------------------------------------------------
(* Grok: one weekly period, over or not.  A unified plan may leave the        *)
(* percentage out: omitted is zero usage of a current period, null no value.  *)

GrokAnswers ==
  [period : {"missing", "invalid", "other", "current", "over"},
   percent : {"omitted", "null", "bad", "good"}, unified : BOOLEAN]

GrokParse(a) ==
  IF /\ a.period \in {"current", "over"}
     /\ \/ a.percent = "good"
        \/ a.unified /\ a.percent = "null"
        \/ a.unified /\ a.percent = "omitted" /\ a.period = "current"
    THEN Batch(<<"weekly">>) ELSE Changed

-----------------------------------------------------------------------------
(* OpenCode: three windows, under one of two names; all must be there with a  *)
(* status, a percentage and a reset time that agree.                          *)

OpenCodeAnswers == [1..3 -> Field]

OpenCodeParse(a) == AllGood(a, <<"5h", "weekly", "monthly">>)

-----------------------------------------------------------------------------
(* The connectors that report entities: the node names, and the service       *)
(* itself.  What they find over a limit is for the user to configure.         *)

OverLimit == Refused("invalid_config")

Within == {"within", "over"}

\* Two of the queries: they and the others are merged in the same way.
Samples == Rows({"a", "b", "c", "unsafe"})

PrometheusAnswers ==
  [vectors : BOOLEAN, series : Within, finite : BOOLEAN, version : Field,
   up : Samples, disk : Samples, inRange : BOOLEAN]

Clean(samples) ==
  "unsafe" \notin ToSet(samples) /\ Cardinality(ToSet(samples)) = Len(samples)

\* query, buildVersion and buildReport.
PrometheusParse(a) ==
  LET nodes == ToSet(a.up) \cup ToSet(a.disk)
  IN CASE ~ a.vectors -> Changed
       [] a.vectors /\ a.series = "over" -> OverLimit
       [] a.vectors /\ a.series = "within" /\ (~ a.finite \/ a.version # "good") -> Changed
       [] OTHER ->
            IF ~ Clean(a.up) \/ ~ Clean(a.disk) THEN Changed
            ELSE IF Cardinality(nodes) > MaxSeries THEN OverLimit
            ELSE IF ~ a.inRange THEN Changed
            ELSE Batch([entity \in nodes \cup {"service"} |-> entity])

GrafanaAnswers == [health : Field, alerts : Within, rules : Within]

GrafanaParse(a) ==
  IF a.health # "good" THEN Changed
  ELSE IF "over" \in {a.alerts, a.rules} THEN OverLimit
  ELSE Batch(<<"service">>)

PortainerAnswers == [status : Field, environments : Within, named : BOOLEAN, containers : Within]

PortainerParse(a) ==
  IF a.status # "good" THEN Changed
  ELSE IF a.environments = "over" THEN OverLimit
  ELSE IF ~ a.named THEN Changed
  ELSE IF a.containers = "over" THEN OverLimit
  ELSE Batch(<<"service">>)

\* A fixture: missing, not JSON, or with a metric or an entity that is not valid.
MockAnswers == [file : {"missing", "malformed", "read"}, metrics : Field, entities : Field]

MockParse(a) ==
  IF a.file = "malformed" THEN Changed
  ELSE IF a.file = "missing" \/ "bad" \in {a.metrics, a.entities} THEN OverLimit
  ELSE Batch(IF a.entities = "good" THEN <<"service">> ELSE <<>>)

-----------------------------------------------------------------------------
(* The types: their answers, what they make of them, and the ids the         *)
(* registration of a type declares, by which checkShadows keeps two providers *)
(* from delivering the same metric.                                           *)

ReportTypes == {"prometheus", "grafana", "portainer", "mock"}

MetricTypes ==
  {"minimax_coding", "kimi_coding", "kimi_api", "deepseek_api", "codex_usage", "grok_usage",
   "opencode_go"}

AnswersTo(t) ==
  CASE t = "minimax_coding" -> MiniMaxAnswers
    [] t = "kimi_coding"    -> KimiCodingAnswers
    [] t = "kimi_api"       -> KimiAPIAnswers
    [] t = "deepseek_api"   -> DeepSeekAnswers
    [] t = "codex_usage"    -> CodexAnswers
    [] t = "grok_usage"     -> GrokAnswers
    [] t = "opencode_go"    -> OpenCodeAnswers
    [] t = "prometheus"     -> PrometheusAnswers
    [] t = "grafana"        -> GrafanaAnswers
    [] t = "portainer"      -> PortainerAnswers
    [] t = "mock"           -> MockAnswers

Parse(t, a) ==
  CASE t = "minimax_coding" -> MiniMaxParse(a)
    [] t = "kimi_coding"    -> KimiCodingParse(a)
    [] t = "kimi_api"       -> KimiAPIParse(a)
    [] t = "deepseek_api"   -> DeepSeekParse(a)
    [] t = "codex_usage"    -> CodexParse(a)
    [] t = "grok_usage"     -> GrokParse(a)
    [] t = "opencode_go"    -> OpenCodeParse(a)
    [] t = "prometheus"     -> PrometheusParse(a)
    [] t = "grafana"        -> GrafanaParse(a)
    [] t = "portainer"      -> PortainerParse(a)
    [] t = "mock"           -> MockParse(a)

StableMetricIDs(t) ==
  CASE t = "minimax_coding" -> {"5h", "weekly"}
    [] t = "kimi_coding"    -> {"5h", "weekly", "monthly-total", "monthly-code"}
    [] t = "kimi_api"       -> {"available", "voucher", "cash"}
    [] t = "deepseek_api"   -> Balances \X {"cny", "usd"}
    [] t = "codex_usage"    -> {"5h", "weekly", "code_review"}
    [] t = "grok_usage"     -> {"weekly"}
    [] t = "opencode_go"    -> {"5h", "weekly", "monthly"}

=============================================================================
