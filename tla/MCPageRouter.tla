---------------------------- MODULE MCPageRouter ----------------------------
(***************************************************************************)
(* A display for TLC: three pages, a provider's quota on one of them and a *)
(* node on another, which was observed long ago.                           *)
(***************************************************************************)
EXTENDS PageRouter

MCOrder == <<"CODING", "API", "HOMELAB">>
MCDwell == [p \in {"CODING", "API", "HOMELAB"} |-> IF p = "API" THEN 3 ELSE 2]
MCIntervals == {{}, {4}}
MCCardOf == [m \in Metrics |-> "kimi"]
MCPageOf == [x \in Cards \cup Entities |-> IF x \in Cards THEN "CODING" ELSE "HOMELAB"]

Reading(precision, age) ==
  [kind |-> "quota", value |-> {5}, status |-> "ok", precision |-> precision,
   error |-> "none", age |-> age, staleAfter |-> 1]

MCMetricReadings == {Reading(precision, age) : precision \in {"exact", "manual"}, age \in 0 .. MaxAge}

MCEntityReadings ==
  [up : {{TRUE}, {FALSE}}, status : {"ok"}, error : {"none"}, age : {MaxAge}, staleAfter : {0}]
=============================================================================
