---------------------------- MODULE MCScheduler -----------------------------
(***************************************************************************)
(* Connectors for TLC.  "mock" has metrics, the node "host" and the        *)
(* service "disk", "prometheus" the service "nas", and either may report   *)
(* the node "shared".                                                      *)
(***************************************************************************)
EXTENDS Scheduler

MCSources == [i \in Items |->
  CASE i \in {"usage", "host", "disk"} -> Connectors \cap {"mock"}
    [] i = "nas"  -> Connectors \cap {"prometheus"}
    [] OTHER      -> Connectors]

=============================================================================
