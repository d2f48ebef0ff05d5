------------------------- MODULE DisplayDeployment --------------------------
(***************************************************************************)
(* Deploying a configuration to the display over SSH                       *)
(* (src/internal/displaydeploy/deployer.go), composed with the pairing of  *)
(* devices: what is deployed holds the device's token, and the display     *)
(* connects with it.                                                       *)
(*                                                                         *)
(* The web administration runs one operation of the Manager at a time      *)
(* (src/internal/webadmin/api.go displayMu).  The script of an Apply runs  *)
(* on the Pi, and its answer may be lost; the Pi may lose power between    *)
(* two commands of it, and the web administration may die.                 *)
(*                                                                         *)
(* Abstractions.                                                           *)
(*  - A profile is a device and a style; an environment adds the token.    *)
(*    Every environment is valid.                                          *)
(*  - Health is whether the service runs and has saved a snapshot since    *)
(*    the probe before the installation.  The wait for it succeeds once    *)
(*    that is so, or runs out at any time.                                 *)
(*  - A script that lost its connection ends before the next begins.       *)
(*  - systemd, SSH and the Pi's file system are external.                  *)
(*                                                                         *)
(* A definition X_flaw is X with a plausible mistake in it.  No action     *)
(* uses it: it serves to see that the properties notice the mistake.       *)
(***************************************************************************)
EXTENDS DeviceAccess

CONSTANTS
  Styles,
  DefaultStyle  \* of a display that was installed by hand

ASSUME DeploymentAssumption == DefaultStyle \in Styles

Profiles     == [device : Devices, style : Styles]
Environments == [device : Devices, style : Styles, token : Token]

ProfileOf(environment) == [device |-> environment.device, style |-> environment.style]

\* Sets of at most one element stand for what may be missing.
Option(S) == {{}} \cup {{x} : x \in S}

VARIABLES
  candidate,   \* Manager: the profile staged, if any
  tested,      \* Manager.testedHash: the profile that passed a test
  saved,       \* display-profiles.json
  job,         \* the Apply under way
  environment, \* /etc/homepi-display/environment
  previous,    \* environment.previous
  service,     \* the environment the display's process was started with
  script,      \* where the apply script is
  wanted,      \* the environment the script installs
  confirmed,   \* history: the environment of the last successful Apply
  lost         \* history: the display may differ from what the Manager was told

managerVars == <<candidate, tested, saved, job>>
piVars      == <<environment, previous, service, script, wanted>>
deployVars  == <<managerVars, piVars, confirmed, lost>>
allVars     == <<accessVars, deployVars>>

JobSteps == {"none", "probing", "running", "confirming", "saving", "undoing"}

\* An Apply, and whether the display saved a snapshot since its probe.
Jobs  == [step : JobSteps, target : Option(Environments), fresh : BOOLEAN]
NoJob == [step |-> "none", target |-> {}, fresh |-> FALSE]

DeploymentInit ==
  /\ AccessInit
  /\ candidate = {} /\ tested = {} /\ saved = {}
  /\ job = NoJob
  /\ environment = {[device |-> d, style |-> DefaultStyle, token |-> 1] : d \in paired}
  /\ previous = {} /\ wanted = {}
  /\ service = environment
  /\ script = "none"
  /\ confirmed = environment
  /\ lost = FALSE

-----------------------------------------------------------------------------
(* The Manager.                                                            *)

Free == job.step = "none"

\* A process that ends takes its stream with it.
Hangs == sessions' = [d \in Devices |-> NoToken]

AccessStays == UNCHANGED <<fileVars, up, known, barred, command, issued, dismissed, overlapped>>

\* currentProfile: the candidate, else the saved profile, else one made up for the
\* first device of the configuration.
CurrentProfiles ==
  IF candidate # {} THEN candidate
  ELSE IF saved # {} THEN saved
  ELSE [device : paired, style : {DefaultStyle}]

\* Manager.environment: the token is the one stored now.
Rendered(p) == [device |-> p.device, style |-> p.style, token |-> keyring[p.device]]

\* derive and Edit.
EditProfile ==
  /\ Free
  /\ \E d \in paired, style \in Styles :
       /\ keyring[d] # NoToken
       /\ candidate' = {[device |-> d, style |-> style]}
  /\ tested' = {}
  /\ UNCHANGED <<accessVars, saved, job, piVars, confirmed, lost>>

\* A test that fails leaves the mark of an earlier one.
TestProfile ==
  /\ Free /\ environment # {} /\ script = "none"
  /\ \E p \in CurrentProfiles : keyring[p.device] # NoToken /\ tested' = {p}
  /\ UNCHANGED <<accessVars, candidate, saved, job, piVars, confirmed, lost>>

ApplyProfile ==
  /\ Free
  /\ \E p \in CurrentProfiles :
       /\ p \in tested /\ keyring[p.device] # NoToken
       /\ job' = [NoJob EXCEPT !.step = "probing", !.target = {Rendered(p)}]
  /\ UNCHANGED <<accessVars, candidate, tested, saved, piVars, confirmed, lost>>

\* The probe before, and the start of the script.
Install ==
  /\ job.step = "probing" /\ script = "none" /\ environment # {}
  /\ job' = [job EXCEPT !.step = "running"]
  /\ script' = "backup"
  /\ wanted' = job.target
  /\ UNCHANGED <<accessVars, candidate, tested, saved, environment, previous, service,
                 confirmed, lost>>

\* SSH fails before anything was done.
Unreachable ==
  /\ job.step = "probing"
  /\ job' = NoJob
  /\ UNCHANGED <<accessVars, candidate, tested, saved, piVars, confirmed, lost>>

\* The connection breaks while the script runs, or the web administration dies: the
\* candidate stays, but the outcome is unknown.
GiveUp ==
  /\ job.step # "none"
  /\ job' = NoJob
  /\ lost' = TRUE
  /\ \/ job.step = "running" /\ UNCHANGED <<candidate, tested>>
     \/ candidate' = {} /\ tested' = {}
  /\ UNCHANGED <<accessVars, saved, piVars, confirmed>>

\* waitHealthy.
Confirm ==
  /\ job.step = "confirming"
  /\ \/ service # {} /\ job.fresh /\ job' = [job EXCEPT !.step = "saving"]
     \/ job' = [job EXCEPT !.step = "undoing"]
  /\ UNCHANGED <<accessVars, candidate, tested, saved, piVars, confirmed, lost>>

\* The mistake: a profile that cannot be saved is reported, and no more.
SaveProfile_keepsDisplay ==
  /\ job.step = "saving"
  /\ job' = NoJob
  /\ \/ /\ saved' = {ProfileOf(e) : e \in job.target}
        /\ candidate' = {}
        /\ confirmed' = job.target
        /\ lost' = FALSE
     \/ UNCHANGED <<saved, candidate, confirmed, lost>>
  /\ tested' = {}
  /\ UNCHANGED <<accessVars, piVars>>

SaveProfile ==
  /\ job.step = "saving"
  /\ \/ /\ saved' = {ProfileOf(e) : e \in job.target}
        /\ candidate' = {} /\ tested' = {}
        /\ job' = NoJob
        /\ confirmed' = job.target
        /\ lost' = FALSE
     \/ /\ job' = [job EXCEPT !.step = "undoing"]
        /\ UNCHANGED <<saved, candidate, tested, confirmed, lost>>
  /\ UNCHANGED <<accessVars, piVars>>

\* rollbackScript, whose result nobody looks at: the Manager reports a rollback.
Undo ==
  /\ job.step = "undoing"
  /\ job' = NoJob
  /\ tested' = {}
  /\ \/ /\ previous # {}
        /\ environment' = previous
        /\ service' \in {previous, {}}
        /\ UNCHANGED lost
     \/ lost' = TRUE /\ UNCHANGED <<environment, service>>
  /\ Hangs /\ AccessStays
  /\ UNCHANGED <<candidate, saved, previous, script, wanted, confirmed>>

-----------------------------------------------------------------------------
(* The Pi.                                                                 *)

SetAside ==
  /\ script = "backup"
  /\ previous' = environment
  /\ environment' = {}
  /\ script' = "place"
  /\ UNCHANGED <<accessVars, managerVars, service, wanted, confirmed, lost>>

Place ==
  /\ script = "place"
  /\ environment' = wanted
  /\ script' = "restart"
  /\ UNCHANGED <<accessVars, managerVars, previous, service, wanted, confirmed, lost>>

\* The mistake: the script that succeeds cleans up behind itself.
RestartService_removesBackup ==
  /\ script = "restart"
  /\ script' = "none" /\ wanted' = {}
  /\ \/ /\ service' = environment
        /\ job' = IF job.step = "running" THEN [job EXCEPT !.step = "confirming"] ELSE job
        /\ UNCHANGED environment
     \/ /\ environment' = previous
        /\ service' \in {previous, {}}
        /\ job' = IF job.step = "running" THEN NoJob ELSE job
  /\ previous' = {}
  /\ Hangs /\ AccessStays
  /\ UNCHANGED <<candidate, tested, saved, confirmed, lost>>

\* The service comes up, and the script answers "applied"; or it does not, and the
\* script puts the old environment back and fails.
RestartService ==
  /\ script = "restart"
  /\ script' = "none" /\ wanted' = {}
  /\ \/ /\ service' = environment
        /\ job' = IF job.step = "running" THEN [job EXCEPT !.step = "confirming"] ELSE job
        /\ UNCHANGED <<environment, previous>>
     \/ /\ environment' = previous
        /\ previous' = {}
        /\ service' \in {previous, {}}
        /\ job' = IF job.step = "running" THEN NoJob ELSE job
  /\ Hangs /\ AccessStays
  /\ UNCHANGED <<candidate, tested, saved, confirmed, lost>>

\* Power is lost and comes back: a script under way is gone, and the service starts if
\* there is an environment for it.
PowerCycle ==
  /\ script' = "none" /\ wanted' = {}
  /\ service' = environment
  /\ job' = IF job.step = "running" THEN NoJob ELSE job
  /\ lost' = (lost \/ script # "none")
  /\ Hangs /\ AccessStays
  /\ UNCHANGED <<candidate, tested, saved, environment, previous, confirmed>>

\* The display connects with the token it was started with.
DisplayConnects ==
  /\ \E e \in service : Connect(e.device, e.token)
  /\ UNCHANGED deployVars

ReceiveSnapshot ==
  /\ \E d \in Devices : sessions[d] # NoToken
  /\ job.step \notin {"none", "probing"} /\ ~job.fresh
  /\ job' = [job EXCEPT !.fresh = TRUE]
  /\ UNCHANGED <<accessVars, candidate, tested, saved, piVars, confirmed, lost>>

-----------------------------------------------------------------------------

DeploymentNext ==
  \/ /\ \/ \E o \in Operators : DeviceCommand(o)
        \/ StartDaemon \/ StopDaemon
        \/ \E d \in Devices : CutOff(d)
     /\ UNCHANGED deployVars
  \/ EditProfile \/ TestProfile \/ ApplyProfile \/ Install \/ Unreachable \/ GiveUp
  \/ Confirm \/ SaveProfile \/ Undo
  \/ SetAside \/ Place \/ RestartService \/ PowerCycle
  \/ DisplayConnects \/ ReceiveSnapshot

DeploymentSpec ==
  /\ DeploymentInit
  /\ [][DeploymentNext]_allVars
  /\ \A d \in Devices : WF_allVars(CutOff(d) /\ UNCHANGED deployVars)

-----------------------------------------------------------------------------
(* Correctness.                                                            *)

\* Types; besides, while an Apply may still be undone there is something to go back
\* to (applyScript, rollbackScript), and nothing is applied that was not tested
\* (deployer.go Apply).
DeploymentTypeOK ==
  /\ AccessTypeOK
  /\ candidate \in Option(Profiles) /\ tested \in Option(Profiles) /\ saved \in Option(Profiles)
  /\ job \in Jobs
  /\ {environment, previous, service, wanted, confirmed} \subseteq Option(Environments)
  /\ script \in {"none", "backup", "place", "restart"}
  /\ lost \in BOOLEAN
  /\ job.step \in {"confirming", "saving", "undoing"} => previous # {}
  /\ {ProfileOf(e) : e \in job.target} \subseteq tested

\* At rest, the display's environment is the one of the last successful Apply, and the
\* saved profile is its profile: an Apply that failed on the way, or could not save,
\* has been undone (deployer.go Apply, applyScript, rollbackScript).  Until the next
\* successful Apply this is lost when an answer, the web administration, the rollback or
\* the Pi fails in the middle.
DisplayAgrees ==
  Free /\ script = "none" /\ ~lost =>
    /\ environment = confirmed
    /\ saved # {} => saved = {ProfileOf(e) : e \in environment}
=============================================================================
