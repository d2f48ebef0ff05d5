---------------------- MODULE DisplayDeployment_proofs ----------------------
(***************************************************************************)
(* Theorems about DeviceAccess and DisplayDeployment, for any displays,    *)
(* any number of processes that pair and revoke them, and any failures:    *)
(* types, that paired devices keep their tokens, that revoked ones stay    *)
(* out, and that the display runs what the Manager believes.               *)
(*                                                                         *)
(* The argument for the devices: unless commands overlapped, one runs at a *)
(* time, so what it read at its start still holds, and a token goes only   *)
(* after its device has.  For the display: an Apply that is past the       *)
(* script has its target installed and what was there before set aside,    *)
(* which is the confirmed environment unless something was lost.           *)
(***************************************************************************)
EXTENDS DisplayDeployment, TLAPS

-----------------------------------------------------------------------------
(* Pairing. *)

\* What the one running command knows.
CommandKnows(c) ==
  /\ c.step # "none" /\ c.step # "dropping" => c.devices = paired
  /\ c.step \in {"storing", "pairing", "dropping"} => c.device \notin paired
  /\ c.step = "storing" => c.token # NoToken
  /\ c.step = "pairing" => keyring[c.device] # NoToken

PairInv ==
  overlapped \/
    /\ \A d \in paired : keyring[d] # NoToken
    /\ \A o, other \in Operators : Running(o) /\ Running(other) => o = other
    /\ \A o \in Operators : CommandKnows(command[o])

\* A token is there to be listed, whatever overlapped.
Lists(c) == c.step = "listing" => c.token # NoToken

AccessInv ==
  /\ AccessTypeOK /\ Devices # {} /\ PairInv
  /\ \A o \in Operators : Lists(command[o])

LEMMA NoCommandType ==
  ASSUME Devices # {}
  PROVE  NoCommand \in Commands /\ NoCommand.step = "none"
BY DEF NoCommand, Commands, CommandSteps, MaybeToken

LEMMA CommandType ==
  ASSUME NEW c \in Commands
  PROVE  /\ c.step \in CommandSteps /\ c.device \in Devices /\ c.token \in MaybeToken
         /\ c.devices \subseteq Devices /\ c.list \subseteq Token
         /\ \A step \in CommandSteps :
              /\ [c EXCEPT !.step = step] \in Commands
              /\ [c EXCEPT !.step = step].step = step
              /\ [c EXCEPT !.step = step].device = c.device
              /\ [c EXCEPT !.step = step].token = c.token
              /\ [c EXCEPT !.step = step].devices = c.devices
BY DEF Commands

\* One operator's command is replaced while no other runs.
LEMMA CommandReplaced ==
  ASSUME AccessInv, NEW o \in Operators, NEW c \in Commands,
         command' = [command EXCEPT ![o] = c],
         UNCHANGED overlapped,
         Running(o), Lists(c),
         ~ overlapped => (\A d \in paired' : keyring'[d] # NoToken) /\ CommandKnows(c)'
  PROVE  /\ PairInv' /\ command' \in [Operators -> Commands]
         /\ \A x \in Operators : Lists(command'[x])
<1> USE DEF AccessInv, AccessTypeOK
<1>1. /\ command' \in [Operators -> Commands]
      /\ command'[o] = c
      /\ \A other \in Operators : other # o => command'[other] = command[other]
  OBVIOUS
<1>2. ASSUME ~ overlapped, NEW other \in Operators, other # o
      PROVE  command'[other].step = "none"
  BY <1>1, <1>2 DEF PairInv, Running
<1>3. ASSUME ~ overlapped
      PROVE  \A x \in Operators : CommandKnows(command[x])'
  <2> SUFFICES ASSUME NEW x \in Operators
               PROVE  CommandKnows(command[x])'
    OBVIOUS
  <2>1. CASE x = o
    BY <1>1, <1>3, <2>1
  <2>2. CASE x # o
    BY <1>2, <1>3, <2>2 DEF CommandKnows
  <2> QED
    BY <2>1, <2>2
<1>4. ASSUME ~ overlapped
      PROVE  \A x, y \in Operators : Running(x)' /\ Running(y)' => x = y
  BY <1>2, <1>4 DEF Running
<1>5. \A x \in Operators : Lists(command'[x])
  <2> SUFFICES ASSUME NEW x \in Operators
               PROVE  Lists(command'[x])
    OBVIOUS
  <2> QED
    BY <1>1
<1> QED
  BY <1>1, <1>3, <1>4, <1>5 DEF PairInv

LEMMA BeginKeeps ==
  ASSUME AccessInv, NEW o \in Operators, NEW c \in Commands, Begin(o, c),
         issued' \in 0 .. MaxTokens, Lists(c),
         ~ overlapped => CommandKnows(c)
  PROVE  AccessInv'
<1> USE DEF AccessInv
<1>1. UNCHANGED <<paired, keyring, revoked, up, known, barred, sessions, dismissed>>
  BY DEF Begin, fileVars, daemonVars
<1>2. /\ command' \in [Operators -> Commands] /\ command'[o] = c
      /\ \A other \in Operators : other # o => command'[other] = command[other]
  BY DEF Begin, AccessTypeOK
<1>3. AccessTypeOK'
  BY <1>1, <1>2 DEF AccessTypeOK, Begin
<1>6. \A x \in Operators : Lists(command[x])'
  <2>1. ASSUME NEW x \in Operators
        PROVE  Lists(command'[x])
    BY <1>2
  <2> QED
    BY <2>1 DEF Lists
<1>4. CASE overlapped'
  BY <1>3, <1>4, <1>6 DEF PairInv
<1>5. CASE ~ overlapped'
  <2>1. ~ overlapped /\ \A other \in Operators : other # o => ~ Running(other)
    BY <1>5 DEF Begin
  <2>2. \A x, y \in Operators : Running(x)' /\ Running(y)' => x = y
    BY <1>2, <2>1 DEF Running
  <2>3. \A x \in Operators : CommandKnows(command'[x])
    BY <1>2, <2>1 DEF PairInv
  <2>4. \A x \in Operators : CommandKnows(command[x])'
    BY <1>1, <2>3 DEF CommandKnows
  <2>5. PairInv'
    BY <1>1, <2>1, <2>2, <2>4 DEF PairInv
  <2> QED
    BY <1>3, <1>6, <2>5
<1> QED
  BY <1>4, <1>5

\* Types of the parts a command changes.
LEMMA AddKeeps ==
  ASSUME AccessInv, NEW o \in Operators, BeginAdd(o)
  PROVE  AccessInv'
<1>1. PICK d \in Devices \ paired :
        /\ issued < MaxTokens /\ issued' = issued + 1
        /\ Begin(o, [step |-> "storing", device |-> d, token |-> issued + 1,
                     devices |-> paired, list |-> {}])
  BY DEF BeginAdd
<1> DEFINE c == [step |-> "storing", device |-> d, token |-> issued + 1,
                 devices |-> paired, list |-> {}]
<1>2. issued + 1 \in Token /\ issued' \in 0 .. MaxTokens
  BY <1>1, AccessAssumption DEF AccessInv, AccessTypeOK, Token
<1>3. c \in Commands
  BY <1>2 DEF Commands, CommandSteps, MaybeToken, AccessInv, AccessTypeOK
<1>4. CommandKnows(c)
  BY <1>2, AccessAssumption DEF CommandKnows, NoToken, Token
<1> QED
  BY <1>1, <1>2, <1>3, <1>4, BeginKeeps DEF Lists

LEMMA BeginRevokeKeeps ==
  ASSUME AccessInv, NEW o \in Operators, BeginRevoke(o)
  PROVE  AccessInv'
<1>1. PICK d \in paired :
        /\ keyring[d] # NoToken
        /\ Begin(o, [step |-> "listing", device |-> d, token |-> keyring[d],
                     devices |-> paired, list |-> revoked])
        /\ UNCHANGED issued
  BY DEF BeginRevoke
<1> DEFINE c == [step |-> "listing", device |-> d, token |-> keyring[d],
                 devices |-> paired, list |-> revoked]
<1>2. c \in Commands
  BY DEF Commands, CommandSteps, AccessInv, AccessTypeOK
<1>3. CommandKnows(c)
  BY DEF CommandKnows
<1> QED
  BY <1>1, <1>2, <1>3, BeginKeeps DEF AccessInv, AccessTypeOK, Lists

\* The command ends or dies: nothing is left to know.
LEMMA EndsKeeps ==
  ASSUME AccessInv, NEW o \in Operators, Running(o), Ends(o),
         UNCHANGED <<issued, overlapped, daemonVars>>,
         paired' \subseteq Devices, keyring' \in [Devices -> MaybeToken],
         revoked' \subseteq Token, dismissed' \subseteq Token,
         ~ overlapped => \A d \in paired' : keyring'[d] # NoToken
  PROVE  AccessInv'
<1>1. NoCommand \in Commands /\ NoCommand.step = "none"
  BY NoCommandType DEF AccessInv
<1>2. CommandKnows(NoCommand)'
  BY <1>1 DEF CommandKnows
<1>3. /\ PairInv' /\ command' \in [Operators -> Commands]
      /\ \A x \in Operators : Lists(command'[x])
  BY <1>1, <1>2, CommandReplaced DEF Ends, Lists
<1> QED
  BY <1>3 DEF AccessInv, AccessTypeOK, daemonVars, Lists

LEMMA GoesKeeps ==
  ASSUME AccessInv, NEW o \in Operators, NEW step \in CommandSteps, Running(o), Goes(o, step),
         UNCHANGED <<issued, overlapped, daemonVars>>,
         paired' \subseteq Devices, keyring' \in [Devices -> MaybeToken],
         revoked' \subseteq Token, dismissed' \subseteq Token,
         ~ overlapped =>
           /\ \A d \in paired' : keyring'[d] # NoToken
           /\ step # "dropping" => command[o].devices = paired'
           /\ step \in {"pairing", "dropping"} => command[o].device \notin paired'
           /\ step = "pairing" => keyring'[command[o].device] # NoToken,
         step \notin {"storing", "listing"}
  PROVE  AccessInv'
<1>1. PICK c \in Commands : c = [command[o] EXCEPT !.step = step]
  BY CommandType DEF AccessInv, AccessTypeOK
<1>2. /\ c.step = step /\ c.device = command[o].device /\ c.devices = command[o].devices
      /\ command' = [command EXCEPT ![o] = c]
  BY <1>1, CommandType DEF AccessInv, AccessTypeOK, Goes
<1>3. ~ overlapped => CommandKnows(c)'
  BY <1>2 DEF CommandKnows
<1>4. /\ PairInv' /\ command' \in [Operators -> Commands]
      /\ \A x \in Operators : Lists(command'[x])
  BY <1>2, <1>3, CommandReplaced DEF Lists
<1> QED
  BY <1>4 DEF AccessInv, AccessTypeOK, daemonVars, Lists

LEMMA StoreTokenKeeps ==
  ASSUME AccessInv, NEW o \in Operators, StoreToken(o)
  PROVE  AccessInv'
<1> DEFINE c == command[o]
           stored == [keyring EXCEPT ![c.device] = c.token]
<1>1. /\ c.step = "storing" /\ Running(o) /\ c \in Commands
      /\ UNCHANGED <<paired, revoked, daemonVars, issued, dismissed, overlapped>>
      /\ \/ keyring' = stored /\ Goes(o, "pairing")
         \/ keyring' \in {keyring, stored} /\ Ends(o)
  BY DEF StoreToken, Running, AccessInv, AccessTypeOK
<1>2. c.device \in Devices /\ c.token \in MaybeToken
  BY <1>1, CommandType
<1>3. /\ paired \subseteq Devices /\ revoked \subseteq Token /\ dismissed \subseteq Token
      /\ keyring \in [Devices -> MaybeToken]
  BY DEF AccessInv, AccessTypeOK
<1>4. stored \in [Devices -> MaybeToken]
  BY <1>2, <1>3
<1>5. ASSUME ~ overlapped
      PROVE  /\ c.device \notin paired /\ c.token # NoToken /\ c.devices = paired
             /\ \A d \in paired : keyring[d] # NoToken /\ stored[d] # NoToken
             /\ stored[c.device] # NoToken
  <2>1. CommandKnows(c) /\ \A d \in paired : keyring[d] # NoToken
    BY <1>5 DEF AccessInv, PairInv
  <2>2. c.device \notin paired /\ c.token # NoToken /\ c.devices = paired
    BY <1>1, <2>1 DEF CommandKnows
  <2> QED
    BY <1>2, <1>3, <2>1, <2>2
<1>6. CASE keyring' = stored /\ Goes(o, "pairing")
  <2>1. "pairing" \in CommandSteps
    BY DEF CommandSteps
  <2> HIDE DEF c, stored
  <2> QED
    BY <1>1, <1>3, <1>4, <1>5, <1>6, <2>1, GoesKeeps DEF c
<1>7. CASE keyring' \in {keyring, stored} /\ Ends(o)
  <2> HIDE DEF c, stored
  <2> QED
    BY <1>1, <1>3, <1>4, <1>5, <1>7, EndsKeeps
<1> QED
  BY <1>1, <1>6, <1>7

LEMMA PairKeeps ==
  ASSUME AccessInv, NEW o \in Operators, Pair(o)
  PROVE  AccessInv'
<1> DEFINE c == command[o]
           deleted == [keyring EXCEPT ![c.device] = NoToken]
<1>1. /\ c.step = "pairing" /\ Running(o) /\ c \in Commands /\ Ends(o)
      /\ UNCHANGED <<revoked, daemonVars, issued, dismissed, overlapped>>
      /\ \/ paired' = c.devices \cup {c.device} /\ keyring' = keyring
         \/ keyring' = deleted /\ paired' = paired
         \/ keyring' = keyring /\ paired' = paired
  BY DEF Pair, Running, AccessInv, AccessTypeOK
<1>2. c.device \in Devices /\ c.devices \subseteq Devices
  BY <1>1, CommandType
<1>3. /\ paired \subseteq Devices /\ revoked \subseteq Token /\ dismissed \subseteq Token
      /\ keyring \in [Devices -> MaybeToken]
  BY DEF AccessInv, AccessTypeOK
<1>4. deleted \in [Devices -> MaybeToken]
  BY <1>2, <1>3 DEF MaybeToken
<1>5. ASSUME ~ overlapped
      PROVE  /\ c.device \notin paired /\ c.devices = paired /\ keyring[c.device] # NoToken
             /\ \A d \in paired : keyring[d] # NoToken /\ deleted[d] # NoToken
  <2>1. CommandKnows(c) /\ \A d \in paired : keyring[d] # NoToken
    BY <1>5 DEF AccessInv, PairInv
  <2>2. c.device \notin paired /\ c.devices = paired /\ keyring[c.device] # NoToken
    BY <1>1, <2>1 DEF CommandKnows
  <2> QED
    BY <1>2, <1>3, <2>1, <2>2
<1>6. /\ paired' \subseteq Devices /\ keyring' \in [Devices -> MaybeToken]
      /\ revoked' \subseteq Token /\ dismissed' \subseteq Token
  <2> HIDE DEF c, deleted
  <2> QED
    BY <1>1, <1>2, <1>3, <1>4
<1>7. ~ overlapped => \A d \in paired' : keyring'[d] # NoToken
  <2> HIDE DEF c, deleted
  <2> QED
    BY <1>1, <1>5
<1> QED
  BY <1>1, <1>6, <1>7, EndsKeeps

LEMMA ListKeeps ==
  ASSUME AccessInv, NEW o \in Operators, List(o)
  PROVE  AccessInv'
<1> DEFINE c == command[o]
<1>1. /\ c.step = "listing" /\ Running(o) /\ c \in Commands
      /\ UNCHANGED <<paired, keyring, daemonVars, issued, overlapped>>
      /\ \/ revoked' = c.list \cup {c.token} /\ dismissed' = dismissed \cup {c.token}
            /\ Goes(o, "unpairing")
         \/ Ends(o) /\ UNCHANGED <<revoked, dismissed>>
  BY DEF List, Running, AccessInv, AccessTypeOK
<1>2. c.list \subseteq Token /\ c.token \in MaybeToken /\ "unpairing" \in CommandSteps
  BY <1>1, CommandType DEF CommandSteps
<1>3. /\ paired \subseteq Devices /\ revoked \subseteq Token /\ dismissed \subseteq Token
      /\ keyring \in [Devices -> MaybeToken]
  BY DEF AccessInv, AccessTypeOK
<1>4. ~ overlapped => (\A d \in paired : keyring[d] # NoToken) /\ c.devices = paired
  BY <1>1 DEF AccessInv, PairInv, CommandKnows
<1>5. CASE Ends(o) /\ UNCHANGED <<revoked, dismissed>>
  BY <1>1, <1>3, <1>4, <1>5, EndsKeeps
<1>6. CASE /\ revoked' = c.list \cup {c.token} /\ dismissed' = dismissed \cup {c.token}
           /\ Goes(o, "unpairing")
  <2>1. c.token \in Token
    BY <1>1, <1>2 DEF AccessInv, Lists, MaybeToken
  <2> HIDE DEF c
  <2> QED
    BY <1>1, <1>2, <1>3, <1>4, <1>6, <2>1, GoesKeeps DEF c
<1> QED
  BY <1>1, <1>5, <1>6

LEMMA UnpairKeeps ==
  ASSUME AccessInv, NEW o \in Operators, Unpair(o)
  PROVE  AccessInv'
<1> DEFINE c == command[o]
<1>1. /\ c.step = "unpairing" /\ Running(o) /\ c \in Commands
      /\ UNCHANGED <<keyring, revoked, daemonVars, issued, dismissed, overlapped>>
      /\ \/ paired' = c.devices \ {c.device} /\ Goes(o, "dropping")
         \/ Ends(o) /\ UNCHANGED paired
  BY DEF Unpair, Running, AccessInv, AccessTypeOK
<1>2. c.devices \subseteq Devices /\ "dropping" \in CommandSteps
  BY <1>1, CommandType DEF CommandSteps
<1>3. /\ paired \subseteq Devices /\ revoked \subseteq Token /\ dismissed \subseteq Token
      /\ keyring \in [Devices -> MaybeToken]
  BY DEF AccessInv, AccessTypeOK
<1>4. ~ overlapped => (\A d \in paired : keyring[d] # NoToken) /\ c.devices = paired
  BY <1>1 DEF AccessInv, PairInv, CommandKnows
<1>5. CASE Ends(o) /\ UNCHANGED paired
  BY <1>1, <1>3, <1>4, <1>5, EndsKeeps
<1>6. CASE paired' = c.devices \ {c.device} /\ Goes(o, "dropping")
  <2> HIDE DEF c
  <2> QED
    BY <1>1, <1>2, <1>3, <1>4, <1>6, GoesKeeps DEF c
<1> QED
  BY <1>1, <1>5, <1>6

LEMMA DropTokenKeeps ==
  ASSUME AccessInv, NEW o \in Operators, DropToken(o)
  PROVE  AccessInv'
<1> DEFINE c == command[o]
           deleted == [keyring EXCEPT ![c.device] = NoToken]
<1>1. /\ c.step = "dropping" /\ Running(o) /\ c \in Commands /\ Ends(o)
      /\ UNCHANGED <<paired, revoked, daemonVars, issued, dismissed, overlapped>>
      /\ keyring' \in {keyring, deleted}
  BY DEF DropToken, Running, AccessInv, AccessTypeOK
<1>2. c.device \in Devices
  BY <1>1, CommandType
<1>3. /\ paired \subseteq Devices /\ revoked \subseteq Token /\ dismissed \subseteq Token
      /\ keyring \in [Devices -> MaybeToken]
  BY DEF AccessInv, AccessTypeOK
<1>4. deleted \in [Devices -> MaybeToken]
  BY <1>2, <1>3 DEF MaybeToken
<1>5. ASSUME ~ overlapped
      PROVE  \A d \in paired : keyring[d] # NoToken /\ deleted[d] # NoToken
  <2>1. c.device \notin paired /\ \A d \in paired : keyring[d] # NoToken
    BY <1>1, <1>5 DEF AccessInv, PairInv, CommandKnows
  <2> QED
    BY <1>2, <1>3, <2>1
<1> HIDE DEF c, deleted
<1> QED
  BY <1>1, <1>3, <1>4, <1>5, EndsKeeps

LEMMA DieKeeps ==
  ASSUME AccessInv, NEW o \in Operators, Die(o)
  PROVE  AccessInv'
BY EndsKeeps DEF Die, fileVars, AccessInv, AccessTypeOK, PairInv

\* What the daemon does is no matter of the commands'.
LEMMA DaemonKeeps ==
  ASSUME AccessInv,
         UNCHANGED <<fileVars, command, issued, dismissed, overlapped>>,
         up' \in BOOLEAN, known' \in [Devices -> MaybeToken], barred' \subseteq Token,
         sessions' \in [Devices -> MaybeToken]
  PROVE  AccessInv'
<1>1. AccessTypeOK'
  BY DEF AccessInv, AccessTypeOK, fileVars
<1>2. PairInv'
  BY DEF AccessInv, PairInv, CommandKnows, Running, fileVars
<1> QED
  BY <1>1, <1>2 DEF AccessInv, Lists

LEMMA NoSessions == [d \in Devices |-> NoToken] \in [Devices -> MaybeToken]
BY DEF MaybeToken

LEMMA StartDaemonKeeps ==
  ASSUME AccessInv, StartDaemon
  PROVE  AccessInv'
<1>1. [d \in Devices |-> IF d \in paired THEN keyring[d] ELSE NoToken]
        \in [Devices -> MaybeToken]
  BY DEF AccessInv, AccessTypeOK, MaybeToken
<1> QED
  BY <1>1, DaemonKeeps DEF StartDaemon, AccessInv, AccessTypeOK, fileVars

LEMMA StopDaemonKeeps ==
  ASSUME AccessInv, StopDaemon
  PROVE  AccessInv'
BY NoSessions, DaemonKeeps DEF StopDaemon, AccessInv, AccessTypeOK

\* Sessions alone may change.
LEMMA SessionKeeps ==
  ASSUME AccessInv, AccessStays, sessions' \in [Devices -> MaybeToken]
  PROVE  AccessInv'
BY DaemonKeeps DEF AccessStays, AccessInv, AccessTypeOK

LEMMA ConnectKeeps ==
  ASSUME AccessInv, NEW d \in Devices, NEW token \in Token, Connect(d, token)
  PROVE  AccessInv'
<1>1. [sessions EXCEPT ![d] = token] \in [Devices -> MaybeToken]
  BY DEF AccessInv, AccessTypeOK, MaybeToken
<1> QED
  BY <1>1, SessionKeeps DEF Connect, AccessStays

LEMMA CutOffKeeps ==
  ASSUME AccessInv, NEW d \in Devices, CutOff(d)
  PROVE  AccessInv'
<1>1. [sessions EXCEPT ![d] = NoToken] \in [Devices -> MaybeToken]
  BY DEF AccessInv, AccessTypeOK, MaybeToken
<1> QED
  BY <1>1, SessionKeeps DEF CutOff, AccessStays

LEMMA AccessStep ==
  ASSUME AccessInv,
         \/ \E o \in Operators : DeviceCommand(o)
         \/ StartDaemon \/ StopDaemon
         \/ \E d \in Devices : CutOff(d)
  PROVE  AccessInv'
<1>1. ASSUME NEW o \in Operators, DeviceCommand(o)
      PROVE  AccessInv'
  BY <1>1, AddKeeps, StoreTokenKeeps, PairKeeps, BeginRevokeKeeps, ListKeeps, UnpairKeeps,
     DropTokenKeeps, DieKeeps DEF DeviceCommand
<1> QED
  BY <1>1, StartDaemonKeeps, StopDaemonKeeps, CutOffKeeps

LEMMA AccessStart ==
  ASSUME AccessInit
  PROVE  AccessInv
<1>1. PICK d \in Devices :
        /\ paired = {d}
        /\ keyring = [x \in Devices |-> IF x = d THEN 1 ELSE NoToken]
  BY DEF AccessInit
<1>2. 1 \in Token /\ NoToken \notin Token
  BY AccessAssumption DEF Token, NoToken
<1>3. NoCommand \in Commands /\ NoCommand.step = "none"
  BY <1>1, NoCommandType
<1>4. AccessTypeOK
  <2>1. /\ keyring \in [Devices -> MaybeToken]
        /\ known \in [Devices -> MaybeToken] /\ sessions \in [Devices -> MaybeToken]
    BY <1>1, <1>2 DEF AccessInit, MaybeToken
  <2>2. command \in [Operators -> Commands]
    BY <1>3 DEF AccessInit
  <2>3. issued \in 0 .. MaxTokens
    BY AccessAssumption DEF AccessInit
  <2> QED
    BY <1>1, <2>1, <2>2, <2>3 DEF AccessInit, AccessTypeOK
<1>5. PairInv
  BY <1>1, <1>2, <1>3 DEF AccessInit, PairInv, CommandKnows, Running
<1> QED
  BY <1>1, <1>3, <1>4, <1>5 DEF AccessInv, AccessInit, Lists

-----------------------------------------------------------------------------
(* Deployment. *)

ProfilesOf(T) == {ProfileOf(e) : e \in T}

DeployTypes ==
  /\ candidate \in Option(Profiles) /\ tested \in Option(Profiles) /\ saved \in Option(Profiles)
  /\ job \in Jobs
  /\ {environment, previous, service, wanted, confirmed} \subseteq Option(Environments)
  /\ script \in {"none", "backup", "place", "restart"}
  /\ lost \in BOOLEAN

AfterScript == {"confirming", "saving", "undoing"}

\* Where the Apply and the script are, and what that says of the files.
Progress ==
  /\ Free => job.target = {}
  /\ ProfilesOf(job.target) \subseteq tested
  /\ job.step = "running" =>
       /\ script \in {"backup", "place"} => wanted = job.target
       /\ script = "restart" => environment = job.target
       /\ script # "none"
  /\ job.step \in AfterScript => script = "none" /\ environment = job.target /\ previous # {}
  /\ script = "backup" => environment # {}
  /\ script \in {"place", "restart"} => previous # {}

\* Where the confirmed environment is, unless something was lost.
Believed ==
  lost \/
    /\ script # "none" => job.step = "running"
    /\ saved # {} => saved = ProfilesOf(confirmed)
    /\ job.step \in {"none", "probing"} => environment = confirmed
    /\ script = "backup" => environment = confirmed
    /\ script \in {"place", "restart"} => previous = confirmed
    /\ job.step \in AfterScript => previous = confirmed

DeployInv == DeployTypes /\ Progress /\ Believed

DeploymentInv == AccessInv /\ DeployInv

LEMMA JobAt ==
  ASSUME NEW j \in Jobs, NEW step \in JobSteps
  PROVE  /\ [j EXCEPT !.step = step] \in Jobs
         /\ [j EXCEPT !.step = step].step = step
         /\ [j EXCEPT !.step = step].target = j.target
         /\ [j EXCEPT !.fresh = TRUE] \in Jobs
         /\ [j EXCEPT !.fresh = TRUE].step = j.step
         /\ [j EXCEPT !.fresh = TRUE].target = j.target
BY DEF Jobs

LEMMA JobIsOver ==
  NoJob \in Jobs /\ NoJob.step = "none" /\ NoJob.target = {} /\ ProfilesOf({}) = {}
BY DEF NoJob, Jobs, JobSteps, Option, ProfilesOf

LEMMA SingleOrNone ==
  ASSUME NEW S, NEW x \in S
  PROVE  {x} \in Option(S) /\ {} \in Option(S) /\ {x} # {}
BY DEF Option

LEMMA ProfilesOfType ==
  ASSUME NEW T \in Option(Environments)
  PROVE  ProfilesOf(T) \in Option(Profiles)
<1>1. CASE T = {}
  BY <1>1 DEF ProfilesOf, Option
<1>2. CASE \E e \in Environments : T = {e}
  <2>1. PICK e \in Environments : T = {e}
    BY <1>2
  <2>2. ProfilesOf(T) = {ProfileOf(e)}
    BY <2>1 DEF ProfilesOf
  <2>3. ProfileOf(e) \in Profiles
    BY <2>1 DEF ProfileOf, Profiles, Environments
  <2> QED
    BY <2>2, <2>3, SingleOrNone
<1> QED
  BY <1>1, <1>2 DEF Option

LEMMA CurrentProfilesType ==
  ASSUME AccessInv, DeployTypes
  PROVE  CurrentProfiles \subseteq Profiles
<1>1. paired \subseteq Devices /\ DefaultStyle \in Styles
  BY DeploymentAssumption DEF AccessInv, AccessTypeOK
<1>2. [device : paired, style : {DefaultStyle}] \subseteq Profiles
  BY <1>1 DEF Profiles
<1> QED
  BY <1>2 DEF CurrentProfiles, DeployTypes, Option

\* The Apply begins: what it will install is a whole environment, of the tested profile.
LEMMA RenderedType ==
  ASSUME AccessInv, NEW p \in Profiles, keyring[p.device] # NoToken
  PROVE  /\ Rendered(p) \in Environments
         /\ ProfilesOf({Rendered(p)}) = {p}
<1>1. p.device \in Devices /\ p.style \in Styles
  BY DEF Profiles
<1>2. keyring[p.device] \in Token
  BY <1>1 DEF AccessInv, AccessTypeOK, MaybeToken
<1>3. Rendered(p) \in Environments
  BY <1>1, <1>2 DEF Rendered, Environments
<1>4. ProfileOf(Rendered(p)) = p
  BY DEF ProfileOf, Rendered, Profiles
<1> QED
  BY <1>3, <1>4 DEF ProfilesOf

LEMMA EditProfileKeeps ==
  ASSUME AccessInv, DeployInv, EditProfile
  PROVE  DeployInv'
<1> USE DEF DeployInv
<1>1. candidate' \in Option(Profiles) /\ tested' \in Option(Profiles)
  BY DEF EditProfile, Option, Profiles, AccessInv, AccessTypeOK
<1>2. DeployTypes'
  BY <1>1 DEF EditProfile, DeployTypes, piVars
<1>3. Progress'
  BY JobIsOver DEF EditProfile, Progress, piVars, Free, AfterScript
<1>4. Believed'
  BY DEF EditProfile, Believed, piVars, AfterScript
<1> QED
  BY <1>2, <1>3, <1>4

LEMMA TestProfileKeeps ==
  ASSUME AccessInv, DeployInv, TestProfile
  PROVE  DeployInv'
<1> USE DEF DeployInv
<1>1. tested' \in Option(Profiles)
  BY CurrentProfilesType, SingleOrNone DEF TestProfile
<1>2. DeployTypes'
  BY <1>1 DEF TestProfile, DeployTypes, piVars
<1>3. Progress'
  BY JobIsOver DEF TestProfile, Progress, piVars, Free, AfterScript
<1>4. Believed'
  BY DEF TestProfile, Believed, piVars, AfterScript
<1> QED
  BY <1>2, <1>3, <1>4

LEMMA ApplyProfileKeeps ==
  ASSUME AccessInv, DeployInv, ApplyProfile
  PROVE  DeployInv'
<1> USE DEF DeployInv
<1>1. PICK p \in CurrentProfiles :
        /\ p \in tested /\ keyring[p.device] # NoToken
        /\ job' = [NoJob EXCEPT !.step = "probing", !.target = {Rendered(p)}]
  BY DEF ApplyProfile
<1>2. p \in Profiles
  BY CurrentProfilesType
<1>3. Rendered(p) \in Environments /\ ProfilesOf({Rendered(p)}) = {p}
  BY <1>1, <1>2, RenderedType
<1>4. job' \in Jobs /\ job'.step = "probing" /\ job'.target = {Rendered(p)}
  BY <1>1, <1>3, SingleOrNone DEF NoJob, Jobs, JobSteps
<1>5. DeployTypes'
  BY <1>4 DEF ApplyProfile, DeployTypes, piVars
<1>6. Progress'
  BY <1>1, <1>3, <1>4 DEF ApplyProfile, Progress, piVars, Free, AfterScript
<1>7. Believed'
  BY <1>4 DEF ApplyProfile, Believed, piVars, AfterScript, Free
<1> QED
  BY <1>5, <1>6, <1>7

LEMMA InstallKeeps ==
  ASSUME DeployInv, Install
  PROVE  DeployInv'
<1> USE DEF DeployInv
<1>1. job' \in Jobs /\ job'.step = "running" /\ job'.target = job.target
  BY JobAt DEF Install, DeployTypes, JobSteps
<1>2. DeployTypes'
  BY <1>1 DEF Install, DeployTypes, Jobs
<1>3. Progress'
  BY <1>1 DEF Install, Progress, Free, AfterScript
<1>4. Believed'
  BY <1>1 DEF Install, Believed, AfterScript
<1> QED
  BY <1>2, <1>3, <1>4

LEMMA UnreachableKeeps ==
  ASSUME DeployInv, Unreachable
  PROVE  DeployInv'
<1> USE DEF DeployInv
<1>1. DeployTypes'
  BY JobIsOver DEF Unreachable, DeployTypes, piVars
<1>2. Progress'
  BY JobIsOver DEF Unreachable, Progress, Free, AfterScript, piVars
<1>3. Believed'
  BY JobIsOver DEF Unreachable, Believed, AfterScript, piVars
<1> QED
  BY <1>1, <1>2, <1>3

LEMMA GiveUpKeeps ==
  ASSUME DeployInv, GiveUp
  PROVE  DeployInv'
<1> USE DEF DeployInv
<1>1. candidate' \in Option(Profiles) /\ tested' \in Option(Profiles)
  BY DEF GiveUp, DeployTypes, Option
<1>2. DeployTypes'
  BY <1>1, JobIsOver DEF GiveUp, DeployTypes, piVars
<1>3. Progress'
  BY JobIsOver DEF GiveUp, Progress, Free, AfterScript, piVars
<1>4. Believed'
  BY DEF GiveUp, Believed
<1> QED
  BY <1>2, <1>3, <1>4

LEMMA ConfirmKeeps ==
  ASSUME DeployInv, Confirm
  PROVE  DeployInv'
<1> USE DEF DeployInv
<1>1. /\ job' \in Jobs /\ job'.step \in AfterScript /\ job'.target = job.target
      /\ job.step \in AfterScript
  <2>1. job \in Jobs /\ {"saving", "undoing"} \subseteq JobSteps \cap AfterScript
    BY DEF DeployTypes, JobSteps, AfterScript
  <2>2. \E step \in {"saving", "undoing"} : job' = [job EXCEPT !.step = step]
    BY DEF Confirm
  <2>3. PICK step \in JobSteps \cap AfterScript : job' = [job EXCEPT !.step = step]
    BY <2>1, <2>2
  <2>4. job' \in Jobs /\ job'.step = step /\ job'.target = job.target
    BY <2>1, <2>3, JobAt
  <2>5. job.step \in AfterScript
    BY DEF Confirm, AfterScript
  <2> QED
    BY <2>3, <2>4, <2>5
<1>2. DeployTypes'
  BY <1>1 DEF Confirm, DeployTypes, piVars
<1>3. Progress'
  BY <1>1 DEF Confirm, Progress, Free, AfterScript, piVars
<1>4. Believed'
  BY <1>1 DEF Confirm, Believed, AfterScript, piVars
<1> QED
  BY <1>2, <1>3, <1>4

LEMMA SaveProfileKeeps ==
  ASSUME DeployInv, SaveProfile
  PROVE  DeployInv'
<1> USE DEF DeployInv
<1>1. CASE /\ saved' = ProfilesOf(job.target)
           /\ candidate' = {} /\ tested' = {}
           /\ job' = NoJob
           /\ confirmed' = job.target
           /\ lost' = FALSE
  <2>1. job.target \in Option(Environments) /\ {} \in Option(Profiles)
    BY DEF DeployTypes, Jobs, Option
  <2>2. saved' \in Option(Profiles)
    BY <1>1, <2>1, ProfilesOfType
  <2>3. DeployTypes'
    BY <1>1, <2>1, <2>2, JobIsOver DEF SaveProfile, DeployTypes, piVars
  <2>4. Progress'
    BY <1>1, JobIsOver DEF SaveProfile, Progress, Free, AfterScript, piVars
  <2>5. environment' = confirmed' /\ script' = "none"
    BY <1>1 DEF SaveProfile, Progress, AfterScript, piVars
  <2>6. Believed'
    BY <1>1, <2>5, JobIsOver DEF Believed, AfterScript
  <2> QED
    BY <2>3, <2>4, <2>6
<1>2. CASE /\ job' = [job EXCEPT !.step = "undoing"]
           /\ UNCHANGED <<saved, candidate, tested, confirmed, lost>>
  <2>1. job' \in Jobs /\ job'.step = "undoing" /\ job'.target = job.target
    BY <1>2, JobAt DEF DeployTypes, JobSteps
  <2>2. DeployTypes'
    BY <1>2, <2>1 DEF SaveProfile, DeployTypes, piVars
  <2>3. Progress'
    BY <1>2, <2>1 DEF SaveProfile, Progress, Free, AfterScript, piVars
  <2>4. Believed'
    BY <1>2, <2>1 DEF SaveProfile, Believed, AfterScript, piVars
  <2> QED
    BY <2>2, <2>3, <2>4
<1> QED
  BY <1>1, <1>2 DEF SaveProfile, ProfilesOf

LEMMA UndoKeeps ==
  ASSUME DeployInv, Undo
  PROVE  DeployInv'
<1> USE DEF DeployInv
<1>1. /\ {environment', service'} \subseteq Option(Environments)
      /\ tested' \in Option(Profiles)
  BY DEF Undo, DeployTypes, Option
<1>2. DeployTypes'
  BY <1>1, JobIsOver DEF Undo, DeployTypes
<1>3. Progress'
  BY JobIsOver DEF Undo, Progress, Free, AfterScript
<1>4. Believed'
  BY JobIsOver DEF Undo, Believed, Progress, AfterScript
<1> QED
  BY <1>2, <1>3, <1>4

LEMMA SetAsideKeeps ==
  ASSUME DeployInv, SetAside
  PROVE  DeployInv'
<1> USE DEF DeployInv
<1>1. DeployTypes'
  BY DEF SetAside, DeployTypes, managerVars, Option
<1>2. Progress'
  BY DEF SetAside, Progress, Free, AfterScript, managerVars
<1>3. Believed'
  BY DEF SetAside, Believed, AfterScript, managerVars
<1> QED
  BY <1>1, <1>2, <1>3

LEMMA PlaceKeeps ==
  ASSUME DeployInv, Place
  PROVE  DeployInv'
<1> USE DEF DeployInv
<1>1. DeployTypes'
  BY DEF Place, DeployTypes, managerVars
<1>2. Progress'
  BY DEF Place, Progress, Free, AfterScript, managerVars
<1>3. Believed'
  BY DEF Place, Believed, AfterScript, managerVars
<1> QED
  BY <1>1, <1>2, <1>3

LEMMA RestartServiceKeeps ==
  ASSUME DeployInv, RestartService
  PROVE  DeployInv'
<1> USE DEF DeployInv
<1>1. /\ script = "restart" /\ script' = "none" /\ wanted' = {} /\ previous # {}
      /\ UNCHANGED <<candidate, tested, saved, confirmed, lost>>
      /\ wanted' \in Option(Environments)
  BY DEF RestartService, Progress, Option
<1>2. CASE /\ service' = environment
           /\ job' = IF job.step = "running" THEN [job EXCEPT !.step = "confirming"] ELSE job
           /\ UNCHANGED <<environment, previous>>
  <2>1. /\ job' \in Jobs /\ job'.target = job.target
        /\ job'.step = IF job.step = "running" THEN "confirming" ELSE job.step
    <3>1. job \in Jobs /\ "confirming" \in JobSteps
      BY DEF DeployTypes, JobSteps
    <3>2. CASE job.step = "running"
      <4>1. job' = [job EXCEPT !.step = "confirming"]
        BY <1>2, <3>2
      <4>2. job' \in Jobs /\ job'.step = "confirming" /\ job'.target = job.target
        BY <3>1, <4>1, JobAt
      <4> QED
        BY <3>2, <4>2
    <3>3. CASE job.step # "running"
      BY <1>2, <3>1, <3>3
    <3> QED
      BY <3>2, <3>3
  <2>2. DeployTypes'
    BY <1>1, <1>2, <2>1 DEF DeployTypes
  <2>3. Progress'
    BY <1>1, <1>2, <2>1 DEF Progress, Free, AfterScript
  <2>4. Believed'
    BY <1>1, <1>2, <2>1 DEF Believed, AfterScript
  <2> QED
    BY <2>2, <2>3, <2>4
<1>3. CASE /\ environment' = previous
           /\ previous' = {}
           /\ service' \in {previous, {}}
           /\ job' = IF job.step = "running" THEN NoJob ELSE job
  <2>1. {environment', previous', service'} \subseteq Option(Environments)
    BY <1>3 DEF DeployTypes, Option
  <2>2. DeployTypes'
    BY <1>1, <1>3, <2>1, JobIsOver DEF DeployTypes
  <2>3. Progress'
    BY <1>1, <1>3, JobIsOver DEF Progress, Free, AfterScript
  <2>4. Believed'
    BY <1>1, <1>3, JobIsOver DEF Believed, AfterScript
  <2> QED
    BY <2>2, <2>3, <2>4
<1> QED
  BY <1>2, <1>3 DEF RestartService

LEMMA PowerCycleKeeps ==
  ASSUME DeployInv, PowerCycle
  PROVE  DeployInv'
<1> USE DEF DeployInv
<1>1. DeployTypes'
  BY JobIsOver DEF PowerCycle, DeployTypes, Option
<1>2. Progress'
  BY JobIsOver DEF PowerCycle, Progress, Free, AfterScript
<1>3. Believed'
  BY JobIsOver DEF PowerCycle, Believed, Progress, AfterScript
<1> QED
  BY <1>1, <1>2, <1>3

LEMMA ReceiveSnapshotKeeps ==
  ASSUME DeployInv, ReceiveSnapshot
  PROVE  DeployInv'
<1> USE DEF DeployInv
<1>1. job' \in Jobs /\ job'.step = job.step /\ job'.target = job.target
  BY JobAt DEF ReceiveSnapshot, DeployTypes, JobSteps
<1>2. DeployTypes'
  BY <1>1 DEF ReceiveSnapshot, DeployTypes, piVars
<1>3. Progress'
  BY <1>1 DEF ReceiveSnapshot, Progress, Free, AfterScript, piVars
<1>4. Believed'
  BY <1>1 DEF ReceiveSnapshot, Believed, AfterScript, piVars
<1> QED
  BY <1>2, <1>3, <1>4

LEMMA DeployIdle ==
  ASSUME DeployInv, UNCHANGED deployVars
  PROVE  DeployInv'
BY DEF DeployInv, DeployTypes, Progress, Believed, Free, deployVars, managerVars, piVars

LEMMA AccessIdle ==
  ASSUME AccessInv, UNCHANGED accessVars
  PROVE  AccessInv'
BY SessionKeeps DEF accessVars, fileVars, daemonVars, AccessStays, AccessInv, AccessTypeOK

\* A process that ends takes its stream with it, and touches nothing else of access.
LEMMA HangsKeeps ==
  ASSUME AccessInv, Hangs, AccessStays
  PROVE  AccessInv'
BY SessionKeeps, NoSessions DEF Hangs

LEMMA DisplayConnectsKeeps ==
  ASSUME AccessInv, DeployInv, DisplayConnects
  PROVE  AccessInv'
<1>1. PICK e \in service : Connect(e.device, e.token)
  BY DEF DisplayConnects
<1>2. e \in Environments
  BY DEF DeployInv, DeployTypes, Option
<1> QED
  BY <1>1, <1>2, ConnectKeeps DEF Environments

\* The whole strengthening is inductive, and implies what was to be shown.
LEMMA DeploymentStep ==
  ASSUME DeploymentInv, [DeploymentNext]_allVars
  PROVE  DeploymentInv'
<1> USE DEF DeploymentInv
<1>1. CASE /\ \/ \E o \in Operators : DeviceCommand(o)
              \/ StartDaemon \/ StopDaemon
              \/ \E d \in Devices : CutOff(d)
           /\ UNCHANGED deployVars
  BY <1>1, AccessStep, DeployIdle
<1>2. CASE EditProfile
  BY <1>2, EditProfileKeeps, AccessIdle DEF EditProfile
<1>3. CASE TestProfile
  BY <1>3, TestProfileKeeps, AccessIdle DEF TestProfile
<1>4. CASE ApplyProfile
  BY <1>4, ApplyProfileKeeps, AccessIdle DEF ApplyProfile
<1>5. CASE Install
  BY <1>5, InstallKeeps, AccessIdle DEF Install
<1>6. CASE Unreachable
  BY <1>6, UnreachableKeeps, AccessIdle DEF Unreachable
<1>7. CASE GiveUp
  BY <1>7, GiveUpKeeps, AccessIdle DEF GiveUp
<1>8. CASE Confirm
  BY <1>8, ConfirmKeeps, AccessIdle DEF Confirm
<1>9. CASE SaveProfile
  BY <1>9, SaveProfileKeeps, AccessIdle DEF SaveProfile
<1>10. CASE Undo
  BY <1>10, UndoKeeps, HangsKeeps DEF Undo
<1>11. CASE SetAside
  BY <1>11, SetAsideKeeps, AccessIdle DEF SetAside
<1>12. CASE Place
  BY <1>12, PlaceKeeps, AccessIdle DEF Place
<1>13. CASE RestartService
  BY <1>13, RestartServiceKeeps, HangsKeeps DEF RestartService
<1>14. CASE PowerCycle
  BY <1>14, PowerCycleKeeps, HangsKeeps DEF PowerCycle
<1>15. CASE DisplayConnects
  BY <1>15, DisplayConnectsKeeps, DeployIdle DEF DisplayConnects
<1>16. CASE ReceiveSnapshot
  BY <1>16, ReceiveSnapshotKeeps, AccessIdle DEF ReceiveSnapshot
<1>17. CASE UNCHANGED allVars
  BY <1>17, AccessIdle, DeployIdle DEF allVars
<1> QED
  BY <1>1, <1>2, <1>3, <1>4, <1>5, <1>6, <1>7, <1>8, <1>9, <1>10, <1>11, <1>12, <1>13,
     <1>14, <1>15, <1>16, <1>17 DEF DeploymentNext

LEMMA DeploymentStart ==
  ASSUME DeploymentInit
  PROVE  DeploymentInv
<1>1. AccessInv
  BY AccessStart DEF DeploymentInit
<1>2. PICK d \in Devices : paired = {d}
  BY DEF DeploymentInit, AccessInit
<1>3. environment = {[device |-> d, style |-> DefaultStyle, token |-> 1]}
  BY <1>2 DEF DeploymentInit
<1>4. [device |-> d, style |-> DefaultStyle, token |-> 1] \in Environments
  BY AccessAssumption, DeploymentAssumption DEF Environments, Token
<1>5. environment \in Option(Environments) /\ {} \in Option(Environments)
  BY <1>3, <1>4, SingleOrNone
<1>6. DeployTypes
  BY <1>5, JobIsOver DEF DeploymentInit, DeployTypes, Option
<1>7. Progress
  BY JobIsOver DEF DeploymentInit, Progress, AfterScript
<1>8. Believed
  BY JobIsOver DEF DeploymentInit, Believed, AfterScript
<1> QED
  BY <1>1, <1>6, <1>7, <1>8 DEF DeploymentInv, DeployInv

LEMMA DeploymentInvariant == DeploymentSpec => []DeploymentInv
<1>1. DeploymentInit => DeploymentInv
  BY DeploymentStart
<1>2. DeploymentInv /\ [DeploymentNext]_allVars => DeploymentInv'
  BY DeploymentStep
<1> QED
  BY <1>1, <1>2, PTL DEF DeploymentSpec

\* Types, that an Apply can be undone until it is over, and that nothing is applied
\* that was not tested (deployer.go Apply, applyScript, rollbackScript).
THEOREM DeploymentTypeCorrect == DeploymentSpec => []DeploymentTypeOK
<1>1. DeploymentInv => DeploymentTypeOK
  BY DEF DeploymentInv, AccessInv, DeployInv, DeployTypes, Progress, AfterScript,
         ProfilesOf, DeploymentTypeOK
<1> QED
  BY <1>1, DeploymentInvariant, PTL

\* Whatever device command fails or dies at whatever step, the token of every paired
\* device is in the secret store, unless commands overlapped (device.go addDevice,
\* revokeDevice; serve.go resolveDevices).
THEOREM PairedTokensResolve == DeploymentSpec => []PairedResolve
<1>1. DeploymentInv => PairedResolve
  BY DEF DeploymentInv, AccessInv, PairInv, PairedResolve
<1> QED
  BY <1>1, DeploymentInvariant, PTL

\* At rest the display has the environment of the last successful Apply, and the saved
\* profile is that environment's, unless an answer, a process or a rollback was lost
\* (deployer.go Apply, applyScript, rollbackScript).
THEOREM DisplayRunsWhatIsSaved == DeploymentSpec => []DisplayAgrees
<1>1. DeploymentInv => DisplayAgrees
  BY DEF DeploymentInv, DeployInv, Believed, ProfilesOf, Free, DisplayAgrees
<1> QED
  BY <1>1, DeploymentInvariant, PTL

-----------------------------------------------------------------------------
(* Revocation. *)

\* No stream is authorised with a token that a command has written to the revocation
\* list, whatever is paired and revoked afterwards, and whichever daemon runs (server.go
\* authorize, acl.go Save).  Two commands at once may lose the entry.  It is the safety
\* part of RevokedStaysOut.
NotReadmitted ==
  [][\A d \in Devices :
       sessions'[d] \notin {sessions[d], NoToken} =>
         overlapped \/ sessions'[d] \notin dismissed]_accessVars

\* Unless commands overlapped, the list on disk has every token that was ever written
\* to it, and a command about to write it knows all of it.
DismissInv ==
  overlapped \/
    /\ dismissed \subseteq revoked
    /\ \A o \in Operators : command[o].step = "listing" => command[o].list = revoked

\* One command is replaced by one that is not about to write the list.
LEMMA DismissStays ==
  ASSUME AccessTypeOK, DismissInv, NEW o \in Operators, NEW c \in Commands,
         command' = [command EXCEPT ![o] = c], c.step = "listing" => c.list = revoked,
         UNCHANGED <<revoked, dismissed>>, overlapped => overlapped'
  PROVE  DismissInv'
<1>1. \A other \in Operators :
        command'[other] = IF other = o THEN c ELSE command[other]
  BY DEF AccessTypeOK
<1> QED
  BY <1>1 DEF DismissInv

LEMMA DismissCommand ==
  ASSUME AccessInv, DismissInv, NEW o \in Operators, DeviceCommand(o)
  PROVE  DismissInv'
<1>1. /\ command[o] \in Commands
      /\ NoCommand \in Commands /\ NoCommand.step = "none"
  BY NoCommandType DEF AccessInv, AccessTypeOK
<1>2. \A step \in CommandSteps :
        /\ [command[o] EXCEPT !.step = step] \in Commands
        /\ [command[o] EXCEPT !.step = step].step = step
  BY <1>1, CommandType
<1>3. ASSUME NEW step \in CommandSteps \ {"listing"}, Goes(o, step)
      PROVE  \E c \in Commands : /\ command' = [command EXCEPT ![o] = c]
                                  /\ c.step # "listing"
  <2>1. command' = [command EXCEPT ![o] = [command[o] EXCEPT !.step = step]]
    BY <1>3 DEF Goes, AccessInv, AccessTypeOK
  <2> QED
    BY <1>2, <2>1
<1>4. ASSUME Ends(o)
      PROVE  \E c \in Commands : /\ command' = [command EXCEPT ![o] = c]
                                  /\ c.step # "listing"
  BY <1>1, <1>4 DEF Ends
<1>5. CASE BeginAdd(o)
  <2>1. PICK d \in Devices \ paired :
          Begin(o, [step |-> "storing", device |-> d, token |-> issued + 1,
                    devices |-> paired, list |-> {}]) /\ issued < MaxTokens
    BY <1>5 DEF BeginAdd
  <2>2. [step |-> "storing", device |-> d, token |-> issued + 1,
         devices |-> paired, list |-> {}] \in Commands
    BY <2>1, AccessAssumption
       DEF AccessInv, AccessTypeOK, Commands, CommandSteps, MaybeToken, Token
  <2> QED
    BY <2>1, <2>2, DismissStays DEF Begin, AccessInv, fileVars
<1>6. CASE BeginRevoke(o)
  <2>1. PICK d \in paired :
          Begin(o, [step |-> "listing", device |-> d, token |-> keyring[d],
                    devices |-> paired, list |-> revoked])
    BY <1>6 DEF BeginRevoke
  <2>2. [step |-> "listing", device |-> d, token |-> keyring[d],
         devices |-> paired, list |-> revoked] \in Commands
    BY DEF AccessInv, AccessTypeOK, Commands, CommandSteps
  <2> QED
    BY <2>1, <2>2, DismissStays DEF Begin, AccessInv, fileVars
<1>7. CASE List(o)
  <2>1. CASE Ends(o) /\ UNCHANGED <<revoked, dismissed>>
    BY <1>4, <1>7, <2>1, DismissStays DEF List, AccessInv
  <2>2. CASE /\ revoked' = command[o].list \cup {command[o].token}
             /\ dismissed' = dismissed \cup {command[o].token}
             /\ Goes(o, "unpairing")
    <3> SUFFICES ASSUME ~ overlapped
                 PROVE  DismissInv'
      BY <1>7 DEF List, DismissInv
    <3>1. \A other \in Operators : Running(other) => other = o
      BY <1>7 DEF List, Running, AccessInv, PairInv
    <3>2. \A other \in Operators : command'[other].step # "listing"
      <4>1. command'[o].step = "unpairing"
        BY <1>2, <2>2 DEF Goes, AccessInv, AccessTypeOK, CommandSteps
      <4>2. \A other \in Operators \ {o} : command'[other] = command[other]
        BY <2>2 DEF Goes, AccessInv, AccessTypeOK
      <4> QED
        BY <3>1, <4>1, <4>2 DEF Running
    <3>3. dismissed \subseteq revoked /\ command[o].list = revoked
      BY <1>7 DEF List, DismissInv
    <3> QED
      BY <2>2, <3>2, <3>3 DEF DismissInv
  <2> QED
    BY <1>7, <2>1, <2>2 DEF List
<1>8. ASSUME StoreToken(o) \/ Pair(o) \/ Unpair(o) \/ DropToken(o) \/ Die(o)
      PROVE  DismissInv'
  <2>1. /\ Ends(o) \/ \E step \in CommandSteps \ {"listing"} : Goes(o, step)
        /\ UNCHANGED <<revoked, dismissed, overlapped>>
    BY <1>8 DEF StoreToken, Pair, Unpair, DropToken, Die, CommandSteps, fileVars
  <2>2. PICK c \in Commands : /\ command' = [command EXCEPT ![o] = c]
                              /\ c.step # "listing"
    BY <1>3, <1>4, <2>1
  <2> QED
    BY <2>1, <2>2, DismissStays DEF AccessInv
<1> QED
  BY <1>5, <1>6, <1>7, <1>8 DEF DeviceCommand

LEMMA DismissStep ==
  ASSUME DeploymentInv, DismissInv, [DeploymentNext]_allVars
  PROVE  DismissInv'
<1>1. CASE \E o \in Operators : DeviceCommand(o)
  BY <1>1, DismissCommand DEF DeploymentInv
<1>2. CASE UNCHANGED <<revoked, dismissed, command, overlapped>>
  BY <1>2 DEF DismissInv
<1>3. \/ \E o \in Operators : DeviceCommand(o)
      \/ UNCHANGED <<revoked, dismissed, command, overlapped>>
  BY DEF DeploymentNext, allVars, accessVars, fileVars, AccessStays,
         StartDaemon, StopDaemon, CutOff, EditProfile, TestProfile, ApplyProfile, Install,
         Unreachable, GiveUp, Confirm, SaveProfile, Undo, SetAside, Place, RestartService,
         PowerCycle, DisplayConnects, Connect, ReceiveSnapshot
<1> QED
  BY <1>1, <1>2, <1>3

LEMMA DismissStart ==
  ASSUME DeploymentInit
  PROVE  DismissInv
<1>1. PICK d \in Devices : paired = {d}
  BY DEF DeploymentInit, AccessInit
<1>2. NoCommand.step = "none"
  BY <1>1, NoCommandType
<1> QED
  BY <1>2 DEF DeploymentInit, AccessInit, DismissInv

\* Only connecting opens a stream.
LEMMA SessionsClose ==
  ASSUME DeploymentInv, [DeploymentNext]_allVars, NEW d \in Devices,
         sessions'[d] \notin {sessions[d], NoToken}
  PROVE  sessions'[d] \notin barred \cup revoked
<1>1. \/ DisplayConnects
      \/ UNCHANGED sessions \/ Hangs
      \/ \E x \in Devices : sessions' = [sessions EXCEPT ![x] = NoToken]
  BY DEF DeploymentNext, allVars, accessVars, daemonVars, Hangs,
         DeviceCommand, BeginAdd, BeginRevoke, Begin, StoreToken, Pair, List, Unpair,
         DropToken, Die, StartDaemon, StopDaemon, CutOff, EditProfile, TestProfile,
         ApplyProfile, Install, Unreachable, GiveUp, Confirm, SaveProfile, Undo, SetAside,
         Place, RestartService, PowerCycle, ReceiveSnapshot
<1>2. sessions \in [Devices -> MaybeToken]
  BY DEF DeploymentInv, AccessInv, AccessTypeOK
<1>3. DisplayConnects
  BY <1>1, <1>2 DEF Hangs
<1>4. PICK e \in service : Connect(e.device, e.token)
  BY <1>3 DEF DisplayConnects
<1>5. sessions'[d] = e.token
  BY <1>2, <1>4 DEF Connect
<1> QED
  BY <1>4, <1>5 DEF Connect, TokenRevoked

\* With a token that was written to the revocation list no stream is authorised again,
\* for any displays, daemons and device commands, unless commands overlapped (server.go
\* authorize, acl.go Save).
THEOREM RevokedAreNotReadmitted == DeploymentSpec => NotReadmitted
<1>1. DeploymentInit => DismissInv
  BY DismissStart
<1>2. DeploymentInv /\ DismissInv /\ [DeploymentNext]_allVars => DismissInv'
  BY DismissStep
<1>3. /\ DeploymentInv /\ DismissInv /\ [DeploymentNext]_allVars
      => [\A d \in Devices :
            sessions'[d] \notin {sessions[d], NoToken} =>
              overlapped \/ sessions'[d] \notin dismissed]_accessVars
  BY SessionsClose DEF DismissInv
<1> QED
  BY <1>1, <1>2, <1>3, DeploymentInvariant, PTL DEF DeploymentSpec, NotReadmitted
=============================================================================
