---------------------------- MODULE DeviceAccess ----------------------------
(***************************************************************************)
(* Who may read from the daemon: pairing and revocation of displays by     *)
(* commands of their own processes (src/cmd/homepi-node/device.go,         *)
(* src/internal/deviceacl/acl.go), and the daemon that checks the tokens   *)
(* (src/cmd/homepi-node/serve.go, src/internal/nodeapi/server.go and       *)
(* stream.go).                                                             *)
(*                                                                         *)
(* The commands share the configuration, the secret store and the          *)
(* revocation list with the daemon, and with each other without a lock.    *)
(* What a command reads it reads at its start; every write is a step that  *)
(* may fail, and the process may die before the next.                      *)
(*                                                                         *)
(* Abstractions.  A device's token is stored under the default reference   *)
(* of its ID.  Tokens are generated, so no two are alike; they are         *)
(* numbered in the order of their making, 0 for none.  The list of revoked *)
(* hashes is a set of tokens.  It can always be read: when it cannot, the  *)
(* daemon refuses everybody.                                               *)
(*                                                                         *)
(* A definition X_flaw is X with a plausible mistake in it.  No action     *)
(* uses it: it serves to see that the properties notice the mistake.       *)
(***************************************************************************)
EXTENDS Naturals, FiniteSets

CONSTANTS
  Devices,   \* IDs of displays
  Operators, \* processes that may run a device command
  MaxTokens  \* bound of the model: tokens generated

ASSUME AccessAssumption ==
  /\ IsFiniteSet(Devices) /\ IsFiniteSet(Operators)
  /\ MaxTokens \in Nat \ {0}

Token   == 1 .. MaxTokens
NoToken == 0
MaybeToken == Token \cup {NoToken}

VARIABLES
  paired,    \* the devices of the configuration file
  keyring,   \* per device: the token in the secret store
  revoked,   \* the revocation list on disk
  up,        \* whether the daemon runs
  known,     \* the daemon's table: token of every device
  barred,    \* the revocation list the daemon read at its start
  sessions,  \* per device: the token its open stream was authorised with
  command,   \* per operator: the device command under way
  issued,    \* tokens generated so far
  dismissed, \* history: tokens a command has written to the revocation list
  overlapped \* history: two commands ran at once

fileVars   == <<paired, keyring, revoked>>
daemonVars == <<up, known, barred, sessions>>
accessVars == <<fileVars, daemonVars, command, issued, dismissed, overlapped>>

CommandSteps == {"none", "storing", "pairing", "listing", "unpairing", "dropping"}

Commands ==
  [step : CommandSteps, device : Devices, token : MaybeToken,
   devices : SUBSET Devices, list : SUBSET Token]

NoCommand ==
  [step |-> "none", device |-> CHOOSE d \in Devices : TRUE, token |-> NoToken,
   devices |-> {}, list |-> {}]

AccessInit ==
  /\ \E d \in Devices :
       /\ paired = {d}
       /\ keyring = [x \in Devices |-> IF x = d THEN 1 ELSE NoToken]
  /\ revoked = {} /\ barred = {} /\ dismissed = {}
  /\ up = FALSE
  /\ known = [d \in Devices |-> NoToken]
  /\ sessions = [d \in Devices |-> NoToken]
  /\ command = [o \in Operators |-> NoCommand]
  /\ issued = 1
  /\ overlapped = FALSE

-----------------------------------------------------------------------------
(* Commands.                                                               *)

Running(o) == command[o].step # "none"

\* The only steps that begin a command, and note whether another is running.
Begin(o, c) ==
  /\ ~Running(o)
  /\ command' = [command EXCEPT ![o] = c]
  /\ overlapped' = (overlapped \/ \E other \in Operators \ {o} : Running(other))
  /\ UNCHANGED <<fileVars, daemonVars, dismissed>>

Goes(o, step) == command' = [command EXCEPT ![o].step = step]
Ends(o)       == command' = [command EXCEPT ![o] = NoCommand]

\* addDevice, to its first write.
BeginAdd(o) ==
  \E d \in Devices \ paired :
    /\ issued < MaxTokens
    /\ issued' = issued + 1
    /\ Begin(o, [step |-> "storing", device |-> d, token |-> issued + 1,
                 devices |-> paired, list |-> {}])

\* A failed write of the secret may yet have been made.
StoreToken(o) ==
  LET c      == command[o]
      stored == [keyring EXCEPT ![c.device] = c.token]
  IN  /\ c.step = "storing"
      /\ \/ keyring' = stored /\ Goes(o, "pairing")
         \/ keyring' \in {keyring, stored} /\ Ends(o)
      /\ UNCHANGED <<paired, revoked, daemonVars, issued, dismissed, overlapped>>

\* When the configuration does not validate, the token is deleted; when it cannot be
\* saved, the token stays.
Pair(o) ==
  LET c == command[o]
  IN  /\ c.step = "pairing"
      /\ \/ paired' = c.devices \cup {c.device} /\ UNCHANGED keyring
         \/ keyring' = [keyring EXCEPT ![c.device] = NoToken] /\ UNCHANGED paired
         \/ UNCHANGED <<paired, keyring>>
      /\ Ends(o)
      /\ UNCHANGED <<revoked, daemonVars, issued, dismissed, overlapped>>

\* revokeDevice, to its first write.
BeginRevoke(o) ==
  \E d \in paired :
    /\ keyring[d] # NoToken
    /\ Begin(o, [step |-> "listing", device |-> d, token |-> keyring[d],
                 devices |-> paired, list |-> revoked])
    /\ UNCHANGED issued

List(o) ==
  LET c == command[o]
  IN  /\ c.step = "listing"
      /\ \/ /\ revoked' = c.list \cup {c.token}
            /\ dismissed' = dismissed \cup {c.token}
            /\ Goes(o, "unpairing")
         \/ Ends(o) /\ UNCHANGED <<revoked, dismissed>>
      /\ UNCHANGED <<paired, keyring, daemonVars, issued, overlapped>>

\* The mistake: a failed save takes the token away all the same.
Unpair_dropsToken(o) ==
  LET c == command[o]
  IN  /\ c.step = "unpairing"
      /\ \/ paired' = c.devices \ {c.device} /\ Goes(o, "dropping") /\ UNCHANGED keyring
         \/ Ends(o) /\ keyring' = [keyring EXCEPT ![c.device] = NoToken] /\ UNCHANGED paired
      /\ UNCHANGED <<revoked, daemonVars, issued, dismissed, overlapped>>

Unpair(o) ==
  LET c == command[o]
  IN  /\ c.step = "unpairing"
      /\ \/ paired' = c.devices \ {c.device} /\ Goes(o, "dropping")
         \/ Ends(o) /\ UNCHANGED paired
      /\ UNCHANGED <<keyring, revoked, daemonVars, issued, dismissed, overlapped>>

\* A failure to delete the token is a warning.
DropToken(o) ==
  /\ command[o].step = "dropping"
  /\ keyring' \in {keyring, [keyring EXCEPT ![command[o].device] = NoToken]}
  /\ Ends(o)
  /\ UNCHANGED <<paired, revoked, daemonVars, issued, dismissed, overlapped>>

\* The process dies.
Die(o) ==
  /\ Running(o)
  /\ Ends(o)
  /\ UNCHANGED <<fileVars, daemonVars, issued, dismissed, overlapped>>

DeviceCommand(o) ==
  \/ BeginAdd(o) \/ StoreToken(o) \/ Pair(o)
  \/ BeginRevoke(o) \/ List(o) \/ Unpair(o) \/ DropToken(o)
  \/ Die(o)

-----------------------------------------------------------------------------
(* The daemon.                                                             *)

\* runServe, resolveDevices: one token that does not resolve, and it does not start.
StartDaemon ==
  /\ ~up
  /\ \A d \in paired : keyring[d] # NoToken
  /\ up' = TRUE
  /\ known' = [d \in Devices |-> IF d \in paired THEN keyring[d] ELSE NoToken]
  /\ barred' = revoked
  /\ UNCHANGED <<fileVars, sessions, command, issued, dismissed, overlapped>>

StopDaemon ==
  /\ up
  /\ up' = FALSE
  /\ sessions' = [d \in Devices |-> NoToken]
  /\ UNCHANGED <<fileVars, known, barred, command, issued, dismissed, overlapped>>

\* tokenRevoked: the list of the start, and the one on disk now.
TokenRevoked_atStart(token) == token \in barred

TokenRevoked(token) == token \in barred \cup revoked

\* authorize, and the upgrade to a stream.  A snapshot request is the same check.
Connect(d, token) ==
  /\ up /\ sessions[d] = NoToken
  /\ token # NoToken /\ token = known[d] /\ ~TokenRevoked(token)
  /\ sessions' = [sessions EXCEPT ![d] = token]
  /\ UNCHANGED <<fileVars, up, known, barred, command, issued, dismissed, overlapped>>

\* Every pass of a stream's pump begins with the check.
CutOff(d) ==
  /\ sessions[d] # NoToken /\ TokenRevoked(sessions[d])
  /\ sessions' = [sessions EXCEPT ![d] = NoToken]
  /\ UNCHANGED <<fileVars, up, known, barred, command, issued, dismissed, overlapped>>

-----------------------------------------------------------------------------
(* Correctness.                                                            *)

AccessTypeOK ==
  /\ paired \subseteq Devices
  /\ keyring \in [Devices -> MaybeToken]
  /\ revoked \subseteq Token /\ barred \subseteq Token /\ dismissed \subseteq Token
  /\ up \in BOOLEAN
  /\ known \in [Devices -> MaybeToken]
  /\ sessions \in [Devices -> MaybeToken]
  /\ command \in [Operators -> Commands]
  /\ issued \in 0 .. MaxTokens
  /\ overlapped \in BOOLEAN

\* The token of every device in the configuration is in the secret store, whatever
\* command failed or died halfway: else the daemon does not start, and the device
\* cannot be revoked, for both need it (serve.go resolveDevices, device.go addDevice,
\* revokeDevice).  Two commands at once may break it.
PairedResolve == overlapped \/ \A d \in paired : keyring[d] # NoToken

\* Once a command has written a token to the revocation list, its streams end and it
\* is not let in again, by this daemon or a later one (server.go authorize, stream.go
\* pump).  Two commands at once may lose the entry.
RevokedStaysOut ==
  <>[](overlapped \/ \A d \in Devices : sessions[d] \notin dismissed)
=============================================================================
