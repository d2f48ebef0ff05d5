---------------------------- MODULE SnapshotSync ----------------------------
(***************************************************************************)
(* How the daemon's current state reaches one display's screen and disk    *)
(* (src/internal/state/current.go, src/internal/nodeapi/stream.go,         *)
(* src/internal/syncclient/client.go, src/internal/snapstore/store.go).    *)
(*                                                                         *)
(* The collectors change the daemon's state at any time.  The pump of a    *)
(* connection reads it under the state's lock, and asks whether there is   *)
(* any data under a second lock, so the state may change in between.  The  *)
(* display shows a snapshot first and saves it afterwards, and may die     *)
(* between the two.                                                        *)
(*                                                                         *)
(* A snapshot is the generation of the daemon that made it (source_epoch,  *)
(* numbered in start order, 0 for none), its version, and whether it holds *)
(* any metric, node or service.  Schema and source-binding checks pass:    *)
(* there is one daemon.                                                    *)
(*                                                                         *)
(* A definition X_flaw is X with a plausible mistake in it.  No action     *)
(* uses it: it serves to see that the properties notice the mistake.       *)
(***************************************************************************)
EXTENDS Naturals, Sequences

CONSTANTS
  MaxEpoch,     \* bound of the model: daemon starts
  MaxVersion,   \* bound of the model: state changes per daemon start
  MaxWire,      \* messages a connection holds before a write blocks
  DiskFails     \* whether writes of the last-known-good file may fail or rot

ASSUME SyncAssumption ==
  /\ MaxEpoch \in Nat \ {0}
  /\ MaxVersion \in Nat
  /\ MaxWire \in Nat \ {0}
  /\ DiskFails \in BOOLEAN

Snapshot   == [epoch : 0 .. MaxEpoch, version : 0 .. MaxVersion, filled : BOOLEAN]
NoSnapshot == [epoch |-> 0, version |-> 0, filled |-> FALSE]

VARIABLES
  state,     \* the daemon's current state, as Snapshot would render it
  session,   \* whether display and daemon share a connection
  peeked,    \* pump: the snapshot read and not yet sent, or NoSnapshot
  lastSent,  \* pump: version it takes the display to hold
  sentAny,   \* pump: whether this connection has carried a snapshot
  wire,      \* snapshots on the way to the display
  shown,     \* Client.snapshot: what is on the screen
  unsaved,   \* whether Store.Save of the shown snapshot is still to come
  lastGood   \* the last-known-good file

pumpVars    == <<session, peeked, lastSent, sentAny, wire>>
displayVars == <<shown, unsaved, lastGood>>
syncVars    == <<state, pumpVars, displayVars>>

-----------------------------------------------------------------------------
(* The daemon's state: every change takes the next version. *)

Change(filled) ==
  /\ state.version < MaxVersion
  /\ state' = [state EXCEPT !.version = @ + 1, !.filled = filled]
  /\ UNCHANGED <<pumpVars, displayVars>>

\* A connector delivers a batch: ApplyConnectorMetrics, ApplyConnectorHomeLab.
Collect == Change(TRUE)

\* A connector's batch removes the last entity it owned.
Withdraw == state.filled /\ Change(FALSE)

\* ApplyHealth and ApplyConnectorError touch no entity.
ReportHealth == Change(state.filled)

\* Death and restart of the daemon: a new epoch, version zero, no data.
RestartDaemon ==
  /\ state.epoch < MaxEpoch
  /\ state' = [epoch |-> state.epoch + 1, version |-> 0, filled |-> FALSE]
  /\ session' = FALSE
  /\ peeked' = NoSnapshot
  /\ wire' = << >>
  /\ UNCHANGED <<lastSent, sentAny, displayVars>>

-----------------------------------------------------------------------------
(* The connection. *)

\* sendHello and the start of pump: what the display holds counts as sent when
\* it is of this daemon's epoch.
Connect ==
  /\ ~ session
  /\ ~ unsaved
  /\ session' = TRUE
  /\ lastSent' = IF shown.epoch = state.epoch THEN shown.version ELSE 0
  /\ sentAny' = FALSE
  /\ UNCHANGED <<state, peeked, wire, displayVars>>

Disconnect ==
  /\ session
  /\ session' = FALSE
  /\ peeked' = NoSnapshot
  /\ wire' = << >>
  /\ UNCHANGED <<state, lastSent, sentAny, displayVars>>

\* pump: store.Snapshot.
Peek ==
  /\ session
  /\ peeked = NoSnapshot
  /\ peeked' = state
  /\ UNCHANGED <<state, session, lastSent, sentAny, wire, displayVars>>

\* pump: store.HasData and the send, or nothing (a heartbeat when one is due).
Worthwhile_always == state.filled

Worthwhile == state.filled /\ (~ sentAny \/ peeked.version > lastSent)

SendPeeked_marksCurrent ==
  /\ peeked # NoSnapshot
  /\ \/ /\ Worthwhile
        /\ Len(wire) < MaxWire
        /\ wire' = Append(wire, peeked)
        /\ lastSent' = state.version
        /\ sentAny' = TRUE
     \/ ~ Worthwhile /\ UNCHANGED <<wire, lastSent, sentAny>>
  /\ peeked' = NoSnapshot
  /\ UNCHANGED <<state, session, displayVars>>

SendPeeked ==
  /\ peeked # NoSnapshot
  /\ \/ /\ Worthwhile
        /\ Len(wire) < MaxWire
        /\ wire' = Append(wire, peeked)
        /\ lastSent' = peeked.version
        /\ sentAny' = TRUE
     \/ ~ Worthwhile /\ UNCHANGED <<wire, lastSent, sentAny>>
  /\ peeked' = NoSnapshot
  /\ UNCHANGED <<state, session, displayVars>>

-----------------------------------------------------------------------------
(* The display. *)

\* protocol.Supersedes.
Supersedes(prev, next) ==
  prev = NoSnapshot \/ next.epoch # prev.epoch \/ next.version > prev.version

\* applySnapshot up to the save; a superseded snapshot is dropped.
Show ==
  /\ session
  /\ ~ unsaved
  /\ wire # << >>
  /\ wire' = Tail(wire)
  /\ IF Supersedes(shown, Head(wire))
       THEN shown' = Head(wire) /\ unsaved' = TRUE
       ELSE UNCHANGED <<shown, unsaved>>
  /\ UNCHANGED <<state, session, peeked, lastSent, sentAny, lastGood>>

\* Store.Save: the temporary file is renamed over the old one, or nothing
\* happens.  A failure is logged and the snapshot stays on the screen.
Save ==
  /\ unsaved
  /\ unsaved' = FALSE
  /\ \/ lastGood' = shown
     \/ DiskFails /\ UNCHANGED lastGood
  /\ UNCHANGED <<state, pumpVars, shown>>

\* The display dies and starts again: Store.Load, or quarantine of a file that
\* does not decode.
RestartDisplay ==
  /\ lastGood' \in IF DiskFails THEN {lastGood, NoSnapshot} ELSE {lastGood}
  /\ shown' = lastGood'
  /\ unsaved' = FALSE
  /\ session' = FALSE
  /\ peeked' = NoSnapshot
  /\ wire' = << >>
  /\ UNCHANGED <<state, lastSent, sentAny>>

-----------------------------------------------------------------------------

SyncInit ==
  /\ state = [epoch |-> 1, version |-> 0, filled |-> FALSE]
  /\ session = FALSE
  /\ peeked = NoSnapshot
  /\ lastSent = 0
  /\ sentAny = FALSE
  /\ wire = << >>
  /\ shown = NoSnapshot
  /\ unsaved = FALSE
  /\ lastGood = NoSnapshot

SyncNext ==
  \/ Collect
  \/ Withdraw
  \/ ReportHealth
  \/ RestartDaemon
  \/ Connect
  \/ Disconnect
  \/ Peek
  \/ SendPeeked
  \/ Show
  \/ Save
  \/ RestartDisplay

SyncSpec == SyncInit /\ [][SyncNext]_syncVars

\* The client reconnects for ever; the pump's ticker and the display's read loop
\* keep running.
SyncFairness ==
  /\ WF_syncVars(Connect)
  /\ WF_syncVars(Peek)
  /\ WF_syncVars(SendPeeked)
  /\ WF_syncVars(Show)
  /\ WF_syncVars(Save)

LiveSyncSpec == SyncSpec /\ SyncFairness

-----------------------------------------------------------------------------
(* Properties. *)

\* Type correctness of the daemon's state, the pump, the wire and the display.
SyncTypeOK ==
  /\ state \in Snapshot
  /\ session \in BOOLEAN
  /\ peeked \in Snapshot
  /\ lastSent \in 0 .. MaxVersion
  /\ sentAny \in BOOLEAN
  /\ wire \in Seq(Snapshot)
  /\ shown \in Snapshot
  /\ unsaved \in BOOLEAN
  /\ lastGood \in Snapshot

Before(s, t) == s.epoch < t.epoch \/ (s.epoch = t.epoch /\ s.version < t.version)

\* Data only moves forward on its way: the file is never ahead of the screen,
\* the screen never ahead of the wire, the wire never ahead of the daemon, and
\* after the first snapshot of a connection none is older than or equal to one
\* before it (stream.go pump, validate.go Supersedes, client.go applySnapshot).
Path == <<lastGood, shown>> \o wire \o
        (IF peeked = NoSnapshot THEN << >> ELSE <<peeked>>) \o <<state>>

FlowsForward ==
  /\ \A i, j \in DOMAIN Path : i < j => ~ Before(Path[j], Path[i])
  /\ \A i, j \in DOMAIN wire : i < j => Before(wire[i], wire[j])

\* Once a connection lasts and the daemon has data, the screen catches up with
\* the daemon's state whenever it comes to rest, although every version was read
\* while collectors were writing (stream.go pump).
CatchesUp == <>[](session /\ state.filled) => <>[](shown = state)

=============================================================================
