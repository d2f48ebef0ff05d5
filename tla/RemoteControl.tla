---------------------------- MODULE RemoteControl ----------------------------
(***************************************************************************)
(* Remote control end to end: the daemon's command queue, one display, and *)
(* the WebSocket stream between them (src/internal/nodeapi/stream.go,      *)
(* src/internal/syncclient/client.go).                                     *)
(*                                                                         *)
(* A session is one connection.  The daemon's pump keeps, per connection,  *)
(* the commands it has sent; its drain goroutine records the results.      *)
(* When a connection breaks, what was on the way to the display is lost,   *)
(* and a prefix of what was on the way to the daemon may still be read by  *)
(* the old drain goroutine while the next connection is already in use.    *)
(*                                                                         *)
(* The daemon's snapshots reach the display in one step here; SnapshotSync *)
(* models their transport.  Definitions X_flaw: see CommandBus.            *)
(***************************************************************************)
EXTENDS CommandBus, DisplayController

CONSTANT MaxWire    \* bound of the model: results in flight on a connection

\* The daemon has started at least once.
ASSUME RemoteAssumption ==
  /\ MaxWire \in Nat \ {0}
  /\ MaxEpoch # 0

VARIABLES
  downlink,  \* commands on the way to the display
  uplink,    \* results on the way to the daemon, this connection
  late,      \* results of an earlier connection its drain goroutine still holds
  sent,      \* pump: sentCommands of this connection
  current    \* the daemon's current snapshot

linkVars == <<downlink, uplink, late, sent>>
vars     == <<busVars, displayVars, linkVars, current>>

-----------------------------------------------------------------------------
(* The daemon. *)

\* handlePublishCommand: the control API takes commands for known devices.
PublishCommand(device, kind) ==
  /\ Publish(device, kind)
  /\ UNCHANGED <<displayVars, linkVars, current>>

\* handleCommandStatus.
ReadStatus(c) ==
  /\ Get(c)
  /\ UNCHANGED <<displayVars, linkVars, current>>

\* The next snapshot version: any collection, a refresh command's among them.
Collect ==
  /\ current.version < MaxVersion
  /\ current' = [current EXCEPT !.version = @ + 1]
  /\ UNCHANGED <<busVars, displayVars, linkVars>>

\* One turn of the pump's loop: Pending, then every command it returned, in
\* queue order.  When the queue file cannot be written nothing is sent.
Wire(b, c) == [id |-> c, device |-> b.entries[c].device, kind |-> b.entries[c].kind,
               seq |-> b.entries[c].seq]

\* The command at a place of a batch: those not after it are so many.
Nth(ids, i) == CHOOSE c \in ids : Cardinality({d \in ids : d <= c}) = i

Batch_newestFirst(b, ids) ==
  [i \in 1 .. Cardinality(ids) |-> Wire(b, Nth(ids, Cardinality(ids) + 1 - i))]

Batch(b, ids) == [i \in 1 .. Cardinality(ids) |-> Wire(b, Nth(ids, i))]

PumpCommands ==
  /\ session
  /\ PollPending
  /\ LET batch == IF bus' = Expired(bus) THEN Deliverable(bus', Self, sent) ELSE {} IN
       /\ downlink' = downlink \o Batch(bus', batch)
       /\ sent' = sent \cup batch
  /\ UNCHANGED <<displayVars, uplink, late, current>>

\* drain: the next result of a connection is recorded.  A final result that took
\* the display longer than MaxCommandDuration does not decode and is skipped.
RecordResult(r) ==
  \/ Record(Self, r.id, r.seq, r.status, r.code)
  \/ r.id \in overdue /\ Final(r.status) /\ UNCHANGED busVars

DrainResult ==
  /\ uplink # << >>
  /\ RecordResult(Head(uplink))
  /\ uplink' = Tail(uplink)
  /\ UNCHANGED <<displayVars, downlink, late, sent, current>>

DrainLate ==
  /\ late # << >>
  /\ RecordResult(Head(late))
  /\ late' = Tail(late)
  /\ UNCHANGED <<displayVars, downlink, uplink, sent, current>>

\* The daemon dies and starts again: a new epoch, an empty state, and the
\* queue as its file has it.
RestartDaemon ==
  /\ current.epoch < MaxEpoch
  /\ Reopen
  /\ current' = [epoch |-> current.epoch + 1, version |-> 0]
  /\ SetSession(FALSE)
  /\ downlink' = << >>
  /\ uplink' = << >>
  /\ late' = << >>
  /\ sent' = {}

-----------------------------------------------------------------------------
(* The connection. *)

Connect ==
  /\ ~ session
  /\ SetSession(TRUE)
  /\ UNCHANGED <<busVars, linkVars, current>>

\* What a broken connection leaves of the results in flight.
BreakLink_keepsSent ==
  /\ downlink' = << >>
  /\ uplink' = << >>
  /\ late' = late
  /\ sent' = sent

BreakLink ==
  /\ downlink' = << >>
  /\ uplink' = << >>
  /\ sent' = {}
  /\ \E n \in 0 .. Len(uplink) :
       late' = IF Len(late) + n <= MaxWire THEN late \o SubSeq(uplink, 1, n) ELSE late

Disconnect ==
  /\ session
  /\ SetSession(FALSE)
  /\ BreakLink
  /\ UNCHANGED <<busVars, current>>

-----------------------------------------------------------------------------
(* The display. *)

ReceiveCommand ==
  /\ downlink # << >>
  /\ Handle(Head(downlink), Head(downlink).id \in lapsed)
  /\ downlink' = Tail(downlink)
  /\ UNCHANGED <<busVars, uplink, late, sent, current>>

ReceiveSnapshot ==
  /\ current.version > 0
  /\ ApplySnapshot(current)
  /\ UNCHANGED <<busVars, linkVars, current>>

TransmitResult ==
  /\ Len(uplink) < MaxWire
  /\ SendResult
  /\ uplink' = Append(uplink, Head(outbox))
  /\ UNCHANGED <<busVars, downlink, late, sent, current>>

RunCommand ==
  /\ Apply \/ Complete \/ CompleteRefresh
  /\ UNCHANGED <<busVars, linkVars, current>>

DropResult ==
  /\ LoseResult
  /\ UNCHANGED <<busVars, linkVars, current>>

RestartDisplay ==
  /\ Restart
  /\ BreakLink
  /\ UNCHANGED <<busVars, current>>

-----------------------------------------------------------------------------
(* The clock. *)

PassTTL(c) ==
  /\ Lapse(c)
  /\ UNCHANGED <<displayVars, linkVars, current>>

PassExecutionWindow(c) ==
  /\ RunOut(c)
  /\ UNCHANGED <<displayVars, linkVars, current>>

-----------------------------------------------------------------------------

Init ==
  /\ BusInit
  /\ DisplayInit
  /\ downlink = << >>
  /\ uplink = << >>
  /\ late = << >>
  /\ sent = {}
  /\ current = [epoch |-> 1, version |-> 0]

Next ==
  \/ \E d \in Devices, k \in Kinds : PublishCommand(d, k)
  \/ \E c \in Ids : ReadStatus(c)
  \/ Collect
  \/ PumpCommands
  \/ DrainResult
  \/ DrainLate
  \/ RestartDaemon
  \/ Connect
  \/ Disconnect
  \/ ReceiveCommand
  \/ ReceiveSnapshot
  \/ TransmitResult
  \/ RunCommand
  \/ DropResult
  \/ RestartDisplay
  \/ \E c \in Ids : PassTTL(c) \/ PassExecutionWindow(c)

Spec == Init /\ [][Next]_vars

\* What the goroutines do sooner or later: the client reconnects for ever; the
\* pump's loop, the writers and the readers go on while their connection lasts.
Fairness ==
  /\ WF_vars(Connect)
  /\ WF_vars(PumpCommands)
  /\ WF_vars(ReceiveCommand)
  /\ WF_vars(RunCommand)
  /\ WF_vars(TransmitResult)
  /\ WF_vars(DrainResult)
  /\ WF_vars(DrainLate)

LiveSpec == Spec /\ Fairness

-----------------------------------------------------------------------------
(* Properties. *)

\* What the queue file says of each command, and what the display did, is a
\* command lifecycle: one answer each, final once final, "executed" only when it
\* is true, effects at most once and in order, whatever is lost, retried or
\* restarted (bus.go, store.go, stream.go drain, controller.go Handle).
AnswersKept ==
  [c \in Ids |->
     IF busFile.entries[c] # NoEntry
       THEN [kind |-> busFile.entries[c].kind, status |-> busFile.entries[c].status]
     ELSE IF c <= issued THEN [status |-> "forgotten"] ELSE [status |-> "none"]]

Lifecycle == INSTANCE CommandLifecycle WITH
  answers <- AnswersKept,
  effects <- [i \in DOMAIN applied |-> applied[i].id]

IsALifecycle == Lifecycle!LifecycleSpec

\* A refresh is executed only by a snapshot newer than the one that was shown
\* when it was accepted (store.go accept, controller.go SnapshotApplied).
NewerThan(s, t) == s.epoch > t.epoch \/ (s.epoch = t.epoch /\ s.version > t.version)

RefreshSeesNewer ==
  [][\A i \in DOMAIN ledger.records, j \in DOMAIN ledger'.records :
       (/\ ledger.records[i].id = ledger'.records[j].id
        /\ ledger.records[i].pendingRefresh
        /\ ledger'.records[j].status = "executed")
         => NewerThan(shown', ledger.records[i].baseline)]_vars

\* The display never has to refuse a command because a later one overtook it,
\* whatever is retried after a reconnect or a restart (bus.go Pending,
\* store.go accept).
NeverOutOfOrder ==
  \A i \in DOMAIN ledger.records : ledger.records[i].code # "out_of_order"

Unanswered(c) == c \in Pending(bus)

\* Whatever was lost before, a connection that lasts brings every unfinished
\* command its final result by sending it again, without waiting for a timeout
\* (stream.go pump sentCommands, controller.go Handle of a known id).
AnsweredOnceConnected == <>[]session => \A c \in Ids : Unanswered(c) ~> ~ Unanswered(c)

\* With no connection at all, a published or accepted command still ends once
\* the clock runs on and somebody asks for its status (bus.go expireLocked, Get).
ClockAndCaller ==
  \A c \in Ids : /\ WF_vars(PassTTL(c))
                /\ WF_vars(PassExecutionWindow(c))
                /\ WF_vars(ReadStatus(c))

EventuallyAnswered == ClockAndCaller => \A c \in Ids : Unanswered(c) ~> ~ Unanswered(c)

=============================================================================
