------------------------- MODULE DisplayController -------------------------
(***************************************************************************)
(* The display's side of remote control: the command controller, its       *)
(* persistent result ledger, and the results channel of the stream client  *)
(* (src/internal/remotecontrol/{controller,store}.go,                      *)
(* src/internal/syncclient/client.go).                                     *)
(*                                                                         *)
(* The client's read loop is one goroutine: it handles one command or one  *)
(* snapshot at a time, and only then reconnects.  Handling a UI command is *)
(* three steps here, because the process may die between the ledger write  *)
(* that accepts it, the effect, and the ledger write that completes it; a  *)
(* snapshot is one step and one more for every refresh it completes.  A    *)
(* crash inside a step leaves the files a failed write would have left.    *)
(*                                                                         *)
(* Ledger writes are not rolled back in memory when they fail.             *)
(*                                                                         *)
(* A snapshot is the generation of the daemon that made it (source_epoch,  *)
(* numbered in start order, 0 for none) and its version.                   *)
(*                                                                         *)
(* A definition X_flaw is X with a plausible mistake in it.  No action     *)
(* uses it: it serves to see that the properties notice the mistake.       *)
(***************************************************************************)
EXTENDS CommandProtocol, Sequences

CONSTANTS
  Self,         \* this display's device id
  MaxRecords,   \* 256 in the code: results the ledger keeps
  MaxOutbox,    \* 128 in the code: capacity of the results channel
  MaxEpoch,     \* bound of the model: daemon starts
  MaxVersion    \* bound of the model: snapshots per daemon start

ASSUME DisplayAssumption ==
  /\ Self \in Devices
  /\ MaxRecords \in Nat \ {0}
  /\ MaxOutbox \in Nat
  /\ MaxEpoch \in Nat
  /\ MaxVersion \in Nat

Snapshot   == [epoch : 0 .. MaxEpoch, version : 0 .. MaxVersion]
NoSnapshot == [epoch |-> 0, version |-> 0]

LedgerRecord == [id : Ids, seq : Seqs, kind : Kinds, status : Statuses, code : Codes,
                 pendingRefresh : BOOLEAN, baseline : Snapshot]

Ledger == [high : 0 .. MaxIssued, records : Seq(LedgerRecord)]

EmptyLedger == [high |-> 0, records |-> << >>]

\* What the read loop is in the middle of: a UI command, or the refreshes a
\* snapshot completes, whose results are reported unless the process is starting.
Idle == [phase |-> "idle"]
Busy == [phase : {"apply", "complete"}, cmd : Command, status : FinalStatuses, code : Codes]
          \cup [phase : {"refresh"}, report : BOOLEAN]

VARIABLES
  ledger,      \* resultStore.data, in memory
  ledgerFile,  \* command-results.json
  busy,        \* the handler the read loop is in the middle of, or Idle
  outbox,      \* Client.results: results waiting to be written
  session,     \* whether the stream session is alive
  shown,       \* Client.snapshot, also the controller's lastEpoch/lastVersion
  lastGood,    \* the last-known-good snapshot file
  applied      \* history: the UI commands that changed the screen, in order

displayVars == <<ledger, ledgerFile, busy, outbox, session, shown, lastGood, applied>>

-----------------------------------------------------------------------------
(* The result ledger. *)

WriteOutcomes(fault) == IF fault \in Faults THEN BOOLEAN ELSE {TRUE}

SetLedger(l, written) ==
  /\ ledger' = l
  /\ ledgerFile' = IF written THEN l ELSE ledgerFile

Known(id) == \E i \in DOMAIN ledger.records : ledger.records[i].id = id

\* lookup: the record of a known id.
RecordOf(id) ==
  ledger.records[CHOOSE i \in DOMAIN ledger.records : ledger.records[i].id = id]

\* appendLocked: only the newest MaxRecords stay.
Newest_oneTooMany(records) ==
  IF Len(records) > MaxRecords + 1 THEN SubSeq(records, 2, Len(records)) ELSE records

Newest(records) ==
  IF Len(records) > MaxRecords
    THEN SubSeq(records, Len(records) - MaxRecords + 1, Len(records))
    ELSE records

AppendRecord(l, r) == [l EXCEPT !.records = Newest(Append(@, r))]

NewRecord(cmd, status, code) ==
  [id |-> cmd.id, seq |-> cmd.seq, kind |-> cmd.kind, status |-> status, code |-> code,
   pendingRefresh |-> FALSE, baseline |-> NoSnapshot]

\* accept: the record of a command above the high-water mark; a refresh waits
\* for a snapshot newer than the one shown now.
AcceptedRecord(cmd) ==
  [NewRecord(cmd, "accepted", "") EXCEPT
     !.pendingRefresh = (cmd.kind = "refresh"),
     !.baseline = IF cmd.kind = "refresh" THEN shown ELSE NoSnapshot]

WithAccepted_markAhead(cmd) ==
  [AppendRecord(ledger, AcceptedRecord(cmd)) EXCEPT !.high = cmd.seq + 1]

WithAccepted(cmd) == [AppendRecord(ledger, AcceptedRecord(cmd)) EXCEPT !.high = cmd.seq]

\* complete: give the record of an id its final result, unless it has one.
CompletedRecord(r, status, code) ==
  [r EXCEPT !.status = status, !.code = code, !.pendingRefresh = FALSE]

WithCompleted(l, id, status, code) ==
  [l EXCEPT !.records = [i \in DOMAIN l.records |->
     IF l.records[i].id = id /\ ~ Final(l.records[i].status)
       THEN CompletedRecord(l.records[i], status, code)
       ELSE l.records[i]]]

\* pendingRefreshes and the test of SnapshotApplied: the refreshes that
\* snapshot s answers, by position.
Advanced_orSame(s, baseline) == s.epoch # baseline.epoch \/ s.version >= baseline.version

Advanced(s, baseline) == s.epoch # baseline.epoch \/ s.version > baseline.version

Answers(s, r) == r.pendingRefresh /\ r.status = "accepted" /\ Advanced(s, r.baseline)

Answered(l, s) == {i \in DOMAIN l.records : Answers(s, l.records[i])}

\* openResultStore: what was accepted by the previous process and is not a
\* pending refresh has been interrupted.
WithInterrupted(l) ==
  [l EXCEPT !.records = [i \in DOMAIN l.records |->
     IF l.records[i].status = "accepted" /\ ~ l.records[i].pendingRefresh
       THEN [l.records[i] EXCEPT !.status = "failed", !.code = "interrupted"]
       ELSE l.records[i]]]

-----------------------------------------------------------------------------
(* Replies. *)

ResultOf(r) == [id |-> r.id, seq |-> r.seq, status |-> r.status, code |-> r.code]

ReplyTo(cmd, status, code) ==
  [id |-> cmd.id, seq |-> cmd.seq, status |-> status, code |-> code]

\* queueResults: a live session waits for room in the channel; a dead one may
\* drop the results from some point on.
Reply(results) ==
  \E n \in (IF session THEN {Len(results)} ELSE 0 .. Len(results)) :
    /\ Len(outbox) + n <= MaxOutbox
    /\ outbox' = outbox \o SubSeq(results, 1, n)

-----------------------------------------------------------------------------
(* Handling a command. *)

Valid == <<"accepted", "">>

\* What Command.Validate and the target check decide, in that order.  The
\* display's own clock counts: skewed, it may expire a live command, let a
\* lapsed one pass, or find a command issued in the future.
Verdicts(cmd, isLapsed) ==
  LET clock == IF "clock_skew" \in Faults
                 THEN {Valid, <<"expired", "expired">>, <<"rejected", "issued_in_future">>}
                 ELSE IF isLapsed THEN {<<"expired", "expired">>} ELSE {Valid}
  IN  IF cmd.device = Self THEN clock
      ELSE {IF v = Valid THEN <<"rejected", "wrong_target">> ELSE v : v \in clock}

\* A duplicate returns the stored result.
Replay(cmd) ==
  /\ Known(cmd.id)
  /\ Reply(<<ResultOf(RecordOf(cmd.id))>>)
  /\ UNCHANGED <<ledger, ledgerFile, busy>>

\* reject: recorded and answered, whether or not the write succeeds.
Refuse(cmd, verdict) ==
  /\ ~ Known(cmd.id)
  /\ verdict # Valid
  /\ \E written \in WriteOutcomes("ledger_write") :
       SetLedger(AppendRecord(ledger, NewRecord(cmd, verdict[1], verdict[2])), written)
  /\ Reply(<<ReplyTo(cmd, verdict[1], verdict[2])>>)
  /\ UNCHANGED busy

\* accept, sequence not above the high-water mark.
RefuseOutOfOrder(cmd, verdict) ==
  /\ ~ Known(cmd.id)
  /\ verdict = Valid
  /\ cmd.seq <= ledger.high
  /\ \E written \in WriteOutcomes("ledger_write") :
       /\ SetLedger(AppendRecord(ledger, NewRecord(cmd, "rejected", "out_of_order")), written)
       /\ Reply(<<IF written THEN ReplyTo(cmd, "rejected", "out_of_order")
                             ELSE ReplyTo(cmd, "failed", "state_unavailable")>>)
  /\ UNCHANGED busy

\* accept, above it.  Only a command whose acceptance reached the file goes on.
Accept_unsaved(cmd, verdict) ==
  /\ ~ Known(cmd.id)
  /\ verdict = Valid
  /\ cmd.seq > ledger.high
  /\ \E written \in WriteOutcomes("ledger_write") : SetLedger(WithAccepted(cmd), written)
  /\ busy' = [phase |-> "apply", cmd |-> cmd, status |-> "executed", code |-> ""]
  /\ UNCHANGED outbox

Accept(cmd, verdict) ==
  /\ ~ Known(cmd.id)
  /\ verdict = Valid
  /\ cmd.seq > ledger.high
  /\ \E written \in WriteOutcomes("ledger_write") :
       /\ SetLedger(WithAccepted(cmd), written)
       /\ IF ~ written THEN /\ Reply(<<ReplyTo(cmd, "failed", "state_unavailable")>>)
                            /\ UNCHANGED busy
          ELSE IF cmd.kind = "refresh" THEN /\ Reply(<<ReplyTo(cmd, "accepted", "")>>)
                                            /\ UNCHANGED busy
          ELSE /\ busy' = [phase |-> "apply", cmd |-> cmd,
                           status |-> "executed", code |-> ""]
               /\ UNCHANGED outbox

Handle(cmd, isLapsed) ==
  /\ busy = Idle
  /\ session
  /\ \E verdict \in Verdicts(cmd, isLapsed) :
       Replay(cmd) \/ Refuse(cmd, verdict) \/ RefuseOutOfOrder(cmd, verdict)
         \/ Accept(cmd, verdict)
  /\ UNCHANGED <<session, shown, lastGood, applied>>

\* The effect: the router or the notice changes.  homepi-display configures no
\* brightness control, so that kind fails without effect.
Apply ==
  /\ busy # Idle
  /\ busy.phase = "apply"
  /\ IF busy.cmd.kind = "brightness"
       THEN /\ busy' = [busy EXCEPT !.phase = "complete", !.status = "failed",
                                    !.code = "unsupported_capability"]
            /\ UNCHANGED applied
       ELSE /\ busy' = [busy EXCEPT !.phase = "complete"]
            /\ applied' = Append(applied, busy.cmd)
  /\ UNCHANGED <<ledger, ledgerFile, outbox, session, shown, lastGood>>

\* complete and the two results of a UI command.
Complete ==
  /\ busy # Idle
  /\ busy.phase = "complete"
  /\ \E written \in WriteOutcomes("ledger_write") :
       /\ SetLedger(WithCompleted(ledger, busy.cmd.id, busy.status, busy.code), written)
       /\ Reply(<<ReplyTo(busy.cmd, "accepted", ""),
                  IF written THEN ReplyTo(busy.cmd, busy.status, busy.code)
                             ELSE ReplyTo(busy.cmd, "failed", "state_unavailable")>>)
  /\ busy' = Idle
  /\ UNCHANGED <<session, shown, lastGood, applied>>

-----------------------------------------------------------------------------
(* Snapshots, the session and the process. *)

\* protocol.Supersedes.
Supersedes(prev, next) ==
  prev = NoSnapshot \/ next.epoch # prev.epoch \/ next.version > prev.version

\* SnapshotApplied has work to do when some refresh waited for snapshot s.
Refreshing(l, s, report) ==
  IF s = NoSnapshot \/ Answered(l, s) = {} THEN Idle
                                           ELSE [phase |-> "refresh", report |-> report]

\* applySnapshot: the snapshot is shown even when saving it fails.
ApplySnapshot(s) ==
  /\ busy = Idle
  /\ session
  /\ s # NoSnapshot
  /\ Supersedes(shown, s)
  /\ shown' = s
  /\ \E saved \in WriteOutcomes("snap_write") : lastGood' = IF saved THEN s ELSE lastGood
  /\ busy' = Refreshing(ledger, s, TRUE)
  /\ UNCHANGED <<ledger, ledgerFile, outbox, session, applied>>

\* One turn of SnapshotApplied's loop.  A refresh whose ledger write failed is
\* final in memory and never reported.
CompleteRefresh ==
  /\ busy # Idle
  /\ busy.phase = "refresh"
  /\ \E i \in Answered(ledger, shown), written \in WriteOutcomes("ledger_write") :
       LET done == [ledger EXCEPT !.records[i] = CompletedRecord(@, "executed", "")] IN
       /\ \A j \in Answered(ledger, shown) : i <= j
       /\ SetLedger(done, written)
       /\ IF written /\ busy.report THEN Reply(<<ResultOf(done.records[i])>>)
                                    ELSE UNCHANGED outbox
       /\ busy' = Refreshing(done, shown, busy.report)
  /\ UNCHANGED <<session, shown, lastGood, applied>>

\* The writer of a dying session may take a result and fail to send it.
LoseResult ==
  /\ ~ session
  /\ outbox # << >>
  /\ outbox' = Tail(outbox)
  /\ UNCHANGED <<ledger, ledgerFile, busy, session, shown, lastGood, applied>>

\* writeResults: the next result goes to the wire.
SendResult ==
  /\ session
  /\ outbox # << >>
  /\ outbox' = Tail(outbox)
  /\ UNCHANGED <<ledger, ledgerFile, busy, session, shown, lastGood, applied>>

SetSession(alive) ==
  /\ alive => busy = Idle
  /\ session' = alive
  /\ UNCHANGED <<ledger, ledgerFile, busy, outbox, shown, lastGood, applied>>

\* openResultStore.  A ledger that cannot be decoded, or is longer than the
\* limit, is moved aside and starts over; otherwise what is interrupted is
\* closed.  A start whose write fails exits and is started again.
Opened ==
  (IF Len(ledgerFile.records) > MaxRecords THEN {} ELSE {WithInterrupted(ledgerFile)})
    \cup
  (IF Len(ledgerFile.records) > MaxRecords \/ "ledger_corrupt" \in Faults
     THEN {EmptyLedger} ELSE {})

\* The process dies and starts again: openResultStore, the saved snapshot, and
\* SnapshotApplied on it, whose results main drops.
Restart ==
  /\ outbox' = << >>
  /\ session' = FALSE
  /\ shown' = lastGood
  /\ \E opened \in Opened : /\ ledger' = opened
                           /\ ledgerFile' = opened
                           /\ busy' = Refreshing(opened, lastGood, FALSE)
  /\ UNCHANGED <<lastGood, applied>>

-----------------------------------------------------------------------------
(* The display on its own, against a daemon that may send it any command any *)
(* number of times, and any snapshot.                                        *)

DisplayInit ==
  /\ ledger = EmptyLedger
  /\ ledgerFile = EmptyLedger
  /\ busy = Idle
  /\ outbox = << >>
  /\ session = FALSE
  /\ shown = NoSnapshot
  /\ lastGood = NoSnapshot
  /\ applied = << >>

DisplayNext ==
  \/ \E cmd \in Command, isLapsed \in BOOLEAN : Handle(cmd, isLapsed)
  \/ Apply
  \/ Complete
  \/ \E s \in Snapshot : ApplySnapshot(s)
  \/ CompleteRefresh
  \/ LoseResult
  \/ SendResult
  \/ \E alive \in BOOLEAN : SetSession(alive)
  \/ Restart

DisplaySpec == DisplayInit /\ [][DisplayNext]_displayVars

-----------------------------------------------------------------------------
(* Properties. *)

\* Type correctness of the ledger, its file, the read loop and the snapshots.
DisplayTypeOK ==
  /\ ledger \in Ledger
  /\ ledgerFile \in Ledger
  /\ busy \in Busy \cup {Idle}
  /\ outbox \in Seq(Result)
  /\ session \in BOOLEAN
  /\ shown \in Snapshot
  /\ lastGood \in Snapshot
  /\ applied \in Seq(Command)

\* Commands change the screen in the order of their sequence numbers and none
\* does so twice, whatever is replayed, reordered, lost or forgotten, and
\* wherever the process dies or a ledger write fails (store.go accept,
\* Module-Spec-004 sections 6 and 11).
AppliedOnceInOrder ==
  \A i, j \in DOMAIN applied : i < j => applied[i].seq < applied[j].seq

\* Why: what has an effect was first written below the file's high-water mark,
\* and the mark in memory never falls behind the file (store.go accept).
HighWater ==
  /\ ledgerFile.high <= ledger.high
  /\ \A i \in DOMAIN applied : applied[i].seq <= ledgerFile.high
  /\ busy \in Busy /\ busy.phase = "apply" =>
       /\ busy.cmd.seq <= ledgerFile.high
       /\ \A i \in DOMAIN applied : applied[i].seq < busy.cmd.seq

\* The ledger is never longer than the file's reader accepts, so a restart never
\* throws the high-water mark away (store.go maxRecords).
WithinLimit ==
  /\ Len(ledger.records) <= MaxRecords
  /\ Len(ledgerFile.records) <= MaxRecords

=============================================================================
