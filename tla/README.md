# A verification development for homepi-mon

homepi-mon is a daemon (`homepi-node`) that collects metrics from providers and
home-lab services and shows them on small displays (`homepi-display`) over a
WebSocket stream. The daemon can also send the displays commands: show a page,
turn the rotation on, put up a message, refresh.

This directory holds TLA+ modules translated from the Go code in `src/`, TLC
configurations that check them on small instances, and proofs that TLAPS checks
for every value of the constants. `PROJECT.json` maps each definition to the lines
it stands for.

Contents

1. Inventory: the parts of the system
2. The modules and how they correspond to the code
3. What the runs check
4. Bounds, and why they are enough
5. Fairness
6. What is proved, and how
7. What the code does and the documents do not say
8. What is not modelled
9. Plan

## 1. Inventory

### Remote control

**Command queue of the daemon** (`internal/commandbus/bus.go`). State: entries in
queue order, the last sequence number per daemon, the file `command-bus.json`. All
methods run under one mutex. `Publish` gives the next sequence number and, when the
queue is full, fails the oldest published normal command; `Pending` lists what a
device still has to get; `Record` takes a result; `Get` reads one entry. Expiry is
not a timer: `Pending` and `Get` apply it. Every change is written to the file, and
what was changed in memory is taken back when the write fails. *Hard*: rollback of
every field, results that come after expiry or overflow, trimming of finished
entries that callers may still poll, restarts from a file that must be accepted
again. *Correct when*: a restart takes back nothing a
caller was told, but for timeouts of which the code writes nothing (section 7); a final
result never changes otherwise; entries are handed out in sequence order; the
queue is never longer than what a start accepts.

**Command ledger and controller of the display** (`internal/remotecontrol`). State:
records of the last 256 results with a high-water mark of the sequence, in memory
and in `command-results.json`. `Handle` validates, accepts (a write), acts on the
screen and completes (a write); `SnapshotApplied` completes refresh commands; a start
closes whatever was interrupted. *Hard*: a crash between any two of the three steps,
writes that fail and are not rolled back, commands delivered again after their record
was forgotten. *Correct when*: each command acts at most once, in sequence order,
and "executed" is only reported of a command that acted.

**Stream** (`internal/nodeapi/stream.go`, `internal/syncclient/client.go`). State: per
connection, what was sent; on the display, a channel of results. The daemon has two
goroutines per connection (`pump` writes, `drain` reads), the display two (the read
loop and the writer of results). *Hard*: commands and results lost with a connection,
results of an old connection read while the next one is in use, resumption from a
snapshot of an earlier life of the daemon. *Correct when*: what was lost is delivered
again until it is answered, and no answer is given twice.

### Snapshots

**Current state** (`internal/state/current.go`): metrics, nodes, services and health
records with a version, under one lock. Written by the collection workers, read by
the pumps of all connections. *Correct when*: every visible change has a new version;
the limits of the receivers hold over all connectors; values survive failures.

**Collection** (`internal/scheduler`): a goroutine per connector, and one per
connector and running refresh. A lock per connector and a shared number of slots.
*Hard*: periodic and requested attempts race; a time limit ends a wait; the health
record is published after the lock is gone. *Correct when*: a slow answer never
replaces a newer one; a failed attempt marks what it could not renew; a refresh that
returns in time has fresh data; nobody starves.

**Snapshot path** (pump, `applySnapshot`, `internal/snapstore`): from the state over
the wire to the screen and the last-known-good file. *Hard*: two locks read one after
another, restarts at both ends, version numbers of different epochs, failing saves, a
corrupt file. *Correct when*: data only moves forward and the screen catches up.

### Administration

**Configuration transactions** (`internal/configtx`, `internal/secretstore`,
`internal/config`). State: the configuration file with its revision, a draft with an
overlay of candidate secrets, versioned references in a secret store. `OpenDraft`,
`EditProvider`, `DeleteProvider`, `TestProvider`, `Apply` (store secrets, save, restart,
health check, prune or roll back). *Hard*: a failure or crash at every step, two
processes on one file, versions of secrets nobody references. *Correct when*: after
every outcome the file refers only to secrets that exist, or that an operator named
without entering one; the outcome Apply reports is what happened; what is put to use is what was tested; no change of another process is
overwritten unseen.

**Web administration** (`internal/webadmin`): HTTP handlers that share one draft and
one deployment at a time, and whose requests may be cancelled in the middle.

**Display deployment** (`internal/displaydeploy`): a stored candidate profile; test,
then apply it by a script over SSH, wait for a healthy display, roll back otherwise.
*Hard*: the outcome of a remote script is unknown when the connection fails; the script
itself may be cut off between two commands. *Correct when*: what the manager believes is
active is what runs.

**Pairing and revocation** (`internal/deviceacl`, `cmd/homepi-node/device.go`): the
configuration file, the secret store and the list of revoked tokens are written one
after another by processes of their own, and read by the daemon at its start and at
every pass of a stream. *Correct when*: a paired device has its token after every prefix
of the writes, a revoked one is refused for good and its stream ends.

### Display

**Page router** (`internal/ui/pages.go`): a page index, the dwell left, a remote page
and an override with an end each, critical pages that pre-empt. *Hard*: freezing and
resuming dwell times over overrides, critical pages and rotation switches, in any
order. *Correct when*: pre-emption costs the page in rotation nothing, an override
leaves nothing behind, and every page comes round again.

**Status** (`internal/protocol/status.go`, `internal/ui/build.go`): the badge of an item
from its error, age, precision and value, and of a card from its items. It decides which
pages are critical.

**Rendering** (`internal/ui` otherwise): a pure function of one snapshot.

### Providers

**Connectors** (`internal/connector/...`): one collection is a credential (keyring, or a
login file that another program rewrites), one or more requests with fallbacks, and the
reading of the answers. *Hard*: a login file read in pieces while its owner replaces or
truncates it; parts of an answer that are missing; a batch that must be what the type
declares. *Correct when*: no torn token is sent, a batch is whole or refused.

**Retry policy** (`internal/scheduler/policy.go`): the delay after each attempt, by class
of error, with jitter and Retry-After. *Hard*: the order of jitter, caps and floors, and a
duration that overflows. *Correct when*: the worker never asks before it may, and always
comes back.

### Support

`internal/protocol` holds the message types, their validation and the rule `Supersedes`.
The rest (decimal formatting, TLS set-up, installation, unit files, `/proc`) is functions
or plain I/O.

### How they interact

    providers --> collection --> current state --> pump ==stream==> read loop --> screen
                      ^                              |                  |  |        |
                      |                              v                  |  +-> last-known-good file
    CLI / HTTP --> command queue ----------------> pump ==stream==> controller --> ledger file
                      ^                                                 |
                      +------- drain <==stream== writer <-- channel <---+

    CLI / browser --> draft --> Apply --> configuration file + secret store --> daemon (restart)
    device add / revoke ---------------> configuration, secrets, revocation list
                                                |                   |
    browser --> display profile --> script over SSH --> display     +--> who may open a stream

A refresh command touches both paths: when the display accepts it, the daemon collects
(`refreshAfterAccepted`), and the next newer snapshot completes it. A page command and a
critical snapshot meet in the page router. A deployed environment carries the token that
pairing stored, and the display connects with it.

## 2. The modules

| Module | Models | Composes |
|---|---|---|
| `CommandProtocol` | kinds, statuses, codes and the clock of commands (`protocol/remote.go`) | |
| `CommandBus` | the daemon's queue and its file | `CommandProtocol` |
| `DisplayController` | ledger, controller, result channel of one display | `CommandProtocol` |
| `RemoteControl` | daemon, stream and display | `CommandBus`, `DisplayController` |
| `CommandLifecycle` | abstract: what a caller is promised about a command | |
| `SnapshotSync` | state, pump, wire, screen and file for snapshots | |
| `CurrentState` | the operations on the current state | |
| `Scheduler` | collection workers and refreshes | `CurrentState` |
| `ProviderAnswers` | what each type of connector makes of an answer | |
| `ProviderCollect` | one collection: credential, requests, fallbacks | `ProviderAnswers` |
| `ProviderWorker` | a worker with its delays, and a refresh | `ProviderCollect` |
| `DisplayStatus` | badges of items and cards | |
| `PageRouter` | the router under the draw loop | `DisplayStatus` |
| `ConfigTransaction` | drafts and Apply of several processes | |
| `DeviceAccess` | pairing, revocation, and the daemon that checks | |
| `DisplayDeployment` | the Manager, its script and the Pi | `DeviceAccess` |
| `MCScheduler`, `MCPageRouter`, `MCConfigTransaction` | instances for TLC | |
| `RemoteEnds_proofs`, `RemoteControl_proofs`, `SnapshotSync_proofs`, `Scheduler_proofs`, `ProviderWorker_proofs`, `PageRouter_proofs`, `DisplayDeployment_proofs`, `ConfigTransaction_proofs` | theorems | |

**CommandBus.** `bus` is the queue in memory and `busFile` the file. Each method is one
action, since each runs under the mutex from start to end, its write included; a write
may fail when `"bus_write"` is in `Faults`, and then `bus` is what the rollback leaves.
Time is two sets: the commands past their time to live (`lapsed`) and those past the
execution window (`overdue`). Entries keep their status and code; texts are left out.

**DisplayController.** The read loop handles one message at a time. A UI command is
three actions (`Handle` up to the accepting write, `Apply`, `Complete`), because the
process may die between them; what it is in the middle of is `busy`. `CompleteRefresh`
is one turn of the loop in `SnapshotApplied`. `Restart` is death and start in one
step: the ledger is read or moved aside, interrupted records are closed, and the
stored snapshot goes through the refresh loop, whose results `main` drops. `applied`
records every effect on the screen. `brightness` always ends unsupported.

**RemoteControl.** `downlink` and `uplink` are what is on the way in the current
connection, `late` what the drain goroutine of an earlier one still holds; a broken
connection loses all of the first, and all but a prefix of the second. `sent` is the
pump's memory of the connection. A final result that reports more than five minutes does
not decode and is skipped (`RecordResult`).

**CommandLifecycle** is the promise: one answer per command, final once final,
`executed` only of a command that acted (or needs no effect), effects at most once and
in the order of publication. `RemoteControl` implements it with the answer read from
the queue *file* and the effects from `applied` (`IsALifecycle`). The file, not the
memory, is what a caller can rely on after a restart; `RestartKeepsAnswers` ties the
two together.

**SnapshotSync.** The pump reads the snapshot (`Peek`) and then asks whether there is
any data (`SendPeeked`): two locks in the code, two steps here. The display shows a
snapshot and then saves it, also two steps.

**Scheduler.** A worker moves through `lock`, `slot`, `collect`, `store`, `report` and
`publish`. The periodic worker of a connector starts again from `idle`; the workers of
a refresh end there. Metrics and the home-lab report of one attempt are stored by two
calls, so they are two steps. A *reading* is the ordinal of an answer of the upstream:
it makes "older" and "newer" visible. `answer` and `outcome` record what the upstream
last said and how the last attempt ended; they are history the properties compare the
state with. The guard by observed sequence and the tombstones of `applyMetrics` are
modelled, though the lock of the connector already orders the batches: the proof shows
that the guard never refuses a batch (`SequenceAhead`).

**ProviderAnswers, ProviderCollect, ProviderWorker.** The first is operators only: an
answer is a record of what may be missing or bad in it, and a parse gives a batch, a function
from the places of the answer to the metric ids found there, or a class of error, in the
order of the code's checks. The second is one
collection in steps. The path of a login file points to an inode with a modification
stamp and two parts. Its owner truncates the inode and writes the parts one after the
other, or renames a new file over the path, or logs out. The reader looks at the path,
opens it and notes the stamp, reads the two parts, and believes them only if a last look
at the path finds the same inode and stamp. The third has the delays of the
policy in ticks, `time.Duration` with its overflow, the timer, and a refresh that takes
the same lock. `embargo` is what the upstream last asked for, whoever was told and however
long; `Heeded` says whether the code keeps to it (section 7). A refused credential of the
upstream (401) takes the course of a missing one. `Scheduler` abstracts the delays and has what is stored instead.

**PageRouter.** One action per method, each beginning with the advance of the clock
(`advanceLocked`) as in the code. `lag` is the time since the last of them. Which pages
are critical follows from the snapshot by `DisplayStatus`.

**ConfigTransaction.** Each process has a draft and an Apply under way, whose program
counter is `work[s].step`. File and store are shared; every write is a step, with its
failure as a disjunct, and `Crash` may come between any two. An edit names a reference and
may enter a candidate secret for it (`Stage`) or none (`Name`). The secrets that Apply
found are remembered (`held`), so that its answer can be compared with what it did; so are
the references saved with no secret under them (`bare`) and the Applies during which
another process wrote the file (`raced`).

**DeviceAccess, DisplayDeployment.** What a device command reads at its start is in
`command[o]`; each of its writes is a step. The script of an Apply is three steps on the
Pi (set aside, place, restart) that go on when the Manager has given up. `lost` records
that the Manager cannot know the display any more, and `confirmed` what it last knew.

A definition `X_flaw` next to `X` is `X` with a plausible mistake. No action uses it.
It serves to see that a property notices that mistake.

## 3. What the runs check

| Run | Shows | Distinct states |
|---|---|---|
| `bus` | The queue with failing writes, expiry, overflow, restarts and results of any kind: it stays within what its file accepts, keeps sequence order, and no final answer changes, but for the timeouts of section 7 that a restart takes back | 227 k |
| `remote_faults` | The whole path with lost results, failing writes at both ends and restarts of both processes implements `CommandLifecycle`; effects at most once and in order | 843 k |
| `remote_refresh` | Two commands in flight over reconnects and failing saves: none overtaken, a refresh executed only by a newer snapshot | 1.49 M |
| `remote_live` | A connection that lasts answers everything; without any connection the clock and a caller do | 66 k |
| `sync` | Snapshots only move forward, and the screen catches up | 10 k |
| `collection_refresh` | A periodic worker against a refresh of the same connector: order, freshness, versions, kept values, termination; every report of its services is refused for its size | 202 k |
| `collection` | Two connectors for one slot and for shared limits: limits hold, nobody starves | 38 k |
| `provider` | Every type of connector under worker and refresh, with failing upstream, closing keyring and a login file rewritten while it is read; the worker keeps to the Retry-After it is told, if a Duration holds it | 2.18 M |
| `screen` | Remote pages, overrides, critical and stale snapshots over a clock: nothing is lost to pre-emption and every page comes round | 104 k |
| `config` | Web administration and command line on one file: references resolve unless named without a secret, outcomes are true, nothing untested runs, an update is lost only in two windows (section 7) | 3.26 M |
| `access` | Pairing, revoking, deploying with failures and power loss: tokens stay, revoked ones stay out, the display runs what is believed unless an answer was lost or the script cut off | 809 k |

One run, `last_success`, ends in a counterexample; see section 7.

Every property of a passing run has a mutant in `PROJECT.json`: a definition replaced by
its `_flaw`, under which the property is violated.

## 4. Bounds

- *Two commands* (`MaxIssued = 2`, `4` for the queue alone) are enough for overtaking,
  for a duplicate after forgetting (with `MaxRecords = 1` the second command pushes the
  first out of the ledger) and for an overflow of a queue of one or two.
- *One display.* Entries of different devices share the queue and its limits only; the
  queue alone accepts any device, and the proofs about it are for any set of them.
- *One or two starts* of each process (`MaxEpoch`); in `bus`, restarts are not bounded.
- *One message in flight* in each direction of a session for results (`MaxWire = 1`),
  with one more in the channel and one held by an older drain goroutine: three places
  where a result can be when a connection breaks. The downlink is bounded by what the
  pump has not sent yet.
- *Pages*: three, with two dwells, one override interval longer than both and one command
  duration; draws one tick apart at most (`MaxLag`), which is less than any dwell, as in
  the code (one second against thirty). The proofs are for any.
- *Transactions*: two processes, one provider, two interchangeable secrets, versions up to
  two (the first and one rotation), two drafts of two edits: enough for a conflict, a
  replaced candidate, a rotation on top of a rolled-back one, and a change in each of the
  two windows. An operator names version one or leaves the reference alone (`Names`).
- *Access*: one device and one process that runs device commands, which fails or dies at
  every write and starts again; two tokens, one before and one after a revocation. Two
  such processes at once are left to the proof: the run's properties promise nothing once
  two have overlapped, and the exploration with two (15 million states without a
  violation) is too large to keep. Two styles tell the old profile from the new.
- *Providers*: a Retry-After of zero, of two ticks and of three, which overflows the duration;
  one series more than a query may return; two logins.
- *Reports*: `collection` lets two connectors report two nodes (one of them
  shared) and two services against limits of one each; `collection_refresh` has a limit of no service, so
  that a report with one is refused after its metrics were stored.
- *Two readings* (`MaxReads = 2`): one before and one after a refresh was asked for.
  Failures are not bounded.
- `VersionWrap = 2` keeps the version only as "moved or not"; the code's is 2^64, and
  `ChangesAreVersioned` is proved for any wrap above one.
- *Answers* have up to two rows in each part (`MaxRows = 2`), enough for one that repeats
  another; `BatchesAreSound` is proved for any number.
- The limits of the code (256 records, 128 results in the channel, 64 pending commands,
  4 slots, 100 nodes, 32 services) are constants, set so low that they are reached.

## 5. Fairness

- *Remote control*: weak fairness of `Connect` (the client reconnects for ever), of the
  pump's turn (a ticker), of the readers and writers (goroutines that are not
  blocked run), and of the handler. Nothing obliges a connection to last, a result to
  survive, a caller to ask or the clock to pass a certain point. `AnsweredOnceConnected`
  assumes a connection that lasts; `EventuallyAnswered` assumes instead that time passes
  and the caller polls (the command line polls every 100 ms), and is stated with both as
  its hypothesis.
- *Snapshots*: weak fairness of connecting, of the two halves of the pump's turn, of
  showing and of saving.
- *Access*: weak fairness of `CutOff` for every device: each pass of a stream's pump, which
  a ticker drives, begins with the revocation check. Nothing else needs to happen.
- *Screen*: weak fairness of drawing and of time: the loop has a ticker of one second.
- *Providers*: weak fairness of time, of the steps of a collection (each is bounded by a
  timeout) and of publishing; strong fairness of the worker's taking of the lock from a
  refresh, which Go's mutex grants to whoever waits longer than a millisecond. `Recovers`
  assumes that the upstream answers and the credential is there from some time on;
  refreshes may go on for ever.
- *Collection*: strong fairness of taking a connector's lock and a slot: Go's mutexes
  hand over to a waiter after a millisecond, and senders on a channel are served in
  order. Weak fairness of asking (an upstream call is bounded by a time limit), storing
  and publishing.

## 6. What is proved

TLAPS checks these for every value of the constants that meets the named assumptions
of the modules (such as `BusAssumption`, `SchedulerAssumption`, `RouterAssumption`), which TLC
evaluates in the runs.

**`RemoteEnds_proofs`**, the queue, with any faults. `BusTypeCorrect`, `QueueInSequence` (entries
in sequence order, below the counter, in memory and file), `RestartTakesBackTimeouts`
(`RestartKeepsAnswers`), `FinalResultsAreFinal` and `QueueFitsItsFile`
(`NeverOutgrowsItsFile`). The invariant is that memory and file are each sound and hold
the same, but for entries that have timed out in memory and wait in the file
(`Unwritten`): a restart takes back these and nothing else. Each method
replaces the queue by one that *keeps* it or adds a fresh entry, and either both or
neither of memory and file move on. For the size: of the finished entries a trimming
keeps those with fewer than `MaxResults` newer ones; the oldest kept one bounds them all
(`NewestAreFew`, by a minimum and no induction); and a publish makes room for the
unfinished one it adds.

**`RemoteEnds_proofs`**, the display. `DisplayTypeCorrect`, `LedgerWithinLimit`, and
`AppliedInOrder`: commands act at most once and in sequence order. The invariant is
`HighWater`: whatever acted lies at or below the mark in the *file*, and the mark in
memory is never behind it. It holds over a restart only because the ledger is never
longer than a start accepts (`WithinLimit`), or the mark would be thrown away with the
records. The one assumption is that the file is not corrupted
(`"ledger_corrupt" \notin Faults`): with that, the mark is lost and the property
fails, as the code accepts.

**`RemoteControl_proofs`**, the whole. `EndsInTheWhole`: every step of daemon, stream and
display is a step the queue may make and one the display may make, or none of it, so
`Spec` implies `BusSpec` and `DisplaySpec` and their theorems carry over
(`RemoteDisplaySafe`). What must be known of the stream for it: what travels is a command
or a result, and results bear one of the pairs of status and code a display reports
(`LinkType`).

`CommandsInTurn` is `NeverOutOfOrder`, which speaks of both ends and of everything between
them. First, numbers: a command's sequence number is its id wherever it is met, and the
kind is the one the file has (`NumberInv`). Then `TurnInv`: what is on the way down is in
order, and beyond the mark of the ledger or known; what the pump has sent arrives or has;
and a command the mark has passed and the ledger does not know has run out of time, with
nothing on its way that would still count (`MissedIsOver`). Its two hypotheses are what the code leaves
open. `"bus_corrupt"` is excluded since a queue that starts over counts from one again
(section 7). `RoomForNext` says that a ledger with all its 256 records in use, about to
take in a new command, does not drop the record of one that the daemon still waits for
or that is still on its way: that one would be sent again, and refused.
`FewCommandsInTurn` needs no such proviso as long as no more commands are issued than the
ledger holds (as in the run): no id has two records (`UniqueRecords`), so a full ledger
that lacks a command holds more commands than there are.

`ImplementsLifecycle` is the refinement `IsALifecycle`, for any number of commands and any
limits, with both files readable. Its invariant is `TruthInv`: whatever says `executed`,
a record of the ledger, a result on the way or an entry of the queue, is right to, for
the command acted or is a refresh (`Rightly`). Then each step is mapped: whatever replaces the queue file moves all its answers onward and is one
`Answer` of the lifecycle, and a step that acts on the screen is an `Effect`, of a command
above all that acted before, by `HighWater`. Everything else stutters.
`ExecutedAnswersAreTrue` carries the half of it an administrator relies on from the file to
the memory the daemon answers from, and needs no ledger: a display that lost its ledger may
act twice, but nothing is reported executed that was not.

`RefreshesSeeNewer` is `RefreshSeesNewer`. `WaitingInv` says that a refresh waiting in the
ledger is accepted, and that the snapshot it was accepted over comes from no later daemon
than the one that is running or the one shown. It also says that nothing waits in memory
that the file has executed, since a crash between the two must not make it wait again:
what took effect is at or below the mark (`Marked`), and a new record is above it. The
proviso is real: if saving a snapshot can fail *and* the daemon starts again, a restart
of the display shows an older snapshot of another epoch, which `Advanced` takes for newer
(section 7). Without the one or the other the theorem holds for any number of restarts
of the display.

**`Scheduler_proofs`.** `SchedTypeCorrect` includes the accounting of slots: the number in
use is the number of workers between taking and giving back, on every path.
`ChangesAreVersioned`, `ValuesAreKept`, `LimitsHold`. One lemma per operation on the
state says what it changes; every step of a worker is brought down to one of four
operations. Its second half has `AttemptsInOrder` (`LastAttemptShows`) and
`RefreshesAnswerFresh`, neither of which is inductive. The strengthening: a worker between lock
and release is the holder (`Exclusive`), the counter of batches is ahead of everything
observed (`SequenceAhead`), items belong to who may report them (`OwnItems`), and the
stage of the holder says how far the state has been brought to its answer (`Carries`).
A step of a worker then touches only its own connector (`Confined`), and that worker is
alone there (`Alone`). For freshness, a worker that took the lock after the refresh was
asked for stores only readings made after it (`LaterReadings`). The unique source of a
metric is needed: were two connectors to report the same metric id, the batch of one
would replace the metric of the other. The code gives it by prefixing ids.

**`SnapshotSync_proofs`.** `SyncTypeCorrect` and `SnapshotsFlowForward` (`FlowsForward`),
for any number of versions and restarts. `FlowsForward` says the places a snapshot passes
are ordered; each action moves a snapshot one place on or empties places, so the proof
is that the path keeps its order when its end grows, its head is taken or its middle is
lost.

**`ProviderWorker_proofs`.** `TokensAreWhole`: what has been read of a login file is either
from one version of it, or the last look at the path (`os.Lstat`) rejects it. The invariant follows the
reader: what the first piece and the second piece may be, given whether the inode has
changed since it was opened. `RetryAfterIsObeyed`: while a wish is `Heeded`, that is,
one told to the worker that a Duration holds, the worker is waiting at least as long, and no
refresh replaces the wish. The two cases left out are the code's (section 7).
`BatchesAreSound` (`BatchIsSound`) is about the parsers, one lemma each: a batch maps the
places of an answer to metrics, so that a metric found twice has two places; the rows
that repeat a window or a currency are passed over or refuse the answer, however many
there are.

**`PageRouter_proofs`.** `RouterTypeCorrect`, `OverridesLeaveNoTrace`, `RotationIsFrozen`,
`RotationOffStaysOff`, for any order, dwells and commands. The strengthening: whatever
holds the rotation back has set `paused` (but for a rotation command during a critical
page), and the dwell left is never more than the interval in force, without which a
repeated command with the same override could shorten it. Types need that no two draws
are further apart than a dwell.

**`DisplayDeployment_proofs`.** `DeploymentTypeCorrect`, `PairedTokensResolve`
(`PairedResolve`), `RevokedAreNotReadmitted` (`NotReadmitted`) and `DisplayRunsWhatIsSaved`
(`DisplayAgrees`), for any displays, any number of processes and any failures. For pairing: unless commands overlapped, one runs
at a time, so what it read still holds, and a token is deleted only after its device has
left the configuration. For revocation (`DismissInv`): a command rewrites the whole list,
and as it is alone, the list it read is still the one on disk, so no entry is lost and every
daemon finds it there; that open streams end is liveness (`RevokedStaysOut`). For deployment: where the script is says where the confirmed
environment is (`Believed`), and an Apply past its script has its target installed.

**`ConfigTransaction_proofs`.** `ConfigTypeCorrect`, `ReferencesResolve` (`RefsResolve`),
`OutcomesTrue` (`OutcomesTell`), `NoUpdateLost` (`NoLostUpdate`) and `OnlyTestedRuns`
(`TestedIsWhatRuns`), for any number of processes and providers. The inductive invariant,
`ConfigInv`, says what each step of an Apply has done to file and store so far
(`Progress`): candidates went to references that were free, the file was replaced over
the one the draft was made from, and deletions concern what the file no longer names.
What the file names without a secret is in `bare`. It also says what a draft was made from, and that an Apply of the web administration has
passed its check with the draft as it now is (`Founded`). It holds until two processes
are at work at once (`Apart`); until then, only the process at work writes (`Aside`), so
each of the twenty actions is looked at for its own process alone. The outcomes
follow from the last step before the end. `NoUpdateLost` needs no such proviso and has an
invariant of its own (`Watched`), for any number of Applies at once: as long as no other
process wrote the file since the revision check (`raced`), it is the one the check found,
and after the save the one that was saved. `bare` and `raced` are history; where a theorem
makes an exception of them, section 7 names the lines of the code.

Only model-checked: liveness, for the prover handles neither fairness with ENABLED nor
leads-to from it. Every safety property of the passing runs is also a theorem.

## 7. Findings

With a run:

- `last_success`: the periodic worker and a refresh each keep a copy of the last success
  (`scheduler.go:151`, `187`), so a failure can publish an older one than was on record.

Without a run, seen while modelling. Where two accounts differ, the code is what the
modules say.

*Remote control and snapshots*

- A `Get` of an unknown id expires entries without writing the file (`bus.go:205`). A caller
  may be told of the timeout until a restart takes it back, after which a late report may
  still make it executed; `.vibe/Module-Spec-004-RemoteControl.md:53` draws an expired
  command as final. `RestartKeepsAnswers` and `FinalResultsStand` make this one exception.
- A full queue can fail a command that the display has accepted and executed, while the
  acceptance is on its way (`bus.go:232`);
  `.vibe/Module-Spec-004-RemoteControl.md:88` says accepted commands are not evicted.
- A queue file that cannot be read is replaced by an empty one, the sequence included
  (`bus.go:67`), and until the counter has caught up the display refuses what it is sent;
  `.vibe/HL-Spec.md:169` calls the sequence persistent and monotonic.
- The pump reads the snapshot before it asks whether there is data (`stream.go:116`); the
  first collection in between lets an empty snapshot out, which the display saves over
  its last good one (`.vibe/HL-Spec.md:190`).
- The queue may call a command expired that the display executed, when its results are
  lost until the time to live is over.
- A refresh can be completed by an older snapshot than the one that was on the screen
  when it was accepted, if saving that one failed and both processes restarted: epochs
  are compared for being different only.
- A snapshot the display already holds is sent again after a resume
  (`stream.go:93`, `117`); it is dropped by `Supersedes`.

*Collection*

- Health records are published after the lock is released and can arrive out of order, so
  a stale class can stand until the next attempt.
- The comment at `policy.go:21` gives 15 minutes as the least back-off after an
  authentication failure; with jitter it becomes 13.5. Only Retry-After is a floor.
- A refresh ignores Retry-After and back-off, and does not tell the worker what it saw
  (`scheduler.go:205`). A Retry-After of more than 292 years in seconds overflows
  `time.Duration`, so the delay is negative and the worker asks again at once
  (`policy.go:137`). `.vibe/HL-Spec.md:328` calls Retry-After a least wait that nothing may
  break, and `policy.go:130` says that it must never be shortened; `RetryAfterHolds` leaves
  out these two cases, and without either exception TLC finds it violated. A start of the
  daemon forgets the wait too; the model's worker is never started again.
- A login file that its owner rewrites during a collection is reported as a failure of
  authentication, and the connector rests for 15 minutes with a valid login.

*Display*

- `SetRotation` during a critical page clears `paused`, so the clock runs behind the page
  until the next draw (`pages.go:272`; `turned` in the model).
- A node or service reported down stays critical at any age: `status.go:152` and
  `HL-Spec` section 7 evaluate freshness before value, `buildNodeCards` does not. Such a
  page is shown until the next snapshot (the hypothesis of `EveryPageComesRound`).
- `README.md:610` promises that the previous page and its remaining dwell resume; after an
  override of the interval the dwell is capped at the configured one instead, and a
  command that enables rotation without an interval keeps what a longer one has left.

*Configuration*

- A candidate secret replaced within a draft is stored all the same, and nothing refers to
  it; adding the provider again is then refused with "candidate secret version already
  exists". The comment in `apply.go` calls orphans harmless. A crash between storing and
  saving has the same effect on later Applies.
- Deleting a provider and adding it again in one draft at version two collides with its
  own reference.
- When the previous file cannot be restored, the candidate secrets are deleted although
  the file on disk still refers to them (`apply.go:336`; `damaged`).
- Two processes can leave references without secrets, for the lock is one process's
  (`overlapped`).
- Two processes can lose each other's update, in two windows: between the two reads of
  `OpenDraft` (`configtx.go:136`, content and digest; `Torn`), and from the revision check of
  Apply to its writes, rollback included (`apply.go:99`; `raced`).
  `.vibe/Module-Spec-005-WebAdmin.md:149` says that neither an edit from outside nor an Apply
  at the same time may overwrite in silence. `NoLostUpdate` leaves out these two, and
  without either exception TLC finds it violated.
- The web administration passes the request's context to Apply and its rollback
  (`api.go:449`): a browser that leaves makes both restart and recovery fail. The write
  time-out of the server (30 s, `webadmin.go:226`) is shorter than an Apply may take (45 s).
- `DeleteProvider` keeps its change when the validation after it fails (`draft.go:280`).
- `provider add` without a secret in the environment writes a reference that nothing backs
  (`provider.go:157`, `readProviderSecret`), and so does any edit that names a reference
  without entering a secret (`draft.go:218`), which the tests rely on
  (`configtx_test.go:405`). `RefsResolve` leaves out these references (`bare`) until a later
  Apply finds a secret there. What was tested for such an entry is not in its fingerprint
  (`draft.go:442`): the stored secret may change before the Apply.
- Enabling a provider that was added disabled needs no test.
- `waitForNodeService` takes the first "running" it sees.

*Displays*

- Two device commands at once can lose an entry of the revocation list (`device.go:165`).
- The second Apply after an unknown outcome makes the candidate its own backup, so that
  its rollback restores the candidate.
- The health check can be satisfied by a snapshot that the old process saved between the
  probe and the restart.
- Power loss between the two `mv` leaves the Pi without an environment file.
- The result of the rollback is ignored (`deployer.go:237`), and a test vouches for the
  profile but not for the token that is deployed with it.

## 8. What is not modelled

- *HTTP and TLS*: rate limits, certificate pins, sessions and CSRF tokens of the web
  administration, the read-only endpoints, time-outs of the servers.
- *Texts*: parsing and validation of fields and of command parameters, the environment
  file, JSON forms, redaction, the audit log, messages to people.
- *Drawing and the terminal*: layout, formatting, themes, key handling.
- *Numbers in metrics* and their texts, the choice among several logins of one program,
  the check of a connector's settings.
- *Keyrings, SSH, systemd, file systems* are external: calls that succeed, fail, or fail
  having done their work.
- *Loss of power of the daemon's machine*, after which a renamed file may be incomplete
  because it is not synced; a crash is the death of a process. The Pi's power is modelled,
  between the commands of the script. Every write of a login file is assumed to change
  its modification time.
- *Installation, certificates, unit files, kiosk, doctor, `/proc`*: one-shot programs
  without protocol state.

## 9. Plan

Done: remote control, snapshots, collection, then the page router, configuration
transactions, pairing and deployment, and the providers, each with its run; the proofs of
eight components, of remote control end to end and of its refinement.

Open, in this order:

1. The web administration's request handling (cancellation in every handler, sessions) as
   a module above `ConfigTransaction` and `DisplayDeployment`.
2. Several displays on one stream API, with revocation while commands are in flight:
   `RemoteControl` composed with `DeviceAccess`.
