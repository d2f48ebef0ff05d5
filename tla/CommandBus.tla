----------------------------- MODULE CommandBus -----------------------------
(***************************************************************************)
(* The daemon's bounded command queue and result audit                     *)
(* (src/internal/commandbus/bus.go).                                       *)
(*                                                                         *)
(* One mutex guards the whole Bus, so every method is one atomic step.     *)
(* Each method that changes the state writes the state file and puts the   *)
(* previous in-memory state back when that write fails.                    *)
(*                                                                         *)
(* Abstractions.                                                           *)
(*  - The entries slice is only appended to and filtered, so its order is  *)
(*    the order of the ids (CommandProtocol) and it is kept as a function. *)
(*  - An entry keeps what decides control: target device, kind, sequence,  *)
(*    status and result code.  Parameters, timestamps and their redaction  *)
(*    are left out.                                                        *)
(*  - Time is two growing sets: the commands whose ExpiresAt the clock has *)
(*    reached, and the accepted ones whose execution window has run out.   *)
(*  - The wake-up channels of Subscribe are left out: the pump also polls. *)
(*                                                                         *)
(* A definition X_flaw is X with a plausible mistake in it.  No action     *)
(* uses it: it serves to see that the properties notice the mistake.       *)
(***************************************************************************)
EXTENDS CommandProtocol, FiniteSets

CONSTANTS
  MaxPending,   \* 64 in the code: unfinished commands kept
  MaxResults    \* 256 in the code: finished commands kept

ASSUME BusAssumption ==
  /\ MaxPending \in Nat \ {0}
  /\ MaxResults \in Nat

\* The record of an id that is not (or no longer) in the queue.
NoEntry == [status |-> "none"]

Entry == [device : Devices, kind : Kinds, seq : Seqs,
          status : Statuses, code : Codes]

BusState == [sequence : 0 .. MaxIssued, entries : [Ids -> Entry \cup {NoEntry}]]

EmptyBus == [sequence |-> 0, entries |-> [c \in Ids |-> NoEntry]]

VARIABLES
  bus,      \* Bus.state, in memory
  busFile,  \* the state file
  issued,   \* number of command ids minted and published so far
  lapsed,   \* commands whose ExpiresAt has passed
  overdue   \* accepted commands whose execution window has passed

busVars == <<bus, busFile, issued, lapsed, overdue>>

-----------------------------------------------------------------------------
(* The contents of the queue. *)

Live(b)    == {c \in Ids : b.entries[c] # NoEntry}
Pending(b) == {c \in Live(b) : ~ Final(b.entries[c].status)}
Finals(b)  == {c \in Live(b) : Final(b.entries[c].status)}

SetResult(b, c, status, code) ==
  [b EXCEPT !.entries[c].status = status, !.entries[c].code = code]

\* trimLocked: the oldest finished entries go until MaxResults are left, so an
\* entry stays when fewer than MaxResults finished ones are newer.
Forgotten_keepsOneMore(b) ==
  {c \in Finals(b) : Cardinality({d \in Finals(b) : d > c}) > MaxResults}

Forgotten(b) == {c \in Finals(b) : Cardinality({d \in Finals(b) : d > c}) >= MaxResults}

Trimmed(b) ==
  [b EXCEPT !.entries = [c \in Ids |-> IF c \in Forgotten(b) THEN NoEntry ELSE @[c]]]

\* dropOldestNormalLocked: the first normal entry still waiting for delivery.
Droppable(b) == {c \in Live(b) : /\ Priority(b.entries[c].kind) = "normal"
                                 /\ b.entries[c].status = "published"}

IsOldest(c, S) == c \in S /\ \A d \in S : c <= d

\* expireLocked: delivery expiry of published entries, execution timeout of
\* accepted ones.
TimesOut_waitingOnly(b, c) == b.entries[c].status = "published" /\ c \in lapsed

TimesOut(b, c) == \/ b.entries[c].status = "published" /\ c \in lapsed
                  \/ b.entries[c].status = "accepted" /\ c \in overdue

TimedOut_withoutStatus(e) == [e EXCEPT !.status = "timeout", !.code = "execution_timeout"]

TimedOut(e) ==
  IF e.status = "published"
    THEN [e EXCEPT !.status = "expired", !.code = "expired"]
    ELSE [e EXCEPT !.status = "failed", !.code = "execution_timeout"]

Expired(b) ==
  [b EXCEPT !.entries = [c \in Ids |-> IF c \in Pending(b) /\ TimesOut(b, c)
                                         THEN TimedOut(@[c]) ELSE @[c]]]

\* Append a fresh entry under the next sequence number, then trim.
Enqueued_sameSequence(b, c, device, kind) ==
  Trimmed([b EXCEPT !.entries[c] = [device |-> device, kind |-> kind,
                                    seq |-> b.sequence + 1, status |-> "published",
                                    code |-> ""]])

Enqueued(b, c, device, kind) ==
  Trimmed([sequence |-> b.sequence + 1,
           entries  |-> [b.entries EXCEPT ![c] =
             [device |-> device, kind |-> kind, seq |-> b.sequence + 1,
              status |-> "published", code |-> ""]]])

\* persistLocked with the callers' rollback: the new state reaches both memory
\* and file, or the write fails and both stay as they were.
Persist_withoutRollback(b) ==
  /\ bus' = b
  /\ \/ busFile' = b
     \/ "bus_write" \in Faults /\ UNCHANGED busFile

Persist(b) ==
  \/ bus' = b /\ busFile' = b
  \/ "bus_write" \in Faults /\ UNCHANGED <<bus, busFile>>

-----------------------------------------------------------------------------
(* One action per method. *)

BusInit ==
  /\ bus = EmptyBus
  /\ busFile = EmptyBus
  /\ issued = 0
  /\ lapsed = {}
  /\ overdue = {}

\* Publish: a full queue gives up its oldest waiting normal command, or refuses.
Publish(device, kind) ==
  /\ issued < MaxIssued
  /\ LET c == issued + 1 IN
       \/ /\ Cardinality(Pending(bus)) < MaxPending
          /\ Persist(Enqueued(bus, c, device, kind))
       \/ /\ Cardinality(Pending(bus)) >= MaxPending
          /\ \E v \in Droppable(bus) :
               /\ IsOldest(v, Droppable(bus))
               /\ Persist(Enqueued(SetResult(bus, v, "failed", "overflow"), c, device, kind))
  /\ issued' = IF bus' = bus THEN issued ELSE issued + 1
  /\ UNCHANGED <<lapsed, overdue>>

\* Pending: time out what is due, persist if that changed anything, and hand
\* out the unfinished commands of the device that were not sent before.
Deliverable(b, device, sent) ==
  {c \in Pending(b) : b.entries[c].device = device} \ sent

PollPending ==
  /\ \/ Expired(bus) = bus /\ UNCHANGED <<bus, busFile>>
     \/ Expired(bus) # bus /\ Persist(Expired(bus))
  /\ UNCHANGED <<issued, lapsed, overdue>>

\* Record: a result from a device.  A finished entry is returned unchanged, an
\* unknown id or a result that does not match its command is an error.
Recordable_overFinal(device, c, seq) ==
  c \in Live(bus) /\ bus.entries[c].device = device /\ bus.entries[c].seq = seq

Recordable(device, c, seq) ==
  /\ c \in Live(bus)
  /\ bus.entries[c].device = device
  /\ bus.entries[c].seq = seq
  /\ ~ Final(bus.entries[c].status)

Record(device, c, seq, status, code) ==
  /\ \/ /\ Recordable(device, c, seq)
        /\ Persist(Trimmed(SetResult(bus, c, status, code)))
     \/ /\ ~ Recordable(device, c, seq)
        /\ UNCHANGED <<bus, busFile>>
  /\ UNCHANGED <<issued, lapsed, overdue>>

\* Get: times out what is due, but persists it only when the id is known.
Get(c) ==
  /\ \/ /\ c \in Live(bus)
        /\ \/ Expired(bus) = bus /\ UNCHANGED <<bus, busFile>>
           \/ Expired(bus) # bus /\ Persist(Expired(bus))
     \/ /\ c \notin Live(bus)
        /\ bus' = Expired(bus)
        /\ UNCHANGED busFile
  /\ UNCHANGED <<issued, lapsed, overdue>>

\* Open at daemon start.  A state file that cannot be decoded, or that holds
\* more entries than the limits allow, is moved aside and the state starts over.
Oversized(b) == Cardinality(Live(b)) > MaxPending + MaxResults

Reopen ==
  /\ \/ ~ Oversized(busFile) /\ bus' = busFile /\ UNCHANGED busFile
     \/ /\ Oversized(busFile) \/ "bus_corrupt" \in Faults
        /\ bus' = EmptyBus
        /\ busFile' = EmptyBus
  /\ UNCHANGED <<issued, lapsed, overdue>>

\* The clock reaches a command's ExpiresAt.
Lapse(c) ==
  /\ c \in 1 .. issued
  /\ c \notin lapsed
  /\ lapsed' = lapsed \cup {c}
  /\ UNCHANGED <<bus, busFile, issued, overdue>>

\* MaxCommandTTL passes since an accepted command's ReceivedAt; its own TTL is
\* no longer than that.
RunOut(c) ==
  /\ c \in Live(bus) \cap lapsed
  /\ bus.entries[c].status = "accepted"
  /\ c \notin overdue
  /\ overdue' = overdue \cup {c}
  /\ UNCHANGED <<bus, busFile, issued, lapsed>>

-----------------------------------------------------------------------------
(* The bus on its own, with any device reporting any result. *)

\* What a display reports: acceptance or a final outcome.
Reports == { <<"accepted", "">>, <<"executed", "">>, <<"expired", "expired">>,
             <<"rejected", "out_of_order">>, <<"rejected", "wrong_target">>,
             <<"rejected", "issued_in_future">>, <<"failed", "interrupted">>,
             <<"failed", "state_unavailable">>, <<"failed", "unsupported_capability">> }

BusNext ==
  \/ \E d \in Devices, k \in Kinds : Publish(d, k)
  \/ PollPending
  \/ \E d \in Devices, c \in Ids, s \in Seqs, r \in Reports :
       Record(d, c, s, r[1], r[2])
  \/ \E c \in Ids : Get(c)
  \/ Reopen
  \/ \E c \in Ids : Lapse(c)
  \/ \E c \in Ids : RunOut(c)

BusSpec == BusInit /\ [][BusNext]_busVars

-----------------------------------------------------------------------------
(* Properties. *)

\* Type correctness of the queue, its file and the clock sets.
BusTypeOK ==
  /\ bus \in BusState
  /\ busFile \in BusState
  /\ issued \in 0 .. MaxIssued
  /\ lapsed \subseteq Ids
  /\ overdue \subseteq Ids

\* The entries a state file may hold: Open moves a larger file aside, losing
\* the queue and the sequence.  Expiry turns unfinished entries into finished
\* ones without trimming, so the two limits hold only together
\* (bus.go MaxPending, MaxResults, Open).
Bounded(b) ==
  /\ Cardinality(Pending(b)) <= MaxPending
  /\ Cardinality(Live(b)) <= MaxPending + MaxResults

NeverOutgrowsItsFile == Bounded(bus) /\ Bounded(busFile)

\* The queue hands commands out in the order of their ids, the display accepts
\* only a growing sequence: both orders agree, and the counter is ahead of
\* every entry, also after failed writes and restarts (bus.go Publish).
InOrder(b) ==
  /\ \A c \in Live(b) : b.entries[c].seq <= b.sequence
  /\ \A c, d \in Live(b) : c < d => b.entries[c].seq < b.entries[d].seq

SequenceFollowsQueue == InOrder(bus) /\ InOrder(busFile)

\* The commands that memory alone has timed out: a Get of an unknown id expires
\* entries without writing the file (bus.go Get).
Unwritten(c) ==
  /\ c \in Pending(busFile)
  /\ TimesOut(busFile, c)
  /\ bus.entries[c] = TimedOut(busFile.entries[c])

\* File and memory hold the same commands under the same counter, and differ only
\* in timeouts that memory has not written: a restart takes back these and nothing
\* else, whichever writes failed before it (bus.go rollbacks, Get).
RestartKeepsAnswers ==
  /\ busFile.sequence = bus.sequence
  /\ \A c \in Ids : busFile.entries[c] = bus.entries[c] \/ Unwritten(c)

\* What callers see as the final result of a command stays, whatever is reported,
\* expires, overflows, fails to be written or is read back at a start, or it is
\* forgotten (bus.go Record).  The one exception is in the code: a start takes back
\* a timeout that a Get of an unknown id made in memory (bus.go Get), after which a
\* report may still say executed; Module-Spec-004 section 4 draws it as final.
FinalResultsStand ==
  [][\A c \in Finals(bus) :
       \/ bus'.entries[c] \in {bus.entries[c], NoEntry}
       \/ Unwritten(c) /\ bus' = busFile /\ UNCHANGED busFile]_busVars

=============================================================================
