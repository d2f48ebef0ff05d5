-------------------------- MODULE RemoteEnds_proofs --------------------------
(***************************************************************************)
(* Theorems about the two ends of remote control, each against an          *)
(* environment that may do anything, for every limit, every number of      *)
(* commands and every failure.                                             *)
(*                                                                         *)
(* First CommandBus: types, the agreement of queue order and sequence      *)
(* numbers, what a restart may change, that final results stand, and that  *)
(* no file is written which a start would not take.  The argument: every   *)
(* method replaces the queue by one that keeps it (Keeps), or by one with  *)
(* a fresh entry under a fresh sequence number; and memory and file differ *)
(* only by expiries not yet written.  Nothing but a publish adds an entry; *)
(* it makes room for it first, and a trimmed queue has MaxResults finished *)
(* entries at most.                                                        *)
(*                                                                         *)
(* Then DisplayController: types, the length of the ledger, and that       *)
(* commands change the screen at most once and in order.                   *)
(***************************************************************************)
EXTENDS CommandBus, DisplayController, FiniteSetTheorems, WellFoundedInduction, TLAPS

(***************************************************************************)
(* The queue of the daemon.                                                *)
(***************************************************************************)

\* Queue b2 has the commands of b, less some that are forgotten; results change
\* only where they were not final.
Keeps(b, b2) ==
  /\ b2 \in BusState
  /\ b2.sequence = b.sequence
  /\ \A c \in Ids :
       \/ b2.entries[c] = b.entries[c]
       \/ b2.entries[c] = NoEntry
       \/ /\ c \in Pending(b)
          /\ c \in Live(b2)
          /\ b2.entries[c].seq = b.entries[c].seq

\* A queue whose ids and sequence numbers were all given out by now.
Sound(b) ==
  /\ b \in BusState
  /\ b.sequence <= issued
  /\ \A c \in Live(b) : c <= issued
  /\ InOrder(b)

BusInv ==
  /\ Sound(bus)
  /\ Sound(busFile)
  /\ issued \in 0 .. MaxIssued
  /\ lapsed \subseteq Ids
  /\ overdue \subseteq Ids
  /\ RestartKeepsAnswers

-----------------------------------------------------------------------------
(* The operations on a queue. *)

\* What an entry is, and that it is not NoEntry.
LEMMA TimedOutIs ==
  ASSUME NEW e \in Entry
  PROVE  /\ TimedOut(e) \in Entry
         /\ TimedOut(e).device = e.device /\ TimedOut(e).kind = e.kind
         /\ TimedOut(e).seq = e.seq
         /\ TimedOut(e).status \in {"expired", "failed"}
<1>1. {"expired", "failed"} \subseteq Statuses /\ {"expired", "execution_timeout"} \subseteq Codes
  BY DEF Statuses, FinalStatuses, Codes
<1>2. CASE e.status = "published"
  <2>1. TimedOut(e) = [e EXCEPT !.status = "expired", !.code = "expired"]
    BY <1>2 DEF TimedOut
  <2> QED
    BY <1>1, <2>1 DEF Entry
<1>3. CASE e.status # "published"
  <2>1. TimedOut(e) = [e EXCEPT !.status = "failed", !.code = "execution_timeout"]
    BY <1>3 DEF TimedOut
  <2> QED
    BY <1>1, <2>1 DEF Entry
<1> QED
  BY <1>2, <1>3

LEMMA EntryType ==
  ASSUME NEW b \in BusState, NEW c \in Ids
  PROVE  /\ c \in Live(b) => b.entries[c] \in Entry
         /\ NoEntry \notin Entry
<1>1. NoEntry \notin Entry
  BY DEF NoEntry, Entry, Statuses, FinalStatuses
<1>2. b.entries[c] \in Entry \cup {NoEntry}
  BY DEF BusState
<1> QED
  BY <1>1, <1>2 DEF Live

\* Replacing entries one for one gives a queue.
LEMMA MapEntriesType ==
  ASSUME NEW b \in BusState, NEW es \in [Ids -> Entry \cup {NoEntry}]
  PROVE  /\ [b EXCEPT !.entries = es] \in BusState
         /\ [b EXCEPT !.entries = es].sequence = b.sequence
         /\ [b EXCEPT !.entries = es].entries = es
BY DEF BusState

\* Trimming forgets finished commands and changes nothing else (bus.go trimLocked).
LEMMA TrimmedKeeps ==
  ASSUME NEW b \in BusState
  PROVE  /\ Keeps(b, Trimmed(b))
         /\ \A c \in Ids : Trimmed(b).entries[c] \in {b.entries[c], NoEntry}
<1> DEFINE es == [c \in Ids |-> IF c \in Forgotten(b) THEN NoEntry ELSE b.entries[c]]
<1>1. es \in [Ids -> Entry \cup {NoEntry}]
  BY DEF BusState
<1>2. Trimmed(b) = [b EXCEPT !.entries = es]
  BY DEF Trimmed
<1>3. \A c \in Ids : es[c] \in {b.entries[c], NoEntry}
  OBVIOUS
<1> HIDE DEF es
<1> QED
  BY <1>1, <1>2, <1>3, MapEntriesType DEF Keeps

\* A new result of an unfinished command (bus.go Record, dropOldestNormalLocked).
LEMMA SetResultKeeps ==
  ASSUME NEW b \in BusState, NEW c \in Pending(b),
         NEW status \in Statuses, NEW code \in Codes
  PROVE  Keeps(b, SetResult(b, c, status, code))
<1>1. c \in Ids /\ c \in Live(b) /\ b.entries[c] \in Entry
  BY EntryType DEF Pending, Live
<1> DEFINE e  == [b.entries[c] EXCEPT !.status = status, !.code = code]
           es == [b.entries EXCEPT ![c] = e]
<1>2. e \in Entry /\ e.seq = b.entries[c].seq
  BY <1>1 DEF Entry
<1>3. SetResult(b, c, status, code) = [b EXCEPT !.entries = es]
  BY <1>1 DEF SetResult, BusState
<1> HIDE DEF e
<1>4. /\ es \in [Ids -> Entry \cup {NoEntry}]
      /\ es[c] = e
      /\ \A d \in Ids : d # c => es[d] = b.entries[d]
  BY <1>1, <1>2 DEF BusState
<1> HIDE DEF es
<1> QED
  BY <1>1, <1>2, <1>3, <1>4, MapEntriesType, EntryType DEF Keeps, Live

\* Expiry gives unfinished commands a final result (bus.go expireLocked).
LEMMA ExpiredKeeps ==
  ASSUME NEW b \in BusState
  PROVE  /\ Keeps(b, Expired(b))
         /\ \A c \in Ids :
              \/ Expired(b).entries[c] = b.entries[c]
              \/ /\ c \in Pending(b) /\ TimesOut(b, c)
                 /\ Expired(b).entries[c] = TimedOut(b.entries[c])
<1> DEFINE es == [c \in Ids |-> IF c \in Pending(b) /\ TimesOut(b, c)
                                  THEN TimedOut(b.entries[c]) ELSE b.entries[c]]
<1>1. \A e \in Entry : TimedOut(e) \in Entry /\ TimedOut(e).seq = e.seq
  BY TimedOutIs
<1>2. \A c \in Pending(b) : b.entries[c] \in Entry
  BY EntryType DEF Pending, Live
<1>3. es \in [Ids -> Entry \cup {NoEntry}]
  BY <1>1, <1>2 DEF BusState
<1>4. Expired(b) = [b EXCEPT !.entries = es]
  BY DEF Expired
<1>5. \A c \in Ids : \/ es[c] = b.entries[c]
                     \/ /\ c \in Pending(b) /\ TimesOut(b, c)
                        /\ es[c] = TimedOut(b.entries[c])
  OBVIOUS
<1> HIDE DEF es
<1> QED
  BY <1>1, <1>2, <1>3, <1>4, <1>5, MapEntriesType, EntryType DEF Keeps, Live

\* Keeping twice is keeping.
LEMMA KeepsTwice ==
  ASSUME NEW b1 \in BusState, NEW b2, NEW b3, Keeps(b1, b2), Keeps(b2, b3)
  PROVE  Keeps(b1, b3)
BY DEF Keeps, Pending, Live

\* A kept queue is as sound as before.
LEMMA KeepsSound ==
  ASSUME NEW b, NEW b2, Sound(b), Keeps(b, b2)
  PROVE  Sound(b2)
<1>1. \A c \in Live(b2) : c \in Live(b) /\ b2.entries[c].seq = b.entries[c].seq
  BY DEF Keeps, Live, Pending
<1> QED
  BY <1>1 DEF Keeps, Sound, InOrder

\* The queue a publish appends to and trims is sound for one id more (bus.go
\* Publish).
LEMMA EnqueuedSound ==
  ASSUME NEW b, Sound(b), issued \in 0 .. MaxIssued, issued < MaxIssued,
         NEW device \in Devices, NEW kind \in Kinds
  PROVE  LET b2 == Enqueued(b, issued + 1, device, kind)
         IN  /\ b2 \in BusState
             /\ b2.sequence = b.sequence + 1
             /\ b2.sequence <= issued + 1
             /\ \A c \in Live(b2) : c <= issued + 1
             /\ InOrder(b2)
             /\ \A c \in Ids : c <= issued => b2.entries[c] \in {b.entries[c], NoEntry}
<1> DEFINE c0 == issued + 1
           e  == [device |-> device, kind |-> kind, seq |-> b.sequence + 1,
                  status |-> "published", code |-> ""]
           es == [b.entries EXCEPT ![c0] = e]
           b1 == [sequence |-> b.sequence + 1, entries |-> es]
           b2 == Trimmed(b1)
<1>1. b \in BusState /\ b.sequence \in Nat /\ b.sequence + 1 \in Seqs /\ c0 \in Ids
  BY ProtocolAssumption DEF Sound, BusState, Seqs, Ids
<1>2. e \in Entry /\ e.seq = b.sequence + 1
  BY <1>1 DEF Entry, Statuses, Codes
<1> HIDE DEF e
<1>3. /\ es \in [Ids -> Entry \cup {NoEntry}]
      /\ es[c0] = e
      /\ \A c \in Ids : c # c0 => es[c] = b.entries[c]
  BY <1>1, <1>2 DEF BusState
<1>4. b1 \in BusState /\ b1.sequence = b.sequence + 1 /\ b1.entries = es
  BY <1>1, <1>3 DEF BusState, Seqs
<1> HIDE DEF es
<1>5. Enqueued(b, issued + 1, device, kind) = b2
  BY DEF Enqueued, e, es
<1> HIDE DEF b1
<1>6. /\ b2 \in BusState
      /\ b2.sequence = b1.sequence
      /\ \A c \in Ids : b2.entries[c] \in {b1.entries[c], NoEntry}
  BY <1>4, TrimmedKeeps DEF Keeps
<1> HIDE DEF b2
<1>7. \A c \in Live(b2) : \/ c = c0 /\ b2.entries[c].seq = b.sequence + 1
                          \/ c # c0 /\ c \in Live(b) /\ b2.entries[c] = b.entries[c]
  BY <1>2, <1>3, <1>4, <1>6 DEF Live
<1>8. \A c \in Live(b) : c <= issued /\ b.entries[c].seq \in Nat
                         /\ b.entries[c].seq <= b.sequence
  BY <1>1, EntryType DEF Sound, InOrder, Entry, Seqs, Live
<1>9. b2.sequence <= issued + 1
  BY <1>1, <1>4, <1>6 DEF Sound
<1>10. \A c \in Live(b2) : c <= issued + 1
  BY <1>7, <1>8 DEF Live, Ids
<1>11. InOrder(b2)
  <2>1. \A c \in Live(b2) : b2.entries[c].seq <= b2.sequence
    BY <1>1, <1>4, <1>6, <1>7, <1>8
  <2>2. ASSUME NEW c \in Live(b2), NEW d \in Live(b2), c < d
        PROVE  b2.entries[c].seq < b2.entries[d].seq
    <3>1. c # c0
      BY <1>7, <1>8, <1>10, <2>2 DEF Live, Ids
    <3>2. CASE d = c0
      <4>1. b2.entries[c].seq \in Nat /\ b2.entries[c].seq <= b.sequence
        BY <1>7, <1>8, <3>1
      <4>2. b2.entries[d].seq = b.sequence + 1
        BY <1>7, <3>2
      <4> QED
        BY <1>1, <4>1, <4>2
    <3>3. CASE d # c0
      BY <1>7, <2>2, <3>1, <3>3 DEF Sound, InOrder
    <3> QED
      BY <3>2, <3>3
  <2> QED
    BY <2>1, <2>2 DEF InOrder
<1>12. \A c \in Ids : c <= issued => b2.entries[c] \in {b.entries[c], NoEntry}
  BY <1>3, <1>4, <1>6 DEF Ids
<1> QED
  BY <1>4, <1>5, <1>6, <1>9, <1>10, <1>11, <1>12

-----------------------------------------------------------------------------
(* What a step does to memory and file. *)

\* No step changes a final result that a caller may have seen, but for a start that
\* takes back a timeout that was not written.
FinalsStand ==
  \A c \in Finals(bus) :
    \/ bus'.entries[c] \in {bus.entries[c], NoEntry}
    \/ Unwritten(c) /\ bus' = busFile /\ UNCHANGED busFile

\* A final entry of memory is one of the file, or a timeout that was not written.
LEMMA MemoryFinals ==
  ASSUME BusInv, NEW c \in Finals(bus)
  PROVE  bus.entries[c] = busFile.entries[c] \/ Unwritten(c)
BY DEF BusInv, RestartKeepsAnswers, Unwritten, Finals, Live

\* Replacing the queue by one that keeps it, in memory and file or not at all.
LEMMA PersistKept ==
  ASSUME BusInv, NEW b, Keeps(bus, b), Persist(b), UNCHANGED <<issued, lapsed, overdue>>
  PROVE  BusInv' /\ FinalsStand
<1>1. CASE bus' = b /\ busFile' = b
  <2>1. Sound(b)
    BY KeepsSound DEF BusInv
  <2>2. Sound(bus') /\ Sound(busFile') /\ issued' = issued
    BY <1>1, <2>1
  <2>3. BusInv'
    BY <1>1, <2>1, <2>2 DEF BusInv, Sound, RestartKeepsAnswers, Unwritten
  <2>4. \A c \in Finals(bus) : b.entries[c] \in {bus.entries[c], NoEntry}
    BY DEF Keeps, Finals, Pending, Live
  <2> QED
    BY <1>1, <2>3, <2>4 DEF FinalsStand
<1>2. CASE UNCHANGED <<bus, busFile>>
  BY <1>2
  DEF BusInv, Sound, RestartKeepsAnswers, Unwritten, InOrder, Live, Pending, TimesOut, FinalsStand
<1> QED
  BY <1>1, <1>2 DEF Persist

\* Publish (bus.go Publish).
LEMMA PublishStep ==
  ASSUME BusInv, NEW device \in Devices, NEW kind \in Kinds, Publish(device, kind)
  PROVE  BusInv' /\ FinalsStand
<1> DEFINE Next(b) == Enqueued(b, issued + 1, device, kind)
<1>1. issued < MaxIssued /\ issued \in 0 .. MaxIssued /\ issued \in Nat
  BY ProtocolAssumption DEF Publish, BusInv
<1>2. PICK b : /\ Keeps(bus, b)
               /\ Persist(Next(b))
  <2>1. CASE Persist(Next(bus))
    BY <2>1 DEF Keeps, BusInv, Sound
  <2>2. ASSUME NEW v \in Droppable(bus), Persist(Next(SetResult(bus, v, "failed", "overflow")))
        PROVE  \E b : Keeps(bus, b) /\ Persist(Next(b))
    <3>1. v \in Pending(bus)
      BY DEF Droppable, Pending, Final, FinalStatuses
    <3>2. "failed" \in Statuses /\ "overflow" \in Codes
      BY DEF Statuses, FinalStatuses, Codes
    <3>3. Keeps(bus, SetResult(bus, v, "failed", "overflow"))
      BY <3>1, <3>2, SetResultKeeps DEF BusInv, Sound
    <3> QED
      BY <2>2, <3>3
  <2> QED
    BY <2>1, <2>2 DEF Publish
<1>3. Sound(b)
  BY <1>2, KeepsSound DEF BusInv
<1> DEFINE b2 == Next(b)
<1>4. /\ b2 \in BusState
      /\ b2.sequence = b.sequence + 1
      /\ b2.sequence <= issued + 1
      /\ \A c \in Live(b2) : c <= issued + 1
      /\ InOrder(b2)
      /\ \A c \in Ids : c <= issued => b2.entries[c] \in {b.entries[c], NoEntry}
  BY <1>1, <1>3, EnqueuedSound
<1>5. Persist(b2)
  BY <1>2
<1> HIDE DEF b2
<1>6. lapsed' = lapsed /\ overdue' = overdue /\ issued' = IF bus' = bus THEN issued ELSE issued + 1
  BY DEF Publish
<1>7. CASE bus' = b2 /\ busFile' = b2
  <2>1. bus' # bus
    <3>1. b.sequence = bus.sequence /\ bus.sequence \in Nat
      BY <1>2, ProtocolAssumption DEF Keeps, BusInv, Sound, BusState
    <3> QED
      BY <1>4, <1>7, <3>1
  <2>2. issued' = issued + 1 /\ issued' \in 0 .. MaxIssued
    <3>1. issued' = issued + 1
      BY <1>6, <2>1, Zenon
    <3> QED
      BY <1>1, <3>1, ProtocolAssumption
  <2>3. Sound(bus)' /\ Sound(busFile)'
    BY <1>4, <1>7, <2>2 DEF Sound, Live, InOrder
  <2>4. BusInv'
    BY <1>6, <1>7, <2>2, <2>3 DEF BusInv, RestartKeepsAnswers, Unwritten
  <2>5. ASSUME NEW c \in Finals(bus)
        PROVE  bus'.entries[c] \in {bus.entries[c], NoEntry}
    <3>1. c \in Ids /\ c <= issued
      BY DEF BusInv, Sound, Finals, Live
    <3>2. b.entries[c] \in {bus.entries[c], NoEntry}
      BY <1>2, <3>1 DEF Keeps, Finals, Pending, Live
    <3> QED
      BY <1>4, <1>7, <3>1, <3>2
  <2> QED
    BY <2>4, <2>5 DEF FinalsStand
<1>8. CASE UNCHANGED <<bus, busFile>>
  <2>1. issued' = issued
    BY <1>6, <1>8
  <2> QED
    BY <1>6, <1>8, <2>1
    DEF BusInv, Sound, RestartKeepsAnswers, Unwritten, InOrder, Live, Pending, TimesOut, FinalsStand
<1> QED
  BY <1>5, <1>7, <1>8 DEF Persist

\* Nothing happens to the queue, and the clock may have advanced.
LEMMA ClockStep ==
  ASSUME BusInv, UNCHANGED <<bus, busFile, issued>>,
         lapsed \subseteq lapsed', overdue \subseteq overdue',
         lapsed' \subseteq Ids, overdue' \subseteq Ids
  PROVE  BusInv' /\ FinalsStand
<1>1. \A c : TimesOut(busFile, c) => TimesOut(busFile, c)'
  BY DEF TimesOut
<1>2. RestartKeepsAnswers'
  BY <1>1 DEF BusInv, RestartKeepsAnswers, Unwritten, Pending, Live, TimedOut
<1> QED
  BY <1>2 DEF BusInv, Sound, InOrder, Live, FinalsStand

\* Pending (bus.go Pending).
LEMMA PollStep ==
  ASSUME BusInv, PollPending
  PROVE  BusInv' /\ FinalsStand
<1>1. UNCHANGED <<issued, lapsed, overdue>>
  BY DEF PollPending
<1>2. CASE UNCHANGED <<bus, busFile>>
  BY <1>1, <1>2, ClockStep DEF BusInv
<1>3. CASE Persist(Expired(bus))
  BY <1>1, <1>3, ExpiredKeeps, PersistKept DEF BusInv, Sound, FinalsStand
<1> QED
  BY <1>2, <1>3 DEF PollPending

\* Record (bus.go Record).
LEMMA RecordStep ==
  ASSUME BusInv, NEW device, NEW c \in Ids, NEW seq, NEW status \in Statuses, NEW code \in Codes,
         Record(device, c, seq, status, code)
  PROVE  BusInv' /\ FinalsStand
<1>1. UNCHANGED <<issued, lapsed, overdue>>
  BY DEF Record
<1>2. CASE UNCHANGED <<bus, busFile>>
  BY <1>1, <1>2, ClockStep DEF BusInv
<1>3. CASE Recordable(device, c, seq) /\ Persist(Trimmed(SetResult(bus, c, status, code)))
  <2> DEFINE b == SetResult(bus, c, status, code)
  <2>1. c \in Pending(bus) /\ bus \in BusState
    BY <1>3 DEF Recordable, Pending, BusInv, Sound
  <2>2. Keeps(bus, b)
    BY <2>1, SetResultKeeps
  <2>3. Keeps(b, Trimmed(b))
    BY <2>2, TrimmedKeeps DEF Keeps
  <2>4. Keeps(bus, Trimmed(b))
    BY <2>1, <2>2, <2>3, KeepsTwice
  <2> QED
    BY <1>1, <1>3, <2>4, PersistKept DEF FinalsStand
<1> QED
  BY <1>2, <1>3 DEF Record

\* Get (bus.go Get).
LEMMA GetStep ==
  ASSUME BusInv, NEW c \in Ids, Get(c)
  PROVE  BusInv' /\ FinalsStand
<1>1. UNCHANGED <<issued, lapsed, overdue>>
  BY DEF Get
<1>2. CASE UNCHANGED <<bus, busFile>>
  BY <1>1, <1>2, ClockStep DEF BusInv
<1>3. CASE Persist(Expired(bus))
  BY <1>1, <1>3, ExpiredKeeps, PersistKept DEF BusInv, Sound, FinalsStand
<1>4. CASE bus' = Expired(bus) /\ UNCHANGED busFile
  <2>1. Keeps(bus, Expired(bus))
    BY ExpiredKeeps DEF BusInv, Sound
  <2>2. Sound(bus)' /\ Sound(busFile)'
    <3>1. Sound(Expired(bus))
      BY <2>1, KeepsSound DEF BusInv
    <3> QED
      BY <1>1, <1>4, <3>1 DEF BusInv, Sound, Live, InOrder
  <2>3. ASSUME NEW d \in Ids
        PROVE  \/ busFile.entries[d] = bus'.entries[d]
               \/ /\ d \in Pending(busFile)
                  /\ TimesOut(busFile, d)
                  /\ bus'.entries[d] = TimedOut(busFile.entries[d])
    <3>1. CASE bus'.entries[d] = bus.entries[d]
      BY <3>1 DEF BusInv, RestartKeepsAnswers, Unwritten
    <3>2. CASE /\ d \in Pending(bus) /\ TimesOut(bus, d)
               /\ bus'.entries[d] = TimedOut(bus.entries[d])
      <4>1. CASE busFile.entries[d] = bus.entries[d]
        BY <3>2, <4>1 DEF Pending, Live, TimesOut
      <4>2. CASE d \in Pending(busFile) /\ bus.entries[d] = TimedOut(busFile.entries[d])
        <5>1. busFile.entries[d] \in Entry
          BY <4>2, EntryType DEF BusInv, Sound, Pending, Live
        <5>2. Final(bus.entries[d].status)
          BY <4>2, <5>1 DEF TimedOut, Entry, Final, FinalStatuses
        <5> QED
          BY <3>2, <5>2 DEF Pending
      <4> QED
        BY <4>1, <4>2 DEF BusInv, RestartKeepsAnswers, Unwritten
    <3> QED
      BY <1>4, <3>1, <3>2, ExpiredKeeps DEF BusInv, Sound
  <2>4. RestartKeepsAnswers'
    BY <1>1, <1>4, <2>1, <2>3
    DEF Keeps, BusInv, RestartKeepsAnswers, Unwritten, Pending, Live, TimesOut
  <2>5. FinalsStand
    BY <1>4, <2>1 DEF FinalsStand, Keeps, Finals, Pending, Live
  <2> QED
    BY <1>1, <2>2, <2>4, <2>5 DEF BusInv
<1> QED
  BY <1>2, <1>3, <1>4 DEF Get

\* The queue of a first start.
LEMMA EmptySound ==
  ASSUME issued \in Nat
  PROVE  Sound(EmptyBus)
<1>1. Live(EmptyBus) = {}
  BY DEF Live, EmptyBus
<1>2. EmptyBus \in BusState
  BY ProtocolAssumption DEF EmptyBus, BusState
<1> QED
  BY <1>1, <1>2 DEF Sound, InOrder, EmptyBus

\* Open (bus.go Open).
LEMMA ReopenStep ==
  ASSUME BusInv, Reopen
  PROVE  BusInv' /\ FinalsStand
<1>1. UNCHANGED <<issued, lapsed, overdue>>
  BY DEF Reopen
<1>2. PICK b : Sound(b) /\ bus' = b /\ busFile' = b /\ b \in {busFile, EmptyBus}
  <2>1. issued \in Nat
    BY ProtocolAssumption DEF BusInv
  <2> QED
    BY <2>1, EmptySound DEF Reopen, BusInv
<1>3. Sound(bus)' /\ Sound(busFile)'
  BY <1>1, <1>2 DEF Sound, Live, InOrder
<1>4. RestartKeepsAnswers'
  BY <1>2 DEF RestartKeepsAnswers, Unwritten
<1>5. FinalsStand
  <2>1. \A c \in Ids : EmptyBus.entries[c] = NoEntry
    BY DEF EmptyBus
  <2> QED
    BY <1>2, <2>1, MemoryFinals DEF FinalsStand, Finals, Live, Reopen
<1> QED
  BY <1>1, <1>3, <1>4, <1>5 DEF BusInv

-----------------------------------------------------------------------------
(* The theorems. *)

\* The results a device may report are results.
LEMMA ReportType == \A r \in Reports : r[1] \in Statuses /\ r[2] \in Codes
<1>1. \A status \in {"accepted", "executed", "expired", "rejected", "failed"},
        code \in {"", "expired", "out_of_order", "wrong_target", "issued_in_future",
                  "interrupted", "state_unavailable", "unsupported_capability"} :
        LET r == <<status, code>> IN r[1] \in Statuses /\ r[2] \in Codes
  BY DEF Statuses, FinalStatuses, Codes
<1> QED
  BY <1>1 DEF Reports

\* Every step keeps the invariant and the final results.
LEMMA BusStep ==
  ASSUME BusInv, [BusNext]_busVars
  PROVE  BusInv' /\ FinalsStand
<1>1. ASSUME NEW d \in Devices, NEW k \in Kinds, Publish(d, k)
      PROVE  BusInv' /\ FinalsStand
  BY <1>1, PublishStep
<1>2. CASE PollPending
  BY <1>2, PollStep
<1>3. ASSUME NEW d \in Devices, NEW c \in Ids, NEW s \in Seqs, NEW r \in Reports,
             Record(d, c, s, r[1], r[2])
      PROVE  BusInv' /\ FinalsStand
  BY <1>3, ReportType, RecordStep
<1>4. ASSUME NEW c \in Ids, Get(c)
      PROVE  BusInv' /\ FinalsStand
  BY <1>4, GetStep
<1>5. CASE Reopen
  BY <1>5, ReopenStep
<1>6. ASSUME NEW c \in Ids, Lapse(c)
      PROVE  BusInv' /\ FinalsStand
  BY <1>6, ClockStep DEF Lapse, BusInv
<1>7. ASSUME NEW c \in Ids, RunOut(c)
      PROVE  BusInv' /\ FinalsStand
  BY <1>7, ClockStep DEF RunOut, BusInv
<1>8. CASE UNCHANGED busVars
  BY <1>8, ClockStep DEF busVars, BusInv
<1> QED
  BY <1>1, <1>2, <1>3, <1>4, <1>5, <1>6, <1>7, <1>8 DEF BusNext

LEMMA BusInvariance == BusSpec => []BusInv
<1>1. BusInit => BusInv
  BY EmptySound, ProtocolAssumption DEF BusInit, BusInv, RestartKeepsAnswers, Unwritten
<1>2. BusInv /\ [BusNext]_busVars => BusInv'
  BY BusStep
<1> QED
  BY <1>1, <1>2, PTL DEF BusSpec

\* The queue, its file and the clock sets keep their types, whatever fails.
THEOREM BusTypeCorrect == BusSpec => []BusTypeOK
<1>1. BusInv => BusTypeOK
  BY DEF BusInv, Sound, BusTypeOK
<1> QED
  BY <1>1, BusInvariance, PTL

\* The queue and its file hand commands out in the order of their sequence
\* numbers, also after failed writes and restarts, and after a start that had to
\* move an unreadable file aside (bus.go Publish, Open).
THEOREM QueueInSequence == BusSpec => []SequenceFollowsQueue
<1>1. BusInv => SequenceFollowsQueue
  BY DEF BusInv, Sound, SequenceFollowsQueue
<1> QED
  BY <1>1, BusInvariance, PTL

\* Memory and file differ only by timeouts that were not written, and so a restart
\* takes back these and nothing else (bus.go rollbacks, Get).
THEOREM RestartTakesBackTimeouts == BusSpec => []RestartKeepsAnswers
<1>1. BusInv => RestartKeepsAnswers
  BY DEF BusInv
<1> QED
  BY <1>1, BusInvariance, PTL

\* No report, expiry, overflow or failed write changes a final result that a caller
\* can see, and a restart only a timeout that was not written (bus.go Record, Get).
THEOREM FinalResultsAreFinal == BusSpec => FinalResultsStand
<1>1. BusInv /\ [BusNext]_busVars =>
        [\A c \in Finals(bus) :
           \/ bus'.entries[c] \in {bus.entries[c], NoEntry}
           \/ Unwritten(c) /\ bus' = busFile /\ UNCHANGED busFile]_busVars
  BY BusStep DEF FinalsStand
<1> QED
  BY <1>1, BusInvariance, PTL DEF BusSpec, FinalResultsStand

-----------------------------------------------------------------------------
(* The size of the queue. *)

LEMMA IdSets ==
  ASSUME NEW S \in SUBSET Ids
  PROVE  IsFiniteSet(S) /\ Cardinality(S) \in Nat
<1>1. IsFiniteSet(Ids)
  BY ProtocolAssumption, FS_Interval DEF Ids
<1> QED
  BY <1>1, FS_Subset, FS_CardinalityType

\* The first few from the end of a set of ids are a few.
LEMMA NewestAreFew ==
  ASSUME NEW F \in SUBSET Ids, NEW n \in Nat
  PROVE  Cardinality({c \in F : ~ Cardinality({d \in F : d > c}) >= n}) <= n
<1> DEFINE newer(c) == {d \in F : d > c}
           kept     == {c \in F : ~ Cardinality(newer(c)) >= n}
           less     == OpToRel(<, Nat)
<1>1. kept \in SUBSET Ids /\ kept \subseteq Nat
  <2>1. Ids \subseteq Nat /\ kept \subseteq F
    BY DEF Ids
  <2> HIDE DEF kept
  <2> QED
    BY <2>1
<1>2. CASE kept = {}
  <2>1. Cardinality(kept) = 0
    <3> HIDE DEF kept
    <3> QED
      BY <1>2, FS_EmptySet
  <2> QED
    BY <2>1
<1>3. CASE kept # {}
  <2>1. IsWellFoundedOn(less, Nat)
    BY NatLessThanWellFounded
  <2>2. PICK c \in kept : \A d \in kept : <<d, c>> \notin less
    <3> HIDE DEF kept, less
    <3> QED
      BY <1>1, <1>3, <2>1, WFMin
  <2>3. \A d \in kept : ~ (d < c)
    BY <1>1, <2>2 DEF OpToRel
  <2>4. kept \subseteq newer(c) \cup {c}
    BY <1>1, <2>3
  <2>5. newer(c) \in SUBSET Ids /\ c \notin newer(c)
    <3>1. c \in Nat /\ ~ (c > c)
      <4>1. c \in kept /\ kept \subseteq Nat
        BY <1>1, <2>2
      <4> HIDE DEF kept
      <4> QED
        BY <4>1
    <3>2. newer(c) \subseteq F
      OBVIOUS
    <3> QED
      BY <3>1, <3>2
  <2>6. IsFiniteSet(newer(c)) /\ Cardinality(newer(c)) \in Nat
    BY <2>5, IdSets
  <2>7. ~ Cardinality(newer(c)) >= n
    BY <2>2
  <2> HIDE DEF newer, kept
  <2>8. /\ IsFiniteSet(newer(c) \cup {c})
        /\ Cardinality(newer(c) \cup {c}) = Cardinality(newer(c)) + 1
    BY <2>5, <2>6, FS_AddElement
  <2>9. Cardinality(kept) <= Cardinality(newer(c) \cup {c})
    BY <2>4, <2>8, FS_Subset
  <2>10. Cardinality(kept) \in Nat
    BY <1>1, IdSets
  <2> QED
    BY <2>6, <2>7, <2>8, <2>9, <2>10 DEF kept, newer
<1> QED
  BY <1>2, <1>3

\* Trimming takes finished entries only, and leaves few of them (bus.go trimLocked).
LEMMA TrimmedParts ==
  ASSUME NEW b \in BusState
  PROVE  /\ Pending(Trimmed(b)) = Pending(b)
         /\ Finals(Trimmed(b)) = Finals(b) \ Forgotten(b)
<1> DEFINE es == [c \in Ids |-> IF c \in Forgotten(b) THEN NoEntry ELSE b.entries[c]]
<1>1. es \in [Ids -> Entry \cup {NoEntry}]
  BY DEF BusState
<1>2. Trimmed(b) = [b EXCEPT !.entries = es]
  BY DEF Trimmed
<1>3. Trimmed(b).entries = es
  BY <1>1, <1>2, MapEntriesType
<1>4. \A c \in Ids : es[c] = IF c \in Forgotten(b) THEN NoEntry ELSE b.entries[c]
  OBVIOUS
<1>5. Forgotten(b) \subseteq Finals(b) /\ Pending(b) \cap Finals(b) = {}
  BY DEF Forgotten, Pending, Finals
<1> HIDE DEF es
<1> QED
  BY <1>3, <1>4, <1>5 DEF Pending, Finals, Live

LEMMA TrimmedBounded ==
  ASSUME NEW b \in BusState, Cardinality(Pending(b)) <= MaxPending
  PROVE  Bounded(Trimmed(b))
<1> DEFINE b2 == Trimmed(b)
<1>1. Pending(b2) = Pending(b)
  BY TrimmedParts
<1>2. Cardinality(Finals(b2)) <= MaxResults
  <2>1. Finals(b) \in SUBSET Ids
    BY DEF Finals, Live
  <2>2. Finals(b2) =
          {c \in Finals(b) : ~ Cardinality({d \in Finals(b) : d > c}) >= MaxResults}
    BY TrimmedParts DEF Forgotten
  <2> QED
    BY <2>1, <2>2, NewestAreFew, BusAssumption
<1> HIDE DEF b2
<1>3. Live(b2) = Pending(b2) \cup Finals(b2)
  BY DEF Pending, Finals
<1>4. /\ Pending(b2) \in SUBSET Ids /\ Finals(b2) \in SUBSET Ids
      /\ Pending(b2) \cap Finals(b2) \in SUBSET Ids
  BY DEF Pending, Finals, Live
<1>5. /\ Cardinality(Pending(b2)) \in Nat /\ Cardinality(Finals(b2)) \in Nat
      /\ Cardinality(Pending(b2) \cap Finals(b2)) \in Nat
      /\ IsFiniteSet(Pending(b2)) /\ IsFiniteSet(Finals(b2))
  BY <1>4, IdSets
<1>6. Cardinality(Live(b2)) = Cardinality(Pending(b2)) + Cardinality(Finals(b2))
                                - Cardinality(Pending(b2) \cap Finals(b2))
  BY <1>3, <1>5, FS_Union
<1> QED
  BY <1>1, <1>2, <1>5, <1>6, BusAssumption DEF Bounded, b2

\* What is bounded stays so when entries go or are finished.
LEMMA FewerBounded ==
  ASSUME NEW b, NEW b2, Bounded(b), Live(b2) \subseteq Live(b), Pending(b2) \subseteq Pending(b)
  PROVE  Bounded(b2)
<1>1. /\ IsFiniteSet(Live(b)) /\ IsFiniteSet(Pending(b))
      /\ Cardinality(Live(b)) \in Nat /\ Cardinality(Pending(b)) \in Nat
      /\ Cardinality(Live(b2)) \in Nat /\ Cardinality(Pending(b2)) \in Nat
  BY IdSets DEF Live, Pending
<1>2. Cardinality(Live(b2)) <= Cardinality(Live(b))
  BY <1>1, FS_Subset
<1>3. Cardinality(Pending(b2)) <= Cardinality(Pending(b))
  BY <1>1, FS_Subset
<1> QED
  BY <1>1, <1>2, <1>3, BusAssumption DEF Bounded

LEMMA ExpiredBounded ==
  ASSUME NEW b \in BusState, Bounded(b)
  PROVE  Bounded(Expired(b))
<1>1. Keeps(b, Expired(b))
  BY ExpiredKeeps
<1>2. Live(Expired(b)) \subseteq Live(b)
  BY <1>1 DEF Keeps, Live, Pending
<1>3. Pending(Expired(b)) \subseteq Pending(b)
  BY <1>1 DEF Keeps, Live, Pending
<1> QED
  BY <1>2, <1>3, FewerBounded

\* A result makes no command unfinished.
LEMMA SetResultParts ==
  ASSUME NEW b \in BusState, NEW c \in Pending(b),
         NEW status \in Statuses, NEW code \in Codes
  PROVE  LET b2 == SetResult(b, c, status, code)
         IN  /\ b2 \in BusState
             /\ Pending(b2) \subseteq Pending(b)
             /\ Final(status) => c \notin Pending(b2)
<1> DEFINE b2 == SetResult(b, c, status, code)
<1>1. Keeps(b, b2)
  BY SetResultKeeps
<1>2. b2 \in BusState /\ Pending(b2) \subseteq Pending(b)
  BY <1>1 DEF Keeps, Pending, Live
<1>3. b2.entries[c].status = status
  <2>1. c \in Ids /\ b.entries[c] \in Entry
    BY EntryType DEF Pending, Live
  <2> DEFINE e == [b.entries[c] EXCEPT !.status = status, !.code = code]
  <2>2. e.status = status
    BY <2>1 DEF Entry
  <2>3. b2 = [b EXCEPT !.entries = [b.entries EXCEPT ![c] = e]]
    BY <2>1 DEF SetResult, BusState
  <2>4. b2.entries[c] = e
    BY <2>1, <2>3 DEF BusState
  <2> QED
    BY <2>2, <2>4
<1> QED
  BY <1>2, <1>3 DEF Pending

LEMMA PersistBounded ==
  ASSUME NeverOutgrowsItsFile, NEW b, Bounded(b), Persist(b)
  PROVE  NeverOutgrowsItsFile'
BY DEF Persist, NeverOutgrowsItsFile, Bounded, Pending, Live

\* A publish makes room before it adds (bus.go Publish).
LEMMA EnqueuedBounded ==
  ASSUME NEW b \in BusState, issued \in 0 .. MaxIssued, issued < MaxIssued,
         b.sequence <= issued,
         NEW device \in Devices, NEW kind \in Kinds,
         Cardinality(Pending(b)) < MaxPending
  PROVE  Bounded(Enqueued(b, issued + 1, device, kind))
<1> DEFINE c0 == issued + 1
           e  == [device |-> device, kind |-> kind, seq |-> b.sequence + 1,
                  status |-> "published", code |-> ""]
           es == [b.entries EXCEPT ![c0] = e]
           b1 == [sequence |-> b.sequence + 1, entries |-> es]
<1>1. b.sequence + 1 \in Seqs /\ c0 \in Ids
  BY ProtocolAssumption DEF BusState, Seqs, Ids
<1>2. e \in Entry
  BY <1>1 DEF Entry, Statuses, Codes
<1> HIDE DEF e
<1>3. /\ es \in [Ids -> Entry \cup {NoEntry}]
      /\ \A c \in Ids : c # c0 => es[c] = b.entries[c]
  BY <1>1, <1>2 DEF BusState
<1>4. b1 \in BusState /\ b1.entries = es
  BY <1>1, <1>3 DEF BusState, Seqs
<1>5. Enqueued(b, issued + 1, device, kind) = Trimmed(b1)
  BY DEF Enqueued, e
<1> HIDE DEF b1, es, c0
<1>6. Pending(b1) \subseteq Pending(b) \cup {c0}
  BY <1>3, <1>4 DEF Pending, Live
<1>7. /\ IsFiniteSet(Pending(b)) /\ Cardinality(Pending(b)) \in Nat
      /\ Cardinality(Pending(b1)) \in Nat
  BY IdSets DEF Pending, Live
<1>8. /\ IsFiniteSet(Pending(b) \cup {c0})
      /\ Cardinality(Pending(b) \cup {c0}) <= Cardinality(Pending(b)) + 1
      /\ Cardinality(Pending(b) \cup {c0}) \in Nat
  BY <1>7, FS_AddElement
<1>9. Cardinality(Pending(b1)) <= Cardinality(Pending(b) \cup {c0})
  BY <1>6, <1>8, FS_Subset
<1>10. Cardinality(Pending(b1)) <= MaxPending
  BY <1>7, <1>8, <1>9, BusAssumption
<1> QED
  BY <1>4, <1>5, <1>10, TrimmedBounded

LEMMA PublishBounded ==
  ASSUME BusInv, NeverOutgrowsItsFile, NEW device \in Devices, NEW kind \in Kinds,
         Publish(device, kind)
  PROVE  NeverOutgrowsItsFile'
<1>1. issued < MaxIssued /\ issued \in 0 .. MaxIssued /\ bus \in BusState /\ bus.sequence <= issued
  BY DEF Publish, BusInv, Sound
<1>2. CASE /\ Cardinality(Pending(bus)) < MaxPending
           /\ Persist(Enqueued(bus, issued + 1, device, kind))
  BY <1>1, <1>2, EnqueuedBounded, PersistBounded
<1>3. ASSUME NEW v \in Droppable(bus),
             Persist(Enqueued(SetResult(bus, v, "failed", "overflow"), issued + 1, device, kind))
      PROVE  NeverOutgrowsItsFile'
  <2> DEFINE b == SetResult(bus, v, "failed", "overflow")
  <2>1. v \in Pending(bus)
    BY DEF Droppable, Pending, Final, FinalStatuses
  <2>2. "failed" \in Statuses /\ "overflow" \in Codes /\ Final("failed")
    BY DEF Statuses, FinalStatuses, Codes, Final
  <2>3. b \in BusState /\ Pending(b) \subseteq Pending(bus) \ {v}
    BY <1>1, <2>1, <2>2, SetResultParts
  <2>4. b.sequence = bus.sequence
    BY <1>1, <2>1, <2>2, SetResultKeeps DEF Keeps
  <2> HIDE DEF b
  <2>5. /\ IsFiniteSet(Pending(bus)) /\ Cardinality(Pending(bus)) \in Nat
        /\ Cardinality(Pending(b)) \in Nat
    BY IdSets DEF Pending, Live
  <2>6. /\ IsFiniteSet(Pending(bus) \ {v})
        /\ Cardinality(Pending(bus) \ {v}) = Cardinality(Pending(bus)) - 1
    BY <2>1, <2>5, FS_RemoveElement
  <2>7. Cardinality(Pending(b)) <= Cardinality(Pending(bus) \ {v})
    BY <2>3, <2>6, FS_Subset
  <2>8. Cardinality(Pending(b)) < MaxPending
    BY <2>5, <2>6, <2>7, BusAssumption DEF NeverOutgrowsItsFile, Bounded
  <2>9. Bounded(Enqueued(b, issued + 1, device, kind))
    BY <1>1, <2>3, <2>4, <2>8, EnqueuedBounded
  <2> QED
    BY <1>3, <2>9, PersistBounded DEF b
<1> QED
  BY <1>2, <1>3 DEF Publish

LEMMA RecordBounded ==
  ASSUME BusInv, NeverOutgrowsItsFile, NEW device, NEW c \in Ids, NEW seq,
         NEW status \in Statuses, NEW code \in Codes, Record(device, c, seq, status, code)
  PROVE  NeverOutgrowsItsFile'
<1>1. CASE UNCHANGED <<bus, busFile>>
  BY <1>1 DEF NeverOutgrowsItsFile, Bounded, Pending, Live
<1>2. CASE Recordable(device, c, seq) /\ Persist(Trimmed(SetResult(bus, c, status, code)))
  <2> DEFINE b == SetResult(bus, c, status, code)
  <2>1. c \in Pending(bus) /\ bus \in BusState
    BY <1>2 DEF Recordable, Pending, BusInv, Sound
  <2>2. b \in BusState /\ Pending(b) \subseteq Pending(bus)
    BY <2>1, SetResultParts
  <2> HIDE DEF b
  <2>3. /\ IsFiniteSet(Pending(bus)) /\ Cardinality(Pending(bus)) \in Nat
        /\ Cardinality(Pending(b)) \in Nat
    BY IdSets DEF Pending, Live
  <2>4. Cardinality(Pending(b)) <= Cardinality(Pending(bus))
    BY <2>2, <2>3, FS_Subset
  <2>5. Cardinality(Pending(b)) <= MaxPending
    BY <2>3, <2>4, BusAssumption DEF NeverOutgrowsItsFile, Bounded
  <2>6. Bounded(Trimmed(b))
    BY <2>2, <2>5, TrimmedBounded
  <2> QED
    BY <1>2, <2>6, PersistBounded DEF b
<1> QED
  BY <1>1, <1>2 DEF Record

LEMMA EmptyBounded == Bounded(EmptyBus)
<1>1. Live(EmptyBus) = {} /\ Pending(EmptyBus) = {}
  BY DEF Live, Pending, EmptyBus
<1> QED
  BY <1>1, FS_EmptySet, BusAssumption DEF Bounded

LEMMA BoundedStep ==
  ASSUME BusInv, NeverOutgrowsItsFile, [BusNext]_busVars
  PROVE  NeverOutgrowsItsFile'
<1>1. Bounded(Expired(bus)) /\ Bounded(bus) /\ Bounded(busFile)
  BY ExpiredBounded DEF BusInv, Sound, NeverOutgrowsItsFile
<1>2. CASE UNCHANGED <<bus, busFile>>
  BY <1>2 DEF NeverOutgrowsItsFile, Bounded, Pending, Live
<1>3. ASSUME NEW d \in Devices, NEW k \in Kinds, Publish(d, k)
      PROVE  NeverOutgrowsItsFile'
  BY <1>3, PublishBounded
<1>4. CASE PollPending
  BY <1>1, <1>2, <1>4, PersistBounded DEF PollPending
<1>5. ASSUME NEW d \in Devices, NEW c \in Ids, NEW s \in Seqs, NEW r \in Reports,
             Record(d, c, s, r[1], r[2])
      PROVE  NeverOutgrowsItsFile'
  BY <1>5, ReportType, RecordBounded
<1>6. ASSUME bus' = Expired(bus), UNCHANGED busFile
      PROVE  NeverOutgrowsItsFile'
  BY <1>1, <1>6 DEF NeverOutgrowsItsFile, Bounded, Pending, Live
<1>7. ASSUME NEW c \in Ids, Get(c)
      PROVE  NeverOutgrowsItsFile'
  BY <1>1, <1>2, <1>6, <1>7, PersistBounded DEF Get
<1>8. CASE Reopen
  <2>1. PICK b : Bounded(b) /\ bus' = b /\ busFile' = b
    BY <1>1, <1>8, EmptyBounded DEF Reopen
  <2> QED
    BY <2>1 DEF NeverOutgrowsItsFile, Bounded, Pending, Live
<1>9. ASSUME NEW c \in Ids, Lapse(c) \/ RunOut(c)
      PROVE  NeverOutgrowsItsFile'
  BY <1>2, <1>9 DEF Lapse, RunOut
<1> QED
  BY <1>2, <1>3, <1>4, <1>5, <1>7, <1>8, <1>9 DEF BusNext, busVars

\* No file is ever written that the next start would move aside for its size, for any
\* limits, failed writes and restarts (bus.go Publish, trimLocked, Open).
THEOREM QueueFitsItsFile == BusSpec => []NeverOutgrowsItsFile
<1>1. BusInit => NeverOutgrowsItsFile
  BY EmptyBounded DEF BusInit, NeverOutgrowsItsFile
<1>2. BusInv /\ NeverOutgrowsItsFile /\ [BusNext]_busVars => NeverOutgrowsItsFile'
  BY BoundedStep
<1> QED
  BY <1>1, <1>2, BusInvariance, PTL DEF BusSpec

(***************************************************************************)
(* The controller of the display and its ledger.                           *)
(***************************************************************************)

-----------------------------------------------------------------------------
(* The records and the ledger. *)

\* A new record of a command is a ledger record (store.go record).
LEMMA NewRecordType ==
  ASSUME NEW cmd \in Command, NEW status \in Statuses, NEW code \in Codes
  PROVE  NewRecord(cmd, status, code) \in LedgerRecord
<1>1. NoSnapshot \in Snapshot
  BY DisplayAssumption DEF NoSnapshot, Snapshot
<1> QED
  BY <1>1 DEF NewRecord, LedgerRecord, Command

\* The record of an accepted command is a ledger record (store.go accept).
LEMMA AcceptedRecordType ==
  ASSUME NEW cmd \in Command, shown \in Snapshot
  PROVE  AcceptedRecord(cmd) \in LedgerRecord
<1>1. NewRecord(cmd, "accepted", "") \in LedgerRecord
  BY NewRecordType DEF Statuses, Codes
<1>2. NoSnapshot \in Snapshot
  BY DisplayAssumption DEF NoSnapshot, Snapshot
<1> QED
  BY <1>1, <1>2 DEF AcceptedRecord, LedgerRecord

\* Giving a record its final result keeps it a ledger record (store.go complete).
LEMMA CompletedRecordType ==
  ASSUME NEW r \in LedgerRecord, NEW status \in Statuses, NEW code \in Codes
  PROVE  /\ CompletedRecord(r, status, code) \in LedgerRecord
         /\ CompletedRecord(r, status, code).id = r.id
BY DEF CompletedRecord, LedgerRecord

\* A record is appended to a ledger and the ledger stays within the limit
\* (store.go appendLocked).
LEMMA AppendRecordType ==
  ASSUME NEW l \in Ledger, NEW r \in LedgerRecord
  PROVE  /\ AppendRecord(l, r) \in Ledger
         /\ AppendRecord(l, r).high = l.high
         /\ Len(AppendRecord(l, r).records) <= MaxRecords
<1> DEFINE rs == Append(l.records, r)
<1>1. rs \in Seq(LedgerRecord)
  BY DEF Ledger
<1>2. Newest(rs) \in Seq(LedgerRecord) /\ Len(Newest(rs)) <= MaxRecords
  <2>1. CASE Len(rs) <= MaxRecords
    BY <1>1, <2>1, DisplayAssumption DEF Newest
  <2>2. CASE Len(rs) > MaxRecords
    <3>1. Len(rs) \in Nat /\ MaxRecords \in Nat
      BY <1>1, DisplayAssumption
    <3>2. Len(rs) - MaxRecords + 1 \in 1 .. Len(rs)
      BY <3>1, <2>2, DisplayAssumption
    <3>3. SubSeq(rs, Len(rs) - MaxRecords + 1, Len(rs)) \in Seq(LedgerRecord)
      BY <1>1, <3>1, <3>2
    <3>4. Len(SubSeq(rs, Len(rs) - MaxRecords + 1, Len(rs))) = MaxRecords
      BY <1>1, <3>1, <3>2
    <3> QED
      BY <2>2, <3>1, <3>3, <3>4 DEF Newest
  <2> QED
    BY <1>1, <2>1, <2>2, DisplayAssumption
<1>3. AppendRecord(l, r) = [l EXCEPT !.records = Newest(rs)]
  BY DEF AppendRecord, Ledger
<1> QED
  BY <1>2, <1>3 DEF Ledger

\* Changing records in place keeps the ledger a ledger of the same length.
LEMMA MapRecordsType ==
  ASSUME NEW l \in Ledger, NEW rs \in [DOMAIN l.records -> LedgerRecord]
  PROVE  /\ [l EXCEPT !.records = rs] \in Ledger
         /\ [l EXCEPT !.records = rs].high = l.high
         /\ Len([l EXCEPT !.records = rs].records) = Len(l.records)
<1>1. PICK n \in Nat : l.records \in [1 .. n -> LedgerRecord]
  BY DEF Ledger
<1>2. rs \in [1 .. n -> LedgerRecord]
  BY <1>1
<1>3. rs \in Seq(LedgerRecord) /\ Len(rs) = n /\ Len(l.records) = n
  BY <1>1, <1>2 DEF Ledger
<1> QED
  BY <1>3 DEF Ledger

\* complete keeps the ledger a ledger (store.go complete).
LEMMA WithCompletedType ==
  ASSUME NEW l \in Ledger, NEW id, NEW status \in Statuses, NEW code \in Codes
  PROVE  /\ WithCompleted(l, id, status, code) \in Ledger
         /\ WithCompleted(l, id, status, code).high = l.high
         /\ Len(WithCompleted(l, id, status, code).records) = Len(l.records)
<1> DEFINE rs == [i \in DOMAIN l.records |->
                   IF l.records[i].id = id /\ ~ Final(l.records[i].status)
                     THEN CompletedRecord(l.records[i], status, code)
                     ELSE l.records[i]]
<1>1. \A i \in DOMAIN l.records : l.records[i] \in LedgerRecord
  BY DEF Ledger
<1>2. rs \in [DOMAIN l.records -> LedgerRecord]
  BY <1>1, CompletedRecordType
<1>3. WithCompleted(l, id, status, code) = [l EXCEPT !.records = rs]
  BY DEF WithCompleted
<1> HIDE DEF rs
<1> QED
  BY <1>2, <1>3, MapRecordsType

\* Closing what was interrupted keeps the ledger a ledger (store.go openResultStore).
LEMMA WithInterruptedType ==
  ASSUME NEW l \in Ledger
  PROVE  /\ WithInterrupted(l) \in Ledger
         /\ WithInterrupted(l).high = l.high
         /\ Len(WithInterrupted(l).records) = Len(l.records)
<1> DEFINE rs == [i \in DOMAIN l.records |->
                   IF l.records[i].status = "accepted" /\ ~ l.records[i].pendingRefresh
                     THEN [l.records[i] EXCEPT !.status = "failed", !.code = "interrupted"]
                     ELSE l.records[i]]
<1>1. \A i \in DOMAIN l.records : l.records[i] \in LedgerRecord
  BY DEF Ledger
<1>2. rs \in [DOMAIN l.records -> LedgerRecord]
  BY <1>1 DEF LedgerRecord, Statuses, FinalStatuses, Codes
<1>3. WithInterrupted(l) = [l EXCEPT !.records = rs]
  BY DEF WithInterrupted
<1> HIDE DEF rs
<1> QED
  BY <1>2, <1>3, MapRecordsType

\* Completing one refresh keeps the ledger a ledger (controller.go SnapshotApplied).
LEMMA RefreshedType ==
  ASSUME NEW l \in Ledger, NEW i \in DOMAIN l.records
  PROVE  LET done == [l EXCEPT !.records[i] = CompletedRecord(@, "executed", "")]
         IN  done \in Ledger /\ done.high = l.high /\ Len(done.records) = Len(l.records)
<1> DEFINE rs == [l.records EXCEPT ![i] = CompletedRecord(@, "executed", "")]
<1>1. \A j \in DOMAIN l.records : l.records[j] \in LedgerRecord
  BY DEF Ledger
<1>2. rs \in [DOMAIN l.records -> LedgerRecord]
  BY <1>1, CompletedRecordType DEF Statuses, FinalStatuses, Codes
<1>3. [l EXCEPT !.records[i] = CompletedRecord(@, "executed", "")] = [l EXCEPT !.records = rs]
  BY DEF Ledger
<1> HIDE DEF rs
<1> QED
  BY <1>2, <1>3, MapRecordsType

-----------------------------------------------------------------------------
(* Writes and replies. *)

\* A ledger write leaves a ledger within the limit in memory and in the file
\* (store.go persistLocked).
LEMMA SetLedgerType ==
  ASSUME ledgerFile \in Ledger, WithinLimit,
         NEW l \in Ledger, Len(l.records) <= MaxRecords, NEW written, SetLedger(l, written)
  PROVE  ledger' \in Ledger /\ ledgerFile' \in Ledger /\ WithinLimit'
BY DEF SetLedger, WithinLimit

\* Queueing results leaves results in the channel (client.go queueResults).
LEMMA ReplyType ==
  ASSUME outbox \in Seq(Result), NEW rs \in Seq(Result), Reply(rs)
  PROVE  outbox' \in Seq(Result)
<1>1. PICK n \in 0 .. Len(rs) : outbox' = outbox \o SubSeq(rs, 1, n)
  <2>1. PICK m \in (IF session THEN {Len(rs)} ELSE 0 .. Len(rs)) :
          outbox' = outbox \o SubSeq(rs, 1, m)
    BY Zenon DEF Reply
  <2>2. m \in 0 .. Len(rs)
    BY <2>1
  <2> QED
    BY <2>1, <2>2, Zenon
<1>2. SubSeq(rs, 1, n) \in Seq(Result)
  BY <1>1
<1> QED
  BY <1>1, <1>2

\* The result of a record and the reply to a command are results.
LEMMA ResultType ==
  /\ \A r \in LedgerRecord : ResultOf(r) \in Result
  /\ \A cmd \in Command, status \in Statuses, code \in Codes :
       ReplyTo(cmd, status, code) \in Result
BY DEF ResultOf, ReplyTo, Result, LedgerRecord, Command

\* What the validation of a command can decide (validate.go, controller.go).
LEMMA VerdictType ==
  ASSUME NEW cmd, NEW isLapsed, NEW verdict \in Verdicts(cmd, isLapsed)
  PROVE  verdict[1] \in Statuses /\ verdict[2] \in Codes
<1>1. verdict \in {Valid, <<"expired", "expired">>, <<"rejected", "issued_in_future">>,
                   <<"rejected", "wrong_target">>}
  BY DEF Verdicts
<1>2. \A status \in {"accepted", "expired", "rejected"},
        code \in {"", "expired", "issued_in_future", "wrong_target"} :
        LET v == <<status, code>> IN v[1] \in Statuses /\ v[2] \in Codes
  BY DEF Statuses, FinalStatuses, Codes
<1> QED
  BY <1>1, <1>2 DEF Valid

\* What the read loop does after a snapshot (controller.go SnapshotApplied).
LEMMA RefreshingType ==
  ASSUME NEW l, NEW s, NEW report \in BOOLEAN
  PROVE  Refreshing(l, s, report) \in Busy \cup {Idle}
BY DEF Refreshing, Busy

\* The ledger a start opens is a ledger with the file's high-water mark, or a
\* new one (store.go openResultStore).
LEMMA OpenedType ==
  ASSUME ledgerFile \in Ledger, NEW opened \in Opened
  PROVE  /\ opened \in Ledger
         /\ Len(opened.records) <= MaxRecords
         /\ \/ opened.high = ledgerFile.high
            \/ Len(ledgerFile.records) > MaxRecords
            \/ "ledger_corrupt" \in Faults
<1>1. CASE opened = WithInterrupted(ledgerFile) /\ ~ (Len(ledgerFile.records) > MaxRecords)
  <2>1. /\ opened \in Ledger
        /\ opened.high = ledgerFile.high
        /\ Len(opened.records) = Len(ledgerFile.records)
    BY <1>1, WithInterruptedType
  <2>2. Len(ledgerFile.records) \in Nat
    BY DEF Ledger
  <2> QED
    BY <1>1, <2>1, <2>2, DisplayAssumption
<1>2. CASE /\ opened = EmptyLedger
           /\ Len(ledgerFile.records) > MaxRecords \/ "ledger_corrupt" \in Faults
  <2>1. EmptyLedger \in Ledger /\ EmptyLedger.records = << >>
    BY ProtocolAssumption DEF EmptyLedger, Ledger
  <2> QED
    BY <1>2, <2>1, DisplayAssumption
<1> QED
  BY <1>1, <1>2 DEF Opened

-----------------------------------------------------------------------------
(* Types, and the length of the ledger. *)

TypeInv == DisplayTypeOK /\ WithinLimit

\* Handling a command keeps the types (controller.go Handle).
LEMMA HandleType ==
  ASSUME TypeInv, NEW cmd \in Command, NEW isLapsed \in BOOLEAN, Handle(cmd, isLapsed)
  PROVE  TypeInv'
<1> USE DEF TypeInv, DisplayTypeOK
<1>1. PICK verdict \in Verdicts(cmd, isLapsed) :
        Replay(cmd) \/ Refuse(cmd, verdict) \/ RefuseOutOfOrder(cmd, verdict)
          \/ Accept(cmd, verdict)
  BY DEF Handle
<1>2. UNCHANGED <<session, shown, lastGood, applied>>
  BY DEF Handle
<1>3. verdict[1] \in Statuses /\ verdict[2] \in Codes
  BY VerdictType
<1>4. \A status \in Statuses, code \in Codes :
        LET l == AppendRecord(ledger, NewRecord(cmd, status, code))
        IN  l \in Ledger /\ Len(l.records) <= MaxRecords
  BY NewRecordType, AppendRecordType
<1>5. \A status \in Statuses, code \in Codes : <<ReplyTo(cmd, status, code)>> \in Seq(Result)
  BY ResultType
<1>6. SUFFICES /\ ledger' \in Ledger /\ ledgerFile' \in Ledger /\ WithinLimit'
               /\ outbox' \in Seq(Result)
               /\ busy' \in Busy \cup {Idle}
  BY <1>2
<1>7. /\ {"accepted", "rejected", "failed"} \subseteq Statuses
      /\ {"", "out_of_order", "state_unavailable"} \subseteq Codes
  BY DEF Statuses, FinalStatuses, Codes
<1>8. CASE Replay(cmd)
  <2>1. RecordOf(cmd.id) \in LedgerRecord
    <3>1. \A i \in DOMAIN ledger.records : ledger.records[i] \in LedgerRecord
      BY DEF Ledger
    <3>2. \E i \in DOMAIN ledger.records : ledger.records[i].id = cmd.id
      BY <1>8 DEF Replay, Known
    <3> QED
      BY <3>1, <3>2 DEF RecordOf
  <2>2. <<ResultOf(RecordOf(cmd.id))>> \in Seq(Result)
    BY <2>1, ResultType
  <2>3. outbox' \in Seq(Result)
    BY <1>8, <2>2, ReplyType DEF Replay
  <2> QED
    BY <1>8, <2>3 DEF Replay, WithinLimit
<1>9. CASE Refuse(cmd, verdict)
  <2>1. PICK written \in WriteOutcomes("ledger_write") :
          SetLedger(AppendRecord(ledger, NewRecord(cmd, verdict[1], verdict[2])), written)
    BY <1>9 DEF Refuse
  <2>2. ledger' \in Ledger /\ ledgerFile' \in Ledger /\ WithinLimit'
    BY <1>3, <1>4, <2>1, SetLedgerType
  <2>3. outbox' \in Seq(Result)
    BY <1>3, <1>5, <1>9, ReplyType DEF Refuse
  <2> QED
    BY <1>9, <2>2, <2>3 DEF Refuse
<1>10. CASE RefuseOutOfOrder(cmd, verdict)
  <2>1. PICK written \in WriteOutcomes("ledger_write") :
          /\ SetLedger(AppendRecord(ledger, NewRecord(cmd, "rejected", "out_of_order")), written)
          /\ Reply(<<IF written THEN ReplyTo(cmd, "rejected", "out_of_order")
                                ELSE ReplyTo(cmd, "failed", "state_unavailable")>>)
    BY <1>10 DEF RefuseOutOfOrder
  <2>2. ledger' \in Ledger /\ ledgerFile' \in Ledger /\ WithinLimit'
    BY <1>4, <1>7, <2>1, SetLedgerType
  <2>3. outbox' \in Seq(Result)
    BY <1>5, <1>7, <2>1, ReplyType
  <2> QED
    BY <1>10, <2>2, <2>3 DEF RefuseOutOfOrder
<1>11. CASE Accept(cmd, verdict)
  <2>1. PICK written \in WriteOutcomes("ledger_write") :
          /\ SetLedger(WithAccepted(cmd), written)
          /\ IF ~ written THEN /\ Reply(<<ReplyTo(cmd, "failed", "state_unavailable")>>)
                               /\ UNCHANGED busy
             ELSE IF cmd.kind = "refresh" THEN /\ Reply(<<ReplyTo(cmd, "accepted", "")>>)
                                               /\ UNCHANGED busy
             ELSE /\ busy' = [phase |-> "apply", cmd |-> cmd,
                              status |-> "executed", code |-> ""]
                  /\ UNCHANGED outbox
    BY <1>11 DEF Accept
  <2>2. WithAccepted(cmd) \in Ledger /\ Len(WithAccepted(cmd).records) <= MaxRecords
    <3> DEFINE l == AppendRecord(ledger, AcceptedRecord(cmd))
    <3>1. l \in Ledger /\ Len(l.records) <= MaxRecords
      BY AcceptedRecordType, AppendRecordType
    <3>2. WithAccepted(cmd) = [l EXCEPT !.high = cmd.seq]
      BY DEF WithAccepted
    <3>3. cmd.seq \in 0 .. MaxIssued
      BY ProtocolAssumption DEF Command, Seqs
    <3> HIDE DEF l
    <3> QED
      BY <3>1, <3>2, <3>3 DEF Ledger
  <2>3. ledger' \in Ledger /\ ledgerFile' \in Ledger /\ WithinLimit'
    BY <2>1, <2>2, SetLedgerType
  <2>4. outbox' \in Seq(Result)
    BY <1>5, <1>7, <2>1, ReplyType
  <2>5. busy' \in Busy \cup {Idle}
    <3>1. [phase |-> "apply", cmd |-> cmd, status |-> "executed", code |-> ""] \in Busy
      BY DEF Busy, FinalStatuses, Codes
    <3> QED
      BY <2>1, <3>1, Zenon
  <2> QED
    BY <2>3, <2>4, <2>5
<1> QED
  BY <1>1, <1>8, <1>9, <1>10, <1>11

\* Completing a UI command keeps the types (controller.go Handle, store.go complete).
LEMMA CompleteType ==
  ASSUME TypeInv, Complete
  PROVE  TypeInv'
<1> USE DEF TypeInv, DisplayTypeOK
<1>1. busy \in Busy /\ busy.phase = "complete"
  BY DEF Complete
<1>2. busy.cmd \in Command /\ busy.status \in Statuses /\ busy.code \in Codes
  BY <1>1 DEF Busy, Statuses
<1> DEFINE l == WithCompleted(ledger, busy.cmd.id, busy.status, busy.code)
<1>3. l \in Ledger /\ Len(l.records) <= MaxRecords
  BY <1>2, WithCompletedType DEF WithinLimit
<1>4. PICK written \in WriteOutcomes("ledger_write") :
        /\ SetLedger(l, written)
        /\ Reply(<<ReplyTo(busy.cmd, "accepted", ""),
                   IF written THEN ReplyTo(busy.cmd, busy.status, busy.code)
                              ELSE ReplyTo(busy.cmd, "failed", "state_unavailable")>>)
  BY DEF Complete
<1> HIDE DEF l
<1>5. ledger' \in Ledger /\ ledgerFile' \in Ledger /\ WithinLimit'
  BY <1>3, <1>4, SetLedgerType
<1>6. outbox' \in Seq(Result)
  <2>1. /\ ReplyTo(busy.cmd, "accepted", "") \in Result
        /\ ReplyTo(busy.cmd, busy.status, busy.code) \in Result
        /\ ReplyTo(busy.cmd, "failed", "state_unavailable") \in Result
    BY <1>2, ResultType DEF Statuses, FinalStatuses, Codes
  <2>2. \A r1, r2 \in Result : <<r1, r2>> \in Seq(Result)
    OBVIOUS
  <2>3. (IF written THEN ReplyTo(busy.cmd, busy.status, busy.code)
                    ELSE ReplyTo(busy.cmd, "failed", "state_unavailable")) \in Result
    BY <2>1, Zenon
  <2> QED
    BY <1>4, <2>1, <2>2, <2>3, ReplyType
<1> QED
  BY <1>5, <1>6 DEF Complete

\* Completing a refresh keeps the types (controller.go SnapshotApplied).
LEMMA CompleteRefreshType ==
  ASSUME TypeInv, CompleteRefresh
  PROVE  TypeInv'
<1> USE DEF TypeInv, DisplayTypeOK
<1>1. PICK i \in Answered(ledger, shown), written \in WriteOutcomes("ledger_write") :
        LET done == [ledger EXCEPT !.records[i] = CompletedRecord(@, "executed", "")] IN
        /\ SetLedger(done, written)
        /\ IF written /\ busy.report THEN Reply(<<ResultOf(done.records[i])>>)
                                     ELSE UNCHANGED outbox
        /\ busy' = Refreshing(done, shown, busy.report)
  BY DEF CompleteRefresh
<1> DEFINE done == [ledger EXCEPT !.records[i] = CompletedRecord(@, "executed", "")]
<1>2. i \in DOMAIN ledger.records
  BY DEF Answered
<1>3. done \in Ledger /\ Len(done.records) <= MaxRecords
  BY <1>2, RefreshedType DEF WithinLimit
<1>4. done.records[i] \in LedgerRecord
  <2>1. DOMAIN done.records = DOMAIN ledger.records
    BY DEF Ledger
  <2> HIDE DEF done
  <2> QED
    BY <1>2, <1>3, <2>1 DEF Ledger
<1>5. busy.report \in BOOLEAN
  BY DEF Busy, CompleteRefresh
<1>6. /\ SetLedger(done, written)
      /\ IF written /\ busy.report THEN Reply(<<ResultOf(done.records[i])>>)
                                   ELSE UNCHANGED outbox
      /\ busy' = Refreshing(done, shown, busy.report)
  BY <1>1
<1> HIDE DEF done
<1>7. ledger' \in Ledger /\ ledgerFile' \in Ledger /\ WithinLimit'
  BY <1>3, <1>6, SetLedgerType
<1>8. outbox' \in Seq(Result)
  <2>1. <<ResultOf(done.records[i])>> \in Seq(Result)
    BY <1>4, ResultType
  <2> QED
    BY <1>6, <2>1, ReplyType
<1>9. busy' \in Busy \cup {Idle}
  BY <1>5, <1>6, RefreshingType
<1> QED
  BY <1>7, <1>8, <1>9 DEF CompleteRefresh

\* Starting again keeps the types (store.go openResultStore, main.go).
LEMMA RestartType ==
  ASSUME TypeInv, Restart
  PROVE  TypeInv'
<1> USE DEF TypeInv, DisplayTypeOK
<1>1. PICK opened \in Opened : /\ ledger' = opened
                              /\ ledgerFile' = opened
                              /\ busy' = Refreshing(opened, lastGood, FALSE)
  BY DEF Restart
<1>2. opened \in Ledger /\ Len(opened.records) <= MaxRecords
  BY OpenedType
<1>3. busy' \in Busy \cup {Idle}
  BY <1>1, RefreshingType
<1> QED
  BY <1>1, <1>2, <1>3, << >> \in Seq(Result) DEF Restart, WithinLimit

\* Every step keeps the types and the length of the ledger.
LEMMA TypeStep ==
  ASSUME TypeInv, [DisplayNext]_displayVars
  PROVE  TypeInv'
<1> USE DEF TypeInv, DisplayTypeOK, WithinLimit
<1>1. ASSUME NEW cmd \in Command, NEW isLapsed \in BOOLEAN, Handle(cmd, isLapsed)
      PROVE  TypeInv'
  BY <1>1, HandleType
<1>2. CASE Apply
  <2>1. busy \in Busy /\ busy.phase = "apply"
    BY <1>2 DEF Apply
  <2>2. busy' \in Busy
    BY <1>2, <2>1 DEF Apply, Busy, FinalStatuses, Codes
  <2>3. applied' \in Seq(Command)
    BY <1>2, <2>1 DEF Apply, Busy
  <2> QED
    BY <1>2, <2>2, <2>3 DEF Apply
<1>3. CASE Complete
  BY <1>3, CompleteType
<1>4. ASSUME NEW s \in Snapshot, ApplySnapshot(s)
      PROVE  TypeInv'
  <2>1. busy' \in Busy \cup {Idle}
    BY <1>4, RefreshingType DEF ApplySnapshot
  <2>2. lastGood' \in Snapshot
    BY <1>4 DEF ApplySnapshot
  <2> QED
    BY <1>4, <2>1, <2>2 DEF ApplySnapshot
<1>5. CASE CompleteRefresh
  BY <1>5, CompleteRefreshType
<1>6. CASE LoseResult \/ SendResult
  <2>1. /\ outbox' = Tail(outbox) /\ outbox # << >>
        /\ UNCHANGED <<ledger, ledgerFile, busy, session, shown, lastGood, applied>>
    BY <1>6, Zenon DEF LoseResult, SendResult
  <2>2. outbox' \in Seq(Result)
    BY <2>1
  <2> QED
    BY <2>1, <2>2
<1>7. ASSUME NEW alive \in BOOLEAN, SetSession(alive)
      PROVE  TypeInv'
  BY <1>7 DEF SetSession
<1>8. CASE Restart
  BY <1>8, RestartType
<1>9. CASE UNCHANGED displayVars
  BY <1>9 DEF displayVars
<1> QED
  BY <1>1, <1>2, <1>3, <1>4, <1>5, <1>6, <1>7, <1>8, <1>9 DEF DisplayNext

\* The initial state has the types.
LEMMA TypeInit == DisplayInit => TypeInv
<1>1. EmptyLedger \in Ledger /\ Len(EmptyLedger.records) <= MaxRecords
  BY ProtocolAssumption, DisplayAssumption DEF EmptyLedger, Ledger
<1>2. NoSnapshot \in Snapshot
  BY DisplayAssumption DEF NoSnapshot, Snapshot
<1>3. << >> \in Seq(Result) /\ << >> \in Seq(Command)
  OBVIOUS
<1> QED
  BY <1>1, <1>2, <1>3 DEF DisplayInit, TypeInv, DisplayTypeOK, WithinLimit

LEMMA TypeInvariance == DisplaySpec => []TypeInv
<1>1. TypeInv /\ [DisplayNext]_displayVars => TypeInv'
  BY TypeStep
<1> QED
  BY <1>1, TypeInit, PTL DEF DisplaySpec

\* The ledger, its file, the read loop and the snapshots keep their types,
\* whatever fails (controller.go, store.go).
THEOREM DisplayTypeCorrect == DisplaySpec => []DisplayTypeOK
<1>1. TypeInv => DisplayTypeOK
  BY DEF TypeInv
<1> QED
  BY <1>1, TypeInvariance, PTL

\* The ledger never grows beyond what openResultStore reads back, whatever fails.
THEOREM LedgerWithinLimit == DisplaySpec => []WithinLimit
<1>1. TypeInv => WithinLimit
  BY DEF TypeInv
<1> QED
  BY <1>1, TypeInvariance, PTL

-----------------------------------------------------------------------------
(* At most once, and in order.  A command has an effect only after its       *)
(* sequence number was written to the ledger file as the high-water mark,    *)
(* and the mark only rises: a failed write leaves the file behind the memory *)
(* and never ahead, and a start keeps the mark as long as the file can be    *)
(* read, which LedgerWithinLimit assures.                                    *)

OrderInv == TypeInv /\ HighWater /\ AppliedOnceInOrder

\* The marks and the sequence numbers are numbers.
LEMMA NumberType ==
  ASSUME TypeInv
  PROVE  /\ ledger.high \in Nat /\ ledgerFile.high \in Nat
         /\ \A i \in DOMAIN applied : applied[i].seq \in Nat
<1>1. ledger.high \in Nat /\ ledgerFile.high \in Nat
  BY ProtocolAssumption DEF TypeInv, DisplayTypeOK, Ledger
<1>2. \A i \in DOMAIN applied : applied[i] \in Command
  BY DEF TypeInv, DisplayTypeOK
<1>3. \A c \in Command : c.seq \in Nat
  BY ProtocolAssumption DEF Command, Seqs
<1> QED
  BY <1>1, <1>2, <1>3

\* Writing a ledger whose mark is not lower raises both marks or keeps them.
LEMMA MarksRise ==
  ASSUME TypeInv, HighWater,
         NEW l \in Ledger, ledger.high <= l.high, NEW written, SetLedger(l, written)
  PROVE  ledgerFile'.high <= ledger'.high /\ ledgerFile.high <= ledgerFile'.high
<1>1. l.high \in Nat /\ ledger.high \in Nat /\ ledgerFile.high \in Nat
  BY ProtocolAssumption, NumberType DEF Ledger
<1> QED
  BY <1>1 DEF SetLedger, HighWater

\* A step that has no effect on the screen and does not begin a UI command keeps
\* the order, when the marks rise or stay.
LEMMA OrderKept ==
  ASSUME OrderInv, TypeInv', applied' = applied,
         ledgerFile'.high <= ledger'.high, ledgerFile.high <= ledgerFile'.high,
         busy' = busy \/ busy'.phase # "apply"
  PROVE  OrderInv'
<1>1. /\ ledgerFile.high \in Nat /\ ledgerFile'.high \in Nat
      /\ \A i \in DOMAIN applied : applied[i].seq \in Nat
  <2>1. ledgerFile'.high \in Nat
    BY ProtocolAssumption DEF TypeInv, DisplayTypeOK, Ledger
  <2> QED
    BY <2>1, NumberType DEF OrderInv
<1>2. \A i \in DOMAIN applied' : applied'[i].seq <= ledgerFile'.high
  BY <1>1 DEF OrderInv, HighWater
<1>3. CASE busy'.phase # "apply"
  BY <1>2, <1>3 DEF OrderInv, HighWater, AppliedOnceInOrder
<1>4. CASE busy' = busy
  <2>1. busy \in Busy => busy.phase # "apply" \/ busy.cmd.seq \in Nat
    BY DEF Busy, Command, Seqs
  <2> QED
    BY <1>1, <1>2, <1>4, <2>1 DEF OrderInv, HighWater, AppliedOnceInOrder
<1> QED
  BY <1>3, <1>4

\* Handling a command keeps the order (controller.go Handle, store.go accept).
LEMMA HandleOrder ==
  ASSUME OrderInv, NEW cmd \in Command, NEW isLapsed \in BOOLEAN, Handle(cmd, isLapsed)
  PROVE  OrderInv'
<1> USE DEF OrderInv
<1>1. TypeInv'
  BY HandleType
<1>2. applied' = applied
  BY DEF Handle
<1>3. PICK verdict \in Verdicts(cmd, isLapsed) :
        Replay(cmd) \/ Refuse(cmd, verdict) \/ RefuseOutOfOrder(cmd, verdict)
          \/ Accept(cmd, verdict)
  BY DEF Handle
<1>4. /\ ledger.high \in Nat /\ ledgerFile.high \in Nat /\ cmd.seq \in Nat
      /\ \A i \in DOMAIN applied : applied[i].seq \in Nat
      /\ ledger \in Ledger
  <2>1. cmd.seq \in Nat
    BY ProtocolAssumption DEF Command, Seqs
  <2> QED
    BY <2>1, NumberType DEF TypeInv, DisplayTypeOK
<1>5. \A status \in Statuses, code \in Codes :
        LET l == AppendRecord(ledger, NewRecord(cmd, status, code))
        IN  l \in Ledger /\ ledger.high <= l.high
  <2> TAKE status \in Statuses, code \in Codes
  <2>1. NewRecord(cmd, status, code) \in LedgerRecord
    BY NewRecordType
  <2> QED
    BY <1>4, <2>1, AppendRecordType
<1>6. CASE Replay(cmd)
  <2>1. ledger' = ledger /\ ledgerFile' = ledgerFile /\ busy' = busy
    BY <1>6 DEF Replay
  <2> QED
    BY <1>1, <1>2, <1>4, <2>1, OrderKept DEF HighWater
<1>7. CASE Refuse(cmd, verdict)
  <2>1. PICK written \in WriteOutcomes("ledger_write") :
          SetLedger(AppendRecord(ledger, NewRecord(cmd, verdict[1], verdict[2])), written)
    BY <1>7 DEF Refuse
  <2>2. ledgerFile'.high <= ledger'.high /\ ledgerFile.high <= ledgerFile'.high
    BY <1>5, <2>1, VerdictType, MarksRise
  <2> QED
    BY <1>1, <1>2, <1>7, <2>2, OrderKept DEF Refuse
<1>8. CASE RefuseOutOfOrder(cmd, verdict)
  <2>1. PICK written \in WriteOutcomes("ledger_write") :
          SetLedger(AppendRecord(ledger, NewRecord(cmd, "rejected", "out_of_order")), written)
    BY <1>8 DEF RefuseOutOfOrder
  <2>2. "rejected" \in Statuses /\ "out_of_order" \in Codes
    BY DEF Statuses, FinalStatuses, Codes
  <2>3. ledgerFile'.high <= ledger'.high /\ ledgerFile.high <= ledgerFile'.high
    BY <1>5, <2>1, <2>2, MarksRise
  <2> QED
    BY <1>1, <1>2, <1>8, <2>3, OrderKept DEF RefuseOutOfOrder
<1>9. CASE Accept(cmd, verdict)
  <2>1. PICK written \in WriteOutcomes("ledger_write") :
          /\ SetLedger(WithAccepted(cmd), written)
          /\ \/ busy' = busy
             \/ written /\ busy' = [phase |-> "apply", cmd |-> cmd,
                                    status |-> "executed", code |-> ""]
    BY <1>9 DEF Accept
  <2>2. WithAccepted(cmd) \in Ledger /\ WithAccepted(cmd).high = cmd.seq
    <3> DEFINE l == AppendRecord(ledger, AcceptedRecord(cmd))
    <3>1. l \in Ledger
      BY AcceptedRecordType, AppendRecordType DEF TypeInv, DisplayTypeOK
    <3>2. WithAccepted(cmd) = [l EXCEPT !.high = cmd.seq]
      BY DEF WithAccepted
    <3>3. cmd.seq \in 0 .. MaxIssued
      BY ProtocolAssumption DEF Command, Seqs
    <3> HIDE DEF l
    <3> QED
      BY <3>1, <3>2, <3>3 DEF Ledger
  <2>3. cmd.seq > ledger.high
    BY <1>9 DEF Accept
  <2>4. ledgerFile'.high <= ledger'.high /\ ledgerFile.high <= ledgerFile'.high
    <3>1. ledger.high <= WithAccepted(cmd).high
      BY <1>4, <2>2, <2>3
    <3>2. SetLedger(WithAccepted(cmd), written)
      BY <2>1
    <3> HIDE <2>1
    <3> QED
      BY <2>2, <3>1, <3>2, MarksRise
  <2>5. CASE busy' = busy
    BY <1>1, <1>2, <2>4, <2>5, OrderKept
  <2>6. CASE /\ written
             /\ busy' = [phase |-> "apply", cmd |-> cmd, status |-> "executed", code |-> ""]
    <3>1. ledgerFile'.high = cmd.seq
      BY <2>1, <2>2, <2>6 DEF SetLedger
    <3>2. \A i \in DOMAIN applied : applied[i].seq < cmd.seq
      BY <1>4, <2>3 DEF HighWater
    <3>3. busy'.cmd = cmd
      BY <2>6
    <3>4. \A i \in DOMAIN applied : applied[i].seq <= ledgerFile'.high
      BY <1>4, <3>1, <3>2
    <3>5. HighWater'
      BY <1>2, <1>4, <2>4, <3>1, <3>2, <3>3, <3>4 DEF HighWater
    <3>6. AppliedOnceInOrder'
      BY <1>2 DEF AppliedOnceInOrder
    <3> QED
      BY <1>1, <3>5, <3>6
  <2> QED
    BY <2>1, <2>5, <2>6
<1> QED
  BY <1>3, <1>6, <1>7, <1>8, <1>9

\* The effect of a command is the newest one (controller.go Handle).
LEMMA ApplyOrder ==
  ASSUME OrderInv, Apply
  PROVE  OrderInv'
<1> USE DEF OrderInv
<1>1. TypeInv'
  BY TypeStep DEF DisplayNext
<1>2. busy \in Busy /\ busy.phase = "apply" /\ busy.cmd \in Command
  BY DEF Apply, TypeInv, DisplayTypeOK, Busy
<1>3. ledger' = ledger /\ ledgerFile' = ledgerFile
  BY DEF Apply
<1>4. busy'.phase # "apply"
  BY <1>2 DEF Apply, Busy
<1>5. CASE applied' = applied
  BY <1>1, <1>3, <1>4, <1>5, NumberType, OrderKept DEF HighWater
<1>6. CASE applied' = Append(applied, busy.cmd)
  <2>1. applied \in Seq(Command)
    BY DEF TypeInv, DisplayTypeOK
  <2>2. /\ busy.cmd.seq <= ledgerFile.high
        /\ \A i \in DOMAIN applied : applied[i].seq < busy.cmd.seq
    BY <1>2 DEF HighWater
  <2>3. \A i \in DOMAIN applied' :
          \/ i \in DOMAIN applied /\ applied'[i] = applied[i]
          \/ i = Len(applied) + 1 /\ applied'[i] = busy.cmd
    BY <1>2, <1>6, <2>1
  <2>4. \A i \in DOMAIN applied' : applied'[i].seq <= ledgerFile'.high
    BY <1>3, <2>2, <2>3 DEF HighWater
  <2>5. AppliedOnceInOrder'
    <3> SUFFICES ASSUME NEW i \in DOMAIN applied', NEW j \in DOMAIN applied', i < j
                 PROVE  applied'[i].seq < applied'[j].seq
      BY DEF AppliedOnceInOrder
    <3>1. i \in Nat /\ j \in Nat /\ i # Len(applied) + 1
      BY <1>2, <1>6, <2>1
    <3> QED
      BY <2>2, <2>3, <3>1 DEF AppliedOnceInOrder
  <2> QED
    BY <1>1, <1>3, <1>4, <2>4, <2>5 DEF HighWater
<1> QED
  BY <1>5, <1>6 DEF Apply

\* A start keeps the order: the file it reads is within the limit, so its mark
\* is kept (store.go openResultStore).
LEMMA RestartOrder ==
  ASSUME OrderInv, "ledger_corrupt" \notin Faults, Restart
  PROVE  OrderInv'
<1> USE DEF OrderInv
<1>1. TypeInv'
  BY RestartType
<1>2. PICK opened \in Opened : /\ ledger' = opened
                              /\ ledgerFile' = opened
                              /\ busy' = Refreshing(opened, lastGood, FALSE)
  BY DEF Restart
<1>3. opened.high = ledgerFile.high
  <2>1. ~ (Len(ledgerFile.records) > MaxRecords)
    BY DisplayAssumption DEF TypeInv, DisplayTypeOK, WithinLimit, Ledger
  <2> QED
    BY <2>1, OpenedType DEF TypeInv, DisplayTypeOK
<1>4. busy'.phase # "apply"
  BY <1>2 DEF Refreshing, Idle
<1>5. ledgerFile'.high <= ledger'.high /\ ledgerFile.high <= ledgerFile'.high
  BY <1>2, <1>3, NumberType
<1> QED
  BY <1>1, <1>4, <1>5, OrderKept DEF Restart

\* Every step keeps the order.
LEMMA OrderStep ==
  ASSUME OrderInv, "ledger_corrupt" \notin Faults, [DisplayNext]_displayVars
  PROVE  OrderInv'
<1> USE DEF OrderInv
<1>1. TypeInv'
  BY TypeStep
<1>2. ASSUME UNCHANGED <<ledger, ledgerFile, applied>>, busy' = busy \/ busy'.phase # "apply"
      PROVE  OrderInv'
  BY <1>1, <1>2, NumberType, OrderKept DEF HighWater
<1>3. ASSUME NEW cmd \in Command, NEW isLapsed \in BOOLEAN, Handle(cmd, isLapsed)
      PROVE  OrderInv'
  BY <1>3, HandleOrder
<1>4. CASE Apply
  BY <1>4, ApplyOrder
<1>5. CASE Complete
  <2>1. busy \in Busy /\ busy.phase = "complete"
    BY <1>5 DEF Complete, TypeInv, DisplayTypeOK
  <2> DEFINE l == WithCompleted(ledger, busy.cmd.id, busy.status, busy.code)
  <2>2. l \in Ledger /\ l.high = ledger.high
    <3>1. busy.status \in Statuses /\ busy.code \in Codes
      BY <2>1 DEF Busy, Statuses
    <3>2. ledger \in Ledger
      BY DEF TypeInv, DisplayTypeOK
    <3> QED
      BY <3>1, <3>2, WithCompletedType
  <2>3. PICK written \in WriteOutcomes("ledger_write") : SetLedger(l, written)
    BY <1>5 DEF Complete
  <2>4. busy'.phase # "apply" /\ applied' = applied
    BY <1>5 DEF Complete, Idle
  <2> HIDE DEF l
  <2>5. ledgerFile'.high <= ledger'.high /\ ledgerFile.high <= ledgerFile'.high
    BY <2>2, <2>3, NumberType, MarksRise
  <2> QED
    BY <1>1, <2>4, <2>5, OrderKept
<1>6. ASSUME NEW s \in Snapshot, ApplySnapshot(s)
      PROVE  OrderInv'
  BY <1>2, <1>6 DEF ApplySnapshot, Refreshing, Idle
<1>7. CASE CompleteRefresh
  <2>1. PICK i \in Answered(ledger, shown), written \in WriteOutcomes("ledger_write") :
          LET done == [ledger EXCEPT !.records[i] = CompletedRecord(@, "executed", "")]
          IN  SetLedger(done, written) /\ busy' = Refreshing(done, shown, busy.report)
    BY <1>7 DEF CompleteRefresh
  <2> DEFINE done == [ledger EXCEPT !.records[i] = CompletedRecord(@, "executed", "")]
  <2>2. done \in Ledger /\ done.high = ledger.high
    BY RefreshedType DEF TypeInv, DisplayTypeOK, Answered
  <2>3. SetLedger(done, written) /\ busy' = Refreshing(done, shown, busy.report)
    BY <2>1
  <2> HIDE DEF done
  <2>4. busy'.phase # "apply" /\ applied' = applied
    BY <1>7, <2>3 DEF CompleteRefresh, Refreshing, Idle
  <2>5. ledgerFile'.high <= ledger'.high /\ ledgerFile.high <= ledgerFile'.high
    BY <2>2, <2>3, NumberType, MarksRise
  <2> QED
    BY <1>1, <2>4, <2>5, OrderKept
<1>8. CASE LoseResult \/ SendResult
  BY <1>2, <1>8 DEF LoseResult, SendResult
<1>9. ASSUME NEW alive \in BOOLEAN, SetSession(alive)
      PROVE  OrderInv'
  BY <1>2, <1>9 DEF SetSession
<1>10. CASE Restart
  BY <1>10, RestartOrder
<1>11. CASE UNCHANGED displayVars
  BY <1>2, <1>11 DEF displayVars
<1> QED
  BY <1>3, <1>4, <1>5, <1>6, <1>7, <1>8, <1>9, <1>10, <1>11 DEF DisplayNext

\* While the ledger file stays readable, commands change the screen in the order
\* of their sequence numbers and none does so twice, whatever the daemon sends,
\* wherever the process dies and whichever write fails (store.go accept).
THEOREM AppliedInOrder ==
  ASSUME "ledger_corrupt" \notin Faults
  PROVE  DisplaySpec => [](AppliedOnceInOrder /\ HighWater)
<1>1. DisplayInit => OrderInv
  BY TypeInit, ProtocolAssumption
  DEF DisplayInit, OrderInv, HighWater, AppliedOnceInOrder, EmptyLedger, Idle
<1>2. OrderInv /\ [DisplayNext]_displayVars => OrderInv'
  BY OrderStep
<1>3. OrderInv => AppliedOnceInOrder /\ HighWater
  BY DEF OrderInv
<1> QED
  BY <1>1, <1>2, <1>3, PTL DEF DisplaySpec

=============================================================================
