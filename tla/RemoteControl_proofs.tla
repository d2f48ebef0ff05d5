------------------------ MODULE RemoteControl_proofs ------------------------
(***************************************************************************)
(* Theorems about remote control end to end: the daemon's queue, one       *)
(* display and the stream between them, for every limit, every number of   *)
(* commands, and whatever is lost, retried or restarted.                   *)
(*                                                                         *)
(* First, that the whole is made of the two ends: every step is one the    *)
(* queue may take and one the display may take, so that what was proved of *)
(* each against any environment holds of them together.                    *)
(***************************************************************************)
EXTENDS RemoteControl, RemoteEnds_proofs

(***************************************************************************)
(* The batches of the pump.                                                *)
(***************************************************************************)

\* How many of a set of ids come no later than one of them.
Rank(ids, c) == Cardinality({d \in ids : d <= c})

LEMMA RankType ==
  ASSUME NEW ids \in SUBSET Ids, NEW c \in ids
  PROVE  Rank(ids, c) \in 1 .. Cardinality(ids)
<1> DEFINE upto == {d \in ids : d <= c}
<1>1. upto \in SUBSET Ids /\ upto \subseteq ids /\ c \in upto
  <2>1. c \in Nat /\ c <= c
    BY DEF Ids
  <2> QED
    BY <2>1
<1> HIDE DEF upto
<1>2. /\ IsFiniteSet(ids) /\ Cardinality(ids) \in Nat
      /\ IsFiniteSet(upto) /\ Cardinality(upto) \in Nat
  BY <1>1, IdSets
<1>3. Cardinality(upto) <= Cardinality(ids)
  BY <1>1, <1>2, FS_Subset
<1>4. Cardinality(upto) # 0
  BY <1>1, <1>2, FS_EmptySet
<1> QED
  BY <1>2, <1>3, <1>4 DEF Rank, upto

\* A later id has a higher rank.
LEMMA RankRises ==
  ASSUME NEW ids \in SUBSET Ids, NEW c \in ids, NEW d \in ids, c < d
  PROVE  Rank(ids, c) < Rank(ids, d)
<1> DEFINE upto(e) == {x \in ids : x <= e}
<1>1. \A x \in ids : x \in Nat
  BY DEF Ids
<1>2. upto(c) \in SUBSET Ids /\ upto(d) \in SUBSET Ids
  OBVIOUS
<1>3. upto(c) \subseteq upto(d) /\ d \in upto(d) /\ d \notin upto(c)
  BY <1>1
<1> HIDE DEF upto
<1>4. /\ IsFiniteSet(upto(c)) /\ Cardinality(upto(c)) \in Nat
      /\ IsFiniteSet(upto(d)) /\ Cardinality(upto(d)) \in Nat
  BY <1>2, IdSets
<1>5. Cardinality(upto(c)) <= Cardinality(upto(d))
  BY <1>3, <1>4, FS_Subset
<1>6. Cardinality(upto(c)) # Cardinality(upto(d))
  BY <1>3, <1>4, FS_Subset
<1> QED
  BY <1>4, <1>5, <1>6 DEF Rank, upto

\* Every rank up to the number of the ids is the rank of one of them.
LEMMA NthIsThere ==
  ASSUME NEW ids \in SUBSET Ids, NEW i \in 1 .. Cardinality(ids)
  PROVE  Nth(ids, i) \in ids /\ Rank(ids, Nth(ids, i)) = i
<1> DEFINE n == Cardinality(ids)
           f == [c \in ids |-> Rank(ids, c)]
<1>1. IsFiniteSet(ids) /\ n \in Nat
  BY IdSets
<1>2. IsFiniteSet(1 .. n) /\ Cardinality(1 .. n) = n
  BY <1>1, FS_Interval
<1>3. f \in [ids -> 1 .. n]
  BY RankType
<1>4. ASSUME NEW c \in ids, NEW d \in ids, f[c] = f[d]
      PROVE  c = d
  <2>1. c \in Nat /\ d \in Nat
    BY DEF Ids
  <2>2. f[c] \in 1 .. n /\ f[c] = Rank(ids, c) /\ f[d] = Rank(ids, d)
    BY <1>3
  <2>3. ~ (c < d) /\ ~ (d < c)
    BY <1>1, <1>4, <2>2, RankRises
  <2> QED
    BY <2>1, <2>3
<1>5. f \in Injection(ids, 1 .. n)
  BY <1>3, <1>4 DEF Injection, IsInjective
<1>6. f \in Surjection(ids, 1 .. n)
  BY <1>1, <1>2, <1>5, FS_Injection
<1>7. \E c \in ids : f[c] = i
  BY <1>6 DEF Surjection
<1>8. \E c \in ids : Rank(ids, c) = i
  BY <1>7
<1> QED
  BY <1>8, Zenon DEF Nth, Rank

\* The order of a batch is that of the ids, and every id is in it.
LEMMA NthInOrder ==
  ASSUME NEW ids \in SUBSET Ids
  PROVE  /\ \A i, j \in 1 .. Cardinality(ids) : i < j => Nth(ids, i) < Nth(ids, j)
         /\ \A c \in ids : \E i \in 1 .. Cardinality(ids) : Nth(ids, i) = c
<1>1. \A c \in ids : c \in Nat
  BY DEF Ids
<1>2. Cardinality(ids) \in Nat
  BY IdSets
<1>3. \A c \in ids : Rank(ids, c) \in 1 .. Cardinality(ids)
  BY RankType
<1>4. ASSUME NEW c \in ids, NEW d \in ids, Rank(ids, c) <= Rank(ids, d), c # d
      PROVE  c < d
  <2>1. ~ (d < c)
    BY <1>2, <1>3, <1>4, RankRises
  <2> QED
    BY <1>1, <1>4, <2>1
<1>5. ASSUME NEW i \in 1 .. Cardinality(ids), NEW j \in 1 .. Cardinality(ids), i < j
      PROVE  Nth(ids, i) < Nth(ids, j)
  <2>1. /\ Nth(ids, i) \in ids /\ Rank(ids, Nth(ids, i)) = i
        /\ Nth(ids, j) \in ids /\ Rank(ids, Nth(ids, j)) = j
    BY NthIsThere
  <2> QED
    BY <1>2, <1>4, <1>5, <2>1
<1>6. ASSUME NEW c \in ids
      PROVE  \E i \in 1 .. Cardinality(ids) : Nth(ids, i) = c
  <2> DEFINE i == Rank(ids, c)
  <2>1. i \in 1 .. Cardinality(ids)
    BY <1>3
  <2> HIDE DEF i
  <2>2. Nth(ids, i) \in ids /\ Rank(ids, Nth(ids, i)) = i
    BY <2>1, NthIsThere
  <2>3. Nth(ids, i) = c
    <3>1. ~ (Nth(ids, i) < c) /\ ~ (c < Nth(ids, i))
      BY <1>2, <1>3, <2>1, <2>2, RankRises DEF i
    <3> QED
      BY <1>1, <2>2, <3>1
  <2> QED
    BY <2>1, <2>3
<1> QED
  BY <1>5, <1>6

\* A batch holds its commands, once each, as the queue has them, in the order of
\* their ids (bus.go Pending).
LEMMA BatchIs ==
  ASSUME NEW b \in BusState, NEW ids \in SUBSET Live(b)
  PROVE  /\ Batch(b, ids) \in Seq(Command)
         /\ \A i \in DOMAIN Batch(b, ids) :
              \E c \in ids : Batch(b, ids)[i] = Wire(b, c)
         /\ \A c \in ids : \E i \in DOMAIN Batch(b, ids) : Batch(b, ids)[i] = Wire(b, c)
         /\ \A i, j \in DOMAIN Batch(b, ids) :
              i < j => Batch(b, ids)[i].id < Batch(b, ids)[j].id
<1> DEFINE n == Cardinality(ids)
           q == [i \in 1 .. n |-> Wire(b, Nth(ids, i))]
<1>1. ids \in SUBSET Ids
  BY DEF Live
<1>2. n \in Nat
  BY <1>1, IdSets
<1>3. \A i \in 1 .. n : Nth(ids, i) \in ids
  BY <1>1, NthIsThere
<1>4. \A c \in ids : Wire(b, c) \in Command /\ Wire(b, c).id = c
  BY <1>1, EntryType DEF Wire, Command, Entry
<1>5. Batch(b, ids) = q
  BY DEF Batch
<1>6. q \in [1 .. n -> Command]
  BY <1>3, <1>4
<1>7. q \in Seq(Command) /\ DOMAIN q = 1 .. n
  BY <1>2, <1>6
<1>8. \A c \in ids : \E i \in 1 .. n : q[i] = Wire(b, c)
  BY <1>1, NthInOrder
<1>9. \A i, j \in 1 .. n : i < j => q[i].id < q[j].id
  <2>1. \A i, j \in 1 .. n : i < j => Nth(ids, i) < Nth(ids, j)
    BY <1>1, NthInOrder
  <2>2. \A i \in 1 .. n : q[i].id = Nth(ids, i)
    BY <1>3, <1>4
  <2> QED
    BY <2>1, <2>2
<1> HIDE DEF q, n
<1> QED
  <2>1. \A i \in 1 .. n : \E c \in ids : q[i] = Wire(b, c)
    BY <1>3 DEF q
  <2> QED
    BY <1>5, <1>7, <1>8, <1>9, <2>1

(***************************************************************************)
(* The ledger and the results channel, for records and results of any      *)
(* description: a set S of records, a set R of results.                     *)
(***************************************************************************)

\* Short sequences.
LEMMA ShortSeq ==
  ASSUME NEW S
  PROVE  /\ << >> \in Seq(S)
         /\ \A x \in S : <<x>> \in Seq(S)
         /\ \A x, y \in S : <<x, y>> \in Seq(S)
OBVIOUS

\* Members of a sequence.
LEMMA MemberOf ==
  ASSUME NEW S, NEW q \in Seq(S)
  PROVE  \A i \in DOMAIN q : q[i] \in S
OBVIOUS

\* Appending keeps all records but the oldest of a full ledger, in their order
\* (store.go appendLocked).
LEMMA AppendRecordIs ==
  ASSUME NEW l \in Ledger, Len(l.records) <= MaxRecords, NEW r \in LedgerRecord
  PROVE  LET q == AppendRecord(l, r).records
             k == Len(l.records) + 1 - Len(q)
         IN  /\ Len(q) \in 1 .. MaxRecords
             /\ q[Len(q)] = r
             /\ k = IF Len(l.records) = MaxRecords THEN 1 ELSE 0
             /\ \A j \in 1 .. Len(q) - 1 : j + k \in DOMAIN l.records /\ q[j] = l.records[j + k]
<1> DEFINE rs == Append(l.records, r)
           n  == Len(l.records)
<1>1. l.records \in Seq(LedgerRecord) /\ n \in Nat /\ MaxRecords \in Nat /\ MaxRecords >= 1
  BY DisplayAssumption DEF Ledger
<1>2. /\ rs \in Seq(LedgerRecord) /\ Len(rs) = n + 1 /\ rs[n + 1] = r
      /\ \A j \in 1 .. n : rs[j] = l.records[j]
  BY <1>1
<1>3. AppendRecord(l, r).records = Newest(rs)
  BY DEF AppendRecord, Ledger
<1> HIDE DEF rs
<1>4. CASE n < MaxRecords
  <2>1. Newest(rs) = rs
    <3>1. ~ (Len(rs) > MaxRecords)
      BY <1>1, <1>2, <1>4
    <3> QED
      BY <3>1, Zenon DEF Newest
  <2>2. AppendRecord(l, r).records = rs
    BY <1>3, <2>1
  <2>3. /\ Len(rs) \in 1 .. MaxRecords /\ rs[Len(rs)] = r
        /\ n # MaxRecords /\ n + 1 - Len(rs) = 0
    BY <1>1, <1>2, <1>4
  <2>4. \A j \in 1 .. Len(rs) - 1 : j + 0 \in DOMAIN l.records /\ rs[j] = l.records[j + 0]
    BY <1>1, <1>2
  <2> QED
    BY <2>2, <2>3, <2>4
<1>5. CASE n = MaxRecords
  <2>1. Newest(rs) = SubSeq(rs, 2, n + 1)
    <3>1. /\ Len(rs) > MaxRecords
          /\ Len(rs) - MaxRecords + 1 = 2 /\ Len(rs) = n + 1
      BY <1>1, <1>2, <1>5
    <3> QED
      BY <3>1, Zenon DEF Newest
  <2>2. /\ Len(SubSeq(rs, 2, n + 1)) = n
        /\ \A j \in 1 .. n : SubSeq(rs, 2, n + 1)[j] = rs[j + 1]
    BY <1>1, <1>2
  <2> QED
    BY <1>1, <1>2, <1>3, <1>5, <2>1, <2>2
<1>6. n < MaxRecords \/ n = MaxRecords
  BY <1>1
<1> QED
  BY <1>4, <1>5, <1>6, Zenon

LEMMA AppendRecordIn ==
  ASSUME NEW l \in Ledger, Len(l.records) <= MaxRecords, NEW r \in LedgerRecord,
         NEW S, l.records \in Seq(S), r \in S
  PROVE  AppendRecord(l, r).records \in Seq(S)
<1> DEFINE q == AppendRecord(l, r).records
<1>1. q \in Seq(LedgerRecord)
  BY AppendRecordType DEF Ledger
<1>2. \A j \in 1 .. Len(q) : q[j] \in S
  <2>1. /\ Len(q) \in 1 .. MaxRecords
        /\ q[Len(q)] = r
        /\ \A j \in 1 .. Len(q) - 1 : \E i \in DOMAIN l.records : q[j] = l.records[i]
    BY AppendRecordIs
  <2>2. \A j \in 1 .. Len(q) : j = Len(q) \/ j \in 1 .. Len(q) - 1
    BY <2>1, DisplayAssumption
  <2>3. \A i \in DOMAIN l.records : l.records[i] \in S
    OBVIOUS
  <2> HIDE DEF q
  <2> QED
    BY <2>1, <2>2, <2>3
<1> HIDE DEF q
<1>3. q \in [1 .. Len(q) -> S] /\ Len(q) \in Nat
  BY <1>1, <1>2
<1>4. q \in Seq(S)
  BY <1>3
<1> QED
  BY <1>4 DEF q

\* Changing records in place.
LEMMA MapRecordsIn ==
  ASSUME NEW l \in Ledger, NEW S, NEW rs \in [DOMAIN l.records -> S]
  PROVE  [l EXCEPT !.records = rs].records \in Seq(S)
<1>1. PICK n \in Nat : l.records \in [1 .. n -> LedgerRecord]
  BY DEF Ledger
<1>2. rs \in [1 .. n -> S]
  BY <1>1
<1>3. rs \in Seq(S)
  BY <1>2
<1> QED
  BY <1>3 DEF Ledger

LEMMA WithCompletedIn ==
  ASSUME NEW l \in Ledger, NEW id, NEW status, NEW code, NEW S, l.records \in Seq(S),
         \A r \in S : r.id = id /\ ~ Final(r.status) => CompletedRecord(r, status, code) \in S
  PROVE  WithCompleted(l, id, status, code).records \in Seq(S)
<1> DEFINE rs == [i \in DOMAIN l.records |->
                   IF l.records[i].id = id /\ ~ Final(l.records[i].status)
                     THEN CompletedRecord(l.records[i], status, code)
                     ELSE l.records[i]]
<1>1. \A i \in DOMAIN l.records : l.records[i] \in S
  BY MemberOf
<1>2. rs \in [DOMAIN l.records -> S]
  BY <1>1
<1>3. WithCompleted(l, id, status, code) = [l EXCEPT !.records = rs]
  BY DEF WithCompleted
<1> HIDE DEF rs
<1> QED
  BY <1>2, <1>3, MapRecordsIn

LEMMA WithInterruptedIn ==
  ASSUME NEW l \in Ledger, NEW S, l.records \in Seq(S),
         \A r \in S : r.status = "accepted" /\ ~ r.pendingRefresh
           => [r EXCEPT !.status = "failed", !.code = "interrupted"] \in S
  PROVE  WithInterrupted(l).records \in Seq(S)
<1> DEFINE rs == [i \in DOMAIN l.records |->
                   IF l.records[i].status = "accepted" /\ ~ l.records[i].pendingRefresh
                     THEN [l.records[i] EXCEPT !.status = "failed", !.code = "interrupted"]
                     ELSE l.records[i]]
<1>1. \A i \in DOMAIN l.records : l.records[i] \in S
  BY MemberOf
<1>2. rs \in [DOMAIN l.records -> S]
  BY <1>1
<1>3. WithInterrupted(l) = [l EXCEPT !.records = rs]
  BY DEF WithInterrupted
<1> HIDE DEF rs
<1> QED
  BY <1>2, <1>3, MapRecordsIn

LEMMA RefreshedIn ==
  ASSUME NEW l \in Ledger, NEW i \in DOMAIN l.records, NEW S, l.records \in Seq(S),
         CompletedRecord(l.records[i], "executed", "") \in S
  PROVE  [l EXCEPT !.records[i] = CompletedRecord(@, "executed", "")].records \in Seq(S)
<1> DEFINE rs == [l.records EXCEPT ![i] = CompletedRecord(@, "executed", "")]
<1>1. \A j \in DOMAIN l.records : l.records[j] \in S
  BY MemberOf
<1>2. rs \in [DOMAIN l.records -> S]
  BY <1>1
<1>3. [l EXCEPT !.records[i] = CompletedRecord(@, "executed", "")] = [l EXCEPT !.records = rs]
  BY DEF Ledger
<1> HIDE DEF rs
<1> QED
  BY <1>2, <1>3, MapRecordsIn

\* Queueing results (client.go queueResults).
LEMMA ReplyIn ==
  ASSUME NEW R, outbox \in Seq(R), NEW rs \in Seq(R), Reply(rs)
  PROVE  outbox' \in Seq(R)
<1>1. PICK n \in 0 .. Len(rs) : outbox' = outbox \o SubSeq(rs, 1, n)
  <2>1. PICK m \in (IF session THEN {Len(rs)} ELSE 0 .. Len(rs)) :
          outbox' = outbox \o SubSeq(rs, 1, m)
    BY Zenon DEF Reply
  <2>2. m \in 0 .. Len(rs)
    BY <2>1
  <2> QED
    BY <2>1, <2>2, Zenon
<1>2. SubSeq(rs, 1, n) \in Seq(R)
  BY <1>1
<1> QED
  BY <1>1, <1>2

\* Handling a command leaves the records in S and the results in R, when the
\* records and replies it can add are there (controller.go Handle).
LEMMA HandleIn ==
  ASSUME TypeInv, NEW cmd \in Command, NEW isLapsed, Handle(cmd, isLapsed),
         NEW S, ledger.records \in Seq(S), ledgerFile.records \in Seq(S),
         NEW R, outbox \in Seq(R),
         \A r \in S : r.id = cmd.id => ResultOf(r) \in R,
         ~ Known(cmd.id) => \A v \in Verdicts(cmd, isLapsed) \ {Valid} :
           NewRecord(cmd, v[1], v[2]) \in S /\ ReplyTo(cmd, v[1], v[2]) \in R,
         ~ Known(cmd.id) /\ cmd.seq <= ledger.high =>
           NewRecord(cmd, "rejected", "out_of_order") \in S,
         ~ Known(cmd.id) /\ cmd.seq > ledger.high => AcceptedRecord(cmd) \in S,
         ReplyTo(cmd, "rejected", "out_of_order") \in R,
         ReplyTo(cmd, "failed", "state_unavailable") \in R,
         ReplyTo(cmd, "accepted", "") \in R
  PROVE  ledger'.records \in Seq(S) /\ ledgerFile'.records \in Seq(S) /\ outbox' \in Seq(R)
<1>1. PICK verdict \in Verdicts(cmd, isLapsed) :
        Replay(cmd) \/ Refuse(cmd, verdict) \/ RefuseOutOfOrder(cmd, verdict)
          \/ Accept(cmd, verdict)
  BY Zenon DEF Handle
<1>2. ledger \in Ledger /\ Len(ledger.records) <= MaxRecords /\ shown \in Snapshot
  BY DEF TypeInv, DisplayTypeOK, WithinLimit
<1>3. ASSUME NEW x \in R, Reply(<<x>>)
      PROVE  outbox' \in Seq(R)
  <2>1. <<x>> \in Seq(R)
    BY ShortSeq
  <2> QED
    BY <1>3, <2>1, ReplyIn
<1>4. ASSUME NEW l, l.records \in Seq(S), NEW written, SetLedger(l, written)
      PROVE  ledger'.records \in Seq(S) /\ ledgerFile'.records \in Seq(S)
  BY <1>4 DEF SetLedger
<1>5. CASE Replay(cmd)
  <2>1. PICK i \in DOMAIN ledger.records : ledger.records[i].id = cmd.id
                                           /\ RecordOf(cmd.id) = ledger.records[i]
    BY <1>5, Zenon DEF Replay, Known, RecordOf
  <2>2. ledger.records[i] \in S
    BY MemberOf
  <2>3. ResultOf(RecordOf(cmd.id)) \in R
    BY <2>1, <2>2
  <2> QED
    BY <1>3, <1>5, <2>3 DEF Replay
<1>6. CASE Refuse(cmd, verdict)
  <2> DEFINE r == NewRecord(cmd, verdict[1], verdict[2])
  <2>1. r \in LedgerRecord /\ r \in S /\ ReplyTo(cmd, verdict[1], verdict[2]) \in R
    BY <1>6, NewRecordType, VerdictType DEF Refuse
  <2>2. PICK written : SetLedger(AppendRecord(ledger, r), written)
    BY <1>6 DEF Refuse
  <2>3. Reply(<<ReplyTo(cmd, verdict[1], verdict[2])>>)
    BY <1>6 DEF Refuse
  <2> HIDE DEF r
  <2>4. AppendRecord(ledger, r).records \in Seq(S)
    BY <1>2, <2>1, AppendRecordIn
  <2> QED
    BY <1>3, <1>4, <2>1, <2>2, <2>3, <2>4
<1>7. CASE RefuseOutOfOrder(cmd, verdict)
  <2> DEFINE r == NewRecord(cmd, "rejected", "out_of_order")
  <2>1. r \in LedgerRecord /\ r \in S
    BY <1>7, NewRecordType DEF RefuseOutOfOrder, Statuses, FinalStatuses, Codes
  <2>2. PICK written \in WriteOutcomes("ledger_write") :
          /\ SetLedger(AppendRecord(ledger, r), written)
          /\ Reply(<<IF written THEN ReplyTo(cmd, "rejected", "out_of_order")
                                ELSE ReplyTo(cmd, "failed", "state_unavailable")>>)
    BY <1>7 DEF RefuseOutOfOrder
  <2> HIDE DEF r
  <2>3. AppendRecord(ledger, r).records \in Seq(S)
    BY <1>2, <2>1, AppendRecordIn
  <2> QED
    BY <1>3, <1>4, <2>2, <2>3
<1>8. CASE Accept(cmd, verdict)
  <2> DEFINE r == AcceptedRecord(cmd)
  <2>1. r \in LedgerRecord /\ r \in S
    BY <1>2, <1>8, AcceptedRecordType DEF Accept
  <2>2. PICK written :
          /\ SetLedger(WithAccepted(cmd), written)
          /\ \/ Reply(<<ReplyTo(cmd, "failed", "state_unavailable")>>)
             \/ Reply(<<ReplyTo(cmd, "accepted", "")>>)
             \/ UNCHANGED outbox
    BY <1>8, Zenon DEF Accept
  <2>3. AppendRecord(ledger, r).records \in Seq(S)
    BY <1>2, <2>1, AppendRecordIn
  <2>4. WithAccepted(cmd).records = AppendRecord(ledger, r).records
    <3>1. AppendRecord(ledger, r) \in Ledger
      BY <1>2, <2>1, AppendRecordType
    <3> HIDE DEF r
    <3>2. WithAccepted(cmd) = [AppendRecord(ledger, r) EXCEPT !.high = cmd.seq]
      BY DEF WithAccepted, r
    <3> QED
      BY <3>1, <3>2 DEF Ledger
  <2> HIDE DEF r
  <2> QED
    BY <1>3, <1>4, <2>2, <2>3, <2>4
<1> QED
  BY <1>1, <1>5, <1>6, <1>7, <1>8

\* Completing a UI command (controller.go Handle, store.go complete).
LEMMA CompleteIn ==
  ASSUME TypeInv, Complete,
         NEW S, ledger.records \in Seq(S), ledgerFile.records \in Seq(S),
         NEW R, outbox \in Seq(R),
         \A r \in S : r.id = busy.cmd.id /\ ~ Final(r.status)
           => CompletedRecord(r, busy.status, busy.code) \in S,
         ReplyTo(busy.cmd, "accepted", "") \in R,
         ReplyTo(busy.cmd, busy.status, busy.code) \in R,
         ReplyTo(busy.cmd, "failed", "state_unavailable") \in R
  PROVE  ledger'.records \in Seq(S) /\ ledgerFile'.records \in Seq(S) /\ outbox' \in Seq(R)
<1> DEFINE l == WithCompleted(ledger, busy.cmd.id, busy.status, busy.code)
           a == ReplyTo(busy.cmd, "accepted", "")
           f == ReplyTo(busy.cmd, busy.status, busy.code)
           u == ReplyTo(busy.cmd, "failed", "state_unavailable")
<1>1. PICK written \in WriteOutcomes("ledger_write") :
        SetLedger(l, written) /\ Reply(<<a, IF written THEN f ELSE u>>)
  BY DEF Complete
<1>2. l.records \in Seq(S)
  <2>1. ledger \in Ledger
    BY DEF TypeInv, DisplayTypeOK
  <2> QED
    BY <2>1, WithCompletedIn
<1>3. a \in R /\ f \in R /\ u \in R
  OBVIOUS
<1> HIDE DEF l, a, f, u
<1>4. \A x, y \in R : <<x, y>> \in Seq(R)
  BY ShortSeq
<1>5. <<a, IF written THEN f ELSE u>> \in Seq(R)
  BY <1>3, <1>4
<1>6. outbox' \in Seq(R)
  BY <1>1, <1>5, ReplyIn
<1> QED
  BY <1>1, <1>2, <1>6 DEF SetLedger

\* Completing a refresh (controller.go SnapshotApplied).
LEMMA CompleteRefreshIn ==
  ASSUME TypeInv, CompleteRefresh,
         NEW S, ledger.records \in Seq(S), ledgerFile.records \in Seq(S),
         NEW R, outbox \in Seq(R),
         \A r \in S : Answers(shown, r) =>
           /\ CompletedRecord(r, "executed", "") \in S
           /\ ResultOf(CompletedRecord(r, "executed", "")) \in R
  PROVE  ledger'.records \in Seq(S) /\ ledgerFile'.records \in Seq(S) /\ outbox' \in Seq(R)
<1> DEFINE done(i) == [ledger EXCEPT !.records[i] = CompletedRecord(@, "executed", "")]
<1>1. PICK i \in Answered(ledger, shown), written \in WriteOutcomes("ledger_write") :
        /\ SetLedger(done(i), written)
        /\ IF written /\ busy.report THEN Reply(<<ResultOf(done(i).records[i])>>)
                                     ELSE UNCHANGED outbox
  BY Zenon DEF CompleteRefresh
<1>2. i \in DOMAIN ledger.records /\ Answers(shown, ledger.records[i])
  BY DEF Answered
<1>3. ledger.records[i] \in S
  BY <1>2, MemberOf
<1>4. ledger \in Ledger
  BY DEF TypeInv, DisplayTypeOK
<1>5. done(i).records \in Seq(S)
  BY <1>2, <1>3, <1>4, RefreshedIn
<1>6. ResultOf(done(i).records[i]) \in R
  <2>1. done(i).records[i] = CompletedRecord(ledger.records[i], "executed", "")
    BY <1>2, <1>4 DEF Ledger
  <2> QED
    BY <1>2, <1>3, <2>1
<1> HIDE DEF done
<1>7. outbox' \in Seq(R)
  <2>1. \A x \in R : <<x>> \in Seq(R)
    BY ShortSeq
  <2>2. <<ResultOf(done(i).records[i])>> \in Seq(R)
    BY <1>6, <2>1
  <2> QED
    BY <1>1, <2>2, ReplyIn
<1> QED
  BY <1>1, <1>5, <1>7 DEF SetLedger

\* A new start of the display (store.go openResultStore).
LEMMA RestartIn ==
  ASSUME TypeInv, Restart,
         NEW S, ledgerFile.records \in Seq(S),
         \A r \in S : r.status = "accepted" /\ ~ r.pendingRefresh
           => [r EXCEPT !.status = "failed", !.code = "interrupted"] \in S,
         NEW R
  PROVE  ledger'.records \in Seq(S) /\ ledgerFile'.records \in Seq(S) /\ outbox' \in Seq(R)
<1>1. PICK opened \in Opened : ledger' = opened /\ ledgerFile' = opened
  BY DEF Restart
<1>2. opened = EmptyLedger \/ opened = WithInterrupted(ledgerFile)
  BY DEF Opened
<1>3. EmptyLedger.records \in Seq(S)
  BY ShortSeq DEF EmptyLedger
<1>4. WithInterrupted(ledgerFile).records \in Seq(S)
  <2>1. ledgerFile \in Ledger
    BY DEF TypeInv, DisplayTypeOK
  <2> QED
    BY <2>1, WithInterruptedIn
<1>5. outbox' \in Seq(R)
  BY ShortSeq DEF Restart
<1> QED
  BY <1>1, <1>2, <1>3, <1>4, <1>5

(***************************************************************************)
(* The two ends in the whole.                                              *)
(***************************************************************************)

\* Results and records that say something a display may report.
Report       == {r \in Result : <<r.status, r.code>> \in Reports}
ReportRecord == {r \in LedgerRecord : <<r.status, r.code>> \in Reports}

LinkType ==
  /\ downlink \in Seq(Command)
  /\ outbox \in Seq(Report)
  /\ uplink \in Seq(Report)
  /\ late \in Seq(Report)
  /\ ledger.records \in Seq(ReportRecord)
  /\ ledgerFile.records \in Seq(ReportRecord)
  /\ busy # Idle /\ busy.phase # "refresh" => <<busy.status, busy.code>> \in Reports
  /\ sent \in SUBSET Ids
  /\ current \in Snapshot

RemoteInv ==
  /\ BusInv
  /\ NeverOutgrowsItsFile
  /\ TypeInv
  /\ LinkType

\* A report the daemon reads is one its queue is ready for.
LEMMA ReportRecords ==
  ASSUME NEW r \in Report, RecordResult(r)
  PROVE  [BusNext]_busVars
<1>1. CASE Record(Self, r.id, r.seq, r.status, r.code)
  <2>1. /\ Self \in Devices /\ r.id \in Ids /\ r.seq \in Seqs
        /\ <<r.status, r.code>> \in Reports
    BY DisplayAssumption DEF Report, Result
  <2>2. \E p \in Reports : Record(Self, r.id, r.seq, p[1], p[2])
    <3> DEFINE p == <<r.status, r.code>>
    <3>1. p[1] = r.status /\ p[2] = r.code /\ p \in Reports
      BY <2>1
    <3> HIDE DEF p
    <3> QED
      BY <1>1, <3>1
  <2> QED
    BY <2>1, <2>2, Zenon DEF BusNext
<1>2. CASE UNCHANGED busVars
  BY <1>2
<1> QED
  BY <1>1, <1>2 DEF RecordResult

\* Every step is one of the queue, or leaves it alone.
LEMMA ToBus ==
  ASSUME LinkType, [Next]_vars
  PROVE  [BusNext]_busVars
<1>1. CASE \E d \in Devices, k \in Kinds : PublishCommand(d, k)
  BY <1>1, Zenon DEF PublishCommand, BusNext
<1>2. CASE \E c \in Ids : ReadStatus(c)
  BY <1>2, Zenon DEF ReadStatus, BusNext
<1>3. CASE PumpCommands
  BY <1>3, Zenon DEF PumpCommands, BusNext
<1>4. CASE DrainResult
  <2>1. Head(uplink) \in Report /\ RecordResult(Head(uplink))
    BY <1>4 DEF DrainResult, LinkType
  <2> QED
    BY <2>1, ReportRecords
<1>5. CASE DrainLate
  <2>1. Head(late) \in Report /\ RecordResult(Head(late))
    BY <1>5 DEF DrainLate, LinkType
  <2> QED
    BY <2>1, ReportRecords
<1>6. CASE RestartDaemon
  BY <1>6, Zenon DEF RestartDaemon, BusNext
<1>7. CASE \E c \in Ids : PassTTL(c) \/ PassExecutionWindow(c)
  BY <1>7, Zenon DEF PassTTL, PassExecutionWindow, BusNext
<1>8. CASE \/ Collect \/ Connect \/ Disconnect \/ ReceiveCommand \/ ReceiveSnapshot
           \/ TransmitResult \/ RunCommand \/ DropResult \/ RestartDisplay
  BY <1>8, Zenon DEF Collect, Connect, Disconnect, ReceiveCommand, ReceiveSnapshot,
                     TransmitResult, RunCommand, DropResult, RestartDisplay
<1>9. CASE UNCHANGED vars
  BY <1>9, Zenon DEF vars
<1> QED
  BY <1>1, <1>2, <1>3, <1>4, <1>5, <1>6, <1>7, <1>8, <1>9, Zenon DEF Next

\* Every step is one of the display, or leaves it alone.
LEMMA ToDisplay ==
  ASSUME LinkType, [Next]_vars
  PROVE  [DisplayNext]_displayVars
<1>1. CASE \/ \E d \in Devices, k \in Kinds : PublishCommand(d, k)
           \/ \E c \in Ids : ReadStatus(c)
           \/ Collect
           \/ PumpCommands
           \/ DrainResult
           \/ DrainLate
           \/ \E c \in Ids : PassTTL(c) \/ PassExecutionWindow(c)
  BY <1>1, Zenon DEF PublishCommand, ReadStatus, Collect, PumpCommands, DrainResult, DrainLate,
                     PassTTL, PassExecutionWindow
<1>2. CASE RestartDaemon \/ Connect \/ Disconnect
  <2>1. SetSession(TRUE) \/ SetSession(FALSE)
    BY <1>2, Zenon DEF RestartDaemon, Connect, Disconnect
  <2>2. \E alive \in BOOLEAN : SetSession(alive)
    BY <2>1
  <2> QED
    BY <2>2, Zenon DEF DisplayNext
<1>3. CASE ReceiveCommand
  <2> DEFINE cmd == Head(downlink)
             isLapsed == cmd.id \in lapsed
  <2>1. cmd \in Command
    BY <1>3 DEF ReceiveCommand, LinkType
  <2>2. isLapsed \in BOOLEAN
    OBVIOUS
  <2>3. Handle(cmd, isLapsed)
    BY <1>3, Zenon DEF ReceiveCommand
  <2> HIDE DEF cmd, isLapsed
  <2> QED
    BY <2>1, <2>2, <2>3, Zenon DEF DisplayNext
<1>4. CASE ReceiveSnapshot
  BY <1>4, Zenon DEF ReceiveSnapshot, DisplayNext, LinkType
<1>5. CASE TransmitResult \/ RunCommand \/ DropResult \/ RestartDisplay
  BY <1>5, Zenon DEF TransmitResult, RunCommand, DropResult, RestartDisplay, DisplayNext
<1>6. CASE UNCHANGED vars
  BY <1>6, Zenon DEF vars
<1> QED
  BY <1>1, <1>2, <1>3, <1>4, <1>5, <1>6, Zenon DEF Next

-----------------------------------------------------------------------------
(* How the ledger and the link change. *)

\* The steps that change the ledger, and what the others do to the outbox.
LEMMA LedgerCases ==
  ASSUME [Next]_vars
  PROVE  \/ ReceiveCommand
         \/ Complete /\ RunCommand
         \/ CompleteRefresh /\ RunCommand
         \/ RestartDisplay
         \/ /\ UNCHANGED <<ledger, ledgerFile>>
            /\ outbox' = outbox \/ (outbox # << >> /\ outbox' = Tail(outbox))
<1>1. CASE \/ \E d \in Devices, k \in Kinds : PublishCommand(d, k)
           \/ \E c \in Ids : ReadStatus(c)
           \/ Collect \/ PumpCommands \/ DrainResult \/ DrainLate
           \/ \E c \in Ids : PassTTL(c) \/ PassExecutionWindow(c)
           \/ UNCHANGED vars
  BY <1>1, Zenon DEF PublishCommand, ReadStatus, Collect, PumpCommands, DrainResult, DrainLate,
                     PassTTL, PassExecutionWindow, displayVars, vars
<1>2. CASE RestartDaemon \/ Connect \/ Disconnect
  BY <1>2, Zenon DEF RestartDaemon, Connect, Disconnect, SetSession
<1>3. CASE ReceiveSnapshot \/ TransmitResult \/ DropResult
  BY <1>3, Zenon DEF ReceiveSnapshot, TransmitResult, DropResult, ApplySnapshot, SendResult,
                     LoseResult
<1>4. CASE RunCommand
  BY <1>4, Zenon DEF RunCommand, Apply
<1> QED
  BY <1>1, <1>2, <1>3, <1>4, Zenon DEF Next

\* A rest of a sequence, and a sequence less its first.
LEMMA PartsOf ==
  ASSUME NEW S, NEW q \in Seq(S)
  PROVE  /\ \A n \in 0 .. Len(q) : SubSeq(q, 1, n) \in Seq(S)
         /\ q # << >> => Head(q) \in S /\ Tail(q) \in Seq(S)
         /\ \A p \in Seq(S) : q \o p \in Seq(S)
         /\ \A x \in S : Append(q, x) \in Seq(S)
<1>1. \A n \in 0 .. Len(q) : SubSeq(q, 1, n) \in Seq(S)
  OBVIOUS
<1>2. q # << >> => Head(q) \in S /\ Tail(q) \in Seq(S)
  OBVIOUS
<1> QED
  BY <1>1, <1>2

\* Results reach the daemon from the outbox only (client.go writeResults,
\* stream.go drain).
LEMMA ResultsIn ==
  ASSUME [Next]_vars, NEW R, outbox \in Seq(R), uplink \in Seq(R), late \in Seq(R)
  PROVE  uplink' \in Seq(R) /\ late' \in Seq(R)
<1>1. CASE UNCHANGED <<uplink, late>>
  BY <1>1
<1>2. CASE BreakLink
  <2>1. uplink' \in Seq(R)
    BY <1>2, ShortSeq DEF BreakLink
  <2>2. PICK n \in 0 .. Len(uplink) :
          late' = IF Len(late) + n <= MaxWire THEN late \o SubSeq(uplink, 1, n) ELSE late
    BY <1>2 DEF BreakLink
  <2>3. late \o SubSeq(uplink, 1, n) \in Seq(R)
    BY PartsOf
  <2> QED
    BY <2>1, <2>2, <2>3
<1>3. CASE RestartDaemon
  BY <1>3, ShortSeq DEF RestartDaemon
<1>4. CASE DrainResult
  BY <1>4, PartsOf DEF DrainResult
<1>5. CASE DrainLate
  BY <1>5, PartsOf DEF DrainLate
<1>6. CASE TransmitResult
  <2>1. Head(outbox) \in R
    BY <1>6, PartsOf DEF TransmitResult, SendResult
  <2> QED
    BY <1>6, <2>1, PartsOf DEF TransmitResult
<1>7. CASE \/ \E d \in Devices, k \in Kinds : PublishCommand(d, k)
           \/ \E c \in Ids : ReadStatus(c)
           \/ Collect \/ PumpCommands \/ Connect
           \/ ReceiveCommand \/ ReceiveSnapshot \/ RunCommand \/ DropResult
           \/ \E c \in Ids : PassTTL(c) \/ PassExecutionWindow(c)
           \/ UNCHANGED vars
  <2>1. UNCHANGED <<uplink, late>>
    BY <1>7, Zenon DEF PublishCommand, ReadStatus, Collect, PumpCommands, Connect, ReceiveCommand,
                       ReceiveSnapshot, RunCommand, DropResult, PassTTL, PassExecutionWindow,
                       linkVars, vars
  <2> QED
    BY <1>1, <2>1
<1>8. CASE Disconnect \/ RestartDisplay
  <2>1. BreakLink
    BY <1>8, Zenon DEF Disconnect, RestartDisplay
  <2> QED
    BY <1>2, <2>1
<1> QED
  BY <1>3, <1>4, <1>5, <1>6, <1>7, <1>8, Zenon DEF Next

\* What the pump and the reader do to the downlink and to the memory of the pump.
LEMMA DownlinkCases ==
  ASSUME [Next]_vars
  PROVE  \/ PumpCommands
         \/ downlink # << >> /\ ReceiveCommand
         \/ downlink' = << >> /\ sent' = {}
         \/ UNCHANGED <<downlink, sent>>
<1>1. CASE \/ \E d \in Devices, k \in Kinds : PublishCommand(d, k)
           \/ \E c \in Ids : ReadStatus(c)
           \/ Collect \/ DrainResult \/ DrainLate \/ Connect
           \/ ReceiveSnapshot \/ TransmitResult \/ RunCommand \/ DropResult
           \/ \E c \in Ids : PassTTL(c) \/ PassExecutionWindow(c)
           \/ UNCHANGED vars
  <2>1. UNCHANGED <<downlink, sent>>
    BY <1>1, Zenon DEF PublishCommand, ReadStatus, Collect, DrainResult, DrainLate, Connect,
                       ReceiveSnapshot, TransmitResult, RunCommand, DropResult, PassTTL,
                       PassExecutionWindow, linkVars, vars
  <2> QED
    BY <2>1
<1>2. CASE RestartDaemon \/ Disconnect \/ RestartDisplay
  BY <1>2, Zenon DEF RestartDaemon, Disconnect, RestartDisplay, BreakLink
<1>3. CASE ReceiveCommand
  BY <1>3, Zenon DEF ReceiveCommand
<1> QED
  BY <1>1, <1>2, <1>3, Zenon DEF Next

\* What the pump hands to the display is as the queue has it.
LEMMA CommandsIn ==
  ASSUME [Next]_vars, bus' \in BusState, NEW M, downlink \in Seq(M),
         PumpCommands => \A c \in Deliverable(bus', Self, sent) : Wire(bus', c) \in M
  PROVE  downlink' \in Seq(M)
<1>1. CASE PumpCommands
  <2>1. PICK ids \in SUBSET Deliverable(bus', Self, sent) :
          downlink' = downlink \o Batch(bus', ids)
    BY <1>1 DEF PumpCommands
  <2>2. ids \in SUBSET Live(bus')
    BY <2>1 DEF Deliverable, Pending
  <2> DEFINE q == Batch(bus', ids)
  <2>3. /\ q \in Seq(Command)
        /\ \A i \in DOMAIN q : \E c \in ids : q[i] = Wire(bus', c)
    BY <2>2, BatchIs
  <2> HIDE DEF q
  <2>4. \A i \in DOMAIN q : q[i] \in M
    BY <1>1, <2>3
  <2>5. q \in Seq(M)
    <3>1. PICK n \in Nat : q \in [1 .. n -> Command]
      BY <2>3
    <3>2. q \in [1 .. n -> M]
      BY <2>4, <3>1
    <3> QED
      BY <3>2
  <2> QED
    BY <2>1, <2>5, PartsOf DEF q
<1>2. CASE downlink # << >> /\ ReceiveCommand
  BY <1>2, PartsOf DEF ReceiveCommand
<1>3. CASE downlink' = << >>
  BY <1>3, ShortSeq
<1>4. CASE UNCHANGED downlink
  BY <1>4
<1> QED
  BY <1>1, <1>2, <1>3, <1>4, DownlinkCases, Zenon

\* What becomes of the handler of the read loop.
LEMMA BusyCases ==
  ASSUME [Next]_vars
  PROVE  \/ busy' = busy
         \/ busy' = Idle
         \/ busy'.phase = "refresh" /\ shown' # NoSnapshot
         \/ /\ ReceiveCommand
            /\ busy' = [phase |-> "apply", cmd |-> Head(downlink),
                        status |-> "executed", code |-> ""]
            /\ \E verdict : Accept(Head(downlink), verdict)
            /\ Head(downlink).kind # "refresh"
            /\ ledger' = WithAccepted(Head(downlink)) /\ ledgerFile' = ledger'
         \/ Apply /\ UNCHANGED <<busVars, linkVars, current>>
<1>1. CASE \/ \E d \in Devices, k \in Kinds : PublishCommand(d, k)
           \/ \E c \in Ids : ReadStatus(c)
           \/ Collect \/ PumpCommands \/ DrainResult \/ DrainLate
           \/ \E c \in Ids : PassTTL(c) \/ PassExecutionWindow(c)
           \/ UNCHANGED vars
  BY <1>1, Zenon DEF PublishCommand, ReadStatus, Collect, PumpCommands, DrainResult, DrainLate,
                     PassTTL, PassExecutionWindow, displayVars, vars
<1>2. CASE RestartDaemon \/ Connect \/ Disconnect \/ TransmitResult \/ DropResult
  BY <1>2, Zenon DEF RestartDaemon, Connect, Disconnect, SetSession, TransmitResult, SendResult,
                     DropResult, LoseResult
<1>3. ASSUME NEW l, NEW report, busy' = Refreshing(l, shown', report)
      PROVE  busy' = Idle \/ (busy'.phase = "refresh" /\ shown' # NoSnapshot)
  BY <1>3 DEF Refreshing
<1>4. CASE ReceiveSnapshot
  <2>1. busy' = Refreshing(ledger, shown', TRUE)
    BY <1>4, Zenon DEF ReceiveSnapshot, ApplySnapshot
  <2> QED
    BY <1>3, <2>1
<1>5. CASE RestartDisplay
  <2>1. \E opened : busy' = Refreshing(opened, shown', FALSE)
    BY <1>5, Zenon DEF RestartDisplay, Restart
  <2> QED
    BY <1>3, <2>1
<1>6. CASE RunCommand
  <2>1. CASE Apply
    BY <1>6, <2>1, Zenon DEF RunCommand
  <2>2. CASE Complete
    BY <2>2, Zenon DEF Complete
  <2>3. CASE CompleteRefresh
    <3>1. \E l : busy' = Refreshing(l, shown', busy.report)
      <4>1. \E l : busy' = Refreshing(l, shown, busy.report)
        BY <2>3, Zenon DEF CompleteRefresh
      <4>2. shown' = shown
        BY <2>3, Zenon DEF CompleteRefresh
      <4> QED
        BY <4>1, <4>2
    <3> QED
      BY <1>3, <3>1
  <2> QED
    BY <1>6, <2>1, <2>2, <2>3 DEF RunCommand
<1>7. CASE ReceiveCommand
  <2> DEFINE cmd == Head(downlink)
  <2>1. PICK verdict : Replay(cmd) \/ Refuse(cmd, verdict) \/ RefuseOutOfOrder(cmd, verdict)
                       \/ Accept(cmd, verdict)
    BY <1>7, Zenon DEF ReceiveCommand, Handle
  <2>2. CASE Replay(cmd) \/ Refuse(cmd, verdict) \/ RefuseOutOfOrder(cmd, verdict)
    BY <2>2, Zenon DEF Replay, Refuse, RefuseOutOfOrder
  <2>3. CASE Accept(cmd, verdict)
    <3>1. PICK written :
            /\ SetLedger(WithAccepted(cmd), written)
            /\ \/ busy' = busy
               \/ /\ written /\ cmd.kind # "refresh"
                  /\ busy' = [phase |-> "apply", cmd |-> cmd,
                              status |-> "executed", code |-> ""]
      BY <2>3, Zenon DEF Accept
    <3> QED
      BY <1>7, <2>3, <3>1, Zenon DEF SetLedger
  <2> QED
    BY <2>1, <2>2, <2>3
<1> QED
  BY <1>1, <1>2, <1>4, <1>5, <1>6, <1>7, Zenon DEF Next

-----------------------------------------------------------------------------
(* What travels over the link, and what the ledger says. *)

\* A refusal, and each of the other replies, is something to report.
LEMMA ReplyReports ==
  ASSUME NEW cmd \in Command
  PROVE  /\ ReplyTo(cmd, "accepted", "") \in Report
         /\ ReplyTo(cmd, "failed", "state_unavailable") \in Report
         /\ ReplyTo(cmd, "rejected", "out_of_order") \in Report
         /\ \A status, code : <<status, code>> \in Reports => ReplyTo(cmd, status, code) \in Report
<1>1. \A status, code : <<status, code>> \in Reports => status \in Statuses /\ code \in Codes
  BY DEF Reports, Statuses, FinalStatuses, Codes
<1>2. \A status \in Statuses, code \in Codes :
        ReplyTo(cmd, status, code) \in Result
        /\ ReplyTo(cmd, status, code).status = status /\ ReplyTo(cmd, status, code).code = code
  BY DEF ReplyTo, Result, Command
<1>3. \A status, code : <<status, code>> \in Reports => ReplyTo(cmd, status, code) \in Report
  BY <1>1, <1>2, Zenon DEF Report
<1>4. /\ <<"accepted", "">> \in Reports
      /\ <<"failed", "state_unavailable">> \in Reports
      /\ <<"rejected", "out_of_order">> \in Reports
  BY DEF Reports
<1> QED
  BY <1>3, <1>4

\* What validation decides (validate.go, controller.go).
LEMMA VerdictReports ==
  ASSUME NEW cmd, NEW isLapsed, NEW v \in Verdicts(cmd, isLapsed), v # Valid
  PROVE  /\ v[1] \in {"expired", "rejected"}
         /\ v[2] \in {"expired", "issued_in_future", "wrong_target"}
         /\ <<v[1], v[2]>> \in Reports
<1>1. v \in {<<"expired", "expired">>, <<"rejected", "issued_in_future">>,
             <<"rejected", "wrong_target">>}
  BY DEF Verdicts, Valid
<1>2. CASE v = <<"expired", "expired">>
  BY <1>2 DEF Reports
<1>3. CASE v = <<"rejected", "issued_in_future">>
  BY <1>3 DEF Reports
<1>4. CASE v = <<"rejected", "wrong_target">>
  BY <1>4 DEF Reports
<1> QED
  BY <1>1, <1>2, <1>3, <1>4

\* New and changed records.
LEMMA RecordReports ==
  ASSUME NEW cmd \in Command, shown \in Snapshot
  PROVE  /\ \A status, code : <<status, code>> \in Reports =>
              NewRecord(cmd, status, code) \in ReportRecord
         /\ AcceptedRecord(cmd) \in ReportRecord
<1>1. \A status, code : <<status, code>> \in Reports => status \in Statuses /\ code \in Codes
  BY DEF Reports, Statuses, FinalStatuses, Codes
<1>2. \A status \in Statuses, code \in Codes :
        /\ NewRecord(cmd, status, code) \in LedgerRecord
        /\ NewRecord(cmd, status, code).status = status
        /\ NewRecord(cmd, status, code).code = code
  BY NewRecordType DEF NewRecord
<1>3. \A status, code : <<status, code>> \in Reports =>
        NewRecord(cmd, status, code) \in ReportRecord
  BY <1>1, <1>2, Zenon DEF ReportRecord
<1>4. AcceptedRecord(cmd).status = "accepted" /\ AcceptedRecord(cmd).code = ""
  BY DEF AcceptedRecord, NewRecord
<1>5. AcceptedRecord(cmd) \in ReportRecord
  BY <1>4, AcceptedRecordType DEF ReportRecord, Reports
<1> QED
  BY <1>3, <1>5

LEMMA ChangedReports ==
  ASSUME NEW r \in ReportRecord
  PROVE  /\ ResultOf(r) \in Report
         /\ \A status, code : <<status, code>> \in Reports =>
              CompletedRecord(r, status, code) \in ReportRecord
         /\ [r EXCEPT !.status = "failed", !.code = "interrupted"] \in ReportRecord
<1>1. r \in LedgerRecord /\ <<r.status, r.code>> \in Reports
  BY DEF ReportRecord
<1>2. ResultOf(r) \in Report
  <2>1. ResultOf(r) \in Result /\ ResultOf(r).status = r.status /\ ResultOf(r).code = r.code
    BY <1>1 DEF ResultOf, Result, LedgerRecord
  <2> QED
    BY <1>1, <2>1, Zenon DEF Report
<1>3. \A status, code : <<status, code>> \in Reports => status \in Statuses /\ code \in Codes
  BY DEF Reports, Statuses, FinalStatuses, Codes
<1>4. \A status \in Statuses, code \in Codes :
        /\ CompletedRecord(r, status, code) \in LedgerRecord
        /\ CompletedRecord(r, status, code).status = status
        /\ CompletedRecord(r, status, code).code = code
  BY <1>1, CompletedRecordType DEF CompletedRecord, LedgerRecord
<1>5. \A status, code : <<status, code>> \in Reports =>
        CompletedRecord(r, status, code) \in ReportRecord
  BY <1>3, <1>4, Zenon DEF ReportRecord
<1>6. [r EXCEPT !.status = "failed", !.code = "interrupted"] \in ReportRecord
  <2> DEFINE r2 == [r EXCEPT !.status = "failed", !.code = "interrupted"]
  <2>1. r2 \in LedgerRecord /\ r2.status = "failed" /\ r2.code = "interrupted"
    BY <1>1 DEF LedgerRecord, Statuses, FinalStatuses, Codes
  <2>2. <<"failed", "interrupted">> \in Reports
    BY DEF Reports
  <2> HIDE DEF r2
  <2>3. r2 \in ReportRecord
    BY <2>1, <2>2 DEF ReportRecord
  <2> QED
    BY <2>3 DEF r2
<1> QED
  BY <1>2, <1>5, <1>6

\* The handler of a UI command has a command and an outcome.
LEMMA BusyType ==
  ASSUME TypeInv, busy # Idle, busy.phase # "refresh"
  PROVE  /\ busy.phase \in {"apply", "complete"} /\ busy.cmd \in Command
         /\ busy.status \in FinalStatuses /\ busy.code \in Codes
<1>1. busy \in [phase : {"apply", "complete"}, cmd : Command, status : FinalStatuses, code : Codes]
                 \cup [phase : {"refresh"}, report : BOOLEAN]
  BY DEF TypeInv, DisplayTypeOK, Busy
<1> QED
  BY <1>1

\* The ledger and the outbox.
LEMMA LedgerReports ==
  ASSUME RemoteInv, [Next]_vars
  PROVE  /\ ledger'.records \in Seq(ReportRecord)
         /\ ledgerFile'.records \in Seq(ReportRecord)
         /\ outbox' \in Seq(Report)
<1>1. /\ TypeInv /\ shown \in Snapshot
      /\ ledger.records \in Seq(ReportRecord) /\ ledgerFile.records \in Seq(ReportRecord)
      /\ outbox \in Seq(Report)
  BY DEF RemoteInv, LinkType, TypeInv, DisplayTypeOK
<1>2. CASE ReceiveCommand
  <2> DEFINE cmd == Head(downlink)
  <2>1. cmd \in Command
    BY <1>2 DEF ReceiveCommand, RemoteInv, LinkType
  <2>2. Handle(cmd, cmd.id \in lapsed)
    BY <1>2, Zenon DEF ReceiveCommand
  <2> HIDE DEF cmd
  <2>3. \A r \in ReportRecord : ResultOf(r) \in Report
    BY ChangedReports
  <2>4. \A v \in Verdicts(cmd, cmd.id \in lapsed) \ {Valid} :
          NewRecord(cmd, v[1], v[2]) \in ReportRecord /\ ReplyTo(cmd, v[1], v[2]) \in Report
    BY <1>1, <2>1, VerdictReports, RecordReports, ReplyReports
  <2>5. NewRecord(cmd, "rejected", "out_of_order") \in ReportRecord
    <3>1. <<"rejected", "out_of_order">> \in Reports
      BY DEF Reports
    <3> QED
      BY <1>1, <2>1, <3>1, RecordReports
  <2>6. AcceptedRecord(cmd) \in ReportRecord
    BY <1>1, <2>1, RecordReports
  <2> QED
    BY <1>1, <2>1, <2>2, <2>3, <2>4, <2>5, <2>6, ReplyReports, HandleIn
<1>3. CASE Complete
  <2>1. busy.cmd \in Command /\ <<busy.status, busy.code>> \in Reports
    BY <1>1, <1>3, BusyType DEF Complete, RemoteInv, LinkType
  <2>2. \A r \in ReportRecord : CompletedRecord(r, busy.status, busy.code) \in ReportRecord
    BY <2>1, ChangedReports
  <2> QED
    BY <1>1, <1>3, <2>1, <2>2, ReplyReports, CompleteIn
<1>4. CASE CompleteRefresh
  <2>1. <<"executed", "">> \in Reports
    BY DEF Reports
  <2>2. \A r \in ReportRecord : /\ CompletedRecord(r, "executed", "") \in ReportRecord
                                /\ ResultOf(CompletedRecord(r, "executed", "")) \in Report
    BY <2>1, ChangedReports
  <2> QED
    BY <1>1, <1>4, <2>2, CompleteRefreshIn
<1>5. CASE RestartDisplay
  <2>1. \A r \in ReportRecord :
          [r EXCEPT !.status = "failed", !.code = "interrupted"] \in ReportRecord
    BY ChangedReports
  <2>2. Restart
    BY <1>5, Zenon DEF RestartDisplay
  <2> QED
    BY <1>1, <2>1, <2>2, RestartIn
<1>6. CASE /\ UNCHANGED <<ledger, ledgerFile>>
           /\ outbox' = outbox \/ (outbox # << >> /\ outbox' = Tail(outbox))
  BY <1>1, <1>6, PartsOf
<1> QED
  BY <1>2, <1>3, <1>4, <1>5, <1>6, LedgerCases, Zenon

LEMMA LinkStep ==
  ASSUME RemoteInv, bus' \in BusState, [Next]_vars
  PROVE  LinkType'
<1>1. TypeInv
  BY DEF RemoteInv
<1>2. downlink' \in Seq(Command)
  <2>1. \A c \in Live(bus') : Wire(bus', c) \in Command
    BY EntryType DEF Wire, Command, Entry, Live
  <2> QED
    BY <2>1, CommandsIn DEF RemoteInv, LinkType, Deliverable, Pending
<1>3. uplink' \in Seq(Report) /\ late' \in Seq(Report)
  BY ResultsIn DEF RemoteInv, LinkType
<1>4. sent' \in SUBSET Ids
  <2>1. CASE PumpCommands
    BY <2>1 DEF PumpCommands, Deliverable, Pending, Live, RemoteInv, LinkType
  <2>2. CASE downlink # << >> /\ ReceiveCommand
    BY <2>2 DEF ReceiveCommand, RemoteInv, LinkType
  <2> QED
    BY <2>1, <2>2, DownlinkCases DEF RemoteInv, LinkType
<1>5. current' \in Snapshot
  <2>1. current \in Snapshot
    BY DEF RemoteInv, LinkType
  <2>2. CASE Collect
    BY <2>1, <2>2, DisplayAssumption DEF Collect, Snapshot
  <2>3. CASE RestartDaemon
    BY <2>1, <2>3, DisplayAssumption DEF RestartDaemon, Snapshot
  <2>4. CASE current' = current
    BY <2>1, <2>4
  <2>5. Collect \/ RestartDaemon \/ current' = current
    BY Zenon DEF Next, PublishCommand, ReadStatus, PumpCommands, DrainResult, DrainLate, Connect,
                 Disconnect, ReceiveCommand, ReceiveSnapshot, TransmitResult, RunCommand,
                 DropResult, RestartDisplay, PassTTL, PassExecutionWindow, vars
  <2> QED
    BY <2>2, <2>3, <2>4, <2>5
<1>6. (busy # Idle /\ busy.phase # "refresh" => <<busy.status, busy.code>> \in Reports)'
  <2>1. CASE busy' = busy
    BY <2>1 DEF RemoteInv, LinkType
  <2>2. CASE busy' = Idle \/ busy'.phase = "refresh"
    BY <2>2
  <2>3. CASE busy' = [phase |-> "apply", cmd |-> Head(downlink),
                      status |-> "executed", code |-> ""]
    BY <2>3 DEF Reports
  <2>4. CASE Apply
    <3>1. busy # Idle /\ busy.phase = "apply" /\ <<busy.status, busy.code>> \in Reports
      BY <2>4 DEF Apply, RemoteInv, LinkType
    <3>2. \/ busy' = [busy EXCEPT !.phase = "complete"]
          \/ busy' = [busy EXCEPT !.phase = "complete", !.status = "failed",
                                  !.code = "unsupported_capability"]
      BY <2>4, Zenon DEF Apply
    <3>3. busy \in [phase : {"apply", "complete"}, cmd : Command, status : FinalStatuses,
                    code : Codes]
      BY <1>1, <3>1 DEF TypeInv, DisplayTypeOK, Busy
    <3>4. CASE busy' = [busy EXCEPT !.phase = "complete"]
      BY <3>1, <3>3, <3>4
    <3>5. CASE busy' = [busy EXCEPT !.phase = "complete", !.status = "failed",
                                    !.code = "unsupported_capability"]
      BY <3>3, <3>5 DEF Reports
    <3> QED
      BY <3>2, <3>4, <3>5
  <2> QED
    BY <2>1, <2>2, <2>3, <2>4, BusyCases
<1> QED
  BY <1>2, <1>3, <1>4, <1>5, <1>6, LedgerReports DEF LinkType

LEMMA RemoteStep ==
  ASSUME RemoteInv, [Next]_vars
  PROVE  RemoteInv' /\ [BusNext]_busVars /\ [DisplayNext]_displayVars
<1>1. [BusNext]_busVars /\ [DisplayNext]_displayVars
  BY ToBus, ToDisplay DEF RemoteInv
<1>2. BusInv' /\ NeverOutgrowsItsFile' /\ TypeInv'
  BY <1>1, BusStep, BoundedStep, TypeStep DEF RemoteInv
<1>3. bus' \in BusState
  BY <1>2 DEF BusInv, Sound
<1>4. LinkType'
  BY <1>3, LinkStep
<1> QED
  BY <1>1, <1>2, <1>4 DEF RemoteInv

LEMMA RemoteInit == Init => RemoteInv
<1> SUFFICES ASSUME Init
             PROVE  RemoteInv
  OBVIOUS
<1>1. BusInit /\ DisplayInit
  BY DEF Init
<1>2. BusInv
  BY <1>1, EmptySound, ProtocolAssumption DEF BusInit, BusInv, RestartKeepsAnswers, Unwritten
<1>3. NeverOutgrowsItsFile
  BY <1>1, EmptyBounded DEF BusInit, NeverOutgrowsItsFile
<1>4. TypeInv
  BY <1>1, TypeInit
<1>5. current \in Snapshot
  <2>1. current = [epoch |-> 1, version |-> 0]
    BY DEF Init
  <2>2. 1 \in 0 .. MaxEpoch /\ 0 \in 0 .. MaxVersion
    BY DisplayAssumption, RemoteAssumption
  <2> QED
    BY <2>1, <2>2 DEF Snapshot
<1>6. LinkType
  <2>1. /\ downlink = << >> /\ uplink = << >> /\ late = << >> /\ sent = {}
        /\ outbox = << >> /\ busy = Idle
        /\ ledger.records = << >> /\ ledgerFile.records = << >>
    BY <1>1 DEF Init, DisplayInit, EmptyLedger
  <2> QED
    BY <1>5, <2>1, ShortSeq DEF LinkType
<1> QED
  BY <1>2, <1>3, <1>4, <1>6 DEF RemoteInv

LEMMA RemoteInvariance == Spec => []RemoteInv
<1>1. RemoteInv /\ [Next]_vars => RemoteInv'
  BY RemoteStep
<1> QED
  BY <1>1, RemoteInit, PTL DEF Spec

\* Together the daemon, the stream and the display do to the queue only what the
\* queue may meet, and to the display only what the display may meet: the two
\* specifications of the ends hold of the whole (bus.go, controller.go, stream.go,
\* client.go).
THEOREM EndsInTheWhole == Spec => BusSpec /\ DisplaySpec
<1>1. Init => BusInit /\ DisplayInit
  BY DEF Init
<1>2. RemoteInv /\ [Next]_vars => [BusNext]_busVars /\ [DisplayNext]_displayVars
  BY RemoteStep
<1> QED
  BY <1>1, <1>2, RemoteInvariance, PTL DEF Spec, BusSpec, DisplaySpec

\* End to end, whatever is lost, retried or restarted: the types, the length of the
\* ledger, and commands that change the screen at most once and in order as long as
\* the ledger file can be read (store.go accept, appendLocked).
THEOREM RemoteDisplaySafe ==
  /\ Spec => []DisplayTypeOK
  /\ Spec => []WithinLimit
  /\ "ledger_corrupt" \notin Faults => (Spec => []AppliedOnceInOrder)
<1>1. Spec => []DisplayTypeOK
  BY EndsInTheWhole, DisplayTypeCorrect, PTL
<1>2. Spec => []WithinLimit
  BY EndsInTheWhole, LedgerWithinLimit, PTL
<1>3. ASSUME "ledger_corrupt" \notin Faults
      PROVE  Spec => []AppliedOnceInOrder
  <2>1. DisplaySpec => [](AppliedOnceInOrder /\ HighWater)
    BY <1>3, AppliedInOrder
  <2> QED
    BY <2>1, EndsInTheWhole, PTL
<1> QED
  BY <1>1, <1>2, <1>3

(***************************************************************************)
(* How the queue changes in a step: what the daemon may say of a command   *)
(* next.                                                                   *)
(***************************************************************************)

\* e2 is an entry about the same command as e.
SameCommand(e, e2) ==
  e2 # NoEntry /\ e2.device = e.device /\ e2.kind = e.kind /\ e2.seq = e.seq

\* From queue b to b2, entries stay, are forgotten, end without the display, end or
\* move on as the display reports of command c0 (its status st), or are fresh.
Moves(b, b2, c0, st) ==
  /\ \A c \in Ids :
       \/ b2.entries[c] = b.entries[c]
       \/ b2.entries[c] = NoEntry
       \/ /\ c \in Pending(b) /\ SameCommand(b.entries[c], b2.entries[c])
          /\ b2.entries[c].status \in {"expired", "failed"}
       \/ /\ c = c0 /\ c \in Pending(b) /\ c \in Pending(bus)
          /\ SameCommand(b.entries[c], b2.entries[c])
          /\ b2.entries[c].status = st
       \/ /\ c = issued + 1 /\ issued' = c
          /\ b2.entries[c] \in Entry
          /\ b2.entries[c].status = "published" /\ b2.entries[c].seq = b2.sequence
  /\ \/ issued' = issued /\ b2.sequence = b.sequence
     \/ /\ issued' = issued + 1 /\ b2.sequence = b.sequence + 1
        /\ b2.entries[issued'] # NoEntry

\* Nothing moves.
LEMMA MovesNot ==
  ASSUME NEW b, NEW c0, NEW st, issued' = issued
  PROVE  Moves(b, b, c0, st)
BY DEF Moves

\* What memory and file have in common at the start of a step.
LEMMA MovesFile ==
  ASSUME BusInv, NEW b2, NEW c0, NEW st, Moves(bus, b2, c0, st)
  PROVE  Moves(busFile, b2, c0, st)
<1>1. busFile.sequence = bus.sequence
  BY DEF BusInv, RestartKeepsAnswers, Unwritten
<1>2. ASSUME NEW c \in Ids
      PROVE  \/ busFile.entries[c] = bus.entries[c]
             \/ /\ c \in Pending(busFile) /\ c \notin Pending(bus)
                /\ SameCommand(busFile.entries[c], bus.entries[c])
                /\ bus.entries[c].status \in {"expired", "failed"}
  <2>1. CASE c \in Pending(busFile) /\ bus.entries[c] = TimedOut(busFile.entries[c])
    <3>1. busFile.entries[c] \in Entry /\ NoEntry \notin Entry
      BY <2>1, EntryType DEF BusInv, Sound, Pending, Live
    <3>2. /\ bus.entries[c] \in Entry
          /\ bus.entries[c].device = busFile.entries[c].device
          /\ bus.entries[c].kind = busFile.entries[c].kind
          /\ bus.entries[c].seq = busFile.entries[c].seq
          /\ bus.entries[c].status \in {"expired", "failed"}
      BY <2>1, <3>1, TimedOutIs
    <3>3. c \notin Pending(bus)
      BY <3>2 DEF Pending, Final, FinalStatuses
    <3> QED
      BY <2>1, <3>1, <3>2, <3>3 DEF SameCommand
  <2> QED
    BY <2>1 DEF BusInv, RestartKeepsAnswers, Unwritten
<1>3. ASSUME NEW c \in Ids
      PROVE  \/ b2.entries[c] = busFile.entries[c]
             \/ b2.entries[c] = NoEntry
             \/ /\ c \in Pending(busFile) /\ SameCommand(busFile.entries[c], b2.entries[c])
                /\ b2.entries[c].status \in {"expired", "failed"}
             \/ /\ c = c0 /\ c \in Pending(busFile) /\ c \in Pending(bus)
                /\ SameCommand(busFile.entries[c], b2.entries[c])
                /\ b2.entries[c].status = st
             \/ /\ c = issued + 1 /\ issued' = c
                /\ b2.entries[c] \in Entry
                /\ b2.entries[c].status = "published" /\ b2.entries[c].seq = b2.sequence
  <2>1. \/ b2.entries[c] = bus.entries[c]
        \/ b2.entries[c] = NoEntry
        \/ /\ c \in Pending(bus) /\ SameCommand(bus.entries[c], b2.entries[c])
           /\ b2.entries[c].status \in {"expired", "failed"}
        \/ /\ c = c0 /\ c \in Pending(bus) /\ c \in Pending(bus)
           /\ SameCommand(bus.entries[c], b2.entries[c])
           /\ b2.entries[c].status = st
        \/ /\ c = issued + 1 /\ issued' = c
           /\ b2.entries[c] \in Entry
           /\ b2.entries[c].status = "published" /\ b2.entries[c].seq = b2.sequence
    BY DEF Moves
  <2>2. CASE busFile.entries[c] = bus.entries[c]
    <3>1. c \in Pending(bus) => c \in Pending(busFile)
      BY <2>2 DEF Pending, Live
    <3> QED
      BY <2>1, <2>2, <3>1
  <2>3. CASE /\ c \in Pending(busFile) /\ c \notin Pending(bus)
             /\ SameCommand(busFile.entries[c], bus.entries[c])
             /\ bus.entries[c].status \in {"expired", "failed"}
    BY <2>1, <2>3
  <2> QED
    BY <1>2, <2>2, <2>3
<1> QED
  BY <1>1, <1>3 DEF Moves

\* Timing out moves entries on (bus.go expireLocked).
LEMMA MovesExpired ==
  ASSUME BusInv, issued' = issued
  PROVE  Moves(bus, Expired(bus), 0, "")
<1>1. bus \in BusState
  BY DEF BusInv, Sound
<1>2. ASSUME NEW c \in Ids
      PROVE  \/ Expired(bus).entries[c] = bus.entries[c]
             \/ /\ c \in Pending(bus) /\ SameCommand(bus.entries[c], Expired(bus).entries[c])
                /\ Expired(bus).entries[c].status \in {"expired", "failed"}
  <2>1. CASE c \in Pending(bus) /\ Expired(bus).entries[c] = TimedOut(bus.entries[c])
    <3>1. bus.entries[c] \in Entry /\ NoEntry \notin Entry
      BY <1>1, <2>1, EntryType DEF Pending, Live
    <3> DEFINE e2 == Expired(bus).entries[c]
    <3>2. /\ e2 \in Entry /\ e2.device = bus.entries[c].device
          /\ e2.kind = bus.entries[c].kind /\ e2.seq = bus.entries[c].seq
          /\ e2.status \in {"expired", "failed"}
      BY <2>1, <3>1, TimedOutIs
    <3> HIDE DEF e2
    <3>3. SameCommand(bus.entries[c], e2)
      BY <3>1, <3>2 DEF SameCommand
    <3> QED
      BY <2>1, <3>2, <3>3 DEF e2
  <2> QED
    BY <1>1, <2>1, ExpiredKeeps
<1>3. Expired(bus).sequence = bus.sequence
  BY <1>1, ExpiredKeeps DEF Keeps
<1> QED
  BY <1>2, <1>3 DEF Moves

\* A new result, and the entries around it.
LEMMA SetResultIs ==
  ASSUME NEW b \in BusState, NEW c \in Pending(b), NEW status \in Statuses, NEW code \in Codes
  PROVE  LET b2 == SetResult(b, c, status, code)
         IN  /\ b2 \in BusState /\ b2.sequence = b.sequence
             /\ \A d \in Ids : d # c => b2.entries[d] = b.entries[d]
             /\ SameCommand(b.entries[c], b2.entries[c])
             /\ b2.entries[c].status = status
<1>1. c \in Ids /\ c \in Live(b) /\ b.entries[c] \in Entry /\ NoEntry \notin Entry
  BY EntryType DEF Pending, Live
<1> DEFINE e  == [b.entries[c] EXCEPT !.status = status, !.code = code]
           es == [b.entries EXCEPT ![c] = e]
<1>2. e \in Entry /\ SameCommand(b.entries[c], e) /\ e.status = status
  <2>1. e \in Entry /\ e.seq = b.entries[c].seq /\ e.device = b.entries[c].device
        /\ e.kind = b.entries[c].kind /\ e.status = status
    BY <1>1 DEF Entry
  <2> HIDE DEF e
  <2> QED
    BY <1>1, <2>1 DEF SameCommand
<1>3. SetResult(b, c, status, code) = [b EXCEPT !.entries = es]
  BY <1>1 DEF SetResult, BusState
<1> HIDE DEF e
<1>4. /\ es \in [Ids -> Entry \cup {NoEntry}]
      /\ es[c] = e
      /\ \A d \in Ids : d # c => es[d] = b.entries[d]
  BY <1>1, <1>2 DEF BusState
<1> HIDE DEF es
<1> QED
  BY <1>1, <1>2, <1>3, <1>4, MapEntriesType

\* A report moves its own command only, and trimming only forgets (bus.go Record).
LEMMA MovesRecorded ==
  ASSUME BusInv, issued' = issued, NEW c \in Pending(bus), NEW status \in Statuses, NEW code \in Codes
  PROVE  Moves(bus, Trimmed(SetResult(bus, c, status, code)), c, status)
<1> DEFINE b  == SetResult(bus, c, status, code)
           b2 == Trimmed(b)
<1>1. bus \in BusState
  BY DEF BusInv, Sound
<1>2. /\ b \in BusState /\ b.sequence = bus.sequence
      /\ \A d \in Ids : d # c => b.entries[d] = bus.entries[d]
      /\ SameCommand(bus.entries[c], b.entries[c])
      /\ b.entries[c].status = status
  BY <1>1, SetResultIs
<1> HIDE DEF b
<1>3. b2.sequence = b.sequence /\ \A d \in Ids : b2.entries[d] \in {b.entries[d], NoEntry}
  BY <1>2, TrimmedKeeps DEF Keeps
<1> HIDE DEF b2
<1>4. Moves(bus, b2, c, status)
  BY <1>2, <1>3 DEF Moves
<1> QED
  BY <1>4 DEF b, b2

\* A publish adds a fresh entry, which trimming keeps (bus.go Publish).
LEMMA EnqueuedIs ==
  ASSUME NEW b, Sound(b), issued \in 0 .. MaxIssued, issued < MaxIssued,
         NEW device \in Devices, NEW kind \in Kinds
  PROVE  LET b2 == Enqueued(b, issued + 1, device, kind)
         IN  /\ b2.sequence = b.sequence + 1
             /\ \A c \in Ids : c # issued + 1 => b2.entries[c] \in {b.entries[c], NoEntry}
             /\ b2.entries[issued + 1] \in Entry
             /\ b2.entries[issued + 1].status = "published"
             /\ b2.entries[issued + 1].seq = b2.sequence
<1> DEFINE c0 == issued + 1
           e  == [device |-> device, kind |-> kind, seq |-> b.sequence + 1,
                  status |-> "published", code |-> ""]
           es == [b.entries EXCEPT ![c0] = e]
           b1 == [sequence |-> b.sequence + 1, entries |-> es]
           b2 == Trimmed(b1)
<1>1. b \in BusState /\ b.sequence \in Nat /\ b.sequence + 1 \in Seqs /\ c0 \in Ids
  BY ProtocolAssumption DEF Sound, BusState, Seqs, Ids
<1>2. e \in Entry /\ e.seq = b.sequence + 1 /\ e.status = "published"
  BY <1>1 DEF Entry, Statuses, Codes
<1> HIDE DEF e
<1>3. /\ es \in [Ids -> Entry \cup {NoEntry}]
      /\ es[c0] = e
      /\ \A c \in Ids : c # c0 => es[c] = b.entries[c]
  BY <1>1, <1>2 DEF BusState
<1>4. b1 \in BusState /\ b1.sequence = b.sequence + 1 /\ b1.entries = es
  BY <1>1, <1>3 DEF BusState, Seqs
<1> HIDE DEF es
<1>5. Enqueued(b, issued + 1, device, kind) = b2
  BY DEF Enqueued, e, es
<1> HIDE DEF b1
<1>6. /\ b2.sequence = b1.sequence
      /\ \A c \in Ids : b2.entries[c] \in {b1.entries[c], NoEntry}
  BY <1>4, TrimmedKeeps DEF Keeps
<1>7. b2.entries[c0] = e
  <2>1. c0 \notin Forgotten(b1)
    BY <1>2, <1>3, <1>4 DEF Forgotten, Finals, Final, FinalStatuses
  <2>2. Trimmed(b1).entries = [c \in Ids |-> IF c \in Forgotten(b1) THEN NoEntry
                                               ELSE b1.entries[c]]
    BY <1>4 DEF Trimmed, BusState
  <2> QED
    BY <1>1, <1>3, <1>4, <2>1, <2>2
<1> HIDE DEF b2
<1> QED
  BY <1>2, <1>3, <1>4, <1>5, <1>6, <1>7

\* A report about c0 with status st has reached the daemon's side, or c0 is no command.
Reported(c0, st) ==
  \/ c0 = 0
  \/ \E i \in DOMAIN uplink : uplink[i].id = c0 /\ uplink[i].status = st
  \/ \E i \in DOMAIN late : late[i].id = c0 /\ late[i].status = st

QueueMoves(c0, st) ==
  /\ Reported(c0, st)
  /\ Moves(busFile, busFile', c0, st)
  /\ Moves(bus, bus', c0, st) \/ (RestartDaemon /\ bus' = busFile)

\* A write reaches memory and file, or neither.
LEMMA PersistMoves ==
  ASSUME BusInv, issued' = issued, NEW b, NEW c0, NEW st,
         Reported(c0, st), Moves(bus, b, c0, st), Persist(b)
  PROVE  QueueMoves(c0, st)
<1>1. Moves(busFile, b, c0, st)
  BY MovesFile
<1>2. Moves(bus, bus, c0, st) /\ Moves(busFile, busFile, c0, st)
  BY MovesNot
<1> QED
  BY <1>1, <1>2, Zenon DEF Persist, QueueMoves

LEMMA NothingMoves ==
  ASSUME UNCHANGED <<bus, busFile, issued>>
  PROVE  QueueMoves(0, "")
<1>1. Moves(bus, bus, 0, "") /\ Moves(busFile, busFile, 0, "")
  BY MovesNot
<1> QED
  BY <1>1, Zenon DEF QueueMoves, Reported

LEMMA PublishMoves ==
  ASSUME BusInv, NEW device \in Devices, NEW kind \in Kinds, Publish(device, kind)
  PROVE  QueueMoves(0, "")
<1> DEFINE Fresh(b) == Enqueued(b, issued + 1, device, kind)
<1>1. issued < MaxIssued /\ issued \in 0 .. MaxIssued /\ issued \in Nat
  BY ProtocolAssumption DEF Publish, BusInv
<1>2. bus \in BusState /\ Sound(bus) /\ bus.sequence \in Nat
  BY ProtocolAssumption DEF BusInv, Sound, BusState
<1>3. issued' = IF bus' = bus THEN issued ELSE issued + 1
  BY DEF Publish
<1>4. ASSUME NEW b, Sound(b), b.sequence = bus.sequence,
             \A c \in Ids :
               \/ b.entries[c] = bus.entries[c]
               \/ /\ c \in Pending(bus) /\ SameCommand(bus.entries[c], b.entries[c])
                  /\ b.entries[c].status \in {"expired", "failed"},
             Persist(Fresh(b))
      PROVE  QueueMoves(0, "")
  <2> DEFINE b2 == Fresh(b)
  <2>1. /\ b2.sequence = b.sequence + 1
        /\ \A c \in Ids : c # issued + 1 => b2.entries[c] \in {b.entries[c], NoEntry}
        /\ b2.entries[issued + 1] \in Entry
        /\ b2.entries[issued + 1].status = "published"
        /\ b2.entries[issued + 1].seq = b2.sequence
    BY <1>1, <1>4, EnqueuedIs
  <2>2. CASE UNCHANGED <<bus, busFile>>
    <3>1. issued' = issued
      BY <1>3, <2>2
    <3> QED
      BY <2>2, <3>1, NothingMoves
  <2>3. CASE bus' = b2 /\ busFile' = b2
    <3> HIDE DEF b2
    <3>1. bus' # bus
      BY <1>2, <1>4, <2>1, <2>3
    <3>2. issued' = issued + 1
      BY <1>3, <3>1, Zenon
    <3>3. Moves(bus, b2, 0, "")
      <4>1. NoEntry \notin Entry
        BY <1>1, <1>2, EntryType DEF Ids, NoEntry, Entry, Statuses, FinalStatuses
      <4>2. ASSUME NEW c \in Ids
            PROVE  \/ b2.entries[c] = bus.entries[c]
                   \/ b2.entries[c] = NoEntry
                   \/ /\ c \in Pending(bus) /\ SameCommand(bus.entries[c], b2.entries[c])
                      /\ b2.entries[c].status \in {"expired", "failed"}
                   \/ /\ c = issued + 1 /\ issued' = c
                      /\ b2.entries[c] \in Entry
                      /\ b2.entries[c].status = "published" /\ b2.entries[c].seq = b2.sequence
        BY <1>4, <2>1, <3>2
      <4>3. b2.entries[issued'] # NoEntry
        BY <2>1, <3>2, <4>1
      <4> QED
        BY <1>4, <2>1, <3>2, <4>2, <4>3 DEF Moves
    <3>4. Moves(busFile, b2, 0, "")
      BY <3>3, MovesFile
    <3> QED
      BY <2>3, <3>3, <3>4 DEF QueueMoves, Reported
  <2> QED
    BY <1>4, <2>2, <2>3 DEF Persist
<1>5. CASE Persist(Fresh(bus))
  BY <1>2, <1>4, <1>5
<1>6. ASSUME NEW v \in Droppable(bus), Persist(Fresh(SetResult(bus, v, "failed", "overflow")))
      PROVE  QueueMoves(0, "")
  <2> DEFINE b == SetResult(bus, v, "failed", "overflow")
  <2>1. v \in Pending(bus)
    BY DEF Droppable, Pending, Final, FinalStatuses
  <2>2. "failed" \in Statuses /\ "overflow" \in Codes
    BY DEF Statuses, FinalStatuses, Codes
  <2>3. Sound(b)
    BY <1>2, <2>1, <2>2, SetResultKeeps, KeepsSound
  <2>4. /\ b \in BusState /\ b.sequence = bus.sequence
        /\ \A d \in Ids : d # v => b.entries[d] = bus.entries[d]
        /\ SameCommand(bus.entries[v], b.entries[v])
        /\ b.entries[v].status = "failed"
    BY <1>2, <2>1, <2>2, SetResultIs
  <2> HIDE DEF b
  <2>5. \A c \in Ids :
          \/ b.entries[c] = bus.entries[c]
          \/ /\ c \in Pending(bus) /\ SameCommand(bus.entries[c], b.entries[c])
             /\ b.entries[c].status \in {"expired", "failed"}
    BY <2>1, <2>4
  <2>6. Persist(Fresh(b))
    BY <1>6 DEF b
  <2> QED
    BY <1>4, <2>3, <2>4, <2>5, <2>6
<1> QED
  BY <1>5, <1>6 DEF Publish

LEMMA RecordMoves ==
  ASSUME BusInv, NEW r \in Report, Reported(r.id, r.status), RecordResult(r)
  PROVE  \E c0, st : QueueMoves(c0, st)
<1>1. CASE UNCHANGED busVars
  BY <1>1, NothingMoves, Zenon DEF busVars
<1>2. CASE Record(Self, r.id, r.seq, r.status, r.code)
  <2>1. issued' = issued /\ r.status \in Statuses /\ r.code \in Codes
    BY <1>2 DEF Record, Report, Result
  <2>2. CASE UNCHANGED <<bus, busFile>>
    BY <2>1, <2>2, NothingMoves
  <2>3. CASE /\ Recordable(Self, r.id, r.seq)
             /\ Persist(Trimmed(SetResult(bus, r.id, r.status, r.code)))
    <3>1. r.id \in Pending(bus)
      BY <2>3 DEF Recordable, Pending
    <3>2. Moves(bus, Trimmed(SetResult(bus, r.id, r.status, r.code)), r.id, r.status)
      BY <2>1, <3>1, MovesRecorded
    <3> QED
      BY <2>1, <2>3, <3>2, PersistMoves
  <2> QED
    BY <1>2, <2>2, <2>3 DEF Record
<1> QED
  BY <1>1, <1>2 DEF RecordResult

\* Every step, as long as the queue file can be read.
LEMMA QueueStep ==
  ASSUME RemoteInv, "bus_corrupt" \notin Faults, [Next]_vars
  PROVE  \E c0, st : QueueMoves(c0, st)
<1>1. BusInv /\ NeverOutgrowsItsFile
  BY DEF RemoteInv
<1>2. CASE UNCHANGED <<bus, busFile>> /\ issued' = issued
  BY <1>2, NothingMoves
<1>3. ASSUME Persist(Expired(bus)), issued' = issued
      PROVE  \E c0, st : QueueMoves(c0, st)
  <2>1. Moves(bus, Expired(bus), 0, "") /\ Reported(0, "")
    BY <1>1, <1>3, MovesExpired DEF Reported
  <2> QED
    BY <1>1, <1>3, <2>1, PersistMoves
<1>4. ASSUME NEW d \in Devices, NEW k \in Kinds, PublishCommand(d, k)
      PROVE  \E c0, st : QueueMoves(c0, st)
  BY <1>1, <1>4, PublishMoves DEF PublishCommand
<1>5. ASSUME NEW c \in Ids, ReadStatus(c)
      PROVE  \E c0, st : QueueMoves(c0, st)
  <2>1. Get(c) /\ issued' = issued
    BY <1>5 DEF ReadStatus, Get
  <2>2. CASE bus' = Expired(bus) /\ UNCHANGED busFile
    <3>1. Moves(bus, bus', 0, "") /\ Moves(busFile, busFile', 0, "") /\ Reported(0, "")
      BY <1>1, <2>1, <2>2, MovesExpired, MovesNot DEF Reported
    <3> QED
      BY <3>1 DEF QueueMoves
  <2> QED
    BY <1>2, <1>3, <2>1, <2>2 DEF Get
<1>6. CASE PumpCommands
  BY <1>2, <1>3, <1>6 DEF PumpCommands, PollPending
<1>7. CASE DrainResult
  <2> DEFINE r == Head(uplink)
  <2>1. uplink # << >> /\ uplink \in Seq(Report) /\ RecordResult(r)
    BY <1>7 DEF DrainResult, RemoteInv, LinkType
  <2>2. r \in Report /\ 1 \in DOMAIN uplink /\ r = uplink[1]
    BY <2>1
  <2> HIDE DEF r
  <2>3. Reported(r.id, r.status)
    BY <2>2 DEF Reported
  <2> QED
    BY <1>1, <2>1, <2>2, <2>3, RecordMoves
<1>8. CASE DrainLate
  <2> DEFINE r == Head(late)
  <2>1. late # << >> /\ late \in Seq(Report) /\ RecordResult(r)
    BY <1>8 DEF DrainLate, RemoteInv, LinkType
  <2>2. r \in Report /\ 1 \in DOMAIN late /\ r = late[1]
    BY <2>1
  <2> HIDE DEF r
  <2>3. Reported(r.id, r.status)
    BY <2>2 DEF Reported
  <2> QED
    BY <1>1, <2>1, <2>2, <2>3, RecordMoves
<1>9. CASE RestartDaemon
  <2>1. ~ Oversized(busFile)
    <3>1. Cardinality(Live(busFile)) \in Nat
      BY IdSets DEF Live
    <3> QED
      BY <1>1, <3>1, BusAssumption DEF NeverOutgrowsItsFile, Bounded, Oversized
  <2>2. bus' = busFile /\ busFile' = busFile /\ issued' = issued
    BY <1>9, <2>1 DEF RestartDaemon, Reopen
  <2>3. Moves(busFile, busFile', 0, "")
    BY <2>2, MovesNot
  <2> QED
    BY <1>9, <2>2, <2>3 DEF QueueMoves, Reported
<1>10. CASE \/ \E c \in Ids : PassTTL(c) \/ PassExecutionWindow(c)
            \/ Collect \/ Connect \/ Disconnect \/ ReceiveCommand \/ ReceiveSnapshot
            \/ TransmitResult \/ RunCommand \/ DropResult \/ RestartDisplay
            \/ UNCHANGED vars
  <2>1. UNCHANGED <<bus, busFile, issued>>
    BY <1>10, Zenon DEF PassTTL, PassExecutionWindow, Lapse, RunOut, Collect, Connect, Disconnect,
       ReceiveCommand, ReceiveSnapshot, TransmitResult, RunCommand, DropResult, RestartDisplay,
       busVars, vars
  <2> QED
    BY <1>2, <2>1
<1> QED
  BY <1>4, <1>5, <1>6, <1>7, <1>8, <1>9, <1>10, Zenon DEF Next

(***************************************************************************)
(* How the ledger changes in a step: the commands it knows and its mark.   *)
(***************************************************************************)

KnownIn(l, c) == \E i \in DOMAIN l.records : l.records[i].id = c

\* A command the display will not find out of order.
InTurn(l, c) == KnownIn(l, c) \/ c > l.high

\* One record per command.
Uniq(l) == \A i, j \in DOMAIN l.records : l.records[i].id = l.records[j].id => i = j

\* The ledger with one record more: the oldest of a full one is forgotten.
LEMMA AppendKnows ==
  ASSUME NEW l \in Ledger, Len(l.records) <= MaxRecords, NEW r \in LedgerRecord
  PROVE  LET l2 == AppendRecord(l, r)
         IN  /\ KnownIn(l2, r.id)
             /\ \A c : KnownIn(l2, c) => c = r.id \/ KnownIn(l, c)
             /\ \A c : KnownIn(l, c) =>
                  \/ KnownIn(l2, c)
                  \/ Len(l.records) = MaxRecords /\ c = l.records[1].id
             /\ Uniq(l) /\ ~ KnownIn(l, r.id) => Uniq(l2)
<1> DEFINE q == AppendRecord(l, r).records
           k == Len(l.records) + 1 - Len(q)
           n == Len(l.records)
<1>1. /\ Len(q) \in 1 .. MaxRecords
      /\ q[Len(q)] = r
      /\ k = IF n = MaxRecords THEN 1 ELSE 0
      /\ \A j \in 1 .. Len(q) - 1 : j + k \in DOMAIN l.records /\ q[j] = l.records[j + k]
  BY AppendRecordIs
<1>2. n \in Nat /\ MaxRecords \in Nat /\ DOMAIN l.records = 1 .. n
  BY DisplayAssumption DEF Ledger
<1>3. q \in Seq(LedgerRecord)
  BY AppendRecordType DEF Ledger
<1>4. DOMAIN q = 1 .. Len(q)
  BY <1>3
<1>5. KnownIn(AppendRecord(l, r), r.id)
  <2>1. Len(q) \in DOMAIN q
    BY <1>1, <1>2, <1>4
  <2> QED
    BY <1>1, <2>1 DEF KnownIn
<1>6. ASSUME NEW j \in DOMAIN q
      PROVE  q[j] = r \/ \E i \in DOMAIN l.records : q[j] = l.records[i]
  <2>1. j = Len(q) \/ j \in 1 .. Len(q) - 1
    BY <1>1, <1>2, <1>4
  <2> QED
    BY <1>1, <2>1
<1>7. ASSUME NEW i \in DOMAIN l.records
      PROVE  \/ n = MaxRecords /\ i = 1
             \/ \E j \in DOMAIN q : q[j] = l.records[i]
  <2> HIDE DEF n, q
  <2>0. i \in 1 .. n /\ Len(q) \in Nat /\ n + 1 - Len(q) = IF n = MaxRecords THEN 1 ELSE 0
    BY <1>1, <1>2 DEF n
  <2>1. CASE n = MaxRecords /\ i # 1
    <3>0. Len(q) = n /\ k = 1
      BY <1>1, <1>2, <2>0, <2>1
    <3>1. i - 1 \in 1 .. Len(q) - 1 /\ (i - 1) + k = i
      BY <1>2, <2>0, <2>1, <3>0
    <3>2. i - 1 \in DOMAIN q
      BY <1>1, <1>2, <1>4, <3>1
    <3> QED
      BY <1>1, <3>1, <3>2
  <2>2. CASE n # MaxRecords
    <3>0. Len(q) = n + 1 /\ k = 0
      BY <1>1, <1>2, <2>0, <2>2
    <3>1. i \in 1 .. Len(q) - 1 /\ i + k = i
      <4>1. i \in Nat /\ i >= 1 /\ i <= n
        BY <1>2, <2>0
      <4> HIDE DEF k
      <4> QED
        BY <1>2, <3>0, <4>1
    <3>2. i \in DOMAIN q
      BY <1>1, <1>2, <1>4, <3>1
    <3> QED
      BY <1>1, <3>1, <3>2
  <2> QED
    BY <2>1, <2>2
<1>11. ASSUME Uniq(l), ~ KnownIn(l, r.id),
              NEW i \in DOMAIN q, NEW j \in DOMAIN q, q[i].id = q[j].id
       PROVE  i = j
  <2>1. ASSUME NEW x \in DOMAIN q
        PROVE  \/ x = Len(q) /\ q[x] = r
               \/ x + k \in DOMAIN l.records /\ q[x] = l.records[x + k] /\ q[x].id # r.id
    <3>1. x = Len(q) \/ x \in 1 .. Len(q) - 1
      BY <1>1, <1>2, <1>4
    <3> QED
      BY <1>1, <1>11, <3>1 DEF KnownIn
  <2>2. CASE i + k \in DOMAIN l.records /\ q[i] = l.records[i + k]
             /\ j + k \in DOMAIN l.records /\ q[j] = l.records[j + k]
    <3>1. i + k = j + k
      BY <1>11, <2>2 DEF Uniq
    <3>2. i \in Nat /\ j \in Nat /\ k \in Nat
      <4>1. k = 0 \/ k = 1
        <5> HIDE DEF k, q, n
        <5> QED
          BY <1>1, Zenon
      <4> QED
        BY <1>4, <4>1
    <3> HIDE DEF k
    <3> QED
      BY <3>1, <3>2
  <2> QED
    BY <1>11, <2>1, <2>2
<1> HIDE DEF q, k, n
<1>8. AppendRecord(l, r).records = q
  BY DEF q
<1>9. \A c : KnownIn(AppendRecord(l, r), c) => c = r.id \/ KnownIn(l, c)
  BY <1>6, <1>8 DEF KnownIn
<1>10. \A c : KnownIn(l, c) =>
         \/ KnownIn(AppendRecord(l, r), c)
         \/ n = MaxRecords /\ c = l.records[1].id
  BY <1>7, <1>8 DEF KnownIn
<1>12. Uniq(l) /\ ~ KnownIn(l, r.id) => Uniq(AppendRecord(l, r))
  BY <1>8, <1>11 DEF Uniq
<1> QED
  BY <1>5, <1>9, <1>10, <1>12 DEF n

\* Handling a command (controller.go Handle).
LEMMA ReceiveKnows ==
  ASSUME TypeInv, NEW cmd \in Command, NEW isLapsed, Handle(cmd, isLapsed)
  PROVE  /\ KnownIn(ledger', cmd.id)
         /\ \A c : KnownIn(ledger', c) => c = cmd.id \/ KnownIn(ledger, c)
         /\ \A c : KnownIn(ledger, c) =>
              \/ KnownIn(ledger', c)
              \/ /\ ~ Known(cmd.id) /\ Len(ledger.records) = MaxRecords
                 /\ c = ledger.records[1].id
         /\ \/ ledger'.high = ledger.high
            \/ ~ Known(cmd.id) /\ cmd.seq > ledger.high /\ ledger'.high = cmd.seq
         /\ ledgerFile' \in {ledgerFile, ledger'}
         /\ Uniq(ledger) => Uniq(ledger')
<1>1. PICK verdict \in Verdicts(cmd, isLapsed) :
        Replay(cmd) \/ Refuse(cmd, verdict) \/ RefuseOutOfOrder(cmd, verdict)
          \/ Accept(cmd, verdict)
  BY Zenon DEF Handle
<1>2. ledger \in Ledger /\ Len(ledger.records) <= MaxRecords /\ shown \in Snapshot
  BY DEF TypeInv, DisplayTypeOK, WithinLimit
<1>3. CASE Replay(cmd)
  BY <1>3 DEF Replay, Known, KnownIn
<1>4. ASSUME ~ Known(cmd.id), NEW r \in LedgerRecord, r.id = cmd.id,
             NEW l, l.records = AppendRecord(ledger, r).records,
             \/ l.high = ledger.high
             \/ cmd.seq > ledger.high /\ l.high = cmd.seq,
             NEW written, SetLedger(l, written)
      PROVE  /\ KnownIn(ledger', cmd.id)
             /\ \A c : KnownIn(ledger', c) => c = cmd.id \/ KnownIn(ledger, c)
             /\ \A c : KnownIn(ledger, c) =>
                  \/ KnownIn(ledger', c)
                  \/ /\ ~ Known(cmd.id) /\ Len(ledger.records) = MaxRecords
                     /\ c = ledger.records[1].id
             /\ \/ ledger'.high = ledger.high
                \/ ~ Known(cmd.id) /\ cmd.seq > ledger.high /\ ledger'.high = cmd.seq
             /\ ledgerFile' \in {ledgerFile, ledger'}
             /\ Uniq(ledger) => Uniq(ledger')
  <2>1. \A c : KnownIn(l, c) <=> KnownIn(AppendRecord(ledger, r), c)
    BY <1>4 DEF KnownIn
  <2>2. ledger' = l /\ ledgerFile' \in {ledgerFile, ledger'}
    BY <1>4 DEF SetLedger
  <2>3. /\ KnownIn(l, cmd.id)
        /\ \A c : KnownIn(l, c) => c = cmd.id \/ KnownIn(ledger, c)
        /\ \A c : KnownIn(ledger, c) =>
             \/ KnownIn(l, c)
             \/ Len(ledger.records) = MaxRecords /\ c = ledger.records[1].id
    BY <1>2, <1>4, <2>1, AppendKnows
  <2>4. Uniq(ledger) => Uniq(l)
    <3>1. ~ KnownIn(ledger, r.id)
      BY <1>4 DEF Known, KnownIn
    <3>2. Uniq(ledger) => Uniq(AppendRecord(ledger, r))
      BY <1>2, <1>4, <3>1, AppendKnows
    <3> QED
      BY <1>4, <3>2 DEF Uniq
  <2> QED
    BY <1>4, <2>2, <2>3, <2>4
<1>5. CASE Refuse(cmd, verdict)
  <2> DEFINE r == NewRecord(cmd, verdict[1], verdict[2])
  <2>1. r \in LedgerRecord /\ r.id = cmd.id
    BY NewRecordType, VerdictType DEF NewRecord
  <2>2. PICK written : SetLedger(AppendRecord(ledger, r), written)
    BY <1>5 DEF Refuse
  <2>3. ~ Known(cmd.id)
    BY <1>5 DEF Refuse
  <2> HIDE DEF r
  <2>4. AppendRecord(ledger, r).high = ledger.high
    BY <1>2, <2>1, AppendRecordType
  <2> QED
    BY <1>4, <2>1, <2>2, <2>3, <2>4
<1>6. CASE RefuseOutOfOrder(cmd, verdict)
  <2> DEFINE r == NewRecord(cmd, "rejected", "out_of_order")
  <2>1. r \in LedgerRecord /\ r.id = cmd.id
    BY NewRecordType DEF NewRecord, Statuses, FinalStatuses, Codes
  <2>2. PICK written : SetLedger(AppendRecord(ledger, r), written)
    BY <1>6 DEF RefuseOutOfOrder
  <2>3. ~ Known(cmd.id)
    BY <1>6 DEF RefuseOutOfOrder
  <2> HIDE DEF r
  <2>4. AppendRecord(ledger, r).high = ledger.high
    BY <1>2, <2>1, AppendRecordType
  <2> QED
    BY <1>4, <2>1, <2>2, <2>3, <2>4
<1>7. CASE Accept(cmd, verdict)
  <2> DEFINE r == AcceptedRecord(cmd)
  <2>1. r \in LedgerRecord /\ r.id = cmd.id
    BY <1>2, AcceptedRecordType DEF AcceptedRecord, NewRecord
  <2>2. PICK written : SetLedger(WithAccepted(cmd), written)
    BY <1>7 DEF Accept
  <2>3. ~ Known(cmd.id) /\ cmd.seq > ledger.high
    BY <1>7 DEF Accept
  <2>4. /\ WithAccepted(cmd).records = AppendRecord(ledger, r).records
        /\ WithAccepted(cmd).high = cmd.seq
    <3>1. AppendRecord(ledger, r) \in Ledger
      BY <1>2, <2>1, AppendRecordType
    <3> HIDE DEF r
    <3>2. WithAccepted(cmd) = [AppendRecord(ledger, r) EXCEPT !.high = cmd.seq]
      BY DEF WithAccepted, r
    <3> QED
      BY <3>1, <3>2 DEF Ledger
  <2> HIDE DEF r
  <2> QED
    BY <1>4, <2>1, <2>2, <2>3, <2>4
<1> QED
  BY <1>1, <1>3, <1>5, <1>6, <1>7

\* Changing records in place changes neither the known commands nor the mark.
LEMMA MapKnows ==
  ASSUME NEW l \in Ledger, NEW rs \in [DOMAIN l.records -> LedgerRecord],
         \A i \in DOMAIN l.records : rs[i].id = l.records[i].id
  PROVE  LET l2 == [l EXCEPT !.records = rs]
         IN  /\ l2.high = l.high
             /\ \A c : KnownIn(l2, c) <=> KnownIn(l, c)
             /\ Uniq(l) => Uniq(l2)
<1> DEFINE l2 == [l EXCEPT !.records = rs]
<1>1. l2.records = rs /\ l2.high = l.high
  BY DEF Ledger
<1> HIDE DEF l2
<1>2. \A c : KnownIn(l2, c) <=> KnownIn(l, c)
  BY <1>1 DEF KnownIn
<1>3. Uniq(l) => Uniq(l2)
  BY <1>1 DEF Uniq
<1> QED
  BY <1>1, <1>2, <1>3 DEF l2

LEMMA CompleteKnows ==
  ASSUME TypeInv, Complete \/ CompleteRefresh
  PROVE  /\ ledger'.high = ledger.high /\ \A c : KnownIn(ledger', c) <=> KnownIn(ledger, c)
         /\ ledgerFile' \in {ledgerFile, ledger'}
         /\ Uniq(ledger) => Uniq(ledger')
<1>1. ledger \in Ledger
  BY DEF TypeInv, DisplayTypeOK
<1>2. \A i \in DOMAIN ledger.records : ledger.records[i] \in LedgerRecord
  BY <1>1 DEF Ledger
<1>3. CASE Complete
  <2> DEFINE rs == [i \in DOMAIN ledger.records |->
                     IF ledger.records[i].id = busy.cmd.id /\ ~ Final(ledger.records[i].status)
                       THEN CompletedRecord(ledger.records[i], busy.status, busy.code)
                       ELSE ledger.records[i]]
  <2>1. busy.status \in Statuses /\ busy.code \in Codes
    BY <1>3, BusyType DEF Complete, Statuses
  <2>2. rs \in [DOMAIN ledger.records -> LedgerRecord]
    BY <1>2, <2>1, CompletedRecordType
  <2>3. \A i \in DOMAIN ledger.records : rs[i].id = ledger.records[i].id
    BY <1>2, <2>1, CompletedRecordType
  <2>4. PICK written : SetLedger([ledger EXCEPT !.records = rs], written)
    BY <1>3 DEF Complete, WithCompleted
  <2> HIDE DEF rs
  <2> QED
    BY <1>1, <2>2, <2>3, <2>4, MapKnows DEF SetLedger
<1>4. CASE CompleteRefresh
  <2>1. PICK i \in Answered(ledger, shown), written \in WriteOutcomes("ledger_write") :
          SetLedger([ledger EXCEPT !.records[i] = CompletedRecord(@, "executed", "")], written)
    BY <1>4, Zenon DEF CompleteRefresh
  <2> DEFINE rs == [ledger.records EXCEPT ![i] = CompletedRecord(@, "executed", "")]
  <2>2. i \in DOMAIN ledger.records
    BY DEF Answered
  <2>3. "executed" \in Statuses /\ "" \in Codes
    BY DEF Statuses, FinalStatuses, Codes
  <2>4. rs \in [DOMAIN ledger.records -> LedgerRecord]
    BY <1>2, <2>2, <2>3, CompletedRecordType
  <2>5. ASSUME NEW j \in DOMAIN ledger.records
        PROVE  rs[j].id = ledger.records[j].id
    <3>1. CASE j = i
      <4>1. rs[j] = CompletedRecord(ledger.records[j], "executed", "")
        BY <2>2, <3>1
      <4>2. ledger.records[j] \in LedgerRecord
        BY <1>2
      <4>3. CompletedRecord(ledger.records[j], "executed", "").id = ledger.records[j].id
        BY <2>3, <4>2, CompletedRecordType
      <4> HIDE DEF rs
      <4> QED
        BY <4>1, <4>3
    <3>2. CASE j # i
      BY <2>2, <3>2
    <3> QED
      BY <3>1, <3>2
  <2>6. [ledger EXCEPT !.records[i] = CompletedRecord(@, "executed", "")]
          = [ledger EXCEPT !.records = rs]
    BY <1>1 DEF Ledger
  <2> HIDE DEF rs
  <2> QED
    BY <1>1, <2>1, <2>4, <2>5, <2>6, MapKnows DEF SetLedger
<1> QED
  BY <1>3, <1>4

LEMMA RestartKnows ==
  ASSUME TypeInv, Restart
  PROVE  /\ ledgerFile' = ledger'
         /\ \/ /\ ledger'.high = ledgerFile.high
               /\ \A c : KnownIn(ledger', c) <=> KnownIn(ledgerFile, c)
            \/ ledger' = EmptyLedger
         /\ Uniq(ledgerFile) => Uniq(ledger')
<1>1. PICK opened \in Opened : ledger' = opened /\ ledgerFile' = opened
  BY DEF Restart
<1>2. CASE opened = EmptyLedger
  BY <1>1, <1>2 DEF EmptyLedger, Uniq
<1>3. CASE opened = WithInterrupted(ledgerFile)
  <2> DEFINE l  == ledgerFile
             rs == [i \in DOMAIN l.records |->
                     IF l.records[i].status = "accepted" /\ ~ l.records[i].pendingRefresh
                       THEN [l.records[i] EXCEPT !.status = "failed", !.code = "interrupted"]
                       ELSE l.records[i]]
  <2>1. l \in Ledger
    BY DEF TypeInv, DisplayTypeOK
  <2>2. \A i \in DOMAIN l.records : l.records[i] \in LedgerRecord
    BY <2>1 DEF Ledger
  <2>3. rs \in [DOMAIN l.records -> LedgerRecord]
    BY <2>2 DEF LedgerRecord, Statuses, FinalStatuses, Codes
  <2>4. \A i \in DOMAIN l.records : rs[i].id = l.records[i].id
    BY <2>2 DEF LedgerRecord
  <2>5. opened = [l EXCEPT !.records = rs]
    BY <1>3 DEF WithInterrupted
  <2> HIDE DEF rs
  <2> QED
    BY <1>1, <2>1, <2>3, <2>4, <2>5, MapKnows
<1> QED
  BY <1>1, <1>2, <1>3 DEF Opened

(***************************************************************************)
(* One number for each command: its place in the queue, its sequence and   *)
(* its kind are the same wherever it is mentioned.                         *)
(***************************************************************************)

\* An issued command, of the kind the queue has it, if the queue still has it.
Agrees(c, kind) ==
  /\ c <= issued
  /\ busFile.entries[c] # NoEntry => busFile.entries[c].kind = kind

Message       == {m \in Command : m.seq = m.id /\ Agrees(m.id, m.kind)}
MessageRecord == {r \in LedgerRecord : r.seq = r.id /\ Agrees(r.id, r.kind)}
MessageResult == {r \in Result : r.seq = r.id /\ r.id <= issued}

QueueNumbered ==
  /\ busFile.sequence = issued
  /\ \A c \in Live(busFile) : c <= issued /\ busFile.entries[c].seq = c

NumberInv ==
  /\ QueueNumbered
  /\ downlink \in Seq(Message)
  /\ applied \in Seq(Message)
  /\ busy # Idle /\ busy.phase # "refresh" => busy.cmd \in Message
  /\ ledger.records \in Seq(MessageRecord)
  /\ ledgerFile.records \in Seq(MessageRecord)
  /\ outbox \in Seq(MessageResult)
  /\ uplink \in Seq(MessageResult)
  /\ late \in Seq(MessageResult)
  /\ ledgerFile.high <= ledger.high
  /\ ledger.high <= issued

LEMMA SeqWithin ==
  ASSUME NEW S, NEW T, S \subseteq T, NEW q \in Seq(S)
  PROVE  q \in Seq(T)
<1>1. PICK n \in Nat : q \in [1 .. n -> S]
  OBVIOUS
<1>2. q \in [1 .. n -> T]
  BY <1>1
<1> QED
  BY <1>2

\* The queue goes on numbering (bus.go Publish).
LEMMA QueueNumberedStep ==
  ASSUME BusInv, BusInv', QueueNumbered, NEW c0, NEW st, Moves(busFile, busFile', c0, st)
  PROVE  /\ QueueNumbered'
         /\ issued <= issued'
         /\ \A c \in Ids : \A kind : Agrees(c, kind) => Agrees(c, kind)'
<1>1. issued \in Nat /\ issued' \in Nat
  BY ProtocolAssumption DEF BusInv
<1>2. issued <= issued' /\ busFile'.sequence = issued'
  BY <1>1 DEF Moves, QueueNumbered
<1>3. \A c \in Ids : c \in Nat
  BY DEF Ids
<1>4. busFile.sequence = issued /\ \A c \in Live(busFile) : c <= issued /\ busFile.entries[c].seq = c
  BY DEF QueueNumbered
<1>5. ASSUME NEW c \in Ids, busFile'.entries[c] # NoEntry
      PROVE  /\ c <= issued' /\ busFile'.entries[c].seq = c
             /\ c <= issued => /\ busFile.entries[c] # NoEntry
                               /\ busFile'.entries[c].kind = busFile.entries[c].kind
  <2>1. CASE busFile'.entries[c] = busFile.entries[c]
    <3>1. c \in Live(busFile)
      BY <1>5, <2>1 DEF Live
    <3> QED
      BY <1>1, <1>2, <1>3, <1>4, <1>5, <2>1, <3>1
  <2>2. CASE c \in Pending(busFile) /\ SameCommand(busFile.entries[c], busFile'.entries[c])
    <3>1. c \in Live(busFile)
      BY <2>2 DEF Pending
    <3> QED
      BY <1>1, <1>2, <1>3, <1>4, <2>2, <3>1 DEF SameCommand, Live
  <2>3. CASE /\ c = issued + 1 /\ issued' = c
             /\ busFile'.entries[c].seq = busFile'.sequence
    BY <1>1, <1>2, <2>3
  <2> QED
    BY <1>5, <2>1, <2>2, <2>3 DEF Moves
<1>6. QueueNumbered'
  BY <1>2, <1>5 DEF QueueNumbered, Live
<1>7. ASSUME NEW c \in Ids, NEW kind, Agrees(c, kind)
      PROVE  Agrees(c, kind)'
  BY <1>1, <1>2, <1>3, <1>5, <1>7 DEF Agrees
<1> QED
  BY <1>2, <1>6, <1>7

\* What was a message stays one.
LEMMA MessagesStay ==
  ASSUME BusInv, BusInv', issued <= issued',
         \A c \in Ids : \A kind : Agrees(c, kind) => Agrees(c, kind)'
  PROVE  /\ Message \subseteq Message'
         /\ MessageRecord \subseteq MessageRecord'
         /\ MessageResult \subseteq MessageResult'
<1>1. Message \subseteq Message'
  BY DEF Message, Command
<1>2. MessageRecord \subseteq MessageRecord'
  BY DEF MessageRecord, LedgerRecord
<1>3. MessageResult \subseteq MessageResult'
  <2>1. \A c \in Ids : c \in Nat
    BY DEF Ids
  <2>2. issued \in Nat /\ issued' \in Nat
    BY ProtocolAssumption DEF BusInv
  <2>3. ASSUME NEW r \in Result, r.id <= issued
        PROVE  r.id <= issued'
    <3>1. r.id \in Nat
      BY <2>1 DEF Result
    <3> QED
      BY <2>2, <2>3, <3>1
  <2> QED
    BY <2>3 DEF MessageResult
<1> QED
  BY <1>1, <1>2, <1>3

\* Records of a message and replies to it.
LEMMA MessageMade ==
  ASSUME NEW cmd \in Message, shown \in Snapshot
  PROVE  /\ cmd \in Command /\ cmd.seq = cmd.id /\ cmd.id <= issued
         /\ \A status \in Statuses, code \in Codes :
              NewRecord(cmd, status, code) \in MessageRecord
              /\ ReplyTo(cmd, status, code) \in MessageResult
         /\ AcceptedRecord(cmd) \in MessageRecord
<1>1. cmd \in Command /\ cmd.seq = cmd.id /\ Agrees(cmd.id, cmd.kind) /\ cmd.id <= issued
  BY DEF Message, Agrees
<1>2. ASSUME NEW status \in Statuses, NEW code \in Codes
      PROVE  NewRecord(cmd, status, code) \in MessageRecord
             /\ ReplyTo(cmd, status, code) \in MessageResult
  <2>1. /\ NewRecord(cmd, status, code) \in LedgerRecord
        /\ NewRecord(cmd, status, code).id = cmd.id
        /\ NewRecord(cmd, status, code).seq = cmd.seq
        /\ NewRecord(cmd, status, code).kind = cmd.kind
    BY <1>1, NewRecordType DEF NewRecord
  <2>2. /\ ReplyTo(cmd, status, code) \in Result
        /\ ReplyTo(cmd, status, code).id = cmd.id
        /\ ReplyTo(cmd, status, code).seq = cmd.seq
    BY <1>1 DEF ReplyTo, Result, Command
  <2> QED
    BY <1>1, <2>1, <2>2 DEF MessageRecord, MessageResult
<1>3. AcceptedRecord(cmd) \in MessageRecord
  <2>1. /\ AcceptedRecord(cmd).id = cmd.id
        /\ AcceptedRecord(cmd).seq = cmd.seq
        /\ AcceptedRecord(cmd).kind = cmd.kind
    BY DEF AcceptedRecord, NewRecord
  <2> QED
    BY <1>1, <2>1, AcceptedRecordType DEF MessageRecord
<1> QED
  BY <1>1, <1>2, <1>3

LEMMA MessageChanged ==
  ASSUME NEW r \in MessageRecord
  PROVE  /\ ResultOf(r) \in MessageResult
         /\ \A status \in Statuses, code \in Codes : CompletedRecord(r, status, code) \in MessageRecord
         /\ [r EXCEPT !.status = "failed", !.code = "interrupted"] \in MessageRecord
<1>1. r \in LedgerRecord /\ r.seq = r.id /\ Agrees(r.id, r.kind) /\ r.id <= issued
  BY DEF MessageRecord, Agrees
<1>2. ResultOf(r) \in MessageResult
  <2>1. ResultOf(r) \in Result /\ ResultOf(r).id = r.id /\ ResultOf(r).seq = r.seq
    BY <1>1 DEF ResultOf, Result, LedgerRecord
  <2> QED
    BY <1>1, <2>1 DEF MessageResult
<1>3. ASSUME NEW status \in Statuses, NEW code \in Codes
      PROVE  CompletedRecord(r, status, code) \in MessageRecord
  <2>1. /\ CompletedRecord(r, status, code) \in LedgerRecord
        /\ CompletedRecord(r, status, code).id = r.id
        /\ CompletedRecord(r, status, code).seq = r.seq
        /\ CompletedRecord(r, status, code).kind = r.kind
    BY <1>1, CompletedRecordType DEF CompletedRecord, LedgerRecord
  <2> QED
    BY <1>1, <2>1 DEF MessageRecord
<1>4. [r EXCEPT !.status = "failed", !.code = "interrupted"] \in MessageRecord
  <2> DEFINE r2 == [r EXCEPT !.status = "failed", !.code = "interrupted"]
  <2>1. r2 \in LedgerRecord /\ r2.id = r.id /\ r2.seq = r.seq /\ r2.kind = r.kind
    BY <1>1 DEF LedgerRecord, Statuses, FinalStatuses, Codes
  <2> HIDE DEF r2
  <2>2. r2 \in MessageRecord
    BY <1>1, <2>1 DEF MessageRecord
  <2> QED
    BY <2>2 DEF r2
<1> QED
  BY <1>2, <1>3, <1>4

\* What the ledger knows after a step: one command more, the same, or what its file
\* says at a new start.
Learns(cmd) ==
  /\ KnownIn(ledger', cmd.id)
  /\ \A c : KnownIn(ledger', c) => c = cmd.id \/ KnownIn(ledger, c)
  /\ \A c : KnownIn(ledger, c) =>
       \/ KnownIn(ledger', c)
       \/ /\ ~ Known(cmd.id) /\ Len(ledger.records) = MaxRecords
          /\ c = ledger.records[1].id
  /\ \/ ledger'.high = ledger.high
     \/ ~ Known(cmd.id) /\ cmd.seq > ledger.high /\ ledger'.high = cmd.seq
  /\ ledgerFile' \in {ledgerFile, ledger'}

KnowsTheSame ==
  /\ ledger'.high = ledger.high
  /\ \A c : KnownIn(ledger', c) <=> KnownIn(ledger, c)
  /\ ledgerFile' \in {ledgerFile, ledger'}

KnowsItsFile ==
  /\ ledgerFile' = ledger'
  /\ \/ /\ ledger'.high = ledgerFile.high
        /\ \A c : KnownIn(ledger', c) <=> KnownIn(ledgerFile, c)
     \/ ledger' = EmptyLedger

LEMMA KnowledgeStep ==
  ASSUME RemoteInv, [Next]_vars
  PROVE  \/ downlink # << >> /\ ReceiveCommand /\ Learns(Head(downlink))
         \/ KnowsTheSame
         \/ RestartDisplay /\ outbox' = << >> /\ KnowsItsFile
<1>1. TypeInv
  BY DEF RemoteInv
<1>2. CASE ReceiveCommand
  <2> DEFINE cmd == Head(downlink)
  <2>1. cmd \in Command /\ downlink # << >>
    BY <1>2 DEF ReceiveCommand, RemoteInv, LinkType
  <2>2. Handle(cmd, cmd.id \in lapsed)
    BY <1>2, Zenon DEF ReceiveCommand
  <2> HIDE DEF cmd
  <2>3. Learns(cmd)
    BY <1>1, <2>1, <2>2, ReceiveKnows DEF Learns
  <2> QED
    BY <1>2, <2>1, <2>3 DEF cmd
<1>3. CASE Complete \/ CompleteRefresh
  BY <1>1, <1>3, CompleteKnows DEF KnowsTheSame
<1>4. CASE RestartDisplay
  <2>1. Restart
    BY <1>4, Zenon DEF RestartDisplay
  <2> QED
    BY <1>1, <1>4, <2>1, RestartKnows DEF KnowsItsFile, Restart
<1>5. CASE UNCHANGED <<ledger, ledgerFile>>
  BY <1>5 DEF KnowsTheSame
<1> QED
  BY <1>2, <1>3, <1>4, <1>5, LedgerCases, Zenon

\* The ledger and the outbox.
LEMMA LedgerNumbered ==
  ASSUME RemoteInv, NumberInv, [Next]_vars
  PROVE  /\ ledger'.records \in Seq(MessageRecord)
         /\ ledgerFile'.records \in Seq(MessageRecord)
         /\ outbox' \in Seq(MessageResult)
<1>1. /\ TypeInv /\ shown \in Snapshot
      /\ ledger.records \in Seq(MessageRecord) /\ ledgerFile.records \in Seq(MessageRecord)
      /\ outbox \in Seq(MessageResult)
  BY DEF RemoteInv, NumberInv, TypeInv, DisplayTypeOK
<1>2. /\ "accepted" \in Statuses /\ "failed" \in Statuses /\ "rejected" \in Statuses
      /\ "executed" \in Statuses
      /\ "" \in Codes /\ "state_unavailable" \in Codes /\ "out_of_order" \in Codes
  BY DEF Statuses, FinalStatuses, Codes
<1>3. CASE ReceiveCommand
  <2> DEFINE cmd == Head(downlink)
  <2>1. cmd \in Message
    BY <1>3, PartsOf DEF ReceiveCommand, NumberInv
  <2>2. Handle(cmd, cmd.id \in lapsed)
    BY <1>3, Zenon DEF ReceiveCommand
  <2> HIDE DEF cmd
  <2>3. \A r \in MessageRecord : ResultOf(r) \in MessageResult
    BY MessageChanged
  <2>4. /\ cmd \in Command
        /\ \A status \in Statuses, code \in Codes :
             NewRecord(cmd, status, code) \in MessageRecord
             /\ ReplyTo(cmd, status, code) \in MessageResult
        /\ AcceptedRecord(cmd) \in MessageRecord
    BY <1>1, <2>1, MessageMade
  <2>5. \A v \in Verdicts(cmd, cmd.id \in lapsed) \ {Valid} :
          NewRecord(cmd, v[1], v[2]) \in MessageRecord
          /\ ReplyTo(cmd, v[1], v[2]) \in MessageResult
    BY <2>4, VerdictType
  <2> QED
    BY <1>1, <1>2, <2>2, <2>3, <2>4, <2>5, HandleIn
<1>4. CASE Complete
  <2>1. busy.cmd \in Message /\ busy.status \in Statuses /\ busy.code \in Codes
    BY <1>1, <1>4, BusyType DEF Complete, NumberInv, Statuses
  <2>2. \A r \in MessageRecord : CompletedRecord(r, busy.status, busy.code) \in MessageRecord
    BY <2>1, MessageChanged
  <2>3. \A status \in Statuses, code \in Codes : ReplyTo(busy.cmd, status, code) \in MessageResult
    BY <1>1, <2>1, MessageMade
  <2> QED
    BY <1>1, <1>2, <1>4, <2>1, <2>2, <2>3, CompleteIn
<1>5. CASE CompleteRefresh
  <2>1. \A r \in MessageRecord : /\ CompletedRecord(r, "executed", "") \in MessageRecord
                                 /\ ResultOf(CompletedRecord(r, "executed", "")) \in MessageResult
    BY <1>2, MessageChanged
  <2> QED
    BY <1>1, <1>5, <2>1, CompleteRefreshIn
<1>6. CASE RestartDisplay
  <2>1. \A r \in MessageRecord :
          [r EXCEPT !.status = "failed", !.code = "interrupted"] \in MessageRecord
    BY MessageChanged
  <2>2. Restart
    BY <1>6, Zenon DEF RestartDisplay
  <2> QED
    BY <1>1, <2>1, <2>2, RestartIn
<1>7. CASE /\ UNCHANGED <<ledger, ledgerFile>>
           /\ outbox' = outbox \/ (outbox # << >> /\ outbox' = Tail(outbox))
  BY <1>1, <1>7, PartsOf
<1> QED
  BY <1>3, <1>4, <1>5, <1>6, <1>7, LedgerCases, Zenon

\* The marks stay below the commands issued, the file's below the one in memory.
LEMMA MarkStep ==
  ASSUME RemoteInv, RemoteInv', NumberInv, [Next]_vars, issued <= issued'
  PROVE  ledgerFile'.high <= ledger'.high /\ ledger'.high <= issued'
<1>1. /\ ledger.high \in Nat /\ ledgerFile.high \in Nat /\ ledger'.high \in Nat
      /\ ledgerFile'.high \in Nat /\ issued \in Nat /\ issued' \in Nat
  BY ProtocolAssumption DEF RemoteInv, BusInv, TypeInv, DisplayTypeOK, Ledger
<1>2. ledgerFile.high <= ledger.high /\ ledger.high <= issued
  BY DEF NumberInv
<1>3. CASE downlink # << >> /\ Learns(Head(downlink))
  <2>1. Head(downlink) \in Message
    BY <1>3, PartsOf DEF NumberInv
  <2>2. Head(downlink).seq \in Nat /\ Head(downlink).seq <= issued
    BY <2>1 DEF Message, Agrees, Command, Ids
  <2> QED
    BY <1>1, <1>2, <1>3, <2>2 DEF Learns
<1>4. CASE KnowsTheSame
  BY <1>1, <1>2, <1>4 DEF KnowsTheSame
<1>5. CASE KnowsItsFile
  BY <1>1, <1>2, <1>5 DEF KnowsItsFile, EmptyLedger
<1> QED
  BY <1>3, <1>4, <1>5, KnowledgeStep

\* An entry of the queue in memory is about the same command as that of the file.
LEMMA SameInFile ==
  ASSUME BusInv, NEW c \in Live(bus)
  PROVE  /\ c \in Live(busFile) /\ SameCommand(busFile.entries[c], bus.entries[c])
         /\ c \in Pending(bus) => c \in Pending(busFile) /\ busFile.entries[c] = bus.entries[c]
<1>1. c \in Ids /\ bus.entries[c] # NoEntry
  BY DEF Live
<1>2. CASE busFile.entries[c] = bus.entries[c]
  BY <1>1, <1>2 DEF Live, Pending, SameCommand
<1>3. CASE c \in Pending(busFile) /\ bus.entries[c] = TimedOut(busFile.entries[c])
  <2>1. c \in Live(busFile) /\ busFile.entries[c] \in Entry
    BY <1>3, EntryType DEF BusInv, Sound, Pending, Live
  <2>2. /\ bus.entries[c].device = busFile.entries[c].device
        /\ bus.entries[c].kind = busFile.entries[c].kind
        /\ bus.entries[c].seq = busFile.entries[c].seq
        /\ bus.entries[c].status \in {"expired", "failed"}
    BY <1>3, <2>1, TimedOutIs
  <2>3. c \notin Pending(bus)
    BY <2>2 DEF Pending, Final, FinalStatuses
  <2> QED
    BY <1>1, <2>1, <2>2, <2>3 DEF SameCommand
<1> QED
  BY <1>1, <1>2, <1>3 DEF BusInv, RestartKeepsAnswers, Unwritten

\* What the pump sends is a message about the command.
Wired == \A c \in Live(bus) : Wire(bus, c) \in Message /\ Wire(bus, c).id = c

LEMMA WireIsMessage == BusInv /\ QueueNumbered => Wired
<1> SUFFICES ASSUME BusInv, QueueNumbered, NEW c \in Live(bus)
             PROVE  Wire(bus, c) \in Message /\ Wire(bus, c).id = c
  BY DEF Wired
<1>1. c \in Ids /\ c \in Live(busFile) /\ SameCommand(busFile.entries[c], bus.entries[c])
  BY SameInFile DEF Live
<1>2. bus.entries[c] \in Entry
  BY EntryType DEF BusInv, Sound, Live
<1>3. c <= issued /\ busFile.entries[c].seq = c
  BY <1>1 DEF QueueNumbered
<1>4. /\ Wire(bus, c) \in Command /\ Wire(bus, c).id = c /\ Wire(bus, c).seq = c
      /\ Wire(bus, c).kind = busFile.entries[c].kind
  BY <1>1, <1>2, <1>3 DEF Wire, Command, Entry, SameCommand
<1>5. Agrees(c, Wire(bus, c).kind)
  BY <1>3, <1>4 DEF Agrees
<1> QED
  BY <1>4, <1>5 DEF Message

LEMMA NumberStep ==
  ASSUME RemoteInv, RemoteInv', "bus_corrupt" \notin Faults, NumberInv, [Next]_vars
  PROVE  /\ NumberInv' /\ issued <= issued'
         /\ Message \subseteq Message' /\ MessageRecord \subseteq MessageRecord'
         /\ MessageResult \subseteq MessageResult'
<1>1. BusInv /\ BusInv' /\ QueueNumbered
  BY DEF RemoteInv, NumberInv
<1>2. PICK c0, st : QueueMoves(c0, st)
  BY QueueStep
<1>3. /\ QueueNumbered'
      /\ issued <= issued'
      /\ \A c \in Ids : \A kind : Agrees(c, kind) => Agrees(c, kind)'
  BY <1>1, <1>2, QueueNumberedStep DEF QueueMoves
<1>4. /\ Message \subseteq Message'
      /\ MessageRecord \subseteq MessageRecord'
      /\ MessageResult \subseteq MessageResult'
  BY <1>1, <1>3, MessagesStay
<1>5. Wired'
  BY <1>1, <1>3, WireIsMessage, PTL
<1>6. downlink' \in Seq(Message')
  <2>1. downlink \in Seq(Message')
    BY <1>4, SeqWithin DEF NumberInv
  <2>2. \A c \in Deliverable(bus', Self, sent) : Wire(bus', c) \in Message'
    BY <1>5 DEF Wired, Deliverable, Pending
  <2>3. bus' \in BusState
    BY <1>1 DEF BusInv, Sound
  <2> DEFINE M == Message'
  <2>4. downlink \in Seq(M) /\ \A c \in Deliverable(bus', Self, sent) : Wire(bus', c) \in M
    BY <2>1, <2>2
  <2> HIDE DEF M
  <2>5. downlink' \in Seq(M)
    BY <2>3, <2>4, CommandsIn
  <2> QED
    BY <2>5 DEF M
<1>7. busy' # Idle /\ busy'.phase # "refresh" => busy'.cmd \in Message'
  <2>1. CASE busy' = busy
    BY <1>4, <2>1 DEF NumberInv
  <2>2. CASE busy' = Idle \/ busy'.phase = "refresh"
    BY <2>2
  <2>3. CASE /\ ReceiveCommand
             /\ busy' = [phase |-> "apply", cmd |-> Head(downlink),
                         status |-> "executed", code |-> ""]
    <3>1. Head(downlink) \in Message
      BY <2>3, PartsOf DEF ReceiveCommand, NumberInv
    <3> QED
      BY <1>4, <2>3, <3>1
  <2>4. CASE Apply
    <3>1. busy # Idle /\ busy.phase = "apply"
      BY <2>4 DEF Apply
    <3>2. busy.cmd \in Message
      BY <3>1 DEF NumberInv
    <3>3. busy'.cmd = busy.cmd
      <4>1. busy \in [phase : {"apply", "complete"}, cmd : Command, status : FinalStatuses,
                      code : Codes]
        BY <3>1 DEF RemoteInv, TypeInv, DisplayTypeOK, Busy
      <4> QED
        BY <2>4, <4>1 DEF Apply
    <3> QED
      BY <1>4, <3>2, <3>3
  <2> QED
    BY <2>1, <2>2, <2>3, <2>4, BusyCases
<1>8. applied' \in Seq(Message')
  <2>1. applied \in Seq(Message')
    BY <1>4, SeqWithin DEF NumberInv
  <2>2. CASE Apply
    <3>1. busy.cmd \in Message'
      BY <1>4, <2>2 DEF Apply, NumberInv
    <3>2. applied' = applied \/ applied' = Append(applied, busy.cmd)
      BY <2>2, Zenon DEF Apply
    <3> QED
      BY <2>1, <3>1, <3>2
  <2>3. CASE applied' = applied
    BY <2>1, <2>3
  <2>4. Apply \/ applied' = applied
    BY Zenon DEF Next, PublishCommand, ReadStatus, Collect, PumpCommands, DrainResult, DrainLate,
                 RestartDaemon, Connect, Disconnect, SetSession, ReceiveCommand, Handle,
                 ReceiveSnapshot, ApplySnapshot, TransmitResult, SendResult, RunCommand, Complete,
                 CompleteRefresh, DropResult, LoseResult, RestartDisplay, Restart, PassTTL,
                 PassExecutionWindow, displayVars, vars
  <2> QED
    BY <2>2, <2>3, <2>4
<1>9. /\ ledger'.records \in Seq(MessageRecord')
      /\ ledgerFile'.records \in Seq(MessageRecord')
      /\ outbox' \in Seq(MessageResult')
  BY <1>4, LedgerNumbered, SeqWithin
<1>10. uplink' \in Seq(MessageResult') /\ late' \in Seq(MessageResult')
  <2>1. uplink' \in Seq(MessageResult) /\ late' \in Seq(MessageResult)
    BY ResultsIn DEF NumberInv
  <2> QED
    BY <1>4, <2>1, SeqWithin
<1>11. ledgerFile'.high <= ledger'.high /\ ledger'.high <= issued'
  BY <1>3, MarkStep
<1>12. NumberInv'
  BY <1>3, <1>6, <1>7, <1>8, <1>9, <1>10, <1>11 DEF NumberInv
<1> QED
  BY <1>3, <1>4, <1>12

LEMMA NumberInit == Init => NumberInv
<1> SUFFICES ASSUME Init
             PROVE  NumberInv
  OBVIOUS
<1>1. /\ downlink = << >> /\ uplink = << >> /\ late = << >> /\ outbox = << >> /\ applied = << >>
      /\ busy = Idle /\ issued = 0 /\ busFile = EmptyBus
      /\ ledger = EmptyLedger /\ ledgerFile = EmptyLedger
  BY DEF Init, BusInit, DisplayInit
<1>2. QueueNumbered
  BY <1>1 DEF QueueNumbered, EmptyBus, Live
<1> QED
  BY <1>1, <1>2, ShortSeq DEF NumberInv, EmptyLedger

(***************************************************************************)
(* Commands reach the display in their order.                              *)
(***************************************************************************)

IdsOf(q) == {q[i].id : i \in DOMAIN q}

\* Commands a message or a result on its way is about.
InFlight == IdsOf(uplink) \cup IdsOf(late) \cup IdsOf(outbox) \cup IdsOf(downlink)

\* When the ledger is full, the record the next command pushes out is of a command
\* that is finished and not on its way again.
RoomForNext ==
  downlink # << >> /\ ~ Known(Head(downlink).id) /\ Len(ledger.records) = MaxRecords
    => ledger.records[1].id \notin Pending(busFile) \cup IdsOf(downlink)

\* The downlink: in order, behind everything the pump sent before.
DownlinkInOrder ==
  /\ \A i, j \in DOMAIN downlink : i < j => downlink[i].id < downlink[j].id
  /\ IdsOf(downlink) \subseteq sent
  /\ sent \subseteq 1 .. issued
  /\ \A i \in DOMAIN downlink, c \in Pending(bus) :
       bus.entries[c].device = Self /\ c < downlink[i].id => c \in sent

\* What was sent and is not finished is on its way, or it arrived.
SentArrives == \A c \in sent \cap Pending(busFile) : c \in IdsOf(downlink) \/ Known(c)

\* A command the display would find out of order is one that never gets there again:
\* its time is up, and no report about it is on its way.
MissedIsOver(l) ==
  \A c \in Pending(busFile) :
    busFile.entries[c].device = Self /\ ~ InTurn(l, c) =>
      TimesOut(busFile, c) /\ (c \in Pending(bus) => c \notin InFlight)

\* What the display knows it knows again after a restart, or may still accept.
KnownAfterRestart == \A c : Known(c) => InTurn(ledgerFile, c)

\* Results the display still holds are about commands it knows.
ResultsKnown == \A c \in IdsOf(outbox) \cap Pending(busFile) : Known(c)

HandledKnown == busy # Idle /\ busy.phase # "refresh" => Known(busy.cmd.id)

OrderedRecord == {r \in LedgerRecord : r.code # "out_of_order"}

TurnInv ==
  /\ DownlinkInOrder
  /\ SentArrives
  /\ \A c \in IdsOf(downlink) : InTurn(ledger, c)
  /\ MissedIsOver(ledger)
  /\ MissedIsOver(ledgerFile)
  /\ KnownAfterRestart
  /\ ResultsKnown
  /\ HandledKnown
  /\ ledger.records \in Seq(OrderedRecord)
  /\ ledgerFile.records \in Seq(OrderedRecord)
  /\ busy # Idle /\ busy.phase # "refresh" => busy.code # "out_of_order"

\* The kinds of steps.
ReceiveStep ==
  /\ downlink # << >> /\ ReceiveCommand /\ Learns(Head(downlink))
  /\ downlink' = Tail(downlink)
  /\ UNCHANGED <<bus, busFile, issued, lapsed, overdue, sent, uplink, late>>

PumpStep == PumpCommands /\ KnowsTheSame

OtherStep ==
  /\ KnowsTheSame
  /\ \/ downlink' = << >> /\ sent' = {}
     \/ UNCHANGED <<downlink, sent>> /\ ~ RestartDaemon

StartStep ==
  /\ RestartDisplay /\ KnowsItsFile
  /\ downlink' = << >> /\ sent' = {} /\ outbox' = << >>
  /\ UNCHANGED <<bus, busFile, issued, lapsed, overdue>>

LEMMA TurnCases ==
  ASSUME RemoteInv, [Next]_vars
  PROVE  ReceiveStep \/ PumpStep \/ OtherStep \/ StartStep
<1>1. CASE PumpCommands
  <2>1. UNCHANGED <<ledger, ledgerFile>>
    BY <1>1, Zenon DEF PumpCommands, displayVars
  <2>2. KnowsTheSame
    BY <2>1 DEF KnowsTheSame
  <2> QED
    BY <1>1, <2>2 DEF PumpStep
<1>2. CASE downlink # << >> /\ ReceiveCommand /\ Learns(Head(downlink))
  BY <1>2, Zenon DEF ReceiveCommand, ReceiveStep, busVars
<1>3. CASE RestartDisplay /\ outbox' = << >> /\ KnowsItsFile
  BY <1>3, Zenon DEF RestartDisplay, BreakLink, StartStep, busVars
<1>4. CASE KnowsTheSame /\ ~ PumpCommands
  <2>1. CASE ReceiveCommand
    <3>1. downlink # << >>
      BY <2>1, Zenon DEF ReceiveCommand
    <3>2. CASE KnowsTheSame /\ ~ Learns(Head(downlink))
      <4>1. Learns(Head(downlink))
        <5>1. Head(downlink) \in Command
          BY <2>1 DEF ReceiveCommand, RemoteInv, LinkType
        <5>2. Handle(Head(downlink), Head(downlink).id \in lapsed)
          BY <2>1, Zenon DEF ReceiveCommand
        <5> QED
          BY <5>1, <5>2, ReceiveKnows DEF Learns, RemoteInv
      <4> QED
        BY <3>2, <4>1
    <3> QED
      BY <1>2, <1>4, <2>1, <3>1, <3>2
  <2>2. CASE downlink' = << >> /\ sent' = {}
    BY <1>4, <2>2 DEF OtherStep
  <2>3. CASE UNCHANGED <<downlink, sent>>
    <3>1. RestartDaemon => downlink' = << >> /\ sent' = {}
      BY DEF RestartDaemon
    <3> QED
      BY <1>4, <2>2, <2>3, <3>1 DEF OtherStep
  <2> QED
    BY <1>4, <2>1, <2>2, <2>3, DownlinkCases
<1> QED
  BY <1>1, <1>2, <1>3, <1>4, KnowledgeStep

\* Ids of a part of a sequence, and of what is in it.
LEMMA IdsIn ==
  ASSUME NEW R, NEW q \in Seq(R), NEW I, \A r \in R : r.id \in I
  PROVE  IdsOf(q) \subseteq I
BY DEF IdsOf

LEMMA HasIds ==
  ASSUME NEW q \in Seq(Result)
  PROVE  q \in Seq({r \in Result : r.id \in IdsOf(q)})
<1>1. PICK n \in Nat : q \in [1 .. n -> Result]
  OBVIOUS
<1>2. q \in [1 .. n -> {r \in Result : r.id \in IdsOf(q)}]
  BY <1>1 DEF IdsOf
<1> QED
  BY <1>2

\* New results are replies to the command received, to the one handled, or about a
\* refresh of the ledger.
LEMMA OutboxStep ==
  ASSUME RemoteInv, [Next]_vars, HandledKnown, NEW c \in IdsOf(outbox')
  PROVE  \/ c \in IdsOf(outbox)
         \/ ReceiveStep /\ c = Head(downlink).id
         \/ KnowsTheSame /\ Known(c)
<1>1. TypeInv /\ outbox \in Seq(Result)
  BY DEF RemoteInv, TypeInv, DisplayTypeOK
<1>2. /\ ledger.records \in Seq(LedgerRecord) /\ ledgerFile.records \in Seq(LedgerRecord)
      /\ \A i \in DOMAIN ledger.records : ledger.records[i] \in LedgerRecord
  BY <1>1 DEF TypeInv, DisplayTypeOK, Ledger
<1> DEFINE With(x) == {r \in Result : r.id \in IdsOf(outbox) \cup {x}}
<1>3. \A x : outbox \in Seq(With(x))
  BY <1>1, HasIds, SeqWithin
<1>4. \A x : outbox' \in Seq(With(x)) => c \in IdsOf(outbox) \cup {x}
  <2> SUFFICES ASSUME NEW x, outbox' \in Seq(With(x))
               PROVE  c \in IdsOf(outbox) \cup {x}
    OBVIOUS
  <2>1. \A r \in With(x) : r.id \in IdsOf(outbox) \cup {x}
    OBVIOUS
  <2> DEFINE R == With(x)
             q == outbox'
             I == IdsOf(outbox) \cup {x}
  <2>2. q \in Seq(R) /\ \A r \in R : r.id \in I
    BY <2>1
  <2> HIDE DEF R, q, I
  <2>3. IdsOf(q) \subseteq I
    BY <2>2, IdsIn
  <2> QED
    BY <2>3 DEF q, I
<1>5. \A cmd \in Command, status \in Statuses, code \in Codes :
        ReplyTo(cmd, status, code) \in With(cmd.id)
  BY DEF ReplyTo, Result, Command
<1>6. \A r \in LedgerRecord : ResultOf(r) \in With(r.id)
  BY DEF ResultOf, Result, LedgerRecord
<1>7. /\ "accepted" \in Statuses /\ "failed" \in Statuses /\ "rejected" \in Statuses
      /\ "executed" \in Statuses
      /\ "" \in Codes /\ "state_unavailable" \in Codes /\ "out_of_order" \in Codes
  BY DEF Statuses, FinalStatuses, Codes
<1> HIDE DEF With
<1>8. CASE ReceiveCommand
  <2> DEFINE cmd == Head(downlink)
  <2>1. cmd \in Command /\ ReceiveStep
    <3>1. cmd \in Command /\ downlink # << >> /\ Handle(cmd, cmd.id \in lapsed)
      BY <1>8, PartsOf, Zenon DEF ReceiveCommand, RemoteInv, LinkType
    <3>2. Learns(cmd)
      BY <1>1, <3>1, ReceiveKnows DEF Learns
    <3> QED
      BY <1>8, <3>1, <3>2, Zenon DEF ReceiveStep, ReceiveCommand, busVars
  <2>2. Handle(cmd, cmd.id \in lapsed)
    BY <1>8, Zenon DEF ReceiveCommand
  <2>3. ReceiveStep /\ cmd = Head(downlink)
    BY <2>1
  <2> HIDE DEF cmd
  <2>4. outbox' \in Seq(With(cmd.id))
    <3>1. \A v \in Verdicts(cmd, cmd.id \in lapsed) \ {Valid} :
            NewRecord(cmd, v[1], v[2]) \in LedgerRecord
            /\ ReplyTo(cmd, v[1], v[2]) \in With(cmd.id)
      BY <1>5, <2>1, VerdictType, NewRecordType
    <3>2. NewRecord(cmd, "rejected", "out_of_order") \in LedgerRecord
          /\ AcceptedRecord(cmd) \in LedgerRecord
      BY <1>1, <1>7, <2>1, NewRecordType, AcceptedRecordType DEF TypeInv, DisplayTypeOK
    <3>3. \A r \in LedgerRecord : r.id = cmd.id => ResultOf(r) \in With(cmd.id)
      BY <1>6
    <3>4. /\ ReplyTo(cmd, "rejected", "out_of_order") \in With(cmd.id)
          /\ ReplyTo(cmd, "failed", "state_unavailable") \in With(cmd.id)
          /\ ReplyTo(cmd, "accepted", "") \in With(cmd.id)
      BY <1>5, <1>7, <2>1
    <3> QED
      BY <1>1, <1>2, <1>3, <2>1, <2>2, <3>1, <3>2, <3>3, <3>4, HandleIn
  <2> QED
    BY <1>4, <2>3, <2>4
<1>9. CASE Complete
  <2>1. /\ busy # Idle /\ busy.phase # "refresh"
        /\ busy.cmd \in Command /\ busy.status \in Statuses /\ busy.code \in Codes
    BY <1>1, <1>9, BusyType DEF Complete, Statuses
  <2>2. Known(busy.cmd.id)
    BY <2>1 DEF HandledKnown
  <2>3. outbox' \in Seq(With(busy.cmd.id))
    <3>1. \A r \in LedgerRecord : CompletedRecord(r, busy.status, busy.code) \in LedgerRecord
      BY <2>1, CompletedRecordType
    <3> QED
      BY <1>1, <1>2, <1>3, <1>5, <1>7, <1>9, <2>1, <3>1, CompleteIn
  <2>4. KnowsTheSame
    BY <1>1, <1>9, CompleteKnows DEF KnowsTheSame
  <2> QED
    BY <1>4, <2>2, <2>3, <2>4
<1>10. CASE CompleteRefresh
  <2> DEFINE done(i) == [ledger EXCEPT !.records[i] = CompletedRecord(@, "executed", "")]
  <2>1. PICK i \in Answered(ledger, shown) :
          Reply(<<ResultOf(done(i).records[i])>>) \/ UNCHANGED outbox
    BY <1>10, Zenon DEF CompleteRefresh
  <2>2. i \in DOMAIN ledger.records /\ ledger.records[i] \in LedgerRecord
    BY <1>2 DEF Answered
  <2> DEFINE r == CompletedRecord(ledger.records[i], "executed", "")
  <2>3. r \in LedgerRecord /\ r.id = ledger.records[i].id
    BY <1>7, <2>2, CompletedRecordType
  <2>4. done(i).records[i] = r
    <3>1. ledger \in Ledger
      BY <1>1 DEF TypeInv, DisplayTypeOK
    <3> QED
      BY <2>2, <3>1 DEF Ledger
  <2> HIDE DEF r, done
  <2>5. Known(r.id)
    BY <2>2, <2>3 DEF Known
  <2>6. <<ResultOf(r)>> \in Seq(With(r.id))
    BY <1>6, <2>3, ShortSeq
  <2>7. outbox' \in Seq(With(r.id))
    BY <1>3, <2>1, <2>4, <2>6, ReplyIn
  <2>8. KnowsTheSame
    BY <1>1, <1>10, CompleteKnows DEF KnowsTheSame
  <2> QED
    BY <1>4, <2>5, <2>7, <2>8
<1>11. CASE outbox' = << >>
  BY <1>11 DEF IdsOf
<1>12. CASE outbox' = outbox \/ (outbox # << >> /\ outbox' = Tail(outbox))
  BY <1>1, <1>12 DEF IdsOf
<1>13. RestartDisplay => outbox' = << >>
  BY Zenon DEF RestartDisplay, Restart
<1> QED
  BY <1>8, <1>9, <1>10, <1>11, <1>12, <1>13, LedgerCases, Zenon

\* What is due in memory is due in the file.
LEMMA ExpiredPending ==
  ASSUME BusInv, bus' = Expired(bus), NEW c \in Pending(bus')
  PROVE  /\ c \in Pending(bus) /\ bus'.entries[c] = bus.entries[c]
         /\ c \in Pending(busFile) /\ busFile.entries[c] = bus.entries[c]
         /\ ~ TimesOut(busFile, c)
<1>1. bus \in BusState /\ c \in Ids
  BY DEF BusInv, Sound, Pending, Live
<1>2. bus'.entries = [d \in Ids |-> IF d \in Pending(bus) /\ TimesOut(bus, d)
                                      THEN TimedOut(bus.entries[d]) ELSE bus.entries[d]]
  BY <1>1 DEF Expired, BusState
<1>3. CASE c \in Pending(bus) /\ TimesOut(bus, c)
  <2>1. bus'.entries[c] = TimedOut(bus.entries[c])
    BY <1>1, <1>2, <1>3
  <2>2. bus.entries[c] \in Entry
    BY <1>1, <1>3, EntryType DEF Pending
  <2>3. bus'.entries[c].status \in {"expired", "failed"}
    BY <2>1, <2>2 DEF TimedOut, Entry
  <2> QED
    BY <2>3 DEF Pending, Final, FinalStatuses
<1>4. CASE ~ (c \in Pending(bus) /\ TimesOut(bus, c))
  <2>1. bus'.entries[c] = bus.entries[c]
    BY <1>1, <1>2, <1>4
  <2>2. c \in Pending(bus)
    BY <2>1 DEF Pending, Live
  <2>3. c \in Pending(busFile) /\ busFile.entries[c] = bus.entries[c]
    BY <2>2, SameInFile DEF Pending
  <2> QED
    BY <1>4, <2>1, <2>2, <2>3 DEF TimesOut
<1> QED
  BY <1>3, <1>4

\* What a turn of the pump puts on the downlink.
Pumps(ids) ==
  /\ ids = {} \/ (bus' = Expired(bus) /\ ids = Deliverable(bus', Self, sent))
  /\ sent' = sent \cup ids
  /\ \A i \in DOMAIN downlink' :
       \/ i \in DOMAIN downlink /\ downlink'[i] = downlink[i]
       \/ i \notin DOMAIN downlink /\ \E c \in ids : downlink'[i].id = c
  /\ \A i \in DOMAIN downlink : i \in DOMAIN downlink' /\ downlink'[i] = downlink[i]
  /\ \A c \in ids : c \in IdsOf(downlink')
  /\ \A i, j \in DOMAIN downlink' \ DOMAIN downlink :
       i < j => downlink'[i].id < downlink'[j].id
  /\ \A i \in DOMAIN downlink, j \in DOMAIN downlink' \ DOMAIN downlink : i < j

LEMMA PumpedIs ==
  ASSUME BusInv', downlink \in Seq(Command), PumpCommands
  PROVE  \E ids : Pumps(ids)
<1>1. PICK ids : /\ ids = {} \/ (bus' = Expired(bus) /\ ids = Deliverable(bus', Self, sent))
                 /\ downlink' = downlink \o Batch(bus', ids)
                 /\ sent' = sent \cup ids
  <2> DEFINE batch == IF bus' = Expired(bus) THEN Deliverable(bus', Self, sent) ELSE {}
  <2>1. downlink' = downlink \o Batch(bus', batch) /\ sent' = sent \cup batch
    BY DEF PumpCommands
  <2>2. batch = {} \/ (bus' = Expired(bus) /\ batch = Deliverable(bus', Self, sent))
    OBVIOUS
  <2> QED
    BY <2>1, <2>2, Zenon
<1> DEFINE b == bus'
           q == Batch(b, ids)
           n == Len(downlink)
<1>2. b \in BusState /\ ids \in SUBSET Live(b) /\ ids \in SUBSET Ids
  BY <1>1 DEF BusInv, Sound, Deliverable, Pending, Live
<1> HIDE DEF b
<1>3. /\ q \in Seq(Command)
      /\ \A i \in DOMAIN q : \E c \in ids : q[i].id = c
      /\ \A c \in ids : \E i \in DOMAIN q : q[i].id = c
      /\ \A i, j \in DOMAIN q : i < j => q[i].id < q[j].id
  <2>1. \A c : Wire(b, c).id = c
    BY DEF Wire
  <2> QED
    BY <1>2, <2>1, BatchIs
<1> HIDE DEF q
<1>4. downlink' = downlink \o q
  BY <1>1 DEF q, b
<1>5. /\ n \in Nat /\ Len(q) \in Nat /\ DOMAIN downlink = 1 .. n /\ DOMAIN q = 1 .. Len(q)
      /\ DOMAIN downlink' = 1 .. n + Len(q)
      /\ \A i \in 1 .. n : downlink'[i] = downlink[i]
      /\ \A i \in 1 .. Len(q) : downlink'[n + i] = q[i]
  BY <1>3, <1>4
<1> HIDE DEF n
<1>6. \A i \in DOMAIN downlink' \ DOMAIN downlink :
        /\ i - n \in DOMAIN q /\ downlink'[i] = q[i - n] /\ i \in Nat
  <2> SUFFICES ASSUME NEW i \in (n + 1) .. (n + Len(q))
               PROVE  i - n \in 1 .. Len(q) /\ downlink'[i] = q[i - n] /\ i \in Nat
    BY <1>5
  <2>1. i - n \in 1 .. Len(q) /\ n + (i - n) = i
    BY <1>5
  <2> QED
    BY <1>5, <2>1
<1>7. \A i \in DOMAIN downlink' :
        \/ i \in DOMAIN downlink /\ downlink'[i] = downlink[i]
        \/ i \notin DOMAIN downlink /\ \E c \in ids : downlink'[i].id = c
  BY <1>3, <1>5, <1>6
<1>8. \A i \in DOMAIN downlink : i \in DOMAIN downlink' /\ downlink'[i] = downlink[i]
  BY <1>5
<1>9. ASSUME NEW c \in ids
      PROVE  c \in IdsOf(downlink')
  <2>1. PICK i \in 1 .. Len(q) : q[i].id = c
    BY <1>3, <1>5
  <2>2. n + i \in DOMAIN downlink' /\ downlink'[n + i] = q[i]
    BY <1>5
  <2> QED
    BY <2>1, <2>2 DEF IdsOf
<1>10. ASSUME NEW i \in DOMAIN downlink' \ DOMAIN downlink,
              NEW j \in DOMAIN downlink' \ DOMAIN downlink, i < j
       PROVE  downlink'[i].id < downlink'[j].id
  <2>1. i - n < j - n
    BY <1>5, <1>6, <1>10
  <2> QED
    BY <1>3, <1>6, <2>1
<1>11. \A i \in DOMAIN downlink, j \in DOMAIN downlink' \ DOMAIN downlink : i < j
  BY <1>5
<1> QED
  BY <1>1, <1>7, <1>8, <1>9, <1>10, <1>11 DEF Pumps

\* What gets on its way.
LEMMA InFlightStep ==
  ASSUME RemoteInv, RemoteInv', [Next]_vars, HandledKnown, NEW c \in InFlight'
  PROVE  \/ c \in InFlight /\ (RestartDaemon => c \in IdsOf(outbox))
         \/ KnowsTheSame /\ Known(c)
         \/ /\ PumpCommands /\ bus' = Expired(bus)
            /\ c \in Deliverable(bus', Self, sent)
<1>1. /\ outbox \in Seq(Result) /\ uplink \in Seq(Result) /\ late \in Seq(Result)
      /\ downlink \in Seq(Command)
  <2>1. Report \subseteq Result
    BY DEF Report
  <2> QED
    BY <2>1, SeqWithin DEF RemoteInv, LinkType
<1>2. CASE RestartDaemon
  <2>1. /\ outbox' = outbox /\ downlink' = << >> /\ uplink' = << >> /\ late' = << >>
    BY <1>2, Zenon DEF RestartDaemon, SetSession
  <2> QED
    BY <1>2, <2>1 DEF InFlight, IdsOf
<1>3. ASSUME ~ RestartDaemon, c \in IdsOf(outbox')
      PROVE  c \in InFlight \/ (KnowsTheSame /\ Known(c))
  <2>1. CASE ReceiveStep /\ c = Head(downlink).id
    <3>1. 1 \in DOMAIN downlink /\ Head(downlink) = downlink[1]
      BY <1>1, <2>1 DEF ReceiveStep
    <3> QED
      BY <2>1, <3>1 DEF InFlight, IdsOf
  <2> QED
    BY <1>3, <2>1, OutboxStep DEF InFlight
<1>4. ASSUME c \in IdsOf(uplink') \cup IdsOf(late')
      PROVE  c \in InFlight
  <2> DEFINE I == IdsOf(uplink) \cup IdsOf(late) \cup IdsOf(outbox)
             R == {r \in Result : r.id \in I}
  <2>1. outbox \in Seq(R) /\ uplink \in Seq(R) /\ late \in Seq(R)
    BY <1>1, HasIds, SeqWithin
  <2>2. \A r \in R : r.id \in I
    OBVIOUS
  <2> HIDE DEF I, R
  <2>3. uplink' \in Seq(R) /\ late' \in Seq(R)
    BY <2>1, ResultsIn
  <2>4. \A q \in Seq(R) : IdsOf(q) \subseteq I
    BY <2>2, IdsIn
  <2> QED
    BY <1>4, <2>3, <2>4 DEF I, InFlight
<1>5. ASSUME c \in IdsOf(downlink')
      PROVE  \/ c \in InFlight
             \/ /\ PumpCommands /\ bus' = Expired(bus)
                /\ c \in Deliverable(bus', Self, sent)
  <2>1. PICK i \in DOMAIN downlink' : downlink'[i].id = c
    BY <1>5 DEF IdsOf
  <2>2. CASE PumpCommands
    <3>1. PICK ids : Pumps(ids)
      BY <1>1, <2>2, PumpedIs DEF RemoteInv
    <3>2. CASE i \in DOMAIN downlink /\ downlink'[i] = downlink[i]
      BY <2>1, <3>2 DEF InFlight, IdsOf
    <3>3. CASE c \in ids
      BY <2>2, <3>1, <3>3 DEF Pumps
    <3> QED
      BY <2>1, <3>1, <3>2, <3>3 DEF Pumps
  <2>3. CASE downlink # << >> /\ ReceiveCommand
    <3>1. downlink' = Tail(downlink)
      BY <2>3, Zenon DEF ReceiveCommand
    <3>2. i + 1 \in DOMAIN downlink /\ downlink'[i] = downlink[i + 1]
      BY <1>1, <2>1, <2>3, <3>1
    <3> QED
      BY <2>1, <3>2 DEF InFlight, IdsOf
  <2>4. CASE downlink' = << >>
    BY <2>1, <2>4
  <2>5. CASE UNCHANGED downlink
    BY <1>5, <2>5 DEF InFlight, IdsOf
  <2> QED
    BY <2>2, <2>3, <2>4, <2>5, DownlinkCases
<1>6. c \in IdsOf(outbox') \/ c \in IdsOf(uplink') \cup IdsOf(late') \/ c \in IdsOf(downlink')
  BY DEF InFlight, IdsOf
<1> QED
  BY <1>2, <1>3, <1>4, <1>5, <1>6, Zenon

\* The clock only runs on.
LEMMA ClockGrows ==
  ASSUME [Next]_vars
  PROVE  lapsed \subseteq lapsed' /\ overdue \subseteq overdue'
<1>1. CASE UNCHANGED <<lapsed, overdue>>
  BY <1>1
<1>2. CASE \E c \in Ids : PassTTL(c) \/ PassExecutionWindow(c)
  BY <1>2 DEF PassTTL, PassExecutionWindow, Lapse, RunOut
<1>3. CASE ~ \E c \in Ids : PassTTL(c) \/ PassExecutionWindow(c)
  <2>1. UNCHANGED <<lapsed, overdue>>
    BY <1>3, Zenon DEF Next, PublishCommand, Publish, ReadStatus, Get, Collect, PumpCommands,
         PollPending, DrainResult, DrainLate, RecordResult, Record, RestartDaemon, Reopen, Connect,
         Disconnect, ReceiveCommand, ReceiveSnapshot, TransmitResult, RunCommand, DropResult,
         RestartDisplay, busVars, vars
  <2> QED
    BY <1>1, <2>1
<1> QED
  BY <1>2, <1>3

\* A command unfinished in memory was so before, or it is new, or the daemon started.
LEMMA MemoryPendingStep ==
  ASSUME RemoteInv, "bus_corrupt" \notin Faults, [Next]_vars, NEW c \in Pending(bus')
  PROVE  \/ RestartDaemon
         \/ c = issued + 1 /\ issued' = c
         \/ c \in Pending(bus) /\ bus'.entries[c].device = bus.entries[c].device
<1>1. PICK c0, st : QueueMoves(c0, st)
  BY QueueStep
<1>2. c \in Ids /\ bus'.entries[c] # NoEntry /\ ~ Final(bus'.entries[c].status)
  BY DEF Pending, Live
<1>3. CASE Moves(bus, bus', c0, st)
  <2>1. CASE bus'.entries[c] = bus.entries[c]
    BY <1>2, <2>1 DEF Pending, Live
  <2>2. CASE c \in Pending(bus) /\ SameCommand(bus.entries[c], bus'.entries[c])
    BY <2>2 DEF SameCommand
  <2> QED
    BY <1>2, <1>3, <2>1, <2>2 DEF Moves
<1> QED
  BY <1>1, <1>3 DEF QueueMoves

\* A command unfinished in the file is new, or stays as it was, or moves on by a
\* report that was on its way.
LEMMA PendingStep ==
  ASSUME RemoteInv, "bus_corrupt" \notin Faults, [Next]_vars, NEW c \in Pending(busFile')
  PROVE  \/ c = issued + 1 /\ issued' = c
         \/ /\ c \in Pending(busFile)
            /\ busFile'.entries[c].device = busFile.entries[c].device
            /\ \/ busFile'.entries[c] = busFile.entries[c]
               \/ c \in Pending(bus) /\ c \in InFlight
<1>1. PICK c0, st : QueueMoves(c0, st)
  BY QueueStep
<1>2. c \in Ids /\ busFile'.entries[c] # NoEntry /\ ~ Final(busFile'.entries[c].status)
  BY DEF Pending, Live
<1>3. CASE busFile'.entries[c] = busFile.entries[c]
  BY <1>2, <1>3 DEF Pending, Live
<1>4. CASE /\ c \in Pending(busFile) /\ SameCommand(busFile.entries[c], busFile'.entries[c])
           /\ busFile'.entries[c].status \in {"expired", "failed"}
  BY <1>2, <1>4 DEF Final, FinalStatuses
<1>5. CASE /\ c = c0 /\ c \in Pending(busFile) /\ c \in Pending(bus)
           /\ SameCommand(busFile.entries[c], busFile'.entries[c])
  <2>1. c0 # 0
    BY <1>2, <1>5 DEF Ids
  <2>2. c0 \in InFlight
    BY <1>1, <2>1 DEF QueueMoves, Reported, InFlight, IdsOf
  <2> QED
    BY <1>5, <2>2 DEF SameCommand
<1> QED
  BY <1>1, <1>2, <1>3, <1>4, <1>5 DEF QueueMoves, Moves

\* What the ledger forgets by room made for the next command is over.
LEMMA KeptKnown ==
  ASSUME RoomForNext, ReceiveStep, NEW c \in Pending(busFile) \cup IdsOf(downlink), KnownIn(ledger, c)
  PROVE  KnownIn(ledger', c)
BY DEF RoomForNext, ReceiveStep, Learns

LEMMA KnownIsKnownIn == \A c : Known(c) <=> KnownIn(ledger, c)
BY DEF Known, KnownIn

LEMMA KnownIsKnownInNext == \A c : Known(c)' <=> KnownIn(ledger', c)
BY DEF Known, KnownIn

\* A step from a state in which commands are in turn.
Turning ==
  /\ RemoteInv /\ RemoteInv'
  /\ NumberInv /\ NumberInv'
  /\ TurnInv /\ RoomForNext
  /\ [Next]_vars

\* The next command on the downlink, and those behind it.
LEMMA HeadIs ==
  ASSUME NumberInv, DownlinkInOrder, downlink # << >>
  PROVE  /\ Head(downlink) \in Message /\ Head(downlink).id \in Ids
         /\ Head(downlink).seq = Head(downlink).id
         /\ 1 \in DOMAIN downlink /\ Head(downlink) = downlink[1]
         /\ Head(downlink).id \in IdsOf(downlink)
         /\ \A d \in IdsOf(Tail(downlink)) : d \in IdsOf(downlink) /\ Head(downlink).id < d
         /\ \A d \in IdsOf(downlink) : d = Head(downlink).id \/ d \in IdsOf(Tail(downlink))
         /\ Tail(downlink) \in Seq(Message)
         /\ \A i \in DOMAIN Tail(downlink) :
              i + 1 \in DOMAIN downlink /\ Tail(downlink)[i] = downlink[i + 1]
<1> DEFINE q == downlink
           t == Tail(q)
<1>1. q \in Seq(Message) /\ q # << >>
  BY DEF NumberInv
<1>2. /\ Head(q) \in Message /\ 1 \in DOMAIN q /\ Head(q) = q[1] /\ t \in Seq(Message)
      /\ \A i \in DOMAIN t : i + 1 \in DOMAIN q /\ t[i] = q[i + 1] /\ 1 < i + 1
      /\ \A i \in DOMAIN q : i = 1 \/ (i - 1 \in DOMAIN t /\ t[i - 1] = q[i])
  BY <1>1
<1>3. \A i, j \in DOMAIN q : i < j => q[i].id < q[j].id
  BY DEF DownlinkInOrder
<1> HIDE DEF t
<1>4. \A d \in IdsOf(t) : d \in IdsOf(q) /\ Head(q).id < d
  <2> SUFFICES ASSUME NEW i \in DOMAIN t
               PROVE  t[i].id \in IdsOf(q) /\ Head(q).id < t[i].id
    BY DEF IdsOf
  <2>1. i + 1 \in DOMAIN q /\ t[i] = q[i + 1] /\ 1 < i + 1
    BY <1>2
  <2>2. q[1].id < q[i + 1].id
    BY <1>2, <1>3, <2>1
  <2> QED
    BY <1>2, <2>1, <2>2 DEF IdsOf
<1>5. \A d \in IdsOf(q) : d = Head(q).id \/ d \in IdsOf(t)
  <2> SUFFICES ASSUME NEW i \in DOMAIN q
               PROVE  q[i].id = Head(q).id \/ q[i].id \in IdsOf(t)
    BY DEF IdsOf
  <2>1. i = 1 \/ (i - 1 \in DOMAIN t /\ t[i - 1] = q[i])
    BY <1>2
  <2> QED
    BY <1>2, <2>1 DEF IdsOf
<1>6. Head(q).id \in IdsOf(q)
  BY <1>2 DEF IdsOf
<1>7. Head(q).id \in Ids /\ Head(q).seq = Head(q).id
  BY <1>2 DEF Message, Command
<1> QED
  BY <1>2, <1>4, <1>5, <1>6, <1>7 DEF t

LEMMA DownlinkStep ==
  ASSUME Turning, "bus_corrupt" \notin Faults
  PROVE  DownlinkInOrder'
<1>1. /\ DownlinkInOrder /\ BusInv /\ BusInv' /\ downlink \in Seq(Message)
      /\ downlink \in Seq(Command) /\ issued <= issued'
      /\ issued \in Nat /\ issued' \in Nat
  <2>1. issued <= issued'
    BY NumberStep DEF Turning
  <2>2. /\ DownlinkInOrder /\ BusInv /\ BusInv' /\ downlink \in Seq(Message)
        /\ downlink \in Seq(Command)
    BY DEF Turning, TurnInv, RemoteInv, NumberInv, LinkType
  <2>3. issued \in Nat /\ issued' \in Nat
    BY <2>2, ProtocolAssumption DEF BusInv
  <2> QED
    BY <2>1, <2>2, <2>3
<1>2. ASSUME NEW i \in DOMAIN downlink
      PROVE  downlink[i].id \in Nat /\ downlink[i].id <= issued
  <2>1. downlink[i] \in Message
    BY <1>1
  <2> QED
    BY <2>1, ProtocolAssumption DEF Message, Command, Agrees, Ids
<1>3. sent \subseteq 1 .. issued'
  BY <1>1 DEF DownlinkInOrder
<1>4. CASE downlink' = << >> /\ sent' = {}
  BY <1>4 DEF DownlinkInOrder, IdsOf
<1>5. CASE ReceiveStep
  <2>1. downlink # << >> /\ downlink' = Tail(downlink) /\ sent' = sent /\ bus' = bus
    BY <1>5 DEF ReceiveStep
  <2>2. \A i \in DOMAIN downlink' : i + 1 \in DOMAIN downlink /\ downlink'[i] = downlink[i + 1]
    BY <1>1, <2>1, HeadIs DEF Turning
  <2>3. DOMAIN downlink' \subseteq Nat
    BY <1>1, <2>1
  <2>4. \A i, j \in DOMAIN downlink' : i < j => downlink'[i].id < downlink'[j].id
    <3>1. \A i, j \in Nat : i < j => i + 1 < j + 1
      OBVIOUS
    <3> QED
      BY <1>1, <2>2, <2>3, <3>1 DEF DownlinkInOrder
  <2>5. IdsOf(downlink') \subseteq sent'
    BY <1>1, <2>1, <2>2 DEF DownlinkInOrder, IdsOf
  <2>6. \A i \in DOMAIN downlink', c \in Pending(bus') :
          bus'.entries[c].device = Self /\ c < downlink'[i].id => c \in sent'
    BY <1>1, <2>1, <2>2 DEF DownlinkInOrder
  <2> QED
    BY <1>3, <2>1, <2>4, <2>5, <2>6 DEF DownlinkInOrder
<1>6. CASE UNCHANGED <<downlink, sent>> /\ ~ RestartDaemon
  <2>1. ASSUME NEW i \in DOMAIN downlink', NEW c \in Pending(bus'),
               bus'.entries[c].device = Self, c < downlink'[i].id
        PROVE  c \in sent'
    <3>1. CASE c = issued + 1
      BY <1>1, <1>2, <1>6, <2>1, <3>1
    <3>2. CASE c \in Pending(bus) /\ bus'.entries[c].device = bus.entries[c].device
      BY <1>1, <1>6, <2>1, <3>2 DEF DownlinkInOrder
    <3> QED
      BY <1>6, <3>1, <3>2, MemoryPendingStep DEF Turning
  <2> QED
    BY <1>1, <1>3, <1>6, <2>1 DEF DownlinkInOrder, IdsOf
<1>7. CASE PumpCommands
  <2>1. PICK ids : Pumps(ids)
    BY <1>1, <1>7, PumpedIs
  <2>2. issued' = issued
    BY <1>7 DEF PumpCommands, PollPending
  <2>3. ASSUME NEW c \in ids
        PROVE  /\ c \in Pending(bus) /\ bus.entries[c].device = Self /\ c \notin sent
               /\ c \in Nat /\ c \in 1 .. issued
               /\ \A i \in DOMAIN downlink : downlink[i].id < c
    <3>1. c \in Pending(bus') /\ bus'.entries[c].device = Self /\ c \notin sent
          /\ bus' = Expired(bus)
      BY <2>1 DEF Pumps, Deliverable
    <3>2. c \in Pending(bus) /\ bus.entries[c].device = Self
      BY <1>1, <3>1, ExpiredPending
    <3>3. c \in Nat /\ c \in 1 .. issued
      BY <1>1, <3>2 DEF Pending, Live, Ids, BusInv, Sound
    <3>4. ASSUME NEW i \in DOMAIN downlink
          PROVE  downlink[i].id < c
      <4>1. downlink[i].id \in sent
        BY <1>1 DEF DownlinkInOrder, IdsOf
      <4>2. ~ (c < downlink[i].id)
        BY <1>1, <3>1, <3>2 DEF DownlinkInOrder
      <4> QED
        BY <1>2, <3>1, <3>3, <4>1, <4>2
    <3> QED
      BY <3>1, <3>2, <3>3, <3>4
  <2>4. DOMAIN downlink' \subseteq Nat
    BY DEF Turning, NumberInv
  <2>5. ASSUME NEW i \in DOMAIN downlink', NEW j \in DOMAIN downlink', i < j
        PROVE  downlink'[i].id < downlink'[j].id
    <3>1. CASE i \in DOMAIN downlink /\ j \in DOMAIN downlink
      BY <1>1, <2>1, <2>5, <3>1 DEF DownlinkInOrder, Pumps
    <3>2. CASE i \in DOMAIN downlink /\ j \notin DOMAIN downlink
      <4>1. downlink'[i] = downlink[i] /\ \E c \in ids : downlink'[j].id = c
        BY <2>1, <3>2 DEF Pumps
      <4> QED
        BY <2>3, <3>2, <4>1
    <3>3. CASE i \notin DOMAIN downlink /\ j \in DOMAIN downlink
      BY <2>1, <2>4, <2>5, <3>3 DEF Pumps
    <3>4. CASE i \notin DOMAIN downlink /\ j \notin DOMAIN downlink
      BY <2>1, <2>5, <3>4 DEF Pumps
    <3> QED
      BY <3>1, <3>2, <3>3, <3>4
  <2>6. IdsOf(downlink') \subseteq sent'
    BY <1>1, <2>1 DEF DownlinkInOrder, IdsOf, Pumps
  <2>7. sent' \subseteq 1 .. issued'
    BY <1>1, <2>1, <2>2, <2>3 DEF DownlinkInOrder, Pumps
  <2>8. ASSUME NEW i \in DOMAIN downlink', NEW c \in Pending(bus'),
               bus'.entries[c].device = Self, c < downlink'[i].id
        PROVE  c \in sent'
    <3>1. CASE c \in ids
      BY <2>1, <3>1 DEF Pumps
    <3>2. CASE c \notin ids /\ ids # {}
      <4>1. ids = Deliverable(bus', Self, sent)
        BY <2>1, <3>2 DEF Pumps
      <4>2. c \in sent
        BY <2>8, <3>2, <4>1 DEF Deliverable
      <4> QED
        BY <2>1, <4>2 DEF Pumps
    <3>3. CASE ids = {}
      <4>1. i \in DOMAIN downlink /\ downlink'[i] = downlink[i]
        BY <2>1, <3>3 DEF Pumps
      <4>2. c \in Pending(bus) /\ bus.entries[c].device = Self
        <5>1. bus' = bus \/ bus' = Expired(bus)
          BY <1>7 DEF PumpCommands, PollPending, Persist
        <5>2. CASE bus' = bus
          BY <2>8, <5>2
        <5>3. CASE bus' = Expired(bus)
          BY <1>1, <2>8, <5>3, ExpiredPending
        <5> QED
          BY <5>1, <5>2, <5>3
      <4> QED
        BY <1>1, <2>1, <2>8, <4>1, <4>2 DEF DownlinkInOrder, Pumps
    <3> QED
      BY <3>1, <3>2, <3>3
  <2> QED
    BY <2>5, <2>6, <2>7, <2>8 DEF DownlinkInOrder
<1> QED
  BY <1>4, <1>5, <1>6, <1>7, TurnCases DEF Turning, PumpStep, OtherStep, StartStep

\* The numbers at hand in such a step.
LEMMA TurningIs ==
  ASSUME Turning, "bus_corrupt" \notin Faults
  PROVE  /\ BusInv /\ BusInv' /\ TypeInv /\ TypeInv' /\ DownlinkInOrder /\ DownlinkInOrder'
         /\ issued \in Nat /\ issued' \in Nat /\ issued <= issued'
         /\ ledger.high \in Nat /\ ledgerFile.high \in Nat /\ ledgerFile.high <= ledger.high
         /\ ledger.high <= issued
         /\ downlink \in Seq(Message) /\ downlink \in Seq(Command)
         /\ \A c \in IdsOf(downlink) : c \in Ids
         /\ \A c \in Ids : c \in Nat
<1>1. issued <= issued'
  BY NumberStep DEF Turning
<1>2. ledger \in Ledger /\ ledgerFile \in Ledger
  BY DEF Turning, RemoteInv, TypeInv, DisplayTypeOK
<1>3. \A c \in IdsOf(downlink) : c \in Ids
  <2>1. \A m \in Message : m.id \in Ids
    BY DEF Message, Command
  <2> QED
    BY <2>1, IdsIn DEF Turning, NumberInv
<1>4. /\ BusInv /\ BusInv' /\ TypeInv /\ TypeInv' /\ DownlinkInOrder /\ DownlinkInOrder'
      /\ downlink \in Seq(Message) /\ downlink \in Seq(Command)
      /\ ledgerFile.high <= ledger.high /\ ledger.high <= issued
  BY DownlinkStep DEF Turning, TurnInv, RemoteInv, NumberInv, LinkType
<1>5. issued \in Nat /\ issued' \in Nat
  BY <1>4, ProtocolAssumption DEF BusInv
<1>6. ledger.high \in Nat /\ ledgerFile.high \in Nat
  BY <1>2, ProtocolAssumption DEF Ledger
<1>7. \A c \in Ids : c \in Nat
  BY DEF Ids
<1> QED
  BY <1>1, <1>3, <1>4, <1>5, <1>6, <1>7

LEMMA SentStep ==
  ASSUME Turning, "bus_corrupt" \notin Faults
  PROVE  SentArrives'
<1>1. SentArrives
  BY DEF Turning, TurnInv
<1>2. SUFFICES ASSUME NEW c \in sent', c \in Pending(busFile')
               PROVE  c \in IdsOf(downlink') \/ KnownIn(ledger', c)
  BY KnownIsKnownInNext DEF SentArrives
<1>3. ASSUME c \in sent
      PROVE  c \in Pending(busFile) /\ (c \in IdsOf(downlink) \/ KnownIn(ledger, c))
  <2>1. c # issued + 1
    BY <1>3, TurningIs DEF DownlinkInOrder
  <2> QED
    BY <1>1, <1>2, <1>3, <2>1, PendingStep, KnownIsKnownIn DEF Turning, SentArrives
<1>4. CASE ReceiveStep
  <2>1. /\ downlink # << >> /\ downlink' = Tail(downlink) /\ sent' = sent
        /\ KnownIn(ledger', Head(downlink).id)
    BY <1>4 DEF ReceiveStep, Learns
  <2>2. \A d \in IdsOf(downlink) : d = Head(downlink).id \/ d \in IdsOf(Tail(downlink))
    BY <2>1, HeadIs, TurningIs DEF Turning
  <2> QED
    BY <1>3, <1>4, <2>1, <2>2, KeptKnown DEF Turning
<1>5. CASE PumpStep
  <2>1. PICK ids : Pumps(ids)
    BY <1>5, PumpedIs, TurningIs DEF PumpStep
  <2>2. IdsOf(downlink) \subseteq IdsOf(downlink')
    BY <2>1 DEF Pumps, IdsOf
  <2> QED
    BY <1>3, <1>5, <2>1, <2>2 DEF Pumps, PumpStep, KnowsTheSame
<1>6. CASE OtherStep
  BY <1>3, <1>6 DEF OtherStep, KnowsTheSame
<1>7. CASE StartStep
  BY <1>7 DEF StartStep
<1> QED
  BY <1>4, <1>5, <1>6, <1>7, TurnCases DEF Turning

\* The next command is never out of order.
LEMMA NextInTurn ==
  ASSUME Turning, "bus_corrupt" \notin Faults, downlink # << >>
  PROVE  InTurn(ledger, Head(downlink).id)
<1>1. Head(downlink).id \in IdsOf(downlink)
  BY HeadIs, TurningIs DEF Turning
<1> QED
  BY <1>1 DEF Turning, TurnInv

LEMMA DownlinkInTurnStep ==
  ASSUME Turning, "bus_corrupt" \notin Faults, NEW c \in IdsOf(downlink')
  PROVE  InTurn(ledger', c)
<1>1. \A d \in IdsOf(downlink) : InTurn(ledger, d)
  BY DEF Turning, TurnInv
<1>2. CASE ReceiveStep
  <2> DEFINE cmd == Head(downlink)
  <2>1. /\ downlink # << >> /\ downlink' = Tail(downlink) /\ Learns(cmd)
    BY <1>2 DEF ReceiveStep
  <2>2. /\ c \in IdsOf(downlink) /\ cmd.id < c /\ cmd.seq = cmd.id
    BY <2>1, HeadIs, TurningIs DEF Turning
  <2>3. CASE KnownIn(ledger, c)
    BY <1>2, <2>2, <2>3, KeptKnown DEF InTurn, Turning
  <2>4. CASE c > ledger.high
    BY <2>1, <2>2, <2>4, TurningIs DEF Learns, InTurn
  <2> QED
    BY <1>1, <2>2, <2>3, <2>4 DEF InTurn
<1>3. CASE PumpStep
  <2>1. PICK ids : Pumps(ids)
    BY <1>3, PumpedIs, TurningIs DEF PumpStep
  <2>2. c \in IdsOf(downlink) \/ c \in ids
    BY <2>1 DEF Pumps, IdsOf
  <2>3. ASSUME c \in ids
        PROVE  InTurn(ledger, c)
    <3>1. bus' = Expired(bus) /\ c \in Pending(bus') /\ bus'.entries[c].device = Self
      BY <2>1, <2>3 DEF Pumps, Deliverable
    <3>2. /\ c \in Pending(busFile) /\ busFile.entries[c].device = Self
          /\ ~ TimesOut(busFile, c)
      BY <3>1, ExpiredPending, TurningIs
    <3> QED
      BY <3>2 DEF Turning, TurnInv, MissedIsOver
  <2>4. InTurn(ledger, c)
    BY <1>1, <2>2, <2>3
  <2> QED
    BY <1>3, <2>4 DEF PumpStep, KnowsTheSame, InTurn
<1>4. CASE OtherStep
  BY <1>1, <1>4 DEF OtherStep, KnowsTheSame, InTurn, IdsOf
<1>5. CASE StartStep
  BY <1>5 DEF StartStep, IdsOf
<1> QED
  BY <1>2, <1>3, <1>4, <1>5, TurnCases DEF Turning

LEMMA KnownAfterRestartStep ==
  ASSUME Turning, "bus_corrupt" \notin Faults
  PROVE  KnownAfterRestart'
<1>1. \A c : KnownIn(ledger, c) => InTurn(ledgerFile, c)
  BY KnownIsKnownIn DEF Turning, TurnInv, KnownAfterRestart
<1>2. SUFFICES ASSUME NEW c, KnownIn(ledger', c)
               PROVE  InTurn(ledgerFile', c)
  BY KnownIsKnownInNext DEF KnownAfterRestart
<1>3. CASE ledgerFile' = ledger'
  BY <1>2, <1>3 DEF InTurn
<1>4. CASE ReceiveStep /\ ledgerFile' = ledgerFile
  <2>1. CASE c = Head(downlink).id
    <3>1. c \in Nat /\ InTurn(ledger, c)
      BY <1>4, <2>1, NextInTurn, HeadIs, TurningIs DEF ReceiveStep, Turning
    <3> QED
      BY <1>1, <1>4, <3>1, TurningIs DEF InTurn
  <2> QED
    BY <1>1, <1>2, <1>4, <2>1 DEF ReceiveStep, Learns
<1>5. CASE KnowsTheSame /\ ledgerFile' = ledgerFile
  BY <1>1, <1>2, <1>5 DEF KnowsTheSame
<1> QED
  BY <1>3, <1>4, <1>5, TurnCases
     DEF Turning, ReceiveStep, PumpStep, OtherStep, StartStep, Learns, KnowsTheSame, KnowsItsFile

LEMMA ResultsKnownStep ==
  ASSUME Turning, "bus_corrupt" \notin Faults
  PROVE  ResultsKnown'
<1>1. ResultsKnown /\ HandledKnown
  BY DEF Turning, TurnInv
<1>2. SUFFICES ASSUME NEW c \in IdsOf(outbox'), c \in Pending(busFile')
               PROVE  KnownIn(ledger', c)
  BY KnownIsKnownInNext DEF ResultsKnown
<1>3. ASSUME c \in IdsOf(outbox)
      PROVE  KnownIn(ledger, c) /\ c \in Pending(busFile)
  <2>1. c <= issued /\ c \in Ids
    <3>1. \A r \in MessageResult : r.id \in {d \in Ids : d <= issued}
      BY DEF MessageResult, Result
    <3>2. IdsOf(outbox) \subseteq {d \in Ids : d <= issued}
      BY <3>1, IdsIn DEF Turning, NumberInv
    <3> QED
      BY <1>3, <3>2
  <2>2. c # issued + 1
    BY <2>1, TurningIs
  <2>3. c \in Pending(busFile)
    BY <1>2, <2>2, PendingStep DEF Turning
  <2> QED
    BY <1>1, <1>3, <2>3, KnownIsKnownIn DEF ResultsKnown
<1>4. CASE ReceiveStep /\ c = Head(downlink).id
  BY <1>4 DEF ReceiveStep, Learns
<1>5. CASE KnowsTheSame /\ Known(c)
  BY <1>5, KnownIsKnownIn DEF KnowsTheSame
<1>6. CASE c \in IdsOf(outbox)
  <2>1. CASE ReceiveStep
    BY <1>3, <1>6, <2>1, KeptKnown DEF Turning
  <2>2. CASE KnowsTheSame
    BY <1>3, <1>6, <2>2 DEF KnowsTheSame
  <2>3. CASE StartStep
    BY <1>2, <2>3 DEF StartStep, IdsOf
  <2> QED
    BY <2>1, <2>2, <2>3, TurnCases DEF Turning, PumpStep, OtherStep
<1> QED
  BY <1>1, <1>2, <1>4, <1>5, <1>6, OutboxStep DEF Turning

LEMMA HandledKnownStep ==
  ASSUME Turning, "bus_corrupt" \notin Faults
  PROVE  HandledKnown'
<1>1. SUFFICES ASSUME busy' # Idle, busy'.phase # "refresh"
               PROVE  KnownIn(ledger', busy'.cmd.id)
  BY KnownIsKnownInNext DEF HandledKnown
<1>2. ASSUME busy # Idle, busy.phase # "refresh", busy'.cmd = busy.cmd
      PROVE  KnownIn(ledger', busy'.cmd.id)
  <2>1. KnownIn(ledger, busy.cmd.id)
    BY <1>2, KnownIsKnownIn DEF Turning, TurnInv, HandledKnown
  <2>2. ~ ReceiveStep
    BY <1>2 DEF ReceiveStep, ReceiveCommand, Handle
  <2>3. ~ StartStep
    BY <1>1 DEF StartStep, RestartDisplay, Restart, Refreshing
  <2>4. KnowsTheSame
    BY <2>2, <2>3, TurnCases DEF Turning, PumpStep, OtherStep
  <2> QED
    BY <1>2, <2>1, <2>4 DEF KnowsTheSame
<1>3. CASE busy' = busy
  BY <1>1, <1>2, <1>3
<1>4. CASE /\ ReceiveCommand
           /\ busy' = [phase |-> "apply", cmd |-> Head(downlink),
                       status |-> "executed", code |-> ""]
           /\ ledger' = WithAccepted(Head(downlink))
  <2> DEFINE cmd == Head(downlink)
  <2>1. cmd \in Command /\ Handle(cmd, cmd.id \in lapsed)
    BY <1>4, TurningIs, PartsOf DEF ReceiveCommand
  <2>2. KnownIn(ledger', cmd.id)
    BY <2>1, TurningIs, ReceiveKnows
  <2> QED
    BY <1>4, <2>2
<1>5. CASE Apply
  <2>1. busy # Idle /\ busy.phase = "apply"
    BY <1>5 DEF Apply
  <2>2. busy'.cmd = busy.cmd
    <3>1. busy \in [phase : {"apply", "complete"}, cmd : Command, status : FinalStatuses,
                    code : Codes]
      BY <2>1, TurningIs DEF TypeInv, DisplayTypeOK, Busy
    <3> QED
      BY <1>5, <3>1 DEF Apply
  <2> QED
    BY <1>2, <2>1, <2>2
<1> QED
  BY <1>1, <1>3, <1>4, <1>5, BusyCases DEF Turning

\* No record is made of a command out of order.
LEMMA OrderedStep ==
  ASSUME Turning, "bus_corrupt" \notin Faults
  PROVE  /\ ledger'.records \in Seq(OrderedRecord)
         /\ ledgerFile'.records \in Seq(OrderedRecord)
<1>1. /\ TypeInv /\ outbox \in Seq(Result) /\ shown \in Snapshot
      /\ ledger.records \in Seq(OrderedRecord) /\ ledgerFile.records \in Seq(OrderedRecord)
  BY TurningIs DEF Turning, TurnInv, TypeInv, DisplayTypeOK
<1>2. /\ "accepted" \in Statuses /\ "failed" \in Statuses /\ "rejected" \in Statuses
      /\ "executed" \in Statuses
      /\ "" \in Codes /\ "state_unavailable" \in Codes /\ "out_of_order" \in Codes
      /\ "interrupted" \in Codes
  BY DEF Statuses, FinalStatuses, Codes
<1>3. \A cmd \in Command, status \in Statuses, code \in Codes :
        /\ ReplyTo(cmd, status, code) \in Result
        /\ code # "out_of_order" => NewRecord(cmd, status, code) \in OrderedRecord
  BY NewRecordType DEF ReplyTo, Result, Command, NewRecord, OrderedRecord
<1>4. \A r \in OrderedRecord :
        /\ ResultOf(r) \in Result
        /\ \A status \in Statuses, code \in Codes :
             /\ ResultOf(CompletedRecord(r, status, code)) \in Result
             /\ code # "out_of_order" => CompletedRecord(r, status, code) \in OrderedRecord
        /\ [r EXCEPT !.status = "failed", !.code = "interrupted"] \in OrderedRecord
  <2> SUFFICES ASSUME NEW r \in OrderedRecord
               PROVE  /\ ResultOf(r) \in Result
                      /\ \A status \in Statuses, code \in Codes :
                           /\ ResultOf(CompletedRecord(r, status, code)) \in Result
                           /\ code # "out_of_order" =>
                                CompletedRecord(r, status, code) \in OrderedRecord
                      /\ [r EXCEPT !.status = "failed", !.code = "interrupted"] \in OrderedRecord
    OBVIOUS
  <2>1. r \in LedgerRecord /\ r.code # "out_of_order"
    BY DEF OrderedRecord
  <2>2. \A x \in LedgerRecord : ResultOf(x) \in Result
    BY DEF ResultOf, Result, LedgerRecord
  <2>3. ASSUME NEW status \in Statuses, NEW code \in Codes
        PROVE  CompletedRecord(r, status, code) \in LedgerRecord
               /\ CompletedRecord(r, status, code).code = code
    BY <2>1, CompletedRecordType DEF CompletedRecord, LedgerRecord
  <2>4. [r EXCEPT !.status = "failed", !.code = "interrupted"] \in OrderedRecord
    <3> DEFINE r2 == [r EXCEPT !.status = "failed", !.code = "interrupted"]
    <3>1. r2 \in LedgerRecord /\ r2.code = "interrupted"
      BY <1>2, <2>1 DEF LedgerRecord
    <3> HIDE DEF r2
    <3>2. r2 \in OrderedRecord
      BY <3>1 DEF OrderedRecord
    <3> QED
      BY <3>2 DEF r2
  <2> QED
    BY <2>1, <2>2, <2>3, <2>4 DEF OrderedRecord
<1>5. CASE ReceiveCommand
  <2> DEFINE cmd == Head(downlink)
  <2>1. /\ downlink # << >> /\ cmd \in Command /\ Handle(cmd, cmd.id \in lapsed)
        /\ cmd.seq = cmd.id /\ cmd.id \in Nat
    BY <1>5, TurningIs, PartsOf, HeadIs DEF ReceiveCommand, Turning
  <2>2. Known(cmd.id) \/ cmd.seq > ledger.high
    BY <2>1, NextInTurn, KnownIsKnownIn DEF InTurn
  <2> HIDE DEF cmd
  <2>3. \A v \in Verdicts(cmd, cmd.id \in lapsed) \ {Valid} :
          NewRecord(cmd, v[1], v[2]) \in OrderedRecord /\ ReplyTo(cmd, v[1], v[2]) \in Result
    <3>1. \A v \in Verdicts(cmd, cmd.id \in lapsed) \ {Valid} :
            v[1] \in Statuses /\ v[2] \in Codes /\ v[2] # "out_of_order"
      BY VerdictType, VerdictReports
    <3> QED
      BY <1>3, <2>1, <3>1
  <2>4. ~ Known(cmd.id) => ~ (cmd.seq <= ledger.high)
    <3>1. cmd.seq \in Nat /\ ledger.high \in Nat
      BY <2>1, TurningIs
    <3> QED
      BY <2>2, <3>1
  <2>5. AcceptedRecord(cmd) \in OrderedRecord
    <3>1. AcceptedRecord(cmd).code = ""
      BY DEF AcceptedRecord, NewRecord
    <3> QED
      BY <1>1, <2>1, <3>1, AcceptedRecordType DEF OrderedRecord
  <2>6. /\ \A r \in OrderedRecord : ResultOf(r) \in Result
        /\ ReplyTo(cmd, "rejected", "out_of_order") \in Result
        /\ ReplyTo(cmd, "failed", "state_unavailable") \in Result
        /\ ReplyTo(cmd, "accepted", "") \in Result
    BY <1>2, <1>3, <1>4, <2>1
  <2> QED
    BY <1>1, <2>1, <2>3, <2>4, <2>5, <2>6, HandleIn
<1>6. CASE Complete
  <2>1. /\ busy.cmd \in Command /\ busy.status \in Statuses /\ busy.code \in Codes
        /\ busy.code # "out_of_order"
    BY <1>1, <1>6, BusyType DEF Complete, Turning, TurnInv, Statuses
  <2>2. /\ \A r \in OrderedRecord : CompletedRecord(r, busy.status, busy.code) \in OrderedRecord
        /\ ReplyTo(busy.cmd, "accepted", "") \in Result
        /\ ReplyTo(busy.cmd, busy.status, busy.code) \in Result
        /\ ReplyTo(busy.cmd, "failed", "state_unavailable") \in Result
    BY <1>2, <1>3, <1>4, <2>1
  <2> QED
    BY <1>1, <1>6, <2>2, CompleteIn
<1>7. CASE CompleteRefresh
  <2>1. \A r \in OrderedRecord : /\ CompletedRecord(r, "executed", "") \in OrderedRecord
                                 /\ ResultOf(CompletedRecord(r, "executed", "")) \in Result
    BY <1>2, <1>4
  <2> QED
    BY <1>1, <1>7, <2>1, CompleteRefreshIn
<1>8. CASE RestartDisplay
  <2>1. Restart
    BY <1>8, Zenon DEF RestartDisplay
  <2> QED
    BY <1>1, <1>4, <2>1, RestartIn
<1>9. CASE UNCHANGED <<ledger, ledgerFile>>
  BY <1>1, <1>9
<1>10. [Next]_vars
  BY DEF Turning
<1> QED
  BY <1>5, <1>6, <1>7, <1>8, <1>9, <1>10, LedgerCases, Zenon

LEMMA OutcomeStep ==
  ASSUME Turning, "bus_corrupt" \notin Faults, busy' # Idle, busy'.phase # "refresh"
  PROVE  busy'.code # "out_of_order"
<1>1. CASE busy' = busy
  BY <1>1 DEF Turning, TurnInv
<1>2. CASE busy' = [phase |-> "apply", cmd |-> Head(downlink),
                    status |-> "executed", code |-> ""]
  BY <1>2
<1>3. CASE Apply
  <2>1. busy # Idle /\ busy.phase = "apply"
    BY <1>3 DEF Apply
  <2>2. busy.code # "out_of_order"
    BY <2>1 DEF Turning, TurnInv
  <2>3. busy \in [phase : {"apply", "complete"}, cmd : Command, status : FinalStatuses,
                  code : Codes]
    BY <2>1, TurningIs DEF TypeInv, DisplayTypeOK, Busy
  <2> QED
    BY <1>3, <2>2, <2>3 DEF Apply
<1> QED
  BY <1>1, <1>2, <1>3, BusyCases DEF Turning

\* What was over stays over, for a ledger that knows what it knew.
LEMMA MissedKept ==
  ASSUME Turning, "bus_corrupt" \notin Faults,
         NEW l, MissedIsOver(l), l \in {ledger, ledgerFile},
         NEW c \in Pending(busFile'), busFile'.entries[c].device = Self, ~ InTurn(l, c),
         KnowsTheSame \/ ReceiveStep \/ StartStep
  PROVE  TimesOut(busFile, c)' /\ (c \in Pending(bus') => c \notin InFlight')
<1>1. \A d : Known(d) => InTurn(l, d)
  BY KnownIsKnownIn DEF Turning, TurnInv, KnownAfterRestart, InTurn
<1>2. c \in Ids /\ c \in Nat
  BY TurningIs DEF Pending, Live
<1>3. c # issued + 1
  BY <1>2, TurningIs DEF InTurn
<1>4. /\ c \in Pending(busFile)
      /\ busFile'.entries[c].device = busFile.entries[c].device
      /\ \/ busFile'.entries[c] = busFile.entries[c]
         \/ c \in Pending(bus) /\ c \in InFlight
  BY <1>3, PendingStep DEF Turning
<1>5. TimesOut(busFile, c) /\ (c \in Pending(bus) => c \notin InFlight)
  BY <1>4 DEF MissedIsOver
<1>6. TimesOut(busFile, c)'
  BY <1>4, <1>5, ClockGrows DEF TimesOut, Turning
<1>7. ASSUME c \in Pending(bus'), c \in InFlight'
      PROVE  FALSE
  <2>1. \/ c \in InFlight /\ (RestartDaemon => c \in IdsOf(outbox))
        \/ KnowsTheSame /\ Known(c)
        \/ /\ PumpCommands /\ bus' = Expired(bus)
           /\ c \in Deliverable(bus', Self, sent)
    BY <1>7, InFlightStep DEF Turning, TurnInv
  <2>2. CASE KnowsTheSame /\ Known(c)
    BY <1>1, <2>2
  <2>3. CASE /\ PumpCommands /\ bus' = Expired(bus)
             /\ c \in Deliverable(bus', Self, sent)
    BY <1>5, <1>7, <2>3, ExpiredPending, TurningIs
  <2>4. CASE c \in InFlight /\ (RestartDaemon => c \in IdsOf(outbox))
    <3>1. CASE RestartDaemon
      <4>1. Known(c)
        BY <1>4, <2>4, <3>1 DEF Turning, TurnInv, ResultsKnown
      <4> QED
        BY <1>1, <4>1
    <3>2. CASE ~ RestartDaemon
      <4>1. c \in Pending(bus)
        BY <1>3, <1>7, <3>2, MemoryPendingStep DEF Turning
      <4> QED
        BY <1>5, <2>4, <4>1
    <3> QED
      BY <3>1, <3>2
  <2> QED
    BY <2>1, <2>2, <2>3, <2>4
<1> QED
  BY <1>6, <1>7

\* A command that a later one overtakes now is over already.
LEMMA OvertakenIsOver ==
  ASSUME Turning, "bus_corrupt" \notin Faults, ReceiveStep,
         NEW c \in Pending(busFile), busFile.entries[c].device = Self,
         InTurn(ledger, c), ~ InTurn(ledger', c)
  PROVE  TimesOut(busFile, c) /\ c \notin Pending(bus)
<1> DEFINE cmd == Head(downlink)
<1>1. /\ downlink # << >> /\ Learns(cmd)
      /\ cmd.id \in Ids /\ cmd.seq = cmd.id /\ 1 \in DOMAIN downlink /\ cmd = downlink[1]
      /\ \A d \in IdsOf(downlink) : d = cmd.id \/ cmd.id < d
  BY HeadIs, TurningIs DEF Turning, ReceiveStep
<1>2. c \in Ids /\ c \in Nat /\ cmd.id \in Nat
  BY <1>1, TurningIs DEF Pending, Live
<1>3. ~ KnownIn(ledger, c)
  BY KeptKnown DEF Turning, InTurn
<1>4. c # cmd.id
  BY <1>1 DEF Learns, InTurn
<1>5. c < cmd.id
  BY <1>1, <1>2, <1>3, <1>4, TurningIs DEF Learns, InTurn
<1>6. c \notin IdsOf(downlink)
  BY <1>1, <1>2, <1>5
<1>7. c \notin Pending(bus)
  <2> SUFFICES ASSUME c \in Pending(bus)
               PROVE  FALSE
    OBVIOUS
  <2>1. bus.entries[c].device = Self
    BY SameInFile, TurningIs DEF Pending
  <2>2. c \in sent
    BY <1>1, <1>5, <2>1, TurningIs DEF DownlinkInOrder
  <2>3. Known(c)
    BY <1>6, <2>2 DEF Turning, TurnInv, SentArrives
  <2> QED
    BY <1>3, <2>3, KnownIsKnownIn
<1>8. busFile.entries[c] # bus.entries[c]
  BY <1>7 DEF Pending, Live
<1> QED
  BY <1>2, <1>7, <1>8, TurningIs DEF BusInv, RestartKeepsAnswers, Unwritten

LEMMA MissedStep ==
  ASSUME Turning, "bus_corrupt" \notin Faults
  PROVE  MissedIsOver(ledger)' /\ MissedIsOver(ledgerFile)'
<1> DEFINE Over(c) == TimesOut(busFile, c)' /\ (c \in Pending(bus') => c \notin InFlight')
<1>1. MissedIsOver(ledger) /\ MissedIsOver(ledgerFile)
  BY DEF Turning, TurnInv
<1>2. ASSUME NEW l2 \in {ledger', ledgerFile'}, NEW c \in Pending(busFile'),
             busFile'.entries[c].device = Self, ~ InTurn(l2, c)
      PROVE  Over(c)
  <2>1. ASSUME NEW l \in {ledger, ledgerFile}, ~ InTurn(l, c)
        PROVE  Over(c)
    <3>1. MissedIsOver(l)
      BY <1>1, <2>1
    <3>2. KnowsTheSame \/ ReceiveStep \/ StartStep
      BY TurnCases DEF Turning, PumpStep, OtherStep
    <3> QED
      BY <1>2, <2>1, <3>1, <3>2, MissedKept
  <2>2. CASE KnowsTheSame
    <3>1. ~ InTurn(ledger, c) \/ ~ InTurn(ledgerFile, c)
      BY <1>2, <2>2 DEF KnowsTheSame, InTurn
    <3> QED
      BY <2>1, <3>1
  <2>3. CASE ReceiveStep
    <3>1. CASE l2 = ledgerFile
      BY <1>2, <2>1, <3>1
    <3>2. CASE l2 = ledger' /\ InTurn(ledger, c)
      <4>1. /\ busFile' = busFile /\ bus' = bus
            /\ lapsed' = lapsed /\ overdue' = overdue
        BY <2>3 DEF ReceiveStep
      <4>2. TimesOut(busFile, c) /\ c \notin Pending(bus)
        BY <1>2, <2>3, <3>2, <4>1, OvertakenIsOver
      <4>3. TimesOut(busFile, c)'
        BY <4>1, <4>2 DEF TimesOut
      <4> QED
        BY <4>1, <4>2, <4>3
    <3>3. CASE l2 = ledger' /\ ~ InTurn(ledger, c)
      BY <2>1, <3>3
    <3> QED
      BY <1>2, <2>3, <3>1, <3>2, <3>3 DEF ReceiveStep, Learns
  <2>4. CASE StartStep
    <3>1. c \in Nat /\ c > 0
      BY TurningIs DEF Pending, Live, Ids
    <3>2. ledger' # EmptyLedger
      BY <1>2, <2>4, <3>1 DEF StartStep, KnowsItsFile, InTurn, EmptyLedger
    <3>3. ~ InTurn(ledgerFile, c)
      BY <1>2, <2>4, <3>2 DEF StartStep, KnowsItsFile, InTurn
    <3> QED
      BY <2>1, <3>3
  <2> QED
    BY <2>2, <2>3, <2>4, TurnCases DEF Turning, PumpStep, OtherStep
<1> HIDE DEF Over
<1>3. \A l2 \in {ledger', ledgerFile'}, c \in Pending(busFile') :
        busFile'.entries[c].device = Self /\ ~ InTurn(l2, c) => Over(c)
  BY <1>2
<1> QED
  BY <1>3 DEF MissedIsOver, Over, InTurn, KnownIn

LEMMA TurnStep ==
  ASSUME Turning, "bus_corrupt" \notin Faults
  PROVE  TurnInv'
<1>1. \A c \in IdsOf(downlink') : InTurn(ledger', c)
  BY DownlinkInTurnStep
<1>2. (busy # Idle /\ busy.phase # "refresh" => busy.code # "out_of_order")'
  BY OutcomeStep
<1>3. DownlinkInOrder' /\ SentArrives'
  BY DownlinkStep, SentStep
<1>4. MissedIsOver(ledger)' /\ MissedIsOver(ledgerFile)'
  BY MissedStep
<1>5. KnownAfterRestart' /\ ResultsKnown' /\ HandledKnown'
  BY KnownAfterRestartStep, ResultsKnownStep, HandledKnownStep
<1>6. /\ ledger'.records \in Seq(OrderedRecord)
      /\ ledgerFile'.records \in Seq(OrderedRecord)
  BY OrderedStep
<1>7. (\A c \in IdsOf(downlink) : InTurn(ledger, c))'
  BY <1>1 DEF IdsOf, InTurn, KnownIn
<1> QED
  BY <1>2, <1>3, <1>4, <1>5, <1>6, <1>7 DEF TurnInv

LEMMA TurnInit == Init => TurnInv
<1> SUFFICES ASSUME Init
             PROVE  TurnInv
  OBVIOUS
<1>1. /\ downlink = << >> /\ sent = {} /\ outbox = << >> /\ busy = Idle
      /\ busFile = EmptyBus /\ ledger = EmptyLedger /\ ledgerFile = EmptyLedger
  BY DEF Init, BusInit, DisplayInit
<1>2. Pending(busFile) = {}
  BY <1>1 DEF Pending, Live, EmptyBus
<1>3. \A c : ~ Known(c)
  BY <1>1 DEF Known, EmptyLedger
<1>4. DownlinkInOrder /\ SentArrives
  BY <1>1 DEF DownlinkInOrder, SentArrives, IdsOf
<1>5. MissedIsOver(ledger) /\ MissedIsOver(ledgerFile)
  BY <1>2 DEF MissedIsOver
<1>6. KnownAfterRestart /\ ResultsKnown /\ HandledKnown
  BY <1>1, <1>2, <1>3 DEF KnownAfterRestart, ResultsKnown, HandledKnown
<1>7. << >> \in Seq(OrderedRecord) /\ ledger.records = << >> /\ ledgerFile.records = << >>
  BY <1>1, ShortSeq DEF EmptyLedger
<1> QED
  BY <1>1, <1>4, <1>5, <1>6, <1>7 DEF TurnInv, IdsOf

LEMMA OrderedIsNever == TurnInv => NeverOutOfOrder
<1> SUFFICES ASSUME TurnInv, NEW i \in DOMAIN ledger.records
             PROVE  ledger.records[i].code # "out_of_order"
  BY DEF NeverOutOfOrder
<1>1. ledger.records[i] \in OrderedRecord
  BY MemberOf DEF TurnInv
<1> QED
  BY <1>1 DEF OrderedRecord

LEMMA NumberInvariance ==
  ASSUME "bus_corrupt" \notin Faults
  PROVE  Spec => []NumberInv
<1>1. RemoteInv /\ RemoteInv' /\ NumberInv /\ [Next]_vars => NumberInv'
  BY NumberStep
<1> QED
  BY <1>1, RemoteInvariance, NumberInit, PTL DEF Spec

\* Whatever is lost, retried or restarted, and with any write of queue or ledger
\* failing: the display never refuses a command because a later one overtook it, as
\* long as the queue file can be read and a full ledger forgets only what is over
\* (bus.go Pending, stream.go pump, store.go accept, appendLocked).
THEOREM CommandsInTurn ==
  ASSUME "bus_corrupt" \notin Faults
  PROVE  Spec /\ []RoomForNext => []NeverOutOfOrder
<1>1. /\ RemoteInv /\ RemoteInv' /\ NumberInv /\ NumberInv' /\ TurnInv /\ RoomForNext
      /\ [Next]_vars
      => TurnInv'
  BY TurnStep DEF Turning
<1>2. Spec => []NumberInv
  BY NumberInvariance
<1> QED
  BY <1>1, <1>2, RemoteInvariance, TurnInit, OrderedIsNever, PTL DEF Spec

(***************************************************************************)
(* As many commands as the ledger keeps.                                   *)
(***************************************************************************)

UniqueRecords == Uniq(ledger) /\ Uniq(ledgerFile)

LEMMA UniqueStep ==
  ASSUME RemoteInv, UniqueRecords, [Next]_vars
  PROVE  UniqueRecords'
<1>1. SUFFICES Uniq(ledger') /\ Uniq(ledgerFile')
  BY DEF UniqueRecords, Uniq
<1>2. TypeInv /\ Uniq(ledger) /\ Uniq(ledgerFile)
  BY DEF RemoteInv, UniqueRecords
<1>3. CASE ReceiveCommand
  <2> DEFINE cmd == Head(downlink)
  <2>1. cmd \in Command /\ Handle(cmd, cmd.id \in lapsed)
    BY <1>3, PartsOf DEF ReceiveCommand, RemoteInv, LinkType
  <2> HIDE DEF cmd
  <2> QED
    BY <1>2, <2>1, ReceiveKnows
<1>4. CASE Complete \/ CompleteRefresh
  BY <1>2, <1>4, CompleteKnows
<1>5. CASE RestartDisplay
  <2>1. Restart
    BY <1>5, Zenon DEF RestartDisplay
  <2> QED
    BY <1>2, <2>1, RestartKnows
<1>6. CASE UNCHANGED <<ledger, ledgerFile>>
  BY <1>2, <1>6
<1> QED
  BY <1>3, <1>4, <1>5, <1>6, LedgerCases, Zenon

LEMMA UniqueInvariance == Spec => []UniqueRecords
<1>1. Init => UniqueRecords
  BY DEF Init, DisplayInit, EmptyLedger, UniqueRecords, Uniq
<1>2. RemoteInv /\ UniqueRecords /\ [Next]_vars => UniqueRecords'
  BY UniqueStep
<1> QED
  BY <1>1, <1>2, RemoteInvariance, PTL DEF Spec

\* A full ledger that lacks a command has fewer commands than were issued.
LEMMA RoomWhenFew ==
  ASSUME RemoteInv, NumberInv, UniqueRecords, MaxIssued <= MaxRecords
  PROVE  RoomForNext
<1> SUFFICES ASSUME downlink # << >>, ~ Known(Head(downlink).id), Len(ledger.records) = MaxRecords
             PROVE  FALSE
  BY DEF RoomForNext
<1> DEFINE n == MaxRecords
           f == [i \in 1 .. n |-> ledger.records[i].id]
           T == Ids \ {Head(downlink).id}
<1>1. /\ ledger.records \in Seq(LedgerRecord) /\ Head(downlink) \in Command
      /\ n \in Nat /\ MaxIssued \in Nat
  BY PartsOf, ProtocolAssumption, DisplayAssumption
     DEF RemoteInv, TypeInv, DisplayTypeOK, Ledger, LinkType
<1>2. DOMAIN ledger.records = 1 .. n
  BY <1>1
<1>3. \A i \in 1 .. n : ledger.records[i].id \in T
  <2> SUFFICES ASSUME NEW i \in 1 .. n
               PROVE  ledger.records[i].id \in T
    OBVIOUS
  <2>1. i \in DOMAIN ledger.records
    BY <1>2
  <2>2. ledger.records[i] \in LedgerRecord
    BY <1>1, <2>1, MemberOf
  <2>3. ledger.records[i].id \in Ids
    BY <2>2 DEF LedgerRecord, Command
  <2> QED
    BY <2>1, <2>3 DEF Known
<1>4. f \in Injection(1 .. n, T)
  BY <1>2, <1>3 DEF Injection, IsInjective, UniqueRecords, Uniq
<1>5. /\ IsFiniteSet(1 .. n) /\ Cardinality(1 .. n) = n
      /\ IsFiniteSet(Ids) /\ Cardinality(Ids) = MaxIssued
  BY <1>1, FS_Interval DEF Ids
<1>6. Head(downlink).id \in Ids
  BY <1>1 DEF Command
<1>7. IsFiniteSet(T) /\ Cardinality(T) = MaxIssued - 1
  BY <1>5, <1>6, FS_RemoveElement
<1>8. Cardinality(1 .. n) <= Cardinality(T)
  <2> HIDE DEF f, T, n
  <2> QED
    BY <1>4, <1>5, <1>7, FS_Injection
<1> QED
  BY <1>1, <1>5, <1>7, <1>8

\* Without that proviso, for as many commands as the ledger has room for (store.go
\* maxRecords): the display never refuses a command because a later one overtook it.
THEOREM FewCommandsInTurn ==
  ASSUME "bus_corrupt" \notin Faults, MaxIssued <= MaxRecords
  PROVE  Spec => []NeverOutOfOrder
<1>1. RemoteInv /\ NumberInv /\ UniqueRecords => RoomForNext
  BY RoomWhenFew
<1>2. Spec => []NumberInv
  BY NumberInvariance
<1>3. Spec /\ []RoomForNext => []NeverOutOfOrder
  BY CommandsInTurn
<1> QED
  BY <1>1, <1>2, <1>3, RemoteInvariance, UniqueInvariance, PTL

(***************************************************************************)
(* The whole is a command lifecycle.                                       *)
(***************************************************************************)

\* The command has had its effect, or has none but a newer snapshot.
Took(c) == \E i \in DOMAIN applied : applied[i].id = c

Rightly(c) == Took(c) \/ Agrees(c, "refresh")

TrueRecord ==
  {r \in MessageRecord : /\ r.status = "executed" => Rightly(r.id)
                         /\ r.pendingRefresh => r.kind = "refresh"}
TrueResult == {r \in Result : r.status = "executed" => Rightly(r.id)}

\* Who says "executed" of a command is right.
TruthInv ==
  /\ ledger.records \in Seq(TrueRecord)
  /\ ledgerFile.records \in Seq(TrueRecord)
  /\ outbox \in Seq(TrueResult)
  /\ uplink \in Seq(TrueResult)
  /\ late \in Seq(TrueResult)
  /\ busy # Idle /\ busy.phase = "complete" /\ busy.status = "executed" => Rightly(busy.cmd.id)
  /\ \A c \in Live(busFile) : busFile.entries[c].status = "executed" => Rightly(c)

\* What changes the screen is the handler.
LEMMA AppliedCases ==
  ASSUME TypeInv, [Next]_vars
  PROVE  \/ applied' = applied
         \/ /\ Apply /\ busy # Idle /\ busy.phase = "apply" /\ busy.cmd \in Command
            /\ applied' = Append(applied, busy.cmd)
            /\ UNCHANGED <<busVars, linkVars, current>>
<1>1. Apply \/ applied' = applied
  BY Zenon DEF Next, PublishCommand, ReadStatus, Collect, PumpCommands, DrainResult, DrainLate,
               RestartDaemon, Connect, Disconnect, SetSession, ReceiveCommand, Handle,
               ReceiveSnapshot, ApplySnapshot, TransmitResult, SendResult, RunCommand, Complete,
               CompleteRefresh, DropResult, LoseResult, RestartDisplay, Restart, PassTTL,
               PassExecutionWindow, displayVars, vars
<1> SUFFICES ASSUME Apply, applied' # applied
             PROVE  /\ busy # Idle /\ busy.phase = "apply" /\ busy.cmd \in Command
                    /\ applied' = Append(applied, busy.cmd)
                    /\ UNCHANGED <<busVars, linkVars, current>>
  BY <1>1
<1>2. busy # Idle /\ busy.phase = "apply" /\ applied' = Append(applied, busy.cmd)
  BY Zenon DEF Apply
<1>3. busy.cmd \in Command
  BY <1>2, BusyType
<1>4. busy' # busy /\ busy' # Idle /\ busy'.phase = "complete"
  <2>1. busy \in [phase : {"apply", "complete"}, cmd : Command, status : FinalStatuses,
                  code : Codes]
    BY <1>2 DEF TypeInv, DisplayTypeOK, Busy
  <2>2. busy' = [busy EXCEPT !.phase = "complete"]
    BY Zenon DEF Apply
  <2>3. busy'.phase = "complete"
    BY <2>1, <2>2
  <2>4. busy' # Idle
    BY <2>1, <2>2 DEF Idle
  <2> QED
    BY <1>2, <2>3, <2>4
<1>5. UNCHANGED <<busVars, linkVars, current>>
  <2>1. ASSUME NEW cmd
        PROVE  busy' # [phase |-> "apply", cmd |-> cmd, status |-> "executed", code |-> ""]
    <3> DEFINE b == [phase |-> "apply", cmd |-> cmd, status |-> "executed", code |-> ""]
    <3>1. b.phase = "apply"
      OBVIOUS
    <3> HIDE DEF b
    <3>2. busy' # b
      BY <1>4, <3>1
    <3> QED
      BY <3>2 DEF b
  <2> QED
    BY <1>4, <2>1, BusyCases, Zenon
<1> QED
  BY <1>2, <1>3, <1>5

\* Who was right stays right.
LEMMA RightlyStays ==
  ASSUME TypeInv, [Next]_vars, \A c \in Ids : \A kind : Agrees(c, kind) => Agrees(c, kind)'
  PROVE  \A c \in Ids : Rightly(c) => Rightly(c)'
<1>1. ASSUME NEW c, Took(c)
      PROVE  Took(c)'
  <2>1. PICK i \in DOMAIN applied : applied[i].id = c
    BY <1>1 DEF Took
  <2>2. CASE applied' = applied
    BY <2>1, <2>2 DEF Took
  <2>3. CASE applied' = Append(applied, busy.cmd) /\ busy.cmd \in Command
    <3>1. applied \in Seq(Command)
      BY DEF TypeInv, DisplayTypeOK
    <3>2. i \in DOMAIN applied' /\ applied'[i] = applied[i]
      BY <2>1, <2>3, <3>1
    <3> QED
      BY <2>1, <3>2 DEF Took
  <2> QED
    BY <2>2, <2>3, AppliedCases
<1> QED
  BY <1>1 DEF Rightly

\* Records of a true message and replies to it.
LEMMA TrueMade ==
  ASSUME NEW cmd \in Message, shown \in Snapshot
  PROVE  /\ \A status \in Statuses, code \in Codes : status # "executed" =>
              NewRecord(cmd, status, code) \in TrueRecord
              /\ ReplyTo(cmd, status, code) \in TrueResult
         /\ AcceptedRecord(cmd) \in TrueRecord
<1>1. /\ \A status \in Statuses, code \in Codes : NewRecord(cmd, status, code) \in MessageRecord
                                                  /\ ReplyTo(cmd, status, code) \in MessageResult
      /\ AcceptedRecord(cmd) \in MessageRecord
  BY MessageMade
<1>2. ASSUME NEW status \in Statuses, NEW code \in Codes, status # "executed"
      PROVE  NewRecord(cmd, status, code) \in TrueRecord /\ ReplyTo(cmd, status, code) \in TrueResult
  <2>1. /\ NewRecord(cmd, status, code).status = status
        /\ NewRecord(cmd, status, code).pendingRefresh = FALSE
        /\ ReplyTo(cmd, status, code).status = status
    BY DEF NewRecord, ReplyTo
  <2>2. ReplyTo(cmd, status, code) \in Result
    BY <1>1 DEF MessageResult
  <2> QED
    BY <1>1, <1>2, <2>1, <2>2, Zenon DEF TrueRecord, TrueResult
<1>3. AcceptedRecord(cmd) \in TrueRecord
  <2>1. /\ AcceptedRecord(cmd).status = "accepted" /\ AcceptedRecord(cmd).kind = cmd.kind
        /\ AcceptedRecord(cmd).pendingRefresh = (cmd.kind = "refresh")
    BY DEF AcceptedRecord, NewRecord
  <2> QED
    BY <1>1, <2>1 DEF TrueRecord
<1> QED
  BY <1>2, <1>3

\* A record that gets a final result.
LEMMA TrueChanged ==
  ASSUME NEW r \in TrueRecord
  PROVE  /\ ResultOf(r) \in TrueResult
         /\ \A status \in Statuses, code \in Codes : (status = "executed" => Rightly(r.id)) =>
              CompletedRecord(r, status, code) \in TrueRecord
         /\ r.pendingRefresh =>
              /\ CompletedRecord(r, "executed", "") \in TrueRecord
              /\ ResultOf(CompletedRecord(r, "executed", "")) \in TrueResult
         /\ ~ r.pendingRefresh => [r EXCEPT !.status = "failed", !.code = "interrupted"] \in TrueRecord
<1>1. /\ r \in MessageRecord /\ r \in LedgerRecord
      /\ r.status = "executed" => Rightly(r.id)
      /\ r.pendingRefresh => r.kind = "refresh"
  BY DEF TrueRecord, MessageRecord
<1>2. ASSUME NEW x \in TrueRecord
      PROVE  ResultOf(x) \in TrueResult
  <2>1. /\ x \in MessageRecord
        /\ x.status = "executed" => Rightly(x.id)
        /\ ResultOf(x).status = x.status /\ ResultOf(x).id = x.id
    BY DEF TrueRecord, ResultOf
  <2>2. ResultOf(x) \in Result
    BY <2>1, MessageChanged DEF MessageResult
  <2> QED
    BY <2>1, <2>2, Zenon DEF TrueResult
<1>3. ASSUME NEW status \in Statuses, NEW code \in Codes, status = "executed" => Rightly(r.id)
      PROVE  CompletedRecord(r, status, code) \in TrueRecord
  <2>1. CompletedRecord(r, status, code) \in MessageRecord
    BY <1>1, MessageChanged
  <2>2. /\ CompletedRecord(r, status, code).status = status
        /\ CompletedRecord(r, status, code).id = r.id
        /\ CompletedRecord(r, status, code).pendingRefresh = FALSE
    BY <1>1 DEF CompletedRecord, LedgerRecord
  <2> QED
    BY <1>3, <2>1, <2>2, Zenon DEF TrueRecord
<1>4. ASSUME r.pendingRefresh
      PROVE  /\ CompletedRecord(r, "executed", "") \in TrueRecord
             /\ ResultOf(CompletedRecord(r, "executed", "")) \in TrueResult
  <2>1. Rightly(r.id)
    BY <1>1, <1>4 DEF MessageRecord, Rightly
  <2>2. "executed" \in Statuses /\ "" \in Codes
    BY DEF Statuses, FinalStatuses, Codes
  <2> QED
    BY <1>2, <1>3, <2>1, <2>2
<1>5. ASSUME ~ r.pendingRefresh
      PROVE  [r EXCEPT !.status = "failed", !.code = "interrupted"] \in TrueRecord
  <2> DEFINE r2 == [r EXCEPT !.status = "failed", !.code = "interrupted"]
  <2>1. r2 \in MessageRecord
    BY <1>1, MessageChanged
  <2>2. r2.status = "failed" /\ r2.pendingRefresh = r.pendingRefresh
    BY <1>1 DEF LedgerRecord
  <2> HIDE DEF r2
  <2>3. r2 \in TrueRecord
    BY <1>5, <2>1, <2>2 DEF TrueRecord
  <2> QED
    BY <2>3 DEF r2
<1> QED
  BY <1>2, <1>3, <1>4, <1>5

\* The ledger and the outbox.
LEMMA LedgerTruth ==
  ASSUME RemoteInv, NumberInv, TruthInv, [Next]_vars
  PROVE  /\ ledger'.records \in Seq(TrueRecord)
         /\ ledgerFile'.records \in Seq(TrueRecord)
         /\ outbox' \in Seq(TrueResult)
<1>1. /\ TypeInv /\ shown \in Snapshot
      /\ ledger.records \in Seq(TrueRecord) /\ ledgerFile.records \in Seq(TrueRecord)
      /\ outbox \in Seq(TrueResult)
  BY DEF RemoteInv, TruthInv, TypeInv, DisplayTypeOK
<1>2. /\ "accepted" \in Statuses /\ "failed" \in Statuses /\ "rejected" \in Statuses
      /\ "executed" \in Statuses
      /\ "" \in Codes /\ "state_unavailable" \in Codes /\ "out_of_order" \in Codes
  BY DEF Statuses, FinalStatuses, Codes
<1>3. CASE ReceiveCommand
  <2> DEFINE cmd == Head(downlink)
  <2>1. cmd \in Message
    BY <1>3, PartsOf DEF ReceiveCommand, NumberInv
  <2>2. Handle(cmd, cmd.id \in lapsed)
    BY <1>3, Zenon DEF ReceiveCommand
  <2> HIDE DEF cmd
  <2>3. \A r \in TrueRecord : ResultOf(r) \in TrueResult
    BY TrueChanged
  <2>4. /\ cmd \in Command
        /\ \A status \in Statuses, code \in Codes : status # "executed" =>
             NewRecord(cmd, status, code) \in TrueRecord
             /\ ReplyTo(cmd, status, code) \in TrueResult
        /\ AcceptedRecord(cmd) \in TrueRecord
    BY <1>1, <2>1, TrueMade DEF Message
  <2>5. \A v \in Verdicts(cmd, cmd.id \in lapsed) \ {Valid} :
          NewRecord(cmd, v[1], v[2]) \in TrueRecord
          /\ ReplyTo(cmd, v[1], v[2]) \in TrueResult
    BY <2>4, VerdictType, VerdictReports
  <2> QED
    BY <1>1, <1>2, <2>2, <2>3, <2>4, <2>5, HandleIn
<1>4. CASE Complete
  <2>1. /\ busy.cmd \in Message /\ busy.status \in Statuses /\ busy.code \in Codes
        /\ busy.status = "executed" => Rightly(busy.cmd.id)
    BY <1>1, <1>4, BusyType DEF Complete, NumberInv, TruthInv, Statuses
  <2>2. \A r \in TrueRecord : r.id = busy.cmd.id =>
          CompletedRecord(r, busy.status, busy.code) \in TrueRecord
    BY <2>1, TrueChanged
  <2>3. /\ ReplyTo(busy.cmd, "accepted", "") \in TrueResult
        /\ ReplyTo(busy.cmd, "failed", "state_unavailable") \in TrueResult
    BY <1>1, <1>2, <2>1, TrueMade
  <2>4. ReplyTo(busy.cmd, busy.status, busy.code) \in TrueResult
    <3>1. ReplyTo(busy.cmd, busy.status, busy.code) \in Result
      BY <1>1, <2>1, MessageMade DEF MessageResult
    <3>2. /\ ReplyTo(busy.cmd, busy.status, busy.code).status = busy.status
          /\ ReplyTo(busy.cmd, busy.status, busy.code).id = busy.cmd.id
      BY DEF ReplyTo
    <3> QED
      BY <2>1, <3>1, <3>2, Zenon DEF TrueResult
  <2> QED
    BY <1>1, <1>4, <2>2, <2>3, <2>4, CompleteIn
<1>5. CASE CompleteRefresh
  <2>1. \A r \in TrueRecord : Answers(shown, r) =>
          /\ CompletedRecord(r, "executed", "") \in TrueRecord
          /\ ResultOf(CompletedRecord(r, "executed", "")) \in TrueResult
    BY TrueChanged DEF Answers
  <2> QED
    BY <1>1, <1>5, <2>1, CompleteRefreshIn
<1>6. CASE RestartDisplay
  <2>1. \A r \in TrueRecord : r.status = "accepted" /\ ~ r.pendingRefresh =>
          [r EXCEPT !.status = "failed", !.code = "interrupted"] \in TrueRecord
    BY TrueChanged
  <2>2. Restart
    BY <1>6, Zenon DEF RestartDisplay
  <2> QED
    BY <1>1, <2>1, <2>2, RestartIn
<1>7. CASE /\ UNCHANGED <<ledger, ledgerFile>>
           /\ outbox' = outbox \/ (outbox # << >> /\ outbox' = Tail(outbox))
  BY <1>1, <1>7, PartsOf
<1> QED
  BY <1>3, <1>4, <1>5, <1>6, <1>7, LedgerCases, Zenon

\* The queue records what it is told.
LEMMA AnswersTruth ==
  ASSUME RemoteInv, RemoteInv', NumberInv, TruthInv, NEW c0, NEW st, QueueMoves(c0, st)
  PROVE  \A c \in Live(busFile)' : busFile'.entries[c].status = "executed" => Rightly(c)
<1> SUFFICES ASSUME NEW c \in Ids, busFile'.entries[c] # NoEntry,
                    busFile'.entries[c].status = "executed"
             PROVE  Rightly(c)
  BY DEF Live
<1>1. CASE busFile'.entries[c] = busFile.entries[c]
  BY <1>1 DEF TruthInv, Live
<1>2. CASE c = c0 /\ busFile'.entries[c].status = st
  <2>1. c # 0
    BY DEF Ids
  <2>2. ASSUME NEW q \in Seq(TrueResult), NEW i \in DOMAIN q, q[i].id = c0, q[i].status = st
        PROVE  Rightly(c)
    <3>1. q[i] \in TrueResult
      BY MemberOf
    <3> QED
      BY <1>2, <2>2, <3>1 DEF TrueResult
  <2>3. uplink \in Seq(TrueResult) /\ late \in Seq(TrueResult)
    BY DEF TruthInv
  <2> QED
    BY <1>2, <2>1, <2>2, <2>3, Zenon DEF QueueMoves, Reported
<1>3. CASE busFile'.entries[c].status \in {"expired", "failed", "published"}
  BY <1>3
<1> QED
  BY <1>1, <1>2, <1>3 DEF QueueMoves, Moves

LEMMA TruthStep ==
  ASSUME RemoteInv, RemoteInv', "bus_corrupt" \notin Faults, NumberInv, TruthInv, [Next]_vars
  PROVE  TruthInv'
<1>1. TypeInv /\ BusInv /\ BusInv'
  BY DEF RemoteInv
<1>2. PICK c0, st : QueueMoves(c0, st)
  BY QueueStep
<1>3. \A c \in Ids : \A kind : Agrees(c, kind) => Agrees(c, kind)'
  BY <1>1, <1>2, QueueNumberedStep DEF QueueMoves, NumberInv
<1>4. \A c \in Ids : Rightly(c) => Rightly(c)'
  BY <1>1, <1>3, RightlyStays
<1>5. TrueRecord \subseteq TrueRecord'
  <2>1. MessageRecord \subseteq MessageRecord'
    BY NumberStep
  <2>2. \A r \in MessageRecord : r.id \in Ids
    BY DEF MessageRecord, LedgerRecord
  <2> QED
    BY <1>4, <2>1, <2>2 DEF TrueRecord
<1>6. TrueResult \subseteq TrueResult'
  <2>1. \A r \in Result : r.id \in Ids
    BY DEF Result
  <2> QED
    BY <1>4, <2>1 DEF TrueResult
<1>7. /\ ledger'.records \in Seq(TrueRecord') /\ ledgerFile'.records \in Seq(TrueRecord')
      /\ outbox' \in Seq(TrueResult')
  BY <1>5, <1>6, LedgerTruth, SeqWithin
<1>8. uplink' \in Seq(TrueResult') /\ late' \in Seq(TrueResult')
  <2>1. uplink' \in Seq(TrueResult) /\ late' \in Seq(TrueResult)
    BY ResultsIn DEF TruthInv
  <2> QED
    BY <1>6, <2>1, SeqWithin
<1>9. \A c \in Live(busFile)' : busFile'.entries[c].status = "executed" => Rightly(c)'
  <2>1. \A c \in Live(busFile)' : c \in Ids
    BY DEF Live
  <2> QED
    BY <1>2, <1>4, <2>1, AnswersTruth
<1>10. (busy # Idle /\ busy.phase = "complete" /\ busy.status = "executed"
          => Rightly(busy.cmd.id))'
  <2> SUFFICES ASSUME busy' # Idle, busy'.phase = "complete", busy'.status = "executed"
               PROVE  Rightly(busy.cmd.id)'
    OBVIOUS
  <2>1. CASE busy' = busy
    <3>1. busy.cmd.id \in Ids
      BY <1>1, <2>1, BusyType DEF Command
    <3> QED
      BY <1>4, <2>1, <3>1 DEF TruthInv
  <2>2. CASE Apply
    <3>1. busy # Idle /\ busy.phase = "apply"
      BY <2>2 DEF Apply
    <3>2. /\ busy \in [phase : {"apply", "complete"}, cmd : Command, status : FinalStatuses,
                       code : Codes]
      BY <1>1, <3>1 DEF TypeInv, DisplayTypeOK, Busy
    <3>3. CASE busy.cmd.kind = "brightness"
      <4>1. busy'.status = "failed"
        BY <2>2, <3>2, <3>3 DEF Apply
      <4> QED
        BY <4>1
    <3>4. CASE busy.cmd.kind # "brightness"
      <4>1. applied' = Append(applied, busy.cmd) /\ busy' = [busy EXCEPT !.phase = "complete"]
        BY <2>2, <3>4, Zenon DEF Apply
      <4>2. busy'.cmd = busy.cmd
        BY <3>2, <4>1
      <4>3. applied \in Seq(Command) /\ busy.cmd \in Command
        BY <1>1, <3>2 DEF TypeInv, DisplayTypeOK
      <4>4. Len(applied) + 1 \in DOMAIN applied' /\ applied'[Len(applied) + 1] = busy.cmd
        BY <4>1, <4>3
      <4> QED
        BY <4>2, <4>4 DEF Rightly, Took
    <3> QED
      BY <3>3, <3>4
  <2>3. \A cmd : busy' # [phase |-> "apply", cmd |-> cmd, status |-> "executed", code |-> ""]
    <3> SUFFICES ASSUME NEW cmd
                 PROVE  busy' # [phase |-> "apply", cmd |-> cmd, status |-> "executed",
                                 code |-> ""]
      OBVIOUS
    <3> DEFINE b == [phase |-> "apply", cmd |-> cmd, status |-> "executed", code |-> ""]
    <3>1. b.phase = "apply"
      OBVIOUS
    <3> HIDE DEF b
    <3>2. busy' # b
      BY <3>1
    <3> QED
      BY <3>2 DEF b
  <2> QED
    BY <2>1, <2>2, <2>3, BusyCases, Zenon
<1> QED
  BY <1>7, <1>8, <1>9, <1>10 DEF TruthInv

LEMMA TruthInit == Init => TruthInv
<1> SUFFICES ASSUME Init
             PROVE  TruthInv
  OBVIOUS
<1>1. /\ uplink = << >> /\ late = << >> /\ outbox = << >>
      /\ busy = Idle /\ busFile = EmptyBus
      /\ ledger = EmptyLedger /\ ledgerFile = EmptyLedger
  BY DEF Init, BusInit, DisplayInit
<1>2. Live(busFile) = {}
  BY <1>1 DEF EmptyBus, Live
<1> QED
  BY <1>1, <1>2, ShortSeq DEF TruthInv, EmptyLedger

\* What may become of an answer.
LEMMA OnwardIs ==
  /\ Lifecycle!None \in Lifecycle!Onward(Lifecycle!None)
  /\ \A kind \in Kinds :
       [kind |-> kind, status |-> "published"] \in Lifecycle!Onward(Lifecycle!None)
  /\ Lifecycle!Forgotten \in Lifecycle!Onward(Lifecycle!Forgotten)
  /\ \A kind \in Kinds, status \in Statuses :
       /\ [kind |-> kind, status |-> status] \in Lifecycle!Onward([kind |-> kind, status |-> status])
       /\ Lifecycle!Forgotten \in Lifecycle!Onward([kind |-> kind, status |-> status])
  /\ \A kind \in Kinds, status \in Statuses, s \in FinalStatuses \cup {"accepted"} :
       ~ Final(status) =>
         [kind |-> kind, status |-> s] \in Lifecycle!Onward([kind |-> kind, status |-> status])
<1>1. /\ Lifecycle!None.status = "none" /\ Lifecycle!Forgotten.status = "forgotten"
      /\ Lifecycle!None # Lifecycle!Forgotten
  <2>1. Lifecycle!None.status = "none" /\ Lifecycle!Forgotten.status = "forgotten"
    BY DEF Lifecycle!None, Lifecycle!Forgotten
  <2> QED
    BY <2>1
<1>2. ASSUME NEW kind \in Kinds, NEW status \in Statuses
      PROVE  /\ [kind |-> kind, status |-> status] \in Lifecycle!Answers
             /\ [kind |-> kind, status |-> status] # Lifecycle!None
             /\ [kind |-> kind, status |-> status] # Lifecycle!Forgotten
             /\ [kind |-> kind, status |-> status].status = status
  <2> DEFINE a == [kind |-> kind, status |-> status]
  <2>1. a \in Lifecycle!Answers
    BY DEF Lifecycle!Answers, Lifecycle!Statuses, Lifecycle!FinalStatuses, Statuses, FinalStatuses
  <2>2. a.status = status /\ status # "none" /\ status # "forgotten"
    BY DEF Statuses, FinalStatuses
  <2> HIDE DEF a
  <2>3. a # Lifecycle!None /\ a # Lifecycle!Forgotten
    BY <1>1, <2>2
  <2> QED
    BY <2>1, <2>2, <2>3 DEF a
<1>3. Lifecycle!None \in Lifecycle!Onward(Lifecycle!None)
  BY DEF Lifecycle!Onward
<1>4. ASSUME NEW kind \in Kinds
      PROVE  [kind |-> kind, status |-> "published"] \in Lifecycle!Onward(Lifecycle!None)
  <2> DEFINE a == [kind |-> kind, status |-> "published"]
  <2>1. "published" \in Statuses
    BY DEF Statuses
  <2>2. a \in Lifecycle!Answers /\ a.status = "published"
    BY <1>2, <2>1
  <2> HIDE DEF a
  <2>3. Lifecycle!Onward(Lifecycle!None)
          = {Lifecycle!None} \cup {x \in Lifecycle!Answers : x.status = "published"}
    <3>1. ~ Lifecycle!Final(Lifecycle!None.status) /\ Lifecycle!None \notin Lifecycle!Answers
      BY <1>1 DEF Lifecycle!Final, Lifecycle!FinalStatuses, Lifecycle!Answers, Lifecycle!Statuses
    <3> QED
      BY <1>1, <3>1 DEF Lifecycle!Onward
  <2>4. a \in Lifecycle!Onward(Lifecycle!None)
    BY <2>2, <2>3
  <2> QED
    BY <2>4 DEF a
<1>5. Lifecycle!Forgotten \in Lifecycle!Onward(Lifecycle!Forgotten)
  BY <1>1 DEF Lifecycle!Onward
<1>6. ASSUME NEW kind \in Kinds, NEW status \in Statuses
      PROVE  LET a == [kind |-> kind, status |-> status]
             IN  /\ a \in Lifecycle!Onward(a) /\ Lifecycle!Forgotten \in Lifecycle!Onward(a)
                 /\ \A s \in FinalStatuses \cup {"accepted"} : ~ Final(status) =>
                      [kind |-> kind, status |-> s] \in Lifecycle!Onward(a)
  <2> DEFINE a == [kind |-> kind, status |-> status]
  <2>1. /\ a \in Lifecycle!Answers /\ a # Lifecycle!None /\ a # Lifecycle!Forgotten
        /\ a.status = status
    BY <1>2
  <2>2. \A s : [a EXCEPT !.status = s] = [kind |-> kind, status |-> s]
    OBVIOUS
  <2> HIDE DEF a
  <2>3. Lifecycle!Final(status) <=> Final(status)
    BY DEF Lifecycle!Final, Lifecycle!FinalStatuses, Final, FinalStatuses
  <2>4. CASE Final(status)
    <3>1. Lifecycle!Onward(a) = {a, Lifecycle!Forgotten}
      BY <2>1, <2>3, <2>4 DEF Lifecycle!Onward
    <3> QED
      BY <2>4, <3>1 DEF a
  <2>5. CASE ~ Final(status)
    <3>1. Lifecycle!Onward(a) = {a, Lifecycle!Forgotten} \cup
            {[a EXCEPT !.status = s] : s \in Lifecycle!FinalStatuses \cup {"accepted"}}
      BY <2>1, <2>3, <2>5 DEF Lifecycle!Onward
    <3>2. Lifecycle!FinalStatuses = FinalStatuses
      BY DEF Lifecycle!FinalStatuses, FinalStatuses
    <3> QED
      BY <2>2, <3>1, <3>2 DEF a
  <2> QED
    BY <2>4, <2>5
<1> QED
  BY <1>3, <1>4, <1>5, <1>6

LEMMA LifecycleStart == Init => Lifecycle!LifecycleInit
<1> SUFFICES ASSUME Init
             PROVE  Lifecycle!LifecycleInit
  OBVIOUS
<1>1. busFile = EmptyBus /\ issued = 0 /\ applied = << >>
  BY DEF Init, BusInit, DisplayInit
<1>2. \A c \in Ids : c \in Nat /\ ~ c <= issued /\ busFile.entries[c] = NoEntry
  BY <1>1 DEF Ids, EmptyBus
<1>3. AnswersKept = [c \in Ids |-> Lifecycle!None]
  BY <1>2 DEF AnswersKept, Lifecycle!None
<1>4. [i \in DOMAIN applied |-> applied[i].id] = << >>
  BY <1>1
<1> QED
  BY <1>3, <1>4 DEF Lifecycle!LifecycleInit, Lifecycle!Ids, Ids

\* What a caller is told of a command.
LEMMA AnswerIs ==
  ASSUME BusInv, QueueNumbered, NEW c \in Ids
  PROVE  \/ /\ busFile.entries[c] = NoEntry /\ issued < c
            /\ AnswersKept[c] = Lifecycle!None
         \/ /\ busFile.entries[c] = NoEntry /\ c <= issued
            /\ AnswersKept[c] = Lifecycle!Forgotten
         \/ /\ c \in Live(busFile) /\ c <= issued
            /\ busFile.entries[c].kind \in Kinds /\ busFile.entries[c].status \in Statuses
            /\ AnswersKept[c] = [kind |-> busFile.entries[c].kind,
                                 status |-> busFile.entries[c].status]
<1>1. c \in Nat /\ issued \in Nat
  BY ProtocolAssumption DEF BusInv, Ids
<1>2. CASE busFile.entries[c] = NoEntry /\ issued < c
  BY <1>1, <1>2 DEF AnswersKept, Lifecycle!None
<1>3. CASE busFile.entries[c] = NoEntry /\ c <= issued
  BY <1>1, <1>3 DEF AnswersKept, Lifecycle!Forgotten
<1>4. CASE busFile.entries[c] # NoEntry
  <2>1. c \in Live(busFile)
    BY <1>4 DEF Live
  <2>2. busFile.entries[c] \in Entry /\ c <= issued
    BY <2>1, EntryType DEF BusInv, Sound, QueueNumbered
  <2> QED
    BY <1>4, <2>1, <2>2 DEF AnswersKept, Entry
<1> QED
  BY <1>1, <1>2, <1>3, <1>4

\* Every answer goes its way.
LEMMA OnwardStep ==
  ASSUME RemoteInv, RemoteInv', NumberInv, NumberInv',
         NEW c0, NEW st, QueueMoves(c0, st), NEW c \in Ids
  PROVE  AnswersKept'[c] \in Lifecycle!Onward(AnswersKept[c])
<1>1. /\ BusInv /\ QueueNumbered /\ BusInv' /\ QueueNumbered'
      /\ c \in Nat /\ issued \in Nat /\ issued' \in Nat
  BY ProtocolAssumption DEF RemoteInv, NumberInv, BusInv, Ids
<1>2. Moves(busFile, busFile', c0, st) /\ Reported(c0, st)
  BY DEF QueueMoves
<1> DEFINE old == busFile.entries[c]
           new == busFile'.entries[c]
<1>3. \/ old = NoEntry /\ issued < c /\ AnswersKept[c] = Lifecycle!None
      \/ old = NoEntry /\ c <= issued /\ AnswersKept[c] = Lifecycle!Forgotten
      \/ /\ c \in Live(busFile) /\ c <= issued /\ old.kind \in Kinds /\ old.status \in Statuses
         /\ AnswersKept[c] = [kind |-> old.kind, status |-> old.status]
  BY <1>1, AnswerIs
<1>4. \/ new = NoEntry /\ issued' < c /\ AnswersKept'[c] = Lifecycle!None
      \/ new = NoEntry /\ c <= issued' /\ AnswersKept'[c] = Lifecycle!Forgotten
      \/ /\ new # NoEntry /\ c <= issued' /\ new.kind \in Kinds /\ new.status \in Statuses
         /\ AnswersKept'[c] = [kind |-> new.kind, status |-> new.status]
  <2>1. /\ Lifecycle!None = [status |-> "none"] /\ Lifecycle!Forgotten = [status |-> "forgotten"]
    BY DEF Lifecycle!None, Lifecycle!Forgotten
  <2>2. busFile'.entries \in [Ids -> Entry \cup {NoEntry}]
    BY <1>1 DEF BusInv, Sound, BusState
  <2>3. new # NoEntry => c <= issued' /\ new \in Entry
    BY <1>1, <2>2 DEF QueueNumbered, Live
  <2> QED
    BY <1>1, <2>1, <2>2, <2>3 DEF AnswersKept, Entry
<1>5. CASE new = old
  BY <1>1, <1>2, <1>3, <1>4, <1>5, OnwardIs DEF Moves
<1>6. CASE new = NoEntry /\ old # NoEntry
  <2>1. issued <= issued'
    BY <1>1, <1>2 DEF Moves
  <2> QED
    BY <1>1, <1>3, <1>4, <1>6, <2>1, OnwardIs
<1>7. CASE c \in Pending(busFile) /\ SameCommand(old, new)
           /\ new.status \in FinalStatuses \cup {"accepted"}
  BY <1>3, <1>4, <1>7, OnwardIs DEF Pending, Live, SameCommand
<1>8. CASE c = issued + 1 /\ new \in Entry /\ new.status = "published"
  <2>1. new # NoEntry /\ old = NoEntry
    BY <1>1, <1>3, <1>8 DEF NoEntry
  <2>2. AnswersKept[c] = Lifecycle!None
    BY <1>1, <1>3, <1>8
  <2>3. new.kind \in Kinds /\ AnswersKept'[c] = [kind |-> new.kind, status |-> "published"]
    BY <1>4, <1>8, <2>1
  <2> QED
    BY <2>2, <2>3, OnwardIs
<1>9. c = c0 => st \in FinalStatuses \cup {"accepted"}
  <2>1. ASSUME NEW q \in Seq(Report), NEW i \in DOMAIN q
        PROVE  q[i].status \in FinalStatuses \cup {"accepted"}
    <3>1. q[i] \in Report
      BY MemberOf
    <3> QED
      BY <3>1 DEF Report, Reports, FinalStatuses
  <2>2. c # 0 /\ uplink \in Seq(Report) /\ late \in Seq(Report)
    BY DEF Ids, RemoteInv, LinkType
  <2> QED
    BY <1>2, <2>1, <2>2, Zenon DEF Reported
<1> QED
  BY <1>2, <1>5, <1>6, <1>7, <1>8, <1>9 DEF Moves, FinalStatuses

\* A step that leaves the screen alone moves answers on.
LEMMA AnswerStep ==
  ASSUME RemoteInv, RemoteInv', "bus_corrupt" \notin Faults, NumberInv, TruthInv,
         NumberInv', TruthInv', [Next]_vars, applied' = applied
  PROVE  Lifecycle!Answer
<1>1. PICK c0, st : QueueMoves(c0, st)
  BY QueueStep
<1>2. BusInv' /\ QueueNumbered'
  BY DEF RemoteInv, NumberInv
<1>3. ASSUME NEW c \in Ids
      PROVE  /\ AnswersKept'[c] \in Lifecycle!Onward(AnswersKept[c])
             /\ AnswersKept'[c].status = "executed" =>
                  Took(c) \/ AnswersKept'[c].kind = "refresh"
             /\ AnswersKept'[c] # Lifecycle!None <=> c <= issued'
  <2>1. AnswersKept'[c] \in Lifecycle!Onward(AnswersKept[c])
    BY <1>1, OnwardStep
  <2>2. c \in Nat /\ issued' \in Nat
    BY <1>2, ProtocolAssumption DEF BusInv, Ids
  <2>3. CASE busFile'.entries[c] = NoEntry
    <3>1. AnswersKept'[c] = IF c <= issued' THEN Lifecycle!Forgotten ELSE Lifecycle!None
      BY <2>3 DEF AnswersKept, Lifecycle!None, Lifecycle!Forgotten
    <3>2. Lifecycle!None.status = "none" /\ Lifecycle!Forgotten.status = "forgotten"
      BY DEF Lifecycle!None, Lifecycle!Forgotten
    <3> QED
      BY <2>1, <2>2, <3>1, <3>2
  <2>4. CASE busFile'.entries[c] # NoEntry
    <3> DEFINE e == busFile'.entries[c]
               answer == [kind |-> e.kind, status |-> e.status]
    <3>1. AnswersKept'[c] = answer /\ answer.kind = e.kind /\ answer.status = e.status
      BY <2>4 DEF AnswersKept
    <3>2. e \in Entry /\ c <= issued'
      <4>1. busFile'.entries \in [Ids -> Entry \cup {NoEntry}]
        BY <1>2 DEF BusInv, Sound, BusState
      <4> QED
        BY <1>2, <2>4, <4>1 DEF QueueNumbered, Live
    <3>3. e.status = "executed" => Took(c) \/ e.kind = "refresh"
      <4>1. e.status = "executed" => Rightly(c)'
        BY <2>4 DEF TruthInv, Live
      <4>2. Rightly(c)' => Took(c) \/ e.kind = "refresh"
        BY <2>4 DEF Rightly, Took, Agrees
      <4> QED
        BY <4>1, <4>2
    <3>4. e.status # "none"
      BY <3>2 DEF Entry, Statuses, FinalStatuses
    <3>5. Lifecycle!None.status = "none"
      BY DEF Lifecycle!None
    <3> HIDE DEF e, answer
    <3> QED
      BY <2>1, <3>1, <3>2, <3>3, <3>4, <3>5
  <2> QED
    BY <2>3, <2>4
<1>4. ASSUME NEW c \in Ids, NEW d \in Ids, c < d, AnswersKept'[d] # Lifecycle!None
      PROVE  AnswersKept'[c] # Lifecycle!None
  <2>1. d <= issued' /\ c \in Nat /\ d \in Nat /\ issued' \in Nat
    BY <1>2, <1>3, <1>4, ProtocolAssumption DEF BusInv, Ids
  <2>2. c <= issued'
    BY <1>4, <2>1
  <2> QED
    BY <1>3, <2>2
<1> DEFINE effects == [i \in DOMAIN applied |-> applied[i].id]
<1>5. effects' = effects
  OBVIOUS
<1>6. ASSUME NEW c \in Ids
      PROVE  Lifecycle!Truthful(AnswersKept'[c], c)
  <2>1. Took(c) <=> \E i \in DOMAIN effects : effects[i] = c
    BY DEF Took
  <2> QED
    BY <1>3, <2>1 DEF Lifecycle!Truthful, Lifecycle!Took
<1>7. Lifecycle!Ids = Ids
  BY DEF Lifecycle!Ids, Ids
<1> QED
  BY <1>3, <1>4, <1>5, <1>6, <1>7 DEF Lifecycle!Answer

\* A step that changes the screen is an effect, the first and in its turn.
LEMMA EffectStep ==
  ASSUME RemoteInv, NumberInv, HighWater, [Next]_vars, applied' # applied
  PROVE  \E c \in Lifecycle!Ids : Lifecycle!Effect(c)
<1>1. /\ busy # Idle /\ busy.phase = "apply" /\ busy.cmd \in Command
      /\ applied' = Append(applied, busy.cmd)
      /\ UNCHANGED <<busVars, linkVars, current>>
  BY AppliedCases DEF RemoteInv
<1>2. busy.cmd \in Message /\ applied \in Seq(Message)
  BY <1>1 DEF NumberInv
<1> DEFINE effects == [i \in DOMAIN applied |-> applied[i].id]
<1>3. PICK c \in Ids : c = busy.cmd.id /\ busy.cmd.seq = c /\ c <= issued
  BY <1>2 DEF Message, Command, Agrees
<1>4. BusInv /\ QueueNumbered /\ c \in Nat /\ issued \in Nat
  BY <1>3, ProtocolAssumption DEF RemoteInv, NumberInv, BusInv, Ids
<1>5. AnswersKept[c] # Lifecycle!None
  <2>1. /\ Lifecycle!None.status = "none" /\ Lifecycle!Forgotten.status = "forgotten"
        /\ "none" \notin Statuses
    BY DEF Lifecycle!None, Lifecycle!Forgotten, Statuses, FinalStatuses
  <2> DEFINE e == busFile.entries[c]
  <2>2. \/ issued < c
        \/ AnswersKept[c] = Lifecycle!Forgotten
        \/ /\ e.kind \in Kinds /\ e.status \in Statuses
           /\ AnswersKept[c] = [kind |-> e.kind, status |-> e.status]
    BY <1>4, AnswerIs, Zenon
  <2>3. ASSUME NEW kind \in Kinds, NEW status \in Statuses
        PROVE  [kind |-> kind, status |-> status] # Lifecycle!None
    <3> DEFINE answer == [kind |-> kind, status |-> status]
    <3>1. answer.status = status
      OBVIOUS
    <3> HIDE DEF answer
    <3>2. answer # Lifecycle!None
      BY <2>1, <3>1
    <3> QED
      BY <3>2 DEF answer
  <2>4. Lifecycle!Forgotten # Lifecycle!None
    BY <2>1
  <2>5. ~ issued < c
    BY <1>3, <1>4
  <2> HIDE DEF e
  <2> QED
    BY <2>2, <2>3, <2>4, <2>5
<1>6. \A i \in DOMAIN effects : effects[i] < c
  <2> SUFFICES ASSUME NEW i \in DOMAIN applied
               PROVE  applied[i].id < c
    OBVIOUS
  <2>1. applied[i] \in Message
    BY <1>2, MemberOf
  <2>2. applied[i].seq < busy.cmd.seq
    <3>1. busy \in Busy
      BY <1>1 DEF RemoteInv, TypeInv, DisplayTypeOK
    <3> QED
      BY <1>1, <3>1 DEF HighWater
  <2> QED
    BY <1>3, <2>1, <2>2 DEF Message
<1>7. [i \in DOMAIN applied |-> applied[i].id]' = Append(effects, c)
  <2> DEFINE n == Len(applied)
             effects2 == [i \in 1 .. n + 1 |-> applied'[i].id]
             longer == Append(effects, c)
  <2>1. /\ n \in Nat /\ DOMAIN applied = 1 .. n
        /\ DOMAIN applied' = 1 .. n + 1 /\ applied'[n + 1] = busy.cmd
        /\ \A i \in 1 .. n : applied'[i] = applied[i]
    BY <1>1, <1>2
  <2>2. effects \in [1 .. n -> Ids]
    <3>1. \A i \in DOMAIN applied : applied[i].id \in Ids
      BY <1>2, MemberOf DEF Message, Command
    <3> QED
      BY <2>1, <3>1
  <2>3. effects \in Seq(Ids) /\ Len(effects) = n
    BY <2>1, <2>2
  <2> HIDE DEF effects, n
  <2>4. /\ longer \in Seq(Ids) /\ DOMAIN longer = 1 .. n + 1 /\ longer[n + 1] = c
        /\ \A i \in 1 .. n : longer[i] = effects[i]
    BY <1>3, <2>3
  <2>5. ASSUME NEW i \in 1 .. n + 1
        PROVE  effects2[i] = longer[i]
    <3>1. CASE i = n + 1
      BY <1>3, <2>1, <2>4, <3>1
    <3>2. CASE i \in 1 .. n
      BY <2>1, <2>4, <3>2 DEF effects
    <3>3. i = n + 1 \/ i \in 1 .. n
      BY <2>1
    <3> QED
      BY <3>1, <3>2, <3>3
  <2> HIDE DEF longer
  <2>6. longer = [i \in 1 .. n + 1 |-> longer[i]]
    BY <2>4
  <2>7. effects2 = longer
    BY <2>5, <2>6
  <2> QED
    BY <2>1, <2>7 DEF longer
<1>8. AnswersKept' = AnswersKept
  BY <1>1 DEF AnswersKept, busVars
<1>9. Lifecycle!Effect(c)
  BY <1>5, <1>6, <1>7, <1>8 DEF Lifecycle!Effect
<1>10. Lifecycle!Ids = Ids
  BY DEF Lifecycle!Ids, Ids
<1> QED
  BY <1>9, <1>10

\* To who publishes commands the whole is a command lifecycle: one answer each, final
\* once final, "executed" only when it is true, effects at most once and in order,
\* whatever is lost, sent again, written in vain or restarted, as long as the two files
\* can be read (bus.go, store.go, stream.go drain, controller.go Handle).
THEOREM ImplementsLifecycle ==
  ASSUME "bus_corrupt" \notin Faults, "ledger_corrupt" \notin Faults
  PROVE  Spec => IsALifecycle
<1>1. Spec => []HighWater
  <2>1. DisplaySpec => [](AppliedOnceInOrder /\ HighWater)
    BY AppliedInOrder
  <2> QED
    BY <2>1, EndsInTheWhole, PTL
<1>2. RemoteInv /\ RemoteInv' /\ NumberInv /\ TruthInv /\ [Next]_vars => TruthInv'
  BY TruthStep
<1>3. Spec => []TruthInv
  BY <1>2, TruthInit, RemoteInvariance, NumberInvariance, PTL DEF Spec
<1>4. /\ RemoteInv /\ NumberInv /\ TruthInv /\ HighWater
      /\ RemoteInv' /\ NumberInv' /\ TruthInv' /\ [Next]_vars
      => [Lifecycle!LifecycleNext]_(Lifecycle!lifecycleVars)
  BY AnswerStep, EffectStep DEF Lifecycle!LifecycleNext
<1> QED
  BY <1>1, <1>3, <1>4, LifecycleStart, RemoteInvariance, NumberInvariance, PTL
     DEF Spec, IsALifecycle, Lifecycle!LifecycleSpec

\* Whatever the daemon answers of a command: executed, and it changed the screen or is a
\* refresh.
ExecutedIsTrue ==
  \A c \in Live(bus) : bus.entries[c].status = "executed" =>
    \/ \E i \in DOMAIN applied : applied[i].id = c
    \/ bus.entries[c].kind = "refresh"

\* What an administrator reads as executed was executed on the display, for any number of
\* commands, whatever is lost, sent again, written in vain or restarted and even when the
\* ledger of the display is lost, as long as the queue file can be read (bus.go Get,
\* Record; stream.go drain; controller.go Handle).
THEOREM ExecutedAnswersAreTrue ==
  ASSUME "bus_corrupt" \notin Faults
  PROVE  Spec => []ExecutedIsTrue
<1>1. RemoteInv /\ RemoteInv' /\ NumberInv /\ TruthInv /\ [Next]_vars => TruthInv'
  BY TruthStep
<1>2. Spec => []TruthInv
  BY <1>1, TruthInit, RemoteInvariance, NumberInvariance, PTL DEF Spec
<1>3. RemoteInv /\ TruthInv => ExecutedIsTrue
  <2> SUFFICES ASSUME RemoteInv, TruthInv, NEW c \in Live(bus),
                      bus.entries[c].status = "executed"
               PROVE  \/ \E i \in DOMAIN applied : applied[i].id = c
                      \/ bus.entries[c].kind = "refresh"
    BY Zenon DEF ExecutedIsTrue
  <2>1. c \in Ids /\ bus.entries[c] # NoEntry
    BY DEF Live
  <2>2. /\ \/ busFile.entries[c] = bus.entries[c]
           \/ c \in Pending(busFile) /\ bus.entries[c] = TimedOut(busFile.entries[c])
        /\ Sound(busFile)
    BY <2>1, Zenon DEF RemoteInv, BusInv, RestartKeepsAnswers, Unwritten
  <2>3. busFile.entries[c] = bus.entries[c]
    <3>1. ASSUME c \in Pending(busFile), bus.entries[c] = TimedOut(busFile.entries[c])
          PROVE  FALSE
      <4>1. busFile.entries[c] \in Entry
        BY <2>1, <2>2, <3>1 DEF Pending, Live, Sound, BusState
      <4>2. bus.entries[c].status \in {"expired", "failed"}
        BY <3>1, <4>1, TimedOutIs
      <4> QED
        BY <4>2
    <3> QED
      BY <2>2, <3>1
  <2>4. Rightly(c)
    <3>1. c \in Live(busFile)
      BY <2>1, <2>3 DEF Live
    <3> QED
      BY <2>3, <3>1 DEF TruthInv
  <2> QED
    BY <2>1, <2>3, <2>4 DEF Rightly, Took, Agrees
<1> QED
  BY <1>2, <1>3, RemoteInvariance, PTL

(***************************************************************************)
(* A refresh waits for a newer snapshot.                                   *)
(***************************************************************************)

\* A refresh waits since the daemon was no later than now, and than the snapshot shown.
WaitingRecord ==
  {r \in MessageRecord :
     r.pendingRefresh => /\ r.status = "accepted"
                         /\ r.baseline.epoch <= current.epoch
                         /\ shown # NoSnapshot => r.baseline.epoch <= shown.epoch}

Waits(r, c)    == r.id = c /\ r.pendingRefresh
Executed(r, c) == r.id = c /\ r.status = "executed"

\* What took effect, or may, is not above the mark.
Marked(l) ==
  \A i \in DOMAIN l.records :
    l.records[i].status \in {"accepted", "executed"} => l.records[i].seq <= l.high

\* Where snapshots are from.
SnapshotInv ==
  /\ current.epoch >= 1
  /\ shown.epoch <= current.epoch
  /\ lastGood.epoch <= current.epoch
  /\ shown # NoSnapshot => shown.epoch >= 1
  /\ lastGood # NoSnapshot => lastGood.epoch >= 1
  /\ "snap_write" \notin Faults => lastGood = shown
  /\ busy # Idle /\ busy.phase = "refresh" => shown # NoSnapshot

WaitingInv ==
  /\ SnapshotInv
  /\ ledger.records \in Seq(WaitingRecord)
  /\ ledgerFile.records \in Seq(WaitingRecord)
  /\ Marked(ledger) /\ Marked(ledgerFile)
  /\ \A i \in DOMAIN ledger.records, j \in DOMAIN ledgerFile.records, c \in Ids :
       ~ (Waits(ledger.records[i], c) /\ Executed(ledgerFile.records[j], c))
  /\ busy # Idle /\ busy.phase # "refresh" =>
       \A i \in DOMAIN ledger.records : ~ Waits(ledger.records[i], busy.cmd.id)

\* What is shown is what was, the daemon's snapshot, or what was saved.
LEMMA ShownCases ==
  ASSUME [Next]_vars, current \in Snapshot
  PROVE  /\ \/ UNCHANGED <<shown, lastGood>>
            \/ /\ ReceiveSnapshot /\ busy = Idle /\ shown' = current /\ shown' # NoSnapshot
               /\ current' = current
               /\ lastGood' = current \/ ("snap_write" \in Faults /\ lastGood' = lastGood)
            \/ /\ RestartDisplay /\ shown' = lastGood /\ lastGood' = lastGood
               /\ current' = current
         /\ current.epoch <= current'.epoch
<1>1. CASE ReceiveSnapshot
  <2>1. /\ busy = Idle /\ shown' = current /\ current # NoSnapshot /\ current' = current
        /\ \E saved \in WriteOutcomes("snap_write") :
             lastGood' = IF saved THEN current ELSE lastGood
    BY <1>1, Zenon DEF ReceiveSnapshot, ApplySnapshot
  <2>2. lastGood' = current \/ ("snap_write" \in Faults /\ lastGood' = lastGood)
    BY <2>1 DEF WriteOutcomes
  <2> QED
    BY <1>1, <2>1, <2>2 DEF Snapshot
<1>2. CASE RestartDisplay
  <2>1. shown' = lastGood /\ lastGood' = lastGood /\ current' = current
    BY <1>2, Zenon DEF RestartDisplay, Restart
  <2> QED
    BY <1>2, <2>1 DEF Snapshot
<1>3. CASE RestartDaemon \/ Collect
  <2>1. UNCHANGED <<shown, lastGood>>
    BY <1>3, Zenon DEF RestartDaemon, Collect, SetSession, displayVars
  <2>2. current.epoch \in Nat /\ current \in Snapshot
    BY DisplayAssumption DEF Snapshot
  <2>3. current'.epoch = current.epoch \/ current'.epoch = current.epoch + 1
    <3>1. CASE RestartDaemon
      <4>1. current' = [epoch |-> current.epoch + 1, version |-> 0]
        BY <3>1, Zenon DEF RestartDaemon
      <4> QED
        BY <4>1
    <3>2. CASE Collect
      <4>1. current' = [current EXCEPT !.version = @ + 1]
        BY <3>2, Zenon DEF Collect
      <4> QED
        BY <2>2, <4>1 DEF Snapshot
    <3> QED
      BY <1>3, <3>1, <3>2
  <2>4. current.epoch <= current'.epoch
    BY <2>2, <2>3
  <2> QED
    BY <2>1, <2>4
<1>4. CASE UNCHANGED <<shown, lastGood, current>>
  BY <1>4 DEF Snapshot
<1>5. \/ ReceiveSnapshot \/ RestartDisplay \/ RestartDaemon \/ Collect
      \/ UNCHANGED <<shown, lastGood, current>>
  BY Zenon DEF Next, PublishCommand, ReadStatus, PumpCommands, DrainResult, DrainLate,
               Connect, Disconnect, SetSession, ReceiveCommand, Handle,
               TransmitResult, SendResult, RunCommand, Apply, Complete,
               CompleteRefresh, DropResult, LoseResult, PassTTL,
               PassExecutionWindow, displayVars, vars
<1> QED
  BY <1>1, <1>2, <1>3, <1>4, <1>5

\* The loop completes refreshes only when something is shown.
LEMMA RefreshShown ==
  ASSUME TypeInv, [Next]_vars, busy # Idle /\ busy.phase = "refresh" => shown # NoSnapshot,
         current \in Snapshot, busy' # Idle, busy'.phase = "refresh"
  PROVE  shown' # NoSnapshot
<1>1. CASE busy' = busy
  <2>1. CASE UNCHANGED <<shown, lastGood>>
    BY <1>1, <2>1
  <2>2. CASE RestartDisplay
    <3>1. shown' = lastGood /\ \E opened : busy' = Refreshing(opened, lastGood, FALSE)
      BY <2>2, Zenon DEF RestartDisplay, Restart
    <3> QED
      BY <3>1 DEF Refreshing
  <2> QED
    BY <1>1, <2>1, <2>2, ShownCases
<1>2. CASE busy'.phase # "refresh"
  BY <1>2
<1>3. CASE Apply
  <2>1. busy # Idle /\ busy.phase = "apply"
    BY <1>3 DEF Apply
  <2>2. busy \in [phase : {"apply", "complete"}, cmd : Command, status : FinalStatuses,
                  code : Codes]
    BY <2>1 DEF TypeInv, DisplayTypeOK, Busy
  <2>3. busy'.phase = "complete"
    BY <1>3, <2>2 DEF Apply
  <2> QED
    BY <2>3
<1>4. ASSUME NEW cmd,
             busy' = [phase |-> "apply", cmd |-> cmd, status |-> "executed", code |-> ""]
      PROVE  FALSE
  <2> DEFINE b == [phase |-> "apply", cmd |-> cmd, status |-> "executed", code |-> ""]
  <2>1. b.phase = "apply"
    OBVIOUS
  <2>2. busy' = b
    BY <1>4
  <2> HIDE DEF b
  <2> QED
    BY <2>1, <2>2
<1> QED
  BY <1>1, <1>3, <1>4, BusyCases, Zenon

LEMMA SnapshotStep ==
  ASSUME RemoteInv, RemoteInv', SnapshotInv, [Next]_vars
  PROVE  SnapshotInv'
<1>1. /\ current \in Snapshot /\ current' \in Snapshot
      /\ shown \in Snapshot /\ lastGood \in Snapshot
      /\ shown' \in Snapshot /\ lastGood' \in Snapshot
  BY DEF RemoteInv, LinkType, TypeInv, DisplayTypeOK
<1>2. \A s \in Snapshot : s.epoch \in Nat
  BY DisplayAssumption DEF Snapshot
<1>3. busy' # Idle /\ busy'.phase = "refresh" => shown' # NoSnapshot
  BY <1>1, RefreshShown DEF SnapshotInv, RemoteInv
<1>4. /\ current.epoch >= 1 /\ shown.epoch <= current.epoch /\ lastGood.epoch <= current.epoch
      /\ shown # NoSnapshot => shown.epoch >= 1
      /\ lastGood # NoSnapshot => lastGood.epoch >= 1
      /\ "snap_write" \notin Faults => lastGood = shown
  BY DEF SnapshotInv
<1>5. /\ current.epoch \in Nat /\ current'.epoch \in Nat /\ shown.epoch \in Nat
      /\ lastGood.epoch \in Nat /\ shown'.epoch \in Nat /\ lastGood'.epoch \in Nat
  BY <1>1, <1>2
<1>6. CASE UNCHANGED <<shown, lastGood>>
  BY <1>1, <1>3, <1>4, <1>5, <1>6, ShownCases DEF SnapshotInv
<1>7. CASE /\ shown' = current /\ current' = current
           /\ lastGood' = current \/ ("snap_write" \in Faults /\ lastGood' = lastGood)
  BY <1>3, <1>4, <1>5, <1>7 DEF SnapshotInv
<1>8. CASE shown' = lastGood /\ lastGood' = lastGood /\ current' = current
  BY <1>3, <1>4, <1>5, <1>8 DEF SnapshotInv
<1> QED
  BY <1>1, <1>6, <1>7, <1>8, ShownCases

\* Records made of a message, and records that get a final result, wait for what they
\* should (store.go accept, complete).
LEMMA WaitingMade ==
  ASSUME NEW cmd \in Message, shown \in Snapshot, SnapshotInv
  PROVE  /\ \A status \in Statuses, code \in Codes : NewRecord(cmd, status, code) \in WaitingRecord
         /\ AcceptedRecord(cmd) \in WaitingRecord
         /\ AcceptedRecord(cmd).pendingRefresh <=> cmd.kind = "refresh"
<1>1. /\ \A status \in Statuses, code \in Codes : NewRecord(cmd, status, code) \in MessageRecord
      /\ AcceptedRecord(cmd) \in MessageRecord
  BY MessageMade
<1>2. ASSUME NEW status \in Statuses, NEW code \in Codes
      PROVE  NewRecord(cmd, status, code) \in WaitingRecord
  <2>1. ~ NewRecord(cmd, status, code).pendingRefresh
    BY DEF NewRecord
  <2> QED
    BY <1>1, <2>1 DEF WaitingRecord
<1>3. /\ AcceptedRecord(cmd).status = "accepted"
      /\ AcceptedRecord(cmd).pendingRefresh = (cmd.kind = "refresh")
      /\ cmd.kind = "refresh" => AcceptedRecord(cmd).baseline = shown
  BY DEF AcceptedRecord, NewRecord
<1>4. AcceptedRecord(cmd) \in WaitingRecord
  <2>1. shown.epoch \in Nat /\ shown.epoch <= current.epoch
    BY DisplayAssumption DEF SnapshotInv, Snapshot
  <2> DEFINE a == AcceptedRecord(cmd)
  <2>2. /\ a \in MessageRecord /\ a.status = "accepted"
        /\ a.pendingRefresh => a.baseline = shown
    BY <1>1, <1>3
  <2> HIDE DEF a
  <2>3. a.pendingRefresh => /\ a.baseline.epoch <= current.epoch
                            /\ a.baseline.epoch <= shown.epoch
    BY <2>1, <2>2
  <2>4. a \in WaitingRecord
    BY <2>2, <2>3 DEF WaitingRecord
  <2> QED
    BY <2>4 DEF a
<1> QED
  BY <1>2, <1>3, <1>4

LEMMA WaitingChanged ==
  ASSUME NEW r \in WaitingRecord
  PROVE  /\ \A status \in Statuses, code \in Codes :
              /\ CompletedRecord(r, status, code) \in WaitingRecord
              /\ ~ CompletedRecord(r, status, code).pendingRefresh
         /\ ~ r.pendingRefresh =>
              /\ [r EXCEPT !.status = "failed", !.code = "interrupted"] \in WaitingRecord
              /\ ~ [r EXCEPT !.status = "failed", !.code = "interrupted"].pendingRefresh
<1>1. r \in MessageRecord /\ r \in LedgerRecord
  BY DEF WaitingRecord, MessageRecord
<1>2. ASSUME NEW status \in Statuses, NEW code \in Codes
      PROVE  /\ CompletedRecord(r, status, code) \in WaitingRecord
             /\ ~ CompletedRecord(r, status, code).pendingRefresh
  <2>1. CompletedRecord(r, status, code) \in MessageRecord
    BY <1>1, MessageChanged
  <2>2. ~ CompletedRecord(r, status, code).pendingRefresh
    BY <1>1 DEF CompletedRecord, LedgerRecord
  <2> QED
    BY <2>1, <2>2 DEF WaitingRecord
<1>3. ASSUME ~ r.pendingRefresh
      PROVE  /\ [r EXCEPT !.status = "failed", !.code = "interrupted"] \in WaitingRecord
             /\ ~ [r EXCEPT !.status = "failed", !.code = "interrupted"].pendingRefresh
  <2> DEFINE r2 == [r EXCEPT !.status = "failed", !.code = "interrupted"]
  <2>1. r2 \in MessageRecord
    BY <1>1, MessageChanged
  <2>2. ~ r2.pendingRefresh
    BY <1>1, <1>3 DEF LedgerRecord
  <2> HIDE DEF r2
  <2>3. r2 \in WaitingRecord
    BY <2>1, <2>2 DEF WaitingRecord
  <2> QED
    BY <2>2, <2>3 DEF r2
<1> QED
  BY <1>2, <1>3

\* A kind of records that new and changed ones are of, is what both ledgers hold after
\* any step.
LEMMA RecordsIn ==
  ASSUME RemoteInv, NumberInv, SnapshotInv, [Next]_vars, NEW S, S \subseteq WaitingRecord,
         ledger.records \in Seq(S), ledgerFile.records \in Seq(S),
         \A r \in WaitingRecord : ~ r.pendingRefresh => r \in S,
         downlink # << >> /\ ~ Known(Head(downlink).id) /\ Head(downlink).seq > ledger.high
           => AcceptedRecord(Head(downlink)) \in S
  PROVE  ledger'.records \in Seq(S) /\ ledgerFile'.records \in Seq(S)
<1>1. TypeInv /\ shown \in Snapshot /\ outbox \in Seq(Result)
  BY DEF RemoteInv, TypeInv, DisplayTypeOK
<1>2. /\ "accepted" \in Statuses /\ "failed" \in Statuses /\ "rejected" \in Statuses
      /\ "executed" \in Statuses
      /\ "" \in Codes /\ "state_unavailable" \in Codes /\ "out_of_order" \in Codes
  BY DEF Statuses, FinalStatuses, Codes
<1>3. \A r \in S, status \in Statuses, code \in Codes :
        CompletedRecord(r, status, code) \in S /\ ResultOf(CompletedRecord(r, status, code)) \in Result
  <2>1. ASSUME NEW r \in S, NEW status \in Statuses, NEW code \in Codes
        PROVE  CompletedRecord(r, status, code) \in S
    BY WaitingChanged
  <2>2. \A r \in S : ResultOf(r) \in Result
    BY MessageChanged DEF MessageResult, WaitingRecord
  <2> QED
    BY <2>1, <2>2
<1>4. CASE ReceiveCommand
  <2> DEFINE cmd == Head(downlink)
  <2>1. cmd \in Message /\ downlink # << >>
    BY <1>4, PartsOf DEF ReceiveCommand, NumberInv
  <2>2. Handle(cmd, cmd.id \in lapsed)
    BY <1>4, Zenon DEF ReceiveCommand
  <2>3. ~ Known(cmd.id) /\ cmd.seq > ledger.high => AcceptedRecord(cmd) \in S
    BY <2>1
  <2> HIDE DEF cmd
  <2>4. \A r \in S : ResultOf(r) \in Result
    BY MessageChanged DEF MessageResult, WaitingRecord
  <2>5. /\ cmd \in Command
        /\ \A status \in Statuses, code \in Codes :
             NewRecord(cmd, status, code) \in S /\ ReplyTo(cmd, status, code) \in Result
    <3>1. \A status \in Statuses, code \in Codes :
            /\ NewRecord(cmd, status, code) \in WaitingRecord
            /\ ~ NewRecord(cmd, status, code).pendingRefresh
            /\ ReplyTo(cmd, status, code) \in Result
      BY <1>1, <2>1, WaitingMade, MessageMade DEF NewRecord, MessageResult
    <3> QED
      BY <2>1, <3>1 DEF Message
  <2>6. \A v \in Verdicts(cmd, cmd.id \in lapsed) \ {Valid} :
          NewRecord(cmd, v[1], v[2]) \in S /\ ReplyTo(cmd, v[1], v[2]) \in Result
    BY <2>5, VerdictType
  <2> QED
    BY <1>1, <1>2, <2>2, <2>3, <2>4, <2>5, <2>6, HandleIn
<1>5. CASE Complete
  <2>1. /\ busy.cmd \in Message /\ busy.status \in Statuses /\ busy.code \in Codes
    BY <1>1, <1>5, BusyType DEF Complete, NumberInv, Statuses
  <2>2. \A r \in S : CompletedRecord(r, busy.status, busy.code) \in S
    BY <1>3, <2>1
  <2>3. \A status \in Statuses, code \in Codes : ReplyTo(busy.cmd, status, code) \in Result
    BY <1>1, <2>1, MessageMade DEF MessageResult
  <2> QED
    BY <1>1, <1>2, <1>5, <2>1, <2>2, <2>3, CompleteIn
<1>6. CASE CompleteRefresh
  BY <1>1, <1>2, <1>3, <1>6, CompleteRefreshIn
<1>7. CASE RestartDisplay
  <2>1. \A r \in S : r.status = "accepted" /\ ~ r.pendingRefresh =>
          [r EXCEPT !.status = "failed", !.code = "interrupted"] \in S
    BY WaitingChanged
  <2>2. Restart
    BY <1>7, Zenon DEF RestartDisplay
  <2> QED
    BY <1>1, <2>1, <2>2, RestartIn
<1>8. CASE UNCHANGED <<ledger, ledgerFile>>
  BY <1>8
<1> QED
  BY <1>4, <1>5, <1>6, <1>7, <1>8, LedgerCases, Zenon

\* The marks: what a ledger accepts raises its mark (store.go accept).
LEMMA MarkedStep ==
  ASSUME RemoteInv, NumberInv, WaitingInv, [Next]_vars
  PROVE  Marked(ledger')
<1>1. /\ TypeInv /\ ledger \in Ledger /\ ledgerFile \in Ledger
      /\ ledger.high \in Nat /\ ledgerFile.high \in Nat
      /\ Len(ledger.records) <= MaxRecords
      /\ ledger.records \in Seq(ReportRecord)
      /\ Marked(ledger) /\ Marked(ledgerFile)
  BY ProtocolAssumption DEF RemoteInv, LinkType, TypeInv, DisplayTypeOK, WithinLimit, Ledger,
                            WaitingInv
<1> DEFINE Low(h) == {r \in LedgerRecord : r.status \in {"accepted", "executed"} => r.seq <= h}
<1>2. ASSUME NEW l, l.records \in Seq(Low(l.high))
      PROVE  Marked(l)
  BY <1>2, MemberOf DEF Marked
<1>3. ASSUME NEW l \in Ledger, Marked(l)
      PROVE  l.records \in Seq(Low(l.high))
  <2>1. \A i \in DOMAIN l.records : l.records[i] \in Low(l.high)
    BY <1>3, MemberOf DEF Ledger, Marked
  <2>2. PICK n \in Nat : l.records \in [1 .. n -> LedgerRecord]
    BY DEF Ledger
  <2> HIDE DEF Low
  <2>3. l.records \in [1 .. n -> Low(l.high)]
    BY <2>1, <2>2
  <2> QED
    BY <2>3
<1>4. CASE ReceiveCommand
  <2> DEFINE cmd == Head(downlink)
  <2>1. cmd \in Command
    BY <1>4, PartsOf DEF ReceiveCommand, NumberInv, RemoteInv, LinkType
  <2>2. PICK verdict \in Verdicts(cmd, cmd.id \in lapsed) :
          Replay(cmd) \/ Refuse(cmd, verdict) \/ RefuseOutOfOrder(cmd, verdict)
            \/ Accept(cmd, verdict)
    BY <1>4, Zenon DEF ReceiveCommand, Handle
  <2> HIDE DEF cmd
  <2>3. CASE Replay(cmd)
    BY <1>1, <2>3 DEF Replay
  <2>4. ASSUME NEW status \in Statuses \ {"accepted", "executed"}, NEW code \in Codes,
               ledger' = AppendRecord(ledger, NewRecord(cmd, status, code))
        PROVE  Marked(ledger')
    <3>1. NewRecord(cmd, status, code) \in LedgerRecord
          /\ NewRecord(cmd, status, code).status = status
      BY <2>1, NewRecordType DEF NewRecord
    <3>2. NewRecord(cmd, status, code) \in Low(ledger.high)
      BY <2>4, <3>1
    <3>3. ledger.records \in Seq(Low(ledger.high))
      BY <1>1, <1>3
    <3> HIDE DEF Low
    <3>4. ledger'.records \in Seq(Low(ledger.high))
      <4> DEFINE S == Low(ledger.high)
                 r == NewRecord(cmd, status, code)
      <4>1. /\ r \in S /\ r \in LedgerRecord
            /\ ledger.records \in Seq(S) /\ ledger' = AppendRecord(ledger, r)
        BY <2>4, <3>1, <3>2, <3>3
      <4> HIDE DEF S, r
      <4>2. ledger'.records \in Seq(S)
        BY <1>1, <4>1, AppendRecordIn
      <4> QED
        BY <4>2 DEF S
    <3>5. ledger'.high = ledger.high
      BY <1>1, <2>4 DEF AppendRecord, Ledger
    <3> QED
      BY <1>2, <3>4, <3>5
  <2>5. CASE Refuse(cmd, verdict)
    <3>1. /\ ledger' = AppendRecord(ledger, NewRecord(cmd, verdict[1], verdict[2]))
          /\ verdict # Valid
      BY <2>5, Zenon DEF Refuse, SetLedger
    <3>2. verdict[1] \in Statuses \ {"accepted", "executed"} /\ verdict[2] \in Codes
      BY <3>1, VerdictReports DEF Statuses, FinalStatuses, Codes
    <3> QED
      BY <2>4, <3>1, <3>2
  <2>6. CASE RefuseOutOfOrder(cmd, verdict)
    <3>1. ledger' = AppendRecord(ledger, NewRecord(cmd, "rejected", "out_of_order"))
      BY <2>6, Zenon DEF RefuseOutOfOrder, SetLedger
    <3>2. "rejected" \in Statuses \ {"accepted", "executed"} /\ "out_of_order" \in Codes
      BY DEF Statuses, FinalStatuses, Codes
    <3> QED
      BY <2>4, <3>1, <3>2
  <2>7. CASE Accept(cmd, verdict)
    <3>1. ledger' = WithAccepted(cmd) /\ cmd.seq > ledger.high
      BY <2>7, Zenon DEF Accept, SetLedger
    <3> DEFINE r == AcceptedRecord(cmd)
               l == AppendRecord(ledger, r)
    <3>2. cmd.seq \in Nat
      BY <2>1, ProtocolAssumption DEF Command, Seqs
    <3>3. r \in LedgerRecord /\ r.seq = cmd.seq
      BY <1>1, <2>1, AcceptedRecordType DEF TypeInv, DisplayTypeOK, AcceptedRecord, NewRecord
    <3>4. r \in Low(cmd.seq)
      BY <3>2, <3>3
    <3>5. ledger.records \in Seq(Low(cmd.seq))
      <4>1. ledger.records \in Seq(Low(ledger.high))
        BY <1>1, <1>3
      <4>2. Low(ledger.high) \subseteq Low(cmd.seq)
        <5>1. \A x \in LedgerRecord : x.seq \in Nat
          BY ProtocolAssumption DEF LedgerRecord, Seqs
        <5> QED
          BY <1>1, <3>1, <3>2, <5>1
      <4> HIDE DEF Low
      <4> QED
        BY <4>1, <4>2, SeqWithin
    <3> HIDE DEF Low, r
    <3>6. l.records \in Seq(Low(cmd.seq))
      <4> DEFINE S == Low(cmd.seq)
      <4>1. r \in S /\ ledger.records \in Seq(S)
        BY <3>4, <3>5
      <4> HIDE DEF S
      <4>2. l.records \in Seq(S)
        BY <1>1, <3>3, <4>1, AppendRecordIn
      <4> QED
        BY <4>2 DEF S
    <3>7. ledger'.records = l.records /\ ledger'.high = cmd.seq
      BY <1>1, <3>1 DEF WithAccepted, AppendRecord, Ledger, r
    <3> QED
      BY <1>2, <3>6, <3>7
  <2> QED
    BY <2>2, <2>3, <2>5, <2>6, <2>7
<1>5. ASSUME NEW l \in Ledger, l.records \in Seq(ReportRecord), Marked(l),
             ledger'.high = l.high, DOMAIN ledger'.records = DOMAIN l.records,
             \A i \in DOMAIN l.records :
               \/ ledger'.records[i] = l.records[i]
               \/ /\ l.records[i].status = "accepted"
                  /\ ledger'.records[i].seq = l.records[i].seq
      PROVE  Marked(ledger')
  BY <1>5 DEF Marked
<1>6. CASE Complete
  <2>1. ledger' = WithCompleted(ledger, busy.cmd.id, busy.status, busy.code)
    BY <1>6, Zenon DEF Complete, SetLedger
  <2>2. \A i \in DOMAIN ledger.records : ~ Final(ledger.records[i].status) =>
          /\ ledger.records[i].status = "accepted" /\ ledger.records[i] \in LedgerRecord
    <3>1. \A i \in DOMAIN ledger.records : ledger.records[i] \in ReportRecord
      BY <1>1, MemberOf
    <3> QED
      BY <3>1 DEF ReportRecord, Reports, Final, FinalStatuses
  <2>3. \A r \in LedgerRecord : CompletedRecord(r, busy.status, busy.code).seq = r.seq
    BY DEF CompletedRecord, LedgerRecord
  <2>4. /\ ledger'.high = ledger.high /\ DOMAIN ledger'.records = DOMAIN ledger.records
        /\ \A i \in DOMAIN ledger.records :
             \/ ledger'.records[i] = ledger.records[i]
             \/ /\ ~ Final(ledger.records[i].status)
                /\ ledger'.records[i] = CompletedRecord(ledger.records[i], busy.status, busy.code)
    BY <1>1, <2>1 DEF WithCompleted, Ledger
  <2> QED
    BY <1>1, <1>5, <2>2, <2>3, <2>4
<1>7. CASE CompleteRefresh
  <2>1. PICK i \in Answered(ledger, shown) :
          ledger' = [ledger EXCEPT !.records[i] = CompletedRecord(@, "executed", "")]
    BY <1>7, Zenon DEF CompleteRefresh, SetLedger
  <2>2. /\ i \in DOMAIN ledger.records /\ ledger.records[i].status = "accepted"
        /\ ledger.records[i] \in LedgerRecord
    BY <1>1, <2>1, MemberOf DEF Answered, Answers, Ledger
  <2>3. CompletedRecord(ledger.records[i], "executed", "").seq = ledger.records[i].seq
    BY <2>2 DEF CompletedRecord, LedgerRecord
  <2>4. /\ ledger'.high = ledger.high /\ DOMAIN ledger'.records = DOMAIN ledger.records
        /\ ledger'.records[i] = CompletedRecord(ledger.records[i], "executed", "")
        /\ \A j \in DOMAIN ledger.records : j # i => ledger'.records[j] = ledger.records[j]
    BY <1>1, <2>1, <2>2 DEF Ledger
  <2> QED
    BY <1>1, <1>5, <2>2, <2>3, <2>4
<1>8. CASE RestartDisplay
  <2>1. PICK opened \in Opened : ledger' = opened
    BY <1>8, Zenon DEF RestartDisplay, Restart
  <2>2. CASE ledger' = EmptyLedger
    BY <2>2 DEF EmptyLedger, Marked
  <2>3. CASE ledger' = WithInterrupted(ledgerFile)
    <3>1. \A i \in DOMAIN ledgerFile.records : ledgerFile.records[i] \in LedgerRecord
      BY <1>1, MemberOf DEF Ledger
    <3>2. \A r \in LedgerRecord : [r EXCEPT !.status = "failed", !.code = "interrupted"].seq = r.seq
      BY DEF LedgerRecord
    <3>3. /\ ledger'.high = ledgerFile.high
          /\ DOMAIN ledger'.records = DOMAIN ledgerFile.records
          /\ \A i \in DOMAIN ledgerFile.records :
               \/ ledger'.records[i] = ledgerFile.records[i]
               \/ /\ ledgerFile.records[i].status = "accepted"
                  /\ ledger'.records[i]
                       = [ledgerFile.records[i] EXCEPT !.status = "failed", !.code = "interrupted"]
      BY <1>1, <2>3 DEF WithInterrupted, Ledger
    <3>4. ledgerFile.records \in Seq(ReportRecord)
      BY DEF RemoteInv, LinkType
    <3> QED
      BY <1>1, <1>5, <3>1, <3>2, <3>3, <3>4
  <2> QED
    BY <2>1, <2>2, <2>3 DEF Opened
<1>9. CASE UNCHANGED <<ledger, ledgerFile>>
  BY <1>1, <1>9 DEF Marked
<1> QED
  BY <1>4, <1>6, <1>7, <1>8, <1>9, LedgerCases, Zenon

LEMMA SeqOf ==
  ASSUME NEW T, NEW q \in Seq(T), NEW S, \A i \in DOMAIN q : q[i] \in S
  PROVE  q \in Seq(S)
<1>1. PICK n \in Nat : q \in [1 .. n -> T]
  OBVIOUS
<1>2. q \in [1 .. n -> S]
  BY <1>1
<1> QED
  BY <1>2

\* A snapshot no older than what a refresh waits since stays one: a start shows what was
\* saved, and nothing older than what was shown was.
LEMMA WaitingStays ==
  ASSUME RemoteInv, RemoteInv', "bus_corrupt" \notin Faults, NumberInv, SnapshotInv, SnapshotInv',
         "snap_write" \notin Faults \/ MaxEpoch <= 1, [Next]_vars
  PROVE  WaitingRecord \subseteq WaitingRecord'
<1>1. /\ current \in Snapshot /\ current' \in Snapshot
      /\ shown \in Snapshot /\ shown' \in Snapshot
  BY DEF RemoteInv, LinkType, TypeInv, DisplayTypeOK
<1>2. \A s \in Snapshot : s.epoch \in Nat /\ s.epoch <= MaxEpoch
  BY DisplayAssumption DEF Snapshot
<1>3. MaxEpoch \in Nat
  BY DisplayAssumption
<1>4. MessageRecord \subseteq MessageRecord'
  BY NumberStep
<1>5. ASSUME NEW e \in Nat, e <= MaxEpoch, e <= current.epoch,
             shown # NoSnapshot => e <= shown.epoch
      PROVE  e <= current'.epoch /\ (shown' # NoSnapshot => e <= shown'.epoch)
  <2>1. /\ current.epoch \in Nat /\ current'.epoch \in Nat
        /\ shown.epoch \in Nat /\ shown'.epoch \in Nat
        /\ current.epoch <= current'.epoch
    BY <1>1, <1>2, ShownCases
  <2>2. e <= current'.epoch
    BY <1>5, <2>1
  <2>3. CASE shown' = shown
    BY <1>5, <2>2, <2>3
  <2>4. CASE shown' = current
    BY <1>5, <2>2, <2>4
  <2>5. CASE shown' = lastGood
    <3>1. CASE "snap_write" \notin Faults
      <4>1. lastGood = shown
        BY <3>1 DEF SnapshotInv
      <4> QED
        BY <2>3, <2>5, <4>1
    <3>2. CASE MaxEpoch <= 1
      <4>1. shown' # NoSnapshot => shown'.epoch >= 1
        BY DEF SnapshotInv
      <4> QED
        BY <1>3, <1>5, <2>1, <2>2, <3>2, <4>1
    <3> QED
      BY <3>1, <3>2
  <2> QED
    BY <1>1, <2>3, <2>4, <2>5, ShownCases
<1>6. ASSUME NEW r \in WaitingRecord
      PROVE  r \in WaitingRecord'
  <2>1. r \in MessageRecord' /\ r.baseline.epoch \in Nat /\ r.baseline.epoch <= MaxEpoch
    BY <1>2, <1>4 DEF WaitingRecord, MessageRecord, LedgerRecord
  <2>2. r.pendingRefresh =>
          /\ r.status = "accepted"
          /\ r.baseline.epoch <= current'.epoch
          /\ shown' # NoSnapshot => r.baseline.epoch <= shown'.epoch
    BY <1>5, <2>1 DEF WaitingRecord
  <2> QED
    BY <2>1, <2>2 DEF WaitingRecord
<1> QED
  BY <1>6

\* No refresh waits in memory that the file says is executed.
LEMMA WaitsNotExecuted ==
  ASSUME RemoteInv, NumberInv, UniqueRecords, UniqueRecords', WaitingInv, [Next]_vars,
         ledger'.records \in Seq(WaitingRecord)
  PROVE  (\A i \in DOMAIN ledger.records, j \in DOMAIN ledgerFile.records, c \in Ids :
            ~ (Waits(ledger.records[i], c) /\ Executed(ledgerFile.records[j], c)))'
<1>1. CASE ledgerFile' = ledger'
  <2> SUFFICES ASSUME NEW i \in DOMAIN ledger'.records, NEW j \in DOMAIN ledger'.records,
                      NEW c, Waits(ledger'.records[i], c), Executed(ledger'.records[j], c)
               PROVE  FALSE
    BY <1>1 DEF Waits, Executed
  <2>1. i = j
    BY DEF Waits, Executed, UniqueRecords, Uniq
  <2>2. ledger'.records[i] \in WaitingRecord
    BY MemberOf
  <2> QED
    BY <2>1, <2>2 DEF Waits, Executed, WaitingRecord
<1>2. CASE ledgerFile' = ledgerFile
  <2> DEFINE S == {r \in WaitingRecord : r.pendingRefresh =>
                     \A j \in DOMAIN ledgerFile.records : ~ Executed(ledgerFile.records[j], r.id)}
  <2>1. /\ ledger.records \in Seq(WaitingRecord) /\ ledgerFile.records \in Seq(WaitingRecord)
        /\ SnapshotInv
    BY DEF WaitingInv
  <2>2. \A r \in WaitingRecord : r.id \in Ids
    BY DEF WaitingRecord, MessageRecord, LedgerRecord
  <2>3. ledger.records \in Seq(S)
    <3>1. \A i \in DOMAIN ledger.records : ledger.records[i] \in S
      BY <2>1, <2>2, MemberOf DEF WaitingInv, Waits
    <3> HIDE DEF S
    <3> QED
      BY <2>1, <3>1, SeqOf
  <2>4. ledgerFile.records \in Seq(S)
    <3>1. ASSUME NEW i \in DOMAIN ledgerFile.records
          PROVE  ledgerFile.records[i] \in S
      <4>1. ledgerFile.records[i] \in WaitingRecord
        BY <2>1, MemberOf
      <4>2. ASSUME NEW j \in DOMAIN ledgerFile.records, ledgerFile.records[i].pendingRefresh,
                   Executed(ledgerFile.records[j], ledgerFile.records[i].id)
            PROVE  FALSE
        <5>1. i = j
          BY <4>2 DEF UniqueRecords, Uniq, Executed
        <5> QED
          BY <4>1, <4>2, <5>1 DEF Executed, WaitingRecord
      <4> QED
        BY <4>1, <4>2
    <3> HIDE DEF S
    <3> QED
      BY <2>1, <3>1, SeqOf
  <2>5. ASSUME downlink # << >>, Head(downlink).seq > ledger.high
        PROVE  AcceptedRecord(Head(downlink)) \in S
    <3> DEFINE cmd == Head(downlink)
    <3>1. cmd \in Message /\ shown \in Snapshot
      BY <2>5, PartsOf DEF NumberInv, RemoteInv, TypeInv, DisplayTypeOK
    <3>2. cmd.id \in Ids /\ cmd.seq = cmd.id /\ cmd.seq > ledger.high
      BY <2>5, <3>1 DEF Message, Command
    <3> HIDE DEF cmd
    <3>3. AcceptedRecord(cmd) \in WaitingRecord /\ AcceptedRecord(cmd).id = cmd.id
      BY <2>1, <3>1, WaitingMade DEF AcceptedRecord, NewRecord
    <3>4. ASSUME NEW j \in DOMAIN ledgerFile.records, Executed(ledgerFile.records[j], cmd.id)
          PROVE  FALSE
      <4>1. ledgerFile.records[j] \in WaitingRecord
        BY <2>1, MemberOf
      <4>2. ledgerFile.records[j].seq = cmd.id
        BY <3>4, <4>1 DEF Executed, WaitingRecord, MessageRecord
      <4>3. cmd.id <= ledgerFile.high
        BY <3>4, <4>2 DEF WaitingInv, Marked, Executed
      <4>4. /\ cmd.id \in Nat /\ ledger.high \in Nat /\ ledgerFile.high \in Nat
            /\ ledgerFile.high <= ledger.high
        BY <3>2, ProtocolAssumption DEF Ids, NumberInv, RemoteInv, TypeInv, DisplayTypeOK, Ledger
      <4> QED
        BY <3>2, <4>3, <4>4
    <3>5. AcceptedRecord(cmd) \in S
      BY <3>3, <3>4
    <3> QED
      BY <3>5 DEF cmd
  <2>6. /\ S \subseteq WaitingRecord
        /\ \A r \in WaitingRecord : ~ r.pendingRefresh => r \in S
    OBVIOUS
  <2> HIDE DEF S
  <2>7. ledger'.records \in Seq(S)
    BY <2>1, <2>3, <2>4, <2>5, <2>6, RecordsIn
  <2>8. \A i \in DOMAIN ledger'.records : ledger'.records[i] \in S
    BY <2>7, MemberOf
  <2> QED
    BY <1>2, <2>8 DEF S, Waits
<1>3. ledgerFile' \in {ledgerFile, ledger'}
  BY KnowledgeStep DEF Learns, KnowsTheSame, KnowsItsFile
<1> QED
  BY <1>1, <1>2, <1>3

\* A UI command in hand is not a refresh that waits.
LEMMA HandledDoesNotWait ==
  ASSUME RemoteInv, RemoteInv', NumberInv, WaitingInv, [Next]_vars,
         busy' # Idle, busy'.phase # "refresh"
  PROVE  (\A i \in DOMAIN ledger.records : ~ Waits(ledger.records[i], busy.cmd.id))'
<1>1. TypeInv /\ ledger \in Ledger /\ Len(ledger.records) <= MaxRecords /\ shown \in Snapshot
  BY DEF RemoteInv, TypeInv, DisplayTypeOK, WithinLimit
<1>2. CASE busy' = busy
  <2>1. CASE ReceiveCommand
    <3>1. busy = Idle
      BY <2>1, Zenon DEF ReceiveCommand, Handle
    <3> QED
      BY <1>2, <3>1
  <2>2. CASE Complete
    <3>1. busy' = Idle
      BY <2>2, Zenon DEF Complete
    <3> QED
      BY <3>1
  <2>3. CASE CompleteRefresh
    <3>1. busy.phase = "refresh"
      BY <2>3, Zenon DEF CompleteRefresh
    <3> QED
      BY <1>2, <3>1
  <2>4. CASE RestartDisplay
    <3>1. \E opened : busy' = Refreshing(opened, lastGood, FALSE)
      BY <2>4, Zenon DEF RestartDisplay, Restart
    <3> QED
      BY <3>1 DEF Refreshing
  <2>5. CASE UNCHANGED <<ledger, ledgerFile>>
    BY <1>2, <2>5 DEF WaitingInv
  <2> QED
    BY <2>1, <2>2, <2>3, <2>4, <2>5, LedgerCases
<1>3. CASE /\ ReceiveCommand
           /\ busy' = [phase |-> "apply", cmd |-> Head(downlink),
                       status |-> "executed", code |-> ""]
           /\ \E verdict : Accept(Head(downlink), verdict)
           /\ Head(downlink).kind # "refresh"
           /\ ledger' = WithAccepted(Head(downlink))
  <2> DEFINE cmd == Head(downlink)
             r == AcceptedRecord(cmd)
             S == {x \in LedgerRecord : ~ Waits(x, cmd.id)}
  <2>1. /\ cmd \in Command /\ ~ Known(cmd.id) /\ cmd.kind # "refresh" /\ busy'.cmd = cmd
        /\ ledger' = WithAccepted(cmd)
    BY <1>3, PartsOf DEF Accept, ReceiveCommand, RemoteInv, LinkType
  <2> HIDE DEF cmd
  <2>2. r \in LedgerRecord /\ ~ r.pendingRefresh
    BY <1>1, <2>1, AcceptedRecordType DEF AcceptedRecord, NewRecord
  <2>3. \A i \in DOMAIN ledger.records : ledger.records[i] \in S
    BY <1>1, <2>1, MemberOf DEF Ledger, Known, Waits
  <2>4. r \in S
    BY <2>2 DEF Waits
  <2>5. ledger.records \in Seq(LedgerRecord)
    BY <1>1 DEF Ledger
  <2>6. ledger'.records = AppendRecord(ledger, r).records
    BY <1>1, <2>1 DEF WithAccepted, AppendRecord, Ledger
  <2> HIDE DEF S, r
  <2>7. ledger.records \in Seq(S)
    BY <2>3, <2>5, SeqOf
  <2>8. ledger'.records \in Seq(S)
    BY <1>1, <2>2, <2>4, <2>6, <2>7, AppendRecordIn
  <2>9. \A i \in DOMAIN ledger'.records : ledger'.records[i] \in S
    BY <2>8, MemberOf
  <2> QED
    BY <2>1, <2>9 DEF S, Waits
<1>4. CASE Apply
  <2>1. busy # Idle /\ busy.phase = "apply" /\ ledger' = ledger
    BY <1>4 DEF Apply
  <2>2. busy \in [phase : {"apply", "complete"}, cmd : Command, status : FinalStatuses,
                  code : Codes]
    BY <1>1, <2>1 DEF TypeInv, DisplayTypeOK, Busy
  <2>3. busy'.cmd = busy.cmd
    BY <1>4, <2>2 DEF Apply
  <2> QED
    BY <2>1, <2>3 DEF WaitingInv, Waits
<1> QED
  BY <1>2, <1>3, <1>4, BusyCases, Zenon

LEMMA WaitingStep ==
  ASSUME RemoteInv, RemoteInv', "bus_corrupt" \notin Faults, NumberInv,
         UniqueRecords, UniqueRecords', WaitingInv,
         "snap_write" \notin Faults \/ MaxEpoch <= 1, [Next]_vars
  PROVE  WaitingInv'
<1>1. SnapshotInv /\ SnapshotInv'
  BY SnapshotStep DEF WaitingInv
<1>2. ledger'.records \in Seq(WaitingRecord) /\ ledgerFile'.records \in Seq(WaitingRecord)
  <2>1. downlink # << >> => AcceptedRecord(Head(downlink)) \in WaitingRecord
    BY <1>1, PartsOf, WaitingMade DEF NumberInv, RemoteInv, TypeInv, DisplayTypeOK
  <2> DEFINE S == WaitingRecord
  <2>2. /\ S \subseteq WaitingRecord /\ \A r \in WaitingRecord : ~ r.pendingRefresh => r \in S
        /\ downlink # << >> => AcceptedRecord(Head(downlink)) \in S
        /\ ledger.records \in Seq(S) /\ ledgerFile.records \in Seq(S)
    BY <2>1 DEF WaitingInv
  <2> HIDE DEF S
  <2>3. ledger'.records \in Seq(S) /\ ledgerFile'.records \in Seq(S)
    BY <1>1, <2>2, RecordsIn
  <2> QED
    BY <2>3 DEF S
<1>3. ledger'.records \in Seq(WaitingRecord') /\ ledgerFile'.records \in Seq(WaitingRecord')
  BY <1>1, <1>2, WaitingStays, SeqWithin
<1>4. Marked(ledger)' /\ Marked(ledgerFile)'
  <2>1. Marked(ledger')
    BY MarkedStep
  <2>2. ledgerFile' \in {ledgerFile, ledger'}
    BY KnowledgeStep DEF Learns, KnowsTheSame, KnowsItsFile
  <2> QED
    BY <2>1, <2>2 DEF Marked, WaitingInv
<1> QED
  BY <1>1, <1>2, <1>3, <1>4, WaitsNotExecuted, HandledDoesNotWait DEF WaitingInv

LEMMA WaitingInit == Init => WaitingInv
<1> SUFFICES ASSUME Init
             PROVE  WaitingInv
  OBVIOUS
<1>1. /\ busy = Idle /\ shown = NoSnapshot /\ lastGood = NoSnapshot
      /\ ledger = EmptyLedger /\ ledgerFile = EmptyLedger
      /\ current = [epoch |-> 1, version |-> 0]
  BY DEF Init, DisplayInit
<1>2. SnapshotInv
  BY <1>1 DEF SnapshotInv, NoSnapshot
<1> QED
  BY <1>1, <1>2, ShortSeq DEF WaitingInv, EmptyLedger, Marked

\* A refresh that ends as executed has seen a newer snapshot.
LEMMA RefreshStep ==
  ASSUME RemoteInv, NumberInv, UniqueRecords, WaitingInv, [Next]_vars,
         NEW i \in DOMAIN ledger.records, NEW j \in DOMAIN ledger'.records,
         ledger.records[i].id = ledger'.records[j].id,
         ledger.records[i].pendingRefresh, ledger'.records[j].status = "executed"
  PROVE  NewerThan(shown', ledger.records[i].baseline)
<1> DEFINE r == ledger.records[i]
<1>1. /\ TypeInv /\ ledger \in Ledger /\ Len(ledger.records) <= MaxRecords /\ shown \in Snapshot
      /\ outbox \in Seq(Result)
  BY DEF RemoteInv, TypeInv, DisplayTypeOK, WithinLimit
<1>2. r \in WaitingRecord /\ r \in LedgerRecord /\ r.id \in Ids
  BY MemberOf DEF WaitingInv, WaitingRecord, MessageRecord, LedgerRecord
<1>3. CASE CompleteRefresh
  <2>1. PICK k \in Answered(ledger, shown) :
          ledger' = [ledger EXCEPT !.records[k] = CompletedRecord(@, "executed", "")]
    BY <1>3, Zenon DEF CompleteRefresh, SetLedger
  <2>2. shown' = shown /\ busy # Idle /\ busy.phase = "refresh"
    BY <1>3, Zenon DEF CompleteRefresh
  <2>3. k \in DOMAIN ledger.records /\ Answers(shown, ledger.records[k])
    BY <2>1 DEF Answered
  <2>4. /\ DOMAIN ledger'.records = DOMAIN ledger.records
        /\ ledger'.records[k] = CompletedRecord(ledger.records[k], "executed", "")
        /\ \A x \in DOMAIN ledger.records : x # k => ledger'.records[x] = ledger.records[x]
    BY <1>1, <2>1, <2>3 DEF Ledger
  <2>5. CASE j # k
    <3>1. j \in DOMAIN ledger.records /\ ledger'.records[j] = ledger.records[j]
      BY <2>4, <2>5
    <3>2. j = i
      BY <3>1 DEF UniqueRecords, Uniq
    <3> QED
      BY <1>2, <3>1, <3>2 DEF WaitingRecord
  <2>6. CASE j = k
    <3>1. ledger.records[k] \in LedgerRecord
      BY <1>1, <2>3, MemberOf DEF Ledger
    <3>2. ledger'.records[j].id = ledger.records[k].id
      BY <2>4, <2>6, <3>1 DEF CompletedRecord, LedgerRecord
    <3>3. i = k
      BY <2>3, <3>2 DEF UniqueRecords, Uniq
    <3>4. Advanced(shown, r.baseline)
      BY <2>3, <3>3 DEF Answers
    <3>5. /\ shown.epoch \in Nat /\ r.baseline.epoch \in Nat
          /\ r.baseline.epoch <= shown.epoch
      BY <1>1, <1>2, <2>2, DisplayAssumption
         DEF WaitingInv, SnapshotInv, WaitingRecord, LedgerRecord, Snapshot
    <3> QED
      BY <2>2, <3>4, <3>5 DEF Advanced, NewerThan
  <2> QED
    BY <2>5, <2>6
<1>4. CASE ~ CompleteRefresh
  <2> DEFINE S == {x \in LedgerRecord : ~ Executed(x, r.id)}
  <2>1. ASSUME NEW x \in DOMAIN ledger.records
        PROVE  ledger.records[x] \in S
    <3>1. ledger.records[x] \in LedgerRecord
      BY <1>1, MemberOf DEF Ledger
    <3>2. ~ Executed(ledger.records[x], r.id)
      BY <1>2 DEF Executed, UniqueRecords, Uniq, WaitingRecord
    <3> QED
      BY <3>1, <3>2
  <2>2. ASSUME NEW x \in DOMAIN ledgerFile.records
        PROVE  ledgerFile.records[x] \in S
    <3>1. ledgerFile.records[x] \in LedgerRecord
      BY <1>1, MemberOf DEF TypeInv, DisplayTypeOK, Ledger
    <3>2. ~ Executed(ledgerFile.records[x], r.id)
      BY <1>2 DEF WaitingInv, Waits
    <3> QED
      BY <3>1, <3>2
  <2>3. ledger.records \in Seq(LedgerRecord) /\ ledgerFile.records \in Seq(LedgerRecord)
    BY <1>1 DEF TypeInv, DisplayTypeOK, Ledger
  <2>4. ledger.records \in Seq(S) /\ ledgerFile.records \in Seq(S)
    <3> HIDE DEF S
    <3> QED
      BY <2>1, <2>2, <2>3, SeqOf
  <2>5. \A x \in LedgerRecord : x.status # "executed" => x \in S
    BY DEF Executed
  <2>6. CASE ReceiveCommand
    <3> DEFINE cmd == Head(downlink)
    <3>1. cmd \in Command
      BY <2>6, PartsOf DEF ReceiveCommand, RemoteInv, LinkType
    <3>2. Handle(cmd, cmd.id \in lapsed)
      BY <2>6, Zenon DEF ReceiveCommand
    <3> HIDE DEF cmd, S
    <3>3. /\ "accepted" \in Statuses /\ "failed" \in Statuses /\ "rejected" \in Statuses
          /\ "" \in Codes /\ "state_unavailable" \in Codes /\ "out_of_order" \in Codes
      BY DEF Statuses, FinalStatuses, Codes
    <3>4. \A status \in Statuses, code \in Codes :
            /\ NewRecord(cmd, status, code) \in LedgerRecord
            /\ NewRecord(cmd, status, code).status = status
            /\ ReplyTo(cmd, status, code) \in Result
      BY <3>1, NewRecordType DEF NewRecord, ReplyTo, Result, Command
    <3>5. AcceptedRecord(cmd) \in LedgerRecord /\ AcceptedRecord(cmd).status = "accepted"
      BY <1>1, <3>1, AcceptedRecordType DEF AcceptedRecord, NewRecord
    <3>6. \A v \in Verdicts(cmd, cmd.id \in lapsed) \ {Valid} :
            NewRecord(cmd, v[1], v[2]) \in S /\ ReplyTo(cmd, v[1], v[2]) \in Result
      <4>1. \A v \in Verdicts(cmd, cmd.id \in lapsed) \ {Valid} :
              v[1] \in Statuses /\ v[2] \in Codes /\ v[1] # "executed"
        BY <3>1, VerdictReports DEF Statuses, FinalStatuses, Codes
      <4> QED
        BY <2>5, <3>4, <4>1
    <3>7. NewRecord(cmd, "rejected", "out_of_order") \in S /\ AcceptedRecord(cmd) \in S
      BY <2>5, <3>3, <3>4, <3>5
    <3>8. \A x \in S : ResultOf(x) \in Result
      BY DEF S, ResultOf, Result, LedgerRecord
    <3>9. ledger'.records \in Seq(S)
      BY <1>1, <2>4, <3>1, <3>2, <3>3, <3>4, <3>6, <3>7, <3>8, HandleIn
    <3> QED
      BY <3>9, MemberOf DEF S, Executed
  <2>7. CASE Complete
    <3>1. /\ busy # Idle /\ busy.phase = "complete" /\ busy.cmd \in Command
          /\ busy.status \in FinalStatuses /\ busy.code \in Codes
      BY <1>1, <2>7, BusyType DEF Complete
    <3>2. r.id # busy.cmd.id
      BY <3>1 DEF WaitingInv, Waits
    <3>3. /\ "accepted" \in Statuses /\ "failed" \in Statuses /\ busy.status \in Statuses
          /\ "" \in Codes /\ "state_unavailable" \in Codes
      BY <3>1 DEF Statuses, FinalStatuses, Codes
    <3>4. ASSUME NEW x \in S, x.id = busy.cmd.id
          PROVE  CompletedRecord(x, busy.status, busy.code) \in S
      <4>1. /\ CompletedRecord(x, busy.status, busy.code) \in LedgerRecord
            /\ CompletedRecord(x, busy.status, busy.code).id = x.id
        BY <3>1, <3>3, CompletedRecordType DEF CompletedRecord, LedgerRecord
      <4> QED
        BY <3>2, <3>4, <4>1 DEF Executed
    <3>5. \A status \in Statuses, code \in Codes : ReplyTo(busy.cmd, status, code) \in Result
      BY <3>1 DEF ReplyTo, Result, Command
    <3> HIDE DEF S
    <3>6. ledger'.records \in Seq(S)
      BY <1>1, <2>4, <2>7, <3>1, <3>3, <3>4, <3>5, CompleteIn
    <3> QED
      BY <3>6, MemberOf DEF S, Executed
  <2>8. CASE RestartDisplay
    <3>1. Restart
      BY <2>8, Zenon DEF RestartDisplay
    <3>2. ASSUME NEW x \in S
          PROVE  [x EXCEPT !.status = "failed", !.code = "interrupted"] \in S
      <4> DEFINE x2 == [x EXCEPT !.status = "failed", !.code = "interrupted"]
      <4>1. x2 \in LedgerRecord /\ x2.status = "failed"
        BY DEF LedgerRecord, Statuses, FinalStatuses, Codes
      <4> HIDE DEF x2
      <4>2. x2 \in S
        BY <2>5, <4>1
      <4> QED
        BY <4>2 DEF x2
    <3> HIDE DEF S
    <3>3. ledger'.records \in Seq(S)
      BY <1>1, <2>4, <3>1, <3>2, RestartIn
    <3> QED
      BY <3>3, MemberOf DEF S, Executed
  <2>9. CASE UNCHANGED <<ledger, ledgerFile>>
    BY <2>1, <2>9 DEF Executed
  <2> QED
    BY <1>4, <2>6, <2>7, <2>8, <2>9, LedgerCases, Zenon
<1> QED
  BY <1>3, <1>4

\* A refresh is executed only by a snapshot newer than the one that was shown when it
\* was accepted, over any reconnects, failed writes and restarts of both programs
\* (store.go accept, controller.go SnapshotApplied): as long as the queue file can be
\* read, and every snapshot is saved or the daemon never starts again.
THEOREM RefreshesSeeNewer ==
  ASSUME "bus_corrupt" \notin Faults, "snap_write" \notin Faults \/ MaxEpoch <= 1
  PROVE  Spec => RefreshSeesNewer
<1>1. /\ RemoteInv /\ RemoteInv' /\ NumberInv /\ UniqueRecords /\ UniqueRecords' /\ WaitingInv
      /\ [Next]_vars
      => WaitingInv'
  BY WaitingStep
<1>2. Spec => []WaitingInv
  BY <1>1, WaitingInit, RemoteInvariance, NumberInvariance, UniqueInvariance, PTL DEF Spec
<1>3. /\ RemoteInv /\ NumberInv /\ UniqueRecords /\ WaitingInv /\ [Next]_vars
      => [\A i \in DOMAIN ledger.records, j \in DOMAIN ledger'.records :
            (/\ ledger.records[i].id = ledger'.records[j].id
             /\ ledger.records[i].pendingRefresh
             /\ ledger'.records[j].status = "executed")
              => NewerThan(shown', ledger.records[i].baseline)]_vars
  BY RefreshStep
<1> QED
  BY <1>2, <1>3, RemoteInvariance, NumberInvariance, UniqueInvariance, PTL
     DEF Spec, RefreshSeesNewer

=============================================================================
