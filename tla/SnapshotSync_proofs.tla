------------------------ MODULE SnapshotSync_proofs -------------------------
(***************************************************************************)
(* Theorems about SnapshotSync, for any number of daemon starts, versions  *)
(* and messages on the wire: types, and that data only moves forward.      *)
(*                                                                         *)
(* The argument: what a connection carries is all of the daemon's present  *)
(* epoch and below lastSent, and whatever lies between the file and the    *)
(* state stands in order.  FlowsForward alone is not inductive: that the   *)
(* next snapshot is newer than those on the wire follows from lastSent.    *)
(***************************************************************************)
EXTENDS SnapshotSync, SequenceTheorems, TLAPS

\* s is not newer than t.
NotAfter(s, t) == ~ Before(t, s)

\* What the pump knows of the wire.
PumpInv ==
  /\ ~ session => wire = << >> /\ peeked = NoSnapshot
  /\ wire # << >> => sentAny
  /\ \A i \in DOMAIN wire : wire[i].epoch = state.epoch /\ wire[i].version <= lastSent
  /\ peeked # NoSnapshot => peeked.epoch = state.epoch

\* The stations of a snapshot on its way stand in order.
FlowInv ==
  /\ NotAfter(lastGood, shown)
  /\ NotAfter(shown, state)
  /\ peeked # NoSnapshot => NotAfter(shown, peeked) /\ NotAfter(peeked, state)
  /\ \A i \in DOMAIN wire :
       /\ NotAfter(shown, wire[i])
       /\ NotAfter(wire[i], state)
       /\ peeked # NoSnapshot => NotAfter(wire[i], peeked)
  /\ \A i, j \in DOMAIN wire : i < j => Before(wire[i], wire[j])

SyncInv ==
  /\ SyncTypeOK
  /\ state.epoch > 0
  /\ PumpInv
  /\ FlowInv

-----------------------------------------------------------------------------
(* The order. *)

LEMMA SnapshotType ==
  /\ NoSnapshot \in Snapshot
  /\ \A s \in Snapshot :
       /\ s = [epoch |-> s.epoch, version |-> s.version, filled |-> s.filled]
       /\ s.epoch \in Nat /\ s.version \in Nat
       /\ s.epoch <= MaxEpoch /\ s.version <= MaxVersion /\ s.filled \in BOOLEAN
BY SyncAssumption DEF Snapshot, NoSnapshot

LEMMA OrderFacts ==
  ASSUME NEW s \in Snapshot, NEW t \in Snapshot, NEW u \in Snapshot
  PROVE  /\ NotAfter(s, s)
         /\ NotAfter(s, t) /\ NotAfter(t, u) => NotAfter(s, u)
         /\ Before(s, t) => NotAfter(s, t)
         /\ NotAfter(NoSnapshot, s)
<1>1. /\ s.epoch \in Nat /\ s.version \in Nat
      /\ t.epoch \in Nat /\ t.version \in Nat
      /\ u.epoch \in Nat /\ u.version \in Nat
  BY SnapshotType
<1>2. NoSnapshot.epoch = 0 /\ NoSnapshot.version = 0
  BY DEF NoSnapshot
<1> QED
  BY <1>1, <1>2 DEF NotAfter, Before

\* Sequences of snapshots in order, and bounded by one.
Sorted(s) == \A i, j \in DOMAIN s : i < j => NotAfter(s[i], s[j])

UpTo(s, x) == \A i \in DOMAIN s : NotAfter(s[i], x)

LEMMA ConcatOrder ==
  ASSUME NEW s \in Seq(Snapshot), NEW t \in Seq(Snapshot), NEW x,
         Sorted(s), Sorted(t), \A j \in DOMAIN t : UpTo(s, t[j]),
         UpTo(s, x), UpTo(t, x)
  PROVE  /\ s \o t \in Seq(Snapshot)
         /\ Sorted(s \o t)
         /\ UpTo(s \o t, x)
<1> DEFINE st == s \o t
<1>1. /\ st \in Seq(Snapshot)
      /\ Len(st) = Len(s) + Len(t)
      /\ \A i \in 1 .. Len(s) + Len(t) : st[i] = IF i <= Len(s) THEN s[i] ELSE t[i - Len(s)]
  BY ConcatProperties
<1>2. /\ DOMAIN st = 1 .. Len(st) /\ DOMAIN s = 1 .. Len(s) /\ DOMAIN t = 1 .. Len(t)
      /\ Len(s) \in Nat /\ Len(t) \in Nat /\ Len(st) \in Nat
  BY <1>1
<1>3. ASSUME NEW i \in DOMAIN st
      PROVE  \/ i \in DOMAIN s /\ st[i] = s[i]
             \/ i - Len(s) \in DOMAIN t /\ st[i] = t[i - Len(s)] /\ i > Len(s)
  BY <1>1, <1>2
<1>4. UpTo(st, x)
  BY <1>3 DEF UpTo
<1>5. ASSUME NEW i \in DOMAIN st, NEW j \in DOMAIN st, i < j
      PROVE  NotAfter(st[i], st[j])
  <2>1. CASE j \in DOMAIN s /\ st[j] = s[j]
    <3>1. i \in DOMAIN s /\ st[i] = s[i]
      BY <1>1, <1>2, <1>5, <2>1
    <3> QED
      BY <1>5, <2>1, <3>1 DEF Sorted
  <2>2. CASE j - Len(s) \in DOMAIN t /\ st[j] = t[j - Len(s)] /\ j > Len(s)
    <3>1. CASE i \in DOMAIN s /\ st[i] = s[i]
      BY <2>2, <3>1 DEF UpTo
    <3>2. CASE i - Len(s) \in DOMAIN t /\ st[i] = t[i - Len(s)] /\ i > Len(s)
      <4>1. i - Len(s) < j - Len(s)
        BY <1>2, <1>5
      <4> QED
        BY <2>2, <3>2, <4>1 DEF Sorted
    <3> QED
      BY <1>3, <3>1, <3>2
  <2> QED
    BY <1>3, <2>1, <2>2
<1> QED
  BY <1>1, <1>4, <1>5 DEF Sorted

\* FlowsForward is the flow of the invariant, said of one sequence.
LEMMA FlowIsForward ==
  ASSUME SyncTypeOK, FlowInv
  PROVE  FlowsForward
<1> DEFINE held == <<lastGood, shown>>
           on   == held \o wire
           pump == IF peeked = NoSnapshot THEN << >> ELSE <<peeked>>
<1> USE DEF SyncTypeOK
<1>1. held \in Seq(Snapshot) /\ Sorted(held) /\ UpTo(held, state)
  BY OrderFacts DEF FlowInv, Sorted, UpTo
<1>2. wire \in Seq(Snapshot) /\ Sorted(wire) /\ UpTo(wire, state)
  <2>1. \A i \in DOMAIN wire : wire[i] \in Snapshot
    OBVIOUS
  <2> QED
    BY <2>1, OrderFacts DEF FlowInv, Sorted, UpTo
<1>3. \A j \in DOMAIN wire : UpTo(held, wire[j])
  <2> SUFFICES ASSUME NEW j \in DOMAIN wire
               PROVE  NotAfter(lastGood, wire[j]) /\ NotAfter(shown, wire[j])
    BY DEF UpTo
  <2>1. wire[j] \in Snapshot
    OBVIOUS
  <2> QED
    BY <2>1, OrderFacts DEF FlowInv
<1>4. on \in Seq(Snapshot) /\ Sorted(on) /\ UpTo(on, state)
  BY <1>1, <1>2, <1>3, ConcatOrder
<1>5. peeked # NoSnapshot => UpTo(on, peeked)
  <2> SUFFICES ASSUME peeked # NoSnapshot
               PROVE  UpTo(on, peeked)
    OBVIOUS
  <2>1. UpTo(held, peeked) /\ UpTo(wire, peeked)
    BY OrderFacts DEF FlowInv, UpTo
  <2> QED
    BY <1>1, <1>2, <1>3, <2>1, ConcatOrder
<1>6. pump \in Seq(Snapshot) /\ Sorted(pump) /\ UpTo(pump, state)
  BY OrderFacts DEF FlowInv, Sorted, UpTo
<1>7. \A j \in DOMAIN pump : UpTo(on, pump[j])
  BY <1>5
<1>8. on \o pump \in Seq(Snapshot) /\ Sorted(on \o pump) /\ UpTo(on \o pump, state)
  <2> HIDE DEF on, pump
  <2> QED
    BY <1>4, <1>6, <1>7, ConcatOrder
<1>9. <<state>> \in Seq(Snapshot) /\ Sorted(<<state>>) /\ UpTo(<<state>>, state)
  BY OrderFacts DEF Sorted, UpTo
<1>10. Sorted((on \o pump) \o <<state>>)
  <2> DEFINE so == on \o pump
             last == <<state>>
  <2>1. \A j \in DOMAIN last : UpTo(so, last[j])
    BY <1>8
  <2> HIDE DEF so, last
  <2> QED
    BY <1>8, <1>9, <2>1, ConcatOrder DEF so, last
<1>11. Path = (on \o pump) \o <<state>>
  BY DEF Path
<1>12. Sorted(Path)
  BY <1>10, <1>11
<1> QED
  BY <1>12 DEF FlowsForward, Sorted, NotAfter, FlowInv

-----------------------------------------------------------------------------
(* The steps. *)

LEMMA InitEstablishes == SyncInit => SyncInv
<1> SUFFICES ASSUME SyncInit PROVE SyncInv
  OBVIOUS
<1>a. state \in Snapshot
  BY SyncAssumption DEF SyncInit, Snapshot
<1>b. 0 \in 0 .. MaxVersion
  BY SyncAssumption
<1>1. SyncTypeOK
  <2>1. NoSnapshot \in Snapshot
    BY SnapshotType
  <2>2. << >> \in Seq(Snapshot)
    OBVIOUS
  <2> QED
    BY <1>a, <1>b, <2>1, <2>2 DEF SyncInit, SyncTypeOK
<1>2. state.epoch > 0 /\ PumpInv
  BY DEF SyncInit, PumpInv, NoSnapshot
<1>3. FlowInv
  BY <1>1, OrderFacts DEF SyncInit, FlowInv, SyncTypeOK
<1> QED
  BY <1>1, <1>2, <1>3 DEF SyncInv

\* The daemon's state only moves forward, within its epoch.
LEMMA ChangeKeeps ==
  ASSUME SyncInv, NEW filled \in BOOLEAN, Change(filled)
  PROVE  SyncInv'
<1> USE DEF SyncInv, pumpVars, displayVars
<1>1. /\ state' \in Snapshot
      /\ state'.epoch = state.epoch /\ state'.version = state.version + 1
  <2>1. state \in Snapshot /\ state.version < MaxVersion
    BY DEF SyncTypeOK, Change
  <2>2. state' = [state EXCEPT !.version = state.version + 1, !.filled = filled]
    BY DEF Change
  <2>3. state.version + 1 \in 0 .. MaxVersion
    BY <2>1, SyncAssumption DEF Snapshot
  <2>4. state' \in Snapshot
    BY <2>1, <2>2, <2>3 DEF Snapshot
  <2>5. state'.epoch = state.epoch /\ state'.version = state.version + 1
    BY <2>1, <2>2 DEF Snapshot
  <2> QED
    BY <2>4, <2>5
<1>2. SyncTypeOK'
  BY <1>1 DEF Change, SyncTypeOK
<1>3. NotAfter(state, state')
  BY <1>1, SnapshotType DEF NotAfter, Before, SyncTypeOK
<1>4. PumpInv'
  BY <1>1 DEF PumpInv, Change
<1>5. \A s \in Snapshot : NotAfter(s, state) => NotAfter(s, state')
  BY <1>1, <1>3, OrderFacts DEF SyncTypeOK
<1>6. \A i \in DOMAIN wire : wire[i] \in Snapshot
  BY DEF SyncTypeOK
<1>7. FlowInv'
  BY <1>5, <1>6 DEF FlowInv, Change, SyncTypeOK
<1> QED
  BY <1>1, <1>2, <1>4, <1>7

LEMMA RestartDaemonKeeps ==
  ASSUME SyncInv, RestartDaemon
  PROVE  SyncInv'
<1> USE DEF SyncInv, displayVars
<1>1. state' = [epoch |-> state.epoch + 1, version |-> 0, filled |-> FALSE]
  BY DEF RestartDaemon
<1>2. state.epoch \in Nat /\ state.epoch + 1 <= MaxEpoch
  BY SyncAssumption DEF RestartDaemon, SyncTypeOK, Snapshot
<1>3. state' \in Snapshot /\ state'.epoch > 0 /\ state'.epoch > state.epoch
  BY <1>1, <1>2, SyncAssumption DEF Snapshot
<1>4. SyncTypeOK'
  <2>1. NoSnapshot \in Snapshot /\ << >> \in Seq(Snapshot)
    BY SnapshotType
  <2> QED
    BY <1>3, <2>1 DEF RestartDaemon, SyncTypeOK
<1>5. PumpInv'
  BY DEF RestartDaemon, PumpInv
<1>6. NotAfter(state, state')
  BY <1>2, <1>3, SnapshotType DEF NotAfter, Before, SyncTypeOK
<1>7. NotAfter(shown, state')
  BY <1>3, <1>6, OrderFacts DEF SyncTypeOK, FlowInv
<1>8. FlowInv'
  BY <1>7 DEF RestartDaemon, FlowInv
<1> QED
  BY <1>3, <1>4, <1>5, <1>8

LEMMA ConnectKeeps ==
  ASSUME SyncInv, Connect
  PROVE  SyncInv'
<1> USE DEF SyncInv, displayVars, Connect
<1>1. SyncTypeOK'
  <2>1. shown.version \in 0 .. MaxVersion /\ 0 \in 0 .. MaxVersion
    BY SyncAssumption DEF SyncTypeOK, Snapshot
  <2> QED
    BY <2>1 DEF SyncTypeOK
<1>2. PumpInv' /\ FlowInv'
  BY DEF PumpInv, FlowInv
<1> QED
  BY <1>1, <1>2

LEMMA DisconnectKeeps ==
  ASSUME SyncInv, Disconnect
  PROVE  SyncInv'
<1> USE DEF SyncInv, displayVars, Disconnect
<1>1. SyncTypeOK'
  <2>1. NoSnapshot \in Snapshot /\ << >> \in Seq(Snapshot)
    BY SnapshotType
  <2> QED
    BY <2>1 DEF SyncTypeOK
<1>2. PumpInv' /\ FlowInv'
  BY DEF PumpInv, FlowInv
<1> QED
  BY <1>1, <1>2

\* What is read is the state, and everything on the way is at most that.
LEMMA PeekKeeps ==
  ASSUME SyncInv, Peek
  PROVE  SyncInv'
<1> USE DEF SyncInv, displayVars, Peek
<1>1. SyncTypeOK'
  BY DEF SyncTypeOK
<1>2. PumpInv'
  BY DEF PumpInv
<1>3. FlowInv'
  BY OrderFacts DEF FlowInv, SyncTypeOK
<1> QED
  BY <1>1, <1>2, <1>3

\* What is sent is newer than all that was sent, since lastSent is.
LEMMA SendPeekedKeeps ==
  ASSUME SyncInv, SendPeeked
  PROVE  SyncInv'
<1> USE DEF SyncInv, displayVars, SendPeeked
<1>1. CASE UNCHANGED <<wire, lastSent, sentAny>>
  BY <1>1, SnapshotType DEF SyncTypeOK, PumpInv, FlowInv
<1>2. CASE /\ Worthwhile
           /\ wire' = Append(wire, peeked)
           /\ lastSent' = peeked.version
           /\ sentAny' = TRUE
  <2>1. /\ peeked \in Snapshot /\ peeked # NoSnapshot /\ peeked.version \in 0 .. MaxVersion
        /\ lastSent \in Nat
    BY SyncAssumption DEF SyncTypeOK, Snapshot
  <2>2. /\ wire' \in Seq(Snapshot)
        /\ Len(wire') = Len(wire) + 1
        /\ \A i \in 1 .. Len(wire) : wire'[i] = wire[i]
        /\ wire'[Len(wire) + 1] = peeked
    BY <1>2, <2>1, AppendProperties DEF SyncTypeOK
  <2>3. DOMAIN wire' = DOMAIN wire \cup {Len(wire) + 1} /\ DOMAIN wire = 1 .. Len(wire) /\ Len(wire) \in Nat
    BY <2>2 DEF SyncTypeOK
  <2>4. \A i \in DOMAIN wire : wire[i] \in Snapshot
    BY DEF SyncTypeOK
  <2>5. SyncTypeOK'
    BY <1>2, <2>1, <2>2, SnapshotType DEF SyncTypeOK
  <2>6. \A i \in DOMAIN wire : Before(wire[i], peeked) /\ wire[i].version <= peeked.version
    <3> SUFFICES ASSUME NEW i \in DOMAIN wire
                 PROVE  Before(wire[i], peeked) /\ wire[i].version <= peeked.version
      OBVIOUS
    <3>1. peeked.version > lastSent
      BY <1>2 DEF Worthwhile, PumpInv
    <3>2. wire[i].epoch = peeked.epoch /\ wire[i].version <= lastSent
      BY <2>1 DEF PumpInv
    <3>3. wire[i].version \in Nat /\ peeked.version \in Nat /\ wire[i].epoch \in Nat
      BY <2>1, <2>4, SnapshotType
    <3> QED
      BY <2>1, <3>1, <3>2, <3>3 DEF Before
  <2>7. PumpInv'
    BY <1>2, <2>1, <2>2, <2>3, <2>6 DEF PumpInv
  <2>8. \A i \in DOMAIN wire' : NotAfter(shown, wire'[i]) /\ NotAfter(wire'[i], state)
    BY <2>1, <2>2, <2>3 DEF FlowInv
  <2>9. \A i, j \in DOMAIN wire' : i < j => Before(wire'[i], wire'[j])
    BY <2>2, <2>3, <2>6 DEF FlowInv
  <2>10. FlowInv'
    BY <2>8, <2>9 DEF FlowInv
  <2> QED
    BY <2>5, <2>7, <2>10
<1> QED
  BY <1>1, <1>2

\* What is shown next stood first on the wire; what is on disk was shown before.
LEMMA ShowKeeps ==
  ASSUME SyncInv, Show
  PROVE  SyncInv'
<1> USE DEF SyncInv, Show
<1>1. /\ Head(wire) \in Snapshot /\ Head(wire) = wire[1]
      /\ wire' \in Seq(Snapshot)
      /\ Len(wire') = Len(wire) - 1
      /\ \A i \in 1 .. Len(wire') : wire'[i] = wire[i + 1]
  BY HeadTailProperties DEF SyncTypeOK
<1>2. /\ DOMAIN wire = 1 .. Len(wire) /\ DOMAIN wire' = 1 .. Len(wire')
      /\ Len(wire) \in Nat /\ Len(wire') \in Nat
  BY <1>1 DEF SyncTypeOK
<1>3. \A i \in DOMAIN wire' : i + 1 \in DOMAIN wire /\ 1 \in DOMAIN wire /\ 1 < i + 1
  BY <1>1, <1>2
<1>4. SyncTypeOK'
  BY <1>1 DEF SyncTypeOK
<1>5. PumpInv'
  BY <1>1, <1>2, <1>3 DEF PumpInv
<1>6. 1 \in DOMAIN wire
  BY <1>1, <1>2
<1>7. \A i \in DOMAIN wire' : wire'[i] \in Snapshot /\ NotAfter(shown, wire'[i]) /\ NotAfter(wire[1], wire'[i])
  BY <1>1, <1>2, <1>3, OrderFacts DEF FlowInv
<1>8. shown' \in {shown, wire[1]}
  BY <1>1
<1>9. NotAfter(lastGood, shown')
  BY <1>1, <1>6, <1>8, OrderFacts DEF FlowInv, SyncTypeOK
<1>10. NotAfter(shown', state) /\ (peeked # NoSnapshot => NotAfter(shown', peeked))
  BY <1>6, <1>8 DEF FlowInv
<1>11. \A i \in DOMAIN wire' : NotAfter(shown', wire'[i])
  BY <1>7, <1>8
<1>12. \A i \in DOMAIN wire' : NotAfter(wire'[i], state) /\ (peeked # NoSnapshot => NotAfter(wire'[i], peeked))
  BY <1>1, <1>2, <1>3 DEF FlowInv
<1>13. \A i, j \in DOMAIN wire' : i < j => Before(wire'[i], wire'[j])
  <2> SUFFICES ASSUME NEW i \in DOMAIN wire', NEW j \in DOMAIN wire', i < j
               PROVE  Before(wire'[i], wire'[j])
    OBVIOUS
  <2>1. i + 1 < j + 1 /\ i + 1 \in DOMAIN wire /\ j + 1 \in DOMAIN wire
    BY <1>2, <1>3
  <2> QED
    BY <1>1, <1>2, <2>1 DEF FlowInv
<1>14. FlowInv'
  BY <1>9, <1>10, <1>11, <1>12, <1>13 DEF FlowInv
<1> QED
  BY <1>4, <1>5, <1>14

LEMMA SaveKeeps ==
  ASSUME SyncInv, Save
  PROVE  SyncInv'
<1> USE DEF SyncInv, pumpVars, Save
<1>1. SyncTypeOK'
  BY DEF SyncTypeOK
<1>2. PumpInv'
  BY DEF PumpInv
<1>3. FlowInv'
  BY OrderFacts DEF FlowInv, SyncTypeOK
<1> QED
  BY <1>1, <1>2, <1>3

LEMMA RestartDisplayKeeps ==
  ASSUME SyncInv, RestartDisplay
  PROVE  SyncInv'
<1> USE DEF SyncInv, RestartDisplay
<1>1. lastGood' \in {lastGood, NoSnapshot} /\ shown' = lastGood'
  OBVIOUS
<1>2. SyncTypeOK'
  <2>1. NoSnapshot \in Snapshot /\ << >> \in Seq(Snapshot)
    BY SnapshotType
  <2> QED
    BY <1>1, <2>1 DEF SyncTypeOK
<1>3. PumpInv'
  BY DEF PumpInv
<1>4. NotAfter(lastGood', shown') /\ NotAfter(shown', state)
  <2>1. /\ NotAfter(NoSnapshot, NoSnapshot) /\ NotAfter(NoSnapshot, state)
        /\ NotAfter(lastGood, lastGood) /\ NotAfter(lastGood, state)
    BY SnapshotType, OrderFacts DEF FlowInv, SyncTypeOK
  <2> QED
    BY <1>1, <2>1
<1>5. FlowInv'
  BY <1>4 DEF FlowInv
<1> QED
  BY <1>2, <1>3, <1>5

LEMMA NextKeeps == SyncInv /\ [SyncNext]_syncVars => SyncInv'
<1> SUFFICES ASSUME SyncInv, [SyncNext]_syncVars PROVE SyncInv'
  OBVIOUS
<1>1. CASE Collect
  BY <1>1, ChangeKeeps DEF Collect
<1>2. CASE Withdraw
  BY <1>2, ChangeKeeps DEF Withdraw
<1>3. CASE ReportHealth
  <2>1. state.filled \in BOOLEAN
    BY SnapshotType DEF SyncInv, SyncTypeOK
  <2> QED
    BY <1>3, <2>1, ChangeKeeps DEF ReportHealth
<1>4. CASE RestartDaemon
  BY <1>4, RestartDaemonKeeps
<1>5. CASE Connect \/ Disconnect
  BY <1>5, ConnectKeeps, DisconnectKeeps
<1>6. CASE Peek \/ SendPeeked
  BY <1>6, PeekKeeps, SendPeekedKeeps
<1>7. CASE Show \/ Save
  BY <1>7, ShowKeeps, SaveKeeps
<1>8. CASE RestartDisplay
  BY <1>8, RestartDisplayKeeps
<1>9. CASE UNCHANGED syncVars
  BY <1>9 DEF syncVars, pumpVars, displayVars, SyncInv, SyncTypeOK, PumpInv, FlowInv
<1> QED
  BY <1>1, <1>2, <1>3, <1>4, <1>5, <1>6, <1>7, <1>8, <1>9 DEF SyncNext

-----------------------------------------------------------------------------
(* The theorems. *)

\* Types: the daemon's state, the pump's memory, the wire, the screen and the file
\* hold what state/current.go, nodeapi/stream.go and syncclient/client.go declare.
THEOREM SyncTypeCorrect == SyncSpec => []SyncTypeOK
<1>1. SyncInv => SyncTypeOK
  BY DEF SyncInv
<1> QED
  BY <1>1, InitEstablishes, NextKeeps, PTL DEF SyncSpec

\* FlowsForward: whatever restarts, reconnects, failing saves and rotten files do, no
\* station holds anything older than the one after it, and a connection carries each
\* snapshot newer than the last (nodeapi/stream.go pump, syncclient applySnapshot).
THEOREM SnapshotsFlowForward == SyncSpec => []FlowsForward
<1>1. SyncInv => FlowsForward
  BY FlowIsForward DEF SyncInv
<1> QED
  BY <1>1, InitEstablishes, NextKeeps, PTL DEF SyncSpec

=============================================================================
