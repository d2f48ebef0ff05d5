---------------------------- MODULE CurrentState ----------------------------
(***************************************************************************)
(* The daemon's in-memory current state (src/internal/state/current.go).   *)
(*                                                                         *)
(* One mutex guards it and every method is one atomic step, so a method is *)
(* an operator from state to state; Scheduler calls them.                  *)
(*                                                                         *)
(* Abstractions.                                                           *)
(*  - Metrics, HomeLab nodes and HomeLab services are items.  An item      *)
(*    keeps who reported it, the reading it was reported by, the reading   *)
(*    its resource values come from (0: it never had any), whether it is   *)
(*    online and the class of the failure annotated on it.                 *)
(*  - A reading is the ordinal of a successful answer of the upstream, so  *)
(*    a higher one is newer data.                                          *)
(*  - The observed sequence of an id that was never seen is 0: nextSeq     *)
(*    starts at 1.                                                         *)
(*  - An annotation's message is a function of its class.                  *)
(*  - The version is a uint64; it wraps at VersionWrap, which is enough to *)
(*    see whether a step moved it.                                         *)
(*                                                                         *)
(* A definition X_flaw is X with a plausible mistake in it.  No action     *)
(* uses it: it serves to see that the properties notice the mistake.       *)
(***************************************************************************)
EXTENDS Naturals, FiniteSets

CONSTANTS
  Connectors,   \* the enabled connectors
  Metrics,      \* metric ids
  Nodes,        \* HomeLab node ids
  Services,     \* HomeLab service ids
  NodeLimit,    \* 100 in the code
  ServiceLimit, \* 32 in the code
  Classes,      \* the error classes an upstream call can fail with
  VersionWrap   \* 2^64 in the code

\* Class of a refused report, and of a context that ends while waiting.
AllClasses == Classes \cup {"schema_changed", "timeout"}

ErrNone == "none"
Nobody  == "nobody"
Items   == Metrics \cup Nodes \cup Services
NoItem  == [owner |-> Nobody]

ASSUME StateAssumption ==
  /\ Nobody \notin Connectors
  /\ ErrNone \notin AllClasses
  /\ Nodes \cap Services = {} /\ Metrics \cap (Nodes \cup Services) = {}
  /\ IsFiniteSet(Nodes) /\ IsFiniteSet(Services)
  /\ NodeLimit \in Nat /\ ServiceLimit \in Nat
  /\ VersionWrap \in Nat \ {0, 1}

Item == [owner : Connectors, at : Nat, value : Nat, online : BOOLEAN,
         error : AllClasses \cup {ErrNone}]

Health == [class : AllClasses \cup {ErrNone}, lastSuccess : Nat]

NoHealth == [class |-> "unknown"]

CurrentStates ==
  [shown : [Items -> Item \cup {NoItem}], observedSeq : [Metrics -> Nat],
   health : [Connectors -> Health \cup {NoHealth}], version : 0 .. VersionWrap - 1]

\* New: an empty state.
EmptyState ==
  [shown |-> [i \in Items |-> NoItem], observedSeq |-> [m \in Metrics |-> 0],
   health |-> [c \in Connectors |-> NoHealth], version |-> 0]

Owned(s, c)   == {i \in Items : s.shown[i].owner = c}
Others(s, c)  == {i \in Items : s.shown[i].owner \notin {c, Nobody}}
Bumped(v)     == (v + 1) % VersionWrap

-----------------------------------------------------------------------------
(* ApplyConnectorMetrics: the batch replaces the connector's metrics, except *)
(* where a newer batch has been seen for an id.                              *)

Withdrawn(s, c, seq, batch) ==
  {m \in Owned(s, c) \cap Metrics : m \notin batch /\ seq > s.observedSeq[m]}

Taken(s, seq, batch) == {m \in batch : seq > s.observedSeq[m]}

Measured(c, at) ==
  [owner |-> c, at |-> at, value |-> at, online |-> TRUE, error |-> ErrNone]

Reported(c, at, report, i) ==
  [owner |-> c, at |-> at, value |-> IF report[i] THEN at ELSE 0,
   online |-> report[i], error |-> ErrNone]

WithMetrics_keepsWithdrawn(s, c, seq, at, batch) ==
  [s EXCEPT !.version = Bumped(@),
            !.observedSeq = [m \in Metrics |-> IF m \in batch THEN seq ELSE @[m]],
            !.shown = [i \in Items |->
              IF i \in batch THEN Measured(c, at) ELSE @[i]]]

WithMetrics(s, c, seq, at, batch) ==
  LET gone  == Withdrawn(s, c, seq, batch)
      taken == Taken(s, seq, batch)
  IN IF gone \cup taken = {} THEN s ELSE
     [s EXCEPT !.version = Bumped(@),
               !.observedSeq = [m \in Metrics |-> IF m \in gone \cup taken THEN seq ELSE @[m]],
               !.shown = [i \in Items |->
                 IF i \in taken THEN Measured(c, at)
                 ELSE IF i \in gone THEN NoItem ELSE @[i]]]

(* ApplyConnectorHomeLab: all of the report or nothing of it.  A report says *)
(* of each of its nodes and services whether it is up; one that is down has  *)
(* no resource values of its own.                                            *)

Crowded(s, c, report, ids, limit) ==
  Cardinality(Others(s, c) \cap ids) + Cardinality(DOMAIN report \cap ids) > limit

Refuses_ownLimit(s, c, report) ==
  \/ Cardinality(DOMAIN report \cap Nodes) > NodeLimit
  \/ Cardinality(DOMAIN report \cap Services) > ServiceLimit
  \/ DOMAIN report \cap Others(s, c) # {}

Refuses(s, c, report) ==
  \/ Crowded(s, c, report, Nodes, NodeLimit)
  \/ Crowded(s, c, report, Services, ServiceLimit)
  \/ DOMAIN report \cap Others(s, c) # {}

\* inheritNodeValues: a node that is down keeps the values it last had.
Inherited_never(new, old) == new

Inherited(new, old) ==
  IF ~ new.online /\ old # NoItem
    THEN [new EXCEPT !.value = old.value] ELSE new

WithHomeLab(s, c, at, report) ==
  [s EXCEPT !.version = Bumped(@),
            !.shown = [i \in Items |->
              IF i \in DOMAIN report THEN Inherited(Reported(c, at, report, i), @[i])
              ELSE IF i \in Owned(s, c) \ Metrics THEN NoItem ELSE @[i]]]

\* ApplyConnectorError: annotate everything the connector owns, keep the values.
Annotated(item, class) == [item EXCEPT !.error = class]

WithError_silent(s, c, class) ==
  [s EXCEPT !.shown = [i \in Items |->
     IF i \in Owned(s, c) THEN Annotated(@[i], class) ELSE @[i]]]

WithError(s, c, class) ==
  IF \A i \in Owned(s, c) : s.shown[i].error = class THEN s ELSE
  [s EXCEPT !.version = Bumped(@),
            !.shown = [i \in Items |->
              IF i \in Owned(s, c) THEN Annotated(@[i], class) ELSE @[i]]]

\* ApplyHealth.
WithHealth(s, c, h) == [s EXCEPT !.version = Bumped(@), !.health[c] = h]

=============================================================================
