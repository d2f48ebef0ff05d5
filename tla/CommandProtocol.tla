--------------------------- MODULE CommandProtocol ---------------------------
(***************************************************************************)
(* The vocabulary the daemon and the display share about remote commands   *)
(* (src/internal/protocol/remote.go), and the bounds and faults of a model *)
(* instance.                                                               *)
(*                                                                         *)
(* A command id is a random UUID in the code.  Here it is the rank in      *)
(* which the id was minted: ids are fresh, and their order is the order    *)
(* of publication.  The five plain UI kinds (show_page, next_page,         *)
(* previous_page, set_rotation) are one kind "page"; parameters and        *)
(* timestamps are left out.                                                *)
(***************************************************************************)
EXTENDS Naturals

CONSTANTS
  Devices,      \* display devices the daemon knows
  Kinds,        \* command kinds this instance uses
  MaxIssued,    \* bound of the model: commands ever published
  Faults        \* the failures this instance allows

AllKinds == {"page", "message", "refresh", "brightness"}

AllFaults == { "bus_write",     \* a write of the daemon's queue file fails
               "bus_corrupt",   \* the queue file is unreadable at start
               "ledger_write",  \* a write of the display's ledger fails
               "ledger_corrupt",\* the display's ledger is unreadable at start
               "snap_write",    \* a write of the last-known-good snapshot fails
               "clock_skew" }   \* the display's clock disagrees with the daemon's

ASSUME ProtocolAssumption ==
  /\ Kinds \subseteq AllKinds
  /\ MaxIssued \in Nat
  /\ Faults \subseteq AllFaults

Ids  == 1 .. MaxIssued
Seqs == 1 .. MaxIssued

\* CommandStatus and its Final method.
FinalStatuses == {"executed", "rejected", "expired", "failed"}
Statuses      == {"published", "accepted"} \cup FinalStatuses
Final(status) == status \in FinalStatuses

\* The result codes that tell the outcomes apart.
Codes == { "", "overflow", "expired", "execution_timeout", "out_of_order",
           "wrong_target", "issued_in_future", "interrupted",
           "state_unavailable", "unsupported_capability" }

\* defaultPriority: the only priority a kind may carry.
Priority(kind) == IF kind = "message" THEN "high" ELSE "normal"

\* DisplayCommand and CommandResult, as they travel over the stream.
Command == [id : Ids, device : Devices, kind : Kinds, seq : Seqs]
Result  == [id : Ids, seq : Seqs, status : Statuses, code : Codes]

\* DecodeCommandResult lets through only what a display may report.
Reportable(status) == status = "accepted" \/ Final(status)

=============================================================================
