--------------------------- MODULE OrderContract ---------------------------
(***************************************************************************)
(* What a birthday order promises its readers, whatever the service does   *)
(* inside: which phase it is in and whether a supplier has been told about *)
(* it on the record.  BirthdayOrder implements this contract as long as    *)
(* its requests run one at a time (ImplementsContract).                    *)
(***************************************************************************)

VARIABLES
  phase,  \* see Phases
  told    \* a sent supplier communication is on record

Phases ==
  { "internal",   \* being prepared by staff; no supplier may act on it
    "offered",    \* with a supplier, who has not committed
    "committed",  \* the supplier is fulfilling it
    "declined",   \* the supplier cannot fulfil it
    "completed",
    "cancelled",
    "gone" }      \* hard-deleted

TypeOK == phase \in Phases /\ told \in BOOLEAN

Init == phase = "internal" /\ told = FALSE

\* A supplier gets the order only together with a recorded communication.
Offer == phase = "internal" /\ phase' = "offered" /\ told' = TRUE

\* Staff take it back: on hold, or into the exception queue.
Recall ==
  /\ phase \in {"offered", "committed", "declined"}
  /\ phase' = "internal"
  /\ UNCHANGED told

Commit == phase = "offered" /\ phase' = "committed" /\ UNCHANGED told

\* A declined order can only be recalled: it cannot be cancelled as it stands.
Decline == phase \in {"offered", "committed"} /\ phase' = "declined" /\ UNCHANGED told

Complete == phase = "committed" /\ phase' = "completed" /\ UNCHANGED told

Cancel ==
  /\ phase \in {"internal", "offered", "committed"}
  /\ phase' = "cancelled"
  /\ UNCHANGED told

\* Only an order no supplier was told about may disappear without a trace.
Discard == phase = "internal" /\ ~told /\ phase' = "gone" /\ UNCHANGED told

Next == Offer \/ Recall \/ Commit \/ Decline \/ Complete \/ Cancel \/ Discard

Spec == Init /\ [][Next]_<<phase, told>>
=============================================================================
