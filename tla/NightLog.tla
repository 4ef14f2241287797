-------------------------------- MODULE NightLog --------------------------------
(***************************************************************************)
(* What the dream memory promises of the nights on disk: they are a log.   *)
(* A night is added at the end or not at all, nothing is changed or        *)
(* removed, and only a power failure may shorten the log, never below what *)
(* was confirmed.  FlatMemory implements this specification; handles,      *)
(* queues and failed calls are not visible.                                *)
(***************************************************************************)
EXTENDS Naturals, Sequences

CONSTANT Nights

VARIABLES
  log,                  (* the nights a reader finds, in order             *)
  durable               (* how many of them no power failure can undo      *)

vars == <<log, durable>>

Init == log = <<>> /\ durable = 0

Append1(night) == log' = Append(log, night) /\ UNCHANGED durable

Confirm == durable' = Len(log) /\ UNCHANGED log

PowerFailure ==
  \E n \in durable .. Len(log) : log' = SubSeq(log, 1, n) /\ durable' = n

Next == (\E night \in Nights : Append1(night)) \/ Confirm \/ PowerFailure

Spec == Init /\ [][Next]_vars
=============================================================================
