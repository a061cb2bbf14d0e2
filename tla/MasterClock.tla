----------------------------- MODULE MasterClock -----------------------------
(* The master with its clock. *)
EXTENDS Master, Clock

(* Properties of Clock are constant: they are evaluated in a few states.     *)
AtStart == calls = 0 /\ "clock" \in family /\ \A s \in Slaves : fixed[s] = 0
ClockTopology == AtStart => TopologyRebuilt
ClockDelays   == AtStart => DelaysExact /\ DelaysHeld /\ OffsetSettles
=============================================================================
