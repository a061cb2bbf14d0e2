------------------------------ MODULE MCMaster ------------------------------
(* Values of the constants of Master for TLC, and its clock. *)
EXTENDS MasterClock

InitAndPre == {{"init"}, {"pre_operational"}}

(* Addresses change while instances are made, or while slaves are switched;  *)
(* the segment is reset while the clock is made.                             *)
Owning    == {"own", "reset"}
Switching == {"own", "switch", "mailbox"}
Clocking  == {"clock", "reset"}
EachKind  == {Owning, Switching, Clocking}
Enough    == [f \in EachKind |-> CASE f = Owning -> 5 [] f = Switching -> 3 [] f = Clocking -> 4]

OnlyOwning == {Owning}
Four == [f \in OnlyOwning |-> 4]
=============================================================================
