-------------------------------- MODULE Rpc --------------------------------
(***************************************************************************)
(* What a mailbox promises to can.rs: requests made one at a time, each    *)
(* one executed exactly once, then answered, before the next one.          *)
(***************************************************************************)
EXTENDS Naturals

CONSTANT MaxRequests  (* BOUND: number of requests *)

VARIABLES asked, served, answered

vars == <<asked, served, answered>>

Init == asked = 0 /\ served = 0 /\ answered = 0

Ask ==
  /\ answered = asked /\ asked < MaxRequests
  /\ asked' = asked + 1
  /\ UNCHANGED <<served, answered>>

Serve ==
  /\ served < asked
  /\ served' = served + 1
  /\ UNCHANGED <<asked, answered>>

Answer ==
  /\ answered < served
  /\ answered' = answered + 1
  /\ UNCHANGED <<asked, served>>

Next == Ask \/ Serve \/ Answer

Spec == Init /\ [][Next]_vars
============================================================================
