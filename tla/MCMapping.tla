------------------------------ MODULE MCMapping ------------------------------
(* Values of the constants of Mapping for TLC. *)
EXTENDS MappingFields

CONSTANTS m, n,        (* mappings  *)
          j, k,        (* slaves    *)
          x, y,        (* configs   *)
          c,           (* channel   *)
          p, q         (* PDOs      *)

Own    == m :> x @@ n :> y

Capacities  == c :> 3 @@ p :> 3 @@ q :> 2
Directions  == c :> "read"
Buffers     == c :> [start |-> 10, end |-> 25]
FactoryQ    == q :> <<8>>
Status       == [direction |-> "read", byte |-> 9, len |-> 1]
AllRegisters == {Status}

(* In m, values of k come between those of the PDOs of j; n then configures  *)
(* j otherwise.                                                              *)
Interlaced  == m :> {<<k, Status>>, <<j, c>>, <<j, p>>, <<j, q>>}
            @@ n :> {<<j, Status>>}
ThreeAndOne == m :> 3 @@ n :> 1

SomeFieldTypes == {[kind |-> "bool", size |-> 1], [kind |-> "struct", size |-> 2],
                   [kind |-> "number", size |-> 2], [kind |-> "array", size |-> 1]}
=============================================================================
