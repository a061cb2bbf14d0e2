------------------------------ MODULE MCCanSdo ------------------------------
(* Values of the constants of CanSdo for TLC. *)
EXTENDS CanSdo, TLC

CONSTANTS a, b, c, d,  (* calls   *)
          x, y         (* objects *)

(* Two reads of x around a write, a read of y; b may be dropped.             *)
Kinds == a :> "read" @@ b :> "read" @@ c :> "write" @@ d :> "read"
About == a :> x @@ b :> x @@ c :> x @@ d :> y
(* c fills the area of the slave, which holds 112 bytes of data; b is too    *)
(* small for values of 230 bytes, which take one or two segments.            *)
AllLengths == x :> {4, 230} @@ y :> {230}
Sizes == a :> 230 @@ b :> 110 @@ c :> 112 @@ d :> 230
(* One byte more than the area holds.                                        *)
LargerSizes == a :> 230 @@ b :> 110 @@ c :> 113 @@ d :> 230
=============================================================================
