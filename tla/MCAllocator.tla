---------------------------- MODULE MCAllocator ----------------------------
(* Values of the constants of Allocator for TLC. *)
EXTENDS Allocator, TLC

CONSTANTS a, b, c, d,  (* calls   *)
          j, k,        (* slaves  *)
          x, y         (* contents of a slave's configuration *)

Each(va, vb, vc, vd) == (a :> va @@ b :> vb @@ c :> vc @@ d :> vd)
Both(vj, vk) == (j :> vj @@ k :> vk)

(* a, b and d agree and fit together; c asks for another configuration of j, *)
(* has k in another mapping, and does not fit with the three others.         *)
Conflicting == Each(Both(x, Absent), Both(x, x), Both(y, x), Both(Absent, x))
ConfigUses  == Each({j}, {j, k}, {j}, {k})
OneBusy     == Each({}, {}, {k}, {})
Small       == Each(1, 2, 3, 1)
OwnThreads  == Each(1, 2, 3, 4)
=============================================================================
