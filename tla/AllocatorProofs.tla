--------------------------- MODULE AllocatorProofs ---------------------------
(***************************************************************************)
(* Proofs about Allocator, for any calls, sizes, configurations, threads   *)
(* and memory: types, disjointness of the regions of the logical memory,   *)
(* and agreement on the configuration of shared slaves.                    *)
(***************************************************************************)
EXTENDS Allocator, FiniteSetTheorems, WellFoundedInduction, TLAPS

USE DEF LogicalSlot

-----------------------------------------------------------------------------
LEMMA RemainderType ==
  ASSUME NEW slot \in LogicalSlot, NEW size \in Nat
  PROVE  Remainder(slot, size) \subseteq LogicalSlot
BY DEF Remainder

LEMMA SharedConfigType ==
  ASSUME TypeOK, NEW c \in Calls
  PROVE  SharedConfig(c) \in [Slaves -> Calls \cup {None}]
BY DEF SharedConfig, TypeOK

LEMMA NextType == TypeOK /\ [Next]_vars => TypeOK'
<1> SUFFICES ASSUME TypeOK, [Next]_vars PROVE TypeOK'
  OBVIOUS
<1> USE ConstantsAssumption
<1>1. ASSUME NEW c \in Calls, Ask(c) PROVE TypeOK'
  <2>1. Compatible(c) \in BOOLEAN
    BY DEF Compatible
  <2>2. asked' \in [Calls -> BOOLEAN]
    BY <1>1, <2>1 DEF Ask, TypeOK
  <2> QED BY <1>1, <2>2 DEF Ask, TypeOK
<1>2. ASSUME NEW c \in Calls, Enter(c) PROVE TypeOK'
  BY <1>2 DEF Enter, Goto, TypeOK
<1>3. ASSUME NEW c \in Calls, Reserve(c) PROVE TypeOK'
  <2>1. PICK slot \in LargeEnough(Size[c]) :
          /\ free' = (free \ {slot}) \cup Remainder(slot, Size[c])
          /\ group' = [group EXCEPT ![c] = [offset |-> slot.position, allocated |-> slot.size]]
    BY <1>3 DEF Reserve
  <2>2. slot \in LogicalSlot
    BY <2>1 DEF LargeEnough, TypeOK
  <2>3. free' \subseteq LogicalSlot
    BY <2>1, <2>2, RemainderType DEF TypeOK
  <2>4. group' \in [Calls -> [offset : Nat, allocated : Nat]]
    BY <2>1, <2>2 DEF TypeOK
  <2>5. config' \in [Calls -> [Slaves -> Calls \cup {None}]]
    BY <1>3, SharedConfigType DEF Reserve, TypeOK
  <2>6. slaves' \in [Slaves -> Calls \cup {None}]
    BY <1>3, SharedConfigType DEF Reserve, TypeOK
  <2> QED BY <1>3, <2>3, <2>4, <2>5, <2>6 DEF Reserve, Goto, TypeOK
<1>4. ASSUME NEW c \in Calls, Refuse(c) PROVE TypeOK'
  BY <1>4 DEF Refuse, Goto, TypeOK
<1>5. ASSUME NEW c \in Calls, Obtain(c) PROVE TypeOK'
  BY <1>5 DEF Obtain, Goto, TypeOK
<1>6. ASSUME NEW c \in Calls, Cancel(c) PROVE TypeOK'
  BY <1>6 DEF Cancel, Goto, TypeOK
<1>7. ASSUME NEW c \in Calls, DropTopic(c) PROVE TypeOK'
  BY <1>7 DEF DropTopic, Goto, TypeOK
<1>8. ASSUME NEW c \in Calls, DropSlot(c) PROVE TypeOK'
  BY <1>8 DEF DropSlot, Goto, TypeOK
<1>9. ASSUME NEW c \in Calls, DropConfig(c) PROVE TypeOK'
  BY <1>9 DEF DropConfig, Goto, TypeOK
<1>10. ASSUME NEW c \in Calls, AskPanic(c) PROVE TypeOK'
  BY <1>10 DEF AskPanic, Goto, TypeOK
<1>11. CASE UNCHANGED vars
  BY <1>11 DEF vars, TypeOK
<1> QED BY <1>1, <1>2, <1>3, <1>4, <1>5, <1>6, <1>7, <1>8, <1>9, <1>10, <1>11 DEF Next, Idle

LEMMA InitType == Init => TypeOK
<1> USE ConstantsAssumption
<1> SUFFICES ASSUME Init PROVE TypeOK
  OBVIOUS
<1>1. free \subseteq LogicalSlot
  BY DEF Init
<1>2. /\ slaves \in [Slaves -> Calls \cup {None}]
      /\ config \in [Calls -> [Slaves -> Calls \cup {None}]]
  BY DEF Init
<1>3. /\ phase \in [Calls -> {"idle", "lock", "topic", "live", "freeing", "freed",
                             "panicked", "gone"}]
      /\ group \in [Calls -> [offset : Nat, allocated : Nat]]
      /\ asked \in [Calls -> BOOLEAN]
  BY DEF Init
<1>4. holder \in Calls \cup {None} /\ poisoned \in BOOLEAN /\ tokens \in Nat
  BY DEF Init
<1> QED BY <1>1, <1>2, <1>3, <1>4 DEF TypeOK

(* Every variable of the allocator keeps its type.                           *)
THEOREM TypeCorrect == Spec => []TypeOK
BY InitType, NextType, PTL DEF Spec

-----------------------------------------------------------------------------
(* What a slot gives, the region and the rest, lies within the slot.         *)
LEMMA CutInside ==
  ASSUME NEW slot \in LogicalSlot, NEW size \in Nat, slot.size >= size, Inside(slot)
  PROVE  /\ Inside([size |-> size, position |-> slot.position])
         /\ \A r \in Remainder(slot, size) :
              /\ r \in LogicalSlot /\ Inside(r)
              /\ Apart([size |-> size, position |-> slot.position], r)
BY ConstantsAssumption DEF Inside, Apart, Remainder

LEMMA CutApart ==
  ASSUME NEW slot \in LogicalSlot, NEW size \in Nat, slot.size >= size,
         NEW other \in LogicalSlot, Apart(other, slot) \/ Apart(slot, other)
  PROVE  /\ Apart([size |-> size, position |-> slot.position], other)
         /\ Apart(other, [size |-> size, position |-> slot.position])
         /\ \A r \in Remainder(slot, size) : Apart(r, other) /\ Apart(other, r)
BY DEF Apart, Remainder

(* A slot that goes, or a group that ends, leaves the others apart.          *)
LEMMA FewerRegions ==
  ASSUME RegionsDisjoint, free' \subseteq free, Regions' \subseteq Regions,
         UNCHANGED group
  PROVE  RegionsDisjoint'
BY DEF RegionsDisjoint, Region, Inside, Apart

LEMMA ReserveDisjoint ==
  ASSUME TypeOK, RegionsDisjoint, NEW c \in Calls, Reserve(c)
  PROVE  RegionsDisjoint'
<1> USE ConstantsAssumption
<1>1. PICK slot \in LargeEnough(Size[c]) :
        /\ free' = (free \ {slot}) \cup Remainder(slot, Size[c])
        /\ group' = [group EXCEPT ![c] = [offset |-> slot.position, allocated |-> slot.size]]
  BY DEF Reserve
<1> DEFINE new == [size |-> Size[c], position |-> slot.position]
<1>2. /\ slot \in LogicalSlot /\ slot \in free
      /\ Size[c] \in Nat /\ slot.size >= Size[c]
      /\ Inside(slot)
  BY <1>1 DEF LargeEnough, TypeOK, RegionsDisjoint
<1>3. Regions' = Regions \cup {c} /\ c \notin Regions
  BY DEF Reserve, Goto, Regions, TypeOK
<1>4. Region(c)' = new /\ \A d \in Regions : Region(d)' = Region(d) /\ Region(d) \in LogicalSlot
  BY <1>1, <1>3 DEF Region, TypeOK, Regions
<1>5. /\ \A d \in Regions : Apart(Region(d), slot)
      /\ \A s \in free : s \in LogicalSlot /\ (s # slot => Apart(s, slot))
  BY <1>2 DEF RegionsDisjoint, TypeOK
<1> HIDE DEF new
<1>6. /\ Inside(new)
      /\ \A r \in Remainder(slot, Size[c]) : r \in LogicalSlot /\ Inside(r) /\ Apart(new, r)
  BY <1>2, CutInside DEF new
<1>7. \A o \in LogicalSlot : Apart(o, slot) =>
        /\ Apart(new, o) /\ Apart(o, new)
        /\ \A r \in Remainder(slot, Size[c]) : Apart(r, o) /\ Apart(o, r)
  BY <1>2, CutApart DEF new
<1>8. \A r, s \in Remainder(slot, Size[c]) : r = s
  BY DEF Remainder
<1>9. \A d \in Regions' : Inside(Region(d)')
  BY <1>3, <1>4, <1>6 DEF RegionsDisjoint
<1>10. \A d, e \in Regions' : d # e => Apart(Region(d)', Region(e)')
  BY <1>3, <1>4, <1>5, <1>7 DEF RegionsDisjoint
<1>11. \A d \in Regions' : \A s \in free' : Apart(Region(d)', s)
  BY <1>1, <1>3, <1>4, <1>5, <1>6, <1>7 DEF RegionsDisjoint
<1>12. \A s \in free' : Inside(s)
  BY <1>1, <1>6 DEF RegionsDisjoint
<1>13. \A s, t \in free' : s # t => Apart(s, t)
  BY <1>1, <1>5, <1>7, <1>8 DEF RegionsDisjoint
<1> QED BY <1>9, <1>10, <1>11, <1>12, <1>13 DEF RegionsDisjoint, Inside, Apart

LEMMA NextDisjoint == TypeOK /\ RegionsDisjoint /\ [Next]_vars => RegionsDisjoint'
<1> SUFFICES ASSUME TypeOK, RegionsDisjoint, [Next]_vars PROVE RegionsDisjoint'
  OBVIOUS
<1>1. CASE \E c \in Calls : Reserve(c)
  BY <1>1, ReserveDisjoint
<1>2. CASE ~ \E c \in Calls : Reserve(c)
  <2>1. free' \subseteq free /\ Regions' \subseteq Regions /\ UNCHANGED group
    BY <1>2 DEF Next, Ask, AskPanic, Enter, Refuse, Obtain, Cancel, DropTopic, DropSlot,
                DropConfig, Idle, vars, Goto, Regions, TypeOK
  <2> QED BY <2>1, FewerRegions
<1> QED BY <1>1, <1>2

LEMMA InitDisjoint == Init => RegionsDisjoint
BY ConstantsAssumption DEF Init, RegionsDisjoint, Regions, Inside

(* The bytes of the logical memory that a group exchanges are its own, from  *)
(* its reservation to its drop.                                              *)
THEOREM DisjointRegions == Spec => []RegionsDisjoint
<1>1. Init => TypeOK /\ RegionsDisjoint
  BY InitType, InitDisjoint
<1>2. TypeOK /\ RegionsDisjoint /\ [Next]_vars => (TypeOK /\ RegionsDisjoint)'
  BY NextType, NextDisjoint
<1> QED BY <1>1, <1>2, PTL DEF Spec

-----------------------------------------------------------------------------
(* Nobody joins the holders but by reserving, so their Arcs stay current.    *)
LEMMA ReserveShared ==
  ASSUME TypeOK, WeakIsShared, NEW c \in Calls, Reserve(c)
  PROVE  WeakIsShared'
<1> USE ConstantsAssumption
<1>1. Holding' = Holding \cup {c} /\ c \notin Holding
  BY DEF Reserve, Goto, Holding, TypeOK
<1>2. config' = [config EXCEPT ![c] = SharedConfig(c)]
  BY DEF Reserve
<1>3. \A k \in Slaves : slaves'[k] = IF k \in Uses[c] THEN SharedConfig(c)[k] ELSE slaves[k]
  BY DEF Reserve
<1>4. Compatible(c)
  BY DEF Reserve, Accepted
<1>5. ASSUME NEW k \in Uses[c]
      PROVE  /\ config'[c][k] = slaves'[k] /\ slaves'[k] \in Calls
             /\ Config[slaves'[k]][k] = Config[c][k]
  <2>1. k \in Slaves /\ Config[c][k] # Absent
    BY DEF TypeOK
  <2>2. config'[c][k] = slaves'[k] /\ slaves'[k] = SharedConfig(c)[k]
    BY <1>2, <1>3, <2>1 DEF TypeOK
  <2>3. CASE Upgrade(k)
    <3>1. SharedConfig(c)[k] = slaves[k]
      BY <2>1, <2>3 DEF SharedConfig
    <3>2. slaves[k] \in Calls
      BY <2>1, <2>3 DEF Upgrade, TypeOK
    <3>3. Config[slaves[k]][k] = Config[c][k]
      BY <1>4, <2>1, <2>3 DEF Compatible
    <3> QED BY <2>2, <3>1, <3>2, <3>3
  <2>4. CASE ~Upgrade(k)
    BY <2>1, <2>2, <2>4 DEF SharedConfig
  <2> QED BY <2>3, <2>4
<1>6. ASSUME NEW d \in Holding, NEW k \in Uses[d]
      PROVE  /\ config'[d][k] = slaves'[k] /\ slaves'[k] \in Calls
             /\ Config[slaves'[k]][k] = Config[d][k]
  <2>1. d \in Calls /\ d # c /\ k \in Slaves
    BY <1>1 DEF Holding
  <2>2. /\ config[d][k] = slaves[k] /\ slaves[k] \in Calls
        /\ Config[slaves[k]][k] = Config[d][k]
    BY DEF WeakIsShared
  <2>3. Upgrade(k)
    BY <2>2 DEF Upgrade
  <2>4. slaves'[k] = slaves[k]
    BY <1>3, <2>1, <2>3 DEF SharedConfig
  <2>5. config'[d] = config[d]
    BY <1>2, <2>1 DEF TypeOK
  <2> QED BY <2>2, <2>4, <2>5
<1> QED BY <1>1, <1>5, <1>6 DEF WeakIsShared

LEMMA NextShared == TypeOK /\ WeakIsShared /\ [Next]_vars => WeakIsShared'
<1> SUFFICES ASSUME TypeOK, WeakIsShared, [Next]_vars PROVE WeakIsShared'
  OBVIOUS
<1>1. CASE \E c \in Calls : Reserve(c)
  BY <1>1, ReserveShared
<1>2. CASE ~ \E c \in Calls : Reserve(c)
  <2>1. Holding' \subseteq Holding /\ UNCHANGED <<config, slaves>>
    BY <1>2 DEF Next, Ask, AskPanic, Enter, Refuse, Obtain, Cancel, DropTopic, DropSlot,
                DropConfig, Idle, vars, Goto, Holding, TypeOK
  <2> QED BY <2>1 DEF WeakIsShared
<1> QED BY <1>1, <1>2

(* Groups that share a slave always hold the configuration each asked for.   *)
THEOREM ConfigAgreement == Spec => []OneConfig
<1>1. Init => TypeOK /\ WeakIsShared
  BY InitType DEF Init, WeakIsShared, Holding
<1>2. TypeOK /\ WeakIsShared /\ [Next]_vars => (TypeOK /\ WeakIsShared)'
  BY NextType, NextShared
<1>3. WeakIsShared => OneConfig
  BY DEF WeakIsShared, OneConfig
<1> QED BY <1>1, <1>2, <1>3, PTL DEF Spec

-----------------------------------------------------------------------------
(* Induction, and sums over finite sets *)

LEMMA Least ==
  ASSUME NEW T, T \subseteq Nat, T # {}
  PROVE  \E n \in T : \A m \in T : n <= m
<1>1. IsWellFoundedOn({p \in Nat \X Nat : p[1] < p[2]}, Nat)
  BY NatLessThanWellFounded DEF OpToRel
<1>2. PICK n \in T : \A m \in T : ~(<<m, n>> \in {p \in Nat \X Nat : p[1] < p[2]})
  BY <1>1, WFMin
<1>3. \A m \in T : ~(m < n)
  BY <1>2
<1> QED BY <1>3

LEMMA Induction ==
  ASSUME NEW T, 0 \in T, \A n \in Nat : n \in T => n + 1 \in T
  PROVE  Nat \subseteq T
<1> SUFFICES ASSUME Nat \ T # {} PROVE FALSE
  OBVIOUS
<1>1. PICK n \in Nat \ T : \A m \in Nat \ T : n <= m
  BY Least
<1>2. n # 0 /\ n - 1 \in Nat
  BY <1>1
<1>3. n - 1 \in T
  BY <1>1, <1>2
<1> QED BY <1>1, <1>2, <1>3

(* What FiniteSetsExt computes, as a function on the subsets: `it` adds the  *)
(* value of one element after the other.                                     *)
Picked(t) == CHOOSE x \in t : TRUE
Adds(f, S, it) ==
  it = [t \in SUBSET S |-> IF t = {} THEN 0 ELSE f[Picked(t)] + it[t \ {Picked(t)}]]
SumOf(f, S) == MapThenSumSet(LAMBDA x : f[x], S)

LEMMA SumIs == \A f, S : SumOf(f, S) = (CHOOSE it : Adds(f, S, it))[S]
BY DEF SumOf, MapThenSumSet, MapThenFoldSet, Adds, Picked

LEMMA Smaller ==
  ASSUME NEW t, IsFiniteSet(t), NEW x \in t
  PROVE  /\ Cardinality(t) \in Nat \ {0} /\ IsFiniteSet(t \ {x})
         /\ Cardinality(t \ {x}) = Cardinality(t) - 1
BY FS_RemoveElement, FS_EmptySet, FS_CardinalityType

LEMMA AddsExists ==
  ASSUME NEW f, NEW S, IsFiniteSet(S)
  PROVE  \E it : Adds(f, S, it)
<1> DEFINE Up(n, it) == /\ it = [t \in SUBSET S |-> it[t]]
                        /\ \A t \in SUBSET S : Cardinality(t) <= n =>
                             it[t] = IF t = {} THEN 0 ELSE f[Picked(t)] + it[t \ {Picked(t)}]
           T == {n \in Nat : \E it : Up(n, it)}
<1>1. \A t \in SUBSET S : IsFiniteSet(t) /\ Cardinality(t) \in Nat /\ Cardinality(t) <= Cardinality(S)
  BY FS_Subset, FS_CardinalityType
<1>2. \A t \in SUBSET S : t # {} =>
        /\ Picked(t) \in t /\ t \ {Picked(t)} \in SUBSET S
        /\ Cardinality(t \ {Picked(t)}) = Cardinality(t) - 1
  <2> SUFFICES ASSUME NEW t \in SUBSET S, t # {}
               PROVE  /\ Picked(t) \in t /\ t \ {Picked(t)} \in SUBSET S
                      /\ Cardinality(t \ {Picked(t)}) = Cardinality(t) - 1
    OBVIOUS
  <2>1. Picked(t) \in t
    BY DEF Picked
  <2> QED BY <1>1, <2>1, Smaller
<1>3. 0 \in T
  <2> DEFINE it == [t \in SUBSET S |-> 0]
  <2>1. \A t \in SUBSET S : Cardinality(t) <= 0 => t = {}
    BY <1>1, FS_EmptySet
  <2>2. Up(0, it)
    BY <2>1
  <2> QED BY <2>2
<1>4. ASSUME NEW n \in Nat, n \in T PROVE n + 1 \in T
  <2>1. PICK it : Up(n, it)
    BY <1>4
  <2> DEFINE next == [t \in SUBSET S |-> IF Cardinality(t) <= n THEN it[t]
                                         ELSE f[Picked(t)] + it[t \ {Picked(t)}]]
  <2>2. \A t \in SUBSET S : next[t] = IF Cardinality(t) <= n THEN it[t]
                                      ELSE f[Picked(t)] + it[t \ {Picked(t)}]
    OBVIOUS
  <2>3. next = [t \in SUBSET S |-> next[t]]
    OBVIOUS
  <2> HIDE DEF next
  <2>4. ASSUME NEW t \in SUBSET S, Cardinality(t) <= n + 1
        PROVE  next[t] = IF t = {} THEN 0 ELSE f[Picked(t)] + next[t \ {Picked(t)}]
    <3>1. CASE t = {}
      <4>1. Cardinality(t) = 0
        BY <3>1, FS_EmptySet
      <4>2. it[t] = 0
        <5>1. Cardinality(t) <= n
          BY <4>1
        <5> QED BY <2>1, <3>1, <5>1
      <4> QED BY <2>2, <3>1, <4>1, <4>2
    <3>2. CASE t # {}
      <4>1. /\ t \ {Picked(t)} \in SUBSET S /\ Cardinality(t \ {Picked(t)}) <= n
            /\ Cardinality(t) \in Nat
        BY <1>1, <1>2, <2>4, <3>2
      <4>2. next[t \ {Picked(t)}] = it[t \ {Picked(t)}]
        BY <2>2, <4>1
      <4>3. Cardinality(t) <= n => it[t] = f[Picked(t)] + it[t \ {Picked(t)}]
        BY <2>1, <3>2
      <4> QED BY <2>2, <3>2, <4>2, <4>3
    <3> QED BY <3>1, <3>2
  <2>5. Up(n + 1, next)
    BY <2>3, <2>4
  <2> HIDE DEF Up
  <2>6. \E i : Up(n + 1, i)
    BY <2>5
  <2> QED BY <2>6
<1>5. Cardinality(S) \in T
  <2> HIDE DEF T
  <2>1. Nat \subseteq T
    BY <1>3, <1>4, Induction
  <2> QED BY <1>1, <2>1
<1>6. PICK it : Up(Cardinality(S), it)
  BY <1>5
<1>7. Adds(f, S, it)
  BY <1>1, <1>6 DEF Adds
<1> QED BY <1>7

(* The sum over a finite set, and over its subsets.                          *)
Totals(f, S, it) ==
  /\ it \in [SUBSET S -> Nat]
  /\ it[{}] = 0 /\ it[S] = SumOf(f, S)
  /\ \A t \in SUBSET S : \A x \in t : it[t] = f[x] + it[t \ {x}]

LEMMA SumSteps ==
  ASSUME NEW S, IsFiniteSet(S), NEW f \in [S -> Nat]
  PROVE  \E it : Totals(f, S, it)
<1> DEFINE it == CHOOSE i : Adds(f, S, i)
<1>1. Adds(f, S, it)
  BY AddsExists
<1>2. it[S] = SumOf(f, S)
  BY SumIs
<1> HIDE DEF it
<1>3. it[{}] = 0 /\ it = [t \in SUBSET S |-> it[t]]
  BY <1>1 DEF Adds
<1>4. \A t \in SUBSET S : IsFiniteSet(t) /\ Cardinality(t) \in Nat
  BY FS_Subset, FS_CardinalityType
<1>5. ASSUME NEW t \in SUBSET S, t # {}
      PROVE  /\ Picked(t) \in t /\ t \ {Picked(t)} \in SUBSET S
             /\ it[t] = f[Picked(t)] + it[t \ {Picked(t)}] /\ f[Picked(t)] \in Nat
  <2>1. Picked(t) \in t
    BY <1>5 DEF Picked
  <2> QED BY <1>1, <1>5, <2>1 DEF Adds
<1> DEFINE Good(t) == it[t] \in Nat /\ \A x \in t : it[t] = f[x] + it[t \ {x}]
           T == {n \in Nat : \A t \in SUBSET S : Cardinality(t) <= n => Good(t)}
<1>6. 0 \in T
  <2>1. \A t \in SUBSET S : Cardinality(t) <= 0 => t = {}
    BY <1>4, FS_EmptySet
  <2>2. Good({})
    BY <1>3
  <2> HIDE DEF Good
  <2> QED BY <2>1, <2>2
<1>7. ASSUME NEW n \in Nat, n \in T PROVE n + 1 \in T
  <2> SUFFICES ASSUME NEW t \in SUBSET S, Cardinality(t) <= n + 1 PROVE Good(t)
    OBVIOUS
  <2>0. CASE t = {}
    BY <1>3, <2>0
  <2>1. CASE t # {}
    <3> DEFINE p == Picked(t)
               rest == t \ {p}
    <3>1. p \in t /\ rest \in SUBSET S /\ it[t] = f[p] + it[rest] /\ f[p] \in Nat
      BY <1>5, <2>1
    <3> HIDE DEF p
    <3>2. \A x \in t : t \ {x} \in SUBSET S /\ Cardinality(t \ {x}) <= n
      BY <1>4, Smaller
    <3>3. \A x \in t : Good(t \ {x})
      <4> HIDE DEF Good
      <4> QED BY <1>7, <3>2
    <3>4. it[t] \in Nat
      <4>1. it[rest] \in Nat
        BY <3>1, <3>3
      <4> QED BY <3>1, <4>1
    <3>5. ASSUME NEW x \in t PROVE it[t] = f[x] + it[t \ {x}]
      <4>1. CASE x = p
        BY <3>1, <4>1
      <4>2. CASE x # p
        <5>1. x \in rest /\ p \in t \ {x}
          BY <3>1, <4>2
        <5>2. it[rest] = f[x] + it[rest \ {x}]
          BY <3>1, <3>3, <5>1
        <5>3. it[t \ {x}] = f[p] + it[(t \ {x}) \ {p}]
          BY <3>3, <5>1
        <5>4. (t \ {x}) \ {p} = rest \ {x}
          OBVIOUS
        <5>5. it[rest \ {x}] \in Nat
          <6>1. rest \ {x} \in SUBSET S /\ Cardinality(rest \ {x}) <= n
            <7>1. IsFiniteSet(rest) /\ Cardinality(rest) <= n /\ Cardinality(rest) \in Nat
              BY <1>4, <3>1, <3>2
            <7>2. Cardinality(rest \ {x}) = Cardinality(rest) - 1
              BY <5>1, <7>1, Smaller
            <7> QED BY <3>1, <7>1, <7>2
          <6>2. Good(rest \ {x})
            <7> HIDE DEF Good
            <7> QED BY <1>7, <6>1
          <6> QED BY <6>2
        <5>6. f[x] \in Nat
          OBVIOUS
        <5> QED
          <6> DEFINE r == it[rest \ {x}]
          <6>1. it[t] = f[p] + (f[x] + r) /\ it[t \ {x}] = f[p] + r /\ r \in Nat
            BY <3>1, <5>2, <5>3, <5>4, <5>5
          <6> HIDE DEF r
          <6> QED BY <3>1, <5>6, <6>1
      <4> QED BY <4>1, <4>2
    <3> QED BY <3>4, <3>5
  <2> QED BY <2>0, <2>1
<1>8. \A t \in SUBSET S : Good(t)
  <2> HIDE DEF T, Good
  <2>1. Nat \subseteq T
    BY <1>6, <1>7, Induction
  <2> SUFFICES ASSUME NEW t \in SUBSET S PROVE Good(t)
    OBVIOUS
  <2>2. Cardinality(t) \in T
    BY <1>4, <2>1
  <2> QED BY <1>4, <2>2 DEF T
<1>9. it \in [SUBSET S -> Nat]
  BY <1>3, <1>8
<1> QED BY <1>2, <1>3, <1>8, <1>9 DEF Totals

(* The sum over a subset is at most the sum over the whole.                  *)
LEMMA SumLess ==
  ASSUME NEW S, IsFiniteSet(S), NEW f \in [S -> Nat], NEW it \in [SUBSET S -> Nat],
         \A t \in SUBSET S : \A x \in t : it[t] = f[x] + it[t \ {x}],
         NEW part \in SUBSET S
  PROVE  it[part] <= it[S]
<1>1. \A t \in SUBSET S : IsFiniteSet(S \ t) /\ Cardinality(S \ t) \in Nat
  BY FS_Subset, FS_CardinalityType
<1> DEFINE T == {n \in Nat : \A t \in SUBSET S : Cardinality(S \ t) = n => it[t] <= it[S]}
<1>2. 0 \in T
  <2> SUFFICES ASSUME NEW t \in SUBSET S, Cardinality(S \ t) = 0 PROVE it[t] <= it[S]
    OBVIOUS
  <2>1. S \ t = {}
    BY <1>1, FS_EmptySet
  <2>2. t = S /\ it[S] \in Nat
    BY <2>1
  <2> QED BY <2>2
<1>3. ASSUME NEW n \in Nat, n \in T PROVE n + 1 \in T
  <2> SUFFICES ASSUME NEW t \in SUBSET S, Cardinality(S \ t) = n + 1 PROVE it[t] <= it[S]
    OBVIOUS
  <2>0. n + 1 # 0
    OBVIOUS
  <2>1. S \ t # {}
    BY <2>0, FS_EmptySet
  <2>2. PICK x \in S \ t : TRUE
    BY <2>1
  <2>3. Cardinality((S \ t) \ {x}) = n
    <3>1. Cardinality((S \ t) \ {x}) = Cardinality(S \ t) - 1
      BY <1>1, <2>2, Smaller
    <3> QED BY <3>1
  <2>4. (S \ t) \ {x} = S \ (t \cup {x}) /\ t \cup {x} \in SUBSET S /\ (t \cup {x}) \ {x} = t
    OBVIOUS
  <2>5. it[t \cup {x}] <= it[S]
    <3>1. Cardinality(S \ (t \cup {x})) = n
      BY <2>3, <2>4
    <3> QED BY <1>3, <2>4, <3>1
  <2>6. it[t \cup {x}] = f[x] + it[t]
    <3>1. x \in t \cup {x}
      OBVIOUS
    <3>2. it[t \cup {x}] = f[x] + it[(t \cup {x}) \ {x}]
      BY <2>4, <3>1
    <3> QED BY <2>4, <3>2
  <2> QED BY <2>4, <2>5, <2>6
<1>4. Cardinality(S \ part) \in T
  <2> HIDE DEF T
  <2>1. Nat \subseteq T
    BY <1>2, <1>3, Induction
  <2> QED BY <1>1, <2>1
<1> QED BY <1>4

(* The same totals serve all subsets.                                        *)
LEMMA SumPart ==
  ASSUME NEW S, IsFiniteSet(S), NEW f \in [S -> Nat], NEW it, Totals(f, S, it),
         NEW whole \in SUBSET S
  PROVE  /\ it[whole] = SumOf(f, whole)
         /\ \A part \in SUBSET whole : it[part] <= it[whole]
<1>1. IsFiniteSet(whole) /\ \A t \in SUBSET whole : IsFiniteSet(t) /\ Cardinality(t) \in Nat
  BY FS_Subset, FS_CardinalityType
<1>2. it[whole] = SumOf(f, whole)
  <2> DEFINE own == CHOOSE i : Adds(f, whole, i)
  <2>1. Adds(f, whole, own) /\ SumOf(f, whole) = own[whole]
    BY <1>1, AddsExists, SumIs
  <2> HIDE DEF own
  <2> DEFINE T == {n \in Nat : \A t \in SUBSET whole : Cardinality(t) = n => own[t] = it[t]}
  <2>2. 0 \in T
    <3> SUFFICES ASSUME NEW t \in SUBSET whole, Cardinality(t) = 0 PROVE own[t] = it[t]
      OBVIOUS
    <3>1. t = {}
      BY <1>1, FS_EmptySet
    <3>2. own[{}] = 0
      BY <2>1 DEF Adds
    <3> QED BY <3>1, <3>2 DEF Totals
  <2>3. ASSUME NEW n \in Nat, n \in T PROVE n + 1 \in T
    <3> SUFFICES ASSUME NEW t \in SUBSET whole, Cardinality(t) = n + 1 PROVE own[t] = it[t]
      OBVIOUS
    <3>1. t # {}
      BY FS_EmptySet
    <3> DEFINE p == Picked(t)
    <3>2. p \in t
      BY <3>1 DEF Picked
    <3>3. own[t] = f[p] + own[t \ {p}]
      BY <2>1, <3>1 DEF Adds
    <3> HIDE DEF p
    <3>4. it[t] = f[p] + it[t \ {p}]
      BY <3>2 DEF Totals
    <3>5. t \ {p} \in SUBSET whole /\ Cardinality(t \ {p}) = n
      <4>1. IsFiniteSet(t)
        BY <1>1
      <4>2. Cardinality(t \ {p}) = Cardinality(t) - 1
        BY <3>2, <4>1, Smaller
      <4> QED BY <4>2
    <3>6. own[t \ {p}] = it[t \ {p}]
      BY <2>3, <3>5
    <3> QED BY <3>3, <3>4, <3>6
  <2>4. Cardinality(whole) \in T
    <3> HIDE DEF T
    <3>1. Nat \subseteq T
      BY <2>2, <2>3, Induction
    <3> QED BY <1>1, <3>1
  <2> QED BY <2>1, <2>4
<1>3. ASSUME NEW part \in SUBSET whole PROVE it[part] <= it[whole]
  <2> DEFINE g == [x \in whole |-> f[x]]
             own == [t \in SUBSET whole |-> it[t]]
  <2>1. g \in [whole -> Nat]
    OBVIOUS
  <2>2. own \in [SUBSET whole -> Nat]
    BY DEF Totals
  <2>3. \A t \in SUBSET whole : \A x \in t : own[t] = g[x] + own[t \ {x}]
    BY DEF Totals
  <2>4. own[part] = it[part] /\ own[whole] = it[whole]
    OBVIOUS
  <2> HIDE DEF g, own
  <2>5. own[part] <= own[whole]
    BY <1>1, <2>1, <2>2, <2>3, SumLess
  <2> QED BY <2>4, <2>5
<1> QED BY <1>2, <1>3

-----------------------------------------------------------------------------
(* Since no slot comes back, what is free is the end of the memory: the calls*)
(* that reserved memory have had it from the start, one after the other.     *)

Memory(S) == MapThenSumSet(LAMBDA s : s.size, S)
SlotAdds(S, it) ==
  it = [t \in SUBSET S |-> IF t = {} THEN 0 ELSE Picked(t).size + it[t \ {Picked(t)}]]

LEMMA MemoryOfSlots ==
  /\ Memory({}) = 0
  /\ \A s \in LogicalSlot : Memory({s}) = s.size
<1>0. \A S : Memory(S) = (CHOOSE it : SlotAdds(S, it))[S]
  BY DEF Memory, MapThenSumSet, MapThenFoldSet, SlotAdds, Picked
<1>1. Memory({}) = 0
  BY DEF Memory, MapThenSumSet, MapThenFoldSet
<1>2. ASSUME NEW s \in LogicalSlot PROVE Memory({s}) = s.size
  <2> DEFINE iter == [t \in SUBSET {s} |-> IF t = {} THEN 0 ELSE s.size]
  <2>0. s.size \in Nat
    OBVIOUS
  <2>1. Picked({s}) = s /\ {s} \ {s} = {} /\ {s} \in SUBSET {s} /\ {s} # {}
    BY DEF Picked
  <2>2. SlotAdds({s}, iter)
    <3>1. iter[{}] = 0 /\ \A t \in SUBSET {s} : t = {} \/ t = {s}
      OBVIOUS
    <3>2. ASSUME NEW t \in SUBSET {s}
          PROVE  (IF t = {} THEN 0 ELSE s.size)
                   = IF t = {} THEN 0 ELSE Picked(t).size + iter[t \ {Picked(t)}]
      <4> HIDE DEF iter
      <4> QED BY <2>0, <2>1, <3>1
    <3> QED BY <3>2 DEF SlotAdds
  <2> HIDE DEF iter
  <2> DEFINE it == CHOOSE it : SlotAdds({s}, it)
  <2>3. SlotAdds({s}, it)
    BY <2>2
  <2>4. Memory({s}) = it[{s}]
    BY <1>0
  <2> HIDE DEF it
  <2>5. it[{}] = 0
    BY <2>3 DEF SlotAdds
  <2>6. it[{s}] = Picked({s}).size + it[{s} \ {Picked({s})}]
    BY <2>1, <2>3 DEF SlotAdds
  <2> QED BY <2>0, <2>1, <2>4, <2>5, <2>6
<1> QED BY <1>1, <1>2

Positive == \A c \in Calls : Size[c] > 0

(* The calls that ever reserved memory.                                      *)
Taken == {c \in Calls : phase[c] \in {"topic", "live", "freeing", "freed", "gone"}}

TailAt(used) ==
  /\ \/ free = {[size |-> U32Max - used, position |-> used]}
     \/ free = {} /\ used = U32Max
  /\ \A c \in Regions : group[c].offset < used

LEMMA TailSlot ==
  ASSUME NEW used \in 0..U32Max, NEW S,
         \/ S = {[size |-> U32Max - used, position |-> used]}
         \/ S = {} /\ used = U32Max
  PROVE  Memory(S) = U32Max - used
<1> DEFINE s == [size |-> U32Max - used, position |-> used]
<1>1. s \in LogicalSlot /\ s.size = U32Max - used
  BY ConstantsAssumption
<1>2. CASE S = {s}
  <2> HIDE DEF s
  <2> QED BY <1>1, <1>2, MemoryOfSlots
<1>3. CASE S = {} /\ used = U32Max
  BY <1>3, MemoryOfSlots, ConstantsAssumption
<1> QED BY <1>2, <1>3

LEMMA TailReserve ==
  ASSUME TypeOK, NEW used \in 0..U32Max, TailAt(used), NEW c \in Calls, Size[c] > 0, Reserve(c)
  PROVE  used + Size[c] \in 0..U32Max /\ TailAt(used + Size[c])'
<1>1. PICK slot \in LargeEnough(Size[c]) :
        /\ free' = (free \ {slot}) \cup Remainder(slot, Size[c])
        /\ group' = [group EXCEPT ![c] = [offset |-> slot.position, allocated |-> slot.size]]
  BY DEF Reserve
<1>2. slot = [size |-> U32Max - used, position |-> used] /\ free = {slot} /\ slot.size >= Size[c]
  BY <1>1 DEF TailAt, LargeEnough
<1>3. Size[c] \in Nat /\ Size[c] > 0 /\ U32Max \in Nat
  BY ConstantsAssumption
<1>4. used + Size[c] \in 0..U32Max
  BY <1>2, <1>3
<1> DEFINE next == used + Size[c]
<1>5. \/ free' = {[size |-> U32Max - next, position |-> next]}
      \/ free' = {} /\ next = U32Max
  <2>1. CASE slot.size > Size[c]
    <3>1. Remainder(slot, Size[c]) = {[size |-> U32Max - next, position |-> next]}
      <4>1. slot.size - Size[c] = U32Max - next /\ slot.position + Size[c] = next
        BY <1>2, <1>3
      <4> QED BY <2>1, <4>1 DEF Remainder
    <3> QED BY <1>1, <1>2, <3>1
  <2>2. CASE ~(slot.size > Size[c])
    <3>1. Remainder(slot, Size[c]) = {} /\ next = U32Max
      BY <1>2, <1>3, <2>2 DEF Remainder
    <3> QED BY <1>1, <1>2, <3>1
  <2> QED BY <2>1, <2>2
<1>6. Regions' = Regions \cup {c}
  BY DEF Reserve, Goto, Regions, TypeOK
<1>7. \A d \in Regions' : group'[d].offset < next
  <2>1. group'[c].offset = used
    BY <1>1, <1>2 DEF TypeOK
  <2>2. used < next
    BY <1>3
  <2>3. \A d \in Regions : d # c => group'[d].offset < next
    <3> SUFFICES ASSUME NEW d \in Regions, d # c PROVE group'[d].offset < next
      OBVIOUS
    <3>1. group'[d] = group[d] /\ group[d].offset \in Nat /\ group[d].offset < used
      BY <1>1 DEF TypeOK, Regions, TailAt
    <3> QED BY <1>3, <3>1
  <2> QED BY <1>6, <2>1, <2>2, <2>3
<1> HIDE DEF next
<1>8. PICK n : n = next
  OBVIOUS
<1>9. TailAt(n)'
  BY <1>5, <1>7, <1>8 DEF TailAt
<1> QED BY <1>4, <1>8, <1>9 DEF next

LEMMA TailStep ==
  ASSUME TypeOK, \A c \in Calls : phase[c] = "lock" => Size[c] > 0,
         NEW used \in 0..U32Max, TailAt(used), [Next]_vars
  PROVE  \/ free' = free /\ Taken' = Taken /\ TailAt(used)'
         \/ \E c \in Calls \ Taken :
              /\ Reserve(c) /\ Taken' = Taken \cup {c}
              /\ used + Size[c] \in 0..U32Max /\ TailAt(used + Size[c])'
<1>1. ASSUME NEW c \in Calls, Reserve(c)
      PROVE  c \notin Taken /\ Taken' = Taken \cup {c}
  BY <1>1 DEF Reserve, Goto, Taken, TypeOK
<1>2. ASSUME NEW c \in Calls, DropSlot(c)
      PROVE  free' = free
  <2>1. c \in Regions /\ Dropped(c).position = group[c].offset
    BY <1>2 DEF DropSlot, Regions, Dropped
  <2>2. group[c].offset < used /\ group[c].offset \in Nat
    BY <2>1 DEF TailAt, TypeOK
  <2>3. \A s \in free : s.position = used
    BY DEF TailAt
  <2>4. Dropped(c) \notin free
    BY <2>1, <2>2, <2>3
  <2> QED BY <1>2, <2>4 DEF DropSlot
<1>3. CASE ~ \E c \in Calls : Reserve(c)
  <2>1. free' = free
    BY <1>2, <1>3 DEF Next, Ask, AskPanic, Enter, Refuse, Obtain, Cancel, DropTopic, DropConfig, Idle, vars
  <2>2. /\ Taken' = Taken /\ Regions' \subseteq Regions /\ group' = group
    BY <1>3 DEF Next, Ask, AskPanic, Enter, Refuse, Obtain, Cancel, DropTopic, DropSlot,
                DropConfig, Idle, vars, Goto, Regions, Taken, TypeOK
  <2> QED BY <2>1, <2>2 DEF TailAt
<1>4. ASSUME NEW c \in Calls, Reserve(c)
      PROVE  used + Size[c] \in 0..U32Max /\ TailAt(used + Size[c])'
  <2>1. Size[c] > 0
    BY <1>4 DEF Reserve
  <2> QED BY <1>4, <2>1, TailReserve
<1> QED BY <1>1, <1>3, <1>4

LEMMA TailInvariant ==
  ASSUME Positive
  PROVE  Spec => [](TypeOK /\ \E used \in 0..U32Max : TailAt(used))
<1>1. Init => \E used \in 0..U32Max : TailAt(used)
  <2> SUFFICES ASSUME Init PROVE TailAt(0) /\ 0 \in 0..U32Max
    OBVIOUS
  <2>1. Regions = {} /\ U32Max \in Nat /\ U32Max - 0 = U32Max
    BY ConstantsAssumption DEF Init, Regions
  <2> QED BY <2>1 DEF Init, TailAt
<1>2. TypeOK /\ (\E used \in 0..U32Max : TailAt(used)) /\ [Next]_vars
        => (\E used \in 0..U32Max : TailAt(used))'
  <2> SUFFICES ASSUME TypeOK, NEW used \in 0..U32Max, TailAt(used), [Next]_vars
               PROVE  \E u \in 0..U32Max : TailAt(u)'
    OBVIOUS
  <2> QED BY TailStep DEF Positive
<1> QED BY <1>1, <1>2, InitType, NextType, PTL DEF Spec

(* Memory only leaves `free` for a group being made, and as much as it needs,*)
(* as long as no mapping is empty: the slot of a dropped group, which `drop` *)
(* takes out of `free`, is never there.                                      *)
THEOREM ReservedOnly ==
  ASSUME Positive
  PROVE  Spec => TakenIsReserved
<1> DEFINE A == FreeMemory' < FreeMemory =>
                  \E c \in Calls : /\ phase[c] = "lock" /\ phase'[c] = "topic"
                                   /\ FreeMemory' = FreeMemory - Size[c]
<1>1. TypeOK /\ (\E used \in 0..U32Max : TailAt(used)) /\ [Next]_vars => [A]_vars
  <2> SUFFICES ASSUME TypeOK, NEW used \in 0..U32Max, TailAt(used), [Next]_vars,
                      FreeMemory' < FreeMemory
               PROVE  \E c \in Calls : /\ phase[c] = "lock" /\ phase'[c] = "topic"
                                       /\ FreeMemory' = FreeMemory - Size[c]
    OBVIOUS
  <2>0. U32Max \in Nat /\ Size \in [Calls -> Nat]
    BY ConstantsAssumption
  <2>1. FreeMemory = U32Max - used
    <3>1. FreeMemory = Memory(free)
      BY DEF FreeMemory, Memory, MapThenSumSet, MapThenFoldSet
    <3> QED BY <3>1, TailSlot DEF TailAt
  <2>2. PICK after : after = free' /\ FreeMemory' = Memory(after)
    <3>1. \A S : S = free' => FreeMemory' = Memory(S)
      BY DEF FreeMemory, Memory, MapThenSumSet, MapThenFoldSet
    <3> QED BY <3>1
  <2>3. free' # free
    <3>1. FreeMemory = Memory(free)
      BY DEF FreeMemory, Memory, MapThenSumSet, MapThenFoldSet
    <3> QED BY <2>0, <2>1, <2>2, <3>1
  <2>4. PICK c \in Calls : Reserve(c) /\ used + Size[c] \in 0..U32Max /\ TailAt(used + Size[c])'
    BY <2>3, TailStep DEF Positive
  <2>5. FreeMemory' = U32Max - (used + Size[c])
    <3>1. PICK u \in 0..U32Max : u = used + Size[c] /\ TailAt(u)'
      BY <2>4
    <3>2. \/ after = {[size |-> U32Max - u, position |-> u]}
          \/ after = {} /\ u = U32Max
      BY <2>2, <3>1 DEF TailAt
    <3> QED BY <2>2, <3>1, <3>2, TailSlot
  <2>6. phase[c] = "lock" /\ phase'[c] = "topic"
    BY <2>4 DEF Reserve, Goto, TypeOK
  <2>7. FreeMemory' = FreeMemory - Size[c]
    BY <2>0, <2>1, <2>5
  <2> QED BY <2>6, <2>7
<1> QED BY <1>1, TailInvariant, PTL DEF Spec, TakenIsReserved

-----------------------------------------------------------------------------
(* The Weak of a slave refers to the Arc of a call that was made and uses it.*)
SlavesUse == \A k \in Slaves : slaves[k] # None => slaves[k] \in Made /\ k \in Uses[slaves[k]]
Quiet == ~poisoned /\ (\A c \in Calls : phase[c] # "panicked") /\ SlavesUse

(* Acceptable without its sum.                                               *)
Agree(calls) ==
  /\ \A c, d \in calls : \A k \in Uses[d] : Config[c][k] \in {Absent, Config[d][k]}
  /\ \A c \in calls : Size[c] > 0 /\ Mapped[c] = {}

LEMMA AcceptableIs ==
  ASSUME NEW calls
  PROVE  Acceptable(calls) <=> Agree(calls) /\ SumOf(Size, calls) <= U32Max
BY DEF Acceptable, Agree, SumOf

LEMMA FewerAgree ==
  ASSUME NEW calls, NEW fewer \in SUBSET calls, Agree(calls)
  PROVE  Agree(fewer)
BY DEF Agree

LEMMA MadeGrows ==
  ASSUME TypeOK, [Next]_vars
  PROVE  Made \subseteq Made' /\ Taken \subseteq Made
<1>1. Taken \subseteq Made
  BY DEF Taken, Made
<1>2. ASSUME NEW c \in Calls, phase[c] # "idle" PROVE phase'[c] # "idle"
  BY <1>2 DEF Next, Ask, AskPanic, Enter, Reserve, Refuse, Obtain, Cancel, DropTopic, DropSlot,
              DropConfig, Idle, vars, Goto, TypeOK
<1> QED BY <1>1, <1>2 DEF Made

(* A call that comes to the mutex is accepted if the memory has room for it. *)
LEMMA Accommodated ==
  ASSUME TypeOK, Agree(Made), Quiet,
         NEW used \in 0..U32Max, TailAt(used), NEW c \in Made, used + Size[c] <= U32Max
  PROVE  Accepted(c)
<1>0. c \in Calls
  BY DEF Made
<1>1. Compatible(c)
  <2> SUFFICES ASSUME NEW k \in Slaves, Config[c][k] # Absent, Upgrade(k)
               PROVE  Config[slaves[k]][k] = Config[c][k]
    BY DEF Compatible
  <2>1. slaves[k] \in Made /\ k \in Uses[slaves[k]]
    BY DEF Upgrade, TypeOK, Quiet, SlavesUse
  <2> QED BY <2>1 DEF Agree
<1>2. ~StillMapped(c)
  BY DEF StillMapped, Unreadable, Agree
<1>3. LargeEnough(Size[c]) # {}
  <2> DEFINE s == [size |-> U32Max - used, position |-> used]
  <2>1. Size[c] \in Nat /\ Size[c] > 0 /\ U32Max \in Nat
    BY <1>0, ConstantsAssumption DEF Agree
  <2>2. used # U32Max /\ s.size >= Size[c]
    BY <2>1
  <2>3. s \in free
    BY <2>2 DEF TailAt
  <2> QED BY <2>2, <2>3 DEF LargeEnough
<1> QED BY <1>1, <1>2, <1>3 DEF Accepted, Quiet

LEMMA QuietStep ==
  ASSUME TypeOK, Agree(Made'), Quiet,
         \A c \in Calls : phase[c] = "lock" => Accepted(c), [Next]_vars
  PROVE  Quiet'
<1>1. ASSUME NEW c \in Calls PROVE ~AskPanic(c)
  <2> SUFFICES ASSUME AskPanic(c) PROVE FALSE
    OBVIOUS
  <2>1. c \in Made'
    BY DEF AskPanic, Goto, Made, TypeOK
  <2> QED BY <2>1 DEF AskPanic, Unreadable, Quiet, Agree
<1>2. ASSUME NEW c \in Calls PROVE ~Refuse(c)
  BY DEF Refuse
<1>3. ~poisoned' /\ \A c \in Calls : phase'[c] # "panicked"
  BY <1>1, <1>2 DEF Next, Ask, Enter, Reserve, Obtain, Cancel, DropTopic, DropSlot, DropConfig, Idle,
              vars, Goto, Quiet, TypeOK
<1>4. SlavesUse'
  <2>0. Made \subseteq Made'
    BY MadeGrows
  <2>1. CASE \E c \in Calls : Reserve(c)
    <3>1. PICK c \in Calls : Reserve(c)
      BY <2>1
    <3>2. \A k \in Slaves : slaves'[k] = IF k \in Uses[c] THEN SharedConfig(c)[k] ELSE slaves[k]
      BY <3>1 DEF Reserve
    <3>3. \A k \in Uses[c] : SharedConfig(c)[k] = slaves[k] \/ SharedConfig(c)[k] = c
      BY ConstantsAssumption DEF SharedConfig
    <3>4. c \in Made
      BY <3>1 DEF Reserve, Made
    <3> QED BY <2>0, <3>2, <3>3, <3>4 DEF Quiet, SlavesUse
  <2>2. CASE ~ \E c \in Calls : Reserve(c)
    <3>1. slaves' = slaves
      BY <2>2 DEF Next, Ask, AskPanic, Enter, Refuse, Obtain, Cancel, DropTopic, DropSlot, DropConfig,
                  Idle, vars
    <3> QED BY <2>0, <3>1 DEF Quiet, SlavesUse
  <2> QED BY <2>1, <2>2
<1> QED BY <1>3, <1>4 DEF Quiet

(* As long as the mappings of the calls made agree on the slaves they share, *)
(* none of them is empty or has a slave of another mapping, and all fit      *)
(* together in the memory, no call of `group`, and no question about one,    *)
(* panics, whatever is cancelled or dropped meanwhile, for any number of     *)
(* calls on any threads.                                                     *)
THEOREM EveryoneAccepted ==
  ASSUME IsFiniteSet(Calls)
  PROVE  Spec => []NobodyRefused
<1>a. IsFiniteSet(Calls)
  OBVIOUS
<1>0. Size \in [Calls -> Nat] /\ U32Max \in Nat
  BY ConstantsAssumption
<1>b. PICK it : Totals(Size, Calls, it)
  BY <1>a, <1>0, SumSteps
<1>1. /\ it \in [SUBSET Calls -> Nat] /\ it[{}] = 0
      /\ \A t \in SUBSET Calls : \A x \in t : it[t] = Size[x] + it[t \ {x}]
  BY <1>b DEF Totals
<1>2. ASSUME NEW calls \in SUBSET Calls
      PROVE  /\ Acceptable(calls) <=> Agree(calls) /\ it[calls] <= U32Max
             /\ \A t \in SUBSET calls : it[t] <= it[calls]
  <2>1. /\ it[calls] = SumOf(Size, calls)
        /\ \A t \in SUBSET calls : it[t] <= it[calls]
    BY <1>a, <1>0, <1>b, SumPart
  <2> QED BY <2>1, AcceptableIs
<1>3. ASSUME NEW calls \in SUBSET Calls, NEW fewer \in SUBSET calls, Acceptable(calls)
      PROVE  Acceptable(fewer) /\ it[fewer] \in 0..U32Max
  <2>1. fewer \in SUBSET Calls /\ it[fewer] \in Nat /\ it[calls] \in Nat
    BY <1>1
  <2>2. it[fewer] <= it[calls] /\ it[calls] <= U32Max /\ Agree(calls)
    BY <1>2, <1>3
  <2>3. Agree(fewer)
    BY <2>2, FewerAgree
  <2>4. it[fewer] <= U32Max
    BY <1>0, <2>1, <2>2
  <2> QED BY <1>0, <1>2, <2>1, <2>3, <2>4
<1>4. ASSUME NEW t \in SUBSET Calls, NEW c \in Calls \ t PROVE it[t \cup {c}] = it[t] + Size[c]
  <2>1. t \cup {c} \in SUBSET Calls /\ c \in t \cup {c} /\ (t \cup {c}) \ {c} = t
    OBVIOUS
  <2>2. it[t \cup {c}] = Size[c] + it[(t \cup {c}) \ {c}]
    BY <1>1, <2>1
  <2>3. it[t \cup {c}] = Size[c] + it[t] /\ it[t] \in Nat
    BY <1>1, <2>1, <2>2
  <2> QED BY <1>0, <2>3
<1> DEFINE Fits == Quiet /\ \E t \in SUBSET Calls : t = Taken /\ TailAt(it[t])
           Inv == TypeOK /\ (Acceptable(Made) => Fits)
<1>5. Init => Inv
  <2> SUFFICES ASSUME Init PROVE Inv
    OBVIOUS
  <2>1. Quiet
    BY DEF Init, Quiet, SlavesUse
  <2>2. Taken = {} /\ TailAt(0)
    <3>1. Regions = {} /\ U32Max - 0 = U32Max
      BY <1>0 DEF Init, Regions
    <3> QED BY <3>1 DEF Init, Taken, TailAt
  <2> QED BY <1>1, <2>1, <2>2, InitType
<1>6. Inv /\ [Next]_vars => Inv'
  <2>0. TypeOK /\ [Next]_vars => TypeOK'
    BY NextType
  <2> SUFFICES ASSUME TypeOK, Acceptable(Made) => Fits, [Next]_vars, Acceptable(Made)'
               PROVE  Fits'
    BY <2>0
  <2>1. Made \subseteq Made' /\ Taken \subseteq Made /\ Made' \subseteq Calls
    BY MadeGrows DEF Made
  <2>2. PICK all \in SUBSET Calls : all = Made' /\ Acceptable(all) /\ Made \in SUBSET all
    <3>1. \A S : S = Made' => (Acceptable(S) <=> Acceptable(Made)')
      BY DEF Acceptable, MapThenSumSet, MapThenFoldSet
    <3> QED BY <2>1, <3>1
  <2>3. Acceptable(Made) /\ Agree(Made) /\ Agree(Made')
    <3>1. Acceptable(Made)
      BY <1>3, <2>2
    <3> QED BY <1>2, <2>1, <2>2, <3>1
  <2>4. Quiet
    BY <2>3
  <2>5. PICK t \in SUBSET Calls : t = Taken /\ TailAt(it[t])
    BY <2>3
  <2>6. PICK used \in 0..U32Max : used = it[t]
    <3>1. t \in SUBSET all
      BY <2>1, <2>2, <2>5
    <3> QED BY <1>3, <2>2, <3>1
  <2>7. ASSUME NEW c \in Calls, phase[c] = "lock" PROVE Accepted(c) /\ Size[c] > 0
    <3>1. c \in Made /\ c \notin t
      BY <2>5, <2>7 DEF Made, Taken
    <3>2. t \cup {c} \in SUBSET all
      BY <2>1, <2>2, <2>5, <3>1
    <3>3. it[t \cup {c}] \in 0..U32Max
      BY <1>3, <2>2, <3>2
    <3>4. it[t \cup {c}] = used + Size[c]
      BY <1>4, <2>6, <3>1
    <3>5. used + Size[c] <= U32Max
      BY <1>0, <3>3, <3>4
    <3>6. Size[c] > 0
      BY <2>3, <3>1 DEF Agree
    <3>7. TailAt(used)
      BY <2>5, <2>6
    <3> QED BY <2>3, <2>4, <3>1, <3>5, <3>6, <3>7, Accommodated
  <2>8. Quiet'
    BY <2>3, <2>4, <2>7, QuietStep
  <2>9. \E u \in SUBSET Calls : u = Taken' /\ TailAt(it[u])'
    <3>1. TailAt(used)
      BY <2>5, <2>6
    <3>2. CASE Taken' = Taken /\ TailAt(used)'
      BY <2>5, <2>6, <3>2
    <3>3. CASE \E c \in Calls \ Taken : Taken' = Taken \cup {c} /\ TailAt(used + Size[c])'
      <4>1. PICK c \in Calls \ t : Taken' = t \cup {c} /\ TailAt(used + Size[c])'
        BY <2>5, <3>3
      <4>2. it[t \cup {c}] = used + Size[c]
        BY <1>4, <2>6
      <4> QED BY <4>1, <4>2
    <3> QED BY <2>7, <3>1, <3>2, <3>3, TailStep
  <2> QED BY <2>8, <2>9
<1>7. Inv => NobodyRefused
  BY DEF Quiet, NobodyRefused
<1> QED BY <1>5, <1>6, <1>7, PTL DEF Spec
=============================================================================
