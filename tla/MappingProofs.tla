---------------------------- MODULE MappingProofs ----------------------------
(***************************************************************************)
(* Proofs about Mapping: that no slave refuses a write of `configure`,     *)
(* that the lists of a Config stay within their capacities, and that the   *)
(* fields of a group that configured a slave are exchanged with it.        *)
(***************************************************************************)
EXTENDS MappingFields, FiniteSetTheorems, SequenceTheorems, WellFoundedInduction, TLAPS

-----------------------------------------------------------------------------
(* Types *)

Lists == Channels \cup Pdos

(* The HashMaps with keys of K and values of V.                              *)
Maps(K, V) == UNION {[D -> V] : D \in SUBSET K}

PdoLists     == Maps(Pdos, Seq(SdoBits))
ChannelLists == Maps(Channels, [pdos : Seq(Pdos), start : Nat])

HeldType ==
  {h \in [pdos : PdoLists, channels : ChannelLists, fmmu : Seq(Fmmu)] :
     IsFiniteSet(DOMAIN h.pdos) /\ IsFiniteSet(DOMAIN h.channels)}

GuardType ==
  [mapping : Mappings \cup {Nobody}, channel : Channels \cup {Nobody},
   pdo : Pdos \cup {Nobody}, position : Int]

(* What a MappingSlave has open is in the ConfigSlave it holds.              *)
Opened(g, h) ==
  /\ g.channel # Nobody => g.channel \in DOMAIN h.channels /\ g.position \in Nat
  /\ g.pdo # Nobody => g.channel # Nobody /\ g.pdo \in DOMAIN h.pdos

Origins == [byte : Nat] \cup [channel : Channels, pdo : Pdos, index : Nat]

Field ==
  [slave : Slaves, direction : {"read", "write"}, logical : Nat, length : Nat, origin : Origins]

GroupType ==
  [made : BOOLEAN, offset : Nat, config : Maps(Slaves, HeldType),
   fields : SUBSET Field, configured : SUBSET Slaves]

Syncs == [enable : BOOLEAN, start : Nat, length : {SyncLength(h, c) : h \in HeldType, c \in Channels}]

LenOps   == [op : {"len"}, list : Lists, index : {0}, value : Nat]
ItemOps  == [op : {"item"}, list : Lists, index : Nat, value : Pdos \cup SdoBits]
CheckOps == [op : {"check"}, list : Lists, index : Nat, value : Pdos \cup SdoBits]
SyncOps  == [op : {"sync"}, list : Channels, index : {0}, value : Syncs]
FmmuOps  == [op : {"fmmu"}, list : {Nobody}, index : Nat, value : Fmmu]
Ops      == LenOps \cup ItemOps \cup CheckOps \cup SyncOps \cup FmmuOps

SlaveLists == [Lists -> [len : Nat, items : Seq(Pdos \cup Nat)]]
SlaveType  == [list : SlaveLists, sync : [Channels -> [enable : BOOLEAN, start : Nat, length : {0}] \cup Syncs],
               fmmu : Seq(Fmmu)]

BuildingType ==
  /\ config \in [Configs -> [Slaves -> HeldType]]
  /\ guard \in [Configs -> [Slaves -> GuardType]]
  /\ \A x \in Configs, s \in Slaves : Opened(guard[x][s], config[x][s])
  /\ slaves \in [Mappings -> SUBSET Slaves]
  /\ offset \in [Mappings -> Nat]
  /\ fields \in [Mappings -> SUBSET Field]
GroupingType ==
  /\ group \in [Mappings -> GroupType]
  /\ allocated \in 0..LogicalSize
WritingType ==
  /\ todo \in [Slaves -> [mapping : Mappings \cup {Nobody}, writes : Seq(Ops)]]
  /\ latest \in [Slaves -> Mappings \cup {Nobody}]
  /\ memory \in [Slaves -> SlaveType]

Types == BuildingType /\ GroupingType /\ WritingType

-----------------------------------------------------------------------------
(* Building *)

LEMMA Emptiness ==
  /\ NewConfig \in HeldType /\ Closed \in GuardType /\ Poisoned \in GuardType
  /\ \A m \in Mappings : Open(m) \in GuardType
  /\ NoGroup \in GroupType
  /\ Idle \in [mapping : Mappings \cup {Nobody}, writes : Seq(Ops)]
<1>1. <<>> \in PdoLists /\ <<>> \in ChannelLists
  <2>1. <<>> \in [{} -> Seq(SdoBits)] /\ <<>> \in [{} -> [pdos : Seq(Pdos), start : Nat]]
    OBVIOUS
  <2> QED BY <2>1 DEF PdoLists, ChannelLists, Maps
<1>2. NewConfig \in HeldType
  <2>1. DOMAIN <<>> = {} /\ IsFiniteSet({})
    BY FS_EmptySet
  <2>2. <<>> \in Seq(Fmmu)
    OBVIOUS
  <2> QED BY <1>1, <2>1, <2>2 DEF NewConfig, HeldType
<1>3. Closed \in GuardType /\ Poisoned \in GuardType /\ \A m \in Mappings : Open(m) \in GuardType
  BY DEF Closed, Poisoned, Open, GuardType
<1>4. NoGroup \in GroupType
  <2>1. <<>> \in [{} -> HeldType]
    OBVIOUS
  <2>2. <<>> \in Maps(Slaves, HeldType)
    BY <2>1 DEF Maps
  <2> QED BY <2>2 DEF NoGroup, GroupType
<1>5. Idle \in [mapping : Mappings \cup {Nobody}, writes : Seq(Ops)]
  BY DEF Idle
<1> QED BY <1>2, <1>3, <1>4, <1>5

LEMMA InitTypes == Init => Types
<1> SUFFICES ASSUME Init PROVE Types
  OBVIOUS
<1>1. BuildingType
  <2>1. \A x \in Configs, s \in Slaves : Opened(guard[x][s], config[x][s])
    BY DEF Init, Opened, Closed
  <2> QED BY <2>1, Emptiness DEF Init, BuildingType
<1>2. GroupingType
  BY Emptiness, ConstantsAssumption DEF Init, GroupingType
<1>3. WritingType
  <2>1. NewSlave \in SlaveType
    <3>1. \A x \in Lists : (IF x \in Fixed THEN [len |-> Len(Factory[x]), items |-> Factory[x]]
                              ELSE [len |-> 0, items |-> <<>>]) \in [len : Nat, items : Seq(Pdos \cup Nat)]
      <4> SUFFICES ASSUME NEW x \in Fixed PROVE Len(Factory[x]) \in Nat /\ Factory[x] \in Seq(Pdos \cup Nat)
        OBVIOUS
      <4>1. Factory[x] \in Seq(Nat)
        BY ConstantsAssumption
      <4>2. Factory[x] \in Seq(Pdos \cup Nat)
        BY <4>1, SeqMonotonic
      <4> QED BY <4>1, <4>2
    <3>2. NewSlave.list \in SlaveLists
      BY <3>1 DEF NewSlave, SlaveLists, Lists
    <3> QED BY <3>2 DEF NewSlave, SlaveType
  <2> QED BY <2>1, Emptiness DEF Init, WritingType
<1> QED BY <1>1, <1>2, <1>3 DEF Types

(* A piece of the mapping's memory adds to the FMMU entries, or extends one. *)
LEMMA InsertedType ==
  ASSUME NEW fmmu \in Seq(Fmmu), NEW direction \in {"read", "write"}, NEW logical \in Nat,
         NEW physical \in Nat, NEW length \in Nat
  PROVE  Inserted(fmmu, direction, logical, physical, length) \in Seq(Fmmu)
<1>1. CASE fmmu # <<>> /\ Extends(Last(fmmu), direction, logical, physical)
  <2>1. Len(fmmu) \in 1..Len(fmmu) /\ fmmu[Len(fmmu)] \in Fmmu
    BY <1>1, EmptySeq, ElementOfSeq
  <2> DEFINE e == [fmmu[Len(fmmu)] EXCEPT !.length = @ + length]
  <2>2. e \in Fmmu
    BY <2>1, SMTT(30) DEF Fmmu
  <2>3. Inserted(fmmu, direction, logical, physical, length) = [fmmu EXCEPT ![Len(fmmu)] = e]
    BY <1>1 DEF Inserted
  <2> HIDE DEF e
  <2> QED BY <2>1, <2>2, <2>3, ExceptSeq
<1>2. CASE ~(fmmu # <<>> /\ Extends(Last(fmmu), direction, logical, physical))
  <2>1. [direction |-> direction, length |-> length, logical |-> logical, physical |-> physical] \in Fmmu
    BY DEF Fmmu
  <2> QED BY <1>2, <2>1, AppendProperties DEF Inserted
<1> QED BY <1>1, <1>2

(* Changes of the ConfigSlave that a mapping holds.                          *)
LEMMA HeldChange ==
  ASSUME BuildingType, NEW m \in Mappings, NEW s \in Slaves,
         NEW h \in HeldType, config' = [config EXCEPT ![ConfigOf[m]][s] = h],
         NEW g \in GuardType, guard' = [guard EXCEPT ![ConfigOf[m]][s] = g], Opened(g, h)
  PROVE  /\ config' \in [Configs -> [Slaves -> HeldType]]
         /\ guard' \in [Configs -> [Slaves -> GuardType]]
         /\ \A x \in Configs, z \in Slaves : Opened(guard'[x][z], config'[x][z])
<1>1. ConfigOf[m] \in Configs
  BY DEF Configs
<1>2. \A x \in Configs, z \in Slaves :
        IF x = ConfigOf[m] /\ z = s THEN config'[x][z] = h /\ guard'[x][z] = g
        ELSE config'[x][z] = config[x][z] /\ guard'[x][z] = guard[x][z]
  BY <1>1 DEF BuildingType
<1>3. \A x \in Configs, z \in Slaves : Opened(guard'[x][z], config'[x][z])
  <2> SUFFICES ASSUME NEW x \in Configs, NEW z \in Slaves PROVE Opened(guard'[x][z], config'[x][z])
    OBVIOUS
  <2>1. \/ config'[x][z] = h /\ guard'[x][z] = g
        \/ config'[x][z] = config[x][z] /\ guard'[x][z] = guard[x][z]
    BY <1>2
  <2> QED BY <2>1 DEF BuildingType
<1> QED BY <1>1, <1>3 DEF BuildingType

LEMMA Same ==
  ASSUME BuildingType, NEW m \in Mappings, NEW s \in Slaves
  PROVE  /\ ConfigOf[m] \in Configs /\ Held(m, s) \in HeldType /\ Guard(m, s) \in GuardType
         /\ Opened(Guard(m, s), Held(m, s))
         /\ config = [config EXCEPT ![ConfigOf[m]][s] = Held(m, s)]
<1>1. ConfigOf[m] \in Configs
  BY DEF Configs
<1> QED BY <1>1 DEF BuildingType, Held, Guard

LEMMA SlaveTypes ==
  ASSUME Types, NEW m \in Mappings, NEW s \in Slaves, Slave(m, s)
  PROVE  Types'
<1>1. Opened(Open(m), Held(m, s))
  BY DEF Opened, Open, Closed
<1>2. BuildingType'
  <2>1. config' = [config EXCEPT ![ConfigOf[m]][s] = Held(m, s)]
    BY Same DEF Slave, Types
  <2>2. guard' = [guard EXCEPT ![ConfigOf[m]][s] = Open(m)]
    BY DEF Slave, SetGuard
  <2>3. /\ config' \in [Configs -> [Slaves -> HeldType]]
        /\ guard' \in [Configs -> [Slaves -> GuardType]]
        /\ \A x \in Configs, z \in Slaves : Opened(guard'[x][z], config'[x][z])
    BY <1>1, <2>1, <2>2, Same, HeldChange, Emptiness DEF Types
  <2> QED BY <2>3 DEF BuildingType, Types, Slave
<1> QED BY <1>2 DEF Types, GroupingType, WritingType, Slave, grouping, writing

LEMMA DropSlaveTypes ==
  ASSUME Types, NEW m \in Mappings, NEW s \in Slaves, DropSlave(m, s)
  PROVE  Types'
<1>1. Opened(Closed, Held(m, s))
  BY DEF Opened, Closed
<1>2. BuildingType'
  <2>1. config' = [config EXCEPT ![ConfigOf[m]][s] = Held(m, s)]
    BY Same DEF DropSlave, Types
  <2>2. guard' = [guard EXCEPT ![ConfigOf[m]][s] = Closed]
    BY DEF DropSlave, SetGuard
  <2>3. /\ config' \in [Configs -> [Slaves -> HeldType]]
        /\ guard' \in [Configs -> [Slaves -> GuardType]]
        /\ \A x \in Configs, z \in Slaves : Opened(guard'[x][z], config'[x][z])
    BY <1>1, <2>1, <2>2, Same, HeldChange, Emptiness DEF Types
  <2> QED BY <2>3 DEF BuildingType, Types, DropSlave
<1> QED BY <1>2 DEF Types, GroupingType, WritingType, DropSlave, grouping, writing

LEMMA PushPanicTypes ==
  ASSUME Types, NEW m \in Mappings, NEW s \in Slaves, PushPanic(m, s)
  PROVE  Types'
<1>1. Opened(Poisoned, Held(m, s))
  BY DEF Opened, Poisoned, Closed
<1>2. BuildingType'
  <2>1. config' = [config EXCEPT ![ConfigOf[m]][s] = Held(m, s)]
    BY Same DEF PushPanic, Types
  <2>2. guard' = [guard EXCEPT ![ConfigOf[m]][s] = Poisoned]
    BY DEF PushPanic, SetGuard
  <2>3. /\ config' \in [Configs -> [Slaves -> HeldType]]
        /\ guard' \in [Configs -> [Slaves -> GuardType]]
        /\ \A x \in Configs, z \in Slaves : Opened(guard'[x][z], config'[x][z])
    BY <1>1, <2>1, <2>2, Same, HeldChange, Emptiness DEF Types
  <2> QED BY <2>3 DEF BuildingType, Types, PushPanic
<1> QED BY <1>2 DEF Types, GroupingType, WritingType, PushPanic, grouping, writing

(* A PDO or a channel that is started over.                                  *)
LEMMA StartedOverType ==
  ASSUME NEW A, NEW V, NEW x \in A, NEW v \in V,
         NEW f \in Maps(A, V), IsFiniteSet(DOMAIN f)
  PROVE  /\ StartedOver(f, x, v) \in Maps(A, V)
         /\ DOMAIN StartedOver(f, x, v) = DOMAIN f \cup {x}
         /\ IsFiniteSet(DOMAIN f \cup {x})
<1>1. DOMAIN f \in SUBSET A /\ \A y \in DOMAIN f : f[y] \in V
  BY DEF Maps
<1> DEFINE h == [y \in DOMAIN f \cup {x} |-> IF y = x THEN v ELSE f[y]]
<1>2. h \in [DOMAIN f \cup {x} -> V] /\ DOMAIN f \cup {x} \in SUBSET A
  BY <1>1
<1>3. h \in Maps(A, V)
  <2> HIDE DEF h
  <2> QED BY <1>2 DEF Maps
<1>4. IsFiniteSet(DOMAIN f \cup {x})
  BY FS_AddElement
<1> QED BY <1>3, <1>4 DEF StartedOver

LEMMA ChannelTypes ==
  ASSUME Types, NEW m \in Mappings, NEW s \in Slaves, NEW c \in Channels, Channel(m, s, c)
  PROVE  Types'
<1> DEFINE o == Held(m, s)
           h == [o EXCEPT !.channels = StartedOver(@, c, [pdos |-> <<>>, start |-> Buffer[c].start])]
           g == [Open(m) EXCEPT !.channel = c, !.position = Buffer[c].start]
<1>1. o \in HeldType
  BY Same DEF Types
<1>2. h \in HeldType /\ DOMAIN h.channels = DOMAIN o.channels \cup {c}
  <2> HIDE DEF o
  <2>1. [pdos |-> <<>>, start |-> Buffer[c].start] \in [pdos : Seq(Pdos), start : Nat]
    BY ConstantsAssumption
  <2>2. o.channels \in ChannelLists /\ IsFiniteSet(DOMAIN o.channels)
    BY <1>1 DEF HeldType
  <2> DEFINE v == [pdos |-> <<>>, start |-> Buffer[c].start]
             V == [pdos : Seq(Pdos), start : Nat]
             f == StartedOver(o.channels, c, v)
  <2>3. v \in V
    BY <2>1
  <2>4. o.channels \in Maps(Channels, V)
    BY <2>2 DEF ChannelLists
  <2>5. f \in Maps(Channels, V) /\ DOMAIN f = DOMAIN o.channels \cup {c}
        /\ IsFiniteSet(DOMAIN o.channels \cup {c})
    <3> HIDE DEF v, V
    <3>1. PICK e : e = o.channels
      OBVIOUS
    <3>2. e \in Maps(Channels, V) /\ IsFiniteSet(DOMAIN e)
      BY <2>2, <2>4, <3>1
    <3>3. /\ StartedOver(e, c, v) \in Maps(Channels, V)
          /\ DOMAIN StartedOver(e, c, v) = DOMAIN e \cup {c}
          /\ IsFiniteSet(DOMAIN e \cup {c})
      BY <2>3, <3>2, StartedOverType
    <3> QED BY <3>1, <3>3
  <2>6. f \in ChannelLists
    BY <2>5 DEF ChannelLists
  <2>7. h = [o EXCEPT !.channels = f]
    OBVIOUS
  <2> HIDE DEF f
  <2> QED BY <1>1, <2>5, <2>6, <2>7 DEF HeldType
<1>3. g \in GuardType /\ Opened(g, h)
  <2>1. Buffer[c].start \in Nat /\ c # Nobody
    BY ConstantsAssumption
  <2>2. g \in GuardType
    <3>1. PICK r : r = Open(m) /\ r \in GuardType
      BY Emptiness
    <3>2. PICK at \in Int : at = Buffer[c].start
      BY <2>1
    <3>3. [r EXCEPT !.channel = c, !.position = at] \in GuardType
      BY <3>1 DEF GuardType
    <3> QED BY <3>1, <3>2, <3>3
  <2>3. g.channel = c /\ g.position = Buffer[c].start /\ g.pdo = Nobody
    BY <2>2 DEF GuardType, Open, Closed
  <2> HIDE DEF h, g
  <2> QED BY <1>2, <2>1, <2>2, <2>3 DEF Opened
<1>4. BuildingType'
  <2>1. config' = [config EXCEPT ![ConfigOf[m]][s] = h] /\ guard' = [guard EXCEPT ![ConfigOf[m]][s] = g]
    BY DEF Channel, SetGuard, SetHeld
  <2> HIDE DEF h, g
  <2>2. /\ config' \in [Configs -> [Slaves -> HeldType]]
        /\ guard' \in [Configs -> [Slaves -> GuardType]]
        /\ \A x \in Configs, z \in Slaves : Opened(guard'[x][z], config'[x][z])
    BY <1>2, <1>3, <2>1, HeldChange DEF Types
  <2> QED BY <2>2 DEF BuildingType, Types, Channel
<1> QED BY <1>4 DEF Types, GroupingType, WritingType, Channel, grouping, writing

(* A list of a HashMap that is replaced.                                     *)
LEMMA Replaced ==
  ASSUME NEW K, NEW V, NEW f \in Maps(K, V), NEW x \in DOMAIN f, NEW v \in V
  PROVE  [f EXCEPT ![x] = v] \in Maps(K, V) /\ DOMAIN [f EXCEPT ![x] = v] = DOMAIN f
<1>1. PICK D \in SUBSET K : f \in [D -> V]
  BY DEF Maps
<1>2. [f EXCEPT ![x] = v] \in [D -> V]
  BY <1>1
<1>3. [f EXCEPT ![x] = v] \in Maps(K, V)
  BY <1>2 DEF Maps
<1> QED BY <1>1, <1>3

(* The ConfigSlave after the lists it holds change.                          *)
WithLists(o, channels, pdos) == [o EXCEPT !.channels = channels, !.pdos = pdos]

LEMMA HeldWith ==
  ASSUME NEW o \in HeldType, NEW pdos \in PdoLists, NEW channels \in ChannelLists,
         IsFiniteSet(DOMAIN pdos), IsFiniteSet(DOMAIN channels)
  PROVE  /\ WithLists(o, channels, pdos) \in HeldType
         /\ WithLists(o, channels, pdos).channels = channels
         /\ WithLists(o, channels, pdos).pdos = pdos
         /\ WithLists(o, channels, pdos).fmmu = o.fmmu
BY DEF HeldType, WithLists

PdoPushed(o, c, p) == [o EXCEPT !.channels[c].pdos = Append(@, p), !.pdos = StartedOver(@, p, <<>>)]

LEMMA PushedChannel ==
  ASSUME NEW channels \in ChannelLists, NEW c \in DOMAIN channels, NEW p \in Pdos
  PROVE  \E new \in ChannelLists :
           DOMAIN new = DOMAIN channels /\ new = [channels EXCEPT ![c].pdos = Append(@, p)]
<1> DEFINE l == channels[c]
           V == [pdos : Seq(Pdos), start : Nat]
<1>1. l \in V
  BY DEF ChannelLists, Maps
<1> DEFINE k == [l EXCEPT !.pdos = Append(@, p)]
<1>2. k \in V
  BY <1>1, AppendProperties
<1> DEFINE new == [channels EXCEPT ![c] = k]
<1>3. new \in ChannelLists /\ DOMAIN new = DOMAIN channels
  <2> HIDE DEF k, V
  <2>1. channels \in Maps(Channels, V)
    BY DEF ChannelLists, V
  <2>2. new \in Maps(Channels, V) /\ DOMAIN new = DOMAIN channels
    BY <1>2, <2>1, Replaced
  <2> QED BY <2>2 DEF ChannelLists, V
<1> QED BY <1>3

LEMMA StartedPdo ==
  ASSUME NEW pdos \in PdoLists, IsFiniteSet(DOMAIN pdos), NEW p \in Pdos
  PROVE  \E new \in PdoLists : /\ new = StartedOver(pdos, p, <<>>)
                               /\ DOMAIN new = DOMAIN pdos \cup {p} /\ IsFiniteSet(DOMAIN new)
<1>1. PICK V : V = Seq(SdoBits)
  OBVIOUS
<1>2. PICK none \in V : none = <<>>
  BY <1>1, EmptySeq
<1>3. pdos \in Maps(Pdos, V)
  BY <1>1 DEF PdoLists
<1>a. IsFiniteSet(DOMAIN pdos)
  OBVIOUS
<1>4. /\ StartedOver(pdos, p, none) \in Maps(Pdos, V)
      /\ DOMAIN StartedOver(pdos, p, none) = DOMAIN pdos \cup {p}
      /\ IsFiniteSet(DOMAIN pdos \cup {p})
  BY <1>a, <1>3, StartedOverType
<1> QED BY <1>1, <1>2, <1>4 DEF PdoLists

LEMMA PushedPdo ==
  ASSUME NEW o \in HeldType, NEW c \in DOMAIN o.channels, NEW p \in Pdos
  PROVE  /\ PdoPushed(o, c, p) \in HeldType /\ p \in DOMAIN PdoPushed(o, c, p).pdos
         /\ DOMAIN PdoPushed(o, c, p).channels = DOMAIN o.channels
         /\ PdoPushed(o, c, p).pdos = StartedOver(o.pdos, p, <<>>)
         /\ PdoPushed(o, c, p).fmmu = o.fmmu
<1>1. PICK channels \in ChannelLists : channels = o.channels /\ IsFiniteSet(DOMAIN channels)
  BY DEF HeldType
<1>2. PICK pdos \in PdoLists : pdos = o.pdos /\ IsFiniteSet(DOMAIN pdos)
  BY DEF HeldType
<1>3. c \in DOMAIN channels
  BY <1>1
<1>4. PICK new \in ChannelLists :
        DOMAIN new = DOMAIN channels /\ new = [channels EXCEPT ![c].pdos = Append(@, p)]
  BY <1>3, PushedChannel
<1>5. PICK started \in PdoLists : /\ started = StartedOver(pdos, p, <<>>)
                                 /\ DOMAIN started = DOMAIN pdos \cup {p} /\ IsFiniteSet(DOMAIN started)
  BY <1>2, StartedPdo
<1>6. IsFiniteSet(DOMAIN new)
  BY <1>1, <1>4
<1>a. IsFiniteSet(DOMAIN started)
  BY <1>5
<1>7. PICK h \in HeldType : /\ h = WithLists(o, new, started)
                           /\ h.channels = new /\ h.pdos = started /\ h.fmmu = o.fmmu
  BY <1>a, <1>6, HeldWith
<1>8. PdoPushed(o, c, p) = h
  BY <1>1, <1>2, <1>4, <1>5, <1>7 DEF PdoPushed, WithLists, HeldType
<1>9. started = StartedOver(o.pdos, p, <<>>)
  BY <1>2, <1>5
<1>10. p \in DOMAIN started /\ DOMAIN new = DOMAIN o.channels
  BY <1>1, <1>4, <1>5
<1> QED BY <1>7, <1>8, <1>9, <1>10

LEMMA PushPdoTypes ==
  ASSUME Types, NEW m \in Mappings, NEW s \in Slaves, NEW p \in Pdos, PushPdo(m, s, p)
  PROVE  Types'
<1>1. PICK o \in HeldType : o = Held(m, s)
  BY Same DEF Types
<1>2. PICK g \in GuardType : g = Guard(m, s) /\ Opened(g, o)
  BY <1>1, Same DEF Types
<1>3. PICK c \in DOMAIN o.channels : c = g.channel /\ c # Nobody
  BY <1>2 DEF PushPdo, Opened
<1>4. PICK h \in HeldType : h = PdoPushed(o, c, p) /\ p \in DOMAIN h.pdos /\ DOMAIN h.channels = DOMAIN o.channels
  BY PushedPdo
<1>6. PICK k \in GuardType : k = [g EXCEPT !.pdo = p]
  BY DEF GuardType
<1>7. Opened(k, h)
  <2>1. k.channel = g.channel /\ k.position = g.position /\ k.pdo = p
    BY <1>6 DEF GuardType
  <2> QED BY <1>2, <1>3, <1>4, <2>1 DEF Opened
<1>8. config' = [config EXCEPT ![ConfigOf[m]][s] = h] /\ guard' = [guard EXCEPT ![ConfigOf[m]][s] = k]
  BY <1>1, <1>2, <1>3, <1>4, <1>6 DEF PushPdo, SetGuard, SetHeld, PdoPushed
<1>9. /\ config' \in [Configs -> [Slaves -> HeldType]]
      /\ guard' \in [Configs -> [Slaves -> GuardType]]
      /\ \A x \in Configs, z \in Slaves : Opened(guard'[x][z], config'[x][z])
  BY <1>7, <1>8, HeldChange DEF Types
<1> QED BY <1>9 DEF BuildingType, Types, GroupingType, WritingType, PushPdo, grouping, writing

LEMMA InsertTypes ==
  ASSUME BuildingType, NEW m \in Mappings, NEW s \in Slaves, NEW o \in HeldType,
         NEW direction \in {"read", "write"}, NEW physical \in Nat, NEW length \in Nat,
         NEW origin \in Origins, Insert(m, s, o, direction, physical, length, origin)
  PROVE  /\ \E h \in HeldType : /\ h.pdos = o.pdos /\ h.channels = o.channels
                                /\ config' = [config EXCEPT ![ConfigOf[m]][s] = h]
         /\ offset' \in [Mappings -> Nat] /\ fields' \in [Mappings -> SUBSET Field]
<1>1. PICK n \in Nat : n = offset[m]
  BY DEF BuildingType
<1>2. PICK fmmu \in Seq(Fmmu) : fmmu = Inserted(o.fmmu, direction, n, physical, length)
  <2>1. PICK old \in Seq(Fmmu) : old = o.fmmu
    BY DEF HeldType
  <2>2. Inserted(old, direction, n, physical, length) \in Seq(Fmmu)
    BY InsertedType
  <2> QED BY <2>1, <2>2
<1>3. PICK h \in HeldType : h.pdos = o.pdos /\ h.channels = o.channels /\ h = [o EXCEPT !.fmmu = fmmu]
  BY DEF HeldType
<1>4. config' = [config EXCEPT ![ConfigOf[m]][s] = h]
  BY <1>1, <1>2, <1>3 DEF Insert, SetHeld
<1>5. offset' \in [Mappings -> Nat]
  <2>1. offset' = [offset EXCEPT ![m] = n + length]
    BY <1>1 DEF Insert
  <2> QED BY <2>1 DEF BuildingType
<1>6. fields' \in [Mappings -> SUBSET Field]
  <2>1. [slave |-> s, direction |-> direction, logical |-> n, length |-> length, origin |-> origin] \in Field
    BY DEF Field
  <2>2. PICK f \in Field :
          f = [slave |-> s, direction |-> direction, logical |-> n, length |-> length, origin |-> origin]
    BY <2>1
  <2>3. fields' = [fields EXCEPT ![m] = @ \cup {f}]
    BY <1>1, <2>2 DEF Insert
  <2> QED BY <2>3 DEF BuildingType
<1> QED BY <1>3, <1>4, <1>5, <1>6

(* Lists within their capacities.                                            *)
Fit(held) ==
  /\ \A p \in DOMAIN held.pdos : Within(held.pdos[p], p)
  /\ \A c \in DOMAIN held.channels : Within(held.channels[c].pdos, c)

AllFit == \A x \in Configs, s \in Slaves : Fit(config[x][s])

LEMMA WithinOneMore ==
  ASSUME NEW S, NEW entries \in Seq(S), NEW v \in S, NEW x \in Lists, Room(entries, x)
  PROVE  Within(Append(entries, v), x)
<1>1. Len(Append(entries, v)) = Len(entries) + 1
  BY AppendProperties
<1> QED BY <1>1 DEF Within, Room

(* Only the ConfigSlave that a mapping holds changes.                        *)
LEMMA FitStep ==
  ASSUME Types, AllFit, NEW m \in Mappings, NEW s \in Slaves, NEW h,
         config' = [config EXCEPT ![ConfigOf[m]][s] = h], Fit(h)
  PROVE  AllFit'
<1>1. ConfigOf[m] \in Configs
  BY DEF Configs
<1>2. SUFFICES ASSUME NEW x \in Configs, NEW z \in Slaves PROVE Fit(config'[x][z])
  BY DEF AllFit
<1>3. config'[x][z] = h \/ config'[x][z] = config[x][z]
  BY <1>1 DEF Types, BuildingType
<1> QED BY <1>3 DEF AllFit

LEMMA FitInsert ==
  ASSUME NEW o, NEW h, h.pdos = o.pdos, h.channels = o.channels, Fit(o)
  PROVE  Fit(h)
BY DEF Fit

LEMMA RegisterTypes ==
  ASSUME Types, NEW m \in Mappings, NEW s \in Slaves, NEW r \in Registers, Register(m, s, r)
  PROVE  Types' /\ (AllFit => AllFit')
<1>0. BuildingType
  BY DEF Types
<1>1. PICK o \in HeldType : o = Held(m, s)
  BY <1>0, Same
<1>2. PICK direction \in {"read", "write"}, physical \in Nat, length \in Nat :
        direction = r.direction /\ physical = r.byte /\ length = r.len
  BY ConstantsAssumption
<1>3. PICK origin \in Origins : origin = [byte |-> r.byte]
  BY <1>2 DEF Origins
<1>4. Insert(m, s, o, direction, physical, length, origin)
  BY <1>1, <1>2, <1>3 DEF Register
<1>5. /\ \E h \in HeldType : /\ h.pdos = o.pdos /\ h.channels = o.channels
                             /\ config' = [config EXCEPT ![ConfigOf[m]][s] = h]
      /\ offset' \in [Mappings -> Nat] /\ fields' \in [Mappings -> SUBSET Field]
  BY <1>0, <1>4, InsertTypes
<1>6. PICK h \in HeldType : /\ h.pdos = o.pdos /\ h.channels = o.channels
                            /\ config' = [config EXCEPT ![ConfigOf[m]][s] = h]
  BY <1>5
<1>7. PICK g \in GuardType : g = Open(m) /\ Opened(g, h)
  BY Emptiness DEF Opened, Open, Closed
<1>8. guard' = [guard EXCEPT ![ConfigOf[m]][s] = g]
  BY <1>7 DEF Register, SetGuard
<1>9. /\ config' \in [Configs -> [Slaves -> HeldType]]
      /\ guard' \in [Configs -> [Slaves -> GuardType]]
      /\ \A x \in Configs, z \in Slaves : Opened(guard'[x][z], config'[x][z])
  BY <1>0, <1>6, <1>7, <1>8, HeldChange
<1>10. ASSUME AllFit PROVE AllFit'
  <2>1. Fit(o)
    BY <1>0, <1>1, <1>10, Same DEF AllFit, Held
  <2>2. Fit(h)
    BY <1>6, <2>1, FitInsert
  <2> QED BY <1>6, <1>10, <2>2, FitStep
<1> QED BY <1>5, <1>9, <1>10 DEF BuildingType, Types, GroupingType, WritingType, Register, grouping, writing

SdoPushed(o, p, bits) == [o EXCEPT !.pdos[p] = Append(@, bits)]

LEMMA PushedSdo ==
  ASSUME NEW o \in HeldType, NEW p \in DOMAIN o.pdos, NEW bits \in SdoBits
  PROVE  /\ SdoPushed(o, p, bits) \in HeldType
         /\ DOMAIN SdoPushed(o, p, bits).pdos = DOMAIN o.pdos
         /\ SdoPushed(o, p, bits).channels = o.channels
         /\ SdoPushed(o, p, bits).fmmu = o.fmmu
         /\ Len(o.pdos[p]) \in Nat
         /\ \A q \in DOMAIN o.pdos :
              SdoPushed(o, p, bits).pdos[q] = IF q = p THEN Append(o.pdos[p], bits) ELSE o.pdos[q]
<1>1. PICK pdos \in PdoLists : pdos = o.pdos /\ IsFiniteSet(DOMAIN pdos)
  BY DEF HeldType
<1>2. PICK channels \in ChannelLists : channels = o.channels /\ IsFiniteSet(DOMAIN channels)
  BY DEF HeldType
<1>3. pdos[p] \in Seq(SdoBits)
  BY <1>1 DEF PdoLists, Maps
<1>4. PICK entries \in Seq(SdoBits) : entries = Append(pdos[p], bits) /\ Len(pdos[p]) \in Nat
  BY <1>3, AppendProperties, LenProperties
<1>5. PICK new : new = [pdos EXCEPT ![p] = entries]
  OBVIOUS
<1>6. new \in PdoLists /\ DOMAIN new = DOMAIN pdos
  <2>1. PICK V : V = Seq(SdoBits)
    OBVIOUS
  <2>2. pdos \in Maps(Pdos, V) /\ entries \in V /\ p \in DOMAIN pdos
    BY <1>1, <2>1 DEF PdoLists
  <2>3. [pdos EXCEPT ![p] = entries] \in Maps(Pdos, V) /\ DOMAIN [pdos EXCEPT ![p] = entries] = DOMAIN pdos
    BY <2>2, Replaced
  <2> QED BY <1>5, <2>1, <2>3 DEF PdoLists
<1>7. IsFiniteSet(DOMAIN new) /\ IsFiniteSet(DOMAIN channels)
  BY <1>1, <1>2, <1>6
<1>8. PICK h \in HeldType : /\ h = WithLists(o, channels, new)
                           /\ h.channels = channels /\ h.pdos = new /\ h.fmmu = o.fmmu
  BY <1>6, <1>7, HeldWith
<1>9. SdoPushed(o, p, bits) = h
  BY <1>1, <1>2, <1>4, <1>5, <1>8 DEF SdoPushed, WithLists, HeldType
<1>10. \A q \in DOMAIN o.pdos : new[q] = IF q = p THEN Append(o.pdos[p], bits) ELSE o.pdos[q]
  BY <1>1, <1>4, <1>5
<1>11. DOMAIN new = DOMAIN o.pdos /\ channels = o.channels /\ Len(o.pdos[p]) \in Nat
  BY <1>1, <1>2, <1>4, <1>6
<1> QED BY <1>8, <1>9, <1>10, <1>11

LEMMA PushSdoTypes ==
  ASSUME Types, NEW m \in Mappings, NEW s \in Slaves, NEW bits \in SdoBits, PushSdo(m, s, bits)
  PROVE  Types' /\ (AllFit => AllFit')
<1>0. BuildingType
  BY DEF Types
<1>1. PICK o \in HeldType : o = Held(m, s)
  BY <1>0, Same
<1>2. PICK g \in GuardType : g = Guard(m, s) /\ Opened(g, o) /\ g.pdo # Nobody
  BY <1>0, <1>1, Same DEF PushSdo
<1>3. PICK p \in DOMAIN o.pdos, c \in DOMAIN o.channels, position \in Nat :
        p = g.pdo /\ c = g.channel /\ position = g.position /\ c \in Channels /\ p \in Pdos
  BY <1>2 DEF Opened, GuardType
<1>4. PICK filled \in HeldType : /\ filled = SdoPushed(o, p, bits) /\ DOMAIN filled.pdos = DOMAIN o.pdos
                                /\ filled.channels = o.channels /\ Len(o.pdos[p]) \in Nat
                                /\ \A q \in DOMAIN o.pdos :
                                     filled.pdos[q] = IF q = p THEN Append(o.pdos[p], bits) ELSE o.pdos[q]
  BY PushedSdo
<1>5. PICK length \in Nat : length = Bytes(bits)
  <2>1. bits \in Nat
    BY ConstantsAssumption
  <2>2. Bytes(bits) \in Nat
    BY <2>1 DEF Bytes
  <2> QED BY <2>2
<1>6. PICK origin \in Origins : origin = [channel |-> c, pdo |-> p, index |-> Len(o.pdos[p]) + 1]
  <2>1. PICK i \in Nat : i = Len(o.pdos[p]) + 1
    BY <1>4
  <2>2. [channel |-> c, pdo |-> p, index |-> i] \in [channel : Channels, pdo : Pdos, index : Nat]
    BY <1>3
  <2> QED BY <2>1, <2>2 DEF Origins
<1>7. PICK direction \in {"read", "write"} : direction = Direction[c]
  BY <1>3, ConstantsAssumption
<1>8. Insert(m, s, filled, direction, position, length, origin)
  BY <1>1, <1>2, <1>3, <1>4, <1>5, <1>6, <1>7 DEF PushSdo, SdoPushed
<1>9. /\ \E h \in HeldType : /\ h.pdos = filled.pdos /\ h.channels = filled.channels
                             /\ config' = [config EXCEPT ![ConfigOf[m]][s] = h]
      /\ offset' \in [Mappings -> Nat] /\ fields' \in [Mappings -> SUBSET Field]
  BY <1>0, <1>8, InsertTypes
<1>10. PICK h \in HeldType : /\ h.pdos = filled.pdos /\ h.channels = filled.channels
                             /\ config' = [config EXCEPT ![ConfigOf[m]][s] = h]
  BY <1>9
<1>a. PICK after \in Nat : after = position + length
  OBVIOUS
<1>11. PICK k \in GuardType : k = [g EXCEPT !.position = after]
  <2>1. PICK at \in Int : at = after
    OBVIOUS
  <2>2. [g EXCEPT !.position = at] \in GuardType
    BY DEF GuardType
  <2> QED BY <2>1, <2>2
<1>12. Opened(k, h)
  <2>1. k.channel = c /\ k.pdo = p /\ k.position = after
    BY <1>3, <1>11 DEF GuardType
  <2>2. c # Nobody
    BY <1>2, <1>3 DEF Opened
  <2>4. c \in DOMAIN h.channels /\ p \in DOMAIN h.pdos
    BY <1>4, <1>10
  <2> QED BY <2>1, <2>2, <2>4 DEF Opened
<1>13. guard' = [guard EXCEPT ![ConfigOf[m]][s] = k]
  BY <1>2, <1>3, <1>5, <1>a, <1>11 DEF PushSdo, SetGuard
<1>14. /\ config' \in [Configs -> [Slaves -> HeldType]]
       /\ guard' \in [Configs -> [Slaves -> GuardType]]
       /\ \A x \in Configs, z \in Slaves : Opened(guard'[x][z], config'[x][z])
  BY <1>0, <1>10, <1>12, <1>13, HeldChange
<1>15. ASSUME AllFit PROVE AllFit'
  <2>1. Fit(o)
    BY <1>0, <1>1, <1>15, Same DEF AllFit, Held
  <2>2. Room(o.pdos[p], p) /\ o.pdos[p] \in Seq(SdoBits) /\ p \in Lists
    BY <1>1, <1>2, <1>3 DEF PushSdo, HeldType, PdoLists, Maps, Lists
  <2>3. Within(Append(o.pdos[p], bits), p)
    BY <2>2, WithinOneMore
  <2>4. Fit(filled)
    BY <1>4, <2>1, <2>3 DEF Fit
  <2>5. Fit(h)
    BY <1>10, <2>4, FitInsert
  <2> QED BY <1>10, <1>15, <2>5, FitStep
<1> QED BY <1>9, <1>14, <1>15 DEF BuildingType, Types, GroupingType, WritingType, PushSdo, grouping, writing

-----------------------------------------------------------------------------
(* Groups and `configure`                                                    *)

LEMMA GroupTypes ==
  ASSUME Types, NEW m \in Mappings, Group(m)
  PROVE  Types'
<1>1. BuildingType'
  BY DEF Types, BuildingType, Group, building
<1>2. GroupingType'
  <2>1. allocated' \in 0..LogicalSize /\ allocated \in Nat
    BY ConstantsAssumption DEF Types, BuildingType, GroupingType, Group
  <2>2. PICK held \in Maps(Slaves, HeldType) : held = [s \in slaves[m] |-> Held(m, s)]
    <3>1. slaves[m] \in SUBSET Slaves /\ \A s \in slaves[m] : Held(m, s) \in HeldType
      BY Same DEF Types, BuildingType
    <3>2. [s \in slaves[m] |-> Held(m, s)] \in [slaves[m] -> HeldType]
      BY <3>1
    <3> QED BY <3>1, <3>2 DEF Maps
  <2>3. PICK set \in SUBSET Field : set = fields[m]
    BY DEF Types, BuildingType
  <2>4. PICK new \in GroupType :
          new = [made |-> TRUE, offset |-> allocated, fields |-> set, configured |-> {}, config |-> held]
    BY <2>1 DEF GroupType
  <2>5. group' = [group EXCEPT ![m] = new]
    BY <2>2, <2>3, <2>4 DEF Group
  <2> QED BY <2>1, <2>5 DEF Types, GroupingType
<1>3. WritingType'
  BY DEF Types, WritingType, Group, writing
<1> QED BY <1>1, <1>2, <1>3 DEF Types

LEMMA DropGroupTypes ==
  ASSUME Types, NEW m \in Mappings, DropGroup(m)
  PROVE  Types'
<1>1. BuildingType'
  BY DEF Types, BuildingType, DropGroup, building
<1>2. GroupingType'
  BY Emptiness DEF Types, GroupingType, DropGroup
<1>3. WritingType'
  BY DEF Types, WritingType, DropGroup
<1> QED BY <1>1, <1>2, <1>3 DEF Types

(* Where an item is written: since the last time its list was emptied, only  *)
(* items are.                                                                *)
OnlyItems(writes, first, last) == \A k \in first..last : writes[k].op = "item"
Emptied(writes, i) ==
  \E j \in 1..(i - 1) : writes[j] = Len0(writes[i].list) /\ OnlyItems(writes, j + 1, i - 1)
Guarded(writes) == \A i \in 1..Len(writes) : writes[i].op = "item" => Emptied(writes, i)

GuardedWrites == {w \in Seq(Ops) : Guarded(w)}

LEMMA GuardedNothing == <<>> \in GuardedWrites
BY EmptySeq DEF GuardedWrites, Guarded

LEMMA GuardedConcat ==
  ASSUME NEW v \in GuardedWrites, NEW w \in GuardedWrites
  PROVE  v \o w \in GuardedWrites
<1>1. PICK n \in Nat : n = Len(v)
  BY DEF GuardedWrites
<1>2. PICK l \in Nat : l = Len(w)
  BY DEF GuardedWrites
<1>3. PICK u \in Seq(Ops) : /\ u = v \o w /\ Len(u) = n + l
                            /\ \A i \in 1..n : u[i] = v[i]
                            /\ \A i \in 1..l : u[n + i] = w[i]
  <2>1. v \in Seq(Ops) /\ w \in Seq(Ops)
    BY DEF GuardedWrites
  <2>2. PICK u \in Seq(Ops) : u = v \o w
    BY <2>1, ConcatProperties
  <2>3. Len(u) = n + l
    BY <1>1, <1>2, <2>1, <2>2, ConcatProperties
  <2>4. \A i \in 1..(n + l) : u[i] = IF i <= n THEN v[i] ELSE w[i - n]
    BY <1>1, <1>2, <2>1, <2>2, ConcatProperties
  <2>5. \A i \in 1..n : i \in 1..(n + l) /\ i <= n
    OBVIOUS
  <2>6. \A i \in 1..l : n + i \in 1..(n + l) /\ ~(n + i <= n) /\ (n + i) - n = i
    OBVIOUS
  <2>7. \A i \in 1..n : u[i] = v[i]
    BY <2>4, <2>5
  <2>8. \A i \in 1..l : u[n + i] = w[i]
    BY <2>4, <2>6
  <2> QED BY <2>2, <2>3, <2>7, <2>8
<1>4. ASSUME NEW i \in 1..Len(u), u[i].op = "item" PROVE Emptied(u, i)
  <2>1. CASE i \in 1..n
    <3>1. Emptied(v, i)
      BY <1>1, <1>3, <1>4, <2>1 DEF GuardedWrites, Guarded
    <3>2. PICK j \in 1..(i - 1) : v[j] = Len0(v[i].list) /\ OnlyItems(v, j + 1, i - 1)
      BY <3>1 DEF Emptied
    <3>3. u[j] = Len0(u[i].list)
      BY <1>3, <2>1, <3>2
    <3>4. \A k \in (j + 1)..(i - 1) : k \in 1..n
      BY <2>1
    <3>5. OnlyItems(u, j + 1, i - 1)
      BY <1>3, <3>2, <3>4 DEF OnlyItems
    <3> QED BY <3>3, <3>5 DEF Emptied
  <2>2. CASE i \notin 1..n
    <3>1. PICK p \in 1..l : i = n + p
      <4>1. i - n \in 1..l /\ i = n + (i - n)
        BY <1>3, <2>2
      <4> QED BY <4>1
    <3>2. Emptied(w, p)
      BY <1>2, <1>3, <1>4, <3>1 DEF GuardedWrites, Guarded
    <3>3. PICK j \in 1..(p - 1) : w[j] = Len0(w[p].list) /\ OnlyItems(w, j + 1, p - 1)
      BY <3>2 DEF Emptied
    <3>4. j \in 1..l /\ n + j \in 1..(i - 1) /\ u[n + j] = w[j] /\ u[i] = w[p]
      BY <1>3, <3>1, <3>3
    <3>5. u[n + j] = Len0(u[i].list)
      BY <3>3, <3>4
    <3>6. OnlyItems(u, (n + j) + 1, i - 1)
      <4> SUFFICES ASSUME NEW k \in ((n + j) + 1)..(i - 1) PROVE u[k].op = "item"
        BY DEF OnlyItems
      <4>1. k - n \in (j + 1)..(p - 1) /\ k - n \in 1..l /\ k = n + (k - n)
        BY <3>1, <3>4
      <4>2. w[k - n].op = "item"
        BY <3>3, <4>1 DEF OnlyItems
      <4>3. u[k] = w[k - n]
        BY <1>3, <4>1
      <4> QED BY <4>2, <4>3
    <3> QED BY <3>4, <3>5, <3>6 DEF Emptied
  <2> QED BY <2>1, <2>2
<1> QED BY <1>3, <1>4 DEF GuardedWrites, Guarded

LEMMA FunctionIsSeq ==
  ASSUME NEW S, NEW n \in Nat, NEW f \in [1..n -> S]
  PROVE  f \in Seq(S) /\ Len(f) = n
<1>1. f \in Seq(S)
  BY SeqDef
<1>2. DOMAIN f = 1..n
  OBVIOUS
<1>3. DOMAIN f = 1..Len(f) /\ Len(f) \in Nat
  BY <1>1, LenProperties
<1> QED BY <1>1, <1>2, <1>3

LEMMA GuardedWithoutItems ==
  ASSUME NEW w \in Seq(Ops), \A i \in 1..Len(w) : w[i].op # "item"
  PROVE  w \in GuardedWrites
BY DEF GuardedWrites, Guarded

LEMMA GuardedList ==
  ASSUME NEW x \in Lists, NEW items \in Seq(Pdos \cup SdoBits)
  PROVE  ListWrites(x, items) \in GuardedWrites
<1>1. PICK n \in Nat : n = Len(items) /\ DOMAIN items = 1..n
  BY LenProperties
<1>2. PICK body : body = [i \in 1..n |-> Item(x, i, items[i])]
  OBVIOUS
<1>3. \A i \in 1..n : Item(x, i, items[i]) \in Ops
  <2> SUFFICES ASSUME NEW i \in 1..n PROVE Item(x, i, items[i]) \in ItemOps
    BY DEF Ops
  <2>1. PICK v \in Pdos \cup SdoBits : v = items[i]
    BY <1>1, ElementOfSeq
  <2>2. i \in Nat
    OBVIOUS
  <2> QED BY <2>1, <2>2 DEF Item, ItemOps
<1>4. body \in Seq(Ops) /\ Len(body) = n
  <2>1. body \in [1..n -> Ops]
    BY <1>2, <1>3
  <2> QED BY <2>1, FunctionIsSeq
<1>5. PICK before \in Ops, after \in Ops : before = Len0(x) /\ after = LenIs(x, n)
  BY DEF Len0, LenIs, LenOps, Ops
<1>6. PICK w : w = ListWrites(x, items)
  OBVIOUS
<1>7. w = <<before>> \o body \o <<after>>
  BY <1>1, <1>2, <1>5, <1>6 DEF ListWrites
<1>8. /\ w \in Seq(Ops) /\ Len(w) = n + 2 /\ w[1] = before /\ w[n + 2] = after
      /\ \A i \in 1..n : w[1 + i] = body[i]
  <2>1. PICK u \in Seq(Ops) : u = <<before>> \o body
    <3>1. PICK one : one = <<before>> /\ one \in Seq(Ops)
      <4>1. <<before>> \in Seq(Ops)
        OBVIOUS
      <4> QED BY <4>1
    <3>2. one \o body \in Seq(Ops)
      BY <1>4, <3>1, ConcatProperties
    <3> QED BY <3>1, <3>2
  <2>2. /\ Len(u) = 1 + n
        /\ \A i \in 1..(1 + n) : u[i] = IF i <= 1 THEN before ELSE body[i - 1]
    <3>1. <<before>> \in Seq(Ops) /\ Len(<<before>>) = 1 /\ <<before>>[1] = before
      OBVIOUS
    <3>2. PICK one \in Seq(Ops) : one = <<before>> /\ Len(one) = 1 /\ one[1] = before
      BY <3>1
    <3>3. u = one \o body
      BY <2>1, <3>2
    <3>4. Len(u) = 1 + n /\ \A i \in 1..(1 + n) : u[i] = IF i <= 1 THEN one[i] ELSE body[i - 1]
      BY <1>4, <3>2, <3>3, ConcatProperties
    <3>5. \A i \in 1..(1 + n) : i <= 1 => i = 1
      OBVIOUS
    <3> QED BY <3>2, <3>4, <3>5
  <2>3. PICK last \in Seq(Ops) : last = <<after>> /\ Len(last) = 1 /\ last[1] = after
    <3>1. <<after>> \in Seq(Ops) /\ Len(<<after>>) = 1 /\ <<after>>[1] = after
      OBVIOUS
    <3> QED BY <3>1
  <2>4. w = u \o last
    BY <1>7, <2>1, <2>3
  <2>5. w \in Seq(Ops) /\ Len(w) = (1 + n) + 1
        /\ \A i \in 1..((1 + n) + 1) : w[i] = IF i <= 1 + n THEN u[i] ELSE last[i - (1 + n)]
    BY <2>2, <2>3, <2>4, ConcatProperties
  <2>6. w[1] = u[1] /\ w[n + 2] = last[1] /\ \A i \in 1..n : w[1 + i] = u[1 + i]
    <3>1. 1 \in 1..((1 + n) + 1) /\ 1 <= 1 + n
      OBVIOUS
    <3>2. n + 2 \in 1..((1 + n) + 1) /\ ~(n + 2 <= 1 + n) /\ (n + 2) - (1 + n) = 1
      OBVIOUS
    <3>3. \A i \in 1..n : 1 + i \in 1..((1 + n) + 1) /\ 1 + i <= 1 + n
      OBVIOUS
    <3> QED BY <2>5, <3>1, <3>2, <3>3
  <2>7. u[1] = before /\ \A i \in 1..n : u[1 + i] = body[i]
    <3>1. 1 \in 1..(1 + n) /\ \A i \in 1..n : 1 + i \in 1..(1 + n) /\ ~(1 + i <= 1) /\ (1 + i) - 1 = i
      OBVIOUS
    <3> QED BY <2>2, <3>1
  <2>8. (1 + n) + 1 = n + 2
    OBVIOUS
  <2> QED BY <2>3, <2>5, <2>6, <2>7, <2>8
<1>9. \A i \in 1..n : w[1 + i].op = "item" /\ w[1 + i].list = x
  <2>1. \A i \in 1..n : w[1 + i] = Item(x, i, items[i])
    BY <1>2, <1>8
  <2>2. \A i \in 1..n : Item(x, i, items[i]).op = "item" /\ Item(x, i, items[i]).list = x
    BY DEF Item
  <2> QED BY <2>1, <2>2
<1>10. ASSUME NEW i \in 1..(n + 2), w[i].op = "item" PROVE Emptied(w, i)
  <2>1. w[1].op # "item" /\ w[n + 2].op # "item"
    BY <1>5, <1>8 DEF Len0, LenIs
  <2>2. i - 1 \in 1..n /\ i = 1 + (i - 1)
    BY <1>10, <2>1
  <2>3. w[i].list = x /\ w[1] = Len0(x)
    BY <1>5, <1>8, <1>9, <2>2
  <2>4. \A k \in (1 + 1)..(i - 1) : k - 1 \in 1..n /\ k = 1 + (k - 1)
    BY <2>2
  <2>5. OnlyItems(w, 1 + 1, i - 1)
    BY <1>9, <2>4 DEF OnlyItems
  <2> QED BY <2>2, <2>3, <2>5 DEF Emptied
<1> QED BY <1>6, <1>8, <1>10 DEF GuardedWrites, Guarded

-----------------------------------------------------------------------------
(* Induction                                                                 *)

(* Every nonempty set of naturals has a least element.                       *)
LEMMA Least ==
  ASSUME NEW T, T \subseteq Nat, T # {}
  PROVE  \E n \in T : \A m \in T : n <= m
<1>1. IsWellFoundedOn({p \in Nat \X Nat : p[1] < p[2]}, Nat)
  BY NatLessThanWellFounded DEF OpToRel
<1>2. PICK n \in T : \A m \in T : ~(<<m, n>> \in {p \in Nat \X Nat : p[1] < p[2]})
  BY <1>1, WFMin
<1>3. \A m \in T : ~(m < n)
  BY <1>2
<1> QED BY <1>3

LEMMA Induction ==
  ASSUME NEW T, 0 \in T, \A n \in Nat : n \in T => n + 1 \in T
  PROVE  Nat \subseteq T
<1> SUFFICES ASSUME Nat \ T # {} PROVE FALSE
  OBVIOUS
<1>1. PICK n \in Nat \ T : \A m \in Nat \ T : n <= m
  BY Least
<1>2. n # 0 /\ n - 1 \in Nat
  BY <1>1
<1>3. n - 1 \in T
  BY <1>1, <1>2
<1> QED BY <1>1, <1>2, <1>3

(* What FlattenSeq computes, one sequence at a time.                         *)
Flattens(seqs, g, n) == g = [i \in 1..n |-> IF i = 1 THEN seqs[i] ELSE g[i - 1] \o seqs[i]]

LEMMA FlattenStep ==
  ASSUME NEW seqs, NEW n \in Nat, NEW g, Flattens(seqs, g, n)
  PROVE  \E h : Flattens(seqs, h, n + 1)
<1> DEFINE h == [i \in 1..(n + 1) |-> IF i \in 1..n THEN g[i]
                                      ELSE IF i = 1 THEN seqs[i] ELSE g[i - 1] \o seqs[i]]
<1>1. h = [i \in 1..(n + 1) |-> IF i = 1 THEN seqs[i] ELSE h[i - 1] \o seqs[i]]
  <2> SUFFICES ASSUME NEW i \in 1..(n + 1) PROVE h[i] = IF i = 1 THEN seqs[i] ELSE h[i - 1] \o seqs[i]
    OBVIOUS
  <2>1. i # 1 => i - 1 \in 1..n
    OBVIOUS
  <2>2. \A j \in 1..n : g[j] = IF j = 1 THEN seqs[j] ELSE g[j - 1] \o seqs[j]
    BY DEF Flattens
  <2>3. \A j \in 1..n : h[j] = g[j]
    OBVIOUS
  <2>4. i \in 1..n => (i # 1 => i - 1 \in 1..n)
    OBVIOUS
  <2> QED BY <2>1, <2>2, <2>3
<1> HIDE DEF h
<1> QED BY <1>1 DEF Flattens

LEMMA FlattenExists ==
  ASSUME NEW seqs, NEW n \in Nat
  PROVE  \E g : Flattens(seqs, g, n)
<1> DEFINE T == {k \in Nat : \E g : Flattens(seqs, g, k)}
<1>1. 0 \in T
  <2>1. Flattens(seqs, [i \in 1..0 |-> 0], 0)
    BY DEF Flattens
  <2> QED BY <2>1
<1>2. \A k \in Nat : k \in T => k + 1 \in T
  BY FlattenStep
<1> HIDE DEF T
<1>3. Nat \subseteq T
  BY <1>1, <1>2, Induction
<1> QED BY <1>3 DEF T

LEMMA FlattenIs ==
  ASSUME NEW seqs, Len(seqs) \in Nat \ {0}
  PROVE  \E g : Flattens(seqs, g, Len(seqs)) /\ FlattenSeq(seqs) = g[Len(seqs)]
<1>1. \E g : g = [i \in 1..Len(seqs) |-> IF i = 1 THEN seqs[i] ELSE g[i - 1] \o seqs[i]]
  BY FlattenExists DEF Flattens
<1> QED BY <1>1 DEF FlattenSeq, Flattens

LEMMA GuardedFlatten ==
  ASSUME NEW n \in Nat, NEW seqs \in [1..n -> GuardedWrites]
  PROVE  FlattenSeq(seqs) \in GuardedWrites
<1>1. Len(seqs) = n /\ seqs \in Seq(GuardedWrites)
  BY FunctionIsSeq
<1>2. CASE n = 0
  <2>1. seqs = <<>>
    BY <1>1, <1>2, EmptySeq
  <2>2. FlattenSeq(seqs) = <<>>
    BY <1>1, <1>2, <2>1 DEF FlattenSeq
  <2> QED BY <2>2, GuardedNothing
<1>3. CASE n # 0
  <2>1. PICK g : Flattens(seqs, g, n) /\ FlattenSeq(seqs) = g[n]
    BY <1>1, <1>3, FlattenIs
  <2>2. \A i \in 1..n : g[i] = IF i = 1 THEN seqs[i] ELSE g[i - 1] \o seqs[i]
    BY <2>1 DEF Flattens
  <2> DEFINE T == {k \in Nat : k \in 1..n => g[k] \in GuardedWrites}
  <2>3. 0 \in T
    OBVIOUS
  <2>4. ASSUME NEW k \in Nat, k \in T PROVE k + 1 \in T
    <3> SUFFICES ASSUME k + 1 \in 1..n PROVE g[k + 1] \in GuardedWrites
      OBVIOUS
    <3>1. seqs[k + 1] \in GuardedWrites
      OBVIOUS
    <3>2. CASE k = 0
      BY <2>2, <3>1, <3>2
    <3>3. CASE k # 0
      <4>1. k \in 1..n /\ (k + 1) - 1 = k /\ k + 1 # 1
        BY <3>3
      <4>2. g[k] \in GuardedWrites
        BY <2>4, <4>1
      <4>3. g[k + 1] = g[k] \o seqs[k + 1]
        BY <2>2, <4>1
      <4> QED BY <3>1, <4>2, <4>3, GuardedConcat
    <3> QED BY <3>2, <3>3
  <2>5. Nat \subseteq T
    <3> HIDE DEF T
    <3> QED BY <2>3, <2>4, Induction
  <2> QED BY <1>3, <2>1, <2>5
<1> QED BY <1>2, <1>3

-----------------------------------------------------------------------------
(* The writes of `configure`                                                 *)

LEMMA PdoGuarded ==
  ASSUME NEW held \in HeldType, NEW p \in DOMAIN held.pdos
  PROVE  PdoWrites(held, p) \in GuardedWrites
<1>1. p \in Pdos /\ held.pdos[p] \in Seq(SdoBits)
  BY DEF HeldType, PdoLists, Maps
<1>2. PICK items \in Seq(SdoBits) : items = held.pdos[p]
  BY <1>1
<1>3. CASE p \notin Fixed
  <2>1. items \in Seq(Pdos \cup SdoBits) /\ p \in Lists
    BY <1>1, SeqMonotonic DEF Lists
  <2>2. ListWrites(p, items) \in GuardedWrites
    BY <2>1, GuardedList
  <2> QED BY <1>2, <1>3, <2>2 DEF PdoWrites
<1>4. CASE p \in Fixed
  <2>1. PICK n \in Nat : n = Len(items) /\ DOMAIN items = 1..n
    BY LenProperties
  <2>2. PICK w : w = [i \in 1..n |-> Check(p, i, items[i])]
    OBVIOUS
  <2>3. \A i \in 1..n : Check(p, i, items[i]) \in Ops /\ Check(p, i, items[i]).op # "item"
    <3> SUFFICES ASSUME NEW i \in 1..n
                 PROVE  Check(p, i, items[i]) \in CheckOps /\ Check(p, i, items[i]).op # "item"
      BY DEF Ops
    <3>1. PICK v \in SdoBits : v = items[i]
      BY <2>1, ElementOfSeq
    <3>2. i \in Nat /\ p \in Lists
      BY <1>1 DEF Lists
    <3> QED BY <3>1, <3>2 DEF Check, CheckOps
  <2>4. w \in Seq(Ops) /\ Len(w) = n
    <3>1. w \in [1..n -> Ops]
      BY <2>2, <2>3
    <3> QED BY <3>1, FunctionIsSeq
  <2>5. \A i \in 1..Len(w) : w[i].op # "item"
    BY <2>2, <2>3, <2>4
  <2>6. w \in GuardedWrites
    BY <2>4, <2>5, GuardedWithoutItems
  <2>7. PdoWrites(held, p) = w
    BY <1>2, <1>4, <2>1, <2>2 DEF PdoWrites
  <2> QED BY <2>6, <2>7
<1> QED BY <1>3, <1>4

LEMMA ChannelGuarded ==
  ASSUME NEW held \in HeldType, NEW c \in DOMAIN held.channels
  PROVE  ChannelWrites(held, c) \in GuardedWrites
<1>1. c \in Channels /\ held.channels[c] \in [pdos : Seq(Pdos), start : Nat]
  BY DEF HeldType, ChannelLists, Maps
<1>2. PICK items \in Seq(Pdos) : items = held.channels[c].pdos
  BY <1>1
<1>3. PICK first \in GuardedWrites : first = ListWrites(c, items)
  <2>1. items \in Seq(Pdos \cup SdoBits) /\ c \in Lists
    BY <1>1, SeqMonotonic DEF Lists
  <2> QED BY <2>1, GuardedList
<1>4. PICK sync \in Syncs :
        sync = [enable |-> items # <<>>, start |-> held.channels[c].start, length |-> SyncLength(held, c)]
  <2>1. PICK length \in {SyncLength(h, d) : h \in HeldType, d \in Channels} : length = SyncLength(held, c)
    BY <1>1
  <2>a. PICK start \in Nat : start = held.channels[c].start
    BY <1>1
  <2>2. [enable |-> items # <<>>, start |-> start, length |-> length] \in Syncs
    BY DEF Syncs
  <2> QED BY <2>1, <2>a, <2>2
<1>5. PICK op \in Ops : op = [op |-> "sync", list |-> c, index |-> 0, value |-> sync]
  <2>1. [op |-> "sync", list |-> c, index |-> 0, value |-> sync] \in SyncOps
    BY <1>1 DEF SyncOps
  <2> QED BY <2>1 DEF Ops
<1>6. <<op>> \in GuardedWrites
  <2>1. PICK w \in Seq(Ops) : w = <<op>> /\ Len(w) = 1 /\ w[1] = op
    <3>1. <<op>> \in Seq(Ops) /\ Len(<<op>>) = 1 /\ <<op>>[1] = op
      OBVIOUS
    <3> QED BY <3>1
  <2>2. \A i \in 1..Len(w) : w[i].op # "item"
    <3>1. \A i \in 1..Len(w) : i = 1
      BY <2>1
    <3>2. w[1].op = "sync"
      BY <1>5, <2>1
    <3> QED BY <3>1, <3>2
  <2> QED BY <2>1, <2>2, GuardedWithoutItems
<1>7. PICK last \in GuardedWrites : last = <<op>>
  BY <1>6
<1>8. first \o last \in GuardedWrites
  BY GuardedConcat
<1>9. ChannelWrites(held, c) = first \o last
  BY <1>2, <1>3, <1>4, <1>5, <1>7 DEF ChannelWrites
<1> QED BY <1>8, <1>9

LEMMA FmmuGuarded ==
  ASSUME NEW held \in HeldType, NEW base \in Nat
  PROVE  FmmuWrites(held, base) \in GuardedWrites
<1>1. PICK fmmu \in Seq(Fmmu) : fmmu = held.fmmu
  BY DEF HeldType
<1>2. PICK n \in Nat : n = Len(fmmu) /\ DOMAIN fmmu = 1..n
  BY LenProperties
<1> DEFINE Op(i) == [op |-> "fmmu", list |-> Nobody, index |-> i,
                     value |-> [fmmu[i] EXCEPT !.logical = @ + base]]
<1>3. PICK w : w = [i \in 1..n |-> Op(i)]
  OBVIOUS
<1>4. \A i \in 1..n : Op(i) \in Ops /\ Op(i).op # "item"
  <2> SUFFICES ASSUME NEW i \in 1..n PROVE Op(i) \in FmmuOps /\ Op(i).op # "item"
    BY DEF Ops
  <2>1. PICK e \in Fmmu : e = fmmu[i]
    BY <1>2, ElementOfSeq
  <2>2. PICK v \in Fmmu : v = [e EXCEPT !.logical = @ + base]
    <3>1. PICK l \in Nat : l = e.logical + base
      BY DEF Fmmu
    <3>2. [e EXCEPT !.logical = l] \in Fmmu
      BY DEF Fmmu
    <3> QED BY <3>1, <3>2
  <2>3. i \in Nat
    OBVIOUS
  <2> QED BY <2>1, <2>2, <2>3 DEF FmmuOps
<1>5. w \in Seq(Ops) /\ Len(w) = n /\ \A i \in 1..n : w[i].op # "item"
  <2> HIDE DEF Op
  <2>1. w \in [1..n -> Ops]
    BY <1>3, <1>4
  <2> QED BY <1>3, <1>4, <2>1, FunctionIsSeq
<1>6. w \in GuardedWrites
  BY <1>5, GuardedWithoutItems
<1>7. FmmuWrites(held, base) = w
  BY <1>1, <1>2, <1>3 DEF FmmuWrites
<1> QED BY <1>6, <1>7

LEMMA WritesGuarded ==
  ASSUME NEW held \in HeldType, NEW base \in Nat,
         NEW pdos \in SetToSeqs(DOMAIN held.pdos), NEW channels \in SetToSeqs(DOMAIN held.channels)
  PROVE  Writes(held, base, pdos, channels) \in GuardedWrites
<1>1. PICK n \in Nat : pdos \in [1..n -> DOMAIN held.pdos]
  BY FS_CardinalityType DEF HeldType, SetToSeqs
<1>2. PICK l \in Nat : channels \in [1..l -> DOMAIN held.channels]
  BY FS_CardinalityType DEF HeldType, SetToSeqs
<1>3. PICK first \in GuardedWrites : first = FlattenSeq([i \in DOMAIN pdos |-> PdoWrites(held, pdos[i])])
  <2>1. DOMAIN pdos = 1..n /\ \A i \in 1..n : pdos[i] \in DOMAIN held.pdos
    BY <1>1
  <2>2. \A i \in 1..n : PdoWrites(held, pdos[i]) \in GuardedWrites
    BY <2>1, PdoGuarded
  <2>3. [i \in 1..n |-> PdoWrites(held, pdos[i])] \in [1..n -> GuardedWrites]
    BY <2>2
  <2> QED BY <2>1, <2>3, GuardedFlatten
<1>4. PICK next \in GuardedWrites :
        next = FlattenSeq([i \in DOMAIN channels |-> ChannelWrites(held, channels[i])])
  <2>1. DOMAIN channels = 1..l /\ \A i \in 1..l : channels[i] \in DOMAIN held.channels
    BY <1>2
  <2>2. \A i \in 1..l : ChannelWrites(held, channels[i]) \in GuardedWrites
    BY <2>1, ChannelGuarded
  <2>3. [i \in 1..l |-> ChannelWrites(held, channels[i])] \in [1..l -> GuardedWrites]
    BY <2>2
  <2> QED BY <2>1, <2>3, GuardedFlatten
<1>5. PICK last \in GuardedWrites : last = FmmuWrites(held, base)
  BY FmmuGuarded
<1>6. PICK both \in GuardedWrites : both = first \o next
  BY GuardedConcat
<1>7. both \o last \in GuardedWrites
  BY GuardedConcat
<1> QED BY <1>3, <1>4, <1>5, <1>6, <1>7 DEF Writes

-----------------------------------------------------------------------------
(* What the slave makes of a write                                           *)

LEMMA PutType ==
  ASSUME NEW S, NEW seq \in Seq(S), NEW i, NEW v \in S
  PROVE  Put(seq, i, v) \in Seq(S)
<1>1. DOMAIN seq = 1..Len(seq)
  BY LenProperties
<1>2. CASE i \in DOMAIN seq
  BY <1>1, <1>2, ExceptSeq DEF Put
<1>3. CASE i \notin DOMAIN seq
  BY <1>3, AppendProperties DEF Put
<1> QED BY <1>2, <1>3

(* Only what is written to a list changes it, and only its length makes it   *)
(* refuse items.                                                             *)
LEMMA AfterType ==
  ASSUME NEW slave \in SlaveType, NEW w \in Ops
  PROVE  /\ After(slave, w) \in SlaveType
         /\ w.op = "len" => After(slave, w).list[w.list].len = w.value
         /\ w.op # "len" => \A x \in Lists : After(slave, w).list[x].len = slave.list[x].len
<1> DEFINE List == [len : Nat, items : Seq(Pdos \cup Nat)]
           Sync == [enable : BOOLEAN, start : Nat, length : {0}] \cup Syncs
<1>1. PICK list \in [Lists -> List] : list = slave.list
  BY DEF SlaveType, SlaveLists
<1>2. PICK sync \in [Channels -> Sync], fmmu \in Seq(Fmmu) : sync = slave.sync /\ fmmu = slave.fmmu
  BY DEF SlaveType
<1>3. CASE w \in LenOps
  <2>1. w.op = "len" /\ w.list \in Lists /\ w.value \in Nat
    BY <1>3 DEF LenOps
  <2>2. PICK l \in Lists, v \in Nat : l = w.list /\ v = w.value
    BY <2>1
  <2>3. PICK e \in List : e = [list[l] EXCEPT !.len = v] /\ e.len = v
    <3>1. PICK o \in List : o = list[l]
      OBVIOUS
    <3>2. [o EXCEPT !.len = v] \in List /\ [o EXCEPT !.len = v].len = v
      OBVIOUS
    <3> QED BY <3>1, <3>2
  <2>4. PICK new \in SlaveLists : new = [list EXCEPT ![l] = e] /\ new[l] = e
    <3>1. [list EXCEPT ![l] = e] \in [Lists -> List] /\ [list EXCEPT ![l] = e][l] = e
      <4> HIDE DEF List
      <4> QED OBVIOUS
    <3> QED BY <3>1 DEF SlaveLists
  <2>5. [slave EXCEPT !.list = new] \in SlaveType /\ [slave EXCEPT !.list = new].list = new
    BY DEF SlaveType
  <2>6. After(slave, w) = [slave EXCEPT !.list = new]
    BY <1>1, <2>1, <2>2, <2>3, <2>4 DEF After
  <2> QED BY <2>1, <2>2, <2>3, <2>4, <2>5, <2>6
<1>4. CASE w \in ItemOps
  <2>1. w.op = "item" /\ w.list \in Lists /\ w.value \in Pdos \cup SdoBits
    BY <1>4 DEF ItemOps
  <2>a. PICK i : i = w.index
    OBVIOUS
  <2>2. PICK l \in Lists, v \in Pdos \cup Nat : l = w.list /\ v = w.value
    BY <2>1, ConstantsAssumption
  <2>3. PICK o \in List : o = list[l]
    OBVIOUS
  <2>4. PICK items \in Seq(Pdos \cup Nat) : items = Put(o.items, i, v)
    <3>1. PICK old \in Seq(Pdos \cup Nat) : old = o.items
      OBVIOUS
    <3> QED BY <3>1, PutType
  <2>5. PICK e \in List : e = [o EXCEPT !.items = items] /\ e.len = o.len
    <3>1. [o EXCEPT !.items = items] \in List /\ [o EXCEPT !.items = items].len = o.len
      OBVIOUS
    <3> QED BY <3>1
  <2>6. PICK new \in SlaveLists : new = [list EXCEPT ![l] = e] /\ \A x \in Lists : new[x].len = list[x].len
    <3>1. /\ [list EXCEPT ![l] = e] \in [Lists -> List]
          /\ \A x \in Lists : [list EXCEPT ![l] = e][x] = IF x = l THEN e ELSE list[x]
      <4> HIDE DEF List
      <4> QED OBVIOUS
    <3> QED BY <2>3, <2>5, <3>1 DEF SlaveLists
  <2>7. [slave EXCEPT !.list = new] \in SlaveType /\ [slave EXCEPT !.list = new].list = new
    BY DEF SlaveType
  <2>8. After(slave, w) = [slave EXCEPT !.list = new]
    BY <1>1, <2>1, <2>a, <2>2, <2>3, <2>4, <2>5, <2>6 DEF After
  <2> QED BY <1>1, <2>1, <2>6, <2>7, <2>8
<1>5. CASE w \in CheckOps
  <2>1. w.op = "check"
    BY <1>5 DEF CheckOps
  <2>2. After(slave, w) = slave
    BY <2>1 DEF After
  <2> QED BY <2>1, <2>2
<1>6. CASE w \in SyncOps
  <2>1. w.op = "sync" /\ w.list \in Channels /\ w.value \in Syncs
    BY <1>6 DEF SyncOps
  <2>2. PICK c \in Channels, v \in Sync : c = w.list /\ v = w.value
    BY <2>1
  <2>3. PICK new \in [Channels -> Sync] : new = [sync EXCEPT ![c] = v]
    <3> HIDE DEF Sync
    <3> QED OBVIOUS
  <2>4. [slave EXCEPT !.sync = new] \in SlaveType /\ [slave EXCEPT !.sync = new].list = slave.list
    BY DEF SlaveType
  <2>5. After(slave, w) = [slave EXCEPT !.sync = new]
    BY <1>2, <2>1, <2>2, <2>3 DEF After
  <2> QED BY <2>1, <2>4, <2>5
<1>7. CASE w \in FmmuOps
  <2>1. w.op = "fmmu" /\ w.value \in Fmmu
    BY <1>7 DEF FmmuOps
  <2>a. PICK i : i = w.index
    OBVIOUS
  <2>2. PICK v \in Fmmu : v = w.value
    BY <2>1
  <2>3. PICK new \in Seq(Fmmu) : new = Put(fmmu, i, v)
    BY PutType
  <2>4. [slave EXCEPT !.fmmu = new] \in SlaveType /\ [slave EXCEPT !.fmmu = new].list = slave.list
    BY DEF SlaveType
  <2>5. After(slave, w) = [slave EXCEPT !.fmmu = new]
    BY <1>2, <2>1, <2>a, <2>2, <2>3 DEF After
  <2> QED BY <2>1, <2>4, <2>5
<1> QED BY <1>3, <1>4, <1>5, <1>6, <1>7 DEF Ops

(* Every item left to write finds its list empty.                            *)
Safe(lists, writes) ==
  \A i \in 1..Len(writes) : writes[i].op = "item" =>
    \/ Emptied(writes, i)
    \/ lists[writes[i].list].len = 0 /\ OnlyItems(writes, 1, i - 1)

AllSafe == \A s \in Slaves : Safe(memory[s].list, todo[s].writes)

LEMMA SafeAfter ==
  ASSUME NEW slave \in SlaveType, NEW writes \in Seq(Ops), writes # <<>>, Safe(slave.list, writes)
  PROVE  /\ Head(writes) \in Ops /\ Tail(writes) \in Seq(Ops)
         /\ Safe(After(slave, Head(writes)).list, Tail(writes))
<1>1. PICK n \in Nat : n = Len(writes) /\ n > 0
  BY EmptySeq, LenProperties
<1>2. PICK w \in Ops : w = Head(writes) /\ w = writes[1]
  BY <1>1, ElementOfSeq, HeadTailProperties
<1>3. PICK rest \in Seq(Ops) : /\ rest = Tail(writes) /\ Len(rest) = n - 1
                               /\ \A i \in 1..(n - 1) : rest[i] = writes[i + 1]
  <2>1. Tail(writes) \in Seq(Ops) /\ Len(Tail(writes)) = n - 1
    BY <1>1, HeadTailProperties
  <2>2. \A i \in 1..(n - 1) : Tail(writes)[i] = writes[i + 1]
    BY <1>1, <2>1, HeadTailProperties
  <2> QED BY <2>1, <2>2
<1>4. ASSUME NEW i \in 1..Len(rest), rest[i].op = "item"
      PROVE  \/ Emptied(rest, i)
             \/ After(slave, w).list[rest[i].list].len = 0 /\ OnlyItems(rest, 1, i - 1)
  <2>1. i \in 1..(n - 1) /\ i + 1 \in 1..n /\ rest[i] = writes[i + 1]
    BY <1>1, <1>3
  <2>2. PICK x \in Lists : x = rest[i].list
    <3>1. rest[i] \in Ops
      BY <1>3, ElementOfSeq
    <3>2. rest[i] \in ItemOps
      BY <1>4, <3>1 DEF Ops, LenOps, CheckOps, SyncOps, FmmuOps
    <3> QED BY <3>2 DEF ItemOps
  <2>3. \A k \in 1..(i - 1) : rest[k] = writes[k + 1]
    BY <1>3, <2>1
  <2>4. CASE Emptied(writes, i + 1)
    <3>1. PICK j \in 1..i : writes[j] = Len0(x) /\ OnlyItems(writes, j + 1, i)
      BY <2>1, <2>2, <2>4 DEF Emptied
    <3>2. CASE j = 1
      <4>1. w.op = "len" /\ w.list = x /\ w.value = 0
        BY <1>2, <3>1, <3>2 DEF Len0
      <4>2. After(slave, w).list[x].len = 0
        BY <4>1, AfterType
      <4>3. \A k \in 1..(i - 1) : k + 1 \in (1 + 1)..i
        OBVIOUS
      <4>4. OnlyItems(rest, 1, i - 1)
        BY <2>3, <3>1, <3>2, <4>3 DEF OnlyItems
      <4> QED BY <2>2, <4>2, <4>4
    <3>3. CASE j # 1
      <4>1. j - 1 \in 1..(i - 1) /\ (j - 1) + 1 = j
        BY <3>3
      <4>2. rest[j - 1] = Len0(x)
        BY <2>3, <3>1, <4>1
      <4>3. \A k \in ((j - 1) + 1)..(i - 1) : k + 1 \in (j + 1)..i /\ k \in 1..(i - 1)
        OBVIOUS
      <4>4. OnlyItems(rest, (j - 1) + 1, i - 1)
        BY <2>3, <3>1, <4>3 DEF OnlyItems
      <4> QED BY <2>2, <4>1, <4>2, <4>4 DEF Emptied
    <3> QED BY <3>2, <3>3
  <2>5. CASE slave.list[x].len = 0 /\ OnlyItems(writes, 1, i)
    <3>1. w.op = "item"
      <4>1. 1 \in 1..i
        OBVIOUS
      <4> QED BY <1>2, <2>5, <4>1 DEF OnlyItems
    <3>2. After(slave, w).list[x].len = 0
      BY <2>5, <3>1, AfterType
    <3>3. \A k \in 1..(i - 1) : k + 1 \in 1..i
      OBVIOUS
    <3>4. OnlyItems(rest, 1, i - 1)
      BY <2>3, <2>5, <3>3 DEF OnlyItems
    <3> QED BY <2>2, <3>2, <3>4
  <2>6. (i + 1) - 1 = i
    OBVIOUS
  <2> QED BY <1>1, <1>4, <2>1, <2>2, <2>4, <2>5, <2>6 DEF Safe
<1> QED BY <1>2, <1>3, <1>4 DEF Safe

Todo == [mapping : Mappings \cup {Nobody}, writes : Seq(Ops)]

LEMMA ConfigureStep ==
  ASSUME Types, AllSafe, NEW m \in Mappings, NEW s \in Slaves, Configure(m, s)
  PROVE  Types' /\ AllSafe'
<1>1. PICK held \in HeldType : held = group[m].config[s]
  BY DEF Types, GroupingType, GroupType, Maps, Configure
<1>2. PICK base \in Nat : base = group[m].offset
  BY DEF Types, GroupingType, GroupType
<1>3. PICK pdos \in SetToSeqs(DOMAIN held.pdos), channels \in SetToSeqs(DOMAIN held.channels) :
        todo' = [todo EXCEPT ![s] =
                   [mapping |-> m, writes |-> Writes(held, base, pdos, channels)]]
  BY <1>1, <1>2 DEF Configure
<1>4. PICK w \in GuardedWrites : w = Writes(held, base, pdos, channels)
  BY WritesGuarded
<1>5. PICK t \in Todo : t = [mapping |-> m, writes |-> w] /\ t.writes = w
  <2>1. w \in Seq(Ops)
    BY DEF GuardedWrites
  <2>2. [mapping |-> m, writes |-> w] \in Todo
    BY <2>1 DEF Todo
  <2> QED BY <2>2
<1>6. todo' = [todo EXCEPT ![s] = t]
  BY <1>3, <1>4, <1>5
<1>7. BuildingType'
  BY DEF Types, BuildingType, Configure, building
<1>8. GroupingType'
  <2>1. PICK new \in GroupType : new = [group[m] EXCEPT !.configured = @ \ {s}]
    <3>1. PICK g \in GroupType : g = group[m]
      BY DEF Types, GroupingType
    <3>2. PICK left \in SUBSET Slaves : left = g.configured \ {s}
      BY DEF GroupType
    <3>3. [g EXCEPT !.configured = left] \in GroupType
      BY DEF GroupType
    <3> QED BY <3>1, <3>2, <3>3
  <2>2. group' = [group EXCEPT ![m] = new]
    BY <2>1 DEF Configure
  <2> QED BY <2>2 DEF Types, GroupingType, Configure
<1>9. WritingType'
  BY <1>6 DEF Types, WritingType, Configure, Todo
<1>10. AllSafe'
  <2> SUFFICES ASSUME NEW z \in Slaves PROVE Safe(memory'[z].list, todo'[z].writes)
    BY DEF AllSafe
  <2>1. CASE z = s
    <3>1. todo'[z].writes = w
      BY <1>5, <1>6, <2>1 DEF Types, WritingType
    <3> QED BY <3>1 DEF GuardedWrites, Guarded, Safe
  <2>2. CASE z # s
    <3>1. todo'[z] = todo[z] /\ memory' = memory
      BY <1>6, <2>2 DEF Types, WritingType, Configure
    <3> QED BY <3>1 DEF AllSafe
  <2> QED BY <2>1, <2>2
<1> QED BY <1>7, <1>8, <1>9, <1>10 DEF Types

LEMMA WriteStep ==
  ASSUME Types, AllSafe, NEW s \in Slaves, Write(s)
  PROVE  Types' /\ AllSafe'
<1>1. PICK slave \in SlaveType : slave = memory[s]
  BY DEF Types, WritingType
<1>2. PICK t \in Todo : t = todo[s]
  BY DEF Types, WritingType, Todo
<1>3. PICK w \in Seq(Ops) : w = t.writes /\ w # <<>> /\ Safe(slave.list, w)
  BY <1>1, <1>2 DEF Todo, Write, AllSafe
<1>4. PICK rest \in Seq(Ops), op \in Ops : rest = Tail(w) /\ op = Head(w) /\ Safe(After(slave, op).list, rest)
  BY <1>3, SafeAfter
<1>5. PICK new \in SlaveType : new = After(slave, op)
  BY AfterType
<1>6. PICK u \in Todo : u = [t EXCEPT !.writes = rest] /\ u.writes = rest
  <2>1. [t EXCEPT !.writes = rest] \in Todo /\ [t EXCEPT !.writes = rest].writes = rest
    BY DEF Todo
  <2> QED BY <2>1
<1>7. todo' = [todo EXCEPT ![s] = u] /\ memory' = [memory EXCEPT ![s] = new]
  BY <1>1, <1>2, <1>3, <1>4, <1>5, <1>6 DEF Write
<1>8. BuildingType' /\ GroupingType'
  BY DEF Types, BuildingType, GroupingType, Write, building, grouping
<1>9. WritingType'
  BY <1>7, ZenonT(60) DEF Types, WritingType, Write, Todo
<1>10. AllSafe'
  <2> SUFFICES ASSUME NEW z \in Slaves PROVE Safe(memory'[z].list, todo'[z].writes)
    BY DEF AllSafe
  <2>1. CASE z = s
    <3>1. todo'[z] = u /\ memory'[z] = new
      BY <1>7, <2>1 DEF Types, WritingType
    <3> QED BY <1>4, <1>5, <1>6, <3>1
  <2>2. CASE z # s
    <3>1. todo'[z] = todo[z] /\ memory'[z] = memory[z]
      BY <1>7, <2>2 DEF Types, WritingType
    <3> QED BY <3>1 DEF AllSafe
  <2> QED BY <2>1, <2>2
<1> QED BY <1>8, <1>9, <1>10 DEF Types

LEMMA IdleStep ==
  ASSUME Types, AllSafe, NEW s \in Slaves, todo' = [todo EXCEPT ![s] = Idle], memory' = memory,
         latest' \in [Slaves -> Mappings \cup {Nobody}]
  PROVE  WritingType' /\ AllSafe'
<1>1. PICK t \in Todo : t = Idle /\ t.writes = <<>>
  BY Emptiness DEF Idle, Todo
<1>2. todo' = [todo EXCEPT ![s] = t]
  BY <1>1
<1>3. WritingType'
  BY <1>2 DEF Types, WritingType, Todo
<1>4. AllSafe'
  <2> SUFFICES ASSUME NEW z \in Slaves PROVE Safe(memory'[z].list, todo'[z].writes)
    BY DEF AllSafe
  <2>1. CASE z = s
    <3>1. todo'[z].writes = <<>>
      BY <1>1, <1>2, <2>1 DEF Types, WritingType
    <3> QED BY <3>1, EmptySeq DEF Safe
  <2>2. CASE z # s
    <3>1. todo'[z] = todo[z]
      BY <1>2, <2>2 DEF Types, WritingType
    <3> QED BY <3>1 DEF AllSafe
  <2> QED BY <2>1, <2>2
<1> QED BY <1>3, <1>4

LEMMA ConfiguredStep ==
  ASSUME Types, AllSafe, NEW s \in Slaves, Configured(s)
  PROVE  Types' /\ AllSafe'
<1>1. PICK m \in Mappings : m = todo[s].mapping
  BY DEF Types, WritingType, Configured
<1>2. BuildingType'
  BY DEF Types, BuildingType, Configured, building
<1>3. GroupingType'
  <2>1. PICK new \in GroupType : new = [group[m] EXCEPT !.configured = @ \cup {s}]
    <3>1. PICK g \in GroupType : g = group[m]
      BY DEF Types, GroupingType
    <3>2. PICK more \in SUBSET Slaves : more = g.configured \cup {s}
      BY DEF GroupType
    <3>3. [g EXCEPT !.configured = more] \in GroupType
      BY DEF GroupType
    <3> QED BY <3>1, <3>2, <3>3
  <2>2. group' = [group EXCEPT ![m] = new]
    BY <1>1, <2>1 DEF Configured
  <2> QED BY <2>2 DEF Types, GroupingType, Configured
<1>4. latest' \in [Slaves -> Mappings \cup {Nobody}]
  BY <1>1 DEF Types, WritingType, Configured
<1>5. WritingType' /\ AllSafe'
  BY <1>4, IdleStep DEF Configured
<1> QED BY <1>2, <1>3, <1>5 DEF Types

LEMMA FailStep ==
  ASSUME Types, AllSafe, NEW s \in Slaves, Fail(s)
  PROVE  Types' /\ AllSafe'
<1>1. BuildingType' /\ GroupingType'
  BY DEF Types, BuildingType, GroupingType, Fail, building, grouping
<1>2. latest' \in [Slaves -> Mappings \cup {Nobody}]
  BY DEF Types, WritingType, Fail
<1>3. WritingType' /\ AllSafe'
  BY <1>2, IdleStep DEF Fail
<1> QED BY <1>1, <1>3 DEF Types

LEMMA TypesStep ==
  ASSUME Types, AllSafe, [Next]_vars
  PROVE  Types' /\ AllSafe'
<1>1. ASSUME NEW m \in Mappings, NEW s \in Slaves, Slave(m, s) PROVE Types' /\ AllSafe'
  BY <1>1, SlaveTypes DEF Slave, AllSafe, writing
<1>2. ASSUME NEW m \in Mappings, NEW s \in Slaves, DropSlave(m, s) PROVE Types' /\ AllSafe'
  BY <1>2, DropSlaveTypes DEF DropSlave, AllSafe, writing
<1>3. ASSUME NEW m \in Mappings, NEW s \in Slaves, NEW r \in Registers, Register(m, s, r)
      PROVE  Types' /\ AllSafe'
  BY <1>3, RegisterTypes DEF Register, AllSafe, writing
<1>4. ASSUME NEW m \in Mappings, NEW s \in Slaves, NEW c \in Channels, Channel(m, s, c)
      PROVE  Types' /\ AllSafe'
  BY <1>4, ChannelTypes DEF Channel, AllSafe, writing
<1>5. ASSUME NEW m \in Mappings, NEW s \in Slaves, NEW p \in Pdos, PushPdo(m, s, p)
      PROVE  Types' /\ AllSafe'
  BY <1>5, PushPdoTypes DEF PushPdo, AllSafe, writing
<1>6. ASSUME NEW m \in Mappings, NEW s \in Slaves, NEW bits \in SdoBits, PushSdo(m, s, bits)
      PROVE  Types' /\ AllSafe'
  BY <1>6, PushSdoTypes DEF PushSdo, AllSafe, writing
<1>7. ASSUME NEW m \in Mappings, NEW s \in Slaves, PushPanic(m, s) PROVE Types' /\ AllSafe'
  BY <1>7, PushPanicTypes DEF PushPanic, AllSafe, writing
<1>8. ASSUME NEW m \in Mappings, NEW s \in Slaves, Configure(m, s) PROVE Types' /\ AllSafe'
  BY <1>8, ConfigureStep
<1>9. ASSUME NEW m \in Mappings, Group(m) PROVE Types' /\ AllSafe'
  BY <1>9, GroupTypes DEF Group, AllSafe, writing
<1>10. ASSUME NEW m \in Mappings, DropGroup(m) PROVE Types' /\ AllSafe'
  BY <1>10, DropGroupTypes DEF DropGroup, AllSafe
<1>11. ASSUME NEW s \in Slaves, Write(s) PROVE Types' /\ AllSafe'
  BY <1>11, WriteStep
<1>12. ASSUME NEW s \in Slaves, Configured(s) PROVE Types' /\ AllSafe'
  BY <1>12, ConfiguredStep
<1>13. ASSUME NEW s \in Slaves, Fail(s) PROVE Types' /\ AllSafe'
  BY <1>13, FailStep
<1>14. CASE UNCHANGED vars
  <2>1. UNCHANGED <<config, guard, slaves, offset, fields, group, allocated, todo, latest, memory>>
    BY <1>14 DEF vars, building, grouping, writing
  <2> QED BY <2>1 DEF Types, BuildingType, GroupingType, WritingType, AllSafe
<1> QED BY <1>1, <1>2, <1>3, <1>4, <1>5, <1>6, <1>7, <1>8, <1>9, <1>10, <1>11, <1>12, <1>13, <1>14 DEF Next

LEMMA Invariance == Spec => [](Types /\ AllSafe)
<1>1. Init => AllSafe
  <2> SUFFICES ASSUME Init, NEW s \in Slaves PROVE Safe(memory[s].list, todo[s].writes)
    BY DEF AllSafe
  <2>1. todo[s].writes = <<>>
    BY DEF Init, Idle
  <2> QED BY <2>1, EmptySeq DEF Safe
<1> QED BY <1>1, InitTypes, TypesStep, PTL DEF Spec

(* The slave takes every item `configure` writes, for the length of its list *)
(* was set to zero before, and nothing but items written since; whatever an  *)
(* earlier `configure` that failed, by this group or another, left behind.   *)
THEOREM EveryWriteTaken == Spec => []NeverRefused
<1>1. Types /\ AllSafe => NeverRefused
  <2> SUFFICES ASSUME Types, AllSafe, NEW s \in Slaves, todo[s].writes # <<>>,
                      Head(todo[s].writes).op = "item"
               PROVE  Accepts(memory[s], Head(todo[s].writes))
    BY DEF NeverRefused, Accepts
  <2>1. PICK w \in Seq(Ops) : w = todo[s].writes
    BY DEF Types, WritingType
  <2>2. 1 \in 1..Len(w) /\ Head(w) = w[1]
    BY <2>1, EmptySeq, LenProperties
  <2>3. Safe(memory[s].list, w)
    BY <2>1 DEF AllSafe
  <2>4. ~Emptied(w, 1)
    BY DEF Emptied
  <2>5. memory[s].list[w[1].list].len = 0
    BY <2>1, <2>2, <2>3, <2>4 DEF Safe
  <2> QED BY <2>1, <2>2, <2>5 DEF Accepts
<1> QED BY <1>1, Invariance, PTL

-----------------------------------------------------------------------------
(* Capacities                                                                *)

LEMMA ChannelFits ==
  ASSUME Types, AllFit, NEW m \in Mappings, NEW s \in Slaves, NEW c \in Channels, Channel(m, s, c)
  PROVE  AllFit'
<1>1. PICK o \in HeldType : o = Held(m, s) /\ Fit(o)
  BY Same DEF Types, AllFit, Held
<1>2. PICK new : new = [pdos |-> <<>>, start |-> Buffer[c].start] /\ new.pdos = <<>>
  <2>1. [pdos |-> <<>>, start |-> Buffer[c].start].pdos = <<>>
    OBVIOUS
  <2> QED BY <2>1
<1>3. PICK channels : channels = StartedOver(o.channels, c, new)
  OBVIOUS
<1>4. PICK h : /\ h = [o EXCEPT !.channels = channels]
               /\ h.channels = channels /\ h.pdos = o.pdos
  <2>1. /\ [o EXCEPT !.channels = channels].channels = channels
        /\ [o EXCEPT !.channels = channels].pdos = o.pdos
    BY DEF HeldType
  <2> QED BY <2>1
<1>5. config' = [config EXCEPT ![ConfigOf[m]][s] = h]
  BY <1>1, <1>2, <1>3, <1>4 DEF Channel, SetHeld
<1>6. Fit(h)
  <2>1. /\ DOMAIN channels = DOMAIN o.channels \cup {c}
        /\ \A d \in DOMAIN channels : channels[d] = IF d = c THEN new ELSE o.channels[d]
    BY <1>3 DEF StartedOver
  <2>2. \A d \in DOMAIN channels : Within(channels[d].pdos, d)
    BY <1>1, <1>2, <2>1 DEF Fit, Within
  <2> QED BY <1>1, <1>4, <2>2 DEF Fit
<1> QED BY <1>5, <1>6, FitStep

LEMMA PushPdoFits ==
  ASSUME Types, AllFit, NEW m \in Mappings, NEW s \in Slaves, NEW p \in Pdos, PushPdo(m, s, p)
  PROVE  AllFit'
<1>1. PICK o \in HeldType : o = Held(m, s) /\ Fit(o)
  BY Same DEF Types, AllFit, Held
<1>2. PICK c \in DOMAIN o.channels : c = Guard(m, s).channel /\ Room(o.channels[c].pdos, c)
  BY <1>1, Same DEF PushPdo, Opened, Types
<1>3. PICK channels \in ChannelLists : channels = o.channels
  BY DEF HeldType
<1>4. PICK entries \in Seq(Pdos) : entries = channels[c].pdos /\ c \in Lists
  BY <1>2, <1>3 DEF ChannelLists, Maps, Lists
<1>5. PICK new : /\ new = [channels EXCEPT ![c].pdos = Append(@, p)] /\ DOMAIN new = DOMAIN channels
                 /\ \A d \in DOMAIN channels :
                      new[d].pdos = IF d = c THEN Append(entries, p) ELSE channels[d].pdos
  <2>1. DOMAIN [channels EXCEPT ![c].pdos = Append(@, p)] = DOMAIN channels
    OBVIOUS
  <2>2. \A d \in DOMAIN channels : channels[d] \in [pdos : Seq(Pdos), start : Nat]
    BY DEF ChannelLists, Maps
  <2>3. \A d \in DOMAIN channels :
          [channels EXCEPT ![c].pdos = Append(@, p)][d].pdos
            = IF d = c THEN Append(entries, p) ELSE channels[d].pdos
    BY <1>4, <2>2
  <2> QED BY <2>1, <2>3
<1>6. PICK started : started = StartedOver(o.pdos, p, <<>>)
  OBVIOUS
<1>7. PICK h : h = WithLists(o, new, started) /\ h.channels = new /\ h.pdos = started
  <2>1. WithLists(o, new, started).channels = new /\ WithLists(o, new, started).pdos = started
    BY DEF WithLists, HeldType
  <2> QED BY <2>1
<1>8. config' = [config EXCEPT ![ConfigOf[m]][s] = h]
  BY <1>1, <1>2, <1>3, <1>5, <1>6, <1>7 DEF PushPdo, SetHeld, WithLists
<1>9. Fit(h)
  <2>1. \A d \in DOMAIN new : Within(new[d].pdos, d)
    <3>1. Within(Append(entries, p), c)
      BY <1>2, <1>3, <1>4, WithinOneMore
    <3> QED BY <1>1, <1>3, <1>5, <3>1 DEF Fit
  <2>2. \A q \in DOMAIN started : Within(started[q], q)
    BY <1>1, <1>6 DEF StartedOver, Fit, Within
  <2> QED BY <1>7, <2>1, <2>2 DEF Fit
<1> QED BY <1>8, <1>9, FitStep

LEMMA AllFitStep ==
  ASSUME Types, AllFit, [Next]_vars
  PROVE  AllFit'
<1>1. ASSUME NEW m \in Mappings, NEW s \in Slaves, NEW r \in Registers, Register(m, s, r) PROVE AllFit'
  BY <1>1, RegisterTypes
<1>2. ASSUME NEW m \in Mappings, NEW s \in Slaves, NEW c \in Channels, Channel(m, s, c) PROVE AllFit'
  BY <1>2, ChannelFits
<1>3. ASSUME NEW m \in Mappings, NEW s \in Slaves, NEW p \in Pdos, PushPdo(m, s, p) PROVE AllFit'
  BY <1>3, PushPdoFits
<1>4. ASSUME NEW m \in Mappings, NEW s \in Slaves, NEW bits \in SdoBits, PushSdo(m, s, bits) PROVE AllFit'
  BY <1>4, PushSdoTypes
<1>5. CASE config' = config
  BY <1>5 DEF AllFit
<1> QED BY <1>1, <1>2, <1>3, <1>4, <1>5, ZenonT(60) DEF Next, Slave, DropSlave, PushPanic, Configure, Group, DropGroup,
           Write, Configured, Fail, vars, building

(* Every variable has its type, and no list of a Config outgrows the         *)
(* capacity its SyncChannel or Pdo gives it, which the assertions of `push`  *)
(* are for, however channels and PDOs are pushed again or shared.            *)
THEOREM TypeCorrect == Spec => []TypeOK
<1>1. Init => AllFit
  BY DEF Init, AllFit, Fit, NewConfig, Within
<1>2. Types /\ AllFit => TypeOK
  <2> SUFFICES ASSUME Types, AllFit PROVE TypeOK
    OBVIOUS
  <2>1. ASSUME NEW x \in Configs, NEW s \in Slaves
        PROVE  /\ DOMAIN config[x][s].pdos \subseteq Pdos
               /\ DOMAIN config[x][s].channels \subseteq Channels
               /\ \A p \in DOMAIN config[x][s].pdos :
                    config[x][s].pdos[p] \in Seq(SdoBits) /\ Within(config[x][s].pdos[p], p)
               /\ \A c \in DOMAIN config[x][s].channels :
                    /\ config[x][s].channels[c].pdos \in Seq(Pdos)
                    /\ Within(config[x][s].channels[c].pdos, c)
               /\ config[x][s].fmmu \in Seq(Fmmu)
    <3>1. PICK held \in HeldType : held = config[x][s] /\ Fit(held)
      BY DEF Types, BuildingType, AllFit
    <3>2. PICK pdos \in PdoLists, channels \in ChannelLists :
            pdos = held.pdos /\ channels = held.channels /\ held.fmmu \in Seq(Fmmu)
      BY DEF HeldType
    <3>3. DOMAIN pdos \subseteq Pdos /\ \A p \in DOMAIN pdos : pdos[p] \in Seq(SdoBits)
      BY DEF PdoLists, Maps
    <3>4. DOMAIN channels \subseteq Channels /\ \A c \in DOMAIN channels : channels[c].pdos \in Seq(Pdos)
      BY DEF ChannelLists, Maps
    <3> QED BY <3>1, <3>2, <3>3, <3>4 DEF Fit
  <2>2. ASSUME NEW s \in Slaves
        PROVE  memory[s].fmmu \in Seq(Fmmu) /\ todo[s].mapping \in Mappings \cup {Nobody}
    BY DEF Types, WritingType, SlaveType
  <2> QED BY <2>1, <2>2 DEF TypeOK, Types, BuildingType, GroupingType, WritingType
<1>3. Spec => []AllFit
  BY <1>1, AllFitStep, Invariance, PTL DEF Spec
<1> QED BY <1>2, <1>3, Invariance, PTL

-----------------------------------------------------------------------------
(* Totals                                                                    *)

(* What Total computes: the sum over each set of positions.                  *)
Sums(s, g, n) ==
  g = [S \in SUBSET (1..n) |-> IF S = {} THEN 0 ELSE g[S \ {Max(S)}] + s[Max(S)]]

LEMMA TopOf ==
  ASSUME NEW n \in Nat, NEW S \in SUBSET (1..n), NEW k \in S, \A i \in S : i <= k
  PROVE  Max(S) = k
<1>1. k \in S /\ \A y \in S : k >= y
  BY DEF Max
<1>2. \A x \in S : (\A y \in S : x >= y) => x = k
  OBVIOUS
<1> QED BY <1>1, <1>2 DEF Max

LEMMA SumsStep ==
  ASSUME NEW s, NEW n \in Nat, NEW g, Sums(s, g, n)
  PROVE  \E h : Sums(s, h, n + 1)
<1> DEFINE h == [S \in SUBSET (1..(n + 1)) |->
                   IF n + 1 \in S THEN g[S \ {n + 1}] + s[n + 1] ELSE g[S]]
<1>1. ASSUME NEW S \in SUBSET (1..(n + 1))
      PROVE  h[S] = IF S = {} THEN 0 ELSE h[S \ {Max(S)}] + s[Max(S)]
  <2>1. CASE n + 1 \in S
    <3>1. Max(S) = n + 1
      BY <2>1, TopOf
    <3>2. S \ {n + 1} \in SUBSET (1..(n + 1)) /\ n + 1 \notin S \ {n + 1}
      OBVIOUS
    <3>3. h[S \ {n + 1}] = g[S \ {n + 1}]
      BY <3>2
    <3> QED BY <2>1, <3>1, <3>3
  <2>2. CASE n + 1 \notin S
    <3>1. S \in SUBSET (1..n) /\ h[S] = g[S]
      BY <2>2
    <3>2. g[S] = IF S = {} THEN 0 ELSE g[S \ {Max(S)}] + s[Max(S)]
      BY <3>1 DEF Sums
    <3>3. h[S \ {Max(S)}] = g[S \ {Max(S)}]
      BY <2>2
    <3> QED BY <3>1, <3>2, <3>3
  <2> QED BY <2>1, <2>2
<1>2. h = [S \in SUBSET (1..(n + 1)) |-> IF S = {} THEN 0 ELSE h[S \ {Max(S)}] + s[Max(S)]]
  BY <1>1
<1> HIDE DEF h
<1> QED BY <1>2 DEF Sums

LEMMA SumsExists ==
  ASSUME NEW s, NEW n \in Nat
  PROVE  \E g : Sums(s, g, n)
<1> DEFINE T == {k \in Nat : \E g : Sums(s, g, k)}
<1>1. 0 \in T
  <2>1. PICK g : g = [S \in SUBSET (1..0) |-> 0]
    OBVIOUS
  <2>2. \A S \in SUBSET (1..0) : S = {}
    OBVIOUS
  <2>3. Sums(s, g, 0)
    BY <2>1, <2>2 DEF Sums
  <2> QED BY <2>3
<1>2. \A k \in Nat : k \in T => k + 1 \in T
  BY SumsStep
<1> HIDE DEF T
<1>3. Nat \subseteq T
  BY <1>1, <1>2, Induction
<1> QED BY <1>3 DEF T

LEMMA TotalIs ==
  ASSUME NEW n \in Nat, NEW s, DOMAIN s = 1..n
  PROVE  \E g : Sums(s, g, n) /\ Total(s) = g[1..n]
<1>1. \E g : g = [S \in SUBSET (1..n) |-> IF S = {} THEN 0 ELSE g[S \ {Max(S)}] + s[Max(S)]]
  BY SumsExists DEF Sums
<1>2. \E g : g = [S \in SUBSET DOMAIN s |-> IF S = {} THEN 0 ELSE g[S \ {Max(S)}] + s[Max(S)]]
  BY <1>1
<1>3. \E g : /\ g = [S \in SUBSET DOMAIN s |-> IF S = {} THEN 0 ELSE g[S \ {Max(S)}] + s[Max(S)]]
             /\ Total(s) = g[DOMAIN s]
  BY <1>2 DEF Total, FoldLeft, MapThenFoldSet
<1> QED BY <1>3 DEF Sums

LEMMA TotalNone == \A s : DOMAIN s = {} => Total(s) = 0
<1> SUFFICES ASSUME NEW s, DOMAIN s = {} PROVE Total(s) = 0
  OBVIOUS
<1>1. DOMAIN s = 1..0 /\ 1..0 = {}
  OBVIOUS
<1>2. PICK g : Sums(s, g, 0) /\ Total(s) = g[1..0]
  BY <1>1, TotalIs
<1>3. {} \in SUBSET (1..0)
  OBVIOUS
<1>4. g[{}] = 0
  BY <1>2, <1>3 DEF Sums
<1> QED BY <1>1, <1>2, <1>4

(* One more element adds to the total.                                       *)
LEMMA TotalMore ==
  ASSUME NEW n \in Nat, NEW s, NEW t, DOMAIN s = 1..(n + 1), DOMAIN t = 1..n,
         \A i \in 1..n : t[i] = s[i]
  PROVE  Total(s) = Total(t) + s[n + 1]
<1>1. PICK g : Sums(s, g, n + 1) /\ Total(s) = g[1..(n + 1)]
  BY TotalIs
<1>2. PICK h : Sums(t, h, n) /\ Total(t) = h[1..n]
  BY TotalIs
<1>3. ASSUME NEW k \in Nat, k <= n
      PROVE  /\ g[1..(k + 1)] = g[1..k] + s[k + 1]
             /\ k + 1 <= n => h[1..(k + 1)] = h[1..k] + t[k + 1]
  <2>1. PICK S : S = 1..(k + 1) /\ S # {} /\ S \ {k + 1} = 1..k
    OBVIOUS
  <2>2. S \in SUBSET (1..(n + 1)) /\ (k + 1 <= n => S \in SUBSET (1..n))
    BY <1>3, <2>1
  <2>3. Max(S) = k + 1
    <3>1. k + 1 \in S /\ \A i \in S : i <= k + 1
      BY <2>1
    <3>2. n + 1 \in Nat
      OBVIOUS
    <3> QED BY <2>2, <3>1, <3>2, TopOf
  <2>4. g[S] = g[S \ {k + 1}] + s[k + 1]
    BY <1>1, <2>1, <2>2, <2>3 DEF Sums
  <2>5. k + 1 <= n => h[S] = h[S \ {k + 1}] + t[k + 1]
    BY <1>2, <2>1, <2>2, <2>3 DEF Sums
  <2> QED BY <2>1, <2>4, <2>5
<1>4. g[1..0] = 0 /\ h[1..0] = 0
  <2>1. 1..0 = {} /\ {} \in SUBSET (1..(n + 1)) /\ {} \in SUBSET (1..n)
    OBVIOUS
  <2> QED BY <1>1, <1>2, <2>1 DEF Sums
<1> DEFINE T == {k \in Nat : k <= n => g[1..k] = h[1..k]}
<1>5. 0 \in T
  BY <1>4
<1>6. ASSUME NEW k \in Nat, k \in T PROVE k + 1 \in T
  <2> SUFFICES ASSUME k + 1 <= n PROVE g[1..(k + 1)] = h[1..(k + 1)]
    OBVIOUS
  <2>1. g[1..k] = h[1..k]
    BY <1>6
  <2>2. t[k + 1] = s[k + 1]
    OBVIOUS
  <2> QED BY <1>3, <2>1, <2>2
<1>7. n \in T
  <2> HIDE DEF T
  <2> QED BY <1>5, <1>6, Induction
<1>8. g[1..n] = h[1..n]
  BY <1>7
<1> QED BY <1>1, <1>2, <1>3, <1>8

LEMMA TotalNat ==
  ASSUME NEW n \in Nat, NEW s \in [1..n -> Nat]
  PROVE  Total(s) \in Nat
<1> DEFINE Part(k) == [i \in 1..k |-> s[i]]
           T == {k \in Nat : k <= n => Total(Part(k)) \in Nat}
<1>1. 0 \in T
  <2>1. DOMAIN Part(0) = {}
    OBVIOUS
  <2> HIDE DEF Part
  <2>2. Total(Part(0)) = 0
    BY <2>1, TotalNone
  <2> QED BY <2>2
<1>2. ASSUME NEW k \in Nat, k \in T PROVE k + 1 \in T
  <2> SUFFICES ASSUME k + 1 <= n PROVE Total(Part(k + 1)) \in Nat
    OBVIOUS
  <2>1. Total(Part(k)) \in Nat
    BY <1>2
  <2>2. PICK a, b : a = Part(k) /\ b = Part(k + 1)
    OBVIOUS
  <2>3. /\ DOMAIN b = 1..(k + 1) /\ DOMAIN a = 1..k
        /\ \A i \in 1..k : a[i] = b[i]
    BY <2>2
  <2>4. b[k + 1] \in Nat
    BY <2>2
  <2>5. Total(b) = Total(a) + b[k + 1]
    BY <2>3, TotalMore
  <2> QED BY <2>1, <2>2, <2>4, <2>5
<1>3. n \in T
  <2> HIDE DEF T
  <2> QED BY <1>1, <1>2, Induction
<1>4. Part(n) = s
  OBVIOUS
<1> QED BY <1>3, <1>4

(* A total of bytes is an eighth of the total of bits.                       *)
LEMMA TotalEighth ==
  ASSUME NEW n \in Nat, NEW s \in [1..n -> Nat], NEW t \in [1..n -> Nat], \A i \in 1..n : s[i] = 8 * t[i]
  PROVE  Total(s) = 8 * Total(t)
<1> DEFINE Part(f, k) == [i \in 1..k |-> f[i]]
           T == {k \in Nat : k <= n => Total(Part(s, k)) = 8 * Total(Part(t, k))}
<1>1. 0 \in T
  <2>1. DOMAIN Part(s, 0) = {} /\ DOMAIN Part(t, 0) = {}
    OBVIOUS
  <2> HIDE DEF Part
  <2>2. Total(Part(s, 0)) = 0 /\ Total(Part(t, 0)) = 0
    BY <2>1, TotalNone
  <2> QED BY <2>2
<1>2. ASSUME NEW k \in Nat, k \in T PROVE k + 1 \in T
  <2> SUFFICES ASSUME k + 1 <= n PROVE Total(Part(s, k + 1)) = 8 * Total(Part(t, k + 1))
    OBVIOUS
  <2>1. Total(Part(s, k)) = 8 * Total(Part(t, k))
    BY <1>2
  <2>2. PICK a, b, c, d : a = Part(s, k) /\ b = Part(s, k + 1) /\ c = Part(t, k) /\ d = Part(t, k + 1)
    OBVIOUS
  <2>3. /\ DOMAIN b = 1..(k + 1) /\ DOMAIN a = 1..k /\ DOMAIN d = 1..(k + 1) /\ DOMAIN c = 1..k
        /\ \A i \in 1..k : a[i] = b[i] /\ c[i] = d[i]
    BY <2>2
  <2>4. b[k + 1] = 8 * d[k + 1] /\ d[k + 1] \in Nat
    BY <2>2
  <2>5. Total(b) = Total(a) + b[k + 1] /\ Total(d) = Total(c) + d[k + 1]
    BY <2>3, TotalMore
  <2>6. c \in [1..k -> Nat]
    BY <2>2
  <2>7. Total(c) \in Nat
    BY <2>6, TotalNat
  <2> QED BY <2>1, <2>2, <2>4, <2>5, <2>7
<1>3. n \in T
  <2> HIDE DEF T
  <2> QED BY <1>1, <1>2, Induction
<1>4. Part(s, n) = s /\ Part(t, n) = t
  OBVIOUS
<1> QED BY <1>3, <1>4

-----------------------------------------------------------------------------
(* Where the slave puts the entries of the lists of a Config                 *)

(* The PDOs of each channel.                                                 *)
RowsType == Maps(Channels, Seq(Pdos))
Rows(held) == [c \in DOMAIN held.channels |-> held.channels[c].pdos]

(* The bytes of a PDO, and of a channel.                                     *)
BytesOf(entries) == Total([i \in DOMAIN entries |-> entries[i] \div 8])
LengthOf(rows, pdos, c) == Total([k \in DOMAIN rows[c] |-> BytesOf(pdos[rows[c][k]])])

(* Each PDO is in one place of one channel.                                  *)
Listed(rows, pdos) ==
  /\ \A c \in DOMAIN rows : \A k \in DOMAIN rows[c] : rows[c][k] \in DOMAIN pdos
  /\ \A c, d \in DOMAIN rows : \A k \in DOMAIN rows[c], l \in DOMAIN rows[d] :
       rows[c][k] = rows[d][l] => c = d /\ k = l

(* What a MappingSlave has open is last in its channel.                      *)
OpenLast(g, rows, pdos) ==
  g.channel # Nobody =>
    /\ g.position = Buffer[g.channel].start + LengthOf(rows, pdos, g.channel)
    /\ g.pdo # Nobody => Len(rows[g.channel]) > 0 /\ rows[g.channel][Len(rows[g.channel])] = g.pdo

(* The entry is in the channel at this address, which its buffer holds.      *)
EntryAt(rows, pdos, o, slot, at, length) ==
  /\ o.channel \in DOMAIN rows
  /\ slot \in DOMAIN rows[o.channel] /\ rows[o.channel][slot] = o.pdo
  /\ o.index \in DOMAIN pdos[o.pdo]
  /\ 8 * (at - Buffer[o.channel].start) =
       Total([k \in 1..slot - 1 |-> Total(pdos[rows[o.channel][k]])])
       + Total(SubSeq(pdos[o.pdo], 1, o.index - 1))
  /\ at + length <= Buffer[o.channel].start + LengthOf(rows, pdos, o.channel)
  /\ Buffer[o.channel].start + LengthOf(rows, pdos, o.channel) <= BufferEnd(o.channel)

LEMMA AppendIs ==
  ASSUME NEW S, NEW seq \in Seq(S), NEW v \in S
  PROVE  /\ Append(seq, v) \in Seq(S) /\ Len(Append(seq, v)) = Len(seq) + 1
         /\ DOMAIN Append(seq, v) = 1..(Len(seq) + 1) /\ Len(seq) \in Nat /\ DOMAIN seq = 1..Len(seq)
         /\ Append(seq, v)[Len(seq) + 1] = v
         /\ \A i \in 1..Len(seq) : Append(seq, v)[i] = seq[i]
<1>1. Append(seq, v) \in Seq(S) /\ Len(Append(seq, v)) = Len(seq) + 1
  BY AppendProperties
<1>2. DOMAIN Append(seq, v) = 1..Len(Append(seq, v)) /\ Len(seq) \in Nat /\ DOMAIN seq = 1..Len(seq)
  BY <1>1, LenProperties
<1> QED BY <1>1, <1>2, AppendProperties

LEMMA RowIs ==
  ASSUME NEW rows \in RowsType, NEW c \in DOMAIN rows
  PROVE  rows[c] \in Seq(Pdos) /\ c \in Channels /\ Len(rows[c]) \in Nat /\ DOMAIN rows[c] = 1..Len(rows[c])
<1>1. rows[c] \in Seq(Pdos) /\ c \in Channels
  BY DEF RowsType, Maps
<1> QED BY <1>1, LenProperties

LEMMA PdoIs ==
  ASSUME NEW pdos \in PdoLists, NEW p \in DOMAIN pdos
  PROVE  /\ pdos[p] \in Seq(SdoBits) /\ p \in Pdos /\ Len(pdos[p]) \in Nat
         /\ DOMAIN pdos[p] = 1..Len(pdos[p])
         /\ \A i \in 1..Len(pdos[p]) : pdos[p][i] \in Nat
<1>1. pdos[p] \in Seq(SdoBits) /\ p \in Pdos
  BY DEF PdoLists, Maps
<1>2. Len(pdos[p]) \in Nat /\ DOMAIN pdos[p] = 1..Len(pdos[p])
  BY <1>1, LenProperties
<1>3. \A i \in 1..Len(pdos[p]) : pdos[p][i] \in SdoBits
  BY <1>1, ElementOfSeq
<1> QED BY <1>1, <1>2, <1>3, ConstantsAssumption

LEMMA BytesNat ==
  ASSUME NEW pdos \in PdoLists, NEW p \in DOMAIN pdos
  PROVE  BytesOf(pdos[p]) \in Nat
<1>1. PICK n \in Nat : DOMAIN pdos[p] = 1..n /\ \A i \in 1..n : pdos[p][i] \in Nat
  BY PdoIs
<1>2. PICK t : t = [i \in DOMAIN pdos[p] |-> pdos[p][i] \div 8]
  OBVIOUS
<1>3. t \in [1..n -> Nat]
  <2>1. \A i \in 1..n : pdos[p][i] \div 8 \in Nat
    BY <1>1
  <2> QED BY <1>1, <1>2, <2>1
<1> QED BY <1>2, <1>3, TotalNat DEF BytesOf

LEMMA LengthNat ==
  ASSUME NEW rows \in RowsType, NEW pdos \in PdoLists, Listed(rows, pdos), NEW c \in DOMAIN rows
  PROVE  LengthOf(rows, pdos, c) \in Nat
<1>1. PICK n \in Nat : DOMAIN rows[c] = 1..n
  BY RowIs
<1>2. PICK t : t = [k \in DOMAIN rows[c] |-> BytesOf(pdos[rows[c][k]])]
  OBVIOUS
<1>3. t \in [1..n -> Nat]
  <2>1. \A k \in 1..n : BytesOf(pdos[rows[c][k]]) \in Nat
    BY <1>1, BytesNat DEF Listed
  <2> QED BY <1>1, <1>2, <2>1
<1> QED BY <1>2, <1>3, TotalNat DEF LengthOf

(* A channel whose PDOs do not change.                                       *)
LEMMA LengthSame ==
  ASSUME NEW rows, NEW pdos, NEW after, NEW entries, NEW c, after[c] = rows[c],
         \A k \in DOMAIN rows[c] : entries[rows[c][k]] = pdos[rows[c][k]]
  PROVE  LengthOf(after, entries, c) = LengthOf(rows, pdos, c)
<1>1. [k \in DOMAIN after[c] |-> BytesOf(entries[after[c][k]])]
        = [k \in DOMAIN rows[c] |-> BytesOf(pdos[rows[c][k]])]
  OBVIOUS
<1> QED BY <1>1 DEF LengthOf

(* One more PDO in a channel.                                                *)
LEMMA LengthPdo ==
  ASSUME NEW rows \in RowsType, NEW pdos \in PdoLists, Listed(rows, pdos), NEW c \in DOMAIN rows,
         NEW p \in Pdos, NEW after, NEW entries,
         after[c] = Append(rows[c], p), entries[p] = <<>>,
         \A k \in DOMAIN rows[c] : entries[rows[c][k]] = pdos[rows[c][k]]
  PROVE  LengthOf(after, entries, c) = LengthOf(rows, pdos, c)
<1>1. PICK row \in Seq(Pdos) : row = rows[c]
  BY RowIs
<1>2. PICK n \in Nat : n = Len(row) /\ DOMAIN row = 1..n
  BY LenProperties
<1>3. PICK more \in Seq(Pdos) : /\ more = Append(row, p) /\ DOMAIN more = 1..(n + 1)
                                /\ more[n + 1] = p /\ \A k \in 1..n : more[k] = row[k]
  <2>1. /\ Append(row, p) \in Seq(Pdos) /\ DOMAIN Append(row, p) = 1..(Len(row) + 1)
        /\ Append(row, p)[Len(row) + 1] = p /\ \A k \in 1..Len(row) : Append(row, p)[k] = row[k]
    BY AppendIs
  <2> QED BY <1>2, <2>1
<1>4. PICK t : t = [k \in 1..n |-> BytesOf(pdos[row[k]])]
  OBVIOUS
<1>5. PICK s : s = [k \in 1..(n + 1) |-> BytesOf(entries[more[k]])]
  OBVIOUS
<1>6. \A k \in 1..n : t[k] = s[k]
  BY <1>1, <1>2, <1>3, <1>4, <1>5, SMTT(30)
<1>7. s[n + 1] = 0
  <2>1. DOMAIN [i \in DOMAIN <<>> |-> <<>>[i] \div 8] = {}
    OBVIOUS
  <2>2. BytesOf(<<>>) = 0
    BY <2>1, TotalNone DEF BytesOf
  <2>3. n + 1 \in 1..(n + 1)
    OBVIOUS
  <2> QED BY <1>3, <1>5, <2>2, <2>3
<1>8. Total(s) = Total(t) + s[n + 1]
  <2>1. DOMAIN s = 1..(n + 1) /\ DOMAIN t = 1..n
    BY <1>4, <1>5
  <2> QED BY <1>6, <2>1, TotalMore
<1>9. LengthOf(rows, pdos, c) = Total(t) /\ LengthOf(after, entries, c) = Total(s)
  BY <1>1, <1>2, <1>3, <1>4, <1>5 DEF LengthOf
<1>10. LengthOf(rows, pdos, c) \in Nat
  BY LengthNat
<1> QED BY <1>7, <1>8, <1>9, <1>10

(* One more SDO in the last PDO of a channel.                                *)
LEMMA LengthSdo ==
  ASSUME NEW rows \in RowsType, NEW pdos \in PdoLists, Listed(rows, pdos), NEW c \in DOMAIN rows,
         NEW p \in DOMAIN pdos, NEW bits \in SdoBits, NEW entries,
         Len(rows[c]) > 0, rows[c][Len(rows[c])] = p,
         entries[p] = Append(pdos[p], bits),
         \A q \in DOMAIN pdos : q # p => entries[q] = pdos[q]
  PROVE  LengthOf(rows, entries, c) = LengthOf(rows, pdos, c) + bits \div 8
<1>1. PICK row \in Seq(Pdos) : row = rows[c]
  BY RowIs
<1>2. PICK n \in Nat : n + 1 = Len(row) /\ DOMAIN row = 1..(n + 1)
  <2>1. Len(row) \in Nat /\ Len(row) > 0 /\ DOMAIN row = 1..Len(row)
    BY <1>1, LenProperties
  <2>2. Len(row) - 1 \in Nat /\ (Len(row) - 1) + 1 = Len(row)
    BY <2>1
  <2> QED BY <2>1, <2>2
<1>3. row[n + 1] = p /\ \A k \in 1..n : row[k] # p /\ row[k] \in DOMAIN pdos
  <2>1. row[n + 1] = p
    BY <1>1, <1>2
  <2>2. \A k \in 1..n : k \in 1..(n + 1) /\ k # n + 1 /\ n + 1 \in 1..(n + 1)
    OBVIOUS
  <2>3. \A k \in 1..n : row[k] # row[n + 1] /\ row[k] \in DOMAIN pdos
    BY <1>1, <1>2, <2>2 DEF Listed
  <2> QED BY <2>1, <2>3
<1>4. PICK old \in Seq(SdoBits) : old = pdos[p]
  BY PdoIs
<1>5. BytesOf(entries[p]) = BytesOf(pdos[p]) + bits \div 8
  <2>1. PICK l \in Nat : l = Len(old) /\ DOMAIN old = 1..l
    BY LenProperties
  <2>2. PICK new \in Seq(SdoBits) : /\ new = Append(old, bits) /\ DOMAIN new = 1..(l + 1)
                                    /\ new[l + 1] = bits /\ \A i \in 1..l : new[i] = old[i]
    <3>1. /\ Append(old, bits) \in Seq(SdoBits) /\ DOMAIN Append(old, bits) = 1..(Len(old) + 1)
          /\ Append(old, bits)[Len(old) + 1] = bits
          /\ \A i \in 1..Len(old) : Append(old, bits)[i] = old[i]
      BY AppendIs
    <3> QED BY <2>1, <3>1
  <2>3. PICK t : t = [i \in 1..l |-> old[i] \div 8]
    OBVIOUS
  <2>4. PICK s : s = [i \in 1..(l + 1) |-> new[i] \div 8]
    OBVIOUS
  <2>5. DOMAIN s = 1..(l + 1) /\ DOMAIN t = 1..l /\ \A i \in 1..l : t[i] = s[i]
    <3>1. \A i \in 1..l : i \in 1..(l + 1)
      OBVIOUS
    <3> QED BY <2>2, <2>3, <2>4, <3>1
  <2>6. Total(s) = Total(t) + s[l + 1]
    BY <2>5, TotalMore
  <2>7. s[l + 1] = bits \div 8
    <3>1. l + 1 \in 1..(l + 1)
      OBVIOUS
    <3> QED BY <2>2, <2>4, <3>1
  <2>8. BytesOf(old) = Total(t) /\ BytesOf(new) = Total(s)
    BY <2>1, <2>2, <2>3, <2>4 DEF BytesOf
  <2> QED BY <1>4, <2>2, <2>6, <2>7, <2>8
<1>6. PICK t : t = [k \in 1..n |-> BytesOf(pdos[row[k]])]
  OBVIOUS
<1>7. PICK s : s = [k \in 1..(n + 1) |-> BytesOf(pdos[row[k]])]
  OBVIOUS
<1>8. PICK u : u = [k \in 1..(n + 1) |-> BytesOf(entries[row[k]])]
  OBVIOUS
<1>9. \A k \in 1..n : t[k] = s[k] /\ t[k] = u[k]
  <2>1. \A k \in 1..n : entries[row[k]] = pdos[row[k]] /\ k \in 1..(n + 1)
    BY <1>3
  <2> QED BY <1>6, <1>7, <1>8, <2>1
<1>10. DOMAIN s = 1..(n + 1) /\ DOMAIN u = 1..(n + 1) /\ DOMAIN t = 1..n
  BY <1>6, <1>7, <1>8
<1>11. Total(s) = Total(t) + s[n + 1] /\ Total(u) = Total(t) + u[n + 1]
  BY <1>9, <1>10, TotalMore
<1>12. s[n + 1] = BytesOf(pdos[p]) /\ u[n + 1] = BytesOf(entries[p])
  <2>1. n + 1 \in 1..(n + 1)
    OBVIOUS
  <2> QED BY <1>3, <1>7, <1>8, <2>1
<1>13. LengthOf(rows, pdos, c) = Total(s) /\ LengthOf(rows, entries, c) = Total(u)
  BY <1>1, <1>2, <1>7, <1>8 DEF LengthOf
<1>14. BytesOf(pdos[p]) \in Nat /\ bits \div 8 \in Nat /\ Total(t) \in Nat
  <2>1. \A k \in 1..n : BytesOf(pdos[row[k]]) \in Nat
    BY <1>3, BytesNat
  <2>2. t \in [1..n -> Nat]
    BY <1>6, <2>1
  <2>3. bits \in Nat
    BY ConstantsAssumption
  <2>4. bits \div 8 \in Nat
    BY <2>3
  <2> QED BY <2>2, <2>4, TotalNat, BytesNat
<1> QED BY <1>5, <1>11, <1>12, <1>13, <1>14

(* Entries of whole bytes.                                                   *)
WholeBytes == \A bits \in SdoBits : bits % 8 = 0

(* The beginning of a sequence.                                              *)
LEMMA FirstOf ==
  ASSUME NEW S, NEW s \in Seq(S), NEW n \in Nat, n <= Len(s)
  PROVE  /\ SubSeq(s, 1, n) \in Seq(S) /\ Len(SubSeq(s, 1, n)) = n
         /\ \A i \in 1..n : SubSeq(s, 1, n)[i] = s[i]
<1>1. \A i \in 1..n : s[i] \in S
  BY ElementOfSeq, LenProperties
<1>2. 1 \in Int /\ n \in Int
  OBVIOUS
<1>3. /\ SubSeq(s, 1, n) \in Seq(S)
      /\ Len(SubSeq(s, 1, n)) = IF 1 <= n THEN n - 1 + 1 ELSE 0
      /\ \A i \in 1..n - 1 + 1 : SubSeq(s, 1, n)[i] = s[1 + i - 1]
  BY <1>1, <1>2, SubSeqProperties
<1>4. n - 1 + 1 = n /\ (~(1 <= n) => n = 0) /\ \A i \in 1..n : 1 + i - 1 = i
  OBVIOUS
<1> QED BY <1>3, <1>4

LEMMA FirstIs ==
  ASSUME NEW S, NEW s \in Seq(S), NEW t \in Seq(S), NEW n \in Nat, n <= Len(s), n = Len(t),
         \A i \in 1..n : t[i] = s[i]
  PROVE  SubSeq(s, 1, n) = t
<1>1. PICK f \in Seq(S) : f = SubSeq(s, 1, n) /\ Len(f) = n /\ \A i \in 1..n : f[i] = s[i]
  BY FirstOf
<1>2. f = t
  BY <1>1, SeqEqual
<1> QED BY <1>1, <1>2

(* The bits of a channel are eight times its bytes.                          *)
LEMMA PdoBitsOf ==
  ASSUME WholeBytes, NEW pdos \in PdoLists, NEW p \in DOMAIN pdos
  PROVE  Total(pdos[p]) = 8 * BytesOf(pdos[p]) /\ Total(pdos[p]) \in Nat
<1>1. PICK s : s = pdos[p]
  OBVIOUS
<1>2. PICK n \in Nat : s \in Seq(SdoBits) /\ DOMAIN s = 1..n
  BY <1>1, PdoIs
<1>3. s \in [1..n -> SdoBits]
  <2>1. n = Len(s)
    BY <1>2, LenProperties
  <2> QED BY <1>2, <2>1, LenProperties
<1>4. PICK t : t = [i \in 1..n |-> s[i] \div 8]
  OBVIOUS
<1>5. \A b \in SdoBits : b \in Nat /\ b \div 8 \in Nat /\ b = 8 * (b \div 8)
  <2>1. \A b \in Nat : b % 8 = 0 => b \div 8 \in Nat /\ b = 8 * (b \div 8)
    OBVIOUS
  <2> QED BY <2>1, ConstantsAssumption DEF WholeBytes
<1>6. s \in [1..n -> Nat] /\ t \in [1..n -> Nat] /\ \A i \in 1..n : s[i] = 8 * t[i]
  BY <1>3, <1>4, <1>5
<1>7. Total(s) = 8 * Total(t)
  BY <1>6, TotalEighth
<1>8. BytesOf(s) = Total(t)
  BY <1>2, <1>4 DEF BytesOf
<1>9. Total(s) \in Nat
  BY <1>6, TotalNat
<1> QED BY <1>1, <1>7, <1>8, <1>9

(* The slave puts an SDO that is pushed where the channel ended.             *)
LEMMA NewEntryAt ==
  ASSUME WholeBytes, NEW rows \in RowsType, NEW pdos \in PdoLists, Listed(rows, pdos), NEW c \in DOMAIN rows,
         NEW p \in DOMAIN pdos, NEW bits \in SdoBits, NEW entries,
         Len(rows[c]) > 0, rows[c][Len(rows[c])] = p,
         entries[p] = Append(pdos[p], bits),
         \A q \in DOMAIN pdos : q # p => entries[q] = pdos[q],
         NEW o, o.channel = c, o.pdo = p, o.index = Len(pdos[p]) + 1,
         NEW at, at = Buffer[c].start + LengthOf(rows, pdos, c),
         at + bits \div 8 <= BufferEnd(c)
  PROVE  EntryAt(rows, entries, o, Len(rows[c]), at, bits \div 8)
<1>1. PICK row \in Seq(Pdos) : row = rows[c]
  BY RowIs
<1>2. PICK n \in Nat : n + 1 = Len(row) /\ DOMAIN row = 1..(n + 1)
  <2>1. Len(row) \in Nat /\ Len(row) > 0 /\ DOMAIN row = 1..Len(row)
    BY <1>1, LenProperties
  <2>2. Len(row) - 1 \in Nat /\ (Len(row) - 1) + 1 = Len(row)
    BY <2>1
  <2> QED BY <2>1, <2>2
<1>3. row[n + 1] = p /\ \A k \in 1..n : row[k] # p /\ row[k] \in DOMAIN pdos
  <2>1. row[n + 1] = p
    BY <1>1, <1>2
  <2>2. \A k \in 1..n : k \in 1..(n + 1) /\ k # n + 1 /\ n + 1 \in 1..(n + 1)
    OBVIOUS
  <2>3. \A k \in 1..n : row[k] # row[n + 1] /\ row[k] \in DOMAIN pdos
    BY <1>1, <1>2, <2>2 DEF Listed
  <2> QED BY <2>1, <2>3
<1>4. PICK s : s = [k \in 1..(n + 1) |-> Total(pdos[row[k]])]
  OBVIOUS
<1>5. PICK t : t = [k \in 1..(n + 1) |-> BytesOf(pdos[row[k]])]
  OBVIOUS
<1>6. PICK u : u = [k \in 1..n |-> Total(pdos[row[k]])]
  OBVIOUS
<1>7. \A k \in 1..(n + 1) : row[k] \in DOMAIN pdos
  BY <1>1, <1>2 DEF Listed
<1>8. \A k \in 1..(n + 1) : /\ Total(pdos[row[k]]) = 8 * BytesOf(pdos[row[k]])
                            /\ Total(pdos[row[k]]) \in Nat /\ BytesOf(pdos[row[k]]) \in Nat
  BY <1>7, PdoBitsOf, BytesNat
<1>9. s \in [1..(n + 1) -> Nat] /\ t \in [1..(n + 1) -> Nat] /\ \A k \in 1..(n + 1) : s[k] = 8 * t[k]
  BY <1>4, <1>5, <1>8
<1>10. Total(s) = 8 * Total(t)
  <2>1. n + 1 \in Nat
    OBVIOUS
  <2> QED BY <1>9, <2>1, TotalEighth
<1>11. Total(t) = LengthOf(rows, pdos, c)
  BY <1>1, <1>2, <1>5 DEF LengthOf
<1>12. Total(s) = Total(u) + Total(pdos[p])
  <2>1. DOMAIN s = 1..(n + 1) /\ DOMAIN u = 1..n /\ \A k \in 1..n : u[k] = s[k]
    BY <1>4, <1>6
  <2>2. Total(s) = Total(u) + s[n + 1]
    BY <2>1, TotalMore
  <2>3. n + 1 \in 1..(n + 1)
    OBVIOUS
  <2> QED BY <1>3, <1>4, <2>2, <2>3
<1>13. [k \in 1..Len(rows[c]) - 1 |-> Total(entries[rows[c][k]])] = u
  <2>1. Len(rows[c]) - 1 = n
    BY <1>1, <1>2
  <2>2. \A k \in 1..n : Total(entries[row[k]]) = Total(pdos[row[k]])
    BY <1>3
  <2> QED BY <1>1, <1>6, <2>1, <2>2
<1>14. PICK old \in Seq(SdoBits) : old = pdos[p]
  BY PdoIs
<1>15. SubSeq(entries[p], 1, o.index - 1) = pdos[p] /\ o.index \in DOMAIN entries[p]
  <2>1. PICK l \in Nat : l = Len(old) /\ old \in [1..l -> SdoBits]
    BY LenProperties
  <2>2. /\ Append(old, bits) \in Seq(SdoBits) /\ DOMAIN Append(old, bits) = 1..(l + 1)
        /\ \A i \in 1..l : Append(old, bits)[i] = old[i]
    BY <2>1, AppendIs
  <2>3. PICK new \in Seq(SdoBits) : new = Append(old, bits)
    BY <2>2
  <2>4. l <= Len(new) /\ l = Len(old) /\ \A i \in 1..l : old[i] = new[i]
    <3>1. DOMAIN new = 1..Len(new) /\ Len(new) \in Nat
      BY LenProperties
    <3>2. l + 1 \in 1..(l + 1)
      OBVIOUS
    <3> QED BY <2>1, <2>2, <2>3, <3>1, <3>2
  <2>5. SubSeq(new, 1, l) = old
    BY <2>4, FirstIs
  <2>6. o.index - 1 = l /\ o.index \in 1..(l + 1) /\ entries[p] = new
    BY <1>14, <2>1, <2>3
  <2> QED BY <1>14, <2>2, <2>3, <2>5, <2>6
<1>16. LengthOf(rows, entries, c) = LengthOf(rows, pdos, c) + bits \div 8
  BY LengthSdo
<1>17. at \in Int /\ Buffer[c].start \in Int /\ LengthOf(rows, pdos, c) \in Nat /\ bits \div 8 \in Int
       /\ BufferEnd(c) \in Int
  <2>1. c \in Channels /\ bits \in Nat
    BY RowIs, ConstantsAssumption
  <2>2. Buffer[c].start \in Nat /\ Buffer[c].end \in Nat
    BY <2>1, ConstantsAssumption
  <2>3. LengthOf(rows, pdos, c) \in Nat
    BY LengthNat
  <2>4. BufferEnd(c) \in Int
    BY <2>2 DEF BufferEnd
  <2>5. bits \div 8 \in Int
    BY <2>1
  <2> QED BY <2>2, <2>3, <2>4, <2>5
<1>18. 8 * (at - Buffer[c].start) =
         Total([k \in 1..Len(rows[c]) - 1 |-> Total(entries[rows[c][k]])])
         + Total(SubSeq(entries[p], 1, o.index - 1))
  <2>1. 8 * (at - Buffer[c].start) = 8 * LengthOf(rows, pdos, c)
    BY <1>17
  <2> QED BY <2>1, <1>10, <1>11, <1>12, <1>13, <1>15
<1>19. Len(rows[c]) \in DOMAIN rows[c]
  BY <1>1, <1>2
<1>20. /\ at + bits \div 8 <= Buffer[c].start + LengthOf(rows, entries, c)
       /\ Buffer[c].start + LengthOf(rows, entries, c) <= BufferEnd(c)
  BY <1>16, <1>17, SMTT(30)
<1> QED BY <1>15, <1>18, <1>19, <1>20 DEF EntryAt

(* An entry stays where it is when nothing before it in the channel changes. *)
LEMMA EntryStays ==
  ASSUME NEW rows \in RowsType, NEW pdos \in PdoLists, Listed(rows, pdos),
         NEW after \in RowsType, NEW entries \in PdoLists, Listed(after, entries),
         NEW o, NEW slot, NEW at \in Int, NEW length \in Nat, EntryAt(rows, pdos, o, slot, at, length),
         NEW c \in DOMAIN rows, c = o.channel, c \in DOMAIN after, Len(rows[c]) <= Len(after[c]),
         \A k \in DOMAIN rows[c] : after[c][k] = rows[c][k],
         \A k \in 1..slot - 1 : entries[rows[c][k]] = pdos[rows[c][k]],
         NEW p \in DOMAIN pdos, p = o.pdo, p \in DOMAIN entries, Len(pdos[p]) <= Len(entries[p]),
         \A i \in DOMAIN pdos[p] : entries[p][i] = pdos[p][i],
         LengthOf(rows, pdos, c) <= LengthOf(after, entries, c),
         Buffer[c].start + LengthOf(after, entries, c) <= BufferEnd(c)
  PROVE  EntryAt(after, entries, o, slot, at, length)
<1>2. PICK row \in Seq(Pdos), n \in Nat : row = rows[c] /\ n = Len(row) /\ DOMAIN row = 1..n
  BY RowIs
<1>3. PICK more \in Seq(Pdos), l \in Nat : more = after[c] /\ l = Len(more) /\ DOMAIN more = 1..l
  BY RowIs
<1>4. n <= l /\ slot \in 1..n /\ slot \in 1..l /\ row[slot] = o.pdo
  BY <1>2, <1>3 DEF EntryAt
<1>6. PICK old \in Seq(SdoBits), a \in Nat : old = pdos[p] /\ a = Len(old) /\ DOMAIN old = 1..a
  BY PdoIs
<1>7. PICK new \in Seq(SdoBits), b \in Nat : new = entries[p] /\ b = Len(new) /\ DOMAIN new = 1..b
  BY PdoIs
<1>8. PICK j \in 1..a : j = o.index /\ a <= b /\ \A i \in 1..a : new[i] = old[i]
  BY <1>6, <1>7 DEF EntryAt
<1>9. SubSeq(new, 1, j - 1) = SubSeq(old, 1, j - 1)
  <2>1. PICK k \in Nat : k = j - 1 /\ k <= Len(new) /\ k <= Len(old) /\ \A i \in 1..k : new[i] = old[i]
    <3>1. j - 1 \in Nat /\ j - 1 <= a /\ j - 1 <= b /\ \A i \in 1..(j - 1) : i \in 1..a
      BY <1>8, SMTT(30)
    <3>2. \A i \in 1..(j - 1) : new[i] = old[i]
      BY <1>8, <3>1
    <3> QED BY <1>6, <1>7, <3>1, <3>2
  <2>2. PICK f \in Seq(SdoBits) : f = SubSeq(old, 1, k) /\ Len(f) = k /\ \A i \in 1..k : f[i] = old[i]
    <3>1. SubSeq(old, 1, k) \in Seq(SdoBits) /\ Len(SubSeq(old, 1, k)) = k
          /\ \A i \in 1..k : SubSeq(old, 1, k)[i] = old[i]
      BY <2>1, FirstOf
    <3> QED BY <3>1
  <2>3. \A i \in 1..k : f[i] = new[i]
    BY <2>1, <2>2
  <2>4. SubSeq(new, 1, k) = f
    BY <2>1, <2>2, <2>3, FirstIs
  <2> QED BY <2>1, <2>2, <2>4
<1>10. [k \in 1..slot - 1 |-> Total(entries[more[k]])] = [k \in 1..slot - 1 |-> Total(pdos[row[k]])]
  <2>1. \A k \in 1..slot - 1 : k \in 1..n
    BY <1>4
  <2>2. \A k \in 1..slot - 1 : more[k] = row[k] /\ entries[row[k]] = pdos[row[k]]
    BY <1>2, <1>3, <2>1
  <2> QED BY <2>2
<1>11. LengthOf(rows, pdos, c) \in Nat /\ LengthOf(after, entries, c) \in Nat /\ Buffer[c].start \in Nat
  BY LengthNat, RowIs, ConstantsAssumption
<1>12. at + length <= Buffer[c].start + LengthOf(after, entries, c)
  <2>1. at + length <= Buffer[c].start + LengthOf(rows, pdos, c)
    BY DEF EntryAt
  <2>2. LengthOf(rows, pdos, c) <= LengthOf(after, entries, c)
    OBVIOUS
  <2> QED BY <1>11, <2>1, <2>2
<1>13. 8 * (at - Buffer[c].start) =
         Total([k \in 1..slot - 1 |-> Total(entries[more[k]])]) + Total(SubSeq(new, 1, j - 1))
  <2>1. 8 * (at - Buffer[c].start) =
          Total([k \in 1..slot - 1 |-> Total(pdos[row[k]])]) + Total(SubSeq(old, 1, j - 1))
    BY <1>2, <1>6, <1>8 DEF EntryAt
  <2> QED BY <1>9, <1>10, <2>1
<1>14. slot \in DOMAIN more /\ more[slot] = o.pdo /\ j \in DOMAIN new
  BY <1>2, <1>3, <1>4, <1>7, <1>8
<1> QED BY <1>3, <1>7, <1>8, <1>12, <1>13, <1>14 DEF EntryAt

(* Entries of the lists stay where they are.                                 *)
Keeps(rows, pdos, after, entries) ==
  \A o \in Origins : \A slot, at \in Int : \A length \in Nat :
    EntryAt(rows, pdos, o, slot, at, length) => EntryAt(after, entries, o, slot, at, length)

(* `MappingSlave::channel`, `MappingChannel::push`, `MappingPdo::push` leave *)
(* the entries that were there in their places.                              *)
LEMMA ChannelRows ==
  ASSUME NEW rows \in RowsType, NEW pdos \in PdoLists, Listed(rows, pdos), NEW c \in Channels,
         c \notin DOMAIN rows, NEW after \in RowsType, DOMAIN after = DOMAIN rows \cup {c},
         after[c] = <<>>, \A d \in DOMAIN rows : after[d] = rows[d]
  PROVE  /\ Listed(after, pdos) /\ LengthOf(after, pdos, c) = 0
         /\ Keeps(rows, pdos, after, pdos)
<1>1. /\ DOMAIN after = DOMAIN rows \cup {c} /\ after[c] = <<>>
      /\ \A d \in DOMAIN rows : d # c /\ after[d] = rows[d]
  OBVIOUS
<1>2. DOMAIN after[c] = {}
  BY <1>1
<1>3. Listed(after, pdos)
  <2>1. \A d \in DOMAIN after : \A k \in DOMAIN after[d] : d \in DOMAIN rows /\ after[d] = rows[d]
    BY <1>1, <1>2
  <2> QED BY <2>1 DEF Listed
<1>4. LengthOf(after, pdos, c) = 0
  <2>1. PICK t : t = [k \in DOMAIN after[c] |-> BytesOf(pdos[after[c][k]])]
    OBVIOUS
  <2>2. DOMAIN t = {}
    BY <1>2, <2>1
  <2> QED BY <2>1, <2>2, TotalNone DEF LengthOf
<1>5. Keeps(rows, pdos, after, pdos)
  <2> SUFFICES ASSUME NEW o \in Origins, NEW slot \in Int, NEW at \in Int, NEW length \in Nat,
                      EntryAt(rows, pdos, o, slot, at, length)
               PROVE  EntryAt(after, pdos, o, slot, at, length)
    BY DEF Keeps
  <2>1. PICK d \in DOMAIN rows : d = o.channel /\ after[d] = rows[d] /\ d \in DOMAIN after
    BY <1>1 DEF EntryAt
  <2>2. LengthOf(after, pdos, d) = LengthOf(rows, pdos, d)
    BY <2>1, LengthSame
  <2> QED BY <2>1, <2>2 DEF EntryAt
<1> QED BY <1>3, <1>4, <1>5

LEMMA PdoRows ==
  ASSUME NEW rows \in RowsType, NEW pdos \in PdoLists, Listed(rows, pdos), NEW c \in DOMAIN rows,
         NEW p \in Pdos, p \notin DOMAIN pdos,
         NEW after \in RowsType, DOMAIN after = DOMAIN rows, after[c] = Append(rows[c], p),
         \A d \in DOMAIN rows : d # c => after[d] = rows[d],
         NEW entries \in PdoLists, DOMAIN entries = DOMAIN pdos \cup {p}, entries[p] = <<>>,
         \A q \in DOMAIN pdos : entries[q] = pdos[q]
  PROVE  /\ Listed(after, entries) /\ LengthOf(after, entries, c) = LengthOf(rows, pdos, c)
         /\ Len(after[c]) > 0 /\ after[c][Len(after[c])] = p
         /\ Keeps(rows, pdos, after, entries)
<1>1. PICK row \in Seq(Pdos), n \in Nat : row = rows[c] /\ n = Len(row) /\ DOMAIN row = 1..n
  BY RowIs
<1>2. PICK more \in Seq(Pdos) : /\ more = Append(row, p) /\ Len(more) = n + 1 /\ DOMAIN more = 1..(n + 1)
                                /\ more[n + 1] = p /\ \A k \in 1..n : more[k] = row[k]
  <2>1. /\ Append(row, p) \in Seq(Pdos) /\ Len(Append(row, p)) = Len(row) + 1
        /\ DOMAIN Append(row, p) = 1..(Len(row) + 1)
        /\ Append(row, p)[Len(row) + 1] = p /\ \A k \in 1..Len(row) : Append(row, p)[k] = row[k]
    BY AppendIs
  <2> QED BY <1>1, <2>1
<1>3. /\ DOMAIN after = DOMAIN rows /\ after[c] = more
      /\ \A d \in DOMAIN rows : d # c => after[d] = rows[d]
  BY <1>1, <1>2
<1>4. /\ DOMAIN entries = DOMAIN pdos \cup {p} /\ entries[p] = <<>>
      /\ \A q \in DOMAIN pdos : q # p /\ entries[q] = pdos[q]
  OBVIOUS
<1>5. \A d \in DOMAIN rows : \A k \in DOMAIN rows[d] :
        rows[d][k] # p /\ entries[rows[d][k]] = pdos[rows[d][k]] /\ k \in DOMAIN after[d] /\ after[d][k] = rows[d][k]
  <2> SUFFICES ASSUME NEW d \in DOMAIN rows, NEW k \in DOMAIN rows[d]
               PROVE  rows[d][k] # p /\ entries[rows[d][k]] = pdos[rows[d][k]]
                      /\ k \in DOMAIN after[d] /\ after[d][k] = rows[d][k]
    OBVIOUS
  <2>1. rows[d][k] \in DOMAIN pdos
    BY DEF Listed
  <2>2. CASE d = c
    <3>1. k \in 1..n /\ k \in 1..(n + 1)
      BY <1>1, <2>2
    <3> QED BY <1>1, <1>2, <1>3, <1>4, <2>1, <2>2, <3>1
  <2> QED BY <1>3, <1>4, <2>1, <2>2
<1>6. \A d \in DOMAIN after : \A k \in DOMAIN after[d] :
        \/ d \in DOMAIN rows /\ k \in DOMAIN rows[d] /\ after[d][k] = rows[d][k] /\ after[d][k] \in DOMAIN pdos
           /\ after[d][k] # p
        \/ d = c /\ k = n + 1 /\ after[d][k] = p
  <2> SUFFICES ASSUME NEW d \in DOMAIN after, NEW k \in DOMAIN after[d], ~(d = c /\ k = n + 1)
               PROVE  /\ d \in DOMAIN rows /\ k \in DOMAIN rows[d] /\ after[d][k] = rows[d][k]
                      /\ after[d][k] \in DOMAIN pdos /\ after[d][k] # p
    BY <1>2, <1>3
  <2>1. d \in DOMAIN rows /\ k \in DOMAIN rows[d]
    <3>1. CASE d = c
      <4>1. k \in 1..(n + 1) /\ k # n + 1
        BY <1>2, <1>3, <3>1
      <4>2. k \in 1..n
        BY <4>1
      <4> QED BY <1>1, <3>1, <4>2
    <3> QED BY <1>3, <3>1
  <2> QED BY <1>5, <2>1 DEF Listed
<1>7. Listed(after, entries)
  BY <1>4, <1>6 DEF Listed
<1>8. LengthOf(after, entries, c) = LengthOf(rows, pdos, c)
  <2>1. after[c] = Append(rows[c], p)
    BY <1>1, <1>2, <1>3
  <2>2. \A k \in DOMAIN rows[c] : entries[rows[c][k]] = pdos[rows[c][k]]
    BY <1>5
  <2> QED BY <1>4, <2>1, <2>2, LengthPdo
<1>9. Keeps(rows, pdos, after, entries)
  <2> SUFFICES ASSUME NEW o \in Origins, NEW slot \in Int, NEW at \in Int, NEW length \in Nat,
                      EntryAt(rows, pdos, o, slot, at, length)
               PROVE  EntryAt(after, entries, o, slot, at, length)
    BY DEF Keeps
  <2>1. PICK d \in DOMAIN rows : d = o.channel /\ d \in DOMAIN after /\ slot \in DOMAIN rows[d] /\ rows[d][slot] = o.pdo
    BY <1>3 DEF EntryAt
  <2>2. LengthOf(after, entries, d) = LengthOf(rows, pdos, d)
    <3>1. CASE d # c
      <4>1. after[d] = rows[d]
        BY <1>3, <3>1
      <4>2. \A k \in DOMAIN rows[d] : entries[rows[d][k]] = pdos[rows[d][k]]
        BY <1>5
      <4> QED BY <4>1, <4>2, LengthSame
    <3> QED BY <1>8, <3>1
  <2>3. LengthOf(rows, pdos, d) \in Nat
    BY LengthNat
  <2>4. Len(rows[d]) <= Len(after[d])
    <3>1. CASE d # c
      <4>1. after[d] = rows[d] /\ Len(rows[d]) \in Nat
        BY <1>3, <3>1, RowIs
      <4> QED BY <4>1
    <3> QED BY <1>1, <1>2, <1>3, <3>1
  <2>5. PICK q \in DOMAIN pdos : q = o.pdo /\ entries[q] = pdos[q] /\ q \in DOMAIN entries
    BY <1>4, <2>1 DEF Listed
  <2>6. Len(pdos[q]) <= Len(entries[q])
    <3>1. Len(pdos[q]) \in Nat
      BY PdoIs
    <3> QED BY <2>5, <3>1
  <2>7. \A k \in DOMAIN rows[d] : after[d][k] = rows[d][k]
    BY <1>5
  <2>8. \A k \in 1..slot - 1 : entries[rows[d][k]] = pdos[rows[d][k]]
    <3>1. \A k \in 1..slot - 1 : k \in DOMAIN rows[d]
      <4>1. PICK l \in Nat : DOMAIN rows[d] = 1..l
        BY RowIs
      <4> QED BY <2>1, <4>1
    <3> QED BY <1>5, <3>1
  <2>9. \A i \in DOMAIN pdos[q] : entries[q][i] = pdos[q][i]
    BY <2>5
  <2>10. Buffer[d].start + LengthOf(after, entries, d) <= BufferEnd(d)
    BY <2>1, <2>2 DEF EntryAt
  <2>11. LengthOf(rows, pdos, d) <= LengthOf(after, entries, d)
    BY <2>2, <2>3
  <2> QED BY <1>7, <2>1, <2>4, <2>5, <2>6, <2>7, <2>8, <2>9, <2>10, <2>11, EntryStays, SMTT(30)
<1>10. n + 1 > 0 /\ Len(after[c]) > 0 /\ after[c][Len(after[c])] = p
  BY <1>2, <1>3
<1> QED BY <1>7, <1>8, <1>9, <1>10

LEMMA SdoRows ==
  ASSUME NEW rows \in RowsType, NEW pdos \in PdoLists, Listed(rows, pdos), NEW c \in DOMAIN rows,
         NEW p \in DOMAIN pdos, NEW bits \in SdoBits, Len(rows[c]) > 0, rows[c][Len(rows[c])] = p,
         NEW entries \in PdoLists, DOMAIN entries = DOMAIN pdos, entries[p] = Append(pdos[p], bits),
         \A q \in DOMAIN pdos : q # p => entries[q] = pdos[q],
         Buffer[c].start + LengthOf(rows, pdos, c) + bits \div 8 <= BufferEnd(c)
  PROVE  /\ Listed(rows, entries)
         /\ LengthOf(rows, entries, c) = LengthOf(rows, pdos, c) + bits \div 8
         /\ Keeps(rows, pdos, rows, entries)
<1>1. Listed(rows, entries)
  BY DEF Listed
<1>2. LengthOf(rows, entries, c) = LengthOf(rows, pdos, c) + bits \div 8
  BY LengthSdo
<1>3. PICK row \in Seq(Pdos), n \in Nat : row = rows[c] /\ n = Len(row) /\ DOMAIN row = 1..n /\ n > 0 /\ row[n] = p
  BY RowIs
<1>4. \A d \in DOMAIN rows : \A k \in DOMAIN rows[d] : rows[d][k] = p => d = c /\ k = n
  <2>1. n \in DOMAIN rows[c] /\ rows[c][n] = p
    BY <1>3
  <2> QED BY <2>1 DEF Listed
<1>5. Keeps(rows, pdos, rows, entries)
  <2> SUFFICES ASSUME NEW o \in Origins, NEW slot \in Int, NEW at \in Int, NEW length \in Nat,
                      EntryAt(rows, pdos, o, slot, at, length)
               PROVE  EntryAt(rows, entries, o, slot, at, length)
    BY DEF Keeps
  <2>1. PICK d \in DOMAIN rows : /\ d = o.channel /\ slot \in DOMAIN rows[d] /\ rows[d][slot] = o.pdo
                                 /\ Buffer[d].start + LengthOf(rows, pdos, d) <= BufferEnd(d)
    BY DEF EntryAt
  <2>2. LengthOf(rows, pdos, d) \in Nat /\ bits \div 8 \in Nat
    <3>1. bits \in Nat
      BY ConstantsAssumption
    <3>2. bits \div 8 \in Nat
      BY <3>1
    <3> QED BY <3>2, LengthNat
  <2>3. /\ LengthOf(rows, pdos, d) <= LengthOf(rows, entries, d)
        /\ Buffer[d].start + LengthOf(rows, entries, d) <= BufferEnd(d)
    <3>1. CASE d # c
      <4>1. \A k \in DOMAIN rows[d] : entries[rows[d][k]] = pdos[rows[d][k]]
        BY <1>4, <3>1 DEF Listed
      <4>2. LengthOf(rows, entries, d) = LengthOf(rows, pdos, d)
        BY <4>1, LengthSame
      <4> QED BY <2>1, <2>2, <4>2
    <3>2. CASE d = c
      <4>1. Buffer[c].start \in Nat
        BY RowIs, ConstantsAssumption
      <4> QED BY <1>2, <2>2, <3>2, <4>1
    <3> QED BY <3>1, <3>2
  <2>4. \A k \in 1..slot - 1 : entries[rows[d][k]] = pdos[rows[d][k]]
    <3>1. PICK l \in Nat : DOMAIN rows[d] = 1..l /\ l = Len(rows[d])
      BY RowIs
    <3>2. \A k \in 1..slot - 1 : k \in DOMAIN rows[d] /\ ~(d = c /\ k = n)
      BY <1>3, <2>1, <3>1
    <3> QED BY <1>4, <3>2 DEF Listed
  <2>5. PICK q \in DOMAIN pdos : q = o.pdo /\ q \in DOMAIN entries
    BY <2>1 DEF Listed
  <2>6. /\ Len(pdos[q]) <= Len(entries[q])
        /\ \A i \in DOMAIN pdos[q] : entries[q][i] = pdos[q][i]
    <3>1. CASE q = p
      <4>1. PICK old \in Seq(SdoBits) : old = pdos[p]
        BY PdoIs
      <4>2. /\ Len(Append(old, bits)) = Len(old) + 1 /\ Len(old) \in Nat /\ DOMAIN old = 1..Len(old)
            /\ \A i \in 1..Len(old) : Append(old, bits)[i] = old[i]
        BY AppendIs
      <4> QED BY <3>1, <4>1, <4>2
    <3>2. CASE q # p
      <4>1. Len(pdos[q]) \in Nat
        BY PdoIs
      <4> QED BY <3>2, <4>1
    <3> QED BY <3>1, <3>2
  <2>7. Len(rows[d]) <= Len(rows[d]) /\ \A k \in DOMAIN rows[d] : rows[d][k] = rows[d][k]
    <3>1. Len(rows[d]) \in Nat
      BY RowIs
    <3> QED BY <3>1
  <2> QED BY <1>1, <2>1, <2>3, <2>4, <2>5, <2>6, <2>7, EntryStays, SMTT(30)
<1> QED BY <1>1, <1>2, <1>5

-----------------------------------------------------------------------------
(* FMMU entries                                                              *)

Has(e, byte) == e.logical <= byte /\ byte < e.logical + e.length
Ends(fmmu, end) == \A i \in DOMAIN fmmu : fmmu[i].logical + fmmu[i].length <= end

(* The entry maps the field, in its direction, to this physical address.     *)
EntryMaps(e, f, at) ==
  /\ e.logical <= f.logical /\ f.logical + f.length <= e.logical + e.length
  /\ e.direction = f.direction /\ e.physical + (f.logical - e.logical) = at

LEMMA FmmuIs ==
  ASSUME NEW fmmu \in Seq(Fmmu)
  PROVE  /\ Len(fmmu) \in Nat /\ DOMAIN fmmu = 1..Len(fmmu)
         /\ \A i \in DOMAIN fmmu : /\ fmmu[i] \in Fmmu /\ fmmu[i].logical \in Nat /\ fmmu[i].length \in Nat
                                   /\ fmmu[i].physical \in Nat
<1>1. Len(fmmu) \in Nat /\ DOMAIN fmmu = 1..Len(fmmu)
  BY LenProperties
<1>2. \A i \in 1..Len(fmmu) : fmmu[i] \in Fmmu
  BY ElementOfSeq
<1> QED BY <1>1, <1>2 DEF Fmmu

(* A field that is inserted at the end of the logical memory has an entry,   *)
(* and entries only grow, at the end.                                        *)
Grown(fmmu, new, direction, logical, physical, length) ==
  /\ Ends(new, logical + length)
  /\ \A i \in DOMAIN fmmu :
       /\ i \in DOMAIN new
       /\ new[i].logical = fmmu[i].logical /\ new[i].physical = fmmu[i].physical
       /\ new[i].direction = fmmu[i].direction /\ fmmu[i].length <= new[i].length
  /\ \E i \in DOMAIN new :
       /\ new[i].logical <= logical /\ logical + length = new[i].logical + new[i].length
       /\ new[i].direction = direction /\ new[i].physical + (logical - new[i].logical) = physical
  /\ \A i \in DOMAIN new, b \in Nat : Has(new[i], b) =>
       (i \in DOMAIN fmmu /\ Has(fmmu[i], b)) \/ (i = Len(new) /\ logical <= b)

(* `MappingSlave::insert`.                                                   *)
LEMMA InsertedCovers ==
  ASSUME NEW fmmu \in Seq(Fmmu), NEW direction \in {"read", "write"}, NEW logical \in Nat,
         NEW physical \in Nat, NEW length \in Nat, Ends(fmmu, logical),
         NEW new \in Seq(Fmmu), new = Inserted(fmmu, direction, logical, physical, length)
  PROVE  Grown(fmmu, new, direction, logical, physical, length)
<1>1. PICK n \in Nat : /\ n = Len(fmmu) /\ DOMAIN fmmu = 1..n
                       /\ \A i \in 1..n : /\ fmmu[i] \in Fmmu /\ fmmu[i].logical \in Nat
                                          /\ fmmu[i].length \in Nat /\ fmmu[i].physical \in Nat
                                          /\ fmmu[i].logical + fmmu[i].length <= logical
  BY FmmuIs DEF Ends
<1>2. CASE fmmu # <<>> /\ Extends(Last(fmmu), direction, logical, physical)
  <2>1. n > 0 /\ n \in 1..n
    BY <1>1, <1>2, EmptySeq
  <2>2. PICK last \in Fmmu : /\ last = fmmu[n] /\ last.logical \in Nat /\ last.length \in Nat
                             /\ last.physical \in Nat
    BY <1>1, <2>1
  <2>3. /\ last.logical + last.length = logical /\ last.physical + last.length = physical
        /\ last.direction = direction
    BY <1>1, <1>2, <2>2 DEF Extends, Last
  <2>4. PICK e \in Fmmu : /\ e = [last EXCEPT !.length = @ + length]
                          /\ e.logical = last.logical /\ e.physical = last.physical
                          /\ e.direction = last.direction /\ e.length = last.length + length
    <3>1. PICK l \in Nat : l = last.length + length
      BY <2>2
    <3>2. [last EXCEPT !.length = l] \in Fmmu
      BY DEF Fmmu
    <3>3. PICK e \in Fmmu : e = [last EXCEPT !.length = l]
      BY <3>2
    <3>4. e.logical = last.logical /\ e.physical = last.physical /\ e.direction = last.direction /\ e.length = l
      BY <3>3 DEF Fmmu
    <3> QED BY <3>1, <3>3, <3>4
  <2>a. /\ e.logical = last.logical /\ e.physical = last.physical
        /\ e.direction = last.direction /\ e.length = last.length + length
    BY <2>4
  <2>b. PICK x, y, z \in Nat : x = last.logical /\ y = last.length /\ z = last.physical
    BY <2>2
  <2>5. new = [fmmu EXCEPT ![n] = e]
    BY <1>1, <1>2, <2>2, <2>4 DEF Inserted
  <2>6. Len(new) = n /\ DOMAIN new = 1..n /\ \A i \in 1..n : new[i] = IF i = n THEN e ELSE fmmu[i]
    BY <1>1, <2>1, <2>5, ExceptSeq, LenProperties
  <2>7. Ends(new, logical + length)
    <3>1. \A i \in 1..n : i # n => new[i] = fmmu[i]
      BY <2>6
    <3>2. new[n] = e
      BY <2>1, <2>6
    <3>3. \A i \in 1..n : new[i].logical + new[i].length <= logical + length
      <4>1. \A i \in 1..n : i # n => new[i].logical + new[i].length <= logical + length
        <5>1. \A i \in 1..n : fmmu[i].logical + fmmu[i].length <= logical + length
          <6>1. \A u, v, w, l \in Nat : u + v <= w => u + v <= w + l
            OBVIOUS
          <6> QED BY <1>1, <6>1
        <5> QED BY <3>1, <5>1
      <4>2. new[n].logical + new[n].length = logical + length
        BY <2>3, <2>a, <2>b, <3>2
      <4>3. logical + length <= logical + length
        OBVIOUS
      <4> QED BY <4>1, <4>2, <4>3
    <3> QED BY <2>6, <3>3 DEF Ends
  <2>8. \A i \in 1..n : /\ new[i].logical = fmmu[i].logical /\ new[i].physical = fmmu[i].physical
                        /\ new[i].direction = fmmu[i].direction /\ fmmu[i].length <= new[i].length
    BY <1>1, <2>2, <2>a, <2>6, SMTT(30)
  <2>9. /\ new[n].logical <= logical /\ logical + length = new[n].logical + new[n].length
        /\ new[n].direction = direction /\ new[n].physical + (logical - new[n].logical) = physical
    <3>1. new[n] = e
      BY <2>1, <2>6
    <3>2. new[n].logical = x /\ new[n].length = y + length /\ new[n].physical = z /\ new[n].direction = direction
      BY <2>3, <2>a, <2>b, <3>1
    <3>3. logical = x + y /\ physical = z + y
      BY <2>3, <2>b
    <3> QED BY <3>2, <3>3
  <2>10. ASSUME NEW i \in 1..n, NEW b \in Nat, Has(new[i], b)
         PROVE  Has(fmmu[i], b) \/ (i = n /\ logical <= b)
    <3>1. CASE i # n
      BY <2>6, <2>10, <3>1
    <3>2. CASE i = n
      BY <2>2, <2>3, <2>a, <2>6, <2>10, <3>2 DEF Has
    <3> QED BY <3>1, <3>2
  <2> QED BY <1>1, <2>1, <2>6, <2>7, <2>8, <2>9, <2>10 DEF Grown
<1>3. CASE ~(fmmu # <<>> /\ Extends(Last(fmmu), direction, logical, physical))
  <2>1. PICK e \in Fmmu : /\ e = [direction |-> direction, length |-> length,
                                  logical |-> logical, physical |-> physical]
                          /\ e.logical = logical /\ e.physical = physical
                          /\ e.direction = direction /\ e.length = length
    <3>1. [direction |-> direction, length |-> length, logical |-> logical, physical |-> physical] \in Fmmu
      BY DEF Fmmu
    <3> QED BY <3>1
  <2>a. e.logical = logical /\ e.physical = physical /\ e.direction = direction /\ e.length = length
    BY <2>1
  <2>2. new = Append(fmmu, e)
    BY <1>3, <2>1 DEF Inserted
  <2>3. /\ Len(new) = n + 1 /\ DOMAIN new = 1..(n + 1) /\ new[n + 1] = e
        /\ \A i \in 1..n : new[i] = fmmu[i]
    BY <1>1, <2>2, AppendIs
  <2>4. \A i \in 1..(n + 1) : i \in 1..n \/ i = n + 1
    OBVIOUS
  <2>5. Ends(new, logical + length)
    <3>1. \A i \in 1..n : new[i].logical + new[i].length <= logical + length
      <4>1. \A i \in 1..n : fmmu[i].logical + fmmu[i].length <= logical + length
        <5>1. \A u, v, w, l \in Nat : u + v <= w => u + v <= w + l
          OBVIOUS
        <5> QED BY <1>1, <5>1
      <4> QED BY <2>3, <4>1
    <3>2. new[n + 1].logical + new[n + 1].length <= logical + length
      BY <2>a, <2>3
    <3> QED BY <2>3, <2>4, <3>1, <3>2 DEF Ends
  <2>6. \A i \in 1..n : /\ i \in 1..(n + 1)
                        /\ new[i].logical = fmmu[i].logical /\ new[i].physical = fmmu[i].physical
                        /\ new[i].direction = fmmu[i].direction /\ fmmu[i].length <= new[i].length
    <3>1. \A i \in 1..n : new[i] = fmmu[i] /\ fmmu[i].length <= fmmu[i].length
      BY <1>1, <2>3
    <3> QED BY <3>1
  <2>7. /\ n + 1 \in 1..(n + 1)
        /\ new[n + 1].logical <= logical /\ logical + length = new[n + 1].logical + new[n + 1].length
        /\ new[n + 1].direction = direction
        /\ new[n + 1].physical + (logical - new[n + 1].logical) = physical
    BY <2>a, <2>3
  <2>8. ASSUME NEW i \in 1..(n + 1), NEW b \in Nat, Has(new[i], b)
        PROVE  (i \in 1..n /\ Has(fmmu[i], b)) \/ (i = n + 1 /\ logical <= b)
    <3>1. CASE i \in 1..n
      BY <2>3, <2>8, <3>1
    <3>2. CASE i = n + 1
      BY <2>a, <2>3, <2>8, <3>2 DEF Has
    <3> QED BY <2>4, <3>1, <3>2
  <2> QED BY <1>1, <2>3, <2>5, <2>6, <2>7, <2>8 DEF Grown
<1> QED BY <1>2, <1>3

-----------------------------------------------------------------------------
(* Building a mapping                                                        *)

(* Every mapping has a Config of its own.                                    *)
OwnConfig == \A m, n \in Mappings : ConfigOf[m] = ConfigOf[n] => m = n

(* The slave has the value of the field at this physical address.            *)
FoundIn(rows, pdos, f, at) ==
  IF "byte" \in DOMAIN f.origin THEN at = f.origin.byte
  ELSE \E slot \in Nat : EntryAt(rows, pdos, f.origin, slot, at, f.length)

(* A ConfigSlave gives the field an FMMU entry, to where its lists put it.   *)
FieldIn(held, f) ==
  \E i \in DOMAIN held.fmmu, at \in Nat :
    EntryMaps(held.fmmu[i], f, at) /\ FoundIn(Rows(held), held.pdos, f, at)

Starts(held) == \A c \in DOMAIN held.channels : held.channels[c].start = Buffer[c].start
Sound(held)  == Starts(held) /\ Listed(Rows(held), held.pdos)

(* No byte is mapped twice.                                                  *)
OneEntry(F) ==
  \A s, t \in DOMAIN F : \A i \in DOMAIN F[s], l \in DOMAIN F[t], b \in Nat :
    Has(F[s][i], b) /\ Has(F[t][l], b) => s = t /\ i = l

FmmusOf(m) == [s \in Slaves |-> Held(m, s).fmmu]

(* What is known of the ConfigSlave of a slave in the Config of a mapping.   *)
Built(m, s) ==
  /\ Sound(Held(m, s)) /\ OpenLast(Guard(m, s), Rows(Held(m, s)), Held(m, s).pdos)
  /\ Guard(m, s).mapping = m => s \in slaves[m]
  /\ Ends(Held(m, s).fmmu, offset[m])
Placed(m) == \A f \in fields[m] : f.slave \in slaves[m] /\ FieldIn(Held(m, f.slave), f)

(* The first part of the invariant, on what users build: each field a mapping *)
(* returned has an FMMU entry that leads to it, and no byte has two.         *)
BuiltInv ==
  \A m \in Mappings : (\A s \in Slaves : Built(m, s)) /\ OneEntry(FmmusOf(m)) /\ Placed(m)

LEMMA RowsIs ==
  ASSUME NEW held \in HeldType
  PROVE  /\ Rows(held) \in RowsType /\ DOMAIN Rows(held) = DOMAIN held.channels
         /\ \A c \in DOMAIN held.channels : Rows(held)[c] = held.channels[c].pdos /\ c \in Channels
         /\ held.pdos \in PdoLists /\ held.fmmu \in Seq(Fmmu) /\ held.channels \in ChannelLists
<1>1. PICK channels \in ChannelLists : channels = held.channels
  BY DEF HeldType
<1>2. DOMAIN channels \in SUBSET Channels /\ \A c \in DOMAIN channels : channels[c].pdos \in Seq(Pdos)
  BY DEF ChannelLists, Maps
<1>3. PICK rows : rows = [c \in DOMAIN channels |-> channels[c].pdos]
  OBVIOUS
<1>4. rows \in [DOMAIN channels -> Seq(Pdos)]
  BY <1>2, <1>3
<1>5. rows \in RowsType
  BY <1>2, <1>4 DEF RowsType, Maps
<1>6. Rows(held) = rows
  BY <1>1, <1>3 DEF Rows
<1>7. held.pdos \in PdoLists /\ held.fmmu \in Seq(Fmmu) /\ held.channels \in ChannelLists
  BY DEF HeldType
<1> QED BY <1>1, <1>2, <1>3, <1>5, <1>6, <1>7

LEMMA BuiltInit == Init => BuiltInv
<1> SUFFICES ASSUME Init, NEW m \in Mappings
             PROVE  (\A s \in Slaves : Built(m, s)) /\ OneEntry(FmmusOf(m)) /\ Placed(m)
  BY DEF BuiltInv
<1>1. ConfigOf[m] \in Configs
  BY DEF Configs
<1>2. \A s \in Slaves : Held(m, s) = NewConfig /\ Guard(m, s) = Closed
  BY <1>1 DEF Init, Held, Guard
<1>3. PICK new : /\ new = NewConfig /\ DOMAIN new.pdos = {} /\ DOMAIN new.channels = {}
                 /\ DOMAIN new.fmmu = {}
  <2>1. /\ NewConfig.pdos = <<>> /\ NewConfig.channels = <<>> /\ NewConfig.fmmu = <<>>
    BY DEF NewConfig
  <2> QED BY <2>1
<1>4. Sound(new) /\ OpenLast(Closed, Rows(new), new.pdos) /\ Ends(new.fmmu, offset[m])
  <2>1. DOMAIN Rows(new) = {}
    BY <1>3 DEF Rows
  <2>2. Listed(Rows(new), new.pdos)
    BY <2>1 DEF Listed
  <2>3. OpenLast(Closed, Rows(new), new.pdos)
    BY DEF OpenLast, Closed
  <2> QED BY <1>3, <2>2, <2>3 DEF Sound, Starts, Ends
<1>5. Closed.mapping # m
  BY ConstantsAssumption DEF Closed
<1>6. \A s \in Slaves : Built(m, s)
  BY <1>2, <1>3, <1>4, <1>5 DEF Built
<1>7. OneEntry(FmmusOf(m))
  <2>1. \A s \in Slaves : FmmusOf(m)[s] = new.fmmu
    BY <1>2, <1>3 DEF FmmusOf
  <2>2. DOMAIN FmmusOf(m) = Slaves
    BY DEF FmmusOf
  <2> QED BY <1>3, <2>1, <2>2 DEF OneEntry
<1>8. Placed(m)
  BY DEF Init, Placed
<1> QED BY <1>6, <1>7, <1>8

(* What every step that builds a mapping does to the ConfigSlave it holds.   *)
LEMMA BuiltStep ==
  ASSUME OwnConfig, Types, BuiltInv, NEW m \in Mappings, NEW s \in Slaves,
         NEW o, o = Held(m, s), o \in HeldType,
         NEW h \in HeldType, config' = [config EXCEPT ![ConfigOf[m]][s] = h],
         NEW g, guard' = [guard EXCEPT ![ConfigOf[m]][s] = g],
         Sound(h), OpenLast(g, Rows(h), h.pdos), g.mapping = m => s \in slaves'[m],
         \A n \in Mappings : slaves[n] \subseteq slaves'[n],
         NEW start \in Nat, NEW end \in Nat, start = offset[m], start <= end, Ends(h.fmmu, end),
         offset'[m] = end, \A n \in Mappings : n # m => offset'[n] = offset[n],
         \A i \in DOMAIN h.fmmu, b \in Nat : Has(h.fmmu[i], b) =>
           (i \in DOMAIN o.fmmu /\ Has(o.fmmu[i], b)) \/ (i = Len(h.fmmu) /\ start <= b),
         \A f \in Field : FieldIn(o, f) => FieldIn(h, f),
         \A n \in Mappings : n # m => fields'[n] = fields[n],
         \A f \in fields'[m] : f \in fields[m] \/ (f.slave = s /\ s \in slaves'[m] /\ FieldIn(h, f))
  PROVE  BuiltInv'
<1>1. /\ \A n \in Mappings : ConfigOf[n] \in Configs
      /\ config \in [Configs -> [Slaves -> HeldType]] /\ guard \in [Configs -> [Slaves -> GuardType]]
      /\ fields \in [Mappings -> SUBSET Field]
  BY DEF Configs, Types, BuildingType
<1>2. /\ config'[ConfigOf[m]][s] = h /\ guard'[ConfigOf[m]][s] = g
      /\ \A n \in Mappings, t \in Slaves : ~(n = m /\ t = s) =>
           /\ config'[ConfigOf[n]][t] = config[ConfigOf[n]][t]
           /\ guard'[ConfigOf[n]][t] = guard[ConfigOf[n]][t]
  BY <1>1 DEF OwnConfig
<1>3. /\ Held(m, s)' = h /\ Guard(m, s)' = g
      /\ \A n \in Mappings, t \in Slaves : ~(n = m /\ t = s) =>
           config'[ConfigOf[n]][t] = Held(n, t) /\ guard'[ConfigOf[n]][t] = Guard(n, t)
  BY <1>2 DEF Held, Guard
<1>4. ASSUME NEW n \in Mappings, NEW t \in Slaves PROVE Built(n, t)'
  <2>1. CASE n = m /\ t = s
    BY <1>3, <2>1 DEF Built
  <2>2. CASE ~(n = m /\ t = s)
    <3>1. PICK c, d : c = Held(n, t) /\ d = Guard(n, t) /\ Held(n, t)' = c /\ Guard(n, t)' = d
      BY <1>3, <2>2 DEF Held, Guard
    <3>2. c \in HeldType
      <4>1. BuildingType
        BY DEF Types
      <4>2. Held(n, t) \in HeldType
        BY <4>1, Same
      <4> QED BY <3>1, <4>2
    <3>3. Sound(c) /\ OpenLast(d, Rows(c), c.pdos) /\ (d.mapping = n => t \in slaves[n]) /\ Ends(c.fmmu, offset[n])
      BY <3>1 DEF BuiltInv, Built
    <3>4. d.mapping = n => t \in slaves'[n]
      BY <3>3
    <3>5. Ends(c.fmmu, offset'[n])
      <4>1. CASE n # m
        BY <3>3, <4>1
      <4>2. CASE n = m
        <5>1. PICK fmmu \in Seq(Fmmu) : fmmu = c.fmmu
          BY <3>2, RowsIs
        <5>2. \A i \in DOMAIN fmmu : /\ fmmu[i].logical + fmmu[i].length <= start
                                     /\ fmmu[i].logical \in Nat /\ fmmu[i].length \in Nat
          BY <3>3, <4>2, <5>1, FmmuIs DEF Ends
        <5>3. \A i \in DOMAIN fmmu : fmmu[i].logical + fmmu[i].length <= end
          <6>1. \A u, v \in Nat : u + v <= start => u + v <= end
            OBVIOUS
          <6> QED BY <5>2, <6>1
        <5> QED BY <4>2, <5>1, <5>3 DEF Ends
      <4> QED BY <4>1, <4>2
    <3> QED BY <3>1, <3>3, <3>4, <3>5 DEF Built
  <2> QED BY <2>1, <2>2
<1>5. ASSUME NEW n \in Mappings PROVE OneEntry(FmmusOf(n))'
  <2>0. PICK F : F = FmmusOf(n) /\ DOMAIN F = Slaves /\ OneEntry(F)
                 /\ \A t \in Slaves : F[t] = Held(n, t).fmmu
    <3>1. OneEntry(FmmusOf(n))
      BY DEF BuiltInv
    <3>2. DOMAIN FmmusOf(n) = Slaves /\ \A t \in Slaves : FmmusOf(n)[t] = Held(n, t).fmmu
      BY DEF FmmusOf
    <3> QED BY <3>1, <3>2
  <2>a. PICK G : G = FmmusOf(n)' /\ DOMAIN G = Slaves /\ \A t \in Slaves : G[t] = config'[ConfigOf[n]][t].fmmu
    <3>1. FmmusOf(n)' = [t \in Slaves |-> config'[ConfigOf[n]][t].fmmu]
      BY DEF FmmusOf, Held
    <3> QED BY <3>1
  <2>b. SUFFICES OneEntry(G)
    BY <2>a DEF OneEntry
  <2>1. CASE n # m
    <3>1. \A t \in Slaves : G[t] = F[t]
      BY <1>3, <2>0, <2>a, <2>1
    <3> QED BY <2>0, <2>a, <3>1 DEF OneEntry
  <2>2. CASE n = m
    <3>1. G[s] = h.fmmu /\ F[s] = o.fmmu /\ \A t \in Slaves : t # s => G[t] = F[t]
      BY <1>2, <1>3, <2>0, <2>a, <2>2
    <3>2. \A t \in Slaves, l \in Nat, b \in Nat : l \in DOMAIN F[t] /\ Has(F[t][l], b) => b < start
      <4> SUFFICES ASSUME NEW t \in Slaves, NEW l \in DOMAIN F[t], NEW b \in Nat, Has(F[t][l], b)
                   PROVE  b < start
        OBVIOUS
      <4>1. PICK fmmu \in Seq(Fmmu) : fmmu = F[t]
        BY <2>0, Same, RowsIs DEF Types
      <4>2. Ends(fmmu, start)
        BY <2>0, <2>2, <4>1 DEF BuiltInv, Built
      <4>3. /\ fmmu[l].logical \in Nat /\ fmmu[l].length \in Nat
            /\ fmmu[l].logical + fmmu[l].length <= start
        BY <4>1, <4>2, FmmuIs DEF Ends
      <4>4. b < fmmu[l].logical + fmmu[l].length
        BY <4>1 DEF Has
      <4> QED BY <4>3, <4>4
    <3>3. \A t \in Slaves, l \in Nat, b \in Nat : l \in DOMAIN G[t] /\ Has(G[t][l], b) =>
            \/ l \in DOMAIN F[t] /\ Has(F[t][l], b) /\ b < start
            \/ t = s /\ l = Len(h.fmmu) /\ start <= b
      BY <3>1, <3>2
    <3>4. \A t \in Slaves : \A l \in DOMAIN G[t] : l \in Nat
      <4>1. \A t \in Slaves : G[t] \in Seq(Fmmu)
        <5>1. \A t \in Slaves : F[t] \in Seq(Fmmu)
          BY <2>0, Same, RowsIs, ZenonT(60) DEF Types
        <5>2. h.fmmu \in Seq(Fmmu)
          BY RowsIs
        <5> QED BY <3>1, <5>1, <5>2
      <4>2. \A t \in Slaves : \E k \in Nat : DOMAIN G[t] = 1..k
        BY <4>1, LenProperties
      <4> QED BY <4>2
    <3>5. ASSUME NEW t \in Slaves, NEW u \in Slaves, NEW i \in DOMAIN G[t], NEW l \in DOMAIN G[u], NEW b \in Nat,
                 Has(G[t][i], b), Has(G[u][l], b)
          PROVE  t = u /\ i = l
      <4>1. i \in Nat /\ l \in Nat
        BY <3>4
      <4>2. \/ i \in DOMAIN F[t] /\ Has(F[t][i], b) /\ b < start
            \/ t = s /\ i = Len(h.fmmu) /\ start <= b
        BY <3>3, <3>5, <4>1
      <4>3. \/ l \in DOMAIN F[u] /\ Has(F[u][l], b) /\ b < start
            \/ u = s /\ l = Len(h.fmmu) /\ start <= b
        BY <3>3, <3>5, <4>1
      <4>4. CASE b < start
        BY <2>0, <4>2, <4>3, <4>4 DEF OneEntry
      <4>5. CASE ~(b < start)
        BY <4>2, <4>3, <4>5
      <4> QED BY <4>4, <4>5
    <3> QED BY <2>a, <3>5 DEF OneEntry
  <2> QED BY <2>1, <2>2
<1>6. ASSUME NEW n \in Mappings PROVE Placed(n)'
  <2> SUFFICES ASSUME NEW f \in fields'[n]
               PROVE  f.slave \in slaves'[n] /\ FieldIn(config'[ConfigOf[n]][f.slave], f)
    BY DEF Placed, Held
  <2>1. CASE f \in fields[n]
    <3>1. f \in Field /\ f.slave \in Slaves /\ f.slave \in slaves[n] /\ FieldIn(Held(n, f.slave), f)
      BY <1>1, <2>1 DEF BuiltInv, Placed, Field
    <3>2. CASE n = m /\ f.slave = s
      BY <1>2, <3>1, <3>2
    <3>3. CASE ~(n = m /\ f.slave = s)
      BY <1>3, <3>1, <3>3
    <3> QED BY <3>1, <3>2, <3>3
  <2>2. CASE f \notin fields[n]
    BY <1>2, <2>2
  <2> QED BY <2>1, <2>2
<1> QED BY <1>4, <1>5, <1>6 DEF BuiltInv

(* A field keeps its entry when FMMU entries grow and lists keep theirs.     *)
LEMMA FieldStays ==
  ASSUME NEW o \in HeldType, NEW h \in HeldType, Keeps(Rows(o), o.pdos, Rows(h), h.pdos),
         \A i \in DOMAIN o.fmmu :
           /\ i \in DOMAIN h.fmmu
           /\ h.fmmu[i].logical = o.fmmu[i].logical /\ h.fmmu[i].physical = o.fmmu[i].physical
           /\ h.fmmu[i].direction = o.fmmu[i].direction /\ o.fmmu[i].length <= h.fmmu[i].length
  PROVE  \A f \in Field : FieldIn(o, f) => FieldIn(h, f)
<1> SUFFICES ASSUME NEW f \in Field, FieldIn(o, f) PROVE FieldIn(h, f)
  OBVIOUS
<1>1. PICK i \in DOMAIN o.fmmu, at \in Nat :
        EntryMaps(o.fmmu[i], f, at) /\ FoundIn(Rows(o), o.pdos, f, at)
  BY DEF FieldIn
<1>2. FoundIn(Rows(h), h.pdos, f, at)
  <2>1. f.origin \in Origins /\ f.length \in Nat
    BY DEF Field
  <2>2. CASE "byte" \in DOMAIN f.origin
    BY <1>1, <2>2 DEF FoundIn
  <2>3. CASE ~("byte" \in DOMAIN f.origin)
    <3>1. PICK slot \in Nat : EntryAt(Rows(o), o.pdos, f.origin, slot, at, f.length)
      BY <1>1, <2>3 DEF FoundIn
    <3>2. slot \in Int /\ at \in Int
      OBVIOUS
    <3>3. EntryAt(Rows(h), h.pdos, f.origin, slot, at, f.length)
      BY <2>1, <3>1, <3>2 DEF Keeps
    <3> QED BY <2>3, <3>3 DEF FoundIn
  <2> QED BY <2>2, <2>3
<1>3. EntryMaps(h.fmmu[i], f, at)
  <2>1. PICK e \in Fmmu : e = o.fmmu[i]
    <3>1. PICK fmmu \in Seq(Fmmu) : fmmu = o.fmmu
      BY RowsIs
    <3> QED BY <3>1, FmmuIs
  <2>2. PICK d \in Fmmu : d = h.fmmu[i]
    <3>1. PICK fmmu \in Seq(Fmmu) : fmmu = h.fmmu
      BY RowsIs
    <3> QED BY <3>1, FmmuIs
  <2>3. d.logical = e.logical /\ d.physical = e.physical /\ d.direction = e.direction /\ e.length <= d.length
    BY <2>1, <2>2
  <2>4. e.logical \in Nat /\ e.length \in Nat /\ d.length \in Nat /\ f.logical \in Nat /\ f.length \in Nat
    BY DEF Fmmu, Field
  <2>5. EntryMaps(e, f, at)
    BY <1>1, <2>1
  <2>6. f.logical + f.length <= d.logical + d.length
    BY <2>3, <2>4, <2>5 DEF EntryMaps
  <2>7. EntryMaps(d, f, at)
    BY <2>3, <2>5, <2>6 DEF EntryMaps
  <2> QED BY <2>2, <2>7
<1> QED BY <1>1, <1>2, <1>3 DEF FieldIn

LEMMA KeepsSame == \A rows, pdos : Keeps(rows, pdos, rows, pdos)
BY DEF Keeps

(* A step that changes neither fields nor FMMU entries.                      *)
LEMMA BuiltLists ==
  ASSUME OwnConfig, Types, BuiltInv, NEW m \in Mappings, NEW s \in Slaves,
         NEW o, o = Held(m, s), o \in HeldType,
         NEW h \in HeldType, config' = [config EXCEPT ![ConfigOf[m]][s] = h], h.fmmu = o.fmmu,
         NEW g, guard' = [guard EXCEPT ![ConfigOf[m]][s] = g],
         Sound(h), OpenLast(g, Rows(h), h.pdos), g.mapping = m => s \in slaves'[m],
         \A n \in Mappings : slaves[n] \subseteq slaves'[n],
         Keeps(Rows(o), o.pdos, Rows(h), h.pdos),
         offset' = offset, fields' = fields
  PROVE  BuiltInv'
<1>1. PICK end \in Nat : end = offset[m] /\ end <= end /\ offset'[m] = end
  BY DEF Types, BuildingType
<1>2. Ends(h.fmmu, end)
  BY <1>1 DEF BuiltInv, Built
<1>3. \A i \in DOMAIN h.fmmu, b \in Nat : Has(h.fmmu[i], b) =>
        (i \in DOMAIN o.fmmu /\ Has(o.fmmu[i], b)) \/ (i = Len(h.fmmu) /\ end <= b)
  OBVIOUS
<1>4. \A i \in DOMAIN o.fmmu :
           /\ i \in DOMAIN h.fmmu
           /\ h.fmmu[i].logical = o.fmmu[i].logical /\ h.fmmu[i].physical = o.fmmu[i].physical
           /\ h.fmmu[i].direction = o.fmmu[i].direction /\ o.fmmu[i].length <= h.fmmu[i].length
  <2>1. PICK fmmu \in Seq(Fmmu) : fmmu = o.fmmu /\ fmmu = h.fmmu
    BY RowsIs
  <2>2. \A i \in DOMAIN fmmu : fmmu[i].length <= fmmu[i].length
    <3>1. \A i \in DOMAIN fmmu : fmmu[i].length \in Nat
      BY FmmuIs
    <3> QED BY <3>1
  <2> QED BY <2>1, <2>2
<1>5. \A f \in Field : FieldIn(o, f) => FieldIn(h, f)
  BY <1>4, FieldStays
<1>6. (\A n \in Mappings : n # m => offset'[n] = offset[n]) /\ (\A n \in Mappings : n # m => fields'[n] = fields[n])
      /\ \A f \in fields'[m] : f \in fields[m] \/ (f.slave = s /\ s \in slaves'[m] /\ FieldIn(h, f))
  OBVIOUS
<1> QED BY <1>1, <1>2, <1>3, <1>5, <1>6, BuiltStep

LEMMA BuiltGuard ==
  ASSUME OwnConfig, Types, BuiltInv, NEW m \in Mappings, NEW s \in Slaves, config' = config,
         NEW g, guard' = [guard EXCEPT ![ConfigOf[m]][s] = g], g.channel = Nobody,
         g.mapping = m => s \in slaves'[m],
         \A n \in Mappings : slaves[n] \subseteq slaves'[n], offset' = offset, fields' = fields
  PROVE  BuiltInv'
<1>1. PICK o \in HeldType : o = Held(m, s) /\ config' = [config EXCEPT ![ConfigOf[m]][s] = o]
  BY Same DEF Types
<1>2. Sound(o)
  BY <1>1 DEF BuiltInv, Built
<1>3. OpenLast(g, Rows(o), o.pdos)
  BY DEF OpenLast
<1>4. Keeps(Rows(o), o.pdos, Rows(o), o.pdos)
  BY KeepsSame
<1> QED BY <1>1, <1>2, <1>3, <1>4, BuiltLists

LEMMA SlaveBuilt ==
  ASSUME OwnConfig, Types, BuiltInv, NEW m \in Mappings, NEW s \in Slaves, Slave(m, s)
  PROVE  BuiltInv'
<1>1. PICK g : g = Open(m) /\ g.channel = Nobody
  <2>1. Open(m).channel = Nobody
    BY DEF Open, Closed
  <2> QED BY <2>1
<1>2. guard' = [guard EXCEPT ![ConfigOf[m]][s] = g] /\ config' = config /\ offset' = offset /\ fields' = fields
  BY <1>1 DEF Slave, SetGuard
<1>3. s \in slaves'[m] /\ \A n \in Mappings : slaves[n] \subseteq slaves'[n]
  BY DEF Slave, Types, BuildingType
<1> QED BY <1>1, <1>2, <1>3, BuiltGuard

LEMMA DropSlaveBuilt ==
  ASSUME OwnConfig, Types, BuiltInv, NEW m \in Mappings, NEW s \in Slaves,
         DropSlave(m, s) \/ PushPanic(m, s)
  PROVE  BuiltInv'
<1>1. PICK g : g.channel = Nobody /\ g.mapping = Nobody /\ guard' = [guard EXCEPT ![ConfigOf[m]][s] = g]
  BY DEF DropSlave, PushPanic, SetGuard, Closed, Poisoned
<1>2. g.mapping # m
  BY <1>1, ConstantsAssumption
<1>3. /\ config' = config /\ offset' = offset /\ fields' = fields
      /\ \A n \in Mappings : slaves[n] \subseteq slaves'[n]
  BY DEF DropSlave, PushPanic
<1> QED BY <1>1, <1>2, <1>3, BuiltGuard

LEMMA ChannelBuilt ==
  ASSUME OwnConfig, ~Again, Types, BuiltInv, NEW m \in Mappings, NEW s \in Slaves, NEW c \in Channels, Channel(m, s, c)
  PROVE  BuiltInv'
<1>1. PICK o \in HeldType : o = Held(m, s)
  BY Same DEF Types
<1>2. /\ Sound(o) /\ s \in slaves[m] /\ c \notin DOMAIN o.channels
  BY <1>1 DEF BuiltInv, Built, Channel
<1>3. PICK new \in [pdos : Seq(Pdos), start : Nat] :
        new = [pdos |-> <<>>, start |-> Buffer[c].start] /\ new.pdos = <<>> /\ new.start = Buffer[c].start
  <2>1. Buffer[c].start \in Nat /\ <<>> \in Seq(Pdos)
    BY ConstantsAssumption
  <2>2. PICK start \in Nat, none \in Seq(Pdos) : start = Buffer[c].start /\ none = <<>>
    BY <2>1
  <2>3. /\ [pdos |-> none, start |-> start] \in [pdos : Seq(Pdos), start : Nat]
        /\ [pdos |-> none, start |-> start].pdos = none /\ [pdos |-> none, start |-> start].start = start
    OBVIOUS
  <2> QED BY <2>2, <2>3
<1>4. PICK channels \in ChannelLists :
        /\ channels = StartedOver(o.channels, c, new) /\ DOMAIN channels = DOMAIN o.channels \cup {c}
        /\ channels[c] = new /\ \A d \in DOMAIN o.channels : channels[d] = o.channels[d]
        /\ IsFiniteSet(DOMAIN channels)
  <2>1. PICK V : V = [pdos : Seq(Pdos), start : Nat]
    OBVIOUS
  <2>2. PICK e : e = o.channels /\ e \in Maps(Channels, V) /\ IsFiniteSet(DOMAIN e)
    BY <2>1 DEF HeldType, ChannelLists
  <2>a. new \in V
    BY <2>1
  <2>3. /\ StartedOver(e, c, new) \in Maps(Channels, V)
        /\ DOMAIN StartedOver(e, c, new) = DOMAIN e \cup {c}
        /\ IsFiniteSet(DOMAIN e \cup {c})
    <3>1. \A f \in Maps(Channels, V) : IsFiniteSet(DOMAIN f) =>
            /\ StartedOver(f, c, new) \in Maps(Channels, V)
            /\ DOMAIN StartedOver(f, c, new) = DOMAIN f \cup {c}
            /\ IsFiniteSet(DOMAIN f \cup {c})
      BY <2>a, StartedOverType
    <3> QED BY <2>2, <3>1
  <2>4. /\ StartedOver(e, c, new)[c] = new
        /\ \A d \in DOMAIN e : StartedOver(e, c, new)[d] = e[d]
    BY <1>2, <2>2 DEF StartedOver
  <2> QED BY <2>1, <2>2, <2>3, <2>4 DEF ChannelLists
<1>5. PICK h \in HeldType : /\ h = [o EXCEPT !.channels = channels]
                            /\ h.channels = channels /\ h.pdos = o.pdos /\ h.fmmu = o.fmmu
  <2>1. [o EXCEPT !.channels = channels] \in HeldType
    BY <1>4 DEF HeldType
  <2>2. /\ [o EXCEPT !.channels = channels].channels = channels
        /\ [o EXCEPT !.channels = channels].pdos = o.pdos
        /\ [o EXCEPT !.channels = channels].fmmu = o.fmmu
    BY DEF HeldType
  <2> QED BY <2>1, <2>2
<1>6. config' = [config EXCEPT ![ConfigOf[m]][s] = h]
  BY <1>1, <1>3, <1>4, <1>5 DEF Channel, SetHeld
<1>7. PICK g : /\ g = [Open(m) EXCEPT !.channel = c, !.position = Buffer[c].start]
               /\ g.channel = c /\ g.position = Buffer[c].start /\ g.pdo = Nobody
  <2>1. PICK r \in GuardType : r = Open(m) /\ r.pdo = Nobody
    <3>1. Open(m).pdo = Nobody
      BY DEF Open, Closed
    <3> QED BY <3>1, Emptiness
  <2>2. PICK at : at = Buffer[c].start
    OBVIOUS
  <2>3. /\ [r EXCEPT !.channel = c, !.position = at].channel = c
        /\ [r EXCEPT !.channel = c, !.position = at].position = at
        /\ [r EXCEPT !.channel = c, !.position = at].pdo = r.pdo
    BY DEF GuardType
  <2> QED BY <2>1, <2>2, <2>3
<1>8. guard' = [guard EXCEPT ![ConfigOf[m]][s] = g]
  BY <1>7 DEF Channel, SetGuard
<1>9. PICK rows \in RowsType, pdos \in PdoLists :
        /\ rows = Rows(o) /\ pdos = o.pdos /\ DOMAIN rows = DOMAIN o.channels
        /\ \A d \in DOMAIN rows : rows[d] = o.channels[d].pdos
  BY RowsIs
<1>10. PICK after \in RowsType :
        /\ after = Rows(h) /\ DOMAIN after = DOMAIN rows \cup {c} /\ after[c] = <<>>
        /\ \A d \in DOMAIN rows : after[d] = rows[d]
  <2>1. /\ Rows(h) \in RowsType /\ DOMAIN Rows(h) = DOMAIN h.channels
        /\ \A d \in DOMAIN h.channels : Rows(h)[d] = h.channels[d].pdos
    BY RowsIs
  <2>2. /\ h.channels[c].pdos = <<>> /\ DOMAIN h.channels = DOMAIN rows \cup {c}
        /\ \A d \in DOMAIN rows : h.channels[d].pdos = rows[d]
    BY <1>3, <1>4, <1>5, <1>9
  <2> QED BY <2>1, <2>2
<1>11. Listed(rows, pdos) /\ c \notin DOMAIN rows
  BY <1>2, <1>9 DEF Sound
<1>12. Listed(after, pdos) /\ LengthOf(after, pdos, c) = 0 /\ Keeps(rows, pdos, after, pdos)
  BY <1>10, <1>11, ChannelRows
<1>13. Sound(h)
  <2>1. Starts(h)
    BY <1>2, <1>3, <1>4, <1>5 DEF Sound, Starts
  <2> QED BY <1>5, <1>9, <1>10, <1>12, <2>1 DEF Sound
<1>14. OpenLast(g, Rows(h), h.pdos)
  <2>1. Buffer[c].start \in Nat
    BY ConstantsAssumption
  <2>2. Buffer[c].start = Buffer[c].start + 0
    BY <2>1
  <2> QED BY <1>5, <1>7, <1>9, <1>10, <1>12, <2>2 DEF OpenLast
<1>15. /\ offset' = offset /\ fields' = fields /\ slaves' = slaves
  BY DEF Channel
<1>16. h.fmmu = o.fmmu /\ Keeps(Rows(o), o.pdos, Rows(h), h.pdos)
  BY <1>5, <1>9, <1>10, <1>12
<1> QED BY <1>1, <1>2, <1>6, <1>8, <1>13, <1>14, <1>15, <1>16, BuiltLists

LEMMA PushPdoBuilt ==
  ASSUME OwnConfig, ~Again, Types, BuiltInv, NEW m \in Mappings, NEW s \in Slaves, NEW p \in Pdos, PushPdo(m, s, p)
  PROVE  BuiltInv'
<1>1. PICK o \in HeldType : o = Held(m, s)
  BY Same DEF Types
<1>2. PICK g \in GuardType : g = Guard(m, s) /\ Opened(g, o)
  BY <1>1, Same DEF Types
<1>3. PICK c \in DOMAIN o.channels : c = g.channel /\ c # Nobody
  BY <1>2 DEF PushPdo, Opened
<1>4. /\ Sound(o) /\ OpenLast(g, Rows(o), o.pdos) /\ s \in slaves[m] /\ p \notin DOMAIN o.pdos
  BY <1>1, <1>2 DEF BuiltInv, Built, PushPdo
<1>5. PICK channels \in ChannelLists : channels = o.channels /\ IsFiniteSet(DOMAIN channels)
  BY DEF HeldType
<1>6. PICK pdos \in PdoLists : pdos = o.pdos /\ IsFiniteSet(DOMAIN pdos)
  BY DEF HeldType
<1>7. c \in DOMAIN channels
  BY <1>5
<1>8. PICK new \in ChannelLists :
        DOMAIN new = DOMAIN channels /\ new = [channels EXCEPT ![c].pdos = Append(@, p)]
  BY <1>7, PushedChannel
<1>9. PICK started \in PdoLists : /\ started = StartedOver(pdos, p, <<>>)
                                  /\ DOMAIN started = DOMAIN pdos \cup {p} /\ IsFiniteSet(DOMAIN started)
  BY <1>6, StartedPdo
<1>a. IsFiniteSet(DOMAIN new) /\ IsFiniteSet(DOMAIN started)
  BY <1>5, <1>8, <1>9
<1>10. PICK h \in HeldType : /\ h = WithLists(o, new, started)
                            /\ h.channels = new /\ h.pdos = started /\ h.fmmu = o.fmmu
  BY <1>a, HeldWith
<1>11. PICK k : /\ k = [g EXCEPT !.pdo = p] /\ k.channel = c /\ k.pdo = p /\ k.position = g.position
                /\ k.mapping = g.mapping
  <2>1. /\ [g EXCEPT !.pdo = p].channel = g.channel /\ [g EXCEPT !.pdo = p].pdo = p
        /\ [g EXCEPT !.pdo = p].position = g.position /\ [g EXCEPT !.pdo = p].mapping = g.mapping
    BY DEF GuardType
  <2> QED BY <1>3, <2>1
<1>12. config' = [config EXCEPT ![ConfigOf[m]][s] = h] /\ guard' = [guard EXCEPT ![ConfigOf[m]][s] = k]
  BY <1>1, <1>2, <1>3, <1>5, <1>6, <1>8, <1>9, <1>10, <1>11 DEF PushPdo, SetGuard, SetHeld, WithLists
<1>13. /\ DOMAIN started = DOMAIN pdos \cup {p} /\ started[p] = <<>>
       /\ \A q \in DOMAIN pdos : started[q] = pdos[q]
  BY <1>4, <1>6, <1>9 DEF StartedOver
<1>14. /\ DOMAIN new = DOMAIN channels /\ new[c].pdos = Append(channels[c].pdos, p) /\ new[c].start = channels[c].start
       /\ \A d \in DOMAIN channels : d # c => new[d] = channels[d]
  <2>1. channels[c] \in [pdos : Seq(Pdos), start : Nat]
    BY <1>7 DEF ChannelLists, Maps
  <2> QED BY <1>7, <1>8, <2>1
<1>15. PICK rows \in RowsType :
        /\ rows = Rows(o) /\ DOMAIN rows = DOMAIN channels
        /\ \A d \in DOMAIN rows : rows[d] = channels[d].pdos
  BY <1>5, RowsIs
<1>16. PICK after \in RowsType :
        /\ after = Rows(h) /\ DOMAIN after = DOMAIN rows /\ after[c] = Append(rows[c], p)
        /\ \A d \in DOMAIN rows : d # c => after[d] = rows[d]
  <2>1. /\ Rows(h) \in RowsType /\ DOMAIN Rows(h) = DOMAIN h.channels
        /\ \A d \in DOMAIN h.channels : Rows(h)[d] = h.channels[d].pdos
    BY RowsIs
  <2> QED BY <1>7, <1>10, <1>14, <1>15, <2>1
<1>17. Listed(rows, pdos) /\ c \in DOMAIN rows /\ p \notin DOMAIN pdos
  BY <1>4, <1>6, <1>7, <1>15 DEF Sound
<1>18. /\ Listed(after, started) /\ LengthOf(after, started, c) = LengthOf(rows, pdos, c)
       /\ Len(after[c]) > 0 /\ after[c][Len(after[c])] = p
       /\ Keeps(rows, pdos, after, started)
  BY <1>13, <1>16, <1>17, PdoRows
<1>19. Sound(h)
  <2>1. Starts(h)
    BY <1>4, <1>5, <1>10, <1>14 DEF Sound, Starts
  <2> QED BY <1>10, <1>16, <1>18, <2>1 DEF Sound
<1>20. OpenLast(k, Rows(h), h.pdos)
  <2>1. g.position = Buffer[c].start + LengthOf(rows, pdos, c)
    BY <1>3, <1>4, <1>6, <1>15 DEF OpenLast
  <2> QED BY <1>10, <1>11, <1>16, <1>18, <2>1 DEF OpenLast
<1>21. /\ offset' = offset /\ fields' = fields /\ slaves' = slaves
  BY DEF PushPdo
<1>22. h.fmmu = o.fmmu /\ Keeps(Rows(o), o.pdos, Rows(h), h.pdos)
  BY <1>6, <1>10, <1>15, <1>16, <1>18
<1> QED BY <1>1, <1>4, <1>12, <1>19, <1>20, <1>21, <1>22, BuiltLists

(* A ConfigSlave has such a field at this physical address.                  *)
Puts(held, origin, length, physical) ==
  \A f \in Field : f.origin = origin /\ f.length = length => FoundIn(Rows(held), held.pdos, f, physical)

(* A step that inserts a field, into the lists `filled`.                     *)
LEMMA BuiltInsert ==
  ASSUME OwnConfig, Types, BuiltInv, NEW m \in Mappings, NEW s \in Slaves,
         NEW o \in HeldType, o = Held(m, s), NEW filled \in HeldType, filled.fmmu = o.fmmu,
         NEW direction \in {"read", "write"}, NEW physical \in Nat, NEW length \in Nat, NEW origin \in Origins,
         Insert(m, s, filled, direction, physical, length, origin),
         NEW g, guard' = [guard EXCEPT ![ConfigOf[m]][s] = g], slaves' = slaves, s \in slaves[m],
         Sound(filled), OpenLast(g, Rows(filled), filled.pdos),
         Keeps(Rows(o), o.pdos, Rows(filled), filled.pdos),
         Puts(filled, origin, length, physical)
  PROVE  BuiltInv'
<1>1. PICK start \in Nat : start = offset[m]
  BY DEF Types, BuildingType
<1>2. PICK old \in Seq(Fmmu) : old = o.fmmu /\ old = filled.fmmu
  BY RowsIs
<1>3. PICK new \in Seq(Fmmu) : new = Inserted(old, direction, start, physical, length)
  BY InsertedType
<1>4. PICK h \in HeldType : /\ h = [filled EXCEPT !.fmmu = new]
                            /\ h.pdos = filled.pdos /\ h.channels = filled.channels /\ h.fmmu = new
  <2>1. [filled EXCEPT !.fmmu = new] \in HeldType
    BY DEF HeldType
  <2>2. /\ [filled EXCEPT !.fmmu = new].pdos = filled.pdos /\ [filled EXCEPT !.fmmu = new].fmmu = new
        /\ [filled EXCEPT !.fmmu = new].channels = filled.channels
    BY DEF HeldType
  <2> QED BY <2>1, <2>2
<1>5. config' = [config EXCEPT ![ConfigOf[m]][s] = h]
  BY <1>1, <1>2, <1>3, <1>4 DEF Insert, SetHeld
<1>6. PICK f \in Field : /\ f = [slave |-> s, direction |-> direction, logical |-> start,
                                 length |-> length, origin |-> origin]
                         /\ f.slave = s /\ f.direction = direction /\ f.logical = start
                         /\ f.length = length /\ f.origin = origin
  <2>1. [slave |-> s, direction |-> direction, logical |-> start, length |-> length, origin |-> origin] \in Field
    BY DEF Field
  <2>2. PICK e \in Field :
          e = [slave |-> s, direction |-> direction, logical |-> start, length |-> length, origin |-> origin]
    BY <2>1
  <2>3. /\ e.slave = s /\ e.direction = direction /\ e.logical = start /\ e.length = length /\ e.origin = origin
    BY <2>2
  <2> QED BY <2>2, <2>3
<1>7. /\ fields' = [fields EXCEPT ![m] = @ \cup {f}]
      /\ offset' = [offset EXCEPT ![m] = start + length]
  BY <1>1, <1>6 DEF Insert
<1>8. /\ fields'[m] = fields[m] \cup {f} /\ \A n \in Mappings : n # m => fields'[n] = fields[n]
      /\ offset'[m] = start + length /\ \A n \in Mappings : n # m => offset'[n] = offset[n]
  BY <1>7 DEF Types, BuildingType
<1>9. Ends(old, start)
  BY <1>1, <1>2 DEF BuiltInv, Built
<1>a. Grown(old, new, direction, start, physical, length)
  BY <1>3, <1>9, InsertedCovers
<1>10. /\ Ends(new, start + length)
       /\ \A i \in DOMAIN old :
            /\ i \in DOMAIN new
            /\ new[i].logical = old[i].logical /\ new[i].physical = old[i].physical
            /\ new[i].direction = old[i].direction /\ old[i].length <= new[i].length
       /\ \E i \in DOMAIN new :
            /\ new[i].logical <= start /\ start + length = new[i].logical + new[i].length
            /\ new[i].direction = direction /\ new[i].physical + (start - new[i].logical) = physical
       /\ \A i \in DOMAIN new, b \in Nat : Has(new[i], b) =>
            (i \in DOMAIN old /\ Has(old[i], b)) \/ (i = Len(new) /\ start <= b)
  BY <1>a DEF Grown
<1>11. Rows(h) = Rows(filled)
  BY <1>4 DEF Rows
<1>12. Sound(h) /\ OpenLast(g, Rows(h), h.pdos)
  BY <1>4, <1>11 DEF Sound, Starts
<1>13. \A e \in Field : FieldIn(o, e) => FieldIn(h, e)
  <2>1. \A i \in DOMAIN o.fmmu :
           /\ i \in DOMAIN h.fmmu
           /\ h.fmmu[i].logical = o.fmmu[i].logical /\ h.fmmu[i].physical = o.fmmu[i].physical
           /\ h.fmmu[i].direction = o.fmmu[i].direction /\ o.fmmu[i].length <= h.fmmu[i].length
    BY <1>2, <1>4, <1>10
  <2>2. Keeps(Rows(o), o.pdos, Rows(h), h.pdos)
    BY <1>4, <1>11
  <2> QED BY <2>1, <2>2, FieldStays
<1>14. FieldIn(h, f)
  <2>1. PICK i \in DOMAIN new :
            /\ new[i].logical <= start /\ start + length = new[i].logical + new[i].length
            /\ new[i].direction = direction /\ new[i].physical + (start - new[i].logical) = physical
    BY <1>10
  <2>2. PICK e : e = new[i] /\ e.logical \in Nat /\ e.length \in Nat
    BY FmmuIs
  <2>3. start + length <= e.logical + e.length
    BY <2>1, <2>2
  <2>4. EntryMaps(e, f, physical)
    BY <1>6, <2>1, <2>2, <2>3 DEF EntryMaps
  <2>5. FoundIn(Rows(h), h.pdos, f, physical)
    BY <1>4, <1>6, <1>11 DEF Puts
  <2> QED BY <1>4, <2>2, <2>4, <2>5 DEF FieldIn
<1>15. PICK end \in Nat : end = start + length /\ start <= end
  OBVIOUS
<1>16. \A e \in fields'[m] : e \in fields[m] \/ (e.slave = s /\ s \in slaves'[m] /\ FieldIn(h, e))
  BY <1>6, <1>8, <1>14
<1>17. \A i \in DOMAIN h.fmmu, b \in Nat : Has(h.fmmu[i], b) =>
           (i \in DOMAIN o.fmmu /\ Has(o.fmmu[i], b)) \/ (i = Len(h.fmmu) /\ start <= b)
  BY <1>2, <1>4, <1>10
<1>18. Ends(h.fmmu, end) /\ offset'[m] = end /\ (\A n \in Mappings : n # m => offset'[n] = offset[n])
       /\ (\A n \in Mappings : n # m => fields'[n] = fields[n])
  BY <1>4, <1>8, <1>10, <1>15
<1>19. (g.mapping = m => s \in slaves'[m]) /\ \A n \in Mappings : slaves[n] \subseteq slaves'[n]
  OBVIOUS
<1> QED BY <1>1, <1>5, <1>12, <1>13, <1>15, <1>16, <1>17, <1>18, <1>19, BuiltStep

LEMMA RegisterBuilt ==
  ASSUME OwnConfig, Types, BuiltInv, NEW m \in Mappings, NEW s \in Slaves, NEW r \in Registers, Register(m, s, r)
  PROVE  BuiltInv'
<1>1. PICK o \in HeldType : o = Held(m, s)
  BY Same DEF Types
<1>2. PICK direction \in {"read", "write"}, physical \in Nat, length \in Nat :
        direction = r.direction /\ physical = r.byte /\ length = r.len
  BY ConstantsAssumption
<1>3. PICK origin \in Origins : /\ origin = [byte |-> r.byte] /\ "byte" \in DOMAIN origin
                                /\ origin.byte = physical
  <2>1. [byte |-> physical] \in Origins /\ "byte" \in DOMAIN [byte |-> physical]
        /\ [byte |-> physical].byte = physical
    BY DEF Origins
  <2> QED BY <1>2, <2>1
<1>4. Insert(m, s, o, direction, physical, length, origin)
  BY <1>1, <1>2, <1>3 DEF Register
<1>5. PICK g : g = Open(m) /\ g.channel = Nobody
  <2>1. Open(m).channel = Nobody
    BY DEF Open, Closed
  <2> QED BY <2>1
<1>6. guard' = [guard EXCEPT ![ConfigOf[m]][s] = g] /\ slaves' = slaves
  BY <1>5 DEF Register, SetGuard
<1>7. s \in slaves[m] /\ Sound(o)
  BY <1>1 DEF BuiltInv, Built, Register
<1>8. OpenLast(g, Rows(o), o.pdos)
  BY <1>5 DEF OpenLast
<1>9. Keeps(Rows(o), o.pdos, Rows(o), o.pdos)
  BY KeepsSame
<1>10. Puts(o, origin, length, physical)
  BY <1>3 DEF FoundIn, Puts
<1>11. o.fmmu = o.fmmu
  OBVIOUS
<1> QED BY <1>1, <1>4, <1>6, <1>7, <1>8, <1>9, <1>10, <1>11, BuiltInsert

LEMMA PushSdoBuilt ==
  ASSUME OwnConfig, WholeBytes, Types, BuiltInv, NEW m \in Mappings, NEW s \in Slaves, NEW bits \in SdoBits, PushSdo(m, s, bits)
  PROVE  BuiltInv'
<1>0. BuildingType
  BY DEF Types
<1>1. PICK o \in HeldType : o = Held(m, s)
  BY <1>0, Same
<1>2. PICK g \in GuardType : g = Guard(m, s) /\ Opened(g, o) /\ g.pdo # Nobody
  BY <1>0, <1>1, Same DEF PushSdo
<1>3. PICK p \in DOMAIN o.pdos, c \in DOMAIN o.channels, position \in Nat :
        p = g.pdo /\ c = g.channel /\ position = g.position /\ c \in Channels /\ p \in Pdos
  BY <1>2 DEF Opened, GuardType
<1>b. c # Nobody
  BY <1>2, <1>3 DEF Opened
<1>4. PICK filled \in HeldType : /\ filled = SdoPushed(o, p, bits) /\ DOMAIN filled.pdos = DOMAIN o.pdos
                                /\ filled.channels = o.channels /\ filled.fmmu = o.fmmu
                                /\ Len(o.pdos[p]) \in Nat
                                /\ \A q \in DOMAIN o.pdos :
                                     filled.pdos[q] = IF q = p THEN Append(o.pdos[p], bits) ELSE o.pdos[q]
  BY PushedSdo
<1>5. PICK length \in Nat : length = Bytes(bits) /\ length = bits \div 8
  <2>1. bits \in Nat /\ bits % 8 = 0
    BY ConstantsAssumption DEF WholeBytes
  <2>2. (bits + 7) \div 8 = bits \div 8 /\ bits \div 8 \in Nat
    BY <2>1
  <2> QED BY <2>2 DEF Bytes
<1>6. PICK origin \in Origins : /\ origin = [channel |-> c, pdo |-> p, index |-> Len(o.pdos[p]) + 1]
                                /\ origin.channel = c /\ origin.pdo = p /\ origin.index = Len(o.pdos[p]) + 1
                                /\ ~("byte" \in DOMAIN origin)
  <2>1. PICK i \in Nat : i = Len(o.pdos[p]) + 1
    BY <1>4
  <2>2. [channel |-> c, pdo |-> p, index |-> i] \in Origins
    BY <1>3 DEF Origins
  <2>3. PICK e \in Origins : e = [channel |-> c, pdo |-> p, index |-> i]
    BY <2>2
  <2>4. e.channel = c /\ e.pdo = p /\ e.index = i /\ ~("byte" \in DOMAIN e)
    BY <2>3
  <2> QED BY <2>1, <2>3, <2>4
<1>7. PICK direction \in {"read", "write"} : direction = Direction[c]
  BY <1>3, ConstantsAssumption
<1>8. Insert(m, s, filled, direction, position, length, origin)
  BY <1>1, <1>2, <1>3, <1>4, <1>5, <1>6, <1>7 DEF PushSdo, SdoPushed
<1>a. PICK after \in Nat : after = position + length
  OBVIOUS
<1>9. PICK k : /\ k = [g EXCEPT !.position = after]
               /\ k.channel = c /\ k.pdo = p /\ k.position = after
  <2>1. /\ [g EXCEPT !.position = after].channel = g.channel /\ [g EXCEPT !.position = after].pdo = g.pdo
        /\ [g EXCEPT !.position = after].position = after
    BY DEF GuardType
  <2> QED BY <1>3, <2>1
<1>10. guard' = [guard EXCEPT ![ConfigOf[m]][s] = k] /\ slaves' = slaves
  BY <1>2, <1>3, <1>5, <1>a, <1>9 DEF PushSdo, SetGuard
<1>11. s \in slaves[m] /\ Sound(o) /\ OpenLast(g, Rows(o), o.pdos)
  BY <1>1, <1>2 DEF BuiltInv, Built, PushSdo
<1>12. PICK rows \in RowsType, pdos \in PdoLists, entries \in PdoLists :
         rows = Rows(o) /\ pdos = o.pdos /\ entries = filled.pdos /\ DOMAIN rows = DOMAIN o.channels
  BY RowsIs
<1>13. Rows(filled) = rows
  BY <1>4, <1>12 DEF Rows
<1>14. /\ Listed(rows, pdos) /\ position = Buffer[c].start + LengthOf(rows, pdos, c)
       /\ Len(rows[c]) > 0 /\ rows[c][Len(rows[c])] = p /\ c \in DOMAIN rows /\ p \in DOMAIN pdos
  BY <1>2, <1>3, <1>b, <1>11, <1>12 DEF Sound, OpenLast
<1>15. /\ DOMAIN entries = DOMAIN pdos /\ entries[p] = Append(pdos[p], bits)
       /\ \A q \in DOMAIN pdos : q # p => entries[q] = pdos[q]
  BY <1>4, <1>12
<1>16. /\ position + length <= BufferEnd(c) /\ Buffer[c].start \in Nat /\ LengthOf(rows, pdos, c) \in Nat
  <2>1. position + length < BufferEnd(c)
    BY <1>1, <1>2, <1>3, <1>5 DEF PushSdo
  <2>2. Buffer[c].start \in Nat /\ Buffer[c].end \in Nat
    BY <1>3, ConstantsAssumption
  <2>3. BufferEnd(c) \in Int
    BY <2>2 DEF BufferEnd
  <2> QED BY <1>14, <2>1, <2>2, <2>3, LengthNat
<1>17. Buffer[c].start + LengthOf(rows, pdos, c) + bits \div 8 <= BufferEnd(c)
  BY <1>5, <1>14, <1>16
<1>18. /\ Listed(rows, entries) /\ LengthOf(rows, entries, c) = LengthOf(rows, pdos, c) + bits \div 8
       /\ Keeps(rows, pdos, rows, entries)
  BY <1>14, <1>15, <1>17, SdoRows
<1>19. Sound(filled)
  <2>1. Starts(filled)
    BY <1>4, <1>11 DEF Sound, Starts
  <2> QED BY <1>12, <1>13, <1>18, <2>1 DEF Sound
<1>20. OpenLast(k, Rows(filled), filled.pdos)
  <2>1. after = Buffer[c].start + LengthOf(rows, entries, c)
    BY <1>5, <1>a, <1>14, <1>16, <1>18
  <2> QED BY <1>9, <1>12, <1>13, <1>14, <2>1 DEF OpenLast
<1>21. Keeps(Rows(o), o.pdos, Rows(filled), filled.pdos)
  BY <1>12, <1>13, <1>18
<1>22. EntryAt(rows, entries, origin, Len(rows[c]), position, length)
  <2>1. /\ origin.channel = c /\ origin.pdo = p /\ origin.index = Len(pdos[p]) + 1
    BY <1>6, <1>12
  <2>2. position + bits \div 8 <= BufferEnd(c)
    BY <1>5, <1>16
  <2>3. EntryAt(rows, entries, origin, Len(rows[c]), position, bits \div 8)
    BY <1>14, <1>15, <2>1, <2>2, NewEntryAt
  <2> QED BY <1>5, <2>3
<1>23. Puts(filled, origin, length, position)
  <2>1. Len(rows[c]) \in Nat
    BY <1>14, RowIs
  <2> QED BY <1>6, <1>12, <1>13, <1>22, <2>1 DEF FoundIn, Puts
<1>24. filled.fmmu = o.fmmu
  BY <1>4
<1> QED BY <1>1, <1>8, <1>10, <1>11, <1>19, <1>20, <1>21, <1>23, <1>24, BuiltInsert

(* No step moves or unmaps a field; slaves of other mappings are as they were. *)
LEMMA BuiltNext ==
  ASSUME OwnConfig, WholeBytes, ~Again, Types, BuiltInv, [Next]_vars
  PROVE  BuiltInv'
<1>1. ASSUME NEW m \in Mappings, NEW s \in Slaves, Slave(m, s) PROVE BuiltInv'
  BY <1>1, SlaveBuilt
<1>2. ASSUME NEW m \in Mappings, NEW s \in Slaves, DropSlave(m, s) \/ PushPanic(m, s) PROVE BuiltInv'
  BY <1>2, DropSlaveBuilt
<1>3. ASSUME NEW m \in Mappings, NEW s \in Slaves, NEW r \in Registers, Register(m, s, r) PROVE BuiltInv'
  BY <1>3, RegisterBuilt
<1>4. ASSUME NEW m \in Mappings, NEW s \in Slaves, NEW c \in Channels, Channel(m, s, c) PROVE BuiltInv'
  BY <1>4, ChannelBuilt
<1>5. ASSUME NEW m \in Mappings, NEW s \in Slaves, NEW p \in Pdos, PushPdo(m, s, p) PROVE BuiltInv'
  BY <1>5, PushPdoBuilt
<1>6. ASSUME NEW m \in Mappings, NEW s \in Slaves, NEW bits \in SdoBits, PushSdo(m, s, bits) PROVE BuiltInv'
  BY <1>6, PushSdoBuilt
<1>7. CASE UNCHANGED building
  <2>1. UNCHANGED <<config, guard, slaves, offset, fields>>
    BY <1>7 DEF building
  <2> QED BY <2>1 DEF BuiltInv, Built, Placed, OneEntry, FmmusOf, Held, Guard
<1> QED BY <1>1, <1>2, <1>3, <1>4, <1>5, <1>6, <1>7 DEF Next, Configure, Group, DropGroup,
           Write, Configured, Fail, vars

-----------------------------------------------------------------------------
(* Groups                                                                    *)

Shifted(e, base) == [e EXCEPT !.logical = @ + base]

(* The FMMU entries of a group, in the logical memory of the segment.        *)
LaidAt(held, base) == [i \in DOMAIN held.fmmu |-> Shifted(held.fmmu[i], base)]
Laid(g) == [s \in DOMAIN g.config |-> LaidAt(g.config[s], g.offset)]

Overlap(e, h)  == \E b \in Nat : Has(e, b) /\ Has(h, b)
Below(e, top)  == \A b \in Nat : Has(e, b) => b < top

(* The group has what its mapping returned.                                  *)
Holds(g) ==
  /\ \A s \in DOMAIN g.config : Sound(g.config[s])
  /\ \A f \in g.fields : f.slave \in DOMAIN g.config /\ FieldIn(g.config[f.slave], f)

BelowTop(L, top) == \A s \in DOMAIN L : \A i \in DOMAIN L[s] : Below(L[s][i], top)
AllApart(L, M) ==
  \A s \in DOMAIN L, t \in DOMAIN M : \A i \in DOMAIN L[s], l \in DOMAIN M[t] : ~Overlap(L[s][i], M[t][l])
OnlyItself(L) ==
  \A s, t \in DOMAIN L : \A i \in DOMAIN L[s], l \in DOMAIN L[t] : Overlap(L[s][i], L[t][l]) => s = t /\ i = l

(* No byte is mapped twice, in the groups that there are.                    *)
GroupsInv ==
  /\ \A m \in Mappings : group[m].made =>
       Holds(group[m]) /\ BelowTop(Laid(group[m]), allocated) /\ OnlyItself(Laid(group[m]))
  /\ \A m, n \in Mappings : group[m].made /\ group[n].made /\ m # n =>
       AllApart(Laid(group[m]), Laid(group[n]))

LEMMA ShiftedIs ==
  ASSUME NEW e \in Fmmu, NEW base \in Nat
  PROVE  /\ Shifted(e, base) \in Fmmu
         /\ Shifted(e, base).logical = e.logical + base /\ Shifted(e, base).length = e.length
         /\ Shifted(e, base).physical = e.physical /\ Shifted(e, base).direction = e.direction
         /\ \A b \in Nat : Has(Shifted(e, base), b) => b >= base /\ b - base \in Nat /\ Has(e, b - base)
<1>1. e.logical \in Nat /\ e.length \in Nat
  BY DEF Fmmu
<1>2. /\ Shifted(e, base) \in Fmmu
      /\ Shifted(e, base).logical = e.logical + base /\ Shifted(e, base).length = e.length
      /\ Shifted(e, base).physical = e.physical /\ Shifted(e, base).direction = e.direction
  BY DEF Fmmu, Shifted
<1>3. \A u, w, b \in Nat : u + base <= b /\ b < u + base + w =>
        b >= base /\ b - base \in Nat /\ u <= b - base /\ b - base < u + w
  OBVIOUS
<1>4. \A b \in Nat : Has(Shifted(e, base), b) => b >= base /\ b - base \in Nat /\ Has(e, b - base)
  BY <1>1, <1>2, <1>3 DEF Has
<1> QED BY <1>2, <1>4

LEMMA LaidAtIs ==
  ASSUME NEW held \in HeldType, NEW base \in Nat
  PROVE  /\ LaidAt(held, base) \in Seq(Fmmu) /\ DOMAIN LaidAt(held, base) = DOMAIN held.fmmu
         /\ Len(LaidAt(held, base)) = Len(held.fmmu)
         /\ \A i \in DOMAIN held.fmmu : held.fmmu[i] \in Fmmu /\ LaidAt(held, base)[i] = Shifted(held.fmmu[i], base)
<1>1. PICK fmmu \in Seq(Fmmu) : fmmu = held.fmmu
  BY RowsIs
<1>2. Len(fmmu) \in Nat /\ DOMAIN fmmu = 1..Len(fmmu) /\ \A i \in DOMAIN fmmu : fmmu[i] \in Fmmu
  BY FmmuIs
<1>3. PICK laid : laid = [i \in DOMAIN fmmu |-> Shifted(fmmu[i], base)]
  OBVIOUS
<1>4. laid \in [1..Len(fmmu) -> Fmmu]
  BY <1>2, <1>3, ShiftedIs
<1>5. laid \in Seq(Fmmu) /\ Len(laid) = Len(fmmu)
  BY <1>2, <1>4, FunctionIsSeq
<1>6. LaidAt(held, base) = laid
  BY <1>1, <1>3 DEF LaidAt
<1> QED BY <1>1, <1>2, <1>3, <1>5, <1>6

LEMMA GroupIs ==
  ASSUME NEW g \in GroupType
  PROVE  /\ g.offset \in Nat /\ DOMAIN g.config \subseteq Slaves /\ g.fields \subseteq Field /\ g.made \in BOOLEAN
         /\ \A s \in DOMAIN g.config : g.config[s] \in HeldType
         /\ DOMAIN Laid(g) = DOMAIN g.config
         /\ \A s \in DOMAIN g.config : Laid(g)[s] = LaidAt(g.config[s], g.offset)
<1>1. PICK cfg \in Maps(Slaves, HeldType) : cfg = g.config
  BY DEF GroupType
<1>2. DOMAIN cfg \subseteq Slaves /\ \A s \in DOMAIN cfg : cfg[s] \in HeldType
  BY DEF Maps
<1>3. g.offset \in Nat /\ g.fields \subseteq Field /\ g.made \in BOOLEAN
  BY DEF GroupType
<1> QED BY <1>1, <1>2, <1>3 DEF Laid

LEMMA GroupsInit == Init => GroupsInv
<1> SUFFICES ASSUME Init PROVE GroupsInv
  OBVIOUS
<1>1. \A m \in Mappings : ~group[m].made
  BY DEF Init, NoGroup
<1> QED BY <1>1 DEF GroupsInv

(* A group that has just been made.                                          *)
LEMMA NewGroup ==
  ASSUME BuildingType, BuiltInv, NEW m \in Mappings, NEW g \in GroupType,
         g.offset = allocated, allocated \in Nat, g.fields = fields[m],
         DOMAIN g.config = slaves[m], \A s \in slaves[m] : g.config[s] = Held(m, s)
  PROVE  /\ Holds(g) /\ BelowTop(Laid(g), allocated + offset[m]) /\ OnlyItself(Laid(g))
         /\ \A s \in DOMAIN Laid(g) : \A i \in DOMAIN Laid(g)[s], b \in Nat : Has(Laid(g)[s][i], b) => b >= allocated
<1>1. slaves[m] \subseteq Slaves /\ offset[m] \in Nat
  BY DEF BuildingType
<1>2. Holds(g)
  BY <1>1 DEF Holds, BuiltInv, Built, Placed
<1>3. PICK base \in Nat : base = allocated /\ base = g.offset
  OBVIOUS
<1>4. DOMAIN Laid(g) = slaves[m]
  BY GroupIs
<1>5. ASSUME NEW s \in slaves[m]
      PROVE  /\ DOMAIN Laid(g)[s] = DOMAIN Held(m, s).fmmu
             /\ \A i \in DOMAIN Held(m, s).fmmu, b \in Nat : Has(Laid(g)[s][i], b) =>
                  b >= base /\ b - base \in Nat /\ Has(Held(m, s).fmmu[i], b - base)
                  /\ b - base < offset[m]
  <2>1. PICK held \in HeldType : held = g.config[s] /\ held = Held(m, s)
    BY GroupIs
  <2>2. Laid(g)[s] = LaidAt(held, base)
    BY <1>3, <2>1, GroupIs
  <2>3. /\ DOMAIN LaidAt(held, base) = DOMAIN held.fmmu
        /\ \A i \in DOMAIN held.fmmu : held.fmmu[i] \in Fmmu /\ LaidAt(held, base)[i] = Shifted(held.fmmu[i], base)
    BY LaidAtIs
  <2>4. Ends(held.fmmu, offset[m])
    BY <1>1, <2>1 DEF BuiltInv, Built
  <2>5. ASSUME NEW i \in DOMAIN held.fmmu, NEW b \in Nat, Has(LaidAt(held, base)[i], b)
        PROVE  b >= base /\ b - base \in Nat /\ Has(held.fmmu[i], b - base) /\ b - base < offset[m]
    <3>1. PICK e \in Fmmu : e = held.fmmu[i] /\ Has(Shifted(e, base), b)
      BY <2>3, <2>5
    <3>2. b >= base /\ b - base \in Nat /\ Has(e, b - base)
      BY <3>1, ShiftedIs
    <3>3. e.logical + e.length <= offset[m] /\ e.logical \in Nat /\ e.length \in Nat
      BY <2>4, <3>1 DEF Ends, Fmmu
    <3>4. b - base < offset[m]
      BY <1>1, <3>2, <3>3 DEF Has
    <3> QED BY <3>1, <3>2, <3>4
  <2> QED BY <2>1, <2>2, <2>3, <2>5
<1>6. \A s \in DOMAIN Laid(g) : \A i \in DOMAIN Laid(g)[s], b \in Nat :
        Has(Laid(g)[s][i], b) => b >= base /\ b - base < offset[m]
  BY <1>4, <1>5
<1>7. BelowTop(Laid(g), base + offset[m])
  <2>1. \A b \in Nat : b - base < offset[m] => b < base + offset[m]
    BY <1>1
  <2> QED BY <1>6, <2>1 DEF BelowTop, Below
<1>8. OnlyItself(Laid(g))
  <2> SUFFICES ASSUME NEW s \in DOMAIN Laid(g), NEW t \in DOMAIN Laid(g),
                      NEW i \in DOMAIN Laid(g)[s], NEW l \in DOMAIN Laid(g)[t],
                      NEW b \in Nat, Has(Laid(g)[s][i], b), Has(Laid(g)[t][l], b)
               PROVE  s = t /\ i = l
    BY DEF OnlyItself, Overlap
  <2>1. /\ b - base \in Nat /\ i \in DOMAIN Held(m, s).fmmu /\ l \in DOMAIN Held(m, t).fmmu
        /\ Has(Held(m, s).fmmu[i], b - base) /\ Has(Held(m, t).fmmu[l], b - base)
    BY <1>4, <1>5
  <2>2. DOMAIN FmmusOf(m) = Slaves /\ \A z \in Slaves : FmmusOf(m)[z] = Held(m, z).fmmu
    BY DEF FmmusOf
  <2>3. OneEntry(FmmusOf(m))
    BY DEF BuiltInv
  <2> QED BY <1>1, <1>4, <2>1, <2>2, <2>3 DEF OneEntry
<1> QED BY <1>2, <1>3, <1>6, <1>7, <1>8

(* A step that makes and drops no group.                                     *)
SameGroups ==
  /\ allocated' = allocated
  /\ \A n \in Mappings : /\ group'[n].made = group[n].made /\ group'[n].offset = group[n].offset
                          /\ group'[n].config = group[n].config /\ group'[n].fields = group[n].fields

LEMMA SameLaid ==
  ASSUME SameGroups, NEW n \in Mappings
  PROVE  /\ Laid(group'[n]) = Laid(group[n]) /\ Holds(group'[n]) = Holds(group[n])
         /\ group'[n].made = group[n].made
<1>1. Laid(group'[n]) = Laid(group[n])
  BY DEF SameGroups, Laid
<1>2. Holds(group'[n]) = Holds(group[n])
  BY DEF SameGroups, Holds
<1> QED BY <1>1, <1>2 DEF SameGroups

LEMMA GroupsSame ==
  ASSUME SameGroups, GroupsInv
  PROVE  GroupsInv'
<1>1. \A n \in Mappings : Laid(group'[n]) = Laid(group[n]) /\ Holds(group'[n]) = Holds(group[n])
                          /\ group'[n].made = group[n].made
  BY SameLaid
<1>2. allocated' = allocated
  BY DEF SameGroups
<1> QED BY <1>1, <1>2, Zenon DEF GroupsInv

LEMMA DropGroupGroups ==
  ASSUME Types, GroupsInv, NEW m \in Mappings, DropGroup(m)
  PROVE  /\ GroupsInv' /\ allocated' = allocated
         /\ ~group'[m].made /\ \A n \in Mappings : n # m => group'[n] = group[n]
<1>1. NoGroup.made = FALSE
  BY DEF NoGroup
<1>2. ~group'[m].made /\ \A n \in Mappings : n # m => group'[n] = group[n]
  BY <1>1 DEF DropGroup, Types, GroupingType
<1>3. allocated' = allocated
  BY DEF DropGroup
<1> QED BY <1>2, <1>3 DEF GroupsInv

(* A group gets a part of the logical memory above that of all others.       *)
LEMMA GroupGroups ==
  ASSUME Types, BuiltInv, GroupsInv, NEW m \in Mappings, Group(m)
  PROVE  /\ GroupsInv' /\ allocated \in Nat /\ allocated' \in Nat /\ allocated <= allocated'
         /\ ~group[m].made /\ \A n \in Mappings : n # m => group'[n] = group[n]
         /\ \A s \in DOMAIN Laid(group'[m]) : \A i \in DOMAIN Laid(group'[m])[s], b \in Nat :
              Has(Laid(group'[m])[s][i], b) => b >= allocated
<1>1. /\ allocated' \in 0..LogicalSize /\ allocated \in Nat /\ offset[m] \in Nat
      /\ allocated' = allocated + offset[m] /\ slaves[m] \in SUBSET Slaves
  BY ConstantsAssumption DEF Types, BuildingType, GroupingType, Group
<1>2. PICK held \in Maps(Slaves, HeldType) : /\ held = [s \in slaves[m] |-> Held(m, s)] /\ DOMAIN held = slaves[m]
                                             /\ \A s \in slaves[m] : held[s] = Held(m, s)
  <2>1. \A s \in slaves[m] : Held(m, s) \in HeldType
    BY <1>1, Same DEF Types
  <2>2. [s \in slaves[m] |-> Held(m, s)] \in [slaves[m] -> HeldType]
    BY <2>1
  <2>3. [s \in slaves[m] |-> Held(m, s)] \in Maps(Slaves, HeldType)
    BY <1>1, <2>2 DEF Maps
  <2> QED BY <2>3
<1>3. PICK set \in SUBSET Field : set = fields[m]
  BY DEF Types, BuildingType
<1>4. PICK g \in GroupType :
        /\ g = [made |-> TRUE, offset |-> allocated, fields |-> set, configured |-> {}, config |-> held]
        /\ g.made /\ g.offset = allocated /\ g.fields = set /\ g.config = held
  <2>1. [made |-> TRUE, offset |-> allocated, fields |-> set, configured |-> {}, config |-> held] \in GroupType
    BY <1>1 DEF GroupType
  <2> QED BY <2>1
<1>5. group' = [group EXCEPT ![m] = g]
  BY <1>2, <1>3, <1>4 DEF Group
<1>6. group'[m] = g /\ ~group[m].made /\ \A n \in Mappings : n # m => group'[n] = group[n]
  BY <1>5 DEF Group, Types, GroupingType
<1>7. BuildingType
  BY DEF Types
<1>8. /\ g.offset = allocated /\ g.fields = fields[m]
      /\ DOMAIN g.config = slaves[m] /\ \A s \in slaves[m] : g.config[s] = Held(m, s)
  BY <1>2, <1>3, <1>4
<1>9. /\ Holds(g) /\ BelowTop(Laid(g), allocated + offset[m]) /\ OnlyItself(Laid(g))
      /\ \A s \in DOMAIN Laid(g) : \A i \in DOMAIN Laid(g)[s], b \in Nat : Has(Laid(g)[s][i], b) => b >= allocated
  BY <1>1, <1>7, <1>8, NewGroup
<1>10. \A n \in Mappings : n # m /\ group[n].made => BelowTop(Laid(group[n]), allocated')
  <2>1. \A b \in Nat : b < allocated => b < allocated'
    BY <1>1
  <2> QED BY <2>1 DEF GroupsInv, BelowTop, Below
<1>11. \A n \in Mappings : n # m /\ group[n].made =>
         AllApart(Laid(group[n]), Laid(g)) /\ AllApart(Laid(g), Laid(group[n]))
  <2>1. \A b \in Nat : ~(b < allocated /\ b >= allocated)
    BY <1>1
  <2> QED BY <1>9, <2>1 DEF GroupsInv, BelowTop, Below, AllApart, Overlap
<1>12. GroupsInv'
  <2>1. \A n \in Mappings : group'[n].made =>
          Holds(group'[n]) /\ BelowTop(Laid(group'[n]), allocated') /\ OnlyItself(Laid(group'[n]))
    BY <1>1, <1>6, <1>9, <1>10 DEF GroupsInv
  <2>2. \A k, n \in Mappings : group'[k].made /\ group'[n].made /\ k # n =>
          AllApart(Laid(group'[k]), Laid(group'[n]))
    BY <1>6, <1>11 DEF GroupsInv
  <2> QED BY <2>1, <2>2 DEF GroupsInv
<1>13. allocated' \in Nat /\ allocated <= allocated'
  BY <1>1
<1> QED BY <1>1, <1>6, <1>9, <1>12, <1>13

-----------------------------------------------------------------------------
(* What is left to write                                                     *)

(* Of the writes in K, w has those of x from the d-th on, together.          *)
Remains(w, x, d, K) ==
  /\ d \in 0..Len(x)
  /\ \E b \in Nat :
       /\ b + (Len(x) - d) <= Len(w)
       /\ \A i \in (d + 1)..Len(x) : w[b + (i - d)] = x[i]
       /\ \A r \in 1..Len(w) : w[r] \in K => b < r /\ r <= b + (Len(x) - d)
Avoids(w, K) == \A r \in 1..Len(w) : w[r] \notin K

LEMMA TailIs ==
  ASSUME NEW w \in Seq(Ops), w # <<>>
  PROVE  /\ Len(w) \in Nat /\ Len(w) > 0 /\ Head(w) = w[1] /\ Head(w) \in Ops
         /\ Tail(w) \in Seq(Ops) /\ Len(Tail(w)) = Len(w) - 1
         /\ \A i \in 1..(Len(w) - 1) : Tail(w)[i] = w[i + 1]
<1>1. Len(w) \in Nat /\ Len(w) > 0
  BY EmptySeq, LenProperties
<1>2. Head(w) = w[1] /\ Head(w) \in Ops
  BY <1>1, ElementOfSeq, HeadTailProperties
<1>3. Tail(w) \in Seq(Ops) /\ Len(Tail(w)) = Len(w) - 1
  BY HeadTailProperties
<1>4. \A i \in 1..(Len(w) - 1) : Tail(w)[i] = w[i + 1]
  BY <1>1, <1>3, HeadTailProperties
<1> QED BY <1>1, <1>2, <1>3, <1>4

(* A write is done: one of x, or another.                                    *)
LEMMA RemainsTail ==
  ASSUME NEW w \in Seq(Ops), w # <<>>, NEW x \in Seq(Ops), NEW d, NEW K, Remains(w, x, d, K)
  PROVE  \/ Head(w) \notin K /\ Remains(Tail(w), x, d, K)
         \/ d + 1 \in 1..Len(x) /\ Head(w) = x[d + 1] /\ Remains(Tail(w), x, d + 1, K)
<1>1. PICK n \in Nat, t \in Seq(Ops) : /\ n = Len(w) /\ n > 0 /\ t = Tail(w) /\ Len(t) = n - 1 /\ Head(w) = w[1]
                                       /\ \A i \in 1..(n - 1) : t[i] = w[i + 1]
  BY TailIs
<1>2. PICK l \in Nat : l = Len(x)
  BY LenProperties
<1>3. PICK b \in Nat :
        /\ d \in 0..l /\ b + (l - d) <= n
        /\ \A i \in (d + 1)..l : w[b + (i - d)] = x[i]
        /\ \A r \in 1..n : w[r] \in K => b < r /\ r <= b + (l - d)
  BY <1>1, <1>2 DEF Remains
<1>4. CASE b > 0
  <2>1. Head(w) \notin K
    BY <1>1, <1>3, <1>4
  <2>2. b - 1 \in Nat /\ (b - 1) + (l - d) <= n - 1
    BY <1>3, <1>4
  <2>3. \A i \in (d + 1)..l : t[(b - 1) + (i - d)] = x[i]
    <3> SUFFICES ASSUME NEW i \in (d + 1)..l PROVE t[(b - 1) + (i - d)] = x[i]
      OBVIOUS
    <3>1. PICK j \in 1..(n - 1) : j = (b - 1) + (i - d)
      BY <1>3, <1>4
    <3>2. j + 1 = b + (i - d)
      BY <1>3, <3>1
    <3> QED BY <1>1, <1>3, <3>1, <3>2
  <2>4. \A r \in 1..(n - 1) : t[r] \in K => b - 1 < r /\ r <= (b - 1) + (l - d)
    <3> SUFFICES ASSUME NEW r \in 1..(n - 1), t[r] \in K PROVE b - 1 < r /\ r <= (b - 1) + (l - d)
      OBVIOUS
    <3>1. r + 1 \in 1..n /\ w[r + 1] \in K
      BY <1>1
    <3>2. b < r + 1 /\ r + 1 <= b + (l - d)
      BY <1>3, <3>1
    <3> QED BY <1>3, <3>2
  <2>5. Remains(t, x, d, K)
    BY <1>1, <1>2, <1>3, <2>2, <2>3, <2>4 DEF Remains
  <2> QED BY <1>1, <2>1, <2>5
<1>5. CASE b = 0 /\ d = l
  <2>1. \A r \in 1..n : w[r] \notin K
    BY <1>3, <1>5
  <2>2. \A r \in 1..(n - 1) : t[r] \notin K
    BY <1>1, <2>1
  <2>3. 0 + (l - d) <= n - 1 /\ \A i \in (d + 1)..l : t[0 + (i - d)] = x[i]
    BY <1>1, <1>5
  <2>4. Remains(t, x, d, K)
    BY <1>1, <1>2, <1>3, <2>2, <2>3 DEF Remains
  <2> QED BY <1>1, <2>1, <2>4
<1>6. CASE b = 0 /\ d # l
  <2>1. d + 1 \in 1..l /\ d \in Nat
    BY <1>3, <1>6
  <2>2. w[1] = x[d + 1]
    <3>1. d + 1 \in (d + 1)..l /\ b + ((d + 1) - d) = 1
      BY <1>3, <1>6
    <3> QED BY <1>3, <3>1
  <2>3. \A i \in (d + 2)..l : t[i - (d + 1)] = x[i]
    <3> SUFFICES ASSUME NEW i \in (d + 2)..l PROVE t[i - (d + 1)] = x[i]
      OBVIOUS
    <3>1. PICK j \in 1..(n - 1) : j = i - (d + 1)
      BY <1>3, <1>6
    <3>2. j + 1 = b + (i - d) /\ i \in (d + 1)..l
      BY <1>6, <2>1, <3>1
    <3> QED BY <1>1, <1>3, <3>1, <3>2
  <2>4. \A r \in 1..(n - 1) : t[r] \in K => 0 < r /\ r <= 0 + (l - (d + 1))
    <3> SUFFICES ASSUME NEW r \in 1..(n - 1), t[r] \in K PROVE 0 < r /\ r <= 0 + (l - (d + 1))
      OBVIOUS
    <3>1. r + 1 \in 1..n /\ w[r + 1] \in K
      BY <1>1
    <3>2. r + 1 <= b + (l - d)
      BY <1>3, <3>1
    <3> QED BY <1>6, <2>1, <3>2
  <2>5. d + 1 \in 0..l /\ 0 + (l - (d + 1)) <= n - 1
    BY <1>3, <1>6, <2>1
  <2>6. \A i \in ((d + 1) + 1)..l : t[0 + (i - (d + 1))] = x[i]
    <3>1. \A i \in ((d + 1) + 1)..l : i \in (d + 2)..l /\ 0 + (i - (d + 1)) = i - (d + 1)
      BY <2>1
    <3> QED BY <2>3, <3>1
  <2>7. Remains(t, x, d + 1, K)
    BY <1>1, <1>2, <2>4, <2>5, <2>6 DEF Remains
  <2> QED BY <1>1, <1>2, <2>1, <2>2, <2>7
<1> QED BY <1>3, <1>4, <1>5, <1>6

LEMMA RemainsAll ==
  ASSUME NEW x \in Seq(Ops), NEW K
  PROVE  Remains(x, x, 0, K)
<1>1. PICK n \in Nat : n = Len(x)
  BY LenProperties
<1>2. \A i \in 1..n : 0 + (i - 0) = i
  OBVIOUS
<1>3. \A r \in 1..n : 0 < r /\ r <= 0 + (n - 0)
  OBVIOUS
<1> QED BY <1>1, <1>2, <1>3, SMTT(30) DEF Remains

LEMMA AvoidsRemains ==
  ASSUME NEW w \in Seq(Ops), NEW K, Avoids(w, K)
  PROVE  Remains(w, <<>>, 0, K)
<1>1. Len(<<>>) = 0 /\ Len(w) \in Nat
  BY EmptySeq, LenProperties
<1> QED BY <1>1 DEF Remains, Avoids

LEMMA ConcatIs ==
  ASSUME NEW v \in Seq(Ops), NEW w \in Seq(Ops)
  PROVE  /\ v \o w \in Seq(Ops) /\ Len(v \o w) = Len(v) + Len(w) /\ Len(v) \in Nat /\ Len(w) \in Nat
         /\ \A i \in 1..Len(v) : (v \o w)[i] = v[i]
         /\ \A i \in 1..Len(w) : (v \o w)[Len(v) + i] = w[i]
<1>1. PICK n \in Nat : n = Len(v)
  BY LenProperties
<1>2. PICK l \in Nat : l = Len(w)
  BY LenProperties
<1>3. v \o w \in Seq(Ops) /\ Len(v \o w) = n + l
  BY <1>1, <1>2, ConcatProperties
<1>4. \A i \in 1..(n + l) : (v \o w)[i] = IF i <= n THEN v[i] ELSE w[i - n]
  BY <1>1, <1>2, ConcatProperties
<1>5. \A i \in 1..n : (v \o w)[i] = v[i]
  <2>1. \A i \in 1..n : i \in 1..(n + l) /\ i <= n
    OBVIOUS
  <2> QED BY <1>4, <2>1
<1>6. \A i \in 1..l : n + i \in 1..(n + l) /\ ~(n + i <= n) /\ (n + i) - n = i
  OBVIOUS
<1>7. \A i \in 1..l : (v \o w)[n + i] = w[i]
  BY <1>4, <1>6
<1> QED BY <1>1, <1>2, <1>3, <1>5, <1>7

LEMMA AvoidsConcat ==
  ASSUME NEW v \in Seq(Ops), NEW w \in Seq(Ops), NEW K, Avoids(v, K), Avoids(w, K)
  PROVE  Avoids(v \o w, K)
<1>1. PICK n \in Nat, l \in Nat, u \in Seq(Ops) :
        /\ n = Len(v) /\ l = Len(w) /\ u = v \o w /\ Len(u) = n + l
        /\ \A i \in 1..n : u[i] = v[i]
        /\ \A i \in 1..l : u[n + i] = w[i]
  <2>1. PICK u \in Seq(Ops) : /\ u = v \o w /\ Len(u) = Len(v) + Len(w) /\ Len(v) \in Nat /\ Len(w) \in Nat
                              /\ \A i \in 1..Len(v) : u[i] = v[i]
                              /\ \A i \in 1..Len(w) : u[Len(v) + i] = w[i]
    BY ConcatIs
  <2> QED BY <2>1
<1>2. \A r \in 1..(n + l) : r \in 1..n \/ (r - n \in 1..l /\ n + (r - n) = r)
  OBVIOUS
<1> QED BY <1>1, <1>2 DEF Avoids

LEMMA RemainsConcat ==
  ASSUME NEW v \in Seq(Ops), NEW w \in Seq(Ops), NEW x \in Seq(Ops), NEW K
  PROVE  /\ Remains(v, x, 0, K) /\ Avoids(w, K) => Remains(v \o w, x, 0, K)
         /\ Avoids(v, K) /\ Remains(w, x, 0, K) => Remains(v \o w, x, 0, K)
<1>1. PICK n \in Nat, l \in Nat, u \in Seq(Ops) :
        /\ n = Len(v) /\ l = Len(w) /\ u = v \o w /\ Len(u) = n + l
        /\ \A i \in 1..n : u[i] = v[i]
        /\ \A i \in 1..l : u[n + i] = w[i]
  <2>1. PICK u \in Seq(Ops) : /\ u = v \o w /\ Len(u) = Len(v) + Len(w) /\ Len(v) \in Nat /\ Len(w) \in Nat
                              /\ \A i \in 1..Len(v) : u[i] = v[i]
                              /\ \A i \in 1..Len(w) : u[Len(v) + i] = w[i]
    BY ConcatIs
  <2> QED BY <2>1
<1>2. \A r \in 1..(n + l) : r \in 1..n \/ (r - n \in 1..l /\ n + (r - n) = r)
  OBVIOUS
<1>3. PICK k \in Nat : k = Len(x)
  BY LenProperties
<1>4. ASSUME Remains(v, x, 0, K), Avoids(w, K) PROVE Remains(u, x, 0, K)
  <2>1. PICK b \in Nat :
          /\ b + (k - 0) <= n
          /\ \A i \in (0 + 1)..k : v[b + (i - 0)] = x[i]
          /\ \A r \in 1..n : v[r] \in K => b < r /\ r <= b + (k - 0)
    BY <1>1, <1>3, <1>4 DEF Remains
  <2>2. b + (k - 0) <= n + l
    BY <2>1
  <2>3. \A i \in (0 + 1)..k : u[b + (i - 0)] = x[i]
    <3>1. \A i \in (0 + 1)..k : b + (i - 0) \in 1..n
      BY <2>1
    <3> QED BY <1>1, <2>1, <3>1
  <2>4. \A r \in 1..(n + l) : u[r] \in K => b < r /\ r <= b + (k - 0)
    BY <1>1, <1>2, <1>4, <2>1 DEF Avoids
  <2>5. 0 \in 0..k
    OBVIOUS
  <2> QED BY <1>1, <1>3, <2>2, <2>3, <2>4, <2>5 DEF Remains
<1>5. ASSUME Avoids(v, K), Remains(w, x, 0, K) PROVE Remains(u, x, 0, K)
  <2>1. PICK b \in Nat :
          /\ b + (k - 0) <= l
          /\ \A i \in (0 + 1)..k : w[b + (i - 0)] = x[i]
          /\ \A r \in 1..l : w[r] \in K => b < r /\ r <= b + (k - 0)
    BY <1>1, <1>3, <1>5 DEF Remains
  <2>2. n + b \in Nat /\ (n + b) + (k - 0) <= n + l
    BY <2>1
  <2>3. \A i \in (0 + 1)..k : u[(n + b) + (i - 0)] = x[i]
    <3>1. \A i \in (0 + 1)..k : b + (i - 0) \in 1..l /\ (n + b) + (i - 0) = n + (b + (i - 0))
      BY <2>1
    <3> QED BY <1>1, <2>1, <3>1
  <2>4. \A r \in 1..(n + l) : u[r] \in K => n + b < r /\ r <= (n + b) + (k - 0)
    <3> SUFFICES ASSUME NEW r \in 1..(n + l), u[r] \in K PROVE n + b < r /\ r <= (n + b) + (k - 0)
      OBVIOUS
    <3>1. r - n \in 1..l /\ n + (r - n) = r
      BY <1>1, <1>2, <1>5 DEF Avoids
    <3>2. w[r - n] \in K
      BY <1>1, <3>1
    <3>3. b < r - n /\ r - n <= b + (k - 0)
      BY <2>1, <3>1, <3>2
    <3> QED BY <3>3
  <2>5. 0 \in 0..k
    OBVIOUS
  <2> QED BY <1>1, <1>3, <2>2, <2>3, <2>4, <2>5 DEF Remains
<1> QED BY <1>1, <1>4, <1>5

(* The writes of many, one after the other.                                  *)
LEMMA RemainsFlatten ==
  ASSUME NEW n \in Nat, NEW seqs \in [1..n -> Seq(Ops)], NEW x \in Seq(Ops), NEW K, NEW j \in 1..(n + 1),
         \A i \in 1..n : i # j => Avoids(seqs[i], K),
         j \in 1..n => Remains(seqs[j], x, 0, K)
  PROVE  /\ FlattenSeq(seqs) \in Seq(Ops)
         /\ j = n + 1 => Avoids(FlattenSeq(seqs), K)
         /\ j # n + 1 => Remains(FlattenSeq(seqs), x, 0, K)
<1>1. Len(seqs) = n /\ seqs \in Seq(Seq(Ops))
  BY FunctionIsSeq
<1>2. CASE n = 0
  <2>1. seqs = <<>>
    BY <1>1, <1>2, EmptySeq
  <2>2. FlattenSeq(seqs) = <<>>
    BY <1>1, <1>2, <2>1 DEF FlattenSeq
  <2>3. <<>> \in Seq(Ops) /\ Len(<<>>) = 0
    BY EmptySeq
  <2>4. j = n + 1
    BY <1>2
  <2> QED BY <2>2, <2>3, <2>4 DEF Avoids
<1>3. CASE n # 0
  <2>1. PICK g : Flattens(seqs, g, n) /\ FlattenSeq(seqs) = g[n]
    BY <1>1, <1>3, FlattenIs
  <2>2. \A i \in 1..n : g[i] = IF i = 1 THEN seqs[i] ELSE g[i - 1] \o seqs[i]
    BY <2>1 DEF Flattens
  <2> DEFINE R(k) == /\ g[k] \in Seq(Ops)
                     /\ k < j => Avoids(g[k], K)
                     /\ j <= k => Remains(g[k], x, 0, K)
             T == {k \in Nat : k \in 1..n => R(k)}
  <2>3. 0 \in T
    OBVIOUS
  <2>4. ASSUME NEW k \in Nat, k \in T PROVE k + 1 \in T
    <3> SUFFICES ASSUME k + 1 \in 1..n PROVE R(k + 1)
      OBVIOUS
    <3>1. PICK s \in Seq(Ops) : s = seqs[k + 1]
      OBVIOUS
    <3>2. CASE k = 0
      <4>1. g[k + 1] = s
        BY <2>2, <3>1, <3>2
      <4>2. k + 1 < j => Avoids(s, K)
        BY <3>1
      <4>3. j <= k + 1 => Remains(s, x, 0, K)
        <5>1. j <= k + 1 => j = k + 1
          BY <3>2
        <5> QED BY <3>1, <5>1
      <4> QED BY <4>1, <4>2, <4>3
    <3>3. CASE k # 0
      <4>1. k \in 1..n /\ (k + 1) - 1 = k /\ k + 1 # 1
        BY <3>3
      <4>2. PICK f \in Seq(Ops) : f = g[k] /\ (k < j => Avoids(f, K)) /\ (j <= k => Remains(f, x, 0, K))
        BY <2>4, <4>1
      <4>3. g[k + 1] = f \o s
        BY <2>2, <3>1, <4>1, <4>2
      <4>4. f \o s \in Seq(Ops)
        BY ConcatIs
      <4>5. k + 1 < j => Avoids(f \o s, K)
        <5> SUFFICES ASSUME k + 1 < j PROVE Avoids(f \o s, K)
          OBVIOUS
        <5>1. Avoids(f, K) /\ Avoids(s, K)
          BY <3>1, <4>2
        <5> QED BY <5>1, AvoidsConcat
      <4>6. ASSUME j <= k + 1 PROVE Remains(f \o s, x, 0, K)
        <5>1. CASE j = k + 1
          <6>1. Avoids(f, K) /\ Remains(s, x, 0, K)
            BY <3>1, <4>2, <5>1
          <6> QED BY <6>1, RemainsConcat
        <5>2. CASE j # k + 1
          <6>1. Remains(f, x, 0, K) /\ Avoids(s, K)
            BY <3>1, <4>2, <4>6, <5>2
          <6> QED BY <6>1, RemainsConcat
        <5> QED BY <5>1, <5>2
      <4> QED BY <4>3, <4>4, <4>5, <4>6
    <3> QED BY <3>2, <3>3
  <2>5. Nat \subseteq T
    <3> HIDE DEF T
    <3> QED BY <2>3, <2>4, Induction
  <2>6. R(n)
    BY <1>3, <2>5
  <2> QED BY <2>1, <2>6
<1> QED BY <1>2, <1>3

-----------------------------------------------------------------------------
(* The writes of a list, of a sync manager and of the FMMU                   *)

(* The writes to a list and to a sync manager, and what is written there.    *)
ListOps(x)  == {o \in Ops : o.list = x /\ o.op \in {"len", "item", "check"}}
SyncsOf(c)  == {o \in Ops : o.list = c /\ o.op = "sync"}
SyncOf(held, c) ==
  [enable |-> held.channels[c].pdos # <<>>, start |-> held.channels[c].start, length |-> SyncLength(held, c)]
SyncWrite(c, v) == [op |-> "sync", list |-> c, index |-> 0, value |-> v]
FmmuWrite(i, e) == [op |-> "fmmu", list |-> Nobody, index |-> i, value |-> e]

(* All that `configure` writes to the list, or checks in it.                 *)
ListPlan(held, x) ==
  IF x \in DOMAIN held.pdos THEN PdoWrites(held, x)
  ELSE IF x \in DOMAIN held.channels THEN ListWrites(x, held.channels[x].pdos) ELSE <<>>

LEMMA ListsApart == Channels \cap Pdos = {}
BY ConstantsAssumption

LEMMA OpsApart ==
  /\ \A x, y : x # y => ListOps(x) \cap ListOps(y) = {} /\ SyncsOf(x) \cap SyncsOf(y) = {}
  /\ \A x, y : ListOps(x) \cap SyncsOf(y) = {}
  /\ \A x : ListOps(x) \cap FmmuOps = {} /\ SyncsOf(x) \cap FmmuOps = {}
<1>1. \A o \in FmmuOps : o.op = "fmmu"
  BY DEF FmmuOps
<1> QED BY <1>1 DEF ListOps, SyncsOf

LEMMA OthersAvoid ==
  ASSUME NEW w \in Seq(Ops), NEW K, NEW L, \A r \in 1..Len(w) : w[r] \in L, L \cap K = {}
  PROVE  Avoids(w, K)
BY DEF Avoids

(* What is written to a list, one after the other.                           *)
LEMMA ListIs ==
  ASSUME NEW x \in Lists, NEW items \in Seq(Pdos \cup SdoBits), NEW n \in Nat, n = Len(items)
  PROVE  /\ ListWrites(x, items) \in Seq(Ops) /\ Len(ListWrites(x, items)) = n + 2
         /\ ListWrites(x, items)[1] = Len0(x) /\ ListWrites(x, items)[n + 2] = LenIs(x, n)
         /\ \A i \in 1..n : ListWrites(x, items)[i + 1] = Item(x, i, items[i])
         /\ \A r \in 1..(n + 2) : ListWrites(x, items)[r] \in ListOps(x)
<1>1. DOMAIN items = 1..n
  BY LenProperties
<1>2. PICK first \in Seq(Ops) : first = <<Len0(x)>> /\ Len(first) = 1 /\ first[1] = Len0(x) /\ Len0(x) \in ListOps(x)
  <2>1. Len0(x) \in LenOps
    BY DEF Len0, LenOps
  <2>2. Len0(x) \in Ops
    BY <2>1 DEF Ops
  <2>3. Len0(x) \in ListOps(x)
    BY <2>2 DEF Len0, ListOps
  <2>4. PICK o \in Ops : o = Len0(x)
    BY <2>2
  <2>5. <<o>> \in Seq(Ops) /\ Len(<<o>>) = 1 /\ <<o>>[1] = o
    OBVIOUS
  <2> QED BY <2>3, <2>4, <2>5
<1>3. PICK last \in Seq(Ops) : last = <<LenIs(x, n)>> /\ Len(last) = 1 /\ last[1] = LenIs(x, n) /\ LenIs(x, n) \in ListOps(x)
  <2>1. LenIs(x, n) \in LenOps
    BY DEF LenIs, LenOps
  <2>2. LenIs(x, n) \in Ops
    BY <2>1 DEF Ops
  <2>3. LenIs(x, n) \in ListOps(x)
    BY <2>2 DEF LenIs, ListOps
  <2>4. PICK o \in Ops : o = LenIs(x, n)
    BY <2>2
  <2>5. <<o>> \in Seq(Ops) /\ Len(<<o>>) = 1 /\ <<o>>[1] = o
    OBVIOUS
  <2> QED BY <2>3, <2>4, <2>5
<1>4. PICK body \in Seq(Ops) : /\ body = [i \in 1..n |-> Item(x, i, items[i])] /\ Len(body) = n
                               /\ \A i \in 1..n : body[i] = Item(x, i, items[i]) /\ body[i] \in ListOps(x)
  <2>1. \A i \in 1..n : Item(x, i, items[i]) \in Ops /\ Item(x, i, items[i]) \in ListOps(x)
    <3> SUFFICES ASSUME NEW i \in 1..n PROVE Item(x, i, items[i]) \in Ops /\ Item(x, i, items[i]) \in ListOps(x)
      OBVIOUS
    <3>1. PICK v \in Pdos \cup SdoBits : v = items[i]
      BY <1>1, ElementOfSeq
    <3>2. Item(x, i, v) \in ItemOps
      BY DEF Item, ItemOps
    <3>3. Item(x, i, v) \in Ops
      BY <3>2 DEF Ops
    <3>4. Item(x, i, v) \in ListOps(x)
      BY <3>3 DEF Item, ListOps
    <3> QED BY <3>1, <3>3, <3>4
  <2>2. PICK body : body = [i \in 1..n |-> Item(x, i, items[i])]
    OBVIOUS
  <2>3. body \in [1..n -> Ops]
    BY <2>1, <2>2
  <2>4. body \in Seq(Ops) /\ Len(body) = n
    BY <2>3, FunctionIsSeq
  <2> QED BY <2>1, <2>2, <2>4
<1>5. PICK both \in Seq(Ops) : /\ both = first \o body /\ Len(both) = 1 + n /\ both[1] = Len0(x)
                               /\ \A i \in 1..n : both[1 + i] = body[i]
  <2>1. first \o body \in Seq(Ops) /\ Len(first \o body) = 1 + n
    BY <1>2, <1>4, ConcatIs
  <2>2. 1 \in 1..Len(first)
    BY <1>2
  <2>3. (first \o body)[1] = first[1]
    BY <2>2, ConcatIs
  <2>4. \A i \in 1..n : (first \o body)[1 + i] = body[i]
    BY <1>2, <1>4, ConcatIs
  <2> QED BY <1>2, <2>1, <2>3, <2>4
<1>6. PICK w \in Seq(Ops) : /\ w = both \o last /\ Len(w) = n + 2
                            /\ \A i \in 1..(1 + n) : w[i] = both[i]
                            /\ w[n + 2] = LenIs(x, n)
  <2>1. both \o last \in Seq(Ops) /\ Len(both \o last) = (1 + n) + 1
    BY <1>3, <1>5, ConcatIs
  <2>2. \A i \in 1..(1 + n) : (both \o last)[i] = both[i]
    BY <1>5, ConcatIs
  <2>3. 1 \in 1..Len(last)
    BY <1>3
  <2>4. (both \o last)[Len(both) + 1] = last[1]
    BY <2>3, ConcatIs
  <2>5. Len(both) + 1 = n + 2 /\ (1 + n) + 1 = n + 2
    BY <1>5
  <2> QED BY <1>3, <2>1, <2>2, <2>4, <2>5
<1>7. ListWrites(x, items) = w
  BY <1>1, <1>2, <1>3, <1>4, <1>5, <1>6 DEF ListWrites
<1>8. w[1] = Len0(x)
  <2>1. 1 \in 1..(1 + n)
    OBVIOUS
  <2> QED BY <1>5, <1>6, <2>1
<1>9. \A i \in 1..n : w[i + 1] = Item(x, i, items[i]) /\ w[i + 1] \in ListOps(x)
  <2>1. \A i \in 1..n : i + 1 \in 1..(1 + n) /\ i + 1 = 1 + i
    OBVIOUS
  <2> QED BY <1>4, <1>5, <1>6, <2>1
<1>10. \A r \in 1..(n + 2) : w[r] \in ListOps(x)
  <2>1. \A r \in 1..(n + 2) : r = 1 \/ r = n + 2 \/ (r - 1 \in 1..n /\ (r - 1) + 1 = r)
    OBVIOUS
  <2> QED BY <1>2, <1>3, <1>6, <1>8, <1>9, <2>1
<1> QED BY <1>6, <1>7, <1>8, <1>9, <1>10

-----------------------------------------------------------------------------
(* What `configure` writes                                                   *)

(* What `configure` writes for one PDO, one channel, the FMMU.               *)
LEMMA PdoWritten ==
  ASSUME NEW held \in HeldType, NEW p \in DOMAIN held.pdos
  PROVE  /\ PdoWrites(held, p) \in Seq(Ops)
         /\ \A r \in 1..Len(PdoWrites(held, p)) : PdoWrites(held, p)[r] \in ListOps(p)
         /\ p \in Fixed =>
              /\ Len(PdoWrites(held, p)) = Len(held.pdos[p])
              /\ \A i \in 1..Len(held.pdos[p]) : PdoWrites(held, p)[i] = Check(p, i, held.pdos[p][i])
<1>1. PICK pdos \in PdoLists : pdos = held.pdos
  BY RowsIs
<1>2. PICK items \in Seq(SdoBits), n \in Nat : items = held.pdos[p] /\ n = Len(items) /\ DOMAIN items = 1..n
  BY <1>1, PdoIs
<1>3. p \in Pdos /\ p \in Lists
  BY <1>1, PdoIs DEF Lists
<1>4. CASE p \notin Fixed
  <2>1. items \in Seq(Pdos \cup SdoBits)
    BY SeqMonotonic
  <2>2. PICK w \in Seq(Ops) : /\ w = ListWrites(p, items) /\ Len(w) = n + 2
                              /\ \A r \in 1..(n + 2) : w[r] \in ListOps(p)
    BY <1>2, <1>3, <2>1, ListIs
  <2>3. PdoWrites(held, p) = w
    BY <1>2, <1>4, <2>2 DEF PdoWrites
  <2> QED BY <1>4, <2>2, <2>3
<1>5. CASE p \in Fixed
  <2>1. PICK w : w = [i \in 1..n |-> Check(p, i, items[i])]
    OBVIOUS
  <2>2. \A i \in 1..n : Check(p, i, items[i]) \in Ops /\ Check(p, i, items[i]) \in ListOps(p)
    <3> SUFFICES ASSUME NEW i \in 1..n
                 PROVE  Check(p, i, items[i]) \in Ops /\ Check(p, i, items[i]) \in ListOps(p)
      OBVIOUS
    <3>1. PICK v \in SdoBits : v = items[i]
      BY <1>2, ElementOfSeq
    <3>2. Check(p, i, v) \in CheckOps
      BY <1>3 DEF Check, CheckOps
    <3>3. Check(p, i, v) \in Ops
      BY <3>2 DEF Ops
    <3>4. Check(p, i, v) \in ListOps(p)
      BY <3>3 DEF Check, ListOps
    <3> QED BY <3>1, <3>3, <3>4
  <2>3. w \in Seq(Ops) /\ Len(w) = n
    <3>1. w \in [1..n -> Ops]
      BY <2>1, <2>2
    <3> QED BY <3>1, FunctionIsSeq
  <2>4. PdoWrites(held, p) = w
    BY <1>2, <1>5, <2>1 DEF PdoWrites
  <2>5. \A i \in 1..n : w[i] = Check(p, i, items[i]) /\ w[i] \in ListOps(p)
    BY <2>1, <2>2
  <2> QED BY <1>2, <2>3, <2>4, <2>5
<1> QED BY <1>4, <1>5

LEMMA ChannelWritten ==
  ASSUME NEW held \in HeldType, NEW c \in DOMAIN held.channels
  PROVE  \E list, sync \in Seq(Ops) :
           /\ ChannelWrites(held, c) = list \o sync
           /\ list = ListWrites(c, held.channels[c].pdos) /\ \A r \in 1..Len(list) : list[r] \in ListOps(c)
           /\ sync = <<SyncWrite(c, SyncOf(held, c))>> /\ Len(sync) = 1
           /\ sync[1] = SyncWrite(c, SyncOf(held, c)) /\ \A r \in 1..Len(sync) : sync[r] \in SyncsOf(c)
<1>1. PICK channels \in ChannelLists : channels = held.channels
  BY RowsIs
<1>2. c \in Channels /\ channels[c] \in [pdos : Seq(Pdos), start : Nat]
  BY <1>1 DEF ChannelLists, Maps
<1>3. PICK items \in Seq(Pdos), n \in Nat : items = held.channels[c].pdos /\ n = Len(items)
  BY <1>1, <1>2
<1>4. PICK list \in Seq(Ops) : list = ListWrites(c, items) /\ \A r \in 1..Len(list) : list[r] \in ListOps(c)
  <2>1. items \in Seq(Pdos \cup SdoBits) /\ c \in Lists
    BY <1>2, SeqMonotonic DEF Lists
  <2> QED BY <1>3, <2>1, ListIs
<1>5. PICK v \in Syncs : v = SyncOf(held, c)
  <2>1. PICK length \in {SyncLength(h, d) : h \in HeldType, d \in Channels} : length = SyncLength(held, c)
    BY <1>2
  <2>2. PICK start \in Nat : start = held.channels[c].start
    BY <1>1, <1>2
  <2>3. [enable |-> items # <<>>, start |-> start, length |-> length] \in Syncs
    BY DEF Syncs
  <2> QED BY <1>3, <2>1, <2>2, <2>3 DEF SyncOf
<1>6. PICK o \in Ops : o = SyncWrite(c, v) /\ o \in SyncsOf(c)
  <2>1. SyncWrite(c, v) \in SyncOps
    BY <1>2 DEF SyncOps, SyncWrite
  <2>2. SyncWrite(c, v) \in Ops
    BY <2>1 DEF Ops
  <2>3. SyncWrite(c, v) \in SyncsOf(c)
    BY <2>2 DEF SyncsOf, SyncWrite
  <2> QED BY <2>2, <2>3
<1>7. PICK sync \in Seq(Ops) : sync = <<o>> /\ Len(sync) = 1 /\ sync[1] = o
  <2>1. <<o>> \in Seq(Ops) /\ Len(<<o>>) = 1 /\ <<o>>[1] = o
    OBVIOUS
  <2> QED BY <2>1
<1>8. ChannelWrites(held, c) = list \o sync
  BY <1>3, <1>4, <1>5, <1>6, <1>7 DEF ChannelWrites, SyncOf, SyncWrite
<1>9. \A r \in 1..Len(sync) : sync[r] \in SyncsOf(c)
  <2>1. \A r \in 1..1 : r = 1
    OBVIOUS
  <2> QED BY <1>6, <1>7, <2>1
<1> QED BY <1>3, <1>4, <1>5, <1>6, <1>7, <1>8, <1>9

LEMMA FmmuWritten ==
  ASSUME NEW held \in HeldType, NEW base \in Nat
  PROVE  /\ FmmuWrites(held, base) \in Seq(Ops) /\ Len(FmmuWrites(held, base)) = Len(LaidAt(held, base))
         /\ \A i \in 1..Len(LaidAt(held, base)) : FmmuWrites(held, base)[i] = FmmuWrite(i, LaidAt(held, base)[i])
         /\ \A i \in 1..Len(LaidAt(held, base)) : FmmuWrites(held, base)[i] \in FmmuOps
<1>1. PICK laid \in Seq(Fmmu) : /\ laid = LaidAt(held, base) /\ DOMAIN laid = DOMAIN held.fmmu
                                /\ \A i \in DOMAIN laid : laid[i] = Shifted(held.fmmu[i], base)
  BY LaidAtIs
<1>2. PICK n \in Nat : n = Len(laid) /\ DOMAIN laid = 1..n
  BY LenProperties
<1>3. PICK w : w = [i \in 1..n |-> FmmuWrite(i, laid[i])]
  OBVIOUS
<1>4. \A i \in 1..n : FmmuWrite(i, laid[i]) \in FmmuOps
  <2> SUFFICES ASSUME NEW i \in 1..n PROVE FmmuWrite(i, laid[i]) \in FmmuOps
    OBVIOUS
  <2>1. PICK e \in Fmmu : e = laid[i]
    BY <1>2, ElementOfSeq
  <2>2. FmmuWrite(i, e) \in FmmuOps
    BY DEF FmmuWrite, FmmuOps
  <2> QED BY <2>1, <2>2
<1>5. w \in Seq(Ops) /\ Len(w) = n
  <2>1. FmmuOps \subseteq Ops
    BY DEF Ops
  <2>2. w \in [1..n -> Ops]
    BY <1>3, <1>4, <2>1
  <2> QED BY <2>2, FunctionIsSeq
<1>6. FmmuWrites(held, base) = w
  <2>1. DOMAIN held.fmmu = 1..n /\ \A i \in 1..n : laid[i] = Shifted(held.fmmu[i], base)
    BY <1>1, <1>2
  <2>2. w = [i \in 1..n |-> FmmuWrite(i, Shifted(held.fmmu[i], base))]
    BY <1>3, <2>1
  <2> QED BY <2>1, <2>2 DEF FmmuWrites, FmmuWrite, Shifted
<1> QED BY <1>1, <1>2, <1>3, <1>4, <1>5, <1>6

(* The order in which a HashMap is gone through, whatever it is.             *)
LEMMA OrderIs ==
  ASSUME NEW S, IsFiniteSet(S), NEW order \in SetToSeqs(S)
  PROVE  \E n \in Nat : /\ order \in [1..n -> S] /\ DOMAIN order = 1..n
                        /\ \A i, j \in 1..n : order[i] = order[j] => i = j
                        /\ \A x \in S : \E j \in 1..n : order[j] = x
<1>1. PICK n \in Nat : n = Cardinality(S)
  BY FS_CardinalityType
<1>2. order \in [1..n -> S] /\ \A i, j \in 1..n : i # j => order[i] # order[j]
  BY <1>1 DEF SetToSeqs
<1>3. order \in Injection(1..n, S)
  BY <1>2 DEF Injection, IsInjective
<1>4. IsFiniteSet(1..n) /\ Cardinality(1..n) = n
  BY FS_Interval
<1>5. order \in Surjection(1..n, S)
  BY <1>1, <1>3, <1>4, FS_Injection
<1>6. \A x \in S : \E j \in 1..n : order[j] = x
  BY <1>5 DEF Surjection
<1> QED BY <1>2, <1>6

(* The PDOs come one after the other, each once.                             *)
LEMMA PdosRemain ==
  ASSUME NEW held \in HeldType, NEW pdos \in SetToSeqs(DOMAIN held.pdos),
         NEW w, w = FlattenSeq([i \in DOMAIN pdos |-> PdoWrites(held, pdos[i])])
  PROVE  /\ w \in Seq(Ops)
         /\ \A p \in DOMAIN held.pdos : Remains(w, PdoWrites(held, p), 0, ListOps(p))
         /\ \A K : (\A p \in DOMAIN held.pdos : ListOps(p) \cap K = {}) => Avoids(w, K)
<1>1. IsFiniteSet(DOMAIN held.pdos)
  BY DEF HeldType
<1>2. PICK n \in Nat : /\ pdos \in [1..n -> DOMAIN held.pdos] /\ DOMAIN pdos = 1..n
                       /\ \A i, j \in 1..n : pdos[i] = pdos[j] => i = j
                       /\ \A x \in DOMAIN held.pdos : \E j \in 1..n : pdos[j] = x
  <2>1. PICK S : S = DOMAIN held.pdos
    OBVIOUS
  <2>2. IsFiniteSet(S) /\ pdos \in SetToSeqs(S)
    BY <1>1, <2>1
  <2>3. PICK n \in Nat : /\ pdos \in [1..n -> S] /\ DOMAIN pdos = 1..n
                         /\ \A i, j \in 1..n : pdos[i] = pdos[j] => i = j
                         /\ \A x \in S : \E j \in 1..n : pdos[j] = x
    BY <2>2, OrderIs
  <2>4. /\ pdos \in [1..n -> DOMAIN held.pdos]
        /\ \A x \in DOMAIN held.pdos : \E j \in 1..n : pdos[j] = x
    BY <2>1, <2>3
  <2> QED BY <2>3, <2>4
<1>3. PICK seqs : seqs = [i \in 1..n |-> PdoWrites(held, pdos[i])]
  OBVIOUS
<1>4. \A i \in 1..n : /\ seqs[i] = PdoWrites(held, pdos[i]) /\ seqs[i] \in Seq(Ops)
                      /\ \A r \in 1..Len(seqs[i]) : seqs[i][r] \in ListOps(pdos[i])
  BY <1>2, <1>3, PdoWritten
<1>5. seqs \in [1..n -> Seq(Ops)] /\ w = FlattenSeq(seqs)
  BY <1>2, <1>3, <1>4
<1>6. ASSUME NEW K, \A p \in DOMAIN held.pdos : ListOps(p) \cap K = {}
      PROVE  Avoids(w, K) /\ w \in Seq(Ops)
  <2>1. \A i \in 1..n : Avoids(seqs[i], K)
    BY <1>2, <1>4, <1>6 DEF Avoids
  <2>2. n + 1 \in 1..(n + 1) /\ n + 1 \notin 1..n
    OBVIOUS
  <2>3. <<>> \in Seq(Ops)
    OBVIOUS
  <2> QED BY <1>5, <2>1, <2>2, <2>3, RemainsFlatten
<1>7. ASSUME NEW p \in DOMAIN held.pdos PROVE Remains(w, PdoWrites(held, p), 0, ListOps(p))
  <2>1. PICK j \in 1..n : pdos[j] = p
    BY <1>2
  <2>2. PICK x \in Seq(Ops) : x = PdoWrites(held, p)
    BY PdoWritten
  <2>3. Remains(seqs[j], x, 0, ListOps(p))
    BY <1>4, <2>1, <2>2, RemainsAll
  <2>4. \A i \in 1..n : i # j => Avoids(seqs[i], ListOps(p))
    <3> SUFFICES ASSUME NEW i \in 1..n, i # j PROVE Avoids(seqs[i], ListOps(p))
      OBVIOUS
    <3>1. pdos[i] # p
      BY <1>2, <2>1
    <3>2. ListOps(pdos[i]) \cap ListOps(p) = {}
      BY <3>1, OpsApart
    <3> QED BY <1>4, <3>2 DEF Avoids
  <2>5. j \in 1..(n + 1) /\ j # n + 1
    OBVIOUS
  <2> QED BY <1>5, <2>2, <2>3, <2>4, <2>5, RemainsFlatten
<1>8. w \in Seq(Ops)
  <2>1. \A p \in DOMAIN held.pdos : ListOps(p) \cap {} = {}
    OBVIOUS
  <2> QED BY <1>6, <2>1
<1> QED BY <1>6, <1>7, <1>8

LEMMA ChannelsRemain ==
  ASSUME NEW held \in HeldType, NEW channels \in SetToSeqs(DOMAIN held.channels),
         NEW w, w = FlattenSeq([i \in DOMAIN channels |-> ChannelWrites(held, channels[i])])
  PROVE  /\ w \in Seq(Ops)
         /\ \A c \in DOMAIN held.channels :
              /\ Remains(w, ListWrites(c, held.channels[c].pdos), 0, ListOps(c))
              /\ Remains(w, <<SyncWrite(c, SyncOf(held, c))>>, 0, SyncsOf(c))
         /\ \A K : (\A c \in DOMAIN held.channels : ListOps(c) \cap K = {} /\ SyncsOf(c) \cap K = {}) => Avoids(w, K)
<1>1. IsFiniteSet(DOMAIN held.channels)
  BY DEF HeldType
<1>2. PICK n \in Nat : /\ channels \in [1..n -> DOMAIN held.channels] /\ DOMAIN channels = 1..n
                       /\ \A i, j \in 1..n : channels[i] = channels[j] => i = j
                       /\ \A x \in DOMAIN held.channels : \E j \in 1..n : channels[j] = x
  <2>1. PICK S : S = DOMAIN held.channels /\ IsFiniteSet(S) /\ channels \in SetToSeqs(S)
    BY <1>1
  <2>2. \E n \in Nat : /\ channels \in [1..n -> S] /\ DOMAIN channels = 1..n
                       /\ \A i, j \in 1..n : channels[i] = channels[j] => i = j
                       /\ \A x \in S : \E j \in 1..n : channels[j] = x
    BY <2>1, OrderIs
  <2> QED BY <2>1, <2>2
<1>3. PICK seqs : seqs = [i \in 1..n |-> ChannelWrites(held, channels[i])]
  OBVIOUS
<1>4. ASSUME NEW i \in 1..n
      PROVE  /\ seqs[i] \in Seq(Ops)
             /\ \A K : ListOps(channels[i]) \cap K = {} /\ SyncsOf(channels[i]) \cap K = {} => Avoids(seqs[i], K)
             /\ Remains(seqs[i], ListWrites(channels[i], held.channels[channels[i]].pdos), 0, ListOps(channels[i]))
             /\ Remains(seqs[i], <<SyncWrite(channels[i], SyncOf(held, channels[i]))>>, 0, SyncsOf(channels[i]))
  <2>1. PICK c \in DOMAIN held.channels : c = channels[i]
    BY <1>2
  <2>2. PICK list, sync \in Seq(Ops) :
           /\ ChannelWrites(held, c) = list \o sync
           /\ list = ListWrites(c, held.channels[c].pdos) /\ \A r \in 1..Len(list) : list[r] \in ListOps(c)
           /\ sync = <<SyncWrite(c, SyncOf(held, c))>> /\ \A r \in 1..Len(sync) : sync[r] \in SyncsOf(c)
    BY ChannelWritten
  <2>3. seqs[i] = list \o sync
    BY <1>3, <2>1, <2>2
  <2>4. list \o sync \in Seq(Ops)
    BY ConcatIs
  <2>5. ASSUME NEW K, ListOps(c) \cap K = {}, SyncsOf(c) \cap K = {} PROVE Avoids(list \o sync, K)
    <3>1. Avoids(list, K) /\ Avoids(sync, K)
      BY <2>2, <2>5 DEF Avoids
    <3> QED BY <3>1, AvoidsConcat
  <2>6. ListOps(c) \cap SyncsOf(c) = {}
    BY OpsApart
  <2>7. Remains(list \o sync, list, 0, ListOps(c))
    <3>1. Avoids(sync, ListOps(c))
      BY <2>2, <2>6 DEF Avoids
    <3>2. Remains(list, list, 0, ListOps(c))
      BY RemainsAll
    <3> QED BY <3>1, <3>2, RemainsConcat
  <2>8. Remains(list \o sync, sync, 0, SyncsOf(c))
    <3>1. Avoids(list, SyncsOf(c))
      BY <2>2, <2>6 DEF Avoids
    <3>2. Remains(sync, sync, 0, SyncsOf(c))
      BY RemainsAll
    <3> QED BY <3>1, <3>2, RemainsConcat
  <2> QED BY <2>1, <2>2, <2>3, <2>4, <2>5, <2>7, <2>8
<1>5. seqs \in [1..n -> Seq(Ops)] /\ w = FlattenSeq(seqs)
  BY <1>2, <1>3, <1>4
<1>6. ASSUME NEW K, \A c \in DOMAIN held.channels : ListOps(c) \cap K = {} /\ SyncsOf(c) \cap K = {}
      PROVE  Avoids(w, K) /\ w \in Seq(Ops)
  <2>1. \A i \in 1..n : Avoids(seqs[i], K)
    BY <1>2, <1>4, <1>6
  <2>2. n + 1 \in 1..(n + 1) /\ n + 1 \notin 1..n
    OBVIOUS
  <2>3. <<>> \in Seq(Ops)
    OBVIOUS
  <2> QED BY <1>5, <2>1, <2>2, <2>3, RemainsFlatten
<1>7. ASSUME NEW c \in DOMAIN held.channels, NEW x \in Seq(Ops), NEW K,
             \A j \in 1..n : channels[j] = c => Remains(seqs[j], x, 0, K),
             \A d : d # c => ListOps(d) \cap K = {} /\ SyncsOf(d) \cap K = {}
      PROVE  Remains(w, x, 0, K)
  <2>1. PICK j \in 1..n : channels[j] = c
    BY <1>2
  <2>2. \A i \in 1..n : i # j => Avoids(seqs[i], K)
    <3> SUFFICES ASSUME NEW i \in 1..n, i # j PROVE Avoids(seqs[i], K)
      OBVIOUS
    <3>1. channels[i] # c
      BY <1>2, <2>1
    <3> QED BY <1>4, <1>7, <3>1
  <2>3. j \in 1..(n + 1) /\ j # n + 1
    OBVIOUS
  <2>4. Remains(seqs[j], x, 0, K)
    BY <1>7, <2>1
  <2> QED BY <1>5, <2>2, <2>3, <2>4, RemainsFlatten
<1>8. ASSUME NEW c \in DOMAIN held.channels
      PROVE  /\ Remains(w, ListWrites(c, held.channels[c].pdos), 0, ListOps(c))
             /\ Remains(w, <<SyncWrite(c, SyncOf(held, c))>>, 0, SyncsOf(c))
  <2>1. PICK list, sync \in Seq(Ops) :
           /\ list = ListWrites(c, held.channels[c].pdos)
           /\ sync = <<SyncWrite(c, SyncOf(held, c))>>
    BY ChannelWritten
  <2>2. \A j \in 1..n : channels[j] = c => Remains(seqs[j], list, 0, ListOps(c)) /\ Remains(seqs[j], sync, 0, SyncsOf(c))
    BY <1>4, <2>1
  <2>3. \A d : d # c => /\ ListOps(d) \cap ListOps(c) = {} /\ SyncsOf(d) \cap ListOps(c) = {}
                        /\ ListOps(d) \cap SyncsOf(c) = {} /\ SyncsOf(d) \cap SyncsOf(c) = {}
    BY OpsApart
  <2>4. Remains(w, list, 0, ListOps(c))
    BY <1>7, <2>2, <2>3
  <2>5. Remains(w, sync, 0, SyncsOf(c))
    BY <1>7, <2>2, <2>3
  <2> QED BY <2>1, <2>4, <2>5
<1>9. w \in Seq(Ops)
  <2>1. \A c \in DOMAIN held.channels : ListOps(c) \cap {} = {} /\ SyncsOf(c) \cap {} = {}
    OBVIOUS
  <2> QED BY <1>6, <2>1
<1> QED BY <1>6, <1>8, <1>9

(* Nothing else is written to a list, a sync manager or the FMMU.            *)
LEMMA WritesRemain ==
  ASSUME NEW held \in HeldType, NEW base \in Nat,
         NEW pdos \in SetToSeqs(DOMAIN held.pdos), NEW channels \in SetToSeqs(DOMAIN held.channels),
         NEW w, w = Writes(held, base, pdos, channels)
  PROVE  /\ w \in Seq(Ops)
         /\ \A x \in Lists : Remains(w, ListPlan(held, x), 0, ListOps(x))
         /\ \A c \in DOMAIN held.channels : Remains(w, <<SyncWrite(c, SyncOf(held, c))>>, 0, SyncsOf(c))
         /\ Remains(w, FmmuWrites(held, base), 0, FmmuOps)
<1>1. PICK u : u = FlattenSeq([i \in DOMAIN pdos |-> PdoWrites(held, pdos[i])])
  OBVIOUS
<1>2. /\ u \in Seq(Ops)
      /\ \A p \in DOMAIN held.pdos : Remains(u, PdoWrites(held, p), 0, ListOps(p))
      /\ \A K : (\A p \in DOMAIN held.pdos : ListOps(p) \cap K = {}) => Avoids(u, K)
  BY <1>1, PdosRemain
<1>3. PICK v : v = FlattenSeq([i \in DOMAIN channels |-> ChannelWrites(held, channels[i])])
  OBVIOUS
<1>4. /\ v \in Seq(Ops)
      /\ \A c \in DOMAIN held.channels :
           /\ Remains(v, ListWrites(c, held.channels[c].pdos), 0, ListOps(c))
           /\ Remains(v, <<SyncWrite(c, SyncOf(held, c))>>, 0, SyncsOf(c))
      /\ \A K : (\A c \in DOMAIN held.channels : ListOps(c) \cap K = {} /\ SyncsOf(c) \cap K = {}) => Avoids(v, K)
  BY <1>3, ChannelsRemain
<1>5. PICK z \in Seq(Ops) : z = FmmuWrites(held, base) /\ \A r \in 1..Len(z) : z[r] \in FmmuOps
  BY FmmuWritten
<1>6. PICK uv \in Seq(Ops) : uv = u \o v
  BY <1>2, <1>4, ConcatIs
<1>7. w = uv \o z
  BY <1>1, <1>3, <1>5, <1>6 DEF Writes
<1>8. w \in Seq(Ops)
  BY <1>7, ConcatIs
<1>9. \A K : FmmuOps \cap K = {} => Avoids(z, K)
  BY <1>5 DEF Avoids
<1>10. DOMAIN held.pdos \subseteq Pdos /\ DOMAIN held.channels \subseteq Channels
  <2>1. PICK entries \in PdoLists, rows \in ChannelLists : entries = held.pdos /\ rows = held.channels
    BY RowsIs
  <2> QED BY <2>1 DEF PdoLists, ChannelLists, Maps
<1>11. ASSUME NEW x \in Lists PROVE Remains(w, ListPlan(held, x), 0, ListOps(x))
  <2>1. /\ FmmuOps \cap ListOps(x) = {} /\ \A y : SyncsOf(y) \cap ListOps(x) = {}
        /\ \A y : y # x => ListOps(y) \cap ListOps(x) = {}
    BY OpsApart
  <2>2. Avoids(z, ListOps(x))
    BY <1>9, <2>1
  <2>3. x \notin DOMAIN held.pdos => Avoids(u, ListOps(x))
    BY <1>2, <2>1
  <2>4. x \notin DOMAIN held.channels => Avoids(v, ListOps(x))
    BY <1>4, <2>1
  <2>5. CASE x \in DOMAIN held.pdos
    <3>1. PICK y \in Seq(Ops) : y = PdoWrites(held, x)
      BY <2>5, PdoWritten
    <3>2. Avoids(v, ListOps(x))
      BY <1>10, <2>4, <2>5, ListsApart
    <3>3. Remains(u, y, 0, ListOps(x))
      BY <1>2, <2>5, <3>1
    <3>4. Remains(uv, y, 0, ListOps(x))
      BY <1>2, <1>4, <1>6, <3>2, <3>3, RemainsConcat
    <3>5. Remains(w, y, 0, ListOps(x))
      BY <1>7, <2>2, <3>4, RemainsConcat
    <3> QED BY <2>5, <3>1, <3>5 DEF ListPlan
  <2>6. CASE x \notin DOMAIN held.pdos /\ x \in DOMAIN held.channels
    <3>1. PICK y \in Seq(Ops) : y = ListWrites(x, held.channels[x].pdos)
      BY <2>6, ChannelWritten
    <3>2. Remains(v, y, 0, ListOps(x))
      BY <1>4, <2>6, <3>1
    <3>3. Remains(uv, y, 0, ListOps(x))
      BY <1>2, <1>4, <1>6, <2>3, <2>6, <3>2, RemainsConcat
    <3>4. Remains(w, y, 0, ListOps(x))
      BY <1>7, <2>2, <3>3, RemainsConcat
    <3> QED BY <2>6, <3>1, <3>4 DEF ListPlan
  <2>7. CASE x \notin DOMAIN held.pdos /\ x \notin DOMAIN held.channels
    <3>1. Avoids(uv, ListOps(x))
      BY <1>2, <1>4, <1>6, <2>3, <2>4, <2>7, AvoidsConcat
    <3>2. Avoids(w, ListOps(x))
      BY <1>7, <2>2, <3>1, AvoidsConcat
    <3>3. Remains(w, <<>>, 0, ListOps(x))
      BY <1>8, <3>2, AvoidsRemains
    <3> QED BY <2>7, <3>3 DEF ListPlan
  <2> QED BY <2>5, <2>6, <2>7
<1>12. ASSUME NEW c \in DOMAIN held.channels
       PROVE  Remains(w, <<SyncWrite(c, SyncOf(held, c))>>, 0, SyncsOf(c))
  <2>1. PICK y \in Seq(Ops) : y = <<SyncWrite(c, SyncOf(held, c))>>
    BY ChannelWritten
  <2>2. /\ FmmuOps \cap SyncsOf(c) = {} /\ \A p : ListOps(p) \cap SyncsOf(c) = {}
    BY OpsApart
  <2>3. Avoids(u, SyncsOf(c)) /\ Avoids(z, SyncsOf(c))
    BY <1>2, <1>9, <2>2
  <2>4. Remains(v, y, 0, SyncsOf(c))
    BY <1>4, <2>1
  <2>5. Remains(uv, y, 0, SyncsOf(c))
    BY <1>2, <1>4, <1>6, <2>3, <2>4, RemainsConcat
  <2>6. Remains(w, y, 0, SyncsOf(c))
    BY <1>7, <2>3, <2>5, RemainsConcat
  <2> QED BY <2>1, <2>6
<1>13. Remains(w, z, 0, FmmuOps)
  <2>1. \A y : ListOps(y) \cap FmmuOps = {} /\ SyncsOf(y) \cap FmmuOps = {}
    BY OpsApart
  <2>2. Avoids(u, FmmuOps) /\ Avoids(v, FmmuOps)
    BY <1>2, <1>4, <2>1
  <2>3. Avoids(uv, FmmuOps)
    BY <1>2, <1>4, <1>6, <2>2, AvoidsConcat
  <2>4. Remains(z, z, 0, FmmuOps)
    BY RemainsAll
  <2> QED BY <1>7, <2>3, <2>4, RemainsConcat
<1> QED BY <1>5, <1>8, <1>11, <1>12, <1>13

-----------------------------------------------------------------------------
(* What each write changes                                                   *)

(* What the slave stores of each kind of write.                              *)
LEMMA PutIs ==
  ASSUME NEW S, NEW seq \in Seq(S), NEW v \in S, NEW i \in Nat, i > 0, i <= Len(seq) + 1
  PROVE  /\ Put(seq, i, v) \in Seq(S) /\ i <= Len(Put(seq, i, v)) /\ Put(seq, i, v)[i] = v
         /\ Len(seq) <= Len(Put(seq, i, v)) /\ Len(Put(seq, i, v)) \in Nat
         /\ \A k \in 1..Len(seq) : k # i => Put(seq, i, v)[k] = seq[k]
         /\ \A k \in 1..Len(Put(seq, i, v)) : k = i \/ k \in 1..Len(seq)
<1>1. PICK n \in Nat : n = Len(seq) /\ DOMAIN seq = 1..n
  BY LenProperties
<1>2. CASE i \in 1..n
  <2>1. PICK new : new = [seq EXCEPT ![i] = v]
    OBVIOUS
  <2>2. new \in [1..n -> S] /\ new[i] = v /\ \A k \in 1..n : k # i => new[k] = seq[k]
    <3>1. seq \in [1..n -> S]
      BY <1>1, LenProperties
    <3> QED BY <1>2, <2>1, <3>1
  <2>3. new \in Seq(S) /\ Len(new) = n
    BY <2>2, FunctionIsSeq
  <2>4. Put(seq, i, v) = new
    BY <1>1, <1>2, <2>1 DEF Put
  <2> QED BY <1>1, <1>2, <2>2, <2>3, <2>4
<1>3. CASE i \notin 1..n
  <2>1. i = n + 1
    BY <1>1, <1>3
  <2>2. PICK new \in Seq(S) : /\ new = Append(seq, v) /\ Len(new) = n + 1 /\ new[n + 1] = v
                              /\ \A k \in 1..n : new[k] = seq[k]
    <3>1. /\ Append(seq, v) \in Seq(S) /\ Len(Append(seq, v)) = n + 1 /\ Append(seq, v)[n + 1] = v
          /\ \A k \in 1..n : Append(seq, v)[k] = seq[k]
      BY <1>1, AppendIs
    <3> QED BY <3>1
  <2>3. Put(seq, i, v) = new
    BY <1>1, <1>3, <2>2 DEF Put
  <2> QED BY <1>1, <2>1, <2>2, <2>3
<1> QED BY <1>2, <1>3

ListType == [len : Nat, items : Seq(Pdos \cup Nat)]
SyncType == [enable : BOOLEAN, start : Nat, length : {0}] \cup Syncs

LEMMA SlaveIs ==
  ASSUME NEW mem \in SlaveType
  PROVE  /\ mem.list \in [Lists -> ListType] /\ mem.sync \in [Channels -> SyncType] /\ mem.fmmu \in Seq(Fmmu)
         /\ \A x \in Lists : mem.list[x] \in ListType
<1>1. PICK list \in [Lists -> ListType] : list = mem.list
  BY DEF SlaveType, SlaveLists, ListType
<1>2. mem.sync \in [Channels -> SyncType] /\ mem.fmmu \in Seq(Fmmu)
  BY DEF SlaveType, SyncType
<1> QED BY <1>1, <1>2

LEMMA LenAfter ==
  ASSUME NEW mem \in SlaveType, NEW l \in Lists, NEW w \in LenOps, w.list = l
  PROVE  /\ After(mem, w).sync = mem.sync /\ After(mem, w).fmmu = mem.fmmu
         /\ \A x \in Lists : x # l => After(mem, w).list[x] = mem.list[x]
         /\ After(mem, w).list[l].len = w.value /\ After(mem, w).list[l].items = mem.list[l].items
<1>1. PICK list \in [Lists -> ListType] : list = mem.list
  BY SlaveIs
<1>2. w.op = "len"
  BY DEF LenOps
<1>3. PICK v : v = w.value
  OBVIOUS
<1>4. PICK o \in ListType : o = list[l]
  OBVIOUS
<1>5. PICK e : e = [o EXCEPT !.len = v] /\ e.len = v /\ e.items = o.items
  <2>1. [o EXCEPT !.len = v].len = v /\ [o EXCEPT !.len = v].items = o.items
    BY DEF ListType
  <2> QED BY <2>1
<1>6. PICK new : new = [list EXCEPT ![l] = e] /\ new[l] = e /\ \A x \in Lists : x # l => new[x] = list[x]
  <2>1. [list EXCEPT ![l] = e][l] = e /\ \A x \in Lists : x # l => [list EXCEPT ![l] = e][x] = list[x]
    OBVIOUS
  <2> QED BY <2>1
<1>7. PICK after : after = [mem EXCEPT !.list = new] /\ after.list = new /\ after.sync = mem.sync /\ after.fmmu = mem.fmmu
  <2>1. /\ [mem EXCEPT !.list = new].list = new /\ [mem EXCEPT !.list = new].sync = mem.sync
        /\ [mem EXCEPT !.list = new].fmmu = mem.fmmu
    BY DEF SlaveType
  <2> QED BY <2>1
<1>8. After(mem, w) = after
  BY <1>1, <1>2, <1>3, <1>4, <1>5, <1>6, <1>7 DEF After
<1> QED BY <1>1, <1>3, <1>4, <1>5, <1>6, <1>7, <1>8

LEMMA ItemAfter ==
  ASSUME NEW mem \in SlaveType, NEW l \in Lists, NEW w \in ItemOps, w.list = l
  PROVE  /\ After(mem, w).sync = mem.sync /\ After(mem, w).fmmu = mem.fmmu
         /\ \A x \in Lists : x # l => After(mem, w).list[x] = mem.list[x]
         /\ After(mem, w).list[l].len = mem.list[l].len
         /\ After(mem, w).list[l].items = Put(mem.list[l].items, w.index, w.value)
<1>1. PICK list \in [Lists -> ListType] : list = mem.list
  BY SlaveIs
<1>2. w.op = "item"
  BY DEF ItemOps
<1>3. PICK v, i : v = w.value /\ i = w.index
  OBVIOUS
<1>4. PICK o \in ListType : o = list[l]
  OBVIOUS
<1>a. PICK items : items = Put(o.items, i, v)
  OBVIOUS
<1>5. PICK e : e = [o EXCEPT !.items = items] /\ e.len = o.len /\ e.items = items
  <2>1. [o EXCEPT !.items = items].len = o.len /\ [o EXCEPT !.items = items].items = items
    BY DEF ListType
  <2> QED BY <2>1
<1>6. PICK new : new = [list EXCEPT ![l] = e] /\ new[l] = e /\ \A x \in Lists : x # l => new[x] = list[x]
  <2>1. [list EXCEPT ![l] = e][l] = e /\ \A x \in Lists : x # l => [list EXCEPT ![l] = e][x] = list[x]
    OBVIOUS
  <2> QED BY <2>1
<1>7. PICK after : after = [mem EXCEPT !.list = new] /\ after.list = new /\ after.sync = mem.sync /\ after.fmmu = mem.fmmu
  <2>1. /\ [mem EXCEPT !.list = new].list = new /\ [mem EXCEPT !.list = new].sync = mem.sync
        /\ [mem EXCEPT !.list = new].fmmu = mem.fmmu
    BY DEF SlaveType
  <2> QED BY <2>1
<1>8. After(mem, w) = after
  BY <1>1, <1>2, <1>3, <1>4, <1>a, <1>5, <1>6, <1>7 DEF After
<1> QED BY <1>1, <1>3, <1>4, <1>a, <1>5, <1>6, <1>7, <1>8

LEMMA CheckAfter ==
  ASSUME NEW mem, NEW w \in CheckOps
  PROVE  After(mem, w) = mem
<1>1. w.op = "check"
  BY DEF CheckOps
<1> QED BY <1>1 DEF After

LEMMA SyncAfter ==
  ASSUME NEW mem \in SlaveType, NEW c \in Channels, NEW w \in SyncOps, w.list = c
  PROVE  /\ After(mem, w).list = mem.list /\ After(mem, w).fmmu = mem.fmmu
         /\ \A d \in Channels : d # c => After(mem, w).sync[d] = mem.sync[d]
         /\ After(mem, w).sync[c] = w.value
<1>1. PICK sync \in [Channels -> SyncType] : sync = mem.sync
  BY SlaveIs
<1>2. w.op = "sync"
  BY DEF SyncOps
<1>3. PICK v : v = w.value
  OBVIOUS
<1>6. PICK new : new = [sync EXCEPT ![c] = v] /\ new[c] = v /\ \A x \in Channels : x # c => new[x] = sync[x]
  <2>1. [sync EXCEPT ![c] = v][c] = v /\ \A x \in Channels : x # c => [sync EXCEPT ![c] = v][x] = sync[x]
    OBVIOUS
  <2> QED BY <2>1
<1>7. PICK after : after = [mem EXCEPT !.sync = new] /\ after.sync = new /\ after.list = mem.list /\ after.fmmu = mem.fmmu
  <2>1. /\ [mem EXCEPT !.sync = new].sync = new /\ [mem EXCEPT !.sync = new].list = mem.list
        /\ [mem EXCEPT !.sync = new].fmmu = mem.fmmu
    BY DEF SlaveType
  <2> QED BY <2>1
<1>8. After(mem, w) = after
  BY <1>1, <1>2, <1>3, <1>6, <1>7 DEF After
<1> QED BY <1>1, <1>3, <1>6, <1>7, <1>8

LEMMA FmmuAfter ==
  ASSUME NEW mem \in SlaveType, NEW w \in FmmuOps
  PROVE  /\ After(mem, w).list = mem.list /\ After(mem, w).sync = mem.sync
         /\ After(mem, w).fmmu = Put(mem.fmmu, w.index, w.value)
<1>1. PICK fmmu \in Seq(Fmmu) : fmmu = mem.fmmu
  BY SlaveIs
<1>2. w.op = "fmmu"
  BY DEF FmmuOps
<1>3. PICK v, i : v = w.value /\ i = w.index
  OBVIOUS
<1>6. PICK new : new = Put(fmmu, i, v)
  OBVIOUS
<1>7. PICK after : after = [mem EXCEPT !.fmmu = new] /\ after.fmmu = new /\ after.list = mem.list /\ after.sync = mem.sync
  <2>1. /\ [mem EXCEPT !.fmmu = new].fmmu = new /\ [mem EXCEPT !.fmmu = new].list = mem.list
        /\ [mem EXCEPT !.fmmu = new].sync = mem.sync
    BY DEF SlaveType
  <2> QED BY <2>1
<1>8. After(mem, w) = after
  BY <1>1, <1>2, <1>3, <1>6, <1>7 DEF After
<1> QED BY <1>1, <1>3, <1>6, <1>7, <1>8

(* A write to a list leaves the others alone, and so on.                     *)
LEMMA AfterElse ==
  ASSUME NEW mem \in SlaveType, NEW w \in Ops
  PROVE  /\ \A x \in Lists : w \notin ListOps(x) => After(mem, w).list[x] = mem.list[x]
         /\ \A c \in Channels : w \notin SyncsOf(c) => After(mem, w).sync[c] = mem.sync[c]
         /\ w \notin FmmuOps => After(mem, w).fmmu = mem.fmmu
<1>1. CASE w \in LenOps
  <2>1. PICK l \in Lists : l = w.list /\ w.op = "len"
    BY <1>1 DEF LenOps
  <2>2. w \in ListOps(l)
    BY <2>1 DEF ListOps
  <2> QED BY <1>1, <2>1, <2>2, LenAfter
<1>2. CASE w \in ItemOps
  <2>1. PICK l \in Lists : l = w.list /\ w.op = "item"
    BY <1>2 DEF ItemOps
  <2>2. w \in ListOps(l)
    BY <2>1 DEF ListOps
  <2> QED BY <1>2, <2>1, <2>2, ItemAfter
<1>3. CASE w \in CheckOps
  BY <1>3, CheckAfter
<1>4. CASE w \in SyncOps
  <2>1. PICK c \in Channels : c = w.list /\ w.op = "sync"
    BY <1>4 DEF SyncOps
  <2>2. w \in SyncsOf(c)
    BY <2>1 DEF SyncsOf
  <2> QED BY <1>4, <2>1, <2>2, SyncAfter
<1>5. CASE w \in FmmuOps
  BY <1>5, FmmuAfter
<1> QED BY <1>1, <1>2, <1>3, <1>4, <1>5 DEF Ops

-----------------------------------------------------------------------------
(* What a slave has while it is configured                                   *)

(* The list of a slave, when d of the writes that set it to `items` are done. *)
ListStage(list, items, d) ==
  /\ \A i \in 1..Len(items) : i < d => i <= Len(list.items) /\ list.items[i] = items[i]
  /\ 1 <= d /\ d <= Len(items) + 1 => list.len = 0
  /\ d = Len(items) + 2 => list.len = Len(items)
(* The list of a fixed PDO, when d of its entries are checked.               *)
CheckStage(list, items, d) ==
  \A i \in 1..Len(items) : i <= d => i <= list.len /\ list.items[i] = items[i]

(* The slave does the next write of a list.                                  *)
LEMMA ListAdvances ==
  ASSUME NEW mem \in SlaveType, NEW x \in Lists, NEW items \in Seq(Pdos \cup SdoBits),
         NEW d \in Nat, d + 1 <= Len(items) + 2, NEW w, w = ListWrites(x, items)[d + 1],
         ListStage(mem.list[x], items, d)
  PROVE  ListStage(After(mem, w).list[x], items, d + 1)
<1>1. PICK n \in Nat : n = Len(items) /\ DOMAIN items = 1..n
  BY LenProperties
<1>2. PICK list \in ListType : list = mem.list[x]
  BY SlaveIs
<1>3. PICK old \in Seq(Pdos \cup Nat), len \in Nat : old = list.items /\ len = list.len
  BY DEF ListType
<1>4. /\ \A i \in 1..n : i < d => i <= Len(old) /\ old[i] = items[i]
      /\ 1 <= d /\ d <= n + 1 => len = 0
  BY <1>1, <1>2, <1>3 DEF ListStage
<1>5. PICK after : after = After(mem, w).list[x]
  OBVIOUS
<1>6. CASE d = 0
  <2>1. w = Len0(x)
    BY <1>1, <1>6, ListIs
  <2>2. w \in LenOps /\ w.list = x /\ w.value = 0
    BY <2>1 DEF Len0, LenOps
  <2>3. after.len = 0 /\ after.items = old
    BY <1>2, <1>3, <1>5, <2>2, LenAfter
  <2> QED BY <1>1, <1>5, <1>6, <2>3 DEF ListStage
<1>7. CASE d \in 1..n
  <2>1. PICK v \in Pdos \cup SdoBits : v = items[d]
    BY <1>1, <1>7, ElementOfSeq
  <2>2. w = Item(x, d, v)
    BY <1>1, <1>7, <2>1, ListIs
  <2>3. w \in ItemOps /\ w.list = x /\ w.index = d /\ w.value = v
    BY <2>2 DEF Item, ItemOps
  <2>4. after.len = len /\ after.items = Put(old, d, v)
    BY <1>2, <1>3, <1>5, <2>3, ItemAfter
  <2>5. Len(old) \in Nat /\ d <= Len(old) + 1 /\ d > 0
    <3>1. Len(old) \in Nat
      BY LenProperties
    <3>2. d # 1 => d - 1 \in 1..n /\ d - 1 < d
      BY <1>7
    <3>3. d # 1 => d - 1 <= Len(old)
      BY <1>4, <3>2
    <3> QED BY <1>7, <3>1, <3>3
  <2>6. v \in Pdos \cup Nat
    BY ConstantsAssumption
  <2>7. PICK new \in Seq(Pdos \cup Nat) :
          /\ new = Put(old, d, v) /\ d <= Len(new) /\ new[d] = v /\ Len(old) <= Len(new) /\ Len(new) \in Nat
          /\ \A k \in 1..Len(old) : k # d => new[k] = old[k]
    <3>1. /\ Put(old, d, v) \in Seq(Pdos \cup Nat) /\ d <= Len(Put(old, d, v)) /\ Put(old, d, v)[d] = v
          /\ Len(old) <= Len(Put(old, d, v)) /\ Len(Put(old, d, v)) \in Nat
          /\ \A k \in 1..Len(old) : k # d => Put(old, d, v)[k] = old[k]
      <4>1. PICK S : S = Pdos \cup Nat
        OBVIOUS
      <4>2. old \in Seq(S) /\ v \in S
        BY <2>6, <4>1
      <4>3. d \in Nat
        BY <1>7
      <4>4. /\ Put(old, d, v) \in Seq(S) /\ d <= Len(Put(old, d, v)) /\ Put(old, d, v)[d] = v
            /\ Len(old) <= Len(Put(old, d, v)) /\ Len(Put(old, d, v)) \in Nat
            /\ \A k \in 1..Len(old) : k # d => Put(old, d, v)[k] = old[k]
        BY <2>5, <4>2, <4>3, PutIs
      <4> QED BY <4>1, <4>4
    <3> QED BY <3>1
  <2>8. ASSUME NEW i \in 1..n, i < d + 1 PROVE i <= Len(new) /\ new[i] = items[i]
    <3>1. CASE i = d
      BY <2>1, <2>7, <3>1
    <3>2. CASE i # d
      <4>1. i < d
        BY <2>8, <3>2
      <4>2. i <= Len(old) /\ old[i] = items[i]
        BY <1>4, <4>1
      <4>3. i \in 1..Len(old) /\ i <= Len(new)
        BY <2>5, <2>7, <4>2
      <4> QED BY <2>7, <3>2, <4>2, <4>3
    <3> QED BY <3>1, <3>2
  <2>9. after.len = 0
    <3>1. 1 <= d /\ d <= n + 1
      BY <1>7
    <3> QED BY <1>4, <2>4, <3>1
  <2>10. d + 1 # n + 2
    BY <1>7
  <2> QED BY <1>1, <1>5, <2>4, <2>7, <2>8, <2>9, <2>10 DEF ListStage
<1>8. CASE d = n + 1
  <2>1. w = LenIs(x, n)
    <3>1. d + 1 = n + 2
      BY <1>8
    <3> QED BY <1>1, <3>1, ListIs
  <2>2. w \in LenOps /\ w.list = x /\ w.value = n
    BY <2>1 DEF LenIs, LenOps
  <2>3. after.len = n /\ after.items = old
    BY <1>2, <1>3, <1>5, <2>2, LenAfter
  <2>4. \A i \in 1..n : i < d
    BY <1>8
  <2>5. d + 1 = n + 2 /\ ~(d + 1 <= n + 1)
    BY <1>8
  <2> QED BY <1>1, <1>4, <1>5, <2>3, <2>4, <2>5 DEF ListStage
<1>9. d = 0 \/ d \in 1..n \/ d = n + 1
  BY <1>1
<1> QED BY <1>6, <1>7, <1>8, <1>9

LEMMA CheckAdvances ==
  ASSUME NEW mem \in SlaveType, NEW x \in Lists, NEW items \in Seq(SdoBits),
         NEW d \in Nat, d + 1 <= Len(items), NEW w, w = Check(x, d + 1, items[d + 1]), w \in Ops,
         Accepts(mem, w), CheckStage(mem.list[x], items, d)
  PROVE  CheckStage(After(mem, w).list[x], items, d + 1)
<1>1. w.op = "check" /\ w.list = x /\ w.index = d + 1 /\ w.value = items[d + 1]
  BY DEF Check
<1>2. d + 1 <= mem.list[x].len /\ mem.list[x].items[d + 1] = items[d + 1]
  BY <1>1 DEF Accepts
<1>3. After(mem, w) = mem
  BY <1>1 DEF After
<1>4. \A i \in 1..Len(items) : i <= d + 1 => i = d + 1 \/ i <= d
  OBVIOUS
<1> QED BY <1>2, <1>3, <1>4 DEF CheckStage

(* The list, when d of what `configure` has for it is done.                  *)
Stage(held, list, x, d) ==
  /\ x \in DOMAIN held.pdos /\ x \notin Fixed => ListStage(list, held.pdos[x], d)
  /\ x \in DOMAIN held.pdos /\ x \in Fixed => CheckStage(list, held.pdos[x], d)
  /\ x \in DOMAIN held.channels => ListStage(list, held.channels[x].pdos, d)

ListsLeft(held, mem, w) ==
  \A x \in Lists : \E d \in Nat : Remains(w, ListPlan(held, x), d, ListOps(x)) /\ Stage(held, mem.list[x], x, d)
SyncsLeft(held, mem, w) ==
  \A c \in DOMAIN held.channels : \E d \in Nat :
    /\ Remains(w, <<SyncWrite(c, SyncOf(held, c))>>, d, SyncsOf(c))
    /\ d = 1 => mem.sync[c] = SyncOf(held, c)
FmmuLeft(held, base, mem, w) ==
  \E d \in Nat :
    /\ Remains(w, FmmuWrites(held, base), d, FmmuOps)
    /\ \A i \in 1..Len(LaidAt(held, base)) : i <= d => i <= Len(mem.fmmu) /\ mem.fmmu[i] = LaidAt(held, base)[i]

(* The lists that no write changes.                                          *)
Factories(mem) == \A p \in Fixed : mem.list[p].len = Len(Factory[p]) /\ mem.list[p].items = Factory[p]

(* When w is done, the slave has what the ConfigSlave says.                  *)
Leftover(held, base, mem, w) ==
  /\ w \in Seq(Ops)
  /\ ListsLeft(held, mem, w) /\ SyncsLeft(held, mem, w) /\ FmmuLeft(held, base, mem, w)

(* What `configure` has for a list is a sequence of writes to that list.     *)
LEMMA PlanIs ==
  ASSUME NEW held \in HeldType, NEW x \in Lists
  PROVE  ListPlan(held, x) \in Seq(Ops)
<1>1. x \in DOMAIN held.pdos => PdoWrites(held, x) \in Seq(Ops)
  BY PdoWritten
<1>2. x \in DOMAIN held.channels => ListWrites(x, held.channels[x].pdos) \in Seq(Ops)
  <2> SUFFICES ASSUME x \in DOMAIN held.channels PROVE ListWrites(x, held.channels[x].pdos) \in Seq(Ops)
    OBVIOUS
  <2>1. PICK list, sync \in Seq(Ops) : list = ListWrites(x, held.channels[x].pdos)
    BY ChannelWritten
  <2> QED BY <2>1
<1>3. <<>> \in Seq(Ops)
  OBVIOUS
<1> QED BY <1>1, <1>2, <1>3 DEF ListPlan

(* `Group::configure` has everything to write.                               *)
LEMMA LeftoverStart ==
  ASSUME NEW held \in HeldType, NEW base \in Nat,
         NEW pdos \in SetToSeqs(DOMAIN held.pdos), NEW channels \in SetToSeqs(DOMAIN held.channels),
         NEW w, w = Writes(held, base, pdos, channels), NEW mem
  PROVE  Leftover(held, base, mem, w)
<1>1. /\ w \in Seq(Ops)
      /\ \A x \in Lists : Remains(w, ListPlan(held, x), 0, ListOps(x))
      /\ \A c \in DOMAIN held.channels : Remains(w, <<SyncWrite(c, SyncOf(held, c))>>, 0, SyncsOf(c))
      /\ Remains(w, FmmuWrites(held, base), 0, FmmuOps)
  BY WritesRemain
<1>2. \A list, items : Len(items) \in Nat => ListStage(list, items, 0) /\ CheckStage(list, items, 0)
  <2> SUFFICES ASSUME NEW list, NEW items, Len(items) \in Nat
               PROVE  ListStage(list, items, 0) /\ CheckStage(list, items, 0)
    OBVIOUS
  <2>1. \A i \in 1..Len(items) : ~(i < 0) /\ ~(i <= 0)
    OBVIOUS
  <2>2. ~(1 <= 0) /\ 0 # Len(items) + 2
    OBVIOUS
  <2> QED BY <2>1, <2>2 DEF ListStage, CheckStage
<1>3. /\ \A p \in DOMAIN held.pdos : Len(held.pdos[p]) \in Nat
      /\ \A c \in DOMAIN held.channels : Len(held.channels[c].pdos) \in Nat
  <2>1. PICK entries \in PdoLists, rows \in RowsType :
          /\ entries = held.pdos /\ DOMAIN rows = DOMAIN held.channels
          /\ \A c \in DOMAIN held.channels : rows[c] = held.channels[c].pdos
    BY RowsIs
  <2> QED BY <2>1, PdoIs, RowIs
<1>4. ListsLeft(held, mem, w)
  <2>1. \A x \in Lists : Stage(held, mem.list[x], x, 0)
    BY <1>2, <1>3 DEF Stage
  <2> QED BY <1>1, <2>1 DEF ListsLeft
<1>5. SyncsLeft(held, mem, w)
  <2> SUFFICES ASSUME NEW c \in DOMAIN held.channels
               PROVE  \E d \in Nat : /\ Remains(w, <<SyncWrite(c, SyncOf(held, c))>>, d, SyncsOf(c))
                                     /\ d = 1 => mem.sync[c] = SyncOf(held, c)
    BY DEF SyncsLeft
  <2>1. PICK v : v = SyncOf(held, c)
    OBVIOUS
  <2>2. Remains(w, <<SyncWrite(c, v)>>, 0, SyncsOf(c)) /\ 0 # 1 /\ 0 \in Nat
    BY <1>1, <2>1
  <2> QED BY <2>1, <2>2, Zenon
<1>6. FmmuLeft(held, base, mem, w)
  <2>1. \A i \in 1..Len(LaidAt(held, base)) : ~(i <= 0)
    OBVIOUS
  <2> QED BY <1>1, <2>1 DEF FmmuLeft
<1> QED BY <1>1, <1>4, <1>5, <1>6 DEF Leftover

LEMMA HeldLists ==
  ASSUME NEW held \in HeldType
  PROVE  /\ \A p \in DOMAIN held.pdos : /\ p \in Pdos /\ held.pdos[p] \in Seq(SdoBits)
                                        /\ held.pdos[p] \in Seq(Pdos \cup SdoBits)
         /\ \A c \in DOMAIN held.channels : /\ c \in Channels /\ held.channels[c].pdos \in Seq(Pdos)
                                            /\ held.channels[c].pdos \in Seq(Pdos \cup SdoBits)
<1>1. PICK entries \in PdoLists, rows \in RowsType :
        /\ entries = held.pdos /\ DOMAIN rows = DOMAIN held.channels
        /\ \A c \in DOMAIN held.channels : rows[c] = held.channels[c].pdos
  BY RowsIs
<1>2. \A p \in DOMAIN entries : p \in Pdos /\ entries[p] \in Seq(SdoBits)
  BY PdoIs
<1>3. \A c \in DOMAIN rows : c \in Channels /\ rows[c] \in Seq(Pdos)
  BY RowIs
<1>4. \A items \in Seq(SdoBits) : items \in Seq(Pdos \cup SdoBits)
  BY SeqMonotonic
<1>5. \A items \in Seq(Pdos) : items \in Seq(Pdos \cup SdoBits)
  BY SeqMonotonic
<1> QED BY <1>1, <1>2, <1>3, <1>4, <1>5

(* A write to a list is the next of what the ConfigSlave has for it.         *)
LEMMA ListsStep ==
  ASSUME NEW held \in HeldType, NEW mem \in SlaveType, NEW w \in Seq(Ops), w # <<>>,
         ListsLeft(held, mem, w), Accepts(mem, Head(w)),
         NEW x \in Lists
  PROVE  /\ \E d \in Nat : /\ Remains(Tail(w), ListPlan(held, x), d, ListOps(x))
                           /\ Stage(held, After(mem, Head(w)).list[x], x, d)
         /\ x \in Fixed => After(mem, Head(w)).list[x] = mem.list[x]
<1>1. PICK d \in Nat : Remains(w, ListPlan(held, x), d, ListOps(x)) /\ Stage(held, mem.list[x], x, d)
  BY DEF ListsLeft
<1>2. PICK y \in Seq(Ops) : y = ListPlan(held, x)
  BY PlanIs
<1>3. PICK o \in Ops, t \in Seq(Ops) : o = Head(w) /\ t = Tail(w)
  BY TailIs
<1>4. \/ o \notin ListOps(x) /\ Remains(t, y, d, ListOps(x))
      \/ d + 1 \in 1..Len(y) /\ o = y[d + 1] /\ Remains(t, y, d + 1, ListOps(x))
  BY <1>1, <1>2, <1>3, RemainsTail
<1>5. PICK after : after = After(mem, o)
  OBVIOUS
<1>6. CASE o \notin ListOps(x) /\ Remains(t, y, d, ListOps(x))
  <2>1. after.list[x] = mem.list[x]
    BY <1>5, <1>6, AfterElse
  <2> QED BY <1>1, <1>2, <1>3, <1>5, <1>6, <2>1
<1>7. CASE d + 1 \in 1..Len(y) /\ o = y[d + 1] /\ Remains(t, y, d + 1, ListOps(x))
  <2>1. CASE x \in DOMAIN held.pdos /\ x \notin Fixed
    <3>1. PICK items \in Seq(Pdos \cup SdoBits) : items = held.pdos[x]
      BY <2>1, HeldLists
    <3>2. y = ListWrites(x, items)
      BY <1>2, <2>1, <3>1 DEF ListPlan, PdoWrites
    <3>3. Len(items) \in Nat /\ Len(y) = Len(items) + 2
      BY <3>2, ListIs, LenProperties
    <3>4. d + 1 <= Len(items) + 2 /\ o = ListWrites(x, items)[d + 1]
      BY <1>7, <3>2, <3>3
    <3>5. ListStage(mem.list[x], items, d)
      BY <1>1, <2>1, <3>1 DEF Stage
    <3>6. ListStage(after.list[x], items, d + 1)
      BY <1>5, <3>4, <3>5, ListAdvances
    <3>7. x \notin DOMAIN held.channels
      BY <2>1, HeldLists, ListsApart
    <3>8. Stage(held, after.list[x], x, d + 1)
      BY <2>1, <3>1, <3>6, <3>7 DEF Stage
    <3> QED BY <1>2, <1>3, <1>5, <1>7, <2>1, <3>8
  <2>2. CASE x \in DOMAIN held.pdos /\ x \in Fixed
    <3>1. PICK items \in Seq(SdoBits) : items = held.pdos[x]
      BY <2>2, HeldLists
    <3>2. y = PdoWrites(held, x)
      BY <1>2, <2>2 DEF ListPlan
    <3>3. Len(y) = Len(items) /\ \A i \in 1..Len(items) : y[i] = Check(x, i, items[i])
      BY <2>2, <3>1, <3>2, PdoWritten
    <3>4. d + 1 <= Len(items) /\ o = Check(x, d + 1, items[d + 1])
      BY <1>7, <3>3
    <3>5. CheckStage(mem.list[x], items, d)
      BY <1>1, <2>2, <3>1 DEF Stage
    <3>6. CheckStage(after.list[x], items, d + 1)
      BY <1>3, <1>5, <3>4, <3>5, CheckAdvances
    <3>7. x \notin DOMAIN held.channels
      BY <2>2, HeldLists, ListsApart
    <3>8. Stage(held, after.list[x], x, d + 1)
      BY <2>2, <3>1, <3>6, <3>7 DEF Stage
    <3>9. after = mem
      <4>1. o.op = "check"
        BY <3>4 DEF Check
      <4> QED BY <1>5, <4>1 DEF After
    <3> QED BY <1>2, <1>3, <1>5, <1>7, <3>8, <3>9
  <2>3. CASE x \in DOMAIN held.channels
    <3>1. PICK items \in Seq(Pdos \cup SdoBits) : items = held.channels[x].pdos
      BY <2>3, HeldLists
    <3>2. x \notin DOMAIN held.pdos /\ x \notin Fixed
      BY <2>3, HeldLists, ConstantsAssumption
    <3>3. y = ListWrites(x, items)
      BY <1>2, <2>3, <3>1, <3>2 DEF ListPlan
    <3>4. Len(items) \in Nat /\ Len(y) = Len(items) + 2
      BY <3>3, ListIs, LenProperties
    <3>5. d + 1 <= Len(items) + 2 /\ o = ListWrites(x, items)[d + 1]
      BY <1>7, <3>3, <3>4
    <3>6. ListStage(mem.list[x], items, d)
      BY <1>1, <2>3, <3>1 DEF Stage
    <3>7. ListStage(after.list[x], items, d + 1)
      BY <1>5, <3>5, <3>6, ListAdvances
    <3>8. Stage(held, after.list[x], x, d + 1)
      BY <2>3, <3>1, <3>2, <3>7 DEF Stage
    <3> QED BY <1>2, <1>3, <1>5, <1>7, <3>2, <3>8
  <2>4. CASE x \notin DOMAIN held.pdos /\ x \notin DOMAIN held.channels
    <3>1. y = <<>>
      BY <1>2, <2>4 DEF ListPlan
    <3>2. Len(y) = 0
      BY <3>1, EmptySeq
    <3> QED BY <1>7, <3>2
  <2> QED BY <2>1, <2>2, <2>3, <2>4
<1> QED BY <1>4, <1>6, <1>7

(* The slave does the next write of what is left.                            *)
LEMMA LeftoverStep ==
  ASSUME NEW held \in HeldType, NEW base \in Nat, NEW mem \in SlaveType, NEW w \in Seq(Ops), w # <<>>,
         Leftover(held, base, mem, w), Accepts(mem, Head(w))
  PROVE  Leftover(held, base, After(mem, Head(w)), Tail(w))
<1>1. PICK o \in Ops, t \in Seq(Ops) : o = Head(w) /\ t = Tail(w)
  BY TailIs
<1>2. PICK after : after = After(mem, o)
  OBVIOUS
<1>3. ListsLeft(held, after, t)
  BY <1>1, <1>2, ListsStep DEF Leftover, ListsLeft
<1>4. SyncsLeft(held, after, t)
  <2> SUFFICES ASSUME NEW c \in DOMAIN held.channels
               PROVE  \E d \in Nat : /\ Remains(t, <<SyncWrite(c, SyncOf(held, c))>>, d, SyncsOf(c))
                                     /\ d = 1 => after.sync[c] = SyncOf(held, c)
    BY DEF SyncsLeft
  <2>1. PICK v : v = SyncOf(held, c)
    OBVIOUS
  <2>2. PICK x \in Seq(Ops) : x = <<SyncWrite(c, v)>> /\ Len(x) = 1 /\ x[1] = SyncWrite(c, v) /\ x[1] \in SyncsOf(c)
    <3>1. PICK list, x \in Seq(Ops) :
           /\ x = <<SyncWrite(c, SyncOf(held, c))>> /\ Len(x) = 1
           /\ x[1] = SyncWrite(c, SyncOf(held, c)) /\ \A r \in 1..Len(x) : x[r] \in SyncsOf(c)
      BY ChannelWritten
    <3>2. 1 \in 1..Len(x)
      BY <3>1
    <3> QED BY <2>1, <3>1, <3>2
  <2>3. PICK d \in Nat : Remains(w, x, d, SyncsOf(c)) /\ (d = 1 => mem.sync[c] = v)
    <3>1. \E d \in Nat : /\ Remains(w, <<SyncWrite(c, SyncOf(held, c))>>, d, SyncsOf(c))
                         /\ d = 1 => mem.sync[c] = SyncOf(held, c)
      BY DEF Leftover, SyncsLeft
    <3> QED BY <2>1, <2>2, <3>1
  <2>4. \/ o \notin SyncsOf(c) /\ Remains(t, x, d, SyncsOf(c))
        \/ d + 1 \in 1..Len(x) /\ o = x[d + 1] /\ Remains(t, x, d + 1, SyncsOf(c))
    BY <1>1, <2>3, RemainsTail
  <2>5. c \in Channels
    BY HeldLists
  <2>6. CASE o \notin SyncsOf(c) /\ Remains(t, x, d, SyncsOf(c))
    <3>1. after.sync[c] = mem.sync[c]
      BY <1>2, <2>5, <2>6, AfterElse
    <3> QED BY <2>1, <2>2, <2>3, <2>6, <3>1
  <2>7. CASE d + 1 \in 1..Len(x) /\ o = x[d + 1] /\ Remains(t, x, d + 1, SyncsOf(c))
    <3>1. d + 1 = 1
      BY <2>2, <2>7
    <3>2. o \in SyncsOf(c) /\ o = SyncWrite(c, v)
      BY <2>2, <2>7, <3>1
    <3>3. o \in SyncOps /\ o.list = c /\ o.value = v
      <4>1. o.op = "sync"
        BY <3>2 DEF SyncWrite
      <4>2. o \in SyncOps
        BY <4>1 DEF Ops, LenOps, ItemOps, CheckOps, FmmuOps
      <4> QED BY <3>2, <4>2 DEF SyncWrite
    <3>4. after.sync[c] = v
      BY <1>2, <2>5, <3>3, SyncAfter
    <3> QED BY <2>1, <2>2, <2>7, <3>1, <3>4
  <2> QED BY <2>4, <2>6, <2>7
<1>5. FmmuLeft(held, base, after, t)
  <2>1. PICK laid \in Seq(Fmmu) : laid = LaidAt(held, base)
    BY LaidAtIs
  <2>2. PICK x \in Seq(Ops) : /\ x = FmmuWrites(held, base) /\ Len(x) = Len(laid)
                              /\ \A i \in 1..Len(laid) : x[i] = FmmuWrite(i, laid[i]) /\ x[i] \in FmmuOps
    BY <2>1, FmmuWritten
  <2>3. PICK d \in Nat : /\ Remains(w, x, d, FmmuOps)
                         /\ \A i \in 1..Len(laid) : i <= d => i <= Len(mem.fmmu) /\ mem.fmmu[i] = laid[i]
    BY <2>1, <2>2 DEF Leftover, FmmuLeft
  <2>4. \/ o \notin FmmuOps /\ Remains(t, x, d, FmmuOps)
        \/ d + 1 \in 1..Len(x) /\ o = x[d + 1] /\ Remains(t, x, d + 1, FmmuOps)
    BY <1>1, <2>3, RemainsTail
  <2>5. CASE o \notin FmmuOps /\ Remains(t, x, d, FmmuOps)
    <3>1. after.fmmu = mem.fmmu
      BY <1>2, <2>5, AfterElse
    <3> QED BY <2>1, <2>2, <2>3, <2>5, <3>1 DEF FmmuLeft
  <2>6. CASE d + 1 \in 1..Len(x) /\ o = x[d + 1] /\ Remains(t, x, d + 1, FmmuOps)
    <3>1. PICK e \in Fmmu : e = laid[d + 1]
      BY <2>2, <2>6, ElementOfSeq
    <3>2. o = FmmuWrite(d + 1, e) /\ o \in FmmuOps
      BY <2>2, <2>6, <3>1
    <3>3. o.index = d + 1 /\ o.value = e
      BY <3>2 DEF FmmuWrite
    <3>4. PICK old \in Seq(Fmmu) : old = mem.fmmu
      BY SlaveIs
    <3>5. after.fmmu = Put(old, d + 1, e)
      BY <1>2, <3>2, <3>3, <3>4, FmmuAfter
    <3>6. Len(laid) \in Nat /\ Len(old) \in Nat
      BY LenProperties
    <3>7. d + 1 <= Len(old) + 1
      <4>1. d # 0 => d \in 1..Len(laid) /\ d <= d
        BY <2>2, <2>6, <3>6
      <4>2. d # 0 => d <= Len(old)
        BY <2>3, <3>4, <4>1
      <4> QED BY <3>6, <4>2
    <3>8. /\ d + 1 <= Len(Put(old, d + 1, e)) /\ Put(old, d + 1, e)[d + 1] = e
          /\ Len(old) <= Len(Put(old, d + 1, e)) /\ Len(Put(old, d + 1, e)) \in Nat
          /\ \A k \in 1..Len(old) : k # d + 1 => Put(old, d + 1, e)[k] = old[k]
      <4>1. PICK j \in Nat : j = d + 1 /\ j > 0 /\ j <= Len(old) + 1
        BY <3>7
      <4>2. PICK new : new = Put(old, j, e)
        OBVIOUS
      <4>3. /\ j <= Len(new) /\ new[j] = e /\ Len(old) <= Len(new) /\ Len(new) \in Nat
            /\ \A k \in 1..Len(old) : k # j => new[k] = old[k]
        BY <4>1, <4>2, PutIs
      <4> QED BY <4>1, <4>2, <4>3
    <3>9. ASSUME NEW i \in 1..Len(laid), i <= d + 1
          PROVE  i <= Len(Put(old, d + 1, e)) /\ Put(old, d + 1, e)[i] = laid[i]
      <4>1. CASE i = d + 1
        BY <3>1, <3>8, <4>1
      <4>2. CASE i # d + 1
        <5>1. i <= d
          BY <3>9, <4>2
        <5>2. i <= Len(old) /\ old[i] = laid[i]
          BY <2>3, <3>4, <5>1
        <5>3. i \in 1..Len(old) /\ i <= Len(Put(old, d + 1, e))
          BY <3>6, <3>8, <5>2
        <5> QED BY <3>8, <4>2, <5>2, <5>3
      <4> QED BY <4>1, <4>2
    <3>10. d + 1 \in Nat
      OBVIOUS
    <3> QED BY <2>1, <2>2, <2>6, <3>5, <3>9, <3>10 DEF FmmuLeft
  <2> QED BY <2>4, <2>5, <2>6
<1> QED BY <1>1, <1>2, <1>3, <1>4, <1>5 DEF Leftover

LEMMA FactoriesStep ==
  ASSUME NEW held \in HeldType, NEW base \in Nat, NEW mem \in SlaveType, NEW w \in Seq(Ops), w # <<>>,
         Leftover(held, base, mem, w), Accepts(mem, Head(w)), Factories(mem)
  PROVE  Factories(After(mem, Head(w)))
<1>1. ASSUME NEW p \in Fixed PROVE After(mem, Head(w)).list[p] = mem.list[p]
  <2>1. p \in Lists
    BY ConstantsAssumption DEF Lists
  <2>2. ListsLeft(held, mem, w)
    BY DEF Leftover
  <2> QED BY <2>1, <2>2, ListsStep
<1> QED BY <1>1 DEF Factories

-----------------------------------------------------------------------------
(* The memory of the slaves                                                  *)

(* The slave has, or has left to write, what the group says.                 *)
Ready(g, s, mem, w) == s \in DOMAIN g.config /\ Leftover(g.config[s], g.offset, mem, w)

(* A slave that a group configured, or that it configures, has or will have  *)
(* what the group says, unless the group was dropped.                        *)
Configuring(s) ==
  /\ todo[s].mapping = Nobody => todo[s].writes = <<>>
  /\ \A m \in Mappings : todo[s].mapping = m =>
       group[m].made /\ latest[s] = Nobody /\ Ready(group[m], s, memory[s], todo[s].writes)
  /\ \A m \in Mappings : latest[s] = m => group[m].made /\ Ready(group[m], s, memory[s], <<>>)
  /\ Factories(memory[s])
ConfiguringInv == \A s \in Slaves : Configuring(s)

LEMMA ConfiguringInit == Init => ConfiguringInv
<1> SUFFICES ASSUME Init, NEW s \in Slaves PROVE Configuring(s)
  BY DEF ConfiguringInv
<1>1. Nobody \notin Mappings
  BY ConstantsAssumption
<1>2. todo[s].mapping = Nobody /\ todo[s].writes = <<>> /\ latest[s] = Nobody /\ memory[s] = NewSlave
  BY DEF Init, Idle
<1>3. Factories(NewSlave)
  <2> SUFFICES ASSUME NEW p \in Fixed
               PROVE  NewSlave.list[p].len = Len(Factory[p]) /\ NewSlave.list[p].items = Factory[p]
    BY DEF Factories
  <2>1. p \in Channels \cup Pdos
    BY ConstantsAssumption
  <2>2. NewSlave.list[p] = [len |-> Len(Factory[p]), items |-> Factory[p]]
    BY <2>1 DEF NewSlave
  <2> QED BY <2>2
<1> QED BY <1>1, <1>2, <1>3 DEF Configuring

SameReady(g, h) == h.config = g.config /\ h.offset = g.offset /\ (g.made => h.made)

LEMMA ReadySame ==
  ASSUME NEW g, NEW h, SameReady(g, h), NEW s, NEW mem, NEW w, Ready(g, s, mem, w)
  PROVE  Ready(h, s, mem, w)
BY DEF Ready, SameReady

(* No step on another slave, nor on groups, takes away what a slave has.     *)
LEMMA ConfiguringStays ==
  ASSUME NEW s \in Slaves, Configuring(s), todo'[s] = todo[s], memory'[s] = memory[s],
         latest'[s] = latest[s] \/ latest'[s] = Nobody,
         \A m \in Mappings : (todo[s].mapping = m \/ latest'[s] = m) => SameReady(group[m], group'[m])
  PROVE  Configuring(s)'
<1>1. Nobody \notin Mappings
  BY ConstantsAssumption
<1>2. PICK t, w, mem : t = todo[s].mapping /\ w = todo[s].writes /\ mem = memory[s]
                       /\ t = todo'[s].mapping /\ w = todo'[s].writes /\ mem = memory'[s]
  OBVIOUS
<1>3. ASSUME NEW m \in Mappings, t = m
      PROVE  group'[m].made /\ latest'[s] = Nobody /\ Ready(group'[m], s, mem, w)
  <2>1. group[m].made /\ latest[s] = Nobody /\ Ready(group[m], s, mem, w)
    BY <1>2, <1>3 DEF Configuring
  <2>2. SameReady(group[m], group'[m])
    BY <1>2, <1>3
  <2>3. Ready(group'[m], s, mem, w)
    BY <2>1, <2>2, ReadySame
  <2> QED BY <2>1, <2>2, <2>3 DEF SameReady
<1>4. ASSUME NEW m \in Mappings, latest'[s] = m
      PROVE  group'[m].made /\ Ready(group'[m], s, mem, <<>>)
  <2>1. latest[s] = m
    BY <1>1, <1>4
  <2>2. group[m].made /\ Ready(group[m], s, mem, <<>>)
    BY <1>2, <2>1 DEF Configuring
  <2>3. SameReady(group[m], group'[m])
    BY <1>4
  <2>4. Ready(group'[m], s, mem, <<>>)
    BY <2>2, <2>3, ReadySame
  <2> QED BY <2>2, <2>3, <2>4 DEF SameReady
<1>5. t = Nobody => w = <<>>
  BY <1>2 DEF Configuring
<1>6. Factories(mem)
  BY <1>2 DEF Configuring
<1> QED BY <1>2, <1>3, <1>4, <1>5, <1>6 DEF Configuring

(* Each step of `Group::configure`: its start, its end, a write that fails.  *)
LEMMA ConfigureConfiguring ==
  ASSUME Types, ConfiguringInv, NEW m \in Mappings, NEW s \in Slaves, Configure(m, s)
  PROVE  ConfiguringInv' /\ SameGroups
<1>1. PICK g \in GroupType : g = group[m]
  BY DEF Types, GroupingType
<1>2. PICK held \in HeldType, base \in Nat : held = g.config[s] /\ base = g.offset /\ s \in DOMAIN g.config /\ g.made
  BY <1>1, GroupIs DEF Configure
<1>3. PICK pdos \in SetToSeqs(DOMAIN held.pdos), channels \in SetToSeqs(DOMAIN held.channels) :
        todo' = [todo EXCEPT ![s] = [mapping |-> m, writes |-> Writes(held, base, pdos, channels)]]
  BY <1>1, <1>2 DEF Configure
<1>4. PICK w : w = Writes(held, base, pdos, channels)
  OBVIOUS
<1>5. /\ todo'[s].mapping = m /\ todo'[s].writes = w
      /\ \A t \in Slaves : t # s => todo'[t] = todo[t]
  BY <1>3, <1>4 DEF Types, WritingType
<1>6. PICK h : /\ group' = [group EXCEPT ![m] = h]
               /\ h.made = g.made /\ h.offset = g.offset /\ h.config = g.config /\ h.fields = g.fields
  <2>1. PICK left : left = g.configured \ {s}
    OBVIOUS
  <2>2. group' = [group EXCEPT ![m] = [g EXCEPT !.configured = left]]
    BY <1>1, <2>1 DEF Configure
  <2>3. /\ [g EXCEPT !.configured = left].made = g.made /\ [g EXCEPT !.configured = left].offset = g.offset
        /\ [g EXCEPT !.configured = left].config = g.config /\ [g EXCEPT !.configured = left].fields = g.fields
    BY DEF GroupType
  <2> QED BY <2>2, <2>3
<1>7. group'[m] = h /\ \A n \in Mappings : n # m => group'[n] = group[n]
  BY <1>6 DEF Types, GroupingType
<1>8. SameGroups
  <2>1. allocated' = allocated
    BY DEF Configure
  <2>2. ASSUME NEW n \in Mappings
        PROVE  /\ group'[n].made = group[n].made /\ group'[n].offset = group[n].offset
               /\ group'[n].config = group[n].config /\ group'[n].fields = group[n].fields
    BY <1>1, <1>6, <1>7
  <2> QED BY <2>1, <2>2 DEF SameGroups
<1>9. \A n \in Mappings : SameReady(group[n], group'[n])
  BY <1>8 DEF SameGroups, SameReady
<1>10. memory' = memory /\ latest'[s] = Nobody /\ \A t \in Slaves : t # s => latest'[t] = latest[t]
  BY DEF Configure, Types, WritingType
<1>11. \A t \in Slaves : t # s => Configuring(t)'
  BY <1>5, <1>9, <1>10, ConfiguringStays DEF ConfiguringInv
<1>12. Configuring(s)'
  <2>1. Nobody \notin Mappings
    BY ConstantsAssumption
  <2>2. Leftover(held, base, memory'[s], w)
    BY <1>4, LeftoverStart
  <2>3. Ready(group'[m], s, memory'[s], w)
    BY <1>2, <1>6, <1>7, <2>2 DEF Ready
  <2>4. Factories(memory'[s])
    BY <1>10 DEF ConfiguringInv, Configuring
  <2>5. group'[m].made
    BY <1>2, <1>6, <1>7
  <2> QED BY <1>5, <1>10, <2>1, <2>3, <2>4, <2>5 DEF Configuring
<1> QED BY <1>8, <1>11, <1>12 DEF ConfiguringInv

LEMMA ConfiguredConfiguring ==
  ASSUME Types, ConfiguringInv, NEW s \in Slaves, Configured(s)
  PROVE  ConfiguringInv' /\ SameGroups
<1>1. PICK m \in Mappings : m = todo[s].mapping
  BY DEF Types, WritingType, Configured
<1>2. PICK g \in GroupType : g = group[m]
  BY DEF Types, GroupingType
<1>3. Nobody \notin Mappings
  BY ConstantsAssumption
<1>4. g.made /\ Ready(g, s, memory[s], <<>>) /\ Factories(memory[s])
  <2>1. todo[s].writes = <<>>
    BY DEF Configured
  <2> QED BY <1>1, <1>2, <2>1 DEF ConfiguringInv, Configuring
<1>5. /\ todo'[s].mapping = Nobody /\ todo'[s].writes = <<>>
      /\ \A t \in Slaves : t # s => todo'[t] = todo[t]
  BY DEF Configured, Idle, Types, WritingType
<1>6. PICK h : /\ group' = [group EXCEPT ![m] = h]
               /\ h.made = g.made /\ h.offset = g.offset /\ h.config = g.config /\ h.fields = g.fields
  <2>1. PICK more : more = g.configured \cup {s}
    OBVIOUS
  <2>2. group' = [group EXCEPT ![m] = [g EXCEPT !.configured = more]]
    BY <1>1, <1>2, <2>1 DEF Configured
  <2>3. /\ [g EXCEPT !.configured = more].made = g.made /\ [g EXCEPT !.configured = more].offset = g.offset
        /\ [g EXCEPT !.configured = more].config = g.config /\ [g EXCEPT !.configured = more].fields = g.fields
    BY DEF GroupType
  <2> QED BY <2>2, <2>3
<1>7. group'[m] = h /\ \A n \in Mappings : n # m => group'[n] = group[n]
  BY <1>6 DEF Types, GroupingType
<1>8. SameGroups
  <2>1. allocated' = allocated
    BY DEF Configured
  <2>2. ASSUME NEW n \in Mappings
        PROVE  /\ group'[n].made = group[n].made /\ group'[n].offset = group[n].offset
               /\ group'[n].config = group[n].config /\ group'[n].fields = group[n].fields
    BY <1>2, <1>6, <1>7
  <2> QED BY <2>1, <2>2 DEF SameGroups
<1>9. \A n \in Mappings : SameReady(group[n], group'[n])
  BY <1>8 DEF SameGroups, SameReady
<1>10. memory' = memory /\ latest'[s] = m /\ \A t \in Slaves : t # s => latest'[t] = latest[t]
  BY <1>1 DEF Configured, Types, WritingType
<1>11. \A t \in Slaves : t # s => Configuring(t)'
  BY <1>5, <1>9, <1>10, ConfiguringStays DEF ConfiguringInv
<1>12. Configuring(s)'
  <2>1. SameReady(g, group'[m])
    BY <1>2, <1>9
  <2>2. Ready(group'[m], s, memory'[s], <<>>)
    BY <1>4, <1>10, <2>1, ReadySame
  <2>3. group'[m].made
    BY <1>4, <1>6, <1>7
  <2> QED BY <1>3, <1>4, <1>5, <1>10, <2>2, <2>3 DEF Configuring
<1> QED BY <1>8, <1>11, <1>12 DEF ConfiguringInv

LEMMA FailConfiguring ==
  ASSUME Types, ConfiguringInv, NEW s \in Slaves, Fail(s)
  PROVE  ConfiguringInv'
<1>1. Nobody \notin Mappings
  BY ConstantsAssumption
<1>2. /\ todo'[s].mapping = Nobody /\ todo'[s].writes = <<>>
      /\ \A t \in Slaves : t # s => todo'[t] = todo[t]
      /\ memory' = memory /\ latest' = latest /\ group' = group
  BY DEF Fail, Idle, Types, WritingType, grouping
<1>3. \A n \in Mappings : SameReady(group[n], group'[n])
  BY <1>2 DEF SameReady
<1>4. \A t \in Slaves : t # s => Configuring(t)'
  BY <1>2, <1>3, ConfiguringStays DEF ConfiguringInv
<1>5. Configuring(s)'
  BY <1>1, <1>2 DEF ConfiguringInv, Configuring
<1> QED BY <1>4, <1>5 DEF ConfiguringInv

(* Slaves that the group configured are not looked at any more.              *)
LEMMA DropGroupConfiguring ==
  ASSUME Types, ConfiguringInv, NEW m \in Mappings, DropGroup(m)
  PROVE  ConfiguringInv'
<1>1. Nobody \notin Mappings
  BY ConstantsAssumption
<1>2. /\ todo' = todo /\ memory' = memory
      /\ \A s \in Slaves : latest'[s] = IF latest[s] = m THEN Nobody ELSE latest[s]
      /\ \A s \in Slaves : todo[s].mapping # m
  BY DEF DropGroup
<1>3. \A n \in Mappings : n # m => group'[n] = group[n]
  BY DEF DropGroup, Types, GroupingType
<1>4. \A n \in Mappings : n # m => SameReady(group[n], group'[n])
  BY <1>3 DEF SameReady
<1>5. ASSUME NEW s \in Slaves PROVE Configuring(s)'
  <2>1. latest'[s] = latest[s] \/ latest'[s] = Nobody
    BY <1>2
  <2>2. todo[s].mapping # m /\ latest'[s] # m
    BY <1>1, <1>2
  <2>3. \A n \in Mappings : (todo[s].mapping = n \/ latest'[s] = n) => SameReady(group[n], group'[n])
    BY <1>4, <2>2
  <2>4. Configuring(s)
    BY DEF ConfiguringInv
  <2>5. todo'[s] = todo[s] /\ memory'[s] = memory[s]
    BY <1>2
  <2> QED BY <2>1, <2>3, <2>4, <2>5, ConfiguringStays
<1> QED BY <1>5 DEF ConfiguringInv

(* The steps that write nothing and drop nothing.                            *)
LEMMA QuietConfiguring ==
  ASSUME ConfiguringInv, writing' = writing, \A m \in Mappings : group[m].made => group'[m] = group[m]
  PROVE  ConfiguringInv'
<1>1. todo' = todo /\ memory' = memory /\ latest' = latest
  BY DEF writing
<1>2. \A m \in Mappings : group[m].made => SameReady(group[m], group'[m])
  BY DEF SameReady
<1>3. ASSUME NEW s \in Slaves PROVE Configuring(s)'
  <2>1. Configuring(s)
    BY DEF ConfiguringInv
  <2>2. \A m \in Mappings : (todo[s].mapping = m \/ latest[s] = m) => group[m].made
    BY <2>1 DEF Configuring
  <2>3. \A m \in Mappings : (todo[s].mapping = m \/ latest'[s] = m) => SameReady(group[m], group'[m])
    BY <1>1, <1>2, <2>2
  <2>4. todo'[s] = todo[s] /\ memory'[s] = memory[s] /\ latest'[s] = latest[s]
    BY <1>1
  <2> QED BY <2>1, <2>3, <2>4, ConfiguringStays
<1> QED BY <1>3 DEF ConfiguringInv

(* A write that the slave does.                                              *)
LEMMA WriteIs ==
  ASSUME Types, ConfiguringInv, NEW s \in Slaves, Write(s)
  PROVE  \E m \in Mappings, w \in Seq(Ops), mem, after \in SlaveType :
           /\ todo[s].mapping = m /\ todo[s].writes = w /\ w # <<>> /\ memory[s] = mem
           /\ todo'[s].mapping = m /\ todo'[s].writes = Tail(w)
           /\ after = After(mem, Head(w)) /\ memory'[s] = after /\ Accepts(mem, Head(w))
           /\ latest[s] = Nobody /\ Factories(mem)
           /\ group[m].made /\ s \in DOMAIN group[m].config
           /\ Leftover(group[m].config[s], group[m].offset, mem, w)
           /\ \A t \in Slaves : t # s => todo'[t] = todo[t] /\ memory'[t] = memory[t]
<1>1. PICK t \in Todo : t = todo[s]
  BY DEF Types, WritingType, Todo
<1>2. PICK w \in Seq(Ops) : w = t.writes /\ w # <<>>
  BY <1>1 DEF Todo, Write
<1>3. PICK m \in Mappings : m = t.mapping
  <2>1. t.mapping # Nobody
    BY <1>1, <1>2 DEF ConfiguringInv, Configuring
  <2> QED BY <2>1 DEF Todo
<1>4. PICK mem \in SlaveType : mem = memory[s]
  BY DEF Types, WritingType
<1>5. PICK o \in Ops, rest \in Seq(Ops) : o = Head(w) /\ rest = Tail(w)
  BY <1>2, TailIs
<1>6. PICK after \in SlaveType : after = After(mem, o)
  BY AfterType
<1>7. PICK u : u = [t EXCEPT !.writes = rest] /\ u.mapping = m /\ u.writes = rest
  <2>1. [t EXCEPT !.writes = rest].mapping = m /\ [t EXCEPT !.writes = rest].writes = rest
    BY <1>3 DEF Todo
  <2> QED BY <2>1
<1>8. todo' = [todo EXCEPT ![s] = u] /\ memory' = [memory EXCEPT ![s] = after] /\ Accepts(mem, o)
  BY <1>1, <1>2, <1>4, <1>5, <1>6, <1>7 DEF Write
<1>9. todo'[s] = u /\ memory'[s] = after /\ \A z \in Slaves : z # s => todo'[z] = todo[z] /\ memory'[z] = memory[z]
  BY <1>8 DEF Types, WritingType
<1>10. /\ latest[s] = Nobody /\ Factories(mem) /\ group[m].made /\ s \in DOMAIN group[m].config
       /\ Leftover(group[m].config[s], group[m].offset, mem, w)
  BY <1>1, <1>2, <1>3, <1>4 DEF ConfiguringInv, Configuring, Ready
<1>11. /\ todo[s].mapping = m /\ todo[s].writes = w /\ todo'[s].mapping = m /\ todo'[s].writes = Tail(w)
       /\ after = After(mem, Head(w)) /\ Accepts(mem, Head(w))
  BY <1>1, <1>2, <1>3, <1>5, <1>6, <1>7, <1>8, <1>9
<1> QED BY <1>2, <1>4, <1>9, <1>10, <1>11

LEMMA WriteConfiguring ==
  ASSUME Types, ConfiguringInv, NEW s \in Slaves, Write(s)
  PROVE  ConfiguringInv'
<1>1. PICK m \in Mappings, w \in Seq(Ops), mem, after \in SlaveType :
           /\ todo[s].mapping = m /\ todo[s].writes = w /\ w # <<>> /\ memory[s] = mem
           /\ todo'[s].mapping = m /\ todo'[s].writes = Tail(w)
           /\ after = After(mem, Head(w)) /\ memory'[s] = after /\ Accepts(mem, Head(w))
           /\ latest[s] = Nobody /\ Factories(mem)
           /\ group[m].made /\ s \in DOMAIN group[m].config
           /\ Leftover(group[m].config[s], group[m].offset, mem, w)
           /\ \A t \in Slaves : t # s => todo'[t] = todo[t] /\ memory'[t] = memory[t]
  BY WriteIs
<1>2. Nobody \notin Mappings
  BY ConstantsAssumption
<1>3. group' = group /\ latest' = latest
  BY DEF Write, grouping
<1>4. \A n \in Mappings : SameReady(group[n], group'[n])
  BY <1>3 DEF SameReady
<1>5. \A t \in Slaves : t # s => Configuring(t)'
  BY <1>1, <1>3, <1>4, ConfiguringStays DEF ConfiguringInv
<1>6. PICK held \in HeldType, base \in Nat : held = group[m].config[s] /\ base = group[m].offset
  <2>1. group[m] \in GroupType
    BY DEF Types, GroupingType
  <2> QED BY <1>1, <2>1, GroupIs
<1>7. Leftover(held, base, mem, w)
  BY <1>1, <1>6
<1>8. Leftover(held, base, after, Tail(w)) /\ Factories(after)
  BY <1>1, <1>7, LeftoverStep, FactoriesStep
<1>9. Ready(group[m], s, after, Tail(w))
  BY <1>1, <1>6, <1>8 DEF Ready
<1>10. Configuring(s)'
  BY <1>1, <1>2, <1>3, <1>8, <1>9 DEF Configuring
<1> QED BY <1>5, <1>10 DEF ConfiguringInv

-----------------------------------------------------------------------------
(* The entries in the slaves                                                 *)

(* An entry of a slave is that of a group that there is, or maps nothing of  *)
(* it.                                                                       *)
Fits(t, l, e) ==
  /\ Below(e, allocated)
  /\ \A m \in Mappings : group[m].made =>
       LET L == Laid(group[m])
       IN \/ t \in DOMAIN L /\ l \in DOMAIN L[t] /\ e = L[t][l]
          \/ \A s \in DOMAIN L : \A i \in DOMAIN L[s] : ~Overlap(e, L[s][i])
(* The last part of the invariant: whatever is left of groups that were dropped *)
(* and of calls that failed maps nothing of the groups that there are.       *)
MemoryInv == \A t \in Slaves : \A l \in DOMAIN memory[t].fmmu : Fits(t, l, memory[t].fmmu[l])

LEMMA MemoryInit == Init => MemoryInv
<1> SUFFICES ASSUME Init PROVE MemoryInv
  OBVIOUS
<1>1. NewSlave.fmmu = <<>>
  BY DEF NewSlave
<1>2. \A t \in Slaves : memory[t] = NewSlave
  BY DEF Init
<1> QED BY <1>1, <1>2 DEF MemoryInv

(* The entries of a group are among those that there are.                    *)
LEMMA LaidFits ==
  ASSUME GroupsInv, NEW m \in Mappings, group[m].made, NEW L, L = Laid(group[m]),
         NEW s \in DOMAIN L, NEW i \in DOMAIN L[s]
  PROVE  Fits(s, i, L[s][i])
<1>1. Below(L[s][i], allocated)
  BY DEF GroupsInv, BelowTop
<1>2. ASSUME NEW n \in Mappings, group[n].made, n # m
      PROVE  \A t \in DOMAIN Laid(group[n]) : \A l \in DOMAIN Laid(group[n])[t] : ~Overlap(L[s][i], Laid(group[n])[t][l])
  BY <1>2 DEF GroupsInv, AllApart
<1> QED BY <1>1, <1>2 DEF Fits

LEMMA MemorySame ==
  ASSUME MemoryInv, memory' = memory, SameGroups
  PROVE  MemoryInv'
<1>1. \A n \in Mappings : Laid(group'[n]) = Laid(group[n]) /\ group'[n].made = group[n].made
  BY SameLaid
<1>2. allocated' = allocated
  BY DEF SameGroups
<1> QED BY <1>1, <1>2 DEF MemoryInv, Fits

LEMMA DropGroupMemory ==
  ASSUME Types, GroupsInv, MemoryInv, NEW m \in Mappings, DropGroup(m)
  PROVE  MemoryInv'
<1>1. /\ allocated' = allocated /\ ~group'[m].made
      /\ \A n \in Mappings : n # m => group'[n] = group[n]
  BY DropGroupGroups
<1>2. memory' = memory
  BY DEF DropGroup
<1> QED BY <1>1, <1>2 DEF MemoryInv, Fits

LEMMA GroupMemory ==
  ASSUME Types, BuiltInv, GroupsInv, MemoryInv, NEW m \in Mappings, Group(m)
  PROVE  MemoryInv'
<1>1. /\ allocated \in Nat /\ allocated' \in Nat /\ allocated <= allocated'
      /\ ~group[m].made /\ \A n \in Mappings : n # m => group'[n] = group[n]
      /\ \A s \in DOMAIN Laid(group'[m]) : \A i \in DOMAIN Laid(group'[m])[s], b \in Nat :
           Has(Laid(group'[m])[s][i], b) => b >= allocated
  BY GroupGroups
<1>2. memory' = memory
  BY DEF Group, writing
<1>3. ASSUME NEW t \in Slaves, NEW l \in DOMAIN memory[t].fmmu PROVE Fits(t, l, memory[t].fmmu[l])'
  <2>1. PICK e : e = memory[t].fmmu[l] /\ Fits(t, l, e)
    BY DEF MemoryInv
  <2>2. \A b \in Nat : Has(e, b) => b < allocated
    BY <2>1 DEF Fits, Below
  <2>3. Below(e, allocated')
    BY <1>1, <2>2 DEF Below
  <2>4. \A s \in DOMAIN Laid(group'[m]) : \A i \in DOMAIN Laid(group'[m])[s] : ~Overlap(e, Laid(group'[m])[s][i])
    <3>1. \A b \in Nat : ~(b < allocated /\ b >= allocated)
      BY <1>1
    <3> QED BY <1>1, <2>2, <3>1 DEF Overlap
  <2>5. \A n \in Mappings : n # m /\ group[n].made =>
          \/ t \in DOMAIN Laid(group[n]) /\ l \in DOMAIN Laid(group[n])[t] /\ e = Laid(group[n])[t][l]
          \/ \A s \in DOMAIN Laid(group[n]) : \A i \in DOMAIN Laid(group[n])[s] : ~Overlap(e, Laid(group[n])[s][i])
    BY <2>1 DEF Fits
  <2> QED BY <1>1, <1>2, <2>1, <2>3, <2>4, <2>5 DEF Fits
<1> QED BY <1>2, <1>3 DEF MemoryInv

(* A write changes one entry at most, to that of the group.                  *)
LEMMA FmmuStep ==
  ASSUME NEW held \in HeldType, NEW base \in Nat, NEW mem \in SlaveType, NEW w \in Seq(Ops), w # <<>>,
         FmmuLeft(held, base, mem, w)
  PROVE  \A k \in DOMAIN After(mem, Head(w)).fmmu :
           \/ k \in DOMAIN mem.fmmu /\ After(mem, Head(w)).fmmu[k] = mem.fmmu[k]
           \/ k \in DOMAIN LaidAt(held, base) /\ After(mem, Head(w)).fmmu[k] = LaidAt(held, base)[k]
<1>1. PICK o \in Ops : o = Head(w)
  BY TailIs
<1>2. PICK laid \in Seq(Fmmu) : laid = LaidAt(held, base)
  BY LaidAtIs
<1>3. PICK x \in Seq(Ops) : /\ x = FmmuWrites(held, base) /\ Len(x) = Len(laid)
                            /\ \A i \in 1..Len(laid) : x[i] = FmmuWrite(i, laid[i]) /\ x[i] \in FmmuOps
  BY <1>2, FmmuWritten
<1>4. PICK d \in Nat : /\ Remains(w, x, d, FmmuOps)
                       /\ \A i \in 1..Len(laid) : i <= d => i <= Len(mem.fmmu) /\ mem.fmmu[i] = laid[i]
  BY <1>2, <1>3 DEF FmmuLeft
<1>5. \/ o \notin FmmuOps
      \/ d + 1 \in 1..Len(x) /\ o = x[d + 1]
  BY <1>1, <1>4, RemainsTail
<1>6. CASE o \notin FmmuOps
  <2>1. After(mem, o).fmmu = mem.fmmu
    BY <1>6, AfterElse
  <2> QED BY <1>1, <2>1
<1>7. CASE d + 1 \in 1..Len(x) /\ o = x[d + 1]
  <2>1. PICK j \in 1..Len(laid) : j = d + 1
    BY <1>3, <1>7
  <2>2. PICK e \in Fmmu : e = laid[j]
    BY ElementOfSeq
  <2>3. o = FmmuWrite(j, e) /\ o \in FmmuOps
    BY <1>3, <1>7, <2>1, <2>2
  <2>4. o.index = j /\ o.value = e
    BY <2>3 DEF FmmuWrite
  <2>5. PICK old \in Seq(Fmmu) : old = mem.fmmu
    BY SlaveIs
  <2>6. After(mem, o).fmmu = Put(old, j, e)
    BY <2>3, <2>4, <2>5, FmmuAfter
  <2>7. Len(laid) \in Nat /\ Len(old) \in Nat /\ DOMAIN laid = 1..Len(laid) /\ DOMAIN old = 1..Len(old)
    BY LenProperties
  <2>8. j \in Nat /\ j > 0 /\ j <= Len(old) + 1
    <3>1. d # 0 => d \in 1..Len(laid) /\ d <= d
      BY <2>1, <2>7
    <3>2. d # 0 => d <= Len(old)
      BY <1>4, <2>5, <3>1
    <3> QED BY <2>1, <2>7, <3>2
  <2>9. PICK new : new = Put(old, j, e)
    OBVIOUS
  <2>10. /\ new \in Seq(Fmmu) /\ new[j] = e /\ \A k \in 1..Len(old) : k # j => new[k] = old[k]
         /\ \A k \in 1..Len(new) : k = j \/ k \in 1..Len(old)
    BY <2>8, <2>9, PutIs
  <2>11. DOMAIN new = 1..Len(new)
    BY <2>10, LenProperties
  <2>12. \A k \in DOMAIN new : (k \in DOMAIN old /\ new[k] = old[k]) \/ (k \in DOMAIN laid /\ new[k] = laid[k])
    BY <2>2, <2>7, <2>10, <2>11
  <2> QED BY <1>1, <1>2, <2>5, <2>6, <2>9, <2>12
<1> QED BY <1>5, <1>6, <1>7

(* An entry the slave had is replaced by that of the group, above the others. *)
LEMMA WriteMemory ==
  ASSUME Types, GroupsInv, ConfiguringInv, MemoryInv, NEW s \in Slaves, Write(s)
  PROVE  MemoryInv'
<1>1. PICK m \in Mappings, w \in Seq(Ops), mem, after \in SlaveType :
           /\ w # <<>> /\ memory[s] = mem
           /\ after = After(mem, Head(w)) /\ memory'[s] = after
           /\ group[m].made /\ s \in DOMAIN group[m].config
           /\ Leftover(group[m].config[s], group[m].offset, mem, w)
           /\ \A t \in Slaves : t # s => memory'[t] = memory[t]
  BY WriteIs
<1>2. group' = group /\ allocated' = allocated
  BY DEF Write, grouping
<1>3. PICK held \in HeldType, base \in Nat : /\ held = group[m].config[s] /\ base = group[m].offset
                                             /\ s \in DOMAIN Laid(group[m]) /\ Laid(group[m])[s] = LaidAt(held, base)
  <2>1. group[m] \in GroupType
    BY DEF Types, GroupingType
  <2> QED BY <1>1, <2>1, GroupIs
<1>4. FmmuLeft(held, base, mem, w)
  BY <1>1, <1>3 DEF Leftover
<1>5. \A k \in DOMAIN after.fmmu :
           \/ k \in DOMAIN mem.fmmu /\ after.fmmu[k] = mem.fmmu[k]
           \/ k \in DOMAIN LaidAt(held, base) /\ after.fmmu[k] = LaidAt(held, base)[k]
  BY <1>1, <1>4, FmmuStep
<1>6. \A k \in DOMAIN LaidAt(held, base) : Fits(s, k, LaidAt(held, base)[k])
  BY <1>1, <1>3, LaidFits
<1>7. \A k \in DOMAIN mem.fmmu : Fits(s, k, mem.fmmu[k])
  BY <1>1 DEF MemoryInv
<1>8. \A k \in DOMAIN after.fmmu : Fits(s, k, after.fmmu[k])
  BY <1>5, <1>6, <1>7
<1>9. \A t \in Slaves : \A l \in DOMAIN memory'[t].fmmu : Fits(t, l, memory'[t].fmmu[l])
  BY <1>1, <1>8 DEF MemoryInv
<1> QED BY <1>2, <1>9, ZenonT(60) DEF MemoryInv, Fits

RemainsNothing == \A x, d, K : Len(x) \in Nat /\ Remains(<<>>, x, d, K) => d = Len(x)

LEMMA NothingLeft == RemainsNothing
<1> SUFFICES ASSUME NEW x, NEW d, NEW K, Len(x) \in Nat, Remains(<<>>, x, d, K) PROVE d = Len(x)
  BY DEF RemainsNothing
<1>1. Len(<<>>) = 0
  BY EmptySeq
<1>2. PICK b \in Nat : d \in 0..Len(x) /\ b + (Len(x) - d) <= 0
  BY <1>1 DEF Remains
<1> QED BY <1>2

(* What a slave makes of a list.                                             *)
Made(l) == SubSeq(l.items, 1, l.len)

(* A slave where everything was written.                                     *)
LEMMA LeftoverEnd ==
  ASSUME NEW held \in HeldType, NEW base \in Nat, NEW mem \in SlaveType, Leftover(held, base, mem, <<>>),
         Factories(mem),
         \A p \in Fixed \cap DOMAIN held.pdos : Len(held.pdos[p]) = Len(Factory[p])
  PROVE  /\ \A p \in DOMAIN held.pdos : Made(mem.list[p]) = held.pdos[p]
         /\ \A c \in DOMAIN held.channels : /\ Made(mem.list[c]) = held.channels[c].pdos
                                            /\ mem.sync[c] = SyncOf(held, c)
         /\ \A i \in DOMAIN LaidAt(held, base) : i \in DOMAIN mem.fmmu /\ mem.fmmu[i] = LaidAt(held, base)[i]
<1>1. ASSUME NEW x \in Lists, NEW items \in Seq(Pdos \cup SdoBits), ListPlan(held, x) = ListWrites(x, items),
             NEW d \in Nat, Remains(<<>>, ListPlan(held, x), d, ListOps(x)), ListStage(mem.list[x], items, d)
      PROVE  Made(mem.list[x]) = items
  <2>1. PICK n \in Nat : n = Len(items) /\ Len(ListPlan(held, x)) = n + 2
    <3>1. Len(items) \in Nat
      BY LenProperties
    <3> QED BY <1>1, <3>1, ListIs
  <2>2. d = n + 2
    BY <1>1, <2>1, NothingLeft DEF RemainsNothing
  <2>3. PICK list \in ListType : list = mem.list[x]
    BY SlaveIs
  <2>4. PICK old \in Seq(Pdos \cup Nat), len \in Nat : old = list.items /\ len = list.len
    BY DEF ListType
  <2>5. len = n /\ \A i \in 1..n : i <= Len(old) /\ old[i] = items[i]
    <3>1. \A i \in 1..n : i < d
      BY <2>2
    <3> QED BY <1>1, <2>1, <2>2, <2>3, <2>4, <3>1 DEF ListStage
  <2>6. n <= Len(old)
    <3>1. n # 0 => n \in 1..n
      OBVIOUS
    <3>2. Len(old) \in Nat
      BY LenProperties
    <3> QED BY <2>5, <3>1, <3>2
  <2>7. items \in Seq(Pdos \cup Nat)
    <3>1. Pdos \cup SdoBits \subseteq Pdos \cup Nat
      BY ConstantsAssumption
    <3> QED BY <3>1, SeqMonotonic
  <2>8. SubSeq(old, 1, n) = items
    <3>1. PICK S : S = Pdos \cup Nat
      OBVIOUS
    <3>2. old \in Seq(S) /\ items \in Seq(S) /\ n = Len(items) /\ \A i \in 1..n : items[i] = old[i]
      BY <2>1, <2>5, <2>7, <3>1
    <3> QED BY <2>6, <3>2, FirstIs
  <2> QED BY <2>3, <2>4, <2>5, <2>8 DEF Made
<1>2. ASSUME NEW p \in DOMAIN held.pdos PROVE Made(mem.list[p]) = held.pdos[p]
  <2>1. p \in Lists /\ p \notin DOMAIN held.channels
    BY HeldLists, ListsApart DEF Lists
  <2>2. PICK d \in Nat : Remains(<<>>, ListPlan(held, p), d, ListOps(p)) /\ Stage(held, mem.list[p], p, d)
    BY <2>1 DEF Leftover, ListsLeft
  <2>3. CASE p \notin Fixed
    <3>1. PICK items \in Seq(Pdos \cup SdoBits) : items = held.pdos[p]
      BY HeldLists
    <3>2. ListPlan(held, p) = ListWrites(p, items)
      BY <2>3, <3>1 DEF ListPlan, PdoWrites
    <3>3. ListStage(mem.list[p], items, d)
      BY <2>2, <2>3, <3>1 DEF Stage
    <3> QED BY <1>1, <2>1, <2>2, <3>1, <3>2, <3>3
  <2>4. CASE p \in Fixed
    <3>1. PICK items \in Seq(SdoBits), n \in Nat : items = held.pdos[p] /\ n = Len(items)
      BY HeldLists, LenProperties
    <3>2. Len(ListPlan(held, p)) = n
      BY <2>4, <3>1, PdoWritten DEF ListPlan
    <3>3. d = n
      BY <2>2, <3>2, NothingLeft DEF RemainsNothing
    <3>4. CheckStage(mem.list[p], items, n)
      BY <2>2, <2>4, <3>1, <3>3 DEF Stage
    <3>5. PICK factory \in Seq(Nat) : factory = Factory[p] /\ Len(factory) = n
      BY <2>4, <3>1, ConstantsAssumption
    <3>6. PICK list : list = mem.list[p] /\ list.items = factory /\ list.len = n
      BY <2>4, <3>5 DEF Factories
    <3>7. \A i \in 1..n : factory[i] = items[i]
      BY <3>1, <3>4, <3>6 DEF CheckStage
    <3>8. items \in Seq(Nat)
      BY SeqMonotonic, ConstantsAssumption
    <3>9. n <= Len(factory) /\ \A i \in 1..n : items[i] = factory[i]
      BY <3>5, <3>7
    <3>10. SubSeq(factory, 1, n) = items
      BY <3>1, <3>8, <3>9, FirstIs
    <3> QED BY <3>1, <3>6, <3>10 DEF Made
  <2> QED BY <2>3, <2>4
<1>3. ASSUME NEW c \in DOMAIN held.channels
      PROVE  Made(mem.list[c]) = held.channels[c].pdos /\ mem.sync[c] = SyncOf(held, c)
  <2>1. c \in Lists /\ c \notin DOMAIN held.pdos /\ c \notin Fixed
    BY HeldLists, ConstantsAssumption DEF Lists
  <2>2. PICK d \in Nat : Remains(<<>>, ListPlan(held, c), d, ListOps(c)) /\ Stage(held, mem.list[c], c, d)
    BY <2>1 DEF Leftover, ListsLeft
  <2>3. PICK items \in Seq(Pdos \cup SdoBits) : items = held.channels[c].pdos
    BY HeldLists
  <2>4. ListPlan(held, c) = ListWrites(c, items)
    BY <2>1, <2>3 DEF ListPlan
  <2>5. ListStage(mem.list[c], items, d)
    BY <2>2, <2>3 DEF Stage
  <2>6. Made(mem.list[c]) = items
    BY <1>1, <2>1, <2>2, <2>4, <2>5
  <2>7. PICK k \in Nat : /\ Remains(<<>>, <<SyncWrite(c, SyncOf(held, c))>>, k, SyncsOf(c))
                         /\ k = 1 => mem.sync[c] = SyncOf(held, c)
    BY DEF Leftover, SyncsLeft
  <2>8. k = 1
    <3>1. PICK list, x \in Seq(Ops) : x = <<SyncWrite(c, SyncOf(held, c))>> /\ Len(x) = 1
      BY ChannelWritten
    <3>2. Remains(<<>>, x, k, SyncsOf(c)) /\ Len(x) \in Nat
      <4>1. Len(x) \in Nat
        BY <3>1
      <4>2. Remains(<<>>, x, k, SyncsOf(c))
        BY <2>7, <3>1, Zenon
      <4> QED BY <4>1, <4>2
    <3> QED BY <3>1, <3>2, NothingLeft DEF RemainsNothing
  <2> QED BY <2>3, <2>6, <2>7, <2>8
<1>4. ASSUME NEW i \in DOMAIN LaidAt(held, base)
      PROVE  i \in DOMAIN mem.fmmu /\ mem.fmmu[i] = LaidAt(held, base)[i]
  <2>1. PICK laid \in Seq(Fmmu) : laid = LaidAt(held, base)
    BY LaidAtIs
  <2>2. PICK d \in Nat : /\ Remains(<<>>, FmmuWrites(held, base), d, FmmuOps)
                         /\ \A k \in 1..Len(laid) : k <= d => k <= Len(mem.fmmu) /\ mem.fmmu[k] = laid[k]
    BY <2>1 DEF Leftover, FmmuLeft
  <2>3. Len(FmmuWrites(held, base)) = Len(laid) /\ Len(laid) \in Nat /\ DOMAIN laid = 1..Len(laid)
    BY <2>1, FmmuWritten, LenProperties
  <2>4. d = Len(laid)
    BY <2>2, <2>3, NothingLeft DEF RemainsNothing
  <2>5. i \in 1..Len(laid) /\ i <= d
    BY <2>1, <2>3, <2>4
  <2>6. PICK fmmu \in Seq(Fmmu) : fmmu = mem.fmmu
    BY SlaveIs
  <2>7. Len(fmmu) \in Nat /\ DOMAIN fmmu = 1..Len(fmmu)
    BY LenProperties
  <2> QED BY <2>1, <2>2, <2>5, <2>6, <2>7
<1> QED BY <1>2, <1>3, <1>4

-----------------------------------------------------------------------------
(* Served                                                                    *)

(* What Served needs to know of a slave that is configured.                  *)
Configuration(s, held) ==
  /\ \A p \in DOMAIN held.pdos : Content(s, p) = held.pdos[p]
  /\ \A c \in DOMAIN held.channels : Content(s, c) = held.channels[c].pdos /\ memory[s].sync[c] = SyncOf(held, c)

(* The lists the slave has put a field where the ConfigSlave says.           *)
LEMMA FoundThere ==
  ASSUME NEW held \in HeldType, Sound(held), NEW s, Configuration(s, held),
         NEW f \in Field, NEW at \in Nat, FoundIn(Rows(held), held.pdos, f, at)
  PROVE  FoundAt(s, f, at)
<1>1. CASE "byte" \in DOMAIN f.origin
  BY <1>1 DEF FoundAt, FoundIn
<1>2. CASE "byte" \notin DOMAIN f.origin
  <2>1. PICK rows \in RowsType, pdos \in PdoLists :
          /\ rows = Rows(held) /\ pdos = held.pdos /\ DOMAIN rows = DOMAIN held.channels
          /\ \A c \in DOMAIN rows : rows[c] = held.channels[c].pdos
    BY RowsIs
  <2>2. PICK o : o = f.origin
    OBVIOUS
  <2>3. PICK slot \in Nat : EntryAt(rows, pdos, o, slot, at, f.length)
    BY <1>2, <2>1, <2>2 DEF FoundIn
  <2>4. PICK c, p, index : c = o.channel /\ p = o.pdo /\ index = o.index
    OBVIOUS
  <2>5. PICK length \in Nat : length = f.length
    BY DEF Field
  <2>6. /\ c \in DOMAIN rows /\ slot \in DOMAIN rows[c] /\ rows[c][slot] = p
        /\ index \in DOMAIN pdos[p]
        /\ 8 * (at - Buffer[c].start) =
             Total([k \in 1..slot - 1 |-> Total(pdos[rows[c][k]])]) + Total(SubSeq(pdos[p], 1, index - 1))
        /\ at + length <= Buffer[c].start + LengthOf(rows, pdos, c)
        /\ Buffer[c].start + LengthOf(rows, pdos, c) <= BufferEnd(c)
    BY <2>3, <2>4, <2>5 DEF EntryAt
  <2>7. PICK row \in Seq(Pdos) : row = rows[c] /\ DOMAIN row = 1..Len(row) /\ Len(row) \in Nat
    BY <2>6, RowIs
  <2>8. \A k \in DOMAIN row : row[k] \in DOMAIN pdos /\ \A l \in DOMAIN row : row[k] = row[l] => k = l
    BY <2>1, <2>6, <2>7 DEF Sound, Listed
  <2>9. p \in DOMAIN pdos
    BY <2>6, <2>7, <2>8
  <2>10. Content(s, c) = row /\ \A q \in DOMAIN pdos : Content(s, q) = pdos[q]
    BY <2>1, <2>6, <2>7 DEF Configuration
  <2>11. PICK sync : sync = memory[s].sync[c] /\ sync.start = Buffer[c].start
                     /\ sync.length = LengthOf(rows, pdos, c) /\ sync.enable
    <3>1. memory[s].sync[c] = SyncOf(held, c)
      BY <2>1, <2>6 DEF Configuration
    <3>2. SyncOf(held, c).start = Buffer[c].start
      BY <2>1, <2>6 DEF SyncOf, Sound, Starts
    <3>3. SyncLength(held, c) = LengthOf(rows, pdos, c)
      BY <2>1, <2>6 DEF SyncLength, LengthOf, BytesOf
    <3>4. SyncOf(held, c).length = SyncLength(held, c)
      BY DEF SyncOf
    <3>5. SyncOf(held, c).enable = (held.channels[c].pdos # <<>>)
      BY DEF SyncOf
    <3>6. row # <<>>
      BY <2>6, <2>7, EmptySeq
    <3> QED BY <2>1, <2>6, <2>7, <3>1, <3>2, <3>3, <3>4, <3>5, <3>6
  <2>12. Contains(row, p)
    BY <2>6, <2>7 DEF Contains
  <2>13. (CHOOSE j \in DOMAIN row : row[j] = p) = slot
    BY <2>6, <2>7, <2>8
  <2>14. [j \in 1..slot - 1 |-> PdoBits(s, row[j])] = [k \in 1..slot - 1 |-> Total(pdos[row[k]])]
    <3>1. \A j \in 1..slot - 1 : j \in DOMAIN row
      BY <2>6, <2>7
    <3>2. \A j \in 1..slot - 1 : PdoBits(s, row[j]) = Total(pdos[row[j]])
      BY <2>8, <2>10, <3>1 DEF PdoBits
    <3> QED BY <3>2
  <2>15. EntryBit(s, o) = Total([k \in 1..slot - 1 |-> Total(pdos[row[k]])]) + Total(SubSeq(pdos[p], 1, index - 1))
    BY <2>4, <2>9, <2>10, <2>13, <2>14 DEF EntryBit
  <2>16. 8 * (at - sync.start) = EntryBit(s, o)
    BY <2>6, <2>7, <2>11, <2>15
  <2>17. at + length <= sync.start + sync.length /\ sync.start + sync.length <= BufferEnd(c)
    BY <2>6, <2>11
  <2>18. index \in DOMAIN Content(s, p)
    BY <2>6, <2>9, <2>10
  <2> QED BY <1>2, <2>2, <2>4, <2>5, <2>10, <2>11, <2>12, <2>16, <2>17, <2>18 DEF FoundAt
<1> QED BY <1>1, <1>2

(* The inductive invariant.                                                  *)
AllInv == Types /\ AllSafe /\ BuiltInv /\ GroupsInv /\ ConfiguringInv /\ MemoryInv

(* A slave with nothing left to write exchanges the fields of its group.     *)
LEMMA ServedThen ==
  ASSUME AllInv, NEW s \in Slaves, NEW m \in Mappings, latest[s] = m, FixedWhole(m, s),
         NEW f \in group[m].fields, f.slave = s
  PROVE  Served(m, f)
<1>1. PICK g \in GroupType : g = group[m]
  BY DEF AllInv, Types, GroupingType
<1>2. g.made /\ s \in DOMAIN g.config /\ Leftover(g.config[s], g.offset, memory[s], <<>>) /\ Factories(memory[s])
  BY <1>1 DEF AllInv, ConfiguringInv, Configuring, Ready
<1>3. PICK held \in HeldType, base \in Nat :
        /\ held = g.config[s] /\ base = g.offset
        /\ s \in DOMAIN Laid(g) /\ Laid(g)[s] = LaidAt(held, base) /\ f \in Field
  BY <1>1, <1>2, GroupIs
<1>4. PICK mem \in SlaveType : mem = memory[s]
  BY DEF AllInv, Types, WritingType
<1>5. /\ \A p \in DOMAIN held.pdos : Made(mem.list[p]) = held.pdos[p]
      /\ \A c \in DOMAIN held.channels : /\ Made(mem.list[c]) = held.channels[c].pdos
                                         /\ mem.sync[c] = SyncOf(held, c)
      /\ \A i \in DOMAIN LaidAt(held, base) : i \in DOMAIN mem.fmmu /\ mem.fmmu[i] = LaidAt(held, base)[i]
  <2>1. Leftover(held, base, mem, <<>>) /\ Factories(mem)
    BY <1>2, <1>3, <1>4
  <2>2. \A p \in Fixed \cap DOMAIN held.pdos : Len(held.pdos[p]) = Len(Factory[p])
    BY <1>1, <1>3 DEF FixedWhole
  <2> QED BY <2>1, <2>2, LeftoverEnd
<1>6. Configuration(s, held)
  <2>1. \A x : Content(s, x) = Made(mem.list[x])
    BY <1>4 DEF Content, Made
  <2> QED BY <1>4, <1>5, <2>1 DEF Configuration
<1>7. Sound(held) /\ FieldIn(held, f)
  BY <1>1, <1>2, <1>3 DEF AllInv, GroupsInv, Holds
<1>8. PICK i \in DOMAIN held.fmmu, at \in Nat :
        EntryMaps(held.fmmu[i], f, at) /\ FoundIn(Rows(held), held.pdos, f, at)
  BY <1>7 DEF FieldIn
<1>9. PICK h \in Fmmu, e \in Fmmu :
        /\ h = held.fmmu[i] /\ e = LaidAt(held, base)[i] /\ i \in DOMAIN LaidAt(held, base)
        /\ e.logical = h.logical + base /\ e.length = h.length
        /\ e.physical = h.physical /\ e.direction = h.direction
  <2>1. /\ held.fmmu[i] \in Fmmu /\ LaidAt(held, base)[i] = Shifted(held.fmmu[i], base)
        /\ i \in DOMAIN LaidAt(held, base)
    BY LaidAtIs
  <2> QED BY <2>1, ShiftedIs
<1>10. i \in DOMAIN mem.fmmu /\ mem.fmmu[i] = e
  BY <1>5, <1>9
<1>11. FoundAt(s, f, at)
  BY <1>3, <1>6, <1>7, <1>8, FoundThere
<1>12. PICK start \in Nat, length \in Nat : start = f.logical /\ length = f.length
  BY <1>3 DEF Field
<1>13. /\ h.logical \in Nat /\ h.length \in Nat /\ h.physical \in Nat
       /\ h.logical <= start /\ start + length <= h.logical + h.length
       /\ h.direction = f.direction /\ h.physical + (start - h.logical) = at
  BY <1>8, <1>9, <1>12 DEF EntryMaps, Fmmu
<1>14. ASSUME NEW logical \in base + start .. base + start + length - 1
       PROVE  /\ logical \in Nat /\ Has(e, logical) /\ e.direction = f.direction
              /\ e.physical + base + start - e.logical = at
  <2>1. \A u, v, p, n, b \in Nat : (u <= start /\ start + length <= u + n /\ p + (start - u) = at) =>
          /\ u + b <= b + start /\ b + start + length <= (u + b) + n
          /\ p + b + start - (u + b) = at
    BY <1>12
  <2>2. h.logical + base <= base + start /\ base + start + length <= (h.logical + base) + h.length
        /\ h.physical + base + start - (h.logical + base) = at
    BY <1>13, <2>1
  <2>3. logical \in Nat
    OBVIOUS
  <2>4. PICK low, size \in Nat : low = e.logical /\ size = e.length /\ low <= base + start /\ base + start + length <= low + size
    BY <1>9, <1>13, <2>2
  <2>5. low <= logical /\ logical < low + size
    BY <2>4
  <2>6. Has(e, logical)
    BY <2>4, <2>5 DEF Has
  <2> QED BY <1>9, <1>13, <2>2, <2>3, <2>6
<1>15. ASSUME NEW b \in Nat, Has(e, b) PROVE Mapped(b) = {<<s, i>>}
  <2>1. <<s, i>> \in Mapped(b)
    BY <1>4, <1>10, <1>15 DEF Mapped, Has
  <2>2. ASSUME NEW t \in Slaves, NEW l \in DOMAIN memory[t].fmmu, Has(memory[t].fmmu[l], b)
        PROVE  t = s /\ l = i
    <3>1. PICK d : d = memory[t].fmmu[l] /\ Fits(t, l, d) /\ Has(d, b)
      BY <2>2 DEF AllInv, MemoryInv
    <3>2. PICK L : L = Laid(g) /\ OnlyItself(L) /\ s \in DOMAIN L /\ i \in DOMAIN L[s] /\ L[s][i] = e
      BY <1>1, <1>2, <1>3, <1>9 DEF AllInv, GroupsInv
    <3>3. \/ t \in DOMAIN L /\ l \in DOMAIN L[t] /\ d = L[t][l]
          \/ \A z \in DOMAIN L : \A k \in DOMAIN L[z] : ~Overlap(d, L[z][k])
      BY <1>1, <1>2, <3>1, <3>2, ZenonT(60) DEF Fits
    <3>4. Overlap(d, e)
      BY <1>15, <3>1 DEF Overlap
    <3> QED BY <3>2, <3>3, <3>4 DEF OnlyItself
  <2>3. \A h2 \in Mapped(b) : h2 = <<s, i>>
    <3> SUFFICES ASSUME NEW y \in Mapped(b) PROVE y = <<s, i>>
      OBVIOUS
    <3>1. PICK t \in Slaves : /\ y \in {t} \X DOMAIN memory[t].fmmu
                              /\ memory[y[1]].fmmu[y[2]].logical <= b
                              /\ b < memory[y[1]].fmmu[y[2]].logical + memory[y[1]].fmmu[y[2]].length
      BY DEF Mapped
    <3>2. PICK l \in DOMAIN memory[t].fmmu : y = <<t, l>>
      BY <3>1
    <3>3. Has(memory[t].fmmu[l], b)
      BY <3>1, <3>2 DEF Has
    <3> QED BY <2>2, <3>2, <3>3
  <2> QED BY <2>1, <2>3
<1>16. ASSUME NEW logical \in base + start .. base + start + length - 1
       PROVE  /\ i \in DOMAIN memory[s].fmmu /\ memory[s].fmmu[i] = e /\ Mapped(logical) = {<<s, i>>}
              /\ e.direction = f.direction
              /\ FoundAt(s, f, e.physical + base + start - e.logical)
  BY <1>4, <1>10, <1>11, <1>14, <1>15
<1>17. group[m].offset = base /\ f.logical = start /\ f.length = length
  BY <1>1, <1>3, <1>12
<1> QED BY <1>16, <1>17 DEF Served

(* Steps that neither group nor write.                                       *)
LEMMA StandsStill ==
  ASSUME AllInv, UNCHANGED <<grouping, writing>>
  PROVE  GroupsInv' /\ ConfiguringInv' /\ MemoryInv'
<1>1. group' = group /\ allocated' = allocated /\ memory' = memory /\ writing' = writing
  BY DEF grouping, writing
<1>2. SameGroups
  BY <1>1 DEF SameGroups
<1>3. \A m \in Mappings : group[m].made => group'[m] = group[m]
  BY <1>1
<1> QED BY <1>1, <1>2, <1>3, GroupsSame, QuietConfiguring, MemorySame DEF AllInv

LEMMA AllInvStep ==
  ASSUME OwnConfig, WholeBytes, ~Again, AllInv, [Next]_vars
  PROVE  AllInv'
<1>a. Types /\ AllSafe /\ BuiltInv /\ GroupsInv /\ ConfiguringInv /\ MemoryInv
  BY DEF AllInv
<1>b. Types' /\ AllSafe' /\ BuiltInv'
  BY <1>a, TypesStep, BuiltNext
<1> DEFINE Rest == GroupsInv' /\ ConfiguringInv' /\ MemoryInv'
<1>1. ASSUME NEW m \in Mappings, NEW s \in Slaves,
             \/ Slave(m, s) \/ DropSlave(m, s) \/ PushPanic(m, s)
             \/ \E r \in Registers : Register(m, s, r)
             \/ \E c \in Channels : Channel(m, s, c)
             \/ \E p \in Pdos : PushPdo(m, s, p)
             \/ \E bits \in SdoBits : PushSdo(m, s, bits)
      PROVE  Rest
  <2>1. UNCHANGED <<grouping, writing>>
    BY <1>1 DEF Slave, DropSlave, PushPanic, Register, Channel, PushPdo, PushSdo
  <2> QED BY <2>1, StandsStill
<1>2. ASSUME NEW m \in Mappings, NEW s \in Slaves, Configure(m, s) PROVE Rest
  <2>1. ConfiguringInv' /\ SameGroups
    BY <1>a, <1>2, ConfigureConfiguring
  <2>2. memory' = memory
    BY <1>2 DEF Configure
  <2> QED BY <1>a, <2>1, <2>2, GroupsSame, MemorySame
<1>3. ASSUME NEW m \in Mappings, Group(m) PROVE Rest
  <2>1. GroupsInv' /\ ~group[m].made /\ \A n \in Mappings : n # m => group'[n] = group[n]
    BY <1>a, <1>3, GroupGroups
  <2>2. \A n \in Mappings : group[n].made => group'[n] = group[n]
    BY <2>1
  <2>3. writing' = writing
    BY <1>3 DEF Group
  <2>4. MemoryInv'
    BY <1>a, <1>3, GroupMemory
  <2> QED BY <1>a, <2>1, <2>2, <2>3, <2>4, QuietConfiguring
<1>4. ASSUME NEW m \in Mappings, DropGroup(m) PROVE Rest
  BY <1>a, <1>4, DropGroupGroups, DropGroupConfiguring, DropGroupMemory
<1>5. ASSUME NEW s \in Slaves, Write(s) PROVE Rest
  <2>1. UNCHANGED grouping
    BY <1>5 DEF Write
  <2>2. SameGroups
    BY <2>1 DEF grouping, SameGroups
  <2> QED BY <1>a, <1>5, <2>2, GroupsSame, WriteConfiguring, WriteMemory
<1>6. ASSUME NEW s \in Slaves, Configured(s) PROVE Rest
  <2>1. ConfiguringInv' /\ SameGroups
    BY <1>a, <1>6, ConfiguredConfiguring
  <2>2. memory' = memory
    BY <1>6 DEF Configured
  <2> QED BY <1>a, <2>1, <2>2, GroupsSame, MemorySame
<1>7. ASSUME NEW s \in Slaves, Fail(s) PROVE Rest
  <2>1. UNCHANGED grouping /\ memory' = memory
    BY <1>7 DEF Fail
  <2>2. SameGroups
    BY <2>1 DEF grouping, SameGroups
  <2> QED BY <1>a, <1>7, <2>1, <2>2, GroupsSame, FailConfiguring, MemorySame
<1>8. ASSUME UNCHANGED vars PROVE Rest
  <2>1. UNCHANGED <<grouping, writing>>
    BY <1>8 DEF vars
  <2> QED BY <2>1, StandsStill
<1>9. Rest
  <2> HIDE DEF Rest
  <2> QED BY <1>1, <1>2, <1>3, <1>4, <1>5, <1>6, <1>7, <1>8 DEF Next
<1> QED BY <1>b, <1>9 DEF AllInv

LEMMA AllInvInit == Init => AllInv
<1> SUFFICES ASSUME Init PROVE AllInv
  OBVIOUS
<1>1. AllSafe
  <2> SUFFICES ASSUME NEW s \in Slaves PROVE Safe(memory[s].list, todo[s].writes)
    BY DEF AllSafe
  <2>1. todo[s].writes = <<>>
    BY DEF Init, Idle
  <2> QED BY <2>1, EmptySeq DEF Safe
<1> QED BY <1>1, InitTypes, BuiltInit, GroupsInit, ConfiguringInit, MemoryInit DEF AllInv

(* Each field that the mapping of the last group to configure a slave returned *)
(* for it is exchanged: one FMMU entry of the segment maps each of its bytes, to *)
(* where the slave has its value. For mappings with a Config each, SDOs of whole *)
(* bytes, and channels and PDOs that are pushed once: what users owe the code. *)
THEOREM FieldsServed ==
  ASSUME OwnConfig, WholeBytes, ~Again
  PROVE  Spec => []ConfiguredServed
<1>1. AllInv => ConfiguredServed
  <2> SUFFICES ASSUME AllInv, NEW s \in Slaves, latest[s] # Nobody, FixedWhole(latest[s], s),
                      NEW f \in group[latest[s]].fields, f.slave = s
               PROVE  Served(latest[s], f)
    BY DEF ConfiguredServed
  <2>1. PICK m \in Mappings : m = latest[s]
    BY DEF AllInv, Types, WritingType
  <2> QED BY <2>1, ServedThen
<1>2. AllInv /\ [Next]_vars => AllInv'
  BY AllInvStep
<1> QED BY <1>1, <1>2, AllInvInit, PTL DEF Spec

-----------------------------------------------------------------------------
(* Bytes of fields (module Fields) *)

Byte == 0..255

(* Bytes, at positions from 1 on.                                            *)
LEMMA BytesAre ==
  ASSUME NEW n \in Nat, NEW s \in [1..n -> Byte]
  PROVE  /\ s \in Seq(Byte) /\ Len(s) = n
<1> QED OBVIOUS

IsSlice(t, d, s, a) == t \in [1..d -> Byte] /\ \A i \in 1..d : t[i] = s[a + i]
IsJoin(u, k, s, m, t, n) ==
  u \in [1..k -> Byte] /\ (\A i \in 1..m : u[i] = s[i]) /\ (\A i \in 1..n : u[m + i] = t[i])

LEMMA SliceIs ==
  ASSUME NEW n \in Nat, NEW s \in [1..n -> Byte],
         NEW a \in Nat, NEW d \in Nat, NEW f \in Nat, NEW b \in Nat, f = a + 1, b = a + d, b <= n
  PROVE  IsSlice(SubSeq(s, f, b), d, s, a)
<1>1. \A i \in f..b : s[i] \in Byte
  OBVIOUS
<1>2. /\ SubSeq(s, f, b) \in Seq(Byte)
      /\ Len(SubSeq(s, f, b)) = IF f <= b THEN b - f + 1 ELSE 0
      /\ \A i \in 1..b - f + 1 : SubSeq(s, f, b)[i] = s[f + i - 1]
  BY <1>1, SubSeqProperties
<1>3. PICK t \in Seq(Byte) : t = SubSeq(s, f, b)
  BY <1>2
<1>4. Len(t) = d
  BY <1>2, <1>3
<1>5. t \in [1..d -> Byte]
  BY <1>4, LenProperties
<1>6. \A i \in 1..d : t[i] = s[a + i]
  <2>1. b - f + 1 = d /\ \A i \in Int : f + i - 1 = a + i
    OBVIOUS
  <2> QED BY <1>2, <1>3, <2>1
<1> QED BY <1>3, <1>5, <1>6 DEF IsSlice

LEMMA JoinIs ==
  ASSUME NEW m \in Nat, NEW n \in Nat, NEW k \in Nat, k = m + n,
         NEW s \in [1..m -> Byte], NEW t \in [1..n -> Byte]
  PROVE  IsJoin(s \o t, k, s, m, t, n)
<1>1. s \in Seq(Byte) /\ t \in Seq(Byte) /\ Len(s) = m /\ Len(t) = n
  BY BytesAre
<1>2. /\ s \o t \in Seq(Byte) /\ Len(s \o t) = k
      /\ \A i \in 1..k : (s \o t)[i] = IF i <= m THEN s[i] ELSE t[i - m]
  BY <1>1, ConcatProperties
<1>3. PICK u \in Seq(Byte) : u = s \o t
  BY <1>2
<1>4. u \in [1..k -> Byte]
  BY <1>2, <1>3, LenProperties
<1>5. \A i \in 1..m : i \in 1..k /\ i <= m
  OBVIOUS
<1>6. \A i \in 1..n : m + i \in 1..k /\ ~(m + i <= m) /\ (m + i) - m = i
  OBVIOUS
<1>7. (\A i \in 1..m : u[i] = s[i]) /\ (\A i \in 1..n : u[m + i] = t[i])
  BY <1>2, <1>3, <1>5, <1>6
<1> QED BY <1>3, <1>4, <1>7 DEF IsJoin

LEMMA ZerosAre == \A n \in Nat : Zeros(n) \in [1..n -> Byte]
BY DEF Zeros, Byte

(* A value is packed to the beginning of a slice, and the rest stays.        *)
Type == [kind : {"number", "array", "struct"}, size : Nat] \cup [kind : {"bool"}, size : {1}]

LEMMA TypeIs ==
  ASSUME NEW type \in Type
  PROVE  /\ type.size \in Nat /\ type.kind \in {"number", "array", "struct", "bool"}
         /\ type.kind = "bool" => type.size = 1
<1> QED BY DEF Type

LEMMA ValueIs ==
  ASSUME SomeBytes \subseteq Byte, NEW type \in Type, NEW value \in Values(type)
  PROVE  /\ value \in [1..type.size -> Byte]
         /\ type.kind = "bool" => value[1] \in {0, 1}
<1>1. CASE type.kind = "bool"
  <2>1. type.size = 1
    BY <1>1, TypeIs
  <2>2. value = <<0>> \/ value = <<1>>
    BY <1>1 DEF Values
  <2>3. \A b \in {0, 1} : <<b>> \in [1..1 -> Byte] /\ <<b>>[1] = b
    BY DEF Byte
  <2> QED BY <2>1, <2>2, <2>3
<1>2. CASE type.kind # "bool"
  <2>1. value \in [1..type.size -> SomeBytes]
    BY <1>2 DEF Values, Tuples
  <2>2. \A n \in Nat : \A v \in [1..n -> SomeBytes] : v \in [1..n -> Byte]
    OBVIOUS
  <2> QED BY <1>2, <2>1, <2>2, TypeIs
<1> QED BY <1>1, <1>2

(* The n bytes made of a value and of those of dst after it.                 *)
IsPacked(packed, type, value, n, dst) ==
  /\ packed \in [1..n -> Byte]
  /\ \A i \in 1..type.size : packed[i] = value[i]
  /\ \A i \in type.size + 1..n : packed[i] = dst[i]

LEMMA PackIs ==
  ASSUME NEW type \in Type, NEW value \in [1..type.size -> Byte],
         NEW n \in Nat, NEW dst \in [1..n -> Byte], type.size <= n
  PROVE  IsPacked(Pack(type, value, dst), type, value, n, dst)
<1>1. PICK k \in Nat : k = type.size
  BY TypeIs
<1>2. Len(dst) = n
  BY BytesAre
<1>3. PICK d \in Nat, f \in Nat : d = n - k /\ n = k + d /\ f = k + 1 /\ n <= n
  BY <1>1
<1>4. PICK rest \in [1..d -> Byte] : rest = SubSeq(dst, k + 1, n) /\ \A i \in 1..d : rest[i] = dst[k + i]
  <2>1. IsSlice(SubSeq(dst, f, n), d, dst, k)
    BY <1>3, SliceIs
  <2> QED BY <1>3, <2>1 DEF IsSlice
<1>5. PICK v \in [1..k -> Byte] : v = value
  BY <1>1
<1>6. PICK all \in [1..n -> Byte] :
        all = v \o rest /\ (\A i \in 1..k : all[i] = v[i]) /\ (\A i \in 1..d : all[k + i] = rest[i])
  <2>1. IsJoin(v \o rest, n, v, k, rest, d)
    BY <1>3, JoinIs
  <2> QED BY <2>1 DEF IsJoin
<1>7. Pack(type, value, dst) = all
  BY <1>1, <1>2, <1>4, <1>5, <1>6 DEF Pack
<1>8. \A i \in k + 1..n : i - k \in 1..d /\ k + (i - k) = i
  BY <1>3
<1>9. ASSUME NEW i \in k + 1..n PROVE all[i] = dst[i]
  <2>1. PICK j \in 1..d : j = i - k /\ k + j = i
    BY <1>8
  <2>2. all[k + j] = rest[j] /\ rest[j] = dst[k + j]
    BY <1>4, <1>6
  <2> QED BY <2>1, <2>2
<1> QED BY <1>1, <1>5, <1>6, <1>7, <1>9 DEF IsPacked

-----------------------------------------------------------------------------
(* ByteField                                                                 *)

Places == [byte : Nat, len : Nat]
HasRoom(field, n, type) == field \in Places /\ field.byte + field.len <= n /\ type.size <= field.len

(* after is what data is with the value of a type from some byte on.         *)
HasValue(after, n, data, byte, type, value) ==
  /\ after \in [1..n -> Byte]
  /\ \A i \in 1..type.size : after[byte + i] = value[i]
  /\ \A i \in 1..n : i \notin byte + 1..byte + type.size => after[i] = data[i]

LEMMA ByteSetIs ==
  ASSUME NEW type \in Type, NEW value \in [1..type.size -> Byte], NEW n \in Nat, NEW data \in [1..n -> Byte],
         NEW field, HasRoom(field, n, type)
  PROVE  HasValue(ByteSet(field, type, data, value), n, data, field.byte, type, value)
<1>13. PICK byte \in Nat, len \in Nat : field.byte = byte /\ field.len = len /\ byte + len <= n /\ type.size <= len
  BY DEF HasRoom, Places
<1>1. PICK k \in Nat : k = type.size
  BY TypeIs
<1>2. Len(data) = n
  BY BytesAre
<1>3. PICK first \in [1..byte -> Byte] : first = SubSeq(data, 1, byte) /\ \A i \in 1..byte : first[i] = data[i]
  <2>1. PICK z \in Nat : z = 0 /\ 1 = z + 1 /\ byte = z + byte /\ \A i \in 1..byte : z + i = i
    OBVIOUS
  <2>2. PICK first \in [1..byte -> Byte] : first = SubSeq(data, 1, byte) /\ \A i \in 1..byte : first[i] = data[z + i]
    <3>1. IsSlice(SubSeq(data, 1, byte), byte, data, z)
      BY <1>13, <2>1, SliceIs
    <3> QED BY <3>1 DEF IsSlice
  <2> QED BY <2>1, <2>2
<1>8. PICK m \in Nat, r \in Nat : m = byte + len /\ r = n - m /\ n = m + r
  <2>1. byte + len \in Nat /\ n - (byte + len) \in Nat /\ n = byte + len + (n - (byte + len))
    BY <1>13
  <2> QED BY <2>1
<1>4. PICK slice \in [1..len -> Byte] : slice = SubSeq(data, byte + 1, m) /\ \A i \in 1..len : slice[i] = data[byte + i]
  <2>1. IsSlice(SubSeq(data, byte + 1, m), len, data, byte)
    BY <1>8, SliceIs
  <2> QED BY <2>1 DEF IsSlice
<1>5. PICK rest \in [1..r -> Byte] : rest = SubSeq(data, m + 1, n) /\ \A i \in 1..r : rest[i] = data[m + i]
  <2>1. PICK f \in Nat : f = m + 1 /\ n <= n
    BY <1>8
  <2>2. IsSlice(SubSeq(data, f, n), r, data, m)
    BY <1>8, <2>1, SliceIs
  <2> QED BY <2>1, <2>2 DEF IsSlice
<1>6. PICK packed \in [1..len -> Byte] :
        /\ packed = Pack(type, value, slice)
        /\ \A i \in 1..k : packed[i] = value[i]
        /\ \A i \in k + 1..len : packed[i] = slice[i]
  <2>1. IsPacked(Pack(type, value, slice), type, value, len, slice)
    BY <1>13, PackIs
  <2> QED BY <1>1, <2>1 DEF IsPacked
<1>7. ByteSet(field, type, data, value) = (first \o packed) \o rest
  BY <1>2, <1>3, <1>4, <1>5, <1>6, <1>8, <1>13 DEF ByteSet
<1>9. PICK fore \in [1..m -> Byte] :
        /\ fore = first \o packed
        /\ \A i \in 1..byte : fore[i] = first[i]
        /\ \A i \in 1..len : fore[byte + i] = packed[i]
  <2>1. IsJoin(first \o packed, m, first, byte, packed, len)
    BY <1>8, JoinIs
  <2> QED BY <2>1 DEF IsJoin
<1>10. PICK all \in [1..n -> Byte] :
        /\ all = fore \o rest
        /\ \A i \in 1..m : all[i] = fore[i]
        /\ \A i \in 1..r : all[m + i] = rest[i]
  <2>1. IsJoin(fore \o rest, n, fore, m, rest, r)
    BY <1>8, JoinIs
  <2> QED BY <2>1 DEF IsJoin
<1>11. \A i \in 1..k : all[byte + i] = value[i]
  <2>1. \A i \in 1..k : i \in 1..len /\ byte + i \in 1..m
    BY <1>1, <1>8, <1>13
  <2> QED BY <1>6, <1>9, <1>10, <2>1
<1>12. ASSUME NEW i \in 1..n, i \notin byte + 1..byte + k PROVE all[i] = data[i]
  <2>1. CASE i <= byte
    <3>1. i \in 1..byte /\ i \in 1..m
      BY <1>8, <1>13, <2>1
    <3> QED BY <1>3, <1>9, <1>10, <3>1
  <2>2. CASE i > byte /\ i <= m
    <3>1. PICK j \in k + 1..len : i = byte + j /\ j \in 1..len
      <4>1. i - byte \in k + 1..len /\ i - byte \in 1..len /\ i = byte + (i - byte)
        BY <1>1, <1>8, <1>12, <1>13, <2>2
      <4> QED BY <4>1
    <3>2. all[i] = packed[j]
      BY <1>9, <1>10, <2>2, <3>1
    <3> QED BY <1>4, <1>6, <3>1, <3>2
  <2>3. CASE i > m
    <3>1. PICK j \in 1..r : i = m + j
      <4>1. i - m \in 1..r /\ i = m + (i - m)
        BY <1>8, <2>3
      <4> QED BY <4>1
    <3> QED BY <1>5, <1>10, <3>1
  <2> QED BY <1>8, <2>1, <2>2, <2>3
<1>14. HasValue(all, n, data, byte, type, value)
  BY <1>1, <1>11, <1>12 DEF HasValue
<1> QED BY <1>7, <1>9, <1>10, <1>13, <1>14

(* What is read of the bytes of a field.                                     *)
Read(type, data, byte) ==
  IF type.kind = "bool" THEN <<data[byte + 1] % 2>> ELSE [i \in 1..type.size |-> data[byte + i]]

LEMMA ByteGetIs ==
  ASSUME NEW type \in Type, NEW n \in Nat, NEW data \in [1..n -> Byte], NEW field, HasRoom(field, n, type)
  PROVE  ByteGet(field, type, data) = Read(type, data, field.byte)
<1>7. PICK byte \in Nat, len \in Nat : field.byte = byte /\ field.len = len /\ byte + len <= n /\ type.size <= len
  BY DEF HasRoom, Places
<1>1. PICK k \in Nat : k = type.size /\ (type.kind = "bool" => k = 1)
  BY TypeIs
<1>6. PICK m \in Nat : m = byte + len
  BY <1>7
<1>2. PICK slice \in [1..len -> Byte] : slice = SubSeq(data, byte + 1, m) /\ \A i \in 1..len : slice[i] = data[byte + i]
  <2>1. IsSlice(SubSeq(data, byte + 1, m), len, data, byte)
    BY <1>6, <1>7, SliceIs
  <2> QED BY <2>1 DEF IsSlice
<1>3. ByteGet(field, type, data) = Unpack(type, slice)
  BY <1>2, <1>6, <1>7 DEF ByteGet
<1>4. CASE type.kind = "bool"
  BY <1>1, <1>2, <1>3, <1>4, <1>7 DEF Unpack, Read
<1>5. CASE type.kind # "bool"
  <2>1. \A i \in 1..k : i \in 1..len
    BY <1>1, <1>7
  <2>2. [i \in 1..k |-> slice[i]] = [i \in 1..k |-> data[byte + i]]
    BY <1>2, <2>1
  <2> QED BY <1>1, <1>3, <1>5, <1>7, <2>2 DEF Unpack, Read
<1> QED BY <1>4, <1>5

LEMMA ReadValue ==
  ASSUME NEW type \in Type, NEW value \in [1..type.size -> Byte], type.kind = "bool" => value[1] \in {0, 1},
         NEW data, NEW byte \in Nat, \A i \in 1..type.size : data[byte + i] = value[i]
  PROVE  Read(type, data, byte) = value
<1>1. PICK k \in Nat : k = type.size /\ (type.kind = "bool" => k = 1)
  BY TypeIs
<1>2. CASE type.kind = "bool"
  <2>1. data[byte + 1] = value[1] /\ value[1] % 2 = value[1]
    BY <1>1, <1>2
  <2>2. value = <<value[1]>>
    BY <1>1, <1>2
  <2> QED BY <1>2, <2>1, <2>2 DEF Read
<1>3. CASE type.kind # "bool"
  <2>1. [i \in 1..k |-> data[byte + i]] = value
    BY <1>1
  <2> QED BY <1>1, <1>3, <2>1 DEF Read
<1> QED BY <1>2, <1>3

-----------------------------------------------------------------------------
(* Bits of a byte                                                            *)

Weights == {1, 2, 4, 8, 16, 32, 64, 128}
BitOf(b, w) == (b \div w) % 2

LEMMA WeightIs ==
  /\ \A r \in 0..7 : 2 ^ r \in Weights
  /\ \A r, t \in 0..7 : r # t => 2 ^ r # 2 ^ t
  /\ 2 ^ 0 = 1
<1>1. /\ 2 ^ 0 = 1 /\ 2 ^ 1 = 2 /\ 2 ^ 2 = 4 /\ 2 ^ 3 = 8
      /\ 2 ^ 4 = 16 /\ 2 ^ 5 = 32 /\ 2 ^ 6 = 64 /\ 2 ^ 7 = 128
  OBVIOUS
<1>2. \A r \in 0..7 : r \in {0, 1, 2, 3, 4, 5, 6, 7}
  OBVIOUS
<1> QED BY <1>1, <1>2 DEF Weights

LEMMA BitIs == \A b \in Byte, w \in Weights : BitOf(b, w) \in {0, 1}
BY DEF Byte, Weights, BitOf

(* Other bits of a byte do not depend on one.                                *)
LEMMA OthersStayCleared ==
  \A b \in Byte, w, v \in Weights : w # v /\ BitOf(b, w) = 1 => BitOf(b - w, v) = BitOf(b, v)
<1>1. \A b \in Byte, v \in Weights : 1 # v /\ BitOf(b, 1) = 1 => BitOf(b - 1, v) = BitOf(b, v)
  BY SMTT(30) DEF Byte, Weights, BitOf
<1>2. \A b \in Byte, v \in Weights : 2 # v /\ BitOf(b, 2) = 1 => BitOf(b - 2, v) = BitOf(b, v)
  BY SMTT(30) DEF Byte, Weights, BitOf
<1>3. \A b \in Byte, v \in Weights : 4 # v /\ BitOf(b, 4) = 1 => BitOf(b - 4, v) = BitOf(b, v)
  BY SMTT(30) DEF Byte, Weights, BitOf
<1>4. \A b \in Byte, v \in Weights : 8 # v /\ BitOf(b, 8) = 1 => BitOf(b - 8, v) = BitOf(b, v)
  BY SMTT(30) DEF Byte, Weights, BitOf
<1>5. \A b \in Byte, v \in Weights : 16 # v /\ BitOf(b, 16) = 1 => BitOf(b - 16, v) = BitOf(b, v)
  BY SMTT(30) DEF Byte, Weights, BitOf
<1>6. \A b \in Byte, v \in Weights : 32 # v /\ BitOf(b, 32) = 1 => BitOf(b - 32, v) = BitOf(b, v)
  BY SMTT(30) DEF Byte, Weights, BitOf
<1>7. \A b \in Byte, v \in Weights : 64 # v /\ BitOf(b, 64) = 1 => BitOf(b - 64, v) = BitOf(b, v)
  BY SMTT(30) DEF Byte, Weights, BitOf
<1>8. \A b \in Byte, v \in Weights : 128 # v /\ BitOf(b, 128) = 1 => BitOf(b - 128, v) = BitOf(b, v)
  BY SMTT(30) DEF Byte, Weights, BitOf
<1> QED BY <1>1, <1>2, <1>3, <1>4, <1>5, <1>6, <1>7, <1>8 DEF Weights

LEMMA OthersStaySet ==
  \A b \in Byte, w, v \in Weights : w # v /\ BitOf(b, w) = 0 => BitOf(b + w, v) = BitOf(b, v)
<1>1. \A b \in Byte, v \in Weights : 1 # v /\ BitOf(b, 1) = 0 => BitOf(b + 1, v) = BitOf(b, v)
  BY SMTT(30) DEF Byte, Weights, BitOf
<1>2. \A b \in Byte, v \in Weights : 2 # v /\ BitOf(b, 2) = 0 => BitOf(b + 2, v) = BitOf(b, v)
  BY SMTT(30) DEF Byte, Weights, BitOf
<1>3. \A b \in Byte, v \in Weights : 4 # v /\ BitOf(b, 4) = 0 => BitOf(b + 4, v) = BitOf(b, v)
  BY SMTT(30) DEF Byte, Weights, BitOf
<1>4. \A b \in Byte, v \in Weights : 8 # v /\ BitOf(b, 8) = 0 => BitOf(b + 8, v) = BitOf(b, v)
  BY SMTT(30) DEF Byte, Weights, BitOf
<1>5. \A b \in Byte, v \in Weights : 16 # v /\ BitOf(b, 16) = 0 => BitOf(b + 16, v) = BitOf(b, v)
  BY SMTT(30) DEF Byte, Weights, BitOf
<1>6. \A b \in Byte, v \in Weights : 32 # v /\ BitOf(b, 32) = 0 => BitOf(b + 32, v) = BitOf(b, v)
  BY SMTT(30) DEF Byte, Weights, BitOf
<1>7. \A b \in Byte, v \in Weights : 64 # v /\ BitOf(b, 64) = 0 => BitOf(b + 64, v) = BitOf(b, v)
  BY SMTT(30) DEF Byte, Weights, BitOf
<1>8. \A b \in Byte, v \in Weights : 128 # v /\ BitOf(b, 128) = 0 => BitOf(b + 128, v) = BitOf(b, v)
  BY SMTT(30) DEF Byte, Weights, BitOf
<1> QED BY <1>1, <1>2, <1>3, <1>4, <1>5, <1>6, <1>7, <1>8 DEF Weights

LEMMA ClearIs ==
  \A b \in Byte, w \in Weights :
    /\ b - BitOf(b, w) * w \in Byte
    /\ BitOf(b - BitOf(b, w) * w, w) = 0
    /\ \A v \in Weights : v # w => BitOf(b - BitOf(b, w) * w, v) = BitOf(b, v)
<1> SUFFICES ASSUME NEW b \in Byte, NEW w \in Weights
             PROVE  /\ b - BitOf(b, w) * w \in Byte
                    /\ BitOf(b - BitOf(b, w) * w, w) = 0
                    /\ \A v \in Weights : v # w => BitOf(b - BitOf(b, w) * w, v) = BitOf(b, v)
  OBVIOUS
<1>1. CASE BitOf(b, w) = 0
  <2>1. b - 0 * w = b
    BY DEF Byte, Weights
  <2> QED BY <1>1, <2>1
<1>2. CASE BitOf(b, w) = 1
  <2>1. b - BitOf(b, w) * w = b - w
    BY <1>2 DEF Weights
  <2>2. b - w \in Byte
    BY <1>2 DEF Byte, Weights, BitOf
  <2>4. BitOf(b - w, w) = 0
    <3>2. (b - w) \div w = (b \div w) - 1 /\ b \div w \in Int
      BY DEF Byte, Weights
    <3> QED BY <1>2, <3>2 DEF BitOf
  <2>3. \A v \in Weights : v # w => BitOf(b - w, v) = BitOf(b, v)
    BY <1>2, OthersStayCleared
  <2> QED BY <1>2, <2>1, <2>2, <2>3, <2>4
<1> QED BY <1>1, <1>2, BitIs

LEMMA AddIs ==
  \A b \in Byte, w \in Weights : BitOf(b, w) = 0 =>
    /\ b + w \in Byte
    /\ BitOf(b + w, w) = 1
    /\ \A v \in Weights : v # w => BitOf(b + w, v) = BitOf(b, v)
<1> SUFFICES ASSUME NEW b \in Byte, NEW w \in Weights, BitOf(b, w) = 0
             PROVE  /\ b + w \in Byte
                    /\ BitOf(b + w, w) = 1
                    /\ \A v \in Weights : v # w => BitOf(b + w, v) = BitOf(b, v)
  OBVIOUS
<1>1. BitOf(b + w, w) = 1
  BY SMTT(30) DEF Byte, Weights, BitOf
<1>2. b + w \in Byte
  <2>1. CASE w = 128
    BY <2>1 DEF Byte, BitOf
  <2>2. CASE w # 128 /\ b + w < 256
    BY <2>2 DEF Byte, Weights
  <2>3. CASE w = 64 /\ b + w >= 256
    BY <2>3 DEF Byte, BitOf
  <2>4. CASE w = 32 /\ b + w >= 256
    BY <2>4 DEF Byte, BitOf
  <2>5. CASE w <= 16 /\ b + w >= 256
    BY <2>5 DEF Byte, BitOf, Weights
  <2> QED BY <2>1, <2>2, <2>3, <2>4, <2>5 DEF Byte, Weights
<1>3. \A v \in Weights : v # w => BitOf(b + w, v) = BitOf(b, v)
  BY OthersStaySet
<1> QED BY <1>1, <1>2, <1>3

-----------------------------------------------------------------------------
(* Bits of bytes                                                             *)

(* d is what data is with `bit` for its bit i.                               *)
Sets(d, n, data, i, bit) ==
  /\ d \in [1..n -> Byte]
  /\ \A j \in BitsOf(n) : Bit(d, j) = IF j = i THEN bit ELSE Bit(data, j)

LEMMA PlaceIs ==
  ASSUME NEW n \in Nat, NEW i \in BitsOf(n)
  PROVE  /\ i \div 8 + 1 \in 1..n /\ i % 8 \in 0..7 /\ 2 ^ (i % 8) \in Weights
         /\ \A j \in BitsOf(n) : i \div 8 + 1 = j \div 8 + 1 /\ 2 ^ (i % 8) = 2 ^ (j % 8) => i = j
<1>1. i \div 8 + 1 \in 1..n /\ i % 8 \in 0..7
  BY DEF BitsOf
<1>2. ASSUME NEW j \in BitsOf(n), i \div 8 + 1 = j \div 8 + 1, 2 ^ (i % 8) = 2 ^ (j % 8) PROVE i = j
  <2>1. j % 8 \in 0..7
    BY DEF BitsOf
  <2>2. i % 8 = j % 8
    BY <1>1, <1>2, <2>1, WeightIs
  <2>3. i = 8 * (i \div 8) + (i % 8) /\ j = 8 * (j \div 8) + (j % 8) /\ i \div 8 \in Int /\ j \div 8 \in Int
    BY DEF BitsOf
  <2> QED BY <1>2, <2>2, <2>3
<1> QED BY <1>1, <1>2, WeightIs

LEMMA BitValue ==
  ASSUME NEW n \in Nat, NEW data \in [1..n -> Byte], NEW i \in BitsOf(n)
  PROVE  Bit(data, i) = BitOf(data[i \div 8 + 1], 2 ^ (i % 8)) /\ Bit(data, i) \in {0, 1}
<1>1. i \div 8 + 1 \in 1..n /\ 2 ^ (i % 8) \in Weights
  BY PlaceIs
<1>2. Bit(data, i) = BitOf(data[i \div 8 + 1], 2 ^ (i % 8))
  BY DEF Bit, BitOf
<1> QED BY <1>1, <1>2, BitIs

(* Writing a byte in which one bit differs writes that bit.                  *)
Differs(b, data, i, bit) ==
  /\ BitOf(b, 2 ^ (i % 8)) = bit
  /\ \A v \in Weights : v # 2 ^ (i % 8) => BitOf(b, v) = BitOf(data[i \div 8 + 1], v)
WithByte(data, i, b) == [data EXCEPT ![i \div 8 + 1] = b]

LEMMA WriteByteIs ==
  ASSUME NEW n \in Nat, NEW data \in [1..n -> Byte], NEW i \in BitsOf(n),
         NEW b \in Byte, NEW bit \in {0, 1}, Differs(b, data, i, bit)
  PROVE  Sets(WithByte(data, i, b), n, data, i, bit)
<1>1. PICK k \in 1..n, w \in Weights : k = i \div 8 + 1 /\ w = 2 ^ (i % 8)
  BY PlaceIs
<1>2. PICK d \in [1..n -> Byte] : d = [data EXCEPT ![i \div 8 + 1] = b]
  BY <1>1
<1>5. BitOf(b, 2 ^ (i % 8)) = bit /\ \A v \in Weights : v # 2 ^ (i % 8) => BitOf(b, v) = BitOf(data[i \div 8 + 1], v)
  BY DEF Differs
<1>3. d[k] = b /\ \A j \in 1..n : j # k => d[j] = data[j]
  BY <1>1, <1>2
<1>4. ASSUME NEW j \in BitsOf(n) PROVE Bit(d, j) = IF j = i THEN bit ELSE Bit(data, j)
  <2>1. PICK l \in 1..n, v \in Weights : l = j \div 8 + 1 /\ v = 2 ^ (j % 8)
    BY PlaceIs
  <2>2. Bit(d, j) = BitOf(d[l], v) /\ Bit(data, j) = BitOf(data[l], v)
    BY <2>1, BitValue
  <2>3. l = k /\ v = w => i = j
    BY <1>1, <2>1, PlaceIs
  <2>4. CASE j = i
    BY <1>1, <1>3, <1>5, <2>1, <2>2, <2>4
  <2>5. CASE j # i
    <3>1. CASE l = k
      BY <1>1, <1>3, <1>5, <2>1, <2>2, <2>3, <2>5, <3>1
    <3>2. CASE l # k
      BY <1>3, <2>2, <2>5, <3>2
    <3> QED BY <3>1, <3>2
  <2> QED BY <2>4, <2>5
<1> QED BY <1>2, <1>4 DEF Sets, WithByte

LEMMA ClearedSets ==
  ASSUME NEW n \in Nat, NEW data \in [1..n -> Byte], NEW i \in BitsOf(n)
  PROVE  Sets(Cleared(data, i), n, data, i, 0)
<1>1. PICK k \in 1..n, w \in Weights : k = i \div 8 + 1 /\ w = 2 ^ (i % 8)
  BY PlaceIs
<1>2. PICK b \in Byte : b = data[k] - BitOf(data[k], w) * w
  BY ClearIs
<1>3. BitOf(b, w) = 0 /\ \A v \in Weights : v # w => BitOf(b, v) = BitOf(data[k], v)
  BY <1>2, ClearIs
<1>4. Cleared(data, i) = WithByte(data, i, b)
  <2>1. Bit(data, i) = BitOf(data[k], w)
    BY <1>1, BitValue
  <2> QED BY <1>1, <1>2, <2>1 DEF Cleared, WithByte
<1>5. 0 \in {0, 1} /\ Differs(b, data, i, 0)
  BY <1>1, <1>3 DEF Differs
<1>6. Sets(WithByte(data, i, b), n, data, i, 0)
  BY <1>5, WriteByteIs
<1> QED BY <1>4, <1>6

LEMMA WithSets ==
  ASSUME NEW n \in Nat, NEW data \in [1..n -> Byte], NEW i \in BitsOf(n), NEW bit \in {0, 1}, Bit(data, i) = 0
  PROVE  Sets(With(data, i, bit), n, data, i, bit)
<1>1. CASE bit = 0
  <2>1. With(data, i, bit) = data
    BY <1>1 DEF With
  <2> QED BY <1>1, <2>1 DEF Sets
<1>2. CASE bit = 1
  <2>1. PICK k \in 1..n, w \in Weights : k = i \div 8 + 1 /\ w = 2 ^ (i % 8)
    BY PlaceIs
  <2>2. BitOf(data[k], w) = 0
    BY <2>1, BitValue
  <2>3. PICK b \in Byte : b = data[k] + w
    BY <2>2, AddIs
  <2>4. BitOf(b, w) = 1 /\ \A v \in Weights : v # w => BitOf(b, v) = BitOf(data[k], v)
    BY <2>2, <2>3, AddIs
  <2>5. With(data, i, bit) = WithByte(data, i, b)
    BY <1>2, <2>1, <2>3 DEF With, WithByte
  <2>6. Differs(b, data, i, bit)
    BY <1>2, <2>1, <2>4 DEF Differs
  <2>7. Sets(WithByte(data, i, b), n, data, i, bit)
    BY <2>6, WriteByteIs
  <2> QED BY <2>5, <2>7
<1> QED BY <1>1, <1>2

LEMMA SetBitSets ==
  ASSUME NEW n \in Nat, NEW data \in [1..n -> Byte], NEW i \in BitsOf(n), NEW bit \in {0, 1}
  PROVE  Sets(SetBit(data, i, bit), n, data, i, bit)
<1>1. PICK d : d = Cleared(data, i)
  OBVIOUS
<1>2. Sets(d, n, data, i, 0)
  BY <1>1, ClearedSets
<1>3. d \in [1..n -> Byte] /\ Bit(d, i) = 0
  BY <1>2 DEF Sets
<1>4. PICK e : e = With(d, i, bit)
  OBVIOUS
<1>5. Sets(e, n, d, i, bit)
  BY <1>3, <1>4, WithSets
<1>6. SetBit(data, i, bit) = e
  BY <1>1, <1>4 DEF SetBit
<1> QED BY <1>2, <1>5, <1>6 DEF Sets

-----------------------------------------------------------------------------
(* Fields of bits                                                            *)

(* What a definition by steps gives.                                         *)
Stepwise(g, m, D, base, step) ==
  g \in [0..m -> D] /\ g[0] = base /\ \A k \in 1..m : g[k] = step[k][g[k - 1]]

LEMMA StepwiseExists ==
  ASSUME NEW n \in Nat, NEW D, NEW base \in D, NEW step \in [1..n -> [D -> D]]
  PROVE  \E g : Stepwise(g, n, D, base, step)
<1> DEFINE T == {m \in Nat : m <= n => \E g : Stepwise(g, m, D, base, step)}
<1>1. 0 \in T
  <2>1. Stepwise([k \in 0..0 |-> base], 0, D, base, step)
    BY DEF Stepwise
  <2> QED BY <2>1
<1>2. ASSUME NEW m \in Nat, m \in T PROVE m + 1 \in T
  <2> SUFFICES ASSUME m + 1 <= n PROVE \E g : Stepwise(g, m + 1, D, base, step)
    OBVIOUS
  <2>1. PICK g : Stepwise(g, m, D, base, step)
    BY <1>2
  <2>2. PICK f \in [D -> D], d \in D : f = step[m + 1] /\ d = g[m]
    <3>1. m + 1 \in 1..n /\ m \in 0..m
      OBVIOUS
    <3>2. step[m + 1] \in [D -> D]
      BY <3>1
    <3>3. g[m] \in D
      BY <2>1, <3>1 DEF Stepwise
    <3> QED BY <3>2, <3>3
  <2>3. PICK h \in [0..m + 1 -> D] : h = [k \in 0..m + 1 |-> IF k = m + 1 THEN f[d] ELSE g[k]]
    <3>1. \A k \in 0..m + 1 : k # m + 1 => k \in 0..m
      OBVIOUS
    <3>2. \A k \in 0..m + 1 : (IF k = m + 1 THEN f[d] ELSE g[k]) \in D
      BY <2>1, <3>1 DEF Stepwise
    <3> QED BY <3>2
  <2>4. \A k \in 0..m : k # m + 1 /\ k \in 0..m + 1
    OBVIOUS
  <2>5. \A k \in 0..m : h[k] = g[k]
    BY <2>3, <2>4
  <2>6. h[0] = base
    BY <2>1, <2>5 DEF Stepwise
  <2>7. ASSUME NEW k \in 1..m + 1 PROVE h[k] = step[k][h[k - 1]]
    <3>1. CASE k = m + 1
      <4>1. k - 1 = m /\ m \in 0..m /\ m + 1 \in 0..m + 1
        BY <3>1
      <4> QED BY <2>2, <2>3, <2>5, <3>1, <4>1
    <3>2. CASE k # m + 1
      <4>1. k \in 1..m /\ k \in 0..m /\ k - 1 \in 0..m
        BY <3>2
      <4> QED BY <2>1, <2>5, <4>1 DEF Stepwise
    <3> QED BY <3>1, <3>2
  <2>8. Stepwise(h, m + 1, D, base, step)
    BY <2>6, <2>7 DEF Stepwise
  <2> QED BY <2>8
<1> HIDE DEF T
<1>3. Nat \subseteq T
  BY <1>1, <1>2, Induction
<1> QED BY <1>3 DEF T

(* d is what data is with k bits from a first one on.                        *)
Written(d, n, data, first, bits, k) ==
  /\ d \in [1..n -> Byte]
  /\ \A i \in BitsOf(n) : Bit(d, i) = IF i \in first..first + k - 1 THEN bits[i - first] ELSE Bit(data, i)

LEMMA WrittenStep ==
  ASSUME NEW n \in Nat, NEW d, NEW e, NEW data, NEW first \in Nat, NEW k \in Nat \ {0}, NEW bits,
         Written(d, n, data, first, bits, k - 1),
         Sets(e, n, d, first + k - 1, bits[k - 1])
  PROVE  Written(e, n, data, first, bits, k)
<1> SUFFICES ASSUME NEW i \in BitsOf(n)
             PROVE  Bit(e, i) = IF i \in first..first + k - 1 THEN bits[i - first] ELSE Bit(data, i)
  BY DEF Written, Sets
<1>1. i \in Int
  BY DEF BitsOf
<1>2. Bit(e, i) = IF i = first + k - 1 THEN bits[k - 1] ELSE Bit(d, i)
  BY DEF Sets
<1>3. Bit(d, i) = IF i \in first..first + (k - 1) - 1 THEN bits[i - first] ELSE Bit(data, i)
  BY DEF Written
<1>4. CASE i = first + k - 1
  <2>1. i - first = k - 1 /\ i \in first..first + k - 1
    BY <1>4
  <2> QED BY <1>2, <1>4, <2>1
<1>5. CASE i # first + k - 1
  <2>1. i \in first..first + k - 1 <=> i \in first..first + (k - 1) - 1
    BY <1>1, <1>5
  <2> QED BY <1>2, <1>3, <1>5, <2>1
<1> QED BY <1>4, <1>5

(* Steps that each write the next bit write all of them.                     *)
LEMMA WrittenSteps ==
  ASSUME NEW n \in Nat, NEW data \in [1..n -> Byte], NEW first \in Nat, NEW len \in Nat, NEW bits,
         NEW g, g[0] = data,
         \A k \in 1..len : Written(g[k - 1], n, data, first, bits, k - 1)
                           => Sets(g[k], n, g[k - 1], first + k - 1, bits[k - 1])
  PROVE  Written(g[len], n, data, first, bits, len)
<1> DEFINE T == {k \in Nat : k <= len => Written(g[k], n, data, first, bits, k)}
<1>1. 0 \in T
  <2>1. \A i \in Int : i \notin first..first + 0 - 1
    OBVIOUS
  <2>2. BitsOf(n) \subseteq Int
    BY DEF BitsOf
  <2> QED BY <2>1, <2>2 DEF Written
<1>2. ASSUME NEW k \in Nat, k \in T PROVE k + 1 \in T
  <2> SUFFICES ASSUME k + 1 <= len PROVE Written(g[k + 1], n, data, first, bits, k + 1)
    OBVIOUS
  <2>1. PICK l \in 1..len : l = k + 1 /\ k = l - 1 /\ l \in Nat \ {0}
    OBVIOUS
  <2>2. PICK d, e : d = g[k] /\ e = g[l]
    OBVIOUS
  <2>3. Written(d, n, data, first, bits, l - 1)
    BY <1>2, <2>1, <2>2
  <2>4. Sets(e, n, d, first + l - 1, bits[l - 1])
    BY <2>1, <2>2, <2>3
  <2>5. Written(e, n, data, first, bits, l)
    BY <2>3, <2>4, WrittenStep
  <2> QED BY <2>1, <2>2, <2>5
<1> HIDE DEF T
<1>3. Nat \subseteq T
  BY <1>1, <1>2, Induction
<1> QED BY <1>3 DEF T

LEMMA WithClosed ==
  ASSUME NEW n \in Nat, NEW data \in [1..n -> Byte], NEW i \in BitsOf(n), NEW bit \in {0, 1}
  PROVE  With(data, i, bit) \in [1..n -> Byte]
<1>1. CASE Bit(data, i) = 0
  BY <1>1, WithSets DEF Sets
<1>2. CASE Bit(data, i) # 0
  BY <1>2 DEF With
<1> QED BY <1>1, <1>2

(* Bits of a field.                                                          *)
FieldBits(data, first, len) == [k \in 0..len - 1 |-> Bit(data, first + k)]

LEMMA BitSetIs ==
  ASSUME NEW n \in Nat, NEW data \in [1..n -> Byte], NEW m \in Nat, NEW buf \in [1..m -> Byte],
         NEW field, NEW bit \in Nat, NEW len \in Nat, field.bit = bit, field.len = len, bit + len <= 8 * n, len <= 8 * m,
         NEW type, NEW value, Pack(type, value, Zeros(BitBuffer)) = buf
  PROVE  Written(BitSet(field, type, data, value), n, data, bit, FieldBits(buf, 0, len), len)
<1> DEFINE D == [1..n -> Byte]
           bits == FieldBits(buf, 0, len)
           Steps(g) == g = [k \in 0..len |-> IF k = 0 THEN data
                                             ELSE SetBit(g[k - 1], bit + k - 1, Bit(buf, k - 1))]
<1>1. ASSUME NEW k \in 1..len
      PROVE  /\ bit + k - 1 \in BitsOf(n) /\ bits[k - 1] = Bit(buf, k - 1) /\ bits[k - 1] \in {0, 1}
  <2>1. bit + k - 1 \in BitsOf(n) /\ k - 1 \in BitsOf(m) /\ k - 1 \in 0..len - 1 /\ 0 + (k - 1) = k - 1
    BY DEF BitsOf
  <2> QED BY <2>1, BitValue DEF FieldBits
<1>2. \E g : Steps(g)
  <2> DEFINE step == [k \in 1..len |-> [d \in D |-> SetBit(d, bit + k - 1, Bit(buf, k - 1))]]
  <2>1. step \in [1..len -> [D -> D]]
    <3> SUFFICES ASSUME NEW k \in 1..len, NEW d \in D PROVE SetBit(d, bit + k - 1, Bit(buf, k - 1)) \in D
      OBVIOUS
    <3>1. PICK i \in BitsOf(n), b \in {0, 1} : i = bit + k - 1 /\ b = Bit(buf, k - 1)
      BY <1>1
    <3>2. Sets(SetBit(d, i, b), n, d, i, b)
      BY SetBitSets
    <3> QED BY <3>1, <3>2 DEF Sets
  <2>2. \A k \in 1..len, d \in D : step[k][d] = SetBit(d, bit + k - 1, Bit(buf, k - 1))
    OBVIOUS
  <2> HIDE DEF step, D
  <2>3. data \in D
    BY DEF D
  <2>4. PICK g : Stepwise(g, len, D, data, step)
    BY <2>1, <2>3, StepwiseExists
  <2>5. \A k \in 0..len : k # 0 => k \in 1..len /\ k - 1 \in 0..len
    OBVIOUS
  <2>6. \A k \in 0..len : g[k] = IF k = 0 THEN data ELSE SetBit(g[k - 1], bit + k - 1, Bit(buf, k - 1))
    BY <2>2, <2>4, <2>5 DEF Stepwise
  <2>7. Steps(g)
    BY <2>4, <2>6 DEF Stepwise
  <2> QED BY <2>7
<1>3. PICK g : Steps(g) /\ BitSet(field, type, data, value) = g[len]
  BY <1>2 DEF BitSet
<1>4. g[0] = data /\ \A k \in 1..len : g[k] = SetBit(g[k - 1], bit + k - 1, Bit(buf, k - 1))
  BY <1>3
<1> HIDE DEF bits, Steps
<1>5. ASSUME NEW k \in 1..len, Written(g[k - 1], n, data, bit, bits, k - 1)
      PROVE  Sets(g[k], n, g[k - 1], bit + k - 1, bits[k - 1])
  <2>1. PICK d \in D : d = g[k - 1]
    BY <1>5 DEF Written
  <2>2. PICK i \in BitsOf(n), b \in {0, 1} : i = bit + k - 1 /\ b = bits[k - 1] /\ b = Bit(buf, k - 1)
    BY <1>1
  <2>3. Sets(SetBit(d, i, b), n, d, i, b)
    BY SetBitSets
  <2> QED BY <1>4, <2>1, <2>2, <2>3
<1>6. Written(g[len], n, data, bit, bits, len)
  BY <1>4, <1>5, WrittenSteps
<1> QED BY <1>3, <1>6 DEF bits

LEMMA ZeroBits == \A n \in Nat : \A i \in BitsOf(n) : Bit(Zeros(n), i) = 0
<1> SUFFICES ASSUME NEW n \in Nat, NEW i \in BitsOf(n) PROVE Bit(Zeros(n), i) = 0
  OBVIOUS
<1>1. PICK k \in 1..n, w \in Weights : k = i \div 8 + 1 /\ w = 2 ^ (i % 8)
  BY PlaceIs
<1>2. Bit(Zeros(n), i) = BitOf(0, w)
  BY <1>1, ZerosAre, BitValue DEF Zeros
<1>3. BitOf(0, w) = 0
  BY DEF BitOf, Weights
<1> QED BY <1>2, <1>3

(* What is got of the bits of a field before it is unpacked.                 *)
LEMMA BitGetIs ==
  ASSUME BitBuffer \in Nat, NEW n \in Nat, NEW data \in [1..n -> Byte], NEW type,
         NEW field, NEW bit \in Nat, NEW len \in Nat, field.bit = bit, field.len = len,
         bit + len <= 8 * n, len <= 8 * BitBuffer
  PROVE  \E buf : /\ Written(buf, BitBuffer, Zeros(BitBuffer), 0, FieldBits(data, bit, len), len)
                  /\ BitGet(field, type, data) = Unpack(type, buf)
<1> DEFINE D == [1..BitBuffer -> Byte]
           bits == FieldBits(data, bit, len)
           Steps(g) == g = [k \in 0..len |-> IF k = 0 THEN Zeros(BitBuffer)
                                             ELSE With(g[k - 1], k - 1, Bit(data, bit + k - 1))]
<1>1. ASSUME NEW k \in 1..len
      PROVE  /\ k - 1 \in BitsOf(BitBuffer) /\ bits[k - 1] = Bit(data, bit + k - 1) /\ bits[k - 1] \in {0, 1}
  <2>1. bit + k - 1 \in BitsOf(n) /\ k - 1 \in BitsOf(BitBuffer) /\ k - 1 \in 0..len - 1 /\ bit + (k - 1) = bit + k - 1
    BY DEF BitsOf
  <2> QED BY <2>1, BitValue DEF FieldBits
<1>2. \E g : Steps(g)
  <2> DEFINE step == [k \in 1..len |-> [d \in D |-> With(d, k - 1, Bit(data, bit + k - 1))]]
  <2>1. step \in [1..len -> [D -> D]]
    <3> SUFFICES ASSUME NEW k \in 1..len, NEW d \in D PROVE With(d, k - 1, Bit(data, bit + k - 1)) \in D
      OBVIOUS
    <3>1. PICK i \in BitsOf(BitBuffer), b \in {0, 1} : i = k - 1 /\ b = Bit(data, bit + k - 1)
      BY <1>1
    <3>2. With(d, i, b) \in D
      BY WithClosed
    <3> QED BY <3>1, <3>2
  <2>2. \A k \in 1..len, d \in D : step[k][d] = With(d, k - 1, Bit(data, bit + k - 1))
    OBVIOUS
  <2> HIDE DEF step, D
  <2>3. Zeros(BitBuffer) \in D
    BY ZerosAre DEF D
  <2>4. PICK g : Stepwise(g, len, D, Zeros(BitBuffer), step)
    BY <2>1, <2>3, StepwiseExists
  <2>5. \A k \in 0..len : k # 0 => k \in 1..len /\ k - 1 \in 0..len
    OBVIOUS
  <2>6. \A k \in 0..len : g[k] = IF k = 0 THEN Zeros(BitBuffer) ELSE With(g[k - 1], k - 1, Bit(data, bit + k - 1))
    BY <2>2, <2>4, <2>5 DEF Stepwise
  <2>7. Steps(g)
    BY <2>4, <2>6 DEF Stepwise
  <2> QED BY <2>7
<1>3. PICK g : Steps(g) /\ BitGet(field, type, data) = Unpack(type, g[len])
  BY <1>2 DEF BitGet
<1>4. g[0] = Zeros(BitBuffer) /\ \A k \in 1..len : g[k] = With(g[k - 1], k - 1, Bit(data, bit + k - 1))
  <2>1. g[0] = Zeros(BitBuffer)
    BY <1>3
  <2>2. \A k \in 1..len : k \in 0..len /\ k # 0
    OBVIOUS
  <2>3. \A k \in 1..len : g[k] = With(g[k - 1], k - 1, Bit(data, bit + k - 1))
    BY <1>3, <2>2
  <2> QED BY <2>1, <2>3
<1> HIDE DEF bits, Steps
<1>5. ASSUME NEW k \in 1..len, Written(g[k - 1], BitBuffer, Zeros(BitBuffer), 0, bits, k - 1)
      PROVE  Sets(g[k], BitBuffer, g[k - 1], 0 + k - 1, bits[k - 1])
  <2>1. PICK d \in D : d = g[k - 1]
    BY <1>5 DEF Written
  <2>2. PICK i \in BitsOf(BitBuffer), b \in {0, 1} :
          i = k - 1 /\ 0 + k - 1 = i /\ b = bits[k - 1] /\ b = Bit(data, bit + k - 1)
    BY <1>1, SMTT(60)
  <2>3. Bit(d, i) = 0
    <3>1. i \notin 0..0 + (k - 1) - 1
      BY <2>2
    <3>2. Bit(d, i) = Bit(Zeros(BitBuffer), i)
      BY <1>5, <2>1, <3>1 DEF Written
    <3> QED BY <3>2, ZeroBits
  <2>4. Sets(With(d, i, b), BitBuffer, d, i, b)
    BY <2>3, WithSets
  <2> QED BY <1>4, <2>1, <2>2, <2>4
<1>6. Zeros(BitBuffer) \in D
  BY ZerosAre
<1>7. Written(g[len], BitBuffer, Zeros(BitBuffer), 0, bits, len)
  BY <1>4, <1>5, <1>6, WrittenSteps
<1> QED BY <1>3, <1>7 DEF bits

-----------------------------------------------------------------------------
(* The properties of fields                                                  *)

Assumed ==
  /\ BitBuffer \in Nat /\ Header \in Nat /\ MinFrame \in Nat /\ DataSize \in Nat
  /\ SomeBytes \subseteq Byte /\ SomeTypes \subseteq Type

LEMMA AssumedHolds == Assumed
BY FieldsAssumption DEF Assumed, Byte, Type

LEMMA TuplesAre == \A n \in Nat : \A data \in Tuples(n) : data \in [1..n -> Byte]
<1> SUFFICES ASSUME NEW n \in Nat, NEW data \in [1..n -> SomeBytes] PROVE data \in [1..n -> Byte]
  BY DEF Tuples
<1> QED BY AssumedHolds DEF Assumed

(* A field of bytes reads what was set, and the other bytes stay.            *)
THEOREM ByteFieldsHold == ByteFieldsExact
<1> SUFFICES ASSUME NEW type \in SomeTypes,
                    NEW field \in {f \in ByteFields : PacksTo(type, f.len) /\ UnpacksFrom(type, f.len)},
                    NEW data \in Tuples(DataSize), NEW value \in Values(type), NEW after,
                    after = ByteSet(field, type, data, value)
             PROVE  /\ Len(after) = DataSize /\ ByteGet(field, type, after) = value
                    /\ \A i \in 1..DataSize : i \notin (field.byte + 1)..(field.byte + field.len) => after[i] = data[i]
  BY DEF ByteFieldsExact
<1>1. type \in Type /\ DataSize \in Nat /\ data \in [1..DataSize -> Byte]
  BY AssumedHolds, TuplesAre DEF Assumed
<1>2. value \in [1..type.size -> Byte] /\ (type.kind = "bool" => value[1] \in {0, 1})
  BY <1>1, AssumedHolds, ValueIs DEF Assumed
<1>3. PICK k \in Nat : k = type.size
  BY <1>1, TypeIs
<1>4. PICK byte \in Nat, len \in Nat : field.byte = byte /\ field.len = len /\ HasRoom(field, DataSize, type) /\ byte + len <= DataSize /\ type.size <= len
  <2>1. field \in Places /\ field.byte \in Nat /\ field.len \in Nat /\ field.byte + field.len <= DataSize
    BY <1>1 DEF ByteFields, Places
  <2>2. type.size <= field.len
    BY <1>3, <2>1 DEF PacksTo
  <2> QED BY <2>1, <2>2 DEF HasRoom
<1>5. /\ after \in [1..DataSize -> Byte]
      /\ \A i \in 1..type.size : after[byte + i] = value[i]
      /\ \A i \in 1..DataSize : i \notin byte + 1..byte + type.size => after[i] = data[i]
  <2>1. HasValue(ByteSet(field, type, data, value), DataSize, data, field.byte, type, value)
    BY <1>1, <1>2, <1>4, ByteSetIs
  <2> QED BY <1>4, <2>1 DEF HasValue
<1>6. ByteGet(field, type, after) = Read(type, after, byte)
  BY <1>1, <1>4, <1>5, ByteGetIs
<1>7. Read(type, after, byte) = value
  BY <1>1, <1>2, <1>5, ReadValue
<1>8. Len(after) = DataSize
  BY <1>1, <1>5, BytesAre
<1>9. ASSUME NEW i \in 1..DataSize, i \notin byte + 1..byte + len PROVE after[i] = data[i]
  <2>1. i \notin byte + 1..byte + k
    BY <1>3, <1>4, <1>9
  <2> QED BY <1>3, <1>5, <2>1
<1> QED BY <1>4, <1>6, <1>7, <1>8, <1>9

(* Bits of a value in the buffer it is packed to, and of what is unpacked.   *)
LEMMA BoolBits ==
  ASSUME NEW b \in Byte, NEW i \in BitsOf(1)
  PROVE  Bit(<<b % 2>>, i) = IF i = 0 THEN Bit(<<b>>, 0) ELSE 0
<1>1. i \in 0..7 /\ i \div 8 + 1 = 1 /\ i % 8 = i /\ 0 \div 8 + 1 = 1 /\ 0 % 8 = 0
  BY DEF BitsOf
<1>2. Bit(<<b % 2>>, i) = BitOf(b % 2, 2 ^ i) /\ Bit(<<b>>, 0) = BitOf(b, 2 ^ 0)
  BY <1>1 DEF Bit, BitOf
<1>3. CASE i = 0
  <2>1. BitOf(b % 2, 1) = BitOf(b, 1)
    BY DEF BitOf, Byte
  <2> QED BY <1>2, <1>3, <2>1, WeightIs
<1>4. CASE i # 0
  <2>1. 2 ^ i \in Weights \ {1}
    <3>1. 0 \in 0..7
      OBVIOUS
    <3>2. 2 ^ i # 2 ^ 0 /\ 2 ^ i \in Weights /\ 2 ^ 0 = 1
      BY <1>1, <1>4, <3>1, WeightIs
    <3> QED BY <3>2
  <2>2. \A w \in Weights \ {1} : BitOf(b % 2, w) = 0
    BY DEF BitOf, Byte, Weights
  <2> QED BY <1>2, <1>4, <2>1, <2>2
<1> QED BY <1>3, <1>4

SameBytes(n, a, b) == \A j \in 1..n : a[j] = b[j]

LEMMA BitsSame ==
  ASSUME NEW n \in Nat, NEW a, NEW b, SameBytes(n, a, b)
  PROVE  \A i \in BitsOf(n) : Bit(a, i) = Bit(b, i)
<1>1. \A i \in BitsOf(n) : i \div 8 + 1 \in 1..n
  BY PlaceIs
<1> QED BY <1>1 DEF SameBytes, Bit

(* Setting a field of bits writes the bits of the value to it and no other,  *)
(* and getting it gives the bits back.                                       *)
THEOREM BitFieldsHold == BitFieldsExact
<1> SUFFICES ASSUME NEW type \in {t \in SomeTypes : PacksTo(t, BitBuffer) /\ UnpacksFrom(t, BitBuffer)},
                    NEW field \in BitFields, NEW data \in Tuples(DataSize), NEW value \in Values(type),
                    NEW after, after = BitSet(field, type, data, value),
                    NEW whole, whole = Pack(type, value, Zeros(BitBuffer)),
                    NEW again, again = BitGet(field, type, after)
             PROVE  /\ \A i \in BitsOf(DataSize) :
                         Bit(after, i) = IF Covers(field, i) THEN Bit(whole, i - field.bit) ELSE Bit(data, i)
                    /\ \A i \in BitsOf(type.size) :
                         Bit(again, i) = IF i < field.len THEN Bit(value, i) ELSE 0
  BY DEF BitFieldsExact
<1>1. type \in Type /\ DataSize \in Nat /\ BitBuffer \in Nat /\ data \in [1..DataSize -> Byte]
  BY AssumedHolds, TuplesAre DEF Assumed
<1>2. value \in [1..type.size -> Byte] /\ (type.kind = "bool" => value[1] \in {0, 1})
  BY <1>1, AssumedHolds, ValueIs DEF Assumed
<1>3. PICK size \in Nat : size = type.size /\ size <= BitBuffer /\ (type.kind = "bool" => size = 1)
  <2>1. type.size \in Nat /\ (type.kind = "bool" => type.size = 1)
    BY <1>1, TypeIs
  <2>2. type.size <= BitBuffer
    BY <1>1, <2>1 DEF PacksTo
  <2> QED BY <2>1, <2>2
<1>4. PICK bit \in Nat, len \in Nat :
        field.bit = bit /\ field.len = len /\ bit + len <= 8 * DataSize /\ len <= 8 * BitBuffer
  BY <1>1 DEF BitFields, BitsOf
<1>5. /\ whole \in [1..BitBuffer -> Byte]
      /\ \A i \in 1..size : whole[i] = value[i]
      /\ \A i \in size + 1..BitBuffer : whole[i] = Zeros(BitBuffer)[i]
  <2>1. PICK zeros \in [1..BitBuffer -> Byte] : zeros = Zeros(BitBuffer)
    BY <1>1, ZerosAre
  <2>2. IsPacked(Pack(type, value, zeros), type, value, BitBuffer, zeros)
    BY <1>1, <1>2, <1>3, PackIs
  <2> QED BY <1>3, <2>1, <2>2 DEF IsPacked
<1>6. Written(after, DataSize, data, bit, FieldBits(whole, 0, len), len)
  BY <1>1, <1>4, <1>5, BitSetIs
<1>7. after \in [1..DataSize -> Byte]
  BY <1>6 DEF Written
<1>8. ASSUME NEW i \in BitsOf(DataSize)
      PROVE  Bit(after, i) = IF Covers(field, i) THEN Bit(whole, i - bit) ELSE Bit(data, i)
  <2>1. Covers(field, i) <=> i \in bit..bit + len - 1
    BY <1>4 DEF Covers
  <2>2. i \in bit..bit + len - 1 => FieldBits(whole, 0, len)[i - bit] = Bit(whole, i - bit)
    <3>1. i \in bit..bit + len - 1 => i - bit \in 0..len - 1 /\ 0 + (i - bit) = i - bit
      OBVIOUS
    <3> QED BY <3>1 DEF FieldBits
  <2> QED BY <1>6, <2>1, <2>2 DEF Written
<1>9. PICK buf : /\ Written(buf, BitBuffer, Zeros(BitBuffer), 0, FieldBits(after, bit, len), len)
                 /\ again = Unpack(type, buf)
  BY <1>1, <1>4, <1>7, BitGetIs
<1>10. buf \in [1..BitBuffer -> Byte]
  BY <1>9 DEF Written
<1>11. ASSUME NEW i \in BitsOf(size) PROVE Bit(buf, i) = IF i < len THEN Bit(value, i) ELSE 0
  <2>1. Bit(whole, i) = Bit(value, i) /\ i \in BitsOf(BitBuffer)
    <3>1. i \in BitsOf(BitBuffer)
      BY <1>1, <1>3 DEF BitsOf
    <3>2. \A j \in BitsOf(size) : Bit(whole, j) = Bit(value, j)
      <4>1. SameBytes(size, whole, value)
        BY <1>5 DEF SameBytes
      <4> QED BY <4>1, BitsSame
    <3> QED BY <3>1, <3>2
  <2>2. i \in Nat
    BY DEF BitsOf
  <2>3. CASE i < len
    <3>1. PICK j \in BitsOf(DataSize) : j = bit + i /\ j \in bit..bit + len - 1 /\ j - bit = i
      <4>1. bit + i \in BitsOf(DataSize) /\ bit + i \in bit..bit + len - 1 /\ (bit + i) - bit = i
        BY <1>1, <1>4, <2>2, <2>3 DEF BitsOf
      <4> QED BY <4>1
    <3>2. Bit(after, j) = Bit(whole, i)
      BY <1>4, <1>8, <3>1 DEF Covers
    <3>3. i \in 0..0 + len - 1 /\ i - 0 = i /\ i \in 0..len - 1
      BY <2>2, <2>3
    <3>4. Bit(buf, i) = FieldBits(after, bit, len)[i]
      BY <1>9, <2>1, <3>3 DEF Written
    <3> QED BY <2>1, <2>3, <3>1, <3>2, <3>3, <3>4 DEF FieldBits
  <2>4. CASE ~(i < len)
    <3>1. i \notin 0..0 + len - 1
      BY <2>2, <2>4
    <3> QED BY <1>1, <1>9, <2>1, <2>4, <3>1, ZeroBits DEF Written
  <2> QED BY <2>3, <2>4
<1>12. ASSUME NEW i \in BitsOf(size) PROVE Bit(again, i) = IF i < len THEN Bit(value, i) ELSE 0
  <2>1. CASE type.kind # "bool"
    <3>1. again = [j \in 1..size |-> buf[j]]
      BY <1>3, <1>9, <2>1 DEF Unpack
    <3>2. SameBytes(size, again, buf)
      BY <3>1 DEF SameBytes
    <3>3. \A j \in BitsOf(size) : Bit(again, j) = Bit(buf, j)
      BY <3>2, BitsSame
    <3> QED BY <1>11, <3>3
  <2>2. CASE type.kind = "bool"
    <3>1. size = 1 /\ 1 \in 1..size /\ 1 \in 1..BitBuffer
      BY <1>1, <1>3, <2>2
    <3>2. PICK b \in Byte : b = buf[1]
      BY <1>10, <3>1
    <3>3. again = <<b % 2>>
      BY <1>9, <2>2, <3>2 DEF Unpack
    <3>4. i \in BitsOf(1) /\ 0 \in BitsOf(1) /\ i \in 0..7
      BY <3>1 DEF BitsOf
    <3>5. Bit(<<b>>, 0) = Bit(buf, 0)
      <4>1. 0 \div 8 + 1 = 1
        OBVIOUS
      <4> QED BY <3>2, <4>1 DEF Bit
    <3>6. Bit(again, i) = IF i = 0 THEN Bit(buf, 0) ELSE 0
      BY <3>3, <3>4, <3>5, BoolBits
    <3>7. PICK v \in {0, 1} : value = <<v>> /\ v \in Byte /\ v % 2 = v
      <4>1. value[1] \in {0, 1} /\ value \in [1..1 -> Byte]
        BY <1>2, <1>3, <2>2, <3>1
      <4>2. value = <<value[1]>>
        BY <4>1
      <4>3. \A v \in {0, 1} : v \in Byte /\ v % 2 = v
        BY DEF Byte
      <4> QED BY <4>1, <4>2, <4>3
    <3>8. i # 0 => Bit(value, i) = 0
      BY <3>4, <3>7, BoolBits
    <3>9. Bit(buf, 0) = IF 0 < len THEN Bit(value, 0) ELSE 0
      BY <1>11, <3>1, <3>4
    <3> QED BY <3>6, <3>8, <3>9
  <2> QED BY <2>1, <2>2
<1> QED BY <1>3, <1>4, <1>8, <1>12

(* A buffer with initial values: grown to hold a field, with zeros.          *)
GrownBy(after, m, data, n) ==
  after \in [1..m -> Byte] /\ \A i \in 1..m : after[i] = IF i \in 1..n THEN data[i] ELSE 0

LEMMA GrowIs ==
  ASSUME NEW n \in Nat, NEW data \in [1..n -> Byte], NEW d \in Nat, NEW m \in Nat, m = n + d
  PROVE  GrownBy(data \o Zeros(d), m, data, n)
<1>1. PICK zeros \in [1..d -> Byte] : zeros = Zeros(d) /\ \A i \in 1..d : zeros[i] = 0
  BY ZerosAre DEF Zeros
<1>2. IsJoin(data \o zeros, m, data, n, zeros, d)
  BY <1>1, JoinIs
<1>3. PICK all \in [1..m -> Byte] :
        all = data \o zeros /\ (\A i \in 1..n : all[i] = data[i]) /\ (\A i \in 1..d : all[n + i] = zeros[i])
  BY <1>2 DEF IsJoin
<1>4. ASSUME NEW i \in 1..m, i \notin 1..n PROVE all[i] = 0
  <2>1. PICK j \in 1..d : i = n + j
    <3>1. i - n \in 1..d /\ i = n + (i - n)
      BY <1>4
    <3> QED BY <3>1
  <2> QED BY <1>1, <1>3, <2>1
<1> QED BY <1>1, <1>3, <1>4 DEF GrownBy

(* What a buffer is after a field of it was given an initial value: i is     *)
(* outside of the field.                                                     *)
Initialised(after, m, data, n, byte, type, value) ==
  /\ after \in [1..m -> Byte]
  /\ \A i \in 1..type.size : after[byte + i] = value[i]
  /\ \A i \in 1..m : i \notin byte + 1..byte + type.size => after[i] = IF i \in 1..n THEN data[i] ELSE 0

LEMMA DefaultIs ==
  ASSUME NEW type \in Type, NEW value \in [1..type.size -> Byte], NEW n \in Nat, NEW data \in [1..n -> Byte],
         NEW field \in Places, field.len = type.size
  PROVE  \E m \in Nat : /\ n <= m /\ field.byte + field.len <= m /\ (m = n \/ m = field.byte + field.len)
                        /\ Initialised(Default(data, field, type, value), m, data, n, field.byte, type, value)
<1>1. PICK byte \in Nat, len \in Nat : field.byte = byte /\ field.len = len /\ type.size = len
  BY DEF Places
<1>2. PICK end \in Nat : end = byte + len
  BY <1>1
<1>3. PICK d \in Nat, m \in Nat : d = (IF end > n THEN end - n ELSE 0) /\ m = n + d
  <2>1. (IF end > n THEN end - n ELSE 0) \in Nat /\ n + (IF end > n THEN end - n ELSE 0) \in Nat
    OBVIOUS
  <2> QED BY <2>1
<1>4. n <= m /\ end <= m /\ (m = n \/ m = end)
  BY <1>3
<1>5. Len(data) = n
  BY BytesAre
<1>6. GrownBy(data \o Zeros(d), m, data, n)
  BY <1>3, GrowIs
<1>7. PICK grown \in [1..m -> Byte] :
        grown = data \o Zeros(d) /\ \A i \in 1..m : grown[i] = IF i \in 1..n THEN data[i] ELSE 0
  BY <1>6 DEF GrownBy
<1>8. Default(data, field, type, value) = ByteSet(field, type, grown, value)
  BY <1>1, <1>2, <1>3, <1>5, <1>7 DEF Default
<1>9. HasRoom(field, m, type)
  BY <1>1, <1>2, <1>4 DEF HasRoom
<1>10. HasValue(ByteSet(field, type, grown, value), m, grown, field.byte, type, value)
  BY <1>9, ByteSetIs
<1>11. Initialised(Default(data, field, type, value), m, data, n, field.byte, type, value)
  BY <1>7, <1>8, <1>10 DEF HasValue, Initialised
<1> QED BY <1>1, <1>2, <1>4, <1>11

LEMMA GroupBufferIs ==
  ASSUME NEW n \in Nat, NEW data \in [1..n -> Byte], NEW size \in Nat, n <= size
  PROVE  GrownBy(GroupBuffer(data, size), size, data, n)
<1>1. PICK d \in Nat : d = size - n /\ size = n + d
  <2>1. size - n \in Nat /\ size = n + (size - n)
    OBVIOUS
  <2> QED BY <2>1
<1>2. GrownBy(data \o Zeros(d), size, data, n)
  BY <1>1, GrowIs
<1>3. Len(data) = n
  BY BytesAre
<1> QED BY <1>1, <1>2, <1>3 DEF GroupBuffer

THEOREM InitialsHold == InitialsExact
<1> SUFFICES ASSUME NEW type \in SomeTypes,
                    NEW f \in {h \in ByteFields : h.len = type.size}, NEW g \in {h \in ByteFields : h.len = type.size},
                    Apart(f, g), NEW u \in Values(type), NEW v \in Values(type), NEW buffer,
                    buffer = GroupBuffer(Default(Default(<<>>, f, type, u), g, type, v), DataSize)
             PROVE  /\ Len(buffer) = DataSize
                    /\ ByteGet(f, type, buffer) = u /\ ByteGet(g, type, buffer) = v
                    /\ \A i \in 1..DataSize :
                         (\A h \in {f, g} : i \notin (h.byte + 1)..(h.byte + h.len)) => buffer[i] = 0
  BY DEF InitialsExact
<1>1. type \in Type /\ DataSize \in Nat
  BY AssumedHolds DEF Assumed
<1>2. /\ u \in [1..type.size -> Byte] /\ (type.kind = "bool" => u[1] \in {0, 1})
      /\ v \in [1..type.size -> Byte] /\ (type.kind = "bool" => v[1] \in {0, 1})
  BY <1>1, AssumedHolds, ValueIs DEF Assumed
<1>3. PICK k \in Nat : k = type.size
  BY <1>1, TypeIs
<1>4. PICK a \in Nat, b \in Nat :
        /\ f.byte = a /\ g.byte = b /\ f.len = k /\ g.len = k
        /\ f \in Places /\ g \in Places /\ a + k <= DataSize /\ b + k <= DataSize
        /\ a + k <= b \/ b + k <= a
  <2>1. /\ f.byte \in Nat /\ g.byte \in Nat /\ f.len = k /\ g.len = k
        /\ f \in Places /\ g \in Places /\ f.byte + k <= DataSize /\ g.byte + k <= DataSize
    BY <1>1, <1>3 DEF ByteFields, Places
  <2> QED BY <2>1 DEF Apart
<1>5. PICK z \in Nat : z = 0
  OBVIOUS
<1>6. PICK none \in [1..z -> Byte] : none = <<>>
  <2>1. <<>> \in Seq(Byte) /\ Len(<<>>) = z
    BY <1>5
  <2>2. <<>> \in [1..z -> Byte]
    BY <2>1, LenProperties
  <2> QED BY <2>2
<1>22. PICK m \in Nat : m <= DataSize /\ a + k <= m /\ Initialised(Default(<<>>, f, type, u), m, none, z, a, type, u)
  <2>1. \E l \in Nat : /\ z <= l /\ f.byte + f.len <= l /\ (l = z \/ l = f.byte + f.len)
                       /\ Initialised(Default(none, f, type, u), l, none, z, f.byte, type, u)
    BY <1>1, <1>2, <1>3, <1>4, DefaultIs
  <2> QED BY <1>4, <1>5, <1>6, <2>1
<1>7. PICK one : one = Default(<<>>, f, type, u) /\ Initialised(one, m, none, z, a, type, u)
  BY <1>22
<1>8. one \in [1..m -> Byte]
  BY <1>7 DEF Initialised
<1>23. PICK l \in Nat : m <= l /\ l <= DataSize /\ b + k <= l /\ Initialised(Default(one, g, type, v), l, one, m, b, type, v)
  <2>1. \E j \in Nat : /\ m <= j /\ g.byte + g.len <= j /\ (j = m \/ j = g.byte + g.len)
                       /\ Initialised(Default(one, g, type, v), j, one, m, g.byte, type, v)
    BY <1>1, <1>2, <1>3, <1>4, <1>8, DefaultIs
  <2> QED BY <1>4, <1>22, <2>1
<1>9. PICK two : two = Default(one, g, type, v) /\ Initialised(two, l, one, m, b, type, v)
  BY <1>23
<1>10. two \in [1..l -> Byte]
  BY <1>9 DEF Initialised
<1>11. GrownBy(buffer, DataSize, two, l)
  <2>1. GrownBy(GroupBuffer(two, DataSize), DataSize, two, l)
    BY <1>1, <1>10, <1>23, GroupBufferIs
  <2> QED BY <1>7, <1>9, <2>1
<1>12. buffer \in [1..DataSize -> Byte] /\ \A i \in 1..DataSize : buffer[i] = IF i \in 1..l THEN two[i] ELSE 0
  BY <1>11 DEF GrownBy
<1>13. \A i \in 1..l : i \notin b + 1..b + k => two[i] = IF i \in 1..m THEN one[i] ELSE 0
  BY <1>3, <1>9 DEF Initialised
<1>14. \A i \in 1..m : i \notin a + 1..a + k => one[i] = 0
  BY <1>3, <1>5, <1>7 DEF Initialised
<1>15. \A i \in 1..k : one[a + i] = u[i] /\ two[b + i] = v[i]
  BY <1>3, <1>7, <1>9 DEF Initialised
<1>16. ASSUME NEW i \in 1..k PROVE buffer[a + i] = u[i] /\ buffer[b + i] = v[i]
  <2>1. /\ a + i \in 1..m /\ a + i \in 1..l /\ a + i \in 1..DataSize /\ a + i \notin b + 1..b + k
        /\ b + i \in 1..l /\ b + i \in 1..DataSize
    BY <1>1, <1>4, <1>22, <1>23
  <2> QED BY <1>12, <1>13, <1>15, <2>1
<1>17. HasRoom(f, DataSize, type) /\ HasRoom(g, DataSize, type)
  BY <1>3, <1>4 DEF HasRoom
<1>18. ByteGet(f, type, buffer) = u
  <2>1. ByteGet(f, type, buffer) = Read(type, buffer, a)
    BY <1>1, <1>4, <1>12, <1>17, ByteGetIs
  <2>2. Read(type, buffer, a) = u
    BY <1>1, <1>2, <1>3, <1>16, ReadValue
  <2> QED BY <2>1, <2>2
<1>19. ByteGet(g, type, buffer) = v
  <2>1. ByteGet(g, type, buffer) = Read(type, buffer, b)
    BY <1>1, <1>4, <1>12, <1>17, ByteGetIs
  <2>2. Read(type, buffer, b) = v
    BY <1>1, <1>2, <1>3, <1>16, ReadValue
  <2> QED BY <2>1, <2>2
<1>20. ASSUME NEW i \in 1..DataSize, i \notin a + 1..a + k, i \notin b + 1..b + k PROVE buffer[i] = 0
  BY <1>12, <1>13, <1>14, <1>20
<1>21. Len(buffer) = DataSize
  BY <1>1, <1>12, BytesAre
<1> QED BY <1>4, <1>18, <1>19, <1>20, <1>21

(* Bytes a cursor packs or unpacks.                                          *)
LEMMA ComingIs ==
  ASSUME NEW position \in Nat, NEW data, NEW type \in Type, NEW n \in Nat, position + type.size <= n
  PROVE  /\ HasRoom(Coming([position |-> position, data |-> data], type.size), n, type)
         /\ Coming([position |-> position, data |-> data], type.size).byte = position
<1>1. type.size \in Nat
  BY TypeIs
<1> QED BY <1>1 DEF Coming, HasRoom, Places

LEMMA CursorPackIs ==
  ASSUME NEW type \in Type, NEW value \in [1..type.size -> Byte], NEW n \in Nat, NEW data \in [1..n -> Byte],
         NEW position \in Nat, position + type.size <= n
  PROVE  \E after \in [1..n -> Byte] :
           /\ CursorPack([position |-> position, data |-> data], type, value)
                = [position |-> position + type.size, data |-> after]
           /\ HasValue(after, n, data, position, type, value)
<1> DEFINE cursor == [position |-> position, data |-> data]
<1>1. PICK field : field = Coming(cursor, type.size)
  OBVIOUS
<1>2. HasRoom(field, n, type) /\ field.byte = position
  BY <1>1, ComingIs
<1>3. HasValue(ByteSet(field, type, data, value), n, data, field.byte, type, value)
  BY <1>2, ByteSetIs
<1>4. PICK after : after = ByteSet(field, type, data, value)
  OBVIOUS
<1>5. after \in [1..n -> Byte] /\ HasValue(after, n, data, position, type, value)
  BY <1>2, <1>3, <1>4 DEF HasValue
<1>6. cursor.position = position /\ cursor.data = data
  OBVIOUS
<1>7. CursorPack(cursor, type, value) = [position |-> position + type.size, data |-> after]
  BY <1>1, <1>4, <1>6 DEF CursorPack
<1> QED BY <1>5, <1>7

IsValue(type, value) == value \in [1..type.size -> Byte] /\ (type.kind = "bool" => value[1] \in {0, 1})
Found(data, n, byte, type, value) ==
  data \in [1..n -> Byte] /\ byte + type.size <= n /\ \A i \in 1..type.size : data[byte + i] = value[i]

LEMMA CursorUnpackIs ==
  ASSUME NEW type \in Type, NEW value, IsValue(type, value),
         NEW n \in Nat, NEW data, NEW position \in Nat, Found(data, n, position, type, value)
  PROVE  CursorUnpack([position |-> position, data |-> data], type)
           = [value |-> value, cursor |-> [position |-> position + type.size, data |-> data]]
<1> DEFINE cursor == [position |-> position, data |-> data]
<1>7. /\ value \in [1..type.size -> Byte] /\ (type.kind = "bool" => value[1] \in {0, 1})
      /\ data \in [1..n -> Byte] /\ position + type.size <= n
      /\ \A i \in 1..type.size : data[position + i] = value[i]
  BY DEF IsValue, Found
<1>1. PICK field : field = Coming(cursor, type.size)
  OBVIOUS
<1>2. HasRoom(field, n, type) /\ field.byte = position
  BY <1>1, <1>7, ComingIs
<1>3. ByteGet(field, type, data) = Read(type, data, position)
  BY <1>2, <1>7, ByteGetIs
<1>4. Read(type, data, position) = value
  BY <1>7, ReadValue
<1>5. [cursor EXCEPT !.position = @ + type.size] = [position |-> position + type.size, data |-> data]
  OBVIOUS
<1>6. cursor.data = data
  OBVIOUS
<1> QED BY <1>1, <1>3, <1>4, <1>5, <1>6 DEF CursorUnpack

(* What the socket hands over of a frame starts with the data sent.          *)
LEMMA FrameIs ==
  ASSUME NEW n \in Nat, NEW data \in [1..n -> Byte]
  PROVE  /\ \E m \in Nat : /\ n <= m /\ FrameUnpack(FramePack(Zeros(Header), data)) \in [1..m -> Byte]
                           /\ \A i \in 1..n : FrameUnpack(FramePack(Zeros(Header), data))[i] = data[i]
         /\ Len(FramePack(Zeros(Header), data)) >= MinFrame
<1>1. Header \in Nat /\ MinFrame \in Nat
  BY AssumedHolds DEF Assumed
<1>2. Len(data) = n
  BY BytesAre
<1>3. PICK k \in Nat, d \in Nat, m \in Nat, l \in Nat :
        /\ k = Header + n /\ d = FrameSize(data) - Header - n /\ m = n + d /\ l = k + d
        /\ l = Header + m /\ l >= MinFrame /\ n <= m
  <2> DEFINE size == IF Header + n > MinFrame THEN Header + n ELSE MinFrame
  <2>1. FrameSize(data) = size
    BY <1>2 DEF FrameSize
  <2>2. /\ Header + n \in Nat /\ size - Header - n \in Nat /\ n + (size - Header - n) \in Nat
        /\ Header + n + (size - Header - n) \in Nat /\ Header + n + (size - Header - n) >= MinFrame
        /\ Header + n + (size - Header - n) = Header + (n + (size - Header - n))
        /\ n <= n + (size - Header - n)
    BY <1>1
  <2> QED BY <2>1, <2>2
<1>4. PICK header \in [1..Header -> Byte], zeros \in [1..d -> Byte] : header = Zeros(Header) /\ zeros = Zeros(d)
  BY <1>1, ZerosAre
<1>5. IsJoin(header \o data, k, header, Header, data, n)
  BY <1>1, <1>3, JoinIs
<1>6. PICK fore \in [1..k -> Byte] : fore = header \o data /\ \A i \in 1..n : fore[Header + i] = data[i]
  BY <1>5 DEF IsJoin
<1>7. IsJoin(fore \o zeros, l, fore, k, zeros, d)
  BY <1>3, JoinIs
<1>8. PICK frame \in [1..l -> Byte] : frame = fore \o zeros /\ \A i \in 1..k : frame[i] = fore[i]
  BY <1>7 DEF IsJoin
<1>9. FramePack(Zeros(Header), data) = frame
  BY <1>2, <1>3, <1>4, <1>6, <1>8 DEF FramePack
<1>10. Len(frame) = l
  BY BytesAre
<1>11. PICK f \in Nat : f = Header + 1 /\ l <= l
  BY <1>1
<1>12. IsSlice(SubSeq(frame, f, l), m, frame, Header)
  BY <1>1, <1>3, <1>11, SliceIs
<1>13. PICK src \in [1..m -> Byte] : src = SubSeq(frame, f, l) /\ \A i \in 1..m : src[i] = frame[Header + i]
  BY <1>12 DEF IsSlice
<1>14. FrameUnpack(frame) = src
  BY <1>10, <1>11, <1>13 DEF FrameUnpack
<1>15. \A i \in 1..n : i \in 1..m /\ Header + i \in 1..k
  BY <1>1, <1>3
<1>16. \A i \in 1..n : src[i] = data[i]
  BY <1>6, <1>8, <1>13, <1>15
<1> QED BY <1>3, <1>9, <1>10, <1>14, <1>16

(* Two slices of the same bytes are the same.                                *)
Agree(s, n, t, m, a, b) ==
  /\ s \in [1..n -> Byte] /\ t \in [1..m -> Byte] /\ a <= b /\ b <= n /\ b <= m
  /\ \A i \in a + 1..b : s[i] = t[i]

LEMMA SlicesSame ==
  ASSUME NEW n \in Nat, NEW s, NEW m \in Nat, NEW t, NEW a \in Nat, NEW b \in Nat, Agree(s, n, t, m, a, b)
  PROVE  SubSeq(s, a + 1, b) = SubSeq(t, a + 1, b)
<1>8. PICK f \in Nat : f = a + 1
  OBVIOUS
<1>7. /\ s \in [1..n -> Byte] /\ t \in [1..m -> Byte] /\ a <= b /\ b <= n /\ b <= m
      /\ \A i \in a + 1..b : s[i] = t[i]
  BY DEF Agree
<1>1. PICK d \in Nat : b = a + d
  <2>1. b - a \in Nat /\ b = a + (b - a)
    BY <1>7
  <2> QED BY <2>1
<1>2. IsSlice(SubSeq(s, f, b), d, s, a) /\ IsSlice(SubSeq(t, f, b), d, t, a)
  BY <1>1, <1>7, <1>8, SliceIs
<1>3. PICK u \in [1..d -> Byte] : u = SubSeq(s, f, b) /\ \A i \in 1..d : u[i] = s[a + i]
  BY <1>2 DEF IsSlice
<1>4. PICK v \in [1..d -> Byte] : v = SubSeq(t, f, b) /\ \A i \in 1..d : v[i] = t[a + i]
  BY <1>2 DEF IsSlice
<1>5. \A i \in 1..d : a + i \in a + 1..b
  BY <1>1
<1>6. u = v
  <2>1. \A i \in 1..d : u[i] = v[i]
    BY <1>3, <1>4, <1>5, <1>7
  <2>2. u = [i \in 1..d |-> u[i]] /\ v = [i \in 1..d |-> v[i]]
    OBVIOUS
  <2> QED BY <2>1, <2>2, Zenon
<1> QED BY <1>3, <1>4, <1>6, <1>8

(* Values packed one after the other are unpacked the same.                  *)
THEOREM CursorHolds == CursorExact
<1> SUFFICES ASSUME NEW s \in SomeTypes, NEW t \in SomeTypes, s.size + t.size <= DataSize,
                    NEW u \in Values(s), NEW v \in Values(t), NEW data \in Tuples(DataSize),
                    NEW packed, packed = CursorPack(CursorPack(CursorOn(data), s, u), t, v),
                    NEW frame, frame = FramePack(Zeros(Header), Finish(packed)),
                    NEW first, first = CursorUnpack(CursorOn(FrameUnpack(frame)), s),
                    NEW second, second = CursorUnpack(first.cursor, t)
             PROVE  /\ first.value = u /\ second.value = v
                    /\ Finish(second.cursor) = Finish(packed)
                    /\ Remain(packed) = SubSeq(data, s.size + t.size + 1, DataSize)
                    /\ Len(frame) >= MinFrame
  BY DEF CursorExact
<1>1. s \in Type /\ t \in Type /\ DataSize \in Nat /\ data \in [1..DataSize -> Byte]
  BY AssumedHolds, TuplesAre DEF Assumed
<1>2. /\ u \in [1..s.size -> Byte] /\ (s.kind = "bool" => u[1] \in {0, 1})
      /\ v \in [1..t.size -> Byte] /\ (t.kind = "bool" => v[1] \in {0, 1})
  BY <1>1, AssumedHolds, ValueIs DEF Assumed
<1>3. PICK a \in Nat, b \in Nat, n \in Nat, z \in Nat :
        /\ a = s.size /\ b = t.size /\ n = a + b /\ n <= DataSize /\ z = 0
        /\ z + a = a /\ z + a <= DataSize /\ a <= n /\ z + a <= n
  <2>1. PICK a \in Nat, b \in Nat : a = s.size /\ b = t.size /\ a + b <= DataSize
    BY <1>1, TypeIs
  <2>2. a + b \in Nat /\ 0 \in Nat /\ 0 + a = a /\ 0 + a <= DataSize /\ a <= a + b /\ 0 + a <= a + b
    BY <1>1, <2>1
  <2> QED BY <2>1, <2>2
<1>4. PICK one \in [1..DataSize -> Byte] :
        /\ CursorPack([position |-> z, data |-> data], s, u) = [position |-> z + s.size, data |-> one]
        /\ HasValue(one, DataSize, data, z, s, u)
  BY <1>1, <1>2, <1>3, CursorPackIs
<1>5. PICK two \in [1..DataSize -> Byte] :
        /\ CursorPack([position |-> a, data |-> one], t, v) = [position |-> a + t.size, data |-> two]
        /\ HasValue(two, DataSize, one, a, t, v)
  BY <1>1, <1>2, <1>3, CursorPackIs
<1>6. packed = [position |-> n, data |-> two]
  BY <1>3, <1>4, <1>5 DEF CursorOn
<1>7. \A i \in 1..a : one[z + i] = u[i] /\ z + i = i
  BY <1>3, <1>4 DEF HasValue
<1>8. \A i \in 1..b : two[a + i] = v[i]
  BY <1>3, <1>5 DEF HasValue
<1>9. \A i \in 1..DataSize : i \notin a + 1..a + b => two[i] = one[i]
  BY <1>3, <1>5 DEF HasValue
<1>10. \A i \in 1..DataSize : i \notin z + 1..z + a => one[i] = data[i]
  BY <1>3, <1>4 DEF HasValue
<1>11. \A i \in 1..a : two[i] = u[i]
  <2>1. \A i \in 1..a : i \in 1..DataSize /\ i \notin a + 1..a + b
    BY <1>1, <1>3
  <2> QED BY <1>7, <1>9, <2>1
<1>12. Len(two) = DataSize
  BY <1>1, BytesAre
<1>13. Remain(packed) = SubSeq(data, s.size + t.size + 1, DataSize)
  <2>1. DataSize <= DataSize
    BY <1>1
  <2>2. \A i \in n + 1..DataSize : two[i] = data[i]
    <3>1. \A i \in n + 1..DataSize : i \in 1..DataSize /\ i \notin a + 1..a + b /\ i \notin z + 1..z + a
      BY <1>1, <1>3
    <3> QED BY <1>9, <1>10, <3>1
  <2>3. SubSeq(two, n + 1, DataSize) = SubSeq(data, n + 1, DataSize)
    <3>2. PICK l \in Nat : l = DataSize
      BY <1>1
    <3>1. Agree(two, l, data, l, n, l)
      BY <1>1, <1>3, <2>1, <2>2, <3>2 DEF Agree
    <3> QED BY <3>1, <3>2, SlicesSame
  <2>4. packed.data = two /\ packed.position = n
    BY <1>6
  <2> QED BY <1>3, <1>12, <2>3, <2>4 DEF Remain
<1>14. PICK sent \in [1..n -> Byte] : sent = Finish(packed) /\ \A i \in 1..n : sent[i] = two[i]
  <2>1. z + n = n /\ 1 = z + 1 /\ \A i \in 1..n : z + i = i
    BY <1>3
  <2>2. IsSlice(SubSeq(two, 1, n), n, two, z)
    BY <1>1, <1>3, <2>1, SliceIs
  <2>3. packed.data = two /\ packed.position = n
    BY <1>6
  <2>4. SubSeq(two, 1, n) \in [1..n -> Byte] /\ \A i \in 1..n : SubSeq(two, 1, n)[i] = two[i]
    BY <2>1, <2>2 DEF IsSlice
  <2>5. Finish(packed) = SubSeq(two, 1, n)
    BY <2>3 DEF Finish
  <2> QED BY <2>4, <2>5
<1>27. PICK m \in Nat : /\ n <= m /\ FrameUnpack(FramePack(Zeros(Header), sent)) \in [1..m -> Byte]
                        /\ \A i \in 1..n : FrameUnpack(FramePack(Zeros(Header), sent))[i] = sent[i]
  BY FrameIs
<1>15. PICK src \in [1..m -> Byte] : src = FrameUnpack(frame) /\ \A i \in 1..n : src[i] = sent[i]
  <2>1. frame = FramePack(Zeros(Header), sent)
    BY <1>14
  <2> QED BY <1>27, <2>1
<1>16. Len(frame) >= MinFrame
  BY <1>14, FrameIs
<1>17. \A i \in 1..a : src[z + i] = u[i]
  <2>1. \A i \in 1..a : i \in 1..n
    BY <1>3
  <2> QED BY <1>7, <1>11, <1>14, <1>15, <2>1
<1>18. \A i \in 1..b : src[a + i] = v[i]
  <2>1. \A i \in 1..b : a + i \in 1..n
    BY <1>3
  <2> QED BY <1>8, <1>14, <1>15, <2>1
<1>19. z + s.size <= m /\ a + t.size <= m
  BY <1>3, <1>27
<1>28. IsValue(s, u) /\ IsValue(t, v)
  BY <1>2 DEF IsValue
<1>20. CursorUnpack([position |-> z, data |-> src], s)
         = [value |-> u, cursor |-> [position |-> z + s.size, data |-> src]]
  <2>1. Found(src, m, z, s, u)
    BY <1>3, <1>15, <1>17, <1>19 DEF Found
  <2> QED BY <1>1, <1>3, <1>28, <2>1, CursorUnpackIs
<1>21. CursorUnpack([position |-> a, data |-> src], t)
         = [value |-> v, cursor |-> [position |-> a + t.size, data |-> src]]
  <2>1. Found(src, m, a, t, v)
    BY <1>3, <1>15, <1>18, <1>19 DEF Found
  <2> QED BY <1>1, <1>3, <1>28, <2>1, CursorUnpackIs
<1>22. first = [value |-> u, cursor |-> [position |-> a, data |-> src]]
  BY <1>3, <1>15, <1>20 DEF CursorOn
<1>23. first.cursor = [position |-> a, data |-> src] /\ first.value = u
  BY <1>22
<1>24. second = [value |-> v, cursor |-> [position |-> n, data |-> src]]
  BY <1>3, <1>21, <1>23
<1>25. second.value = v /\ second.cursor = [position |-> n, data |-> src]
  BY <1>24
<1>26. Finish(second.cursor) = Finish(packed)
  <2>1. z + n = n /\ 1 = z + 1 /\ \A i \in 1..n : z + i = i
    BY <1>3
  <2>2. IsSlice(SubSeq(src, 1, n), n, src, z)
    BY <1>27, <2>1, SliceIs
  <2>3. PICK got \in [1..n -> Byte] : got = SubSeq(src, 1, n) /\ \A i \in 1..n : got[i] = src[i]
    BY <2>1, <2>2 DEF IsSlice
  <2>4. \A i \in 1..n : got[i] = sent[i]
    BY <1>15, <2>3
  <2>5. got = [i \in 1..n |-> got[i]] /\ sent = [i \in 1..n |-> sent[i]]
    OBVIOUS
  <2>6. got = sent
    BY <2>4, <2>5, Zenon
  <2>7. second.cursor.data = src /\ second.cursor.position = n
    BY <1>25
  <2> QED BY <1>14, <2>3, <2>6, <2>7 DEF Finish
<1> QED BY <1>13, <1>16, <1>23, <1>25, <1>26

(* Fields are exact, whatever the types, the sizes and the bytes.            *)
THEOREM FieldsHold == FieldsExact
BY ByteFieldsHold, BitFieldsHold, InitialsHold, CursorHolds DEF FieldsExact

(* Fields which do not overlap are independent, whatever their sizes and     *)
(* places are: a write of one is read back, and leaves the others alone.     *)
THEOREM FieldsIndependentHolds == Spec => []FieldsIndependent
<1>1. FieldsIndependent
  BY FieldsHold DEF FieldsIndependent
<1> QED BY <1>1, PTL

==============================================================================
