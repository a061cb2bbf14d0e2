------------------------------- MODULE Mapping -------------------------------
(***************************************************************************)
(* Mapping, Config and Group::configure (src/src/mapping.rs).              *)
(*                                                                         *)
(* A mapping gives each value the user wants to exchange a place in a      *)
(* contiguous logical memory, and records in a Config what each slave      *)
(* needs for it: the content of its PDOs, their assignment to sync manager *)
(* channels, and FMMU entries from logical to physical memory.  A group    *)
(* made from the mapping writes that to the slaves, one value at a time,   *)
(* and any of these writes may fail.                                       *)
(*                                                                         *)
(* The slave is external.  It lays the entries of the PDOs assigned to a   *)
(* channel one after the other from the start of the channel, and refuses  *)
(* to change a list whose length was not first set to zero.                *)
(* The allocator is module Allocator: here groups get successive regions.  *)
(***************************************************************************)
EXTENDS Integers, Sequences, FiniteSets, SequencesExt

CONSTANTS
  Mappings, Slaves,
  Wanted,        (* the registers, channels and PDOs of each slave that the  *)
                 (* user puts in each mapping                                *)
  ConfigOf,      (* the Config instance each mapping works on                *)
  Channels,      (* SyncChannel values of the user                           *)
  Pdos,          (* Pdo values of the user                                   *)
  Capacity,      (* SyncChannel::capacity, Pdo::capacity                     *)
  Direction,     (* SyncChannel::direction                                   *)
  Buffer,        (* range of physical memory given to each channel           *)
  Fixed,         (* the PDOs with Pdo::fixed                                 *)
  Factory,       (* their content (bit lengths) in the slaves                *)
  SdoBits,       (* bit lengths of the SDOs pushed                           *)
  Registers,     (* fields of physical memory mapped by `register`, `range`  *)
  Again,         (* a channel or PDO of a Config may be pushed again         *)
  Growing,       (* mappings may still grow once groups are made             *)
  Failures,      (* a write of `configure` may fail                          *)
  LogicalSize,   (* size of the logical memory                               *)
  MaxFields,     (* BOUND: number of fields of each mapping                  *)
  Nobody         (* no mapping, no channel or no PDO                         *)

ASSUME ConstantsAssumption ==
  /\ Channels \cap Pdos = {}
  /\ Direction \in [Channels -> {"read", "write"}]
  /\ Capacity \in [Channels \cup Pdos -> Nat]
  /\ Buffer \in [Channels -> [start : Nat, end : Nat]]
  /\ Fixed \subseteq Pdos /\ Factory \in [Fixed -> Seq(Nat)]
  /\ SdoBits \subseteq Nat /\ Registers \subseteq [direction : {"read", "write"}, byte : Nat, len : Nat]
  /\ Wanted \in [Mappings -> SUBSET (Slaves \X (Channels \cup Pdos \cup Registers))]
  /\ Again \in BOOLEAN /\ Growing \in BOOLEAN /\ Failures \in BOOLEAN
  /\ LogicalSize \in Nat /\ MaxFields \in [Mappings -> Nat]
  /\ Nobody \notin Mappings \cup Channels \cup Pdos

Configs == {ConfigOf[m] : m \in Mappings}

VARIABLES
  config,     (* Config::slaves: the ConfigSlave of each slave               *)
  guard,      (* the MappingSlave holding each ConfigSlave, what it has open *)
  slaves,     (* Mapping::slaves                                             *)
  offset,     (* Mapping::offset                                             *)
  fields,     (* the fields each mapping returned (history)                  *)
  group,      (* the group made from each mapping                            *)
  allocated,  (* logical memory given to groups                              *)
  todo,       (* for each slave, what `configure` has left to write          *)
  latest,     (* the mapping whose group configured the slave last; Nobody   *)
              (* if it was dropped or another `configure` began (history)    *)
  memory      (* what was written to each slave                              *)

building == <<config, guard, slaves, offset, fields>>
grouping == <<group, allocated>>
writing  == <<todo, latest, memory>>
vars     == <<building, grouping, writing>>

-----------------------------------------------------------------------------
NewConfig == [pdos |-> <<>>, channels |-> <<>>, fmmu |-> <<>>]
Closed    == [mapping |-> Nobody, channel |-> Nobody, pdo |-> Nobody, position |-> 0]
Open(m)   == [Closed EXCEPT !.mapping = m]
Poisoned  == [Closed EXCEPT !.position = -1]
NoGroup   == [made |-> FALSE, offset |-> 0, config |-> <<>>, fields |-> {},
              configured |-> {}]
Idle      == [mapping |-> Nobody, writes |-> <<>>]

(* In a slave no list has any element, but those of fixed PDOs.              *)
NewSlave ==
  [list |-> [x \in Channels \cup Pdos |->
               IF x \in Fixed THEN [len |-> Len(Factory[x]), items |-> Factory[x]]
                              ELSE [len |-> 0, items |-> <<>>]],
   sync |-> [c \in Channels |-> [enable |-> FALSE, start |-> 0, length |-> 0]],
   fmmu |-> <<>>]

Init ==
  /\ config = [x \in Configs |-> [s \in Slaves |-> NewConfig]]
  /\ guard = [x \in Configs |-> [s \in Slaves |-> Closed]]
  /\ slaves = [m \in Mappings |-> {}]
  /\ offset = [m \in Mappings |-> 0]
  /\ fields = [m \in Mappings |-> {}]
  /\ group = [m \in Mappings |-> NoGroup] /\ allocated = 0
  /\ todo = [s \in Slaves |-> Idle]
  /\ latest = [s \in Slaves |-> Nobody]
  /\ memory = [s \in Slaves |-> NewSlave]

-----------------------------------------------------------------------------
(* Building a mapping *)

Guard(m, s) == guard[ConfigOf[m]][s]
Held(m, s)  == config[ConfigOf[m]][s]

SetGuard(m, s, g) == guard' = [guard EXCEPT ![ConfigOf[m]][s] = g]
SetHeld(m, s, h)  == config' = [config EXCEPT ![ConfigOf[m]][s] = h]

(* Mapping::slave: locks the ConfigSlave until the MappingSlave is dropped.  *)
Slave(m, s) ==
  /\ \E x \in Channels \cup Registers : <<s, x>> \in Wanted[m]
  /\ Guard(m, s) = Closed
  /\ Growing \/ \A n \in Mappings : ~group[n].made
  /\ SetGuard(m, s, Open(m))
  /\ slaves' = [slaves EXCEPT ![m] = @ \cup {s}]
  /\ UNCHANGED <<config, offset, fields, grouping, writing>>

DropSlave(m, s) ==
  /\ Guard(m, s).mapping = m
  /\ SetGuard(m, s, Closed)
  /\ UNCHANGED <<config, slaves, offset, fields, grouping, writing>>

(* variant: the contiguity of the logical memory is forgotten                *)
ExtendsPhysical(last, direction, logical, physical) ==
  last.physical + last.length = physical /\ last.direction = direction

(* The last FMMU entry grows, unless the contiguity of the logical or of the *)
(* physical memory is broken, or the direction changes.                      *)
Extends(last, direction, logical, physical) ==
  /\ last.logical + last.length = logical
  /\ last.physical + last.length = physical
  /\ last.direction = direction

Inserted(fmmu, direction, logical, physical, length) ==
  IF fmmu # <<>> /\ Extends(Last(fmmu), direction, logical, physical)
  THEN [fmmu EXCEPT ![Len(fmmu)].length = @ + length]
  ELSE Append(fmmu, [direction |-> direction, length |-> length,
                     logical |-> logical, physical |-> physical])

(* MappingSlave::insert: `origin` names what the field stands for, an entry  *)
(* of a PDO in a channel or a piece of physical memory.                      *)
Insert(m, s, held, direction, physical, length, origin) ==
  /\ Cardinality(fields[m]) < MaxFields[m]
  /\ SetHeld(m, s,
       [held EXCEPT !.fmmu = Inserted(@, direction, offset[m], physical, length)])
  /\ offset' = [offset EXCEPT ![m] = @ + length]
  /\ fields' = [fields EXCEPT ![m] = @ \cup
       {[slave |-> s, direction |-> direction, logical |-> offset[m],
         length |-> length, origin |-> origin]}]

(* MappingSlave::register and range.                                         *)
Register(m, s, r) ==
  /\ <<s, r>> \in Wanted[m]
  /\ Guard(m, s).mapping = m
  /\ Insert(m, s, Held(m, s), r.direction, r.byte, r.len, [byte |-> r.byte])
  /\ SetGuard(m, s, Open(m))
  /\ UNCHANGED <<slaves, grouping, writing>>

(* The entry of a PDO or channel in a HashMap, replaced if there is one.     *)
StartedOver(entries, x, new) ==
  [y \in DOMAIN entries \cup {x} |-> IF y = x THEN new ELSE entries[y]]

(* MappingSlave::channel: starts the channel over in the Config.             *)
Channel(m, s, c) ==
  /\ <<s, c>> \in Wanted[m]
  /\ Guard(m, s).mapping = m
  /\ Again \/ c \notin DOMAIN Held(m, s).channels
  /\ SetHeld(m, s, [Held(m, s) EXCEPT !.channels =
                      StartedOver(@, c, [pdos |-> <<>>, start |-> Buffer[c].start])])
  /\ SetGuard(m, s, [Open(m) EXCEPT !.channel = c, !.position = Buffer[c].start])
  /\ UNCHANGED <<slaves, offset, fields, grouping, writing>>

(* variant: the list is not bounded                                          *)
AnyRoom(entries, x) == TRUE
(* The assertions on the capacity of a list.                                 *)
Room(entries, x) == Len(entries) + 1 < Capacity[x]

(* MappingChannel::push: starts the PDO over in the Config.                  *)
PushPdo(m, s, p) ==
  LET g == Guard(m, s)
  IN /\ <<s, p>> \in Wanted[m]
     /\ g.mapping = m /\ g.channel # Nobody
     /\ Room(Held(m, s).channels[g.channel].pdos, g.channel)
     /\ Again \/ p \notin DOMAIN Held(m, s).pdos
     /\ SetHeld(m, s, [Held(m, s) EXCEPT
                         !.channels[g.channel].pdos = Append(@, p),
                         !.pdos = StartedOver(@, p, <<>>)])
     /\ SetGuard(m, s, [g EXCEPT !.pdo = p])
     /\ UNCHANGED <<slaves, offset, fields, grouping, writing>>

Bytes(bits) == (bits + 7) \div 8

(* One of the three buffers that the range given to a channel must hold.     *)
BufferEnd(c) == (Buffer[c].end - Buffer[c].start) \div 3 + Buffer[c].start

(* MappingPdo::push.                                                         *)
PushSdo(m, s, bits) ==
  LET g == Guard(m, s)
      entries == Held(m, s).pdos[g.pdo]
  IN /\ g.mapping = m /\ g.pdo # Nobody
     /\ Room(entries, g.pdo)
     /\ g.position + Bytes(bits) < BufferEnd(g.channel)
     /\ Insert(m, s, [Held(m, s) EXCEPT !.pdos[g.pdo] = Append(@, bits)],
               Direction[g.channel], g.position, Bytes(bits),
               [channel |-> g.channel, pdo |-> g.pdo, index |-> Len(entries) + 1])
     /\ SetGuard(m, s, [g EXCEPT !.position = @ + Bytes(bits)])
     /\ UNCHANGED <<slaves, grouping, writing>>

(* An assertion of `push` fails: the panic poisons the lock it holds.        *)
PushPanic(m, s) ==
  LET g == Guard(m, s)
  IN /\ g.mapping = m /\ g.channel # Nobody
     /\ \/ ~Room(Held(m, s).channels[g.channel].pdos, g.channel)
        \/ /\ g.pdo # Nobody
           /\ \/ ~Room(Held(m, s).pdos[g.pdo], g.pdo)
              \/ \E bits \in SdoBits : g.position + Bytes(bits) >= BufferEnd(g.channel)
     /\ SetGuard(m, s, Poisoned)
     /\ UNCHANGED <<config, slaves, offset, fields, grouping, writing>>

-----------------------------------------------------------------------------
(* Allocator::group: the configuration of each slave is that of the groups   *)
(* that already use it, and is copied.                                       *)

Group(m) ==
  /\ ~group[m].made
  /\ \A s \in slaves[m] : Guard(m, s) = Closed
  /\ Growing \/ \A x \in Configs, s \in Slaves : guard[x][s].mapping = Nobody
  /\ \A n \in Mappings : group[n].made =>
       \A s \in slaves[m] \cap DOMAIN group[n].config :
         group[n].config[s] = Held(m, s)
  /\ allocated + offset[m] <= LogicalSize
  /\ group' = [group EXCEPT ![m] =
       [made |-> TRUE, offset |-> allocated, fields |-> fields[m], configured |-> {},
        config |-> [s \in slaves[m] |-> Held(m, s)]]]
  /\ allocated' = allocated + offset[m]
  /\ UNCHANGED <<building, writing>>

(* Group::drop, which gives no memory back (see Allocator).                  *)
DropGroup(m) ==
  /\ group[m].made
  /\ \A s \in Slaves : todo[s].mapping # m
  /\ group' = [group EXCEPT ![m] = NoGroup]
  /\ latest' = [s \in Slaves |-> IF latest[s] = m THEN Nobody ELSE latest[s]]
  /\ UNCHANGED <<building, allocated, todo, memory>>

-----------------------------------------------------------------------------
(* Group::configure *)

Len0(x)        == [op |-> "len", list |-> x, index |-> 0, value |-> 0]
LenIs(x, n)    == [op |-> "len", list |-> x, index |-> 0, value |-> n]
Item(x, i, v)  == [op |-> "item", list |-> x, index |-> i, value |-> v]
Check(x, i, v) == [op |-> "check", list |-> x, index |-> i, value |-> v]

(* variant: the list is not emptied first                                    *)
ListOnly(x, items) ==
  [i \in DOMAIN items |-> Item(x, i, items[i])] \o <<LenIs(x, Len(items))>>
(* The length of a list is zero while its items are written.                 *)
ListWrites(x, items) ==
  <<Len0(x)>> \o [i \in DOMAIN items |-> Item(x, i, items[i])] \o <<LenIs(x, Len(items))>>

PdoWrites(held, p) ==
  IF p \in Fixed THEN [i \in DOMAIN held.pdos[p] |-> Check(p, i, held.pdos[p][i])]
                 ELSE ListWrites(p, held.pdos[p])

Total(seq) == FoldLeft(LAMBDA x, y : x + y, 0, seq)

(* The sync manager is given the bytes of the SDOs of its PDOs.              *)
SyncLength(held, c) ==
  LET pdos == held.channels[c].pdos
  IN Total([j \in DOMAIN pdos |->
       Total([i \in DOMAIN held.pdos[pdos[j]] |-> held.pdos[pdos[j]][i] \div 8])])

ChannelWrites(held, c) ==
  ListWrites(c, held.channels[c].pdos) \o
  <<[op |-> "sync", list |-> c, index |-> 0,
     value |-> [enable |-> held.channels[c].pdos # <<>>,
                start |-> held.channels[c].start, length |-> SyncLength(held, c)]]>>

FmmuWrites(held, base) ==
  [i \in DOMAIN held.fmmu |->
     [op |-> "fmmu", list |-> Nobody, index |-> i,
      value |-> [held.fmmu[i] EXCEPT !.logical = @ + base]]]

(* PDOs first, then channels, both in the order of their HashMap, then FMMU. *)
Writes(held, base, pdos, channels) ==
  FlattenSeq([i \in DOMAIN pdos |-> PdoWrites(held, pdos[i])]) \o
  FlattenSeq([i \in DOMAIN channels |-> ChannelWrites(held, channels[i])]) \o
  FmmuWrites(held, base)

(* The CoE mailbox of the slave stays locked until `configure` returns.      *)
Configure(m, s) ==
  /\ group[m].made /\ s \in DOMAIN group[m].config
  /\ todo[s] = Idle
  /\ LET held == group[m].config[s]
     IN \E pdos \in SetToSeqs(DOMAIN held.pdos),
           channels \in SetToSeqs(DOMAIN held.channels) :
          todo' = [todo EXCEPT ![s] =
            [mapping |-> m, writes |-> Writes(held, group[m].offset, pdos, channels)]]
  /\ latest' = [latest EXCEPT ![s] = Nobody]
  /\ group' = [group EXCEPT ![m].configured = @ \ {s}]
  /\ UNCHANGED <<building, allocated, memory>>

(* What the slave makes of a write.                                          *)
Accepts(slave, w) ==
  CASE w.op = "item"  -> slave.list[w.list].len = 0
    [] w.op = "check" -> /\ w.index <= slave.list[w.list].len
                         /\ slave.list[w.list].items[w.index] = w.value
    [] OTHER          -> TRUE

Put(seq, i, v) == IF i \in DOMAIN seq THEN [seq EXCEPT ![i] = v] ELSE Append(seq, v)

After(slave, w) ==
  CASE w.op = "len"   -> [slave EXCEPT !.list[w.list].len = w.value]
    [] w.op = "item"  -> [slave EXCEPT !.list[w.list].items = Put(@, w.index, w.value)]
    [] w.op = "check" -> slave
    [] w.op = "sync"  -> [slave EXCEPT !.sync[w.list] = w.value]
    [] w.op = "fmmu"  -> [slave EXCEPT !.fmmu = Put(@, w.index, w.value)]

Write(s) ==
  /\ todo[s].writes # <<>>
  /\ Accepts(memory[s], Head(todo[s].writes))
  /\ memory' = [memory EXCEPT ![s] = After(@, Head(todo[s].writes))]
  /\ todo' = [todo EXCEPT ![s].writes = Tail(@)]
  /\ UNCHANGED <<building, grouping, latest>>

Configured(s) ==
  /\ todo[s].mapping # Nobody /\ todo[s].writes = <<>>
  /\ latest' = [latest EXCEPT ![s] = todo[s].mapping]
  /\ group' = [group EXCEPT ![todo[s].mapping].configured = @ \cup {s}]
  /\ todo' = [todo EXCEPT ![s] = Idle]
  /\ UNCHANGED <<building, allocated, memory>>

(* A write is refused, or lost, or differs from a fixed PDO: an error or a   *)
(* panic leaves the rest undone.  Dropping the future does as well.          *)
Fail(s) ==
  /\ todo[s].writes # <<>>
  /\ Failures \/ ~Accepts(memory[s], Head(todo[s].writes))
  /\ todo' = [todo EXCEPT ![s] = Idle]
  /\ UNCHANGED <<building, grouping, latest, memory>>

-----------------------------------------------------------------------------
Next ==
  \/ \E m \in Mappings, s \in Slaves :
       \/ Slave(m, s) \/ DropSlave(m, s)
       \/ \E r \in Registers : Register(m, s, r)
       \/ \E c \in Channels : Channel(m, s, c)
       \/ \E p \in Pdos : PushPdo(m, s, p)
       \/ \E bits \in SdoBits : PushSdo(m, s, bits)
       \/ PushPanic(m, s)
       \/ Configure(m, s)
  \/ \E m \in Mappings : Group(m) \/ DropGroup(m)
  \/ \E s \in Slaves : Write(s) \/ Configured(s) \/ Fail(s)

Spec == Init /\ [][Next]_vars

-----------------------------------------------------------------------------
(* Properties *)

Fmmu == [direction : {"read", "write"}, length : Nat, logical : Nat, physical : Nat]

Within(entries, x) == entries = <<>> \/ Len(entries) < Capacity[x]

(* The lists of a Config do not outgrow their capacities.                    *)
TypeOK ==
  /\ \A x \in Configs, s \in Slaves :
       LET held == config[x][s]
       IN /\ DOMAIN held.pdos \subseteq Pdos /\ DOMAIN held.channels \subseteq Channels
          /\ \A p \in DOMAIN held.pdos :
               held.pdos[p] \in Seq(SdoBits) /\ Within(held.pdos[p], p)
          /\ \A c \in DOMAIN held.channels :
               /\ held.channels[c].pdos \in Seq(Pdos)
               /\ Within(held.channels[c].pdos, c)
          /\ held.fmmu \in Seq(Fmmu)
  /\ slaves \in [Mappings -> SUBSET Slaves] /\ offset \in [Mappings -> Nat]
  /\ allocated \in 0..LogicalSize
  /\ latest \in [Slaves -> Mappings \cup {Nobody}]
  /\ \A s \in Slaves : /\ memory[s].fmmu \in Seq(Fmmu)
                       /\ todo[s].mapping \in Mappings \cup {Nobody}

(* What the slave makes of its configuration.                                *)
Content(s, x) == LET l == memory[s].list[x] IN SubSeq(l.items, 1, l.len)

PdoBits(s, p) == Total(Content(s, p))

(* The bit of the channel where the slave puts an entry of a PDO.            *)
EntryBit(s, o) ==
  LET pdos == Content(s, o.channel)
      slot == CHOOSE j \in DOMAIN pdos : pdos[j] = o.pdo
  IN Total([j \in 1..slot - 1 |-> PdoBits(s, pdos[j])])
     + Total(SubSeq(Content(s, o.pdo), 1, o.index - 1))

(* The slave has the field at this physical address.                         *)
FoundAt(s, f, physical) ==
  IF "byte" \in DOMAIN f.origin THEN physical = f.origin.byte
  ELSE LET sync == memory[s].sync[f.origin.channel]
       IN /\ Contains(Content(s, f.origin.channel), f.origin.pdo)
          /\ f.origin.index \in DOMAIN Content(s, f.origin.pdo)
          /\ 8 * (physical - sync.start) = EntryBit(s, f.origin)
          /\ sync.enable /\ physical + f.length <= sync.start + sync.length
          /\ sync.start + sync.length <= BufferEnd(f.origin.channel)

(* The FMMU entries, of any slave, that map a byte of the logical memory.    *)
Mapped(logical) ==
  {h \in UNION {{s} \X DOMAIN memory[s].fmmu : s \in Slaves} :
     LET e == memory[h[1]].fmmu[h[2]]
     IN e.logical <= logical /\ logical < e.logical + e.length}

Served(m, f) ==
  \A logical \in group[m].offset + f.logical .. group[m].offset + f.logical + f.length - 1 :
    \E i \in DOMAIN memory[f.slave].fmmu :
      LET e == memory[f.slave].fmmu[i]
      IN /\ Mapped(logical) = {<<f.slave, i>>}
         /\ e.direction = f.direction
         /\ FoundAt(f.slave, f, e.physical + group[m].offset + f.logical - e.logical)

(* The user mapped all the entries of the fixed PDOs of the slave, what      *)
(* `configure` does not check.                                               *)
FixedWhole(m, s) ==
  \A p \in Fixed \cap DOMAIN group[m].config[s].pdos :
    Len(group[m].config[s].pdos[p]) = Len(Factory[p])

(* Once `configure` succeeded, each field that the mapping returned for the  *)
(* slave is exchanged: exactly one FMMU entry in the whole segment maps its  *)
(* bytes, in its direction, to where the slave has the value, in the buffer  *)
(* of its channel.  Whatever was configured, half configured or dropped      *)
(* before, and however fields of other slaves interlace.                     *)
ConfiguredServed ==
  \A s \in Slaves : latest[s] # Nobody /\ FixedWhole(latest[s], s) =>
    \A f \in group[latest[s]].fields : f.slave = s => Served(latest[s], f)

(* No slave refuses a write of `configure`, even after one that failed.      *)
NeverRefused ==
  \A s \in Slaves : todo[s].writes # <<>> =>
    \/ Head(todo[s].writes).op = "check"
    \/ Accepts(memory[s], Head(todo[s].writes))

(* Mappings that use the same Config share a slave: the groups that were     *)
(* configured all have their fields exchanged.                               *)
SharedServed ==
  \A m \in Mappings : \A f \in group[m].fields :
    f.slave \in group[m].configured /\ todo[f.slave] = Idle => Served(m, f)
=============================================================================
