-------------------------------- MODULE Clock --------------------------------
(***************************************************************************)
(* The distributed clock (src/src/clock.rs): what DistributedClock::new    *)
(* computes of a segment, from the registers of its slaves.                *)
(*                                                                         *)
(* A segment is a tree of n slaves, numbered 0..n-1 as frames reach them.  *)
(* Slave i > 0 is plugged to the port port[i] of parent[i], by a cable of  *)
(* delay link[i]; its own port 0 goes to the parent.  link[0] is the delay *)
(* from the master.  External: a frame visits the branches of a slave by   *)
(* increasing port, and a slave with a clock stamps with its own time its  *)
(* arrival at each port.                                                   *)
(***************************************************************************)
EXTENDS Integers, Sequences, FiniteSets, FiniteSetsExt

CONSTANTS
  Width,     (* values of the stamps (u32 in the code)                       *)
  Wide,      (* values of the times of a sync (u64 in the code)              *)
  MaxSlaves, (* BOUND: slaves of a segment                                   *)
  Links,     (* BOUND: delays of cables                                      *)
  Clocks,    (* BOUND: times of the clocks of slaves when the frame leaves   *)
  Waits,     (* BOUND: times a frame waits in the master, out and back       *)
  Div,       (* one over the part of an offset that a sync takes (512)       *)
  Far,       (* BOUND: offsets                                               *)
  Unplugged  (* a port with nothing plugged                                  *)

ASSUME ClockAssumption ==
  /\ Width \in Nat \ {0} /\ MaxSlaves \in Nat \ {0} /\ Div \in Nat \ {0}
  /\ Wide \in Nat /\ Far \in Nat /\ 2 * Far < Wide
  /\ Links \subseteq Nat /\ Clocks \subseteq Nat /\ Waits \subseteq Nat /\ Unplugged \notin Nat

Ports == 0..3
SlavesOf(net) == 0..(net.n - 1)
Wrap(a) == a % Width

-----------------------------------------------------------------------------
(* The segment (external) *)

(* The slave plugged to port p of i.                                         *)
PluggedTo(net, i, p) == {c \in SlavesOf(net) \ {0} : net.parent[c] = i /\ net.port[c] = p}
Child(net, i, p) == IF PluggedTo(net, i, p) = {} THEN Unplugged ELSE CHOOSE c \in PluggedTo(net, i, p) : TRUE

(* The time from the arrival of a frame in i to its return from the branches *)
(* on ports up to p, where the branch on a port takes its cable twice.       *)
Branch(net, back, i, p) ==
  LET c == Child(net, i, p) IN IF c = Unplugged THEN 0 ELSE 2 * net.link[c] + back[c][3]
Back(net) ==
  LET back[i \in SlavesOf(net)] ==
        [p \in Ports |-> (IF p >= 1 THEN Branch(net, back, i, 1) ELSE 0)
                       + (IF p >= 2 THEN Branch(net, back, i, 2) ELSE 0)
                       + (IF p >= 3 THEN Branch(net, back, i, 3) ELSE 0)]
  IN back

Arrival(net) ==
  LET arrival[i \in SlavesOf(net)] ==
        IF i = 0 THEN net.link[0]
        ELSE arrival[net.parent[i]] + Back(net)[net.parent[i]][net.port[i] - 1] + net.link[i]
  IN arrival

(* Registers: ports with something plugged, time of arrival at each port.    *)
Active(net, i) == {p \in Ports : p = 0 \/ Child(net, i, p) # Unplugged}
Stamps(net) ==
  LET arrival == Arrival(net) IN
  [i \in SlavesOf(net) |-> [p \in Ports |->
     IF net.dc[i] THEN Wrap(net.clock[i] + arrival[i] + Back(net)[i][p]) ELSE 0]]

(* The trees of n slaves whose numbers are in the order of arrival: without  *)
(* regard to the delays of cables, which do not change it.                   *)
Trees(n) ==
  LET some == 1..(n - 1) IN
  {net \in [n : {n}, parent : [some -> 0..(n - 2)], port : [some -> Ports \ {0}],
            link : {[i \in 0..(n - 1) |-> 1]}, clock : {[i \in 0..(n - 1) |-> 0]},
            dc : {[i \in 0..(n - 1) |-> TRUE]}] :
     /\ \A i \in some : net.parent[i] < i
     /\ \A i, j \in some : i # j => net.parent[i] # net.parent[j] \/ net.port[i] # net.port[j]
     /\ \A i \in some : Arrival(net)[i - 1] < Arrival(net)[i]}

(* The segments of n slaves whose cables have the delays given.              *)
Equip(net, link, clock, dc) == [net EXCEPT !.link = link, !.clock = clock, !.dc = dc]
Segments(n, links, clocks, dcs) ==
  {Equip(net, link, clock, dc) :
     net \in Trees(n), link \in [0..(n - 1) -> links], clock \in [0..(n - 1) -> clocks], dc \in dcs[n]}

-----------------------------------------------------------------------------
(* init_slaves *)

Clocked(net) == {i \in SlavesOf(net) : net.dc[i]}
(* The reference is the first slave that has a clock.                        *)
Referent(net) == Min(Clocked(net))

-----------------------------------------------------------------------------
(* init_topology *)

FreePorts(active, topology, i) == {p \in Ports : p \in active[i] /\ topology[i][p] = Unplugged}

(* variant: slaves without a free port are not popped                        *)
ParentOnTop(active, topology, stack) == Len(stack)
(* The place in the stack of the next parent: the last with a free port; the *)
(* ones above are popped.  0 is for an error.                                *)
Parent(active, topology, stack) ==
  Max({0} \cup {k \in DOMAIN stack : FreePorts(active, topology, stack[k]) # {}})

(* Slave i is plugged to the first free port of its parent.                  *)
Plug(active, built, i) ==
  LET k == Parent(active, built.topology, built.stack) IN
  IF built.failed \/ k = 0 THEN [built EXCEPT !.failed = TRUE]
  ELSE LET parent == built.stack[k]
           port == Min(FreePorts(active, built.topology, parent) \cup {3}) IN
       [topology |-> [built.topology EXCEPT ![parent][port] = i, ![i][0] = parent],
        stack |-> Append(SubSeq(built.stack, 1, k), i), failed |-> FALSE]

Topology(net) ==
  LET active == [i \in SlavesOf(net) |-> Active(net, i)]
      none   == [i \in SlavesOf(net) |-> [p \in Ports |-> Unplugged]]
      built[i \in SlavesOf(net)] ==
        IF i = 0 THEN [topology |-> [none EXCEPT ![0][0] = 0], stack |-> <<0>>, failed |-> FALSE]
        ELSE Plug(active, built[i - 1], i)
  IN built[net.n - 1]

-----------------------------------------------------------------------------
(* init_delays *)

Plugged(topology, i) == {p \in Ports : topology[i][p] # Unplugged}

(* variant: other branches of the parent are not taken apart                 *)
FromFirst(topology, parent, after) == 0
(* The plugged port before the one of the child.                             *)
LastBefore(topology, parent, after) == Max({p \in Plugged(topology, parent) : p < after})

(* What a sample adds to the sums for slave i: the way to it and back, and   *)
(* the way from the parent's port 0 to the port before.                      *)
Sample(topology, stamps, i) ==
  LET parent == topology[i][0]
      after  == Min({p \in Ports : topology[parent][p] = i})
      before == LastBefore(topology, parent, after)
      last   == Max(Plugged(topology, i))
  IN [way  |-> Wrap(Wrap(stamps[parent][after] - stamps[parent][before])
                    - Wrap(stamps[i][last] - stamps[i][0])),
      port |-> Wrap(stamps[parent][before] - stamps[parent][0])]

(* All the samples are alike here: their mean is any of them.                *)
Delays(net) ==
  LET topology == Topology(net).topology
      stamps   == Stamps(net)
      delay[i \in SlavesOf(net)] ==
        IF i = 0 THEN 0
        ELSE LET sums == Sample(topology, stamps, i)
             IN delay[topology[i][0]] + sums.way \div 2 + sums.port
  IN delay

(* The delay of the reference to the master, from the time of the master     *)
(* before and after a sample, whose frame may wait in the master.            *)
MasterDelay(net, wait) ==
  LET referent == Referent(net)
      stamps   == Stamps(net)
      last     == Max(Plugged(Topology(net).topology, referent))
      trip     == 2 * net.link[0] + Back(net)[0][3]
  IN (trip + wait - Wrap(stamps[referent][last] - stamps[referent][0])) \div 2

(* Delays are written to all slaves at once: some may not get theirs, or not *)
(* be heard, which is an error.                                              *)
SendDelays(net, before) ==
  LET delays == Delays(net) IN
  {[held   |-> [i \in SlavesOf(net) |-> IF i \in fate.took THEN delays[i] ELSE before[i]],
    failed |-> fate.heard # SlavesOf(net)] :
     fate \in {f \in [took : SUBSET SlavesOf(net), heard : SUBSET SlavesOf(net)] : f.heard \subseteq f.took}}

(* What slaves may hold when init_delays ends: nothing is sent after a       *)
(* sample that a slave left unanswered.                                      *)
Failed(before) == [held |-> before, failed |-> TRUE]
InitDelays(net, before) == {Failed(before)} \cup SendDelays(net, before)

(* Nor when a slave leaves a read of init_slaves unanswered, when none has a *)
(* clock, or when the tree cannot be built.                                  *)
NewDelays(net, before) ==
  IF Clocked(net) = {} \/ Topology(net).failed THEN {Failed(before)}
  ELSE {Failed(before)} \cup InitDelays(net, before)

-----------------------------------------------------------------------------
(* sync: the offset of the master follows the one measured *)

(* The division of the code, towards zero.                                   *)
Towards0(a, b) == IF a >= 0 THEN a \div b ELSE -((-a) \div b)
(* variant: the former offset has the weight of the new one                  *)
FollowEvenly(offset, measured) == Towards0(offset + measured, Div)
Follow(offset, measured) == Towards0((Div - 1) * offset + measured, Div)

(* The bits of a time read as a signed integer.                              *)
Signed(a) == IF 2 * a < Wide THEN a ELSE a - Wide
(* The time of the reference, read by a frame sent at the time sent of the   *)
(* master, against it; delay is that of the reference among the slaves.      *)
Measured(time, sent, delay) == Signed((time - (sent + delay)) % Wide)
(* A frame that nobody answers, or lost, changes nothing.                    *)
Sync(offset, answers, time, sent, delay) ==
  IF answers = 0 THEN offset ELSE Follow(offset, Measured(time, sent, delay))

-----------------------------------------------------------------------------
(* Properties *)

(* Segments of slaves which all, or some, have a clock.                      *)
AllDc == [n \in 1..MaxSlaves |-> {[i \in 0..(n - 1) |-> TRUE]}]
AnyDc == [n \in 1..MaxSlaves |-> {dc \in [0..(n - 1) -> BOOLEAN] : \E i \in 0..(n - 1) : dc[i]}]

(* Stamps wrap, but not while a frame makes its trip to all slaves and back. *)
ASSUME TripAssumption ==
  \A n \in 1..MaxSlaves : \A net \in Segments(n, Links, Clocks, AllDc) : 2 * net.link[0] + Back(net)[0][3] < Width

(* The tree rebuilt from active ports alone is the segment.                  *)
TopologyRebuilt ==
  \A n \in 1..MaxSlaves : \A net \in Segments(n, {1}, {0}, AllDc) :
    LET built == Topology(net) IN
    /\ ~built.failed
    /\ \A i \in SlavesOf(net), p \in Ports \ {0} : built.topology[i][p] = Child(net, i, p)

(* When all the slaves have a clock, delays are exact whatever the times of  *)
(* their clocks, which wrap: a slave's is the time since the frame reached   *)
(* the reference, and the reference's is the time from the master and half   *)
(* of what frames wait.                                                      *)
Exact(net) == [i \in SlavesOf(net) |-> Arrival(net)[i] - Arrival(net)[0]]
DelaysExact ==
  \A n \in 1..MaxSlaves : \A net \in Segments(n, Links, Clocks, AllDc) :
    /\ Delays(net) = Exact(net)
    /\ \A wait \in Waits : MasterDelay(net, wait) = Arrival(net)[0] + wait \div 2

(* Slaves hold these delays when new does not fail; when it does, each holds *)
(* its own or what it held before.  (Cables and clocks are alike here.)      *)
DelaysHeld ==
  \A n \in 1..MaxSlaves, link \in Links, clock \in Clocks : \A net \in Segments(n, {link}, {clock}, AllDc) :
    LET exact  == Exact(net)
        before == [i \in SlavesOf(net) |-> Width]
    IN \A new \in NewDelays(net, before) :
         /\ ~new.failed => new.held = exact
         /\ \A i \in SlavesOf(net) : new.held[i] \in {exact[i], before[i]}

(* However the offset starts, each sync that is answered brings it closer to *)
(* what the time of the reference is apart from that of the master, when it  *)
(* is steady, until it is less than Div away; rounding never moves it off,   *)
(* times may wrap, and a lost frame leaves it.                               *)
Distance(a, b) == IF a < b THEN b - a ELSE a - b
OffsetSettles ==
  \A offset, apart \in (-Far)..Far, sent \in 0..(Wide - 1), delay \in Links :
    LET time == (sent + delay + apart) % Wide
        next == Sync(offset, 1, time, sent, delay)
    IN /\ Distance(next, apart) <= Distance(offset, apart)
       /\ Distance(offset, apart) >= Div => Distance(next, apart) < Distance(offset, apart)
       /\ Sync(offset, 0, time, sent, delay) = offset

(* DelaysExact with slaves without a clock: false, see README.               *)
MixedDelaysExact ==
  \A n \in 1..MaxSlaves : \A net \in Segments(n, Links, Clocks, AnyDc) :
    \A i \in SlavesOf(net) : net.dc[i] => Delays(net)[i] = Arrival(net)[i] - Arrival(net)[0]
=============================================================================
