------------------------------ MODULE Allocator ------------------------------
(***************************************************************************)
(* The allocator of the logical memory (src/src/mapping.rs): each call of  *)
(* `Allocator::group` carves a region for a mapping out of the free slots, *)
(* agrees with the other groups on the configuration of the slaves they    *)
(* share, waits for a topic of the master, and becomes a `Group`, that its *)
(* owner may drop later.                                                   *)
(*                                                                         *)
(* `group` awaits its topic with the std mutex `internal` locked, so a     *)
(* call that reaches lock() meanwhile does not yield: it blocks its whole  *)
(* thread, with every other future polled on it.  A step is what happens   *)
(* between two points where other threads matter: lock(), the await, the   *)
(* parts of Group::drop.                                                   *)
(***************************************************************************)
EXTENDS Integers, FiniteSets, FiniteSetsExt

CONSTANTS
  Calls,      (* calls of Allocator::group, each made at most once           *)
  Slaves,     (* addresses of slaves                                         *)
  Absent,     (* configuration of a slave that a Config does not contain     *)
  None,       (* no call                                                     *)
  Size,       (* Mapping::size() of the mapping of each call                 *)
  Config,     (* Config::slaves at each call: content for each slave         *)
  Uses,       (* Mapping::slaves of the mapping of each call                 *)
  Mapped,     (* the slaves that a MappingSlave holds locked at each call    *)
  ThreadOf,   (* the thread polling each call                                *)
  Abandon,    (* the calls whose future may be cancelled while awaiting      *)
  Topics,     (* tokens of the master that groups can get                    *)
  U32Max      (* u32::MAX: size of the logical memory                        *)

ASSUME ConstantsAssumption ==
  /\ None \notin Calls
  /\ Size \in [Calls -> Nat]
  /\ Uses \in [Calls -> SUBSET Slaves] /\ Mapped \in [Calls -> SUBSET Slaves]
  /\ \A c \in Calls : \A k \in Uses[c] : Config[c][k] # Absent
  /\ Abandon \subseteq Calls
  /\ Topics \in Nat /\ U32Max \in Nat

VARIABLES
  free,       (* free slots of the logical memory                            *)
  slaves,     (* the call which made the Arc each Weak refers to             *)
  holder,     (* the call holding the mutex                                  *)
  poisoned,   (* a call panicked with the mutex locked                       *)
  tokens,     (* free tokens of the master                                   *)
  phase,      (* where each call, then its group, is                         *)
  group,      (* `offset` and `allocated` of each group                      *)
  config,     (* Group::config: the call which made the Arc for each slave   *)
  asked       (* what `compatible` answered before each call (history)       *)

vars == <<free, slaves, holder, poisoned, tokens, phase, group, config, asked>>

-----------------------------------------------------------------------------
LogicalSlot == [size : Nat, position : Nat]

(* The order of LogicalSlot in the BTreeSet.                                 *)
Before(s, t) == s.size < t.size \/ (s.size = t.size /\ s.position <= t.position)

(* Slots of at least `size` bytes: `free.range(LogicalSlot {size, 0} ..)`.   *)
LargeEnough(size) == {s \in free : s.size >= size}

(* Variants: operands swapped, and the position not advanced.                *)
RemainderSwapped(slot, size) ==
  IF slot.size > size
  THEN {[size |-> size - slot.size, position |-> slot.position + size]}
  ELSE {}
RemainderInPlace(slot, size) ==
  IF slot.size > size
  THEN {[size |-> slot.size - size, position |-> slot.position]}
  ELSE {}

(* What is left of a slot when its first `size` bytes are taken.             *)
Remainder(slot, size) ==
  IF slot.size > size
  THEN {[size |-> slot.size - size, position |-> slot.position + size]}
  ELSE {}

(* Variant: the slot that was left when the region was cut.                  *)
DroppedRest(c) == [size |-> group[c].allocated - Size[c],
                   position |-> group[c].offset + Size[c]]

(* The slot that Group::drop looks for in `free`.                            *)
Dropped(c) == [size |-> group[c].allocated, position |-> group[c].offset]

(* The calls owning Arcs: building a group, or whose group still exists.     *)
Holding == {c \in Calls : phase[c] \in {"topic", "live", "freeing", "freed"}}

(* Weak::upgrade on the entry of slave k.                                    *)
Upgrade(k) == \E c \in Holding : slaves[k] # None /\ config[c][k] = slaves[k]

(* AllocatorInternal::compatible, for the Config of call c.                  *)
Compatible(c) ==
  \A k \in Slaves :
    Config[c][k] # Absent /\ Upgrade(k) => Config[slaves[k]][k] = Config[c][k]

(* Variant: the Arc other groups have is not reused.                         *)
OwnConfig(c) == [k \in Slaves |-> IF k \in Uses[c] THEN c ELSE None]

(* The Arc of the group of c for each slave: the current one, or a new one.  *)
SharedConfig(c) ==
  [k \in Slaves |-> IF k \notin Uses[c] THEN None
                    ELSE IF Upgrade(k) THEN slaves[k] ELSE c]

(* try_read() on a slave's configuration fails: compatible() reads those of  *)
(* the slaves in use, group() also its own new ones.                         *)
Unreadable(c) == \E k \in Mapped[c] : Config[c][k] # Absent /\ Upgrade(k)
StillMapped(c) ==
  Unreadable(c) \/ \E k \in Mapped[c] \cap Uses[c] : ~Upgrade(k)

(* A thread in lock() polls nothing else.                                    *)
Polled(c) == \A d \in Calls \ {c} :
  ThreadOf[d] = ThreadOf[c] => phase[d] \notin {"lock", "freeing"}

FreeMemory == MapThenSumSet(LAMBDA s : s.size, free)
AllocatedMemory == U32Max - FreeMemory

-----------------------------------------------------------------------------
Init ==
  /\ free = {[size |-> U32Max, position |-> 0]}
  /\ slaves = [k \in Slaves |-> None]
  /\ holder = None
  /\ poisoned = FALSE
  /\ tokens = Topics
  /\ phase = [c \in Calls |-> "idle"]
  /\ group = [c \in Calls |-> [offset |-> 0, allocated |-> 0]]
  /\ config = [c \in Calls |-> [k \in Slaves |-> None]]
  /\ asked = [c \in Calls |-> FALSE]

Goto(c, p) == phase' = [phase EXCEPT ![c] = p]

(* The owner of the mapping asks whether it would be accepted; slaves are    *)
(* visited in any order, the first difference answers.                       *)
Ask(c) ==
  /\ phase[c] = "idle" /\ Polled(c)
  /\ holder = None /\ ~poisoned
  /\ Unreadable(c) => ~Compatible(c)
  /\ asked' = [asked EXCEPT ![c] = Compatible(c)]
  /\ UNCHANGED <<free, slaves, holder, poisoned, tokens, phase, group, config>>

(* lock().unwrap(), or try_read() with the mutex locked, panics.             *)
AskPanic(c) ==
  /\ phase[c] = "idle" /\ Polled(c)
  /\ holder = None
  /\ poisoned \/ Unreadable(c)
  /\ poisoned' = TRUE
  /\ Goto(c, "panicked")
  /\ UNCHANGED <<free, slaves, holder, tokens, group, config, asked>>

(* `group` is called and comes to lock().                                    *)
Enter(c) ==
  /\ phase[c] = "idle" /\ Polled(c)
  /\ Goto(c, "lock")
  /\ UNCHANGED <<free, slaves, holder, poisoned, tokens, group, config, asked>>

Accepted(c) == ~poisoned /\ Compatible(c) /\ ~StillMapped(c) /\ LargeEnough(Size[c]) # {}

(* Best fit: the smallest slot that is large enough, the lowest one first.   *)
Reserve(c) ==
  /\ phase[c] = "lock" /\ holder = None /\ Accepted(c)
  /\ \E slot \in LargeEnough(Size[c]) :
       /\ \A s \in LargeEnough(Size[c]) : Before(slot, s)
       /\ free' = (free \ {slot}) \cup Remainder(slot, Size[c])
       /\ group' = [group EXCEPT ![c] = [offset |-> slot.position, allocated |-> slot.size]]
  /\ config' = [config EXCEPT ![c] = SharedConfig(c)]
  /\ slaves' = [k \in Slaves |-> IF k \in Uses[c] THEN SharedConfig(c)[k] ELSE slaves[k]]
  /\ holder' = c
  /\ Goto(c, "topic")
  /\ UNCHANGED <<poisoned, tokens, asked>>

(* lock().unwrap() on a poisoned mutex, a failed assertion, a slave still in *)
(* a mapping, no slot: panics with the mutex locked.  What it may have       *)
(* changed by then is never read again.                                      *)
Refuse(c) ==
  /\ phase[c] = "lock" /\ holder = None /\ ~Accepted(c)
  /\ poisoned' = TRUE
  /\ Goto(c, "panicked")
  /\ UNCHANGED <<free, slaves, holder, tokens, group, config, asked>>

(* `master.topic(..).await` is over: the group is built, the mutex unlocked. *)
Obtain(c) ==
  /\ phase[c] = "topic" /\ Polled(c) /\ tokens > 0
  /\ tokens' = tokens - 1
  /\ holder' = None
  /\ Goto(c, "live")
  /\ UNCHANGED <<free, slaves, poisoned, group, config, asked>>

(* Variant: the mutex stays locked.                                          *)
CancelLocked(c) ==
  /\ c \in Abandon
  /\ phase[c] = "topic" /\ Polled(c)
  /\ Goto(c, "gone")
  /\ UNCHANGED <<free, slaves, holder, poisoned, tokens, group, config, asked>>

(* The future is dropped at its await: locks and Arcs go, the slot is lost.  *)
Cancel(c) ==
  /\ c \in Abandon
  /\ phase[c] = "topic" /\ Polled(c)
  /\ holder' = None
  /\ Goto(c, "gone")
  /\ UNCHANGED <<free, slaves, poisoned, tokens, group, config, asked>>

(* Group::drop: the topic goes first, and its token with it.                 *)
DropTopic(c) ==
  /\ phase[c] = "live" /\ Polled(c)
  /\ tokens' = tokens + 1
  /\ Goto(c, "freeing")
  /\ UNCHANGED <<free, slaves, holder, poisoned, group, config, asked>>

(* Then its slot is removed from the free ones; unwrap() panics if poisoned, *)
(* after which the fields are dropped all the same.                          *)
DropSlot(c) ==
  /\ phase[c] = "freeing" /\ holder = None
  /\ free' = IF poisoned THEN free ELSE free \ {Dropped(c)}
  /\ Goto(c, "freed")
  /\ UNCHANGED <<slaves, holder, poisoned, tokens, group, config, asked>>

(* The fields are dropped, the Arcs of the configurations among them.        *)
DropConfig(c) ==
  /\ phase[c] = "freed" /\ Polled(c)
  /\ Goto(c, "gone")
  /\ UNCHANGED <<free, slaves, holder, poisoned, tokens, group, config, asked>>

(* Nothing is left to do but keeping the groups.                             *)
Idle ==
  /\ \A c \in Calls : phase[c] \in {"live", "panicked", "gone"}
  /\ UNCHANGED vars

Next ==
  \/ \E c \in Calls :
       \/ Ask(c) \/ AskPanic(c) \/ Enter(c) \/ Reserve(c) \/ Refuse(c) \/ Obtain(c) \/ Cancel(c)
       \/ DropTopic(c) \/ DropSlot(c) \/ DropConfig(c)
  \/ Idle

Spec == Init /\ [][Next]_vars

(* A running thread goes on polling its futures; nobody has to drop a group. *)
FairSpec == Spec /\ \A c \in Calls :
  WF_vars(Reserve(c)) /\ WF_vars(Refuse(c)) /\ WF_vars(Obtain(c)) /\ WF_vars(DropSlot(c))

-----------------------------------------------------------------------------
(* Properties *)

TypeOK ==
  /\ free \subseteq LogicalSlot
  /\ slaves \in [Slaves -> Calls \cup {None}]
  /\ holder \in Calls \cup {None}
  /\ poisoned \in BOOLEAN
  /\ tokens \in Nat
  /\ phase \in [Calls -> {"idle", "lock", "topic", "live", "freeing", "freed",
                          "panicked", "gone"}]
  /\ group \in [Calls -> [offset : Nat, allocated : Nat]]
  /\ config \in [Calls -> [Slaves -> Calls \cup {None}]]
  /\ asked \in [Calls -> BOOLEAN]

(* The logical memory a group exchanges, from its reservation to its drop.   *)
Regions == {c \in Calls : phase[c] \in {"topic", "live", "freeing"}}
Region(c) == [size |-> Size[c], position |-> group[c].offset]

Apart(s, t) == \/ s.position + s.size <= t.position
               \/ t.position + t.size <= s.position
Inside(s) == s.position + s.size <= U32Max

(* Two groups never exchange the same bytes of the logical memory, no free   *)
(* slot overlaps a group or another slot, and no position overflows a u32,   *)
(* whatever is taken, dropped or cancelled in whatever order.                *)
RegionsDisjoint ==
  /\ \A c \in Regions : Inside(Region(c))
  /\ \A c, d \in Regions : c # d => Apart(Region(c), Region(d))
  /\ \A c \in Regions : \A s \in free : Apart(Region(c), s)
  /\ \A s \in free : Inside(s)
  /\ \A s, t \in free : s # t => Apart(s, t)

(* Groups existing at once agree on the configuration of every slave they    *)
(* share, and it is the one each group's mapping asked for: Group::configure *)
(* of one group does not undo the other's.                                   *)
OneConfig ==
  \A c, d \in Holding : \A k \in Uses[c] \cap Uses[d] :
    Config[config[c][k]][k] = Config[d][k]

(* Memory only leaves `free` for a group being made, and as much as it needs:*)
(* no drop and no refusal costs memory to the others.                        *)
TakenIsReserved ==
  [][FreeMemory' < FreeMemory =>
       \E c \in Calls : /\ phase[c] = "lock" /\ phase'[c] = "topic"
                        /\ FreeMemory' = FreeMemory - Size[c]]_vars

(* A call of `group` gets its group, or panics: the mutex held during the    *)
(* await of the topic locks nobody out for ever, as long as the master has   *)
(* tokens again and again.                                                   *)
CallsEnd ==
  ([]<>(tokens > 0)) =>
    \A c \in Calls : phase[c] = "lock" ~> phase[c] \in {"live", "panicked", "gone"}

(* Each holder's Arc is the one the Weak of the allocator refers to: what    *)
(* makes `compatible`, which only looks at the latter, enough for OneConfig. *)
WeakIsShared ==
  \A c \in Holding : \A k \in Uses[c] :
    /\ config[c][k] = slaves[k] /\ slaves[k] \in Calls
    /\ Config[slaves[k]][k] = Config[c][k]

(* The mappings of these calls agree on every slave they share, are in no    *)
(* other mapping, and fit together in the memory.                            *)
Acceptable(calls) ==
  /\ \A c, d \in calls : \A k \in Uses[d] : Config[c][k] \in {Absent, Config[d][k]}
  /\ \A c \in calls : Size[c] > 0 /\ Mapped[c] = {}
  /\ MapThenSumSet(LAMBDA c : Size[c], calls) <= U32Max

(* The calls that were made.                                                 *)
Made == {c \in Calls : phase[c] # "idle"}

(* No call panics as long as the mappings of the calls made agree and fit    *)
(* together, whatever was dropped or cancelled: no slot is lost to pieces    *)
(* too small, and no call poisons the mutex for the others.                  *)
NobodyRefused == Acceptable(Made) => \A c \in Calls : phase[c] # "panicked"

(* Allocator::allocated is "the amount of allocated memory": what existing   *)
(* groups, and those being made, take.                                       *)
AllocatedIsHeld ==
  holder = None /\ ~poisoned =>
    AllocatedMemory = MapThenSumSet(LAMBDA c : Size[c], Regions)

(* "If true, a group can be initialized from the mapping": `compatible`.     *)
AskedHolds == \A c \in Calls : asked[c] => phase[c] # "panicked"
=============================================================================
