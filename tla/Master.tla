-------------------------------- MODULE Master --------------------------------
(***************************************************************************)
(* The safe layer of the master (src/src/master.rs, slave.rs): tasks make  *)
(* and drop `Slave` instances, which a book of addresses keeps apart, give *)
(* slaves fixed addresses and states, and share the distributed clock.     *)
(*                                                                         *)
(* A task holds one instance at most and is in one call at a time.  A PDU  *)
(* is executed by all the slaves it addresses at once, and its answer may  *)
(* be lost, or the PDU itself (RawMaster); dropping a future at the await  *)
(* of a PDU is the same as losing its answer.  A step goes from an await   *)
(* to the next one, or is a critical section of the book.                  *)
(*                                                                         *)
(* External: the registers of the slaves, what they do of a request for    *)
(* another state, the FIFO lock of tokio.                                  *)
(***************************************************************************)
EXTENDS Integers, Sequences, FiniteSets

CONSTANTS
  Tasks,
  NumSlaves,   (* slaves of the segment, 0..NumSlaves-1 in topological order *)
  Values,      (* fixed addresses that users give                            *)
  States,      (* states users ask for: each a set with one flag             *)
  None,
  Families,    (* BOUND: the kinds of calls made together in a behaviour     *)
  MaxCalls,    (* BOUND: for each family, calls of all the tasks             *)
  MaxLosses    (* BOUND: PDUs or answers lost                                *)

ASSUME ConstantsAssumption ==
  /\ NumSlaves \in Nat \ {0} /\ Values \subseteq Nat \ {0}
  /\ \A state \in States : \E flag \in state : state = {flag}
  /\ {"init"} \in States
  /\ Families \subseteq SUBSET {"own", "switch", "mailbox", "reset", "clock"}
  /\ MaxCalls \in [Families -> Nat] /\ MaxLosses \in Nat

VARIABLES
  fixed,    (* slaves: register of the fixed address, 0 for none             *)
  al,       (* slaves: state                                                 *)
  asked,    (* slaves: state requested and not handled, or None              *)
  failed,   (* slaves: the last transition failed (error flag and code)      *)
  slaves,   (* Master::slaves, the book of the addresses in use              *)
  instance, (* the Slave each task holds, or None                            *)
  call,     (* where the call of each task is                                *)
  clock,    (* Master::clock is Some                                         *)
  queue,    (* its RwLock: tasks waiting, with what for                      *)
  reading,  (* its RwLock: tasks holding a read guard                        *)
  calls, losses, family,
  unsure    (* history: an address changed unseen, see Properties            *)

registers == <<fixed, al, asked, failed>>
bookkeeping == <<slaves, instance, unsure>>
lock == <<clock, queue, reading>>
vars == <<registers, bookkeeping, lock, call, calls, losses, family>>

Slaves == 0..(NumSlaves - 1)
AutoIncremented(position) == <<"auto", position>>
Fixed(value) == <<"fixed", value>>
Addresses == {AutoIncremented(s) : s \in Slaves} \cup {Fixed(x) : x \in Values}
AnyState == UNION States

(* A Slave: its address, the slave it was made for, the address of its       *)
(* mailbox, the state it expects its slave in.                               *)
Instances == [address : Addresses, slave : Slaves, mailbox : Addresses \cup {None}, expected : States]
InitState == {"init"}
ASSUME NoneAssumption == None \notin Instances

Idle == [op |-> "idle"]

Init ==
  /\ fixed \in [Slaves -> Values \cup {0}]
  /\ \E state \in States : al = [s \in Slaves |-> state]
  /\ asked = [s \in Slaves |-> None] /\ failed = [s \in Slaves |-> FALSE]
  /\ slaves = {} /\ instance = [t \in Tasks |-> None]
  /\ call = [t \in Tasks |-> Idle]
  /\ clock = FALSE /\ queue = <<>> /\ reading = {}
  /\ calls = 0 /\ losses = 0 /\ unsure = FALSE /\ family \in Families

-----------------------------------------------------------------------------
(* PDUs *)

(* The slaves that execute a PDU sent to an address.                         *)
Reached(address) ==
  {s \in Slaves : address = AutoIncremented(s) \/ (address[1] = "fixed" /\ fixed[s] = address[2])}

Fates == {"answered", "unanswered", "lost"}
Meets(fate) ==
  /\ fate # "answered" => losses < MaxLosses
  /\ losses' = IF fate = "answered" THEN losses ELSE losses + 1
Executes(fate) == fate # "lost"

(* variant: the number of answers is not looked at                           *)
Unchecked(address, fate) == TRUE
(* PduAnswer::one: exactly one slave executed it, and the answer is there.   *)
One(address, fate) == fate = "answered" /\ Cardinality(Reached(address)) = 1
TheSlave(address) == CHOOSE s \in Reached(address) : TRUE

WriteAll(register, who, value) ==
  [s \in Slaves |-> IF s \in who THEN value ELSE register[s]]

Holders == {t \in Tasks : instance[t] # None}
(* An instance being consumed uses its slave no more.                        *)
Owners(s) == {t \in Holders : instance[t].slave = s /\ call[t].op # "drop"}

(* The task starts a call, or goes on with the one it is in.                 *)
Start(t, kind) ==
  /\ call[t] = Idle /\ kind \in family
  /\ calls < MaxCalls[family] /\ calls' = calls + 1 /\ UNCHANGED family
In(t, op) == call[t].op = op /\ UNCHANGED <<calls, family>>
Goes(t, next) == call' = [call EXCEPT ![t] = next]

-----------------------------------------------------------------------------
(* Slave::new, and SlaveDiscovery::next which tries each position in turn *)

(* The fixed address is read; the answer is used after the await.            *)
New(t, address) ==
  /\ Start(t, "own") /\ instance[t] = None
  /\ Cardinality(Reached(address)) = 1
  /\ Goes(t, [op |-> "new", address |-> address, slave |-> TheSlave(address),
              fixed |-> fixed[TheSlave(address)]])
  /\ UNCHANGED <<registers, bookkeeping, lock, losses>>

(* variant: only the address given is looked up                              *)
InUseAsGiven(address, value) == address \in slaves
InUse(address, value) == address \in slaves \/ Fixed(value) \in slaves

(* What was read of the slave does not hold any more, or is about to, or the *)
(* slave is in use by its position.                                          *)
Outdated(t) ==
  LET new == call[t] IN
  \/ fixed[new.slave] # new.fixed
  \/ \E u \in Owners(new.slave) : call[u].op = "move"
  \/ new.address[1] = "fixed" /\ \E u \in Owners(new.slave) : instance[u].address[1] = "auto"

Register(t) ==
  /\ In(t, "new") /\ Goes(t, Idle)
  /\ IF InUse(call[t].address, call[t].fixed)
     THEN UNCHANGED bookkeeping
     ELSE /\ slaves' = slaves \cup {call[t].address}
          /\ instance' = [instance EXCEPT ![t] =
               [address |-> call[t].address, slave |-> call[t].slave, mailbox |-> None,
                expected |-> InitState]]
          /\ unsure' = (unsure \/ Outdated(t))
  /\ UNCHANGED <<registers, lock, losses>>

Drop(t) ==
  /\ \/ call[t] = Idle /\ instance[t] # None /\ UNCHANGED call
     \/ call[t].op = "drop" /\ Goes(t, Idle)
  /\ slaves' = slaves \ {instance[t].address}
  /\ instance' = [instance EXCEPT ![t] = None]
  /\ UNCHANGED <<registers, lock, calls, losses, family, unsure>>

-----------------------------------------------------------------------------
(* Slave::set_address, reset_address *)

Uses(t, kind) == instance[t] # None /\ Start(t, kind)

(* Someone may now believe a wrong address: several slaves have it, or it    *)
(* replaced another one and the answer was lost.                             *)
Misled(t, value, fate) ==
  LET address == instance[t].address IN
  \/ \E s \in Slaves \ Reached(address) : fixed[s] = value
  \/ \E u \in Holders \ {t} : instance[u].address = Fixed(value)
  \/ address[1] = "fixed" /\ ~One(address, fate)

SetAddress(t, value, fate) ==
  /\ Uses(t, "own") /\ Meets(fate)
  /\ IF Executes(fate)
     THEN /\ fixed' = WriteAll(fixed, Reached(instance[t].address), value)
          /\ unsure' = (unsure \/ Misled(t, value, fate))
     ELSE UNCHANGED <<fixed, unsure>>
  /\ Goes(t, IF One(instance[t].address, fate) THEN [op |-> "move", to |-> Fixed(value)] ELSE Idle)
  /\ UNCHANGED <<al, asked, failed, slaves, instance, lock>>

(* variant: the former address stays in the book                             *)
MovedKeeping(old, new) == slaves \cup {new}
Moved(old, new) == (slaves \ {old}) \cup {new}

(* The book, then the instance, get the new address.                         *)
Move(t) ==
  /\ In(t, "move") /\ Goes(t, Idle)
  /\ slaves' = Moved(instance[t].address, call[t].to)
  /\ instance' = [instance EXCEPT ![t].address = call[t].to]
  /\ UNCHANGED <<registers, lock, losses, unsure>>

(* The instance is consumed, whether the write was answered or not.          *)
ResetAddress(t, fate) ==
  /\ Uses(t, "own") /\ Meets(fate)
  /\ fixed' = IF Executes(fate) THEN WriteAll(fixed, Reached(instance[t].address), 0) ELSE fixed
  /\ Goes(t, [op |-> "drop"])
  /\ UNCHANGED <<al, asked, failed, bookkeeping, lock>>

(* Slave::init_mailbox (with init_sii), init_coe: panics in another expected *)
(* state than Init, and without a fixed address, the one the mailbox will    *)
(* use for ever.                                                             *)
InitMailbox(t) ==
  /\ Uses(t, "mailbox") /\ instance[t].expected = InitState
  /\ instance[t].address[1] = "fixed"
  /\ Cardinality(Reached(instance[t].address)) = 1
  /\ instance' = [instance EXCEPT ![t].mailbox = instance[t].address]
  /\ UNCHANGED <<registers, lock, call, losses, slaves, unsure>>

-----------------------------------------------------------------------------
(* Slave::switch, Master::switch *)

Expecting(t, state) == instance' = [instance EXCEPT ![t].expected = state]

(* The user tells the state, nothing is asked of the slave.                  *)
Expect(t, state) ==
  /\ Uses(t, "mailbox") /\ Expecting(t, state)
  /\ UNCHANGED <<registers, lock, call, losses, slaves, unsure>>

Ask(who, target, fate) ==
  asked' = IF Executes(fate) THEN WriteAll(asked, who, target) ELSE asked

Switch(t, target, fate) ==
  /\ Uses(t, "switch") /\ Meets(fate)
  /\ Ask(Reached(instance[t].address), target, fate)
  /\ Goes(t, IF One(instance[t].address, fate) THEN [op |-> "switch", target |-> target] ELSE Idle)
  /\ UNCHANGED <<fixed, al, failed, bookkeeping, lock>>

(* The response is read; with the error flag its code has to be read too.    *)
SwitchPoll(t, fate) ==
  LET address == instance[t].address
      s == TheSlave(address)
      target == call[t].target IN
  /\ In(t, "switch") /\ Meets(fate)
  /\ IF ~One(address, fate) THEN Goes(t, Idle) /\ UNCHANGED instance
     ELSE IF failed[s] THEN /\ Goes(t, [op |-> "switch_error", target |-> target, seen |-> al[s]])
                            /\ UNCHANGED instance
     ELSE al[s] = target /\ Goes(t, Idle) /\ Expecting(t, target)
  /\ UNCHANGED <<registers, slaves, unsure, lock>>

SwitchError(t, fate) ==
  LET address == instance[t].address
      target == call[t].target IN
  /\ In(t, "switch_error") /\ Meets(fate)
  /\ IF ~One(address, fate) \/ failed[TheSlave(address)] THEN Goes(t, Idle) /\ UNCHANGED instance
     ELSE IF call[t].seen = target THEN Goes(t, Idle) /\ Expecting(t, target)
     ELSE Goes(t, [op |-> "switch", target |-> target]) /\ UNCHANGED instance
  /\ UNCHANGED <<registers, slaves, unsure, lock>>

SwitchAll(t, target, fate) ==
  /\ Start(t, "switch") /\ Meets(fate)
  /\ Ask(Slaves, target, fate)
  /\ Goes(t, [op |-> "switch_all", target |-> target])
  /\ UNCHANGED <<fixed, al, failed, bookkeeping, lock>>

(* A broadcast read gathers the flags of all slaves.                         *)
Gathered == UNION {al[s] : s \in Slaves}

(* variant: the target is among the states                                   *)
SomeReached(seen, target) == target \subseteq seen
AllReached(seen, target) == seen = target

Polled(t, seen) == IF AllReached(seen, call[t].target) THEN [op |-> "switched", target |-> call[t].target]
                   ELSE [op |-> "switch_all", target |-> call[t].target]

(* A read that is lost is done again.                                        *)
SwitchAllPoll(t) ==
  /\ In(t, "switch_all")
  /\ IF \E s \in Slaves : failed[s]
     THEN Goes(t, [op |-> "switch_all_error", target |-> call[t].target,
                   seen |-> Gathered, next |-> 0])
     ELSE Goes(t, Polled(t, Gathered))
  /\ UNCHANGED <<registers, bookkeeping, lock, losses>>

(* The codes of the slaves are read one by one.                              *)
SwitchAllError(t, fate) ==
  LET s == call[t].next IN
  /\ In(t, "switch_all_error") /\ Meets(fate)
  /\ Goes(t, IF fate # "answered" \/ failed[s] THEN Idle
             ELSE IF s + 1 = NumSlaves THEN Polled(t, call[t].seen)
             ELSE [op |-> "switch_all_error", target |-> call[t].target,
                   seen |-> call[t].seen, next |-> s + 1])
  /\ UNCHANGED <<registers, bookkeeping, lock>>

(* Master::switch returns Ok.                                                *)
SwitchedAll(t) ==
  /\ In(t, "switched") /\ Goes(t, Idle)
  /\ UNCHANGED <<registers, bookkeeping, lock, losses>>

(* A slave handles the last request: it acknowledges former errors.          *)
Transition(s) ==
  /\ asked[s] # None /\ asked' = [asked EXCEPT ![s] = None]
  /\ \/ al' = [al EXCEPT ![s] = asked[s]] /\ failed' = [failed EXCEPT ![s] = FALSE]
     \/ al[s] # asked[s] /\ failed' = [failed EXCEPT ![s] = TRUE] /\ UNCHANGED al
  /\ UNCHANGED <<fixed, bookkeeping, lock, call, calls, losses, family>>

-----------------------------------------------------------------------------
(* The lock of the clock, and Master::reset_addresses *)

Enqueue(t, mode) == queue' = Append(queue, <<t, mode>>)
Writing == \E t \in Tasks : call[t].op = "clock_new"
Granted(t) ==
  /\ queue # <<>> /\ Head(queue)[1] = t
  /\ ~Writing /\ (Head(queue)[2] = "write" => reading = {})

ResetAddresses(t) ==
  /\ Start(t, "reset") /\ slaves = {}
  /\ Enqueue(t, "read") /\ Goes(t, [op |-> "reset_lock"])
  /\ UNCHANGED <<registers, bookkeeping, clock, reading, losses>>

(* The guard is released at once; the call panics if there is a clock.       *)
ResetLock(t) ==
  /\ In(t, "reset_lock") /\ Granted(t) /\ queue' = Tail(queue)
  /\ Goes(t, IF clock THEN Idle ELSE [op |-> "reset_write"])
  /\ UNCHANGED <<registers, bookkeeping, clock, reading, losses>>

(* The broadcast does not depend any more on what was checked.               *)
ResetWrite(t, fate) ==
  /\ In(t, "reset_write") /\ Meets(fate) /\ Goes(t, Idle)
  /\ IF Executes(fate)
     THEN /\ fixed' = [s \in Slaves |-> 0]
          /\ unsure' = (unsure \/ \E u \in Holders : instance[u].address[1] = "fixed" \/ call[u].op = "move")
     ELSE UNCHANGED <<fixed, unsure>>
  /\ UNCHANGED <<al, asked, failed, slaves, instance, lock>>

(* reset_clock and init_clock, which begins with it.                         *)
ResetClock(t, init) ==
  /\ Start(t, "clock")
  /\ Enqueue(t, "write") /\ Goes(t, [op |-> "clock_take", init |-> init])
  /\ UNCHANGED <<registers, bookkeeping, clock, reading, losses>>

(* variant: the guard is not released before the second write()              *)
TakeClockHolding(t) ==
  /\ In(t, "clock_take") /\ Granted(t) /\ queue' = Tail(queue)
  /\ clock' = FALSE /\ reading' = reading \cup {t}
  /\ Goes(t, IF call[t].init THEN [op |-> "clock_init"] ELSE Idle)
  /\ UNCHANGED <<registers, bookkeeping, losses>>
TakeClock(t) ==
  /\ In(t, "clock_take") /\ Granted(t) /\ queue' = Tail(queue)
  /\ clock' = FALSE
  /\ Goes(t, IF call[t].init THEN [op |-> "clock_init"] ELSE Idle)
  /\ UNCHANGED <<registers, bookkeeping, reading, losses>>

(* The second write() is asked for once the registers are reset.             *)
InitClock(t) ==
  /\ In(t, "clock_init")
  /\ Enqueue(t, "write") /\ Goes(t, [op |-> "clock_write"])
  /\ UNCHANGED <<registers, bookkeeping, clock, reading, losses>>

WriteClock(t) ==
  /\ In(t, "clock_write") /\ Granted(t) /\ queue' = Tail(queue)
  /\ Goes(t, [op |-> "clock_new"])
  /\ UNCHANGED <<registers, bookkeeping, clock, reading, losses>>

(* DistributedClock::new, with the guard held, succeeds or not.              *)
NewClock(t) ==
  /\ In(t, "clock_new") /\ Goes(t, Idle)
  /\ \E ok \in BOOLEAN : clock' = (ok \/ clock)
  /\ UNCHANGED <<registers, bookkeeping, queue, reading, losses>>

(* Master::clock, to use it for a while or to run its sync_loop.             *)
Clock(t, use) ==
  /\ Start(t, "clock")
  /\ Enqueue(t, "read") /\ Goes(t, [op |-> "clock_lock", use |-> use])
  /\ UNCHANGED <<registers, bookkeeping, clock, reading, losses>>

(* The call panics if there is no clock.                                     *)
LockClock(t) ==
  /\ In(t, "clock_lock") /\ Granted(t) /\ queue' = Tail(queue)
  /\ IF clock THEN reading' = reading \cup {t} /\ Goes(t, [op |-> call[t].use])
              ELSE Goes(t, Idle) /\ UNCHANGED reading
  /\ UNCHANGED <<registers, bookkeeping, clock, losses>>

(* A sync_loop holds its guard until it is dropped, if ever.                 *)
ReleaseClock(t) ==
  /\ call[t].op \in {"guard", "loop"} /\ UNCHANGED <<calls, family>>
  /\ reading' = reading \ {t} /\ Goes(t, Idle)
  /\ UNCHANGED <<registers, bookkeeping, clock, queue, losses>>

-----------------------------------------------------------------------------
Begin(t) ==
  \/ \E address \in Addresses : New(t, address)
  \/ \E value \in Values, fate \in Fates : SetAddress(t, value, fate)
  \/ \E fate \in Fates : ResetAddress(t, fate)
  \/ InitMailbox(t)
  \/ \E state \in States : Expect(t, state)
  \/ \E target \in States, fate \in Fates : Switch(t, target, fate) \/ SwitchAll(t, target, fate)
  \/ ResetAddresses(t)
  \/ \E init \in BOOLEAN : ResetClock(t, init)
  \/ \E use \in {"guard", "loop"} : Clock(t, use)

Locking(t) == ResetLock(t) \/ TakeClock(t) \/ WriteClock(t) \/ LockClock(t)

Continue(t) ==
  \/ Register(t) \/ Move(t) \/ Drop(t)
  \/ \E fate \in Fates : SwitchPoll(t, fate) \/ SwitchError(t, fate)
                         \/ SwitchAllError(t, fate) \/ ResetWrite(t, fate)
  \/ SwitchAllPoll(t) \/ SwitchedAll(t)
  \/ InitClock(t) \/ NewClock(t) \/ ReleaseClock(t)

Next == (\E t \in Tasks : Begin(t) \/ Locking(t) \/ Continue(t)) \/ \E s \in Slaves : Transition(s)

(* What a task waits for without the network or a guard of the user happens. *)
Spec == Init /\ [][Next]_vars
FairSpec ==
  /\ Spec
  /\ \A t \in Tasks : WF_vars(Locking(t)) /\ WF_vars(InitClock(t)) /\ WF_vars(NewClock(t))
                      /\ WF_vars(ReleaseClock(t) /\ call[t].op = "guard")

-----------------------------------------------------------------------------
(* Properties *)

TypeOK ==
  /\ fixed \in [Slaves -> Values \cup {0}] /\ al \in [Slaves -> States]
  /\ asked \in [Slaves -> States \cup {None}] /\ failed \in [Slaves -> BOOLEAN]
  /\ slaves \subseteq Addresses /\ DOMAIN call = Tasks
  /\ instance \in [Tasks -> Instances \cup {None}]
  /\ clock \in BOOLEAN /\ reading \subseteq Tasks /\ unsure \in BOOLEAN
  /\ queue \in Seq(Tasks \X {"read", "write"})

(* A slave has one owner, until an address changed unseen (unsure): an       *)
(* instance was made from an outdated read, or by fixed address while in use *)
(* by position; an address was given twice; a change of fixed address was    *)
(* not answered; reset_addresses raced. The disorder then spreads.           *)
OneOwner == ~unsure => \A s \in Slaves : Cardinality(Owners(s)) <= 1

(* The same for what an instance reaches: its slave and no other one.        *)
ReachesOwn ==
  ~unsure => \A t \in Holders : call[t].op \notin {"move", "drop"}
                                => Reached(instance[t].address) = {instance[t].slave}

(* The book holds the address of each instance and nothing else, so that     *)
(* Master::reset_addresses panics as long as there is an instance.           *)
BookExact == ~unsure => slaves = {instance[t].address : t \in Holders}

(* Master::switch only succeeds after a broadcast read, without error flags  *)
(* or followed by codes that tell no error, at which no slave was in another *)
(* state, although the answer only gathers flags.                            *)
Succeeds(t) ==
  /\ call[t].op = "switch_all"
  /\ \/ call'[t].op = "switched"
     \/ call'[t].op = "switch_all_error" /\ call'[t].seen = call[t].target
SwitchReachesAll ==
  [][\A t \in Tasks : Succeeds(t) => \A s \in Slaves : al[s] = call[t].target]_vars

(* Who waits for the clock gets it, unless a sync_loop goes on holding it.   *)
ClockAvailable ==
  \A t \in Tasks : (\E i \in DOMAIN queue : queue[i][1] = t)
                   ~> ((\A i \in DOMAIN queue : queue[i][1] # t) \/ \E u \in Tasks : call[u].op = "loop")

(* exclusive access is ensured by Master (slave.rs:89): false, see README.   *)
ExclusiveAccess == \A s \in Slaves : Cardinality(Owners(s)) <= 1

(* The mailbox of an instance reaches its slave: false, see README.          *)
MailboxReaches ==
  ~unsure => \A t \in Holders : instance[t].mailbox # None
                                => Reached(instance[t].mailbox) = {instance[t].slave}
=============================================================================
