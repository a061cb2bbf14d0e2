----------------------------- MODULE MasterProofs -----------------------------
(***************************************************************************)
(* Proofs about Master, for any tasks, slaves, addresses, states, losses   *)
(* and bounds: types, the ownership of slaves, which rests on what the     *)
(* book, the instances and the registers of slaves have to do with each    *)
(* other while addresses change, and the broadcasts of switch.  Then about *)
(* Clock, for any segment: the tree rebuilt from ports, the delays told    *)
(* from stamps, the offset.                                                *)
(***************************************************************************)
EXTENDS MasterClock, FiniteSetTheorems, SequenceTheorems, WellFoundedInduction, TLAPS

-----------------------------------------------------------------------------
(* Addresses *)

LEMMA AddressForms ==
  /\ \A s, r : AutoIncremented(s)[1] = "auto" /\ (AutoIncremented(s) = AutoIncremented(r) => s = r)
  /\ \A v, w : Fixed(v)[1] = "fixed" /\ (Fixed(v) = Fixed(w) => v = w)
  /\ \A s, v : AutoIncremented(s) # Fixed(v)
BY DEF AutoIncremented, Fixed

LEMMA AddressCases ==
  ASSUME NEW a \in Addresses
  PROVE  \/ \E s \in Slaves : a = AutoIncremented(s)
         \/ \E v \in Values : a = Fixed(v)
BY DEF Addresses

(* What an address reaches, as a function of the registers.                  *)
Reach(f, a) == {s \in Slaves : a = AutoIncremented(s) \/ (a[1] = "fixed" /\ f[s] = a[2])}

LEMMA ReachedIs == \A a : Reached(a) = Reach(fixed, a)
BY DEF Reached, Reach

LEMMA ReachAuto == \A f : \A s \in Slaves : Reach(f, AutoIncremented(s)) = {s}
BY DEF Reach, AutoIncremented

LEMMA ReachFixed == \A f, v : Reach(f, Fixed(v)) = {s \in Slaves : f[s] = v}
BY DEF Reach, AutoIncremented, Fixed

LEMMA Single ==
  ASSUME NEW a, Cardinality(Reached(a)) = 1
  PROVE  TheSlave(a) \in Slaves /\ Reached(a) = {TheSlave(a)}
<1>1. IsFiniteSet(Slaves)
  BY ConstantsAssumption, FS_Interval DEF Slaves
<1>2. IsFiniteSet(Reached(a))
  BY <1>1, FS_Subset DEF Reached
<1>3. PICK s : Reached(a) = {s}
  BY <1>2, FS_Singleton
<1> QED BY <1>3 DEF TheSlave, Reached

-----------------------------------------------------------------------------
(* Invariants *)

(* Calls in progress have their arguments. An address by position is that of *)
(* the slave.                                                                *)
InstanceForm(t) ==
  instance[t] # None /\ instance[t].address[1] = "auto"
  => instance[t].address = AutoIncremented(instance[t].slave)
CallForm(t) ==
  /\ call[t].op = "new" =>
       /\ instance[t] = None
       /\ call[t].address \in Addresses /\ call[t].slave \in Slaves
       /\ call[t].address[1] = "auto" => call[t].address = AutoIncremented(call[t].slave)
       /\ call[t].address[1] = "fixed" => call[t].address = Fixed(call[t].fixed)
  /\ call[t].op = "move" => instance[t] # None /\ \E v \in Values : call[t].to = Fixed(v)
  /\ call[t].op = "drop" => instance[t] # None
  /\ call[t].op = "clock_lock" => call[t].use \in {"guard", "loop"}
  /\ call[t].op \in {"switch_all", "switch_all_error"} => call[t].target \in States
  /\ call[t].op \in {"switch", "switch_error"} => instance[t] # None /\ call[t].target \in States
Form == \A t \in Tasks : InstanceForm(t) /\ CallForm(t)

(* Until an address changes unseen: the address an instance has, or is about *)
(* to have, reaches its slave only; no slave is kept by two instances; no    *)
(* address is, or is about to be, that of two; what was read for a new       *)
(* instance, if it still holds, names one slave; the book is exact.          *)
Keeps(t)  == instance[t] # None /\ call[t].op # "drop"
Target(t) == IF call[t].op = "move" THEN call[t].to ELSE instance[t].address
TargetsReach == \A t \in Tasks : Keeps(t) => Reach(fixed, Target(t)) = {instance[t].slave}
SlavesApart ==
  \A t, u \in Tasks : t # u /\ Keeps(t) /\ Keeps(u) => instance[t].slave # instance[u].slave
AddressesApart ==
  \A t, u \in Holders : t # u =>
    /\ instance[t].address # instance[u].address
    /\ call[t].op = "move" => call[t].to # instance[u].address
NewReaches ==
  \A t \in Tasks :
    /\ call[t].op = "new" /\ call[t].address[1] = "fixed"
    /\ fixed[call[t].slave] = call[t].fixed
    => Reach(fixed, call[t].address) = {call[t].slave}
BookIs == slaves = {instance[t].address : t \in Holders}
Order  == ~unsure => TargetsReach /\ SlavesApart /\ AddressesApart /\ NewReaches /\ BookIs

-----------------------------------------------------------------------------
(* Types *)

LEMMA ExpectingType ==
  ASSUME TypeOK, NEW t \in Tasks, instance[t] # None, NEW state \in States, Expecting(t, state)
  PROVE  instance' \in [Tasks -> Instances \cup {None}]
<1>1. instance[t] \in Instances
  BY DEF TypeOK
<1>2. [instance[t] EXCEPT !.expected = state] \in Instances
  BY <1>1 DEF Instances
<1> QED BY <1>2 DEF Expecting, TypeOK

LEMMA NextType == TypeOK /\ Form /\ [Next]_vars => TypeOK'
<1> SUFFICES ASSUME TypeOK, Form, [Next]_vars PROVE TypeOK'
  OBVIOUS
<1> USE DEF TypeOK, registers, bookkeeping, lock, Goes, In, Start, Uses
<1>1. ASSUME NEW t \in Tasks, Begin(t) PROVE TypeOK'
  <2>1. ASSUME NEW a \in Addresses, New(t, a) PROVE TypeOK'
    BY <2>1 DEF New
  <2>2. ASSUME NEW v \in Values, NEW fate \in Fates, SetAddress(t, v, fate) PROVE TypeOK'
    <3>1. fixed' \in [Slaves -> Values \cup {0}]
      BY <2>2 DEF SetAddress, WriteAll
    <3>2. unsure' \in BOOLEAN
      BY <2>2 DEF SetAddress
    <3> QED BY <2>2, <3>1, <3>2 DEF SetAddress
  <2>3. ASSUME NEW fate \in Fates, ResetAddress(t, fate) PROVE TypeOK'
    <3>1. fixed' \in [Slaves -> Values \cup {0}]
      BY <2>3 DEF ResetAddress, WriteAll
    <3> QED BY <2>3, <3>1 DEF ResetAddress
  <2>4. ASSUME InitMailbox(t) PROVE TypeOK'
    BY <2>4 DEF InitMailbox, Instances
  <2>5. ASSUME NEW target \in States, NEW fate \in Fates, Switch(t, target, fate) PROVE TypeOK'
    BY <2>5 DEF Switch, Ask, WriteAll
  <2>10. ASSUME NEW state \in States, Expect(t, state) PROVE TypeOK'
    BY <2>10 DEF Expect, Expecting, Instances
  <2>6. ASSUME NEW target \in States, NEW fate \in Fates, SwitchAll(t, target, fate) PROVE TypeOK'
    BY <2>6 DEF SwitchAll, Ask, WriteAll
  <2>7. ASSUME ResetAddresses(t) PROVE TypeOK'
    BY <2>7 DEF ResetAddresses, Enqueue
  <2>8. ASSUME NEW init \in BOOLEAN, ResetClock(t, init) PROVE TypeOK'
    BY <2>8 DEF ResetClock, Enqueue
  <2>9. ASSUME NEW use \in {"guard", "loop"}, Clock(t, use) PROVE TypeOK'
    BY <2>9 DEF Clock, Enqueue
  <2> HIDE DEF TypeOK
  <2> QED BY <1>1, <2>1, <2>2, <2>3, <2>4, <2>5, <2>6, <2>7, <2>8, <2>9, <2>10 DEF Begin
<1>2. ASSUME NEW t \in Tasks, Locking(t) PROVE TypeOK'
  <2>1. ASSUME Granted(t) PROVE Tail(queue) \in Seq(Tasks \X {"read", "write"})
    BY <2>1 DEF Granted
  <2>2. ASSUME ResetLock(t) PROVE TypeOK'
    BY <2>1, <2>2 DEF ResetLock
  <2>3. ASSUME TakeClock(t) PROVE TypeOK'
    BY <2>1, <2>3 DEF TakeClock
  <2>4. ASSUME WriteClock(t) PROVE TypeOK'
    BY <2>1, <2>4 DEF WriteClock
  <2>5. ASSUME LockClock(t) PROVE TypeOK'
    BY <2>1, <2>5 DEF LockClock
  <2> HIDE DEF TypeOK
  <2> QED BY <1>2, <2>2, <2>3, <2>4, <2>5 DEF Locking
<1>3. ASSUME NEW t \in Tasks, Continue(t) PROVE TypeOK'
  <2>1. ASSUME Register(t) PROVE TypeOK'
    <3>1. [address |-> call[t].address, slave |-> call[t].slave, mailbox |-> None,
           expected |-> InitState] \in Instances
      BY <2>1, ConstantsAssumption DEF Register, Form, CallForm, Instances, InitState
    <3>2. unsure' \in BOOLEAN
      BY <2>1 DEF Register
    <3> QED BY <2>1, <3>1, <3>2 DEF Register, Form, CallForm
  <2>2. ASSUME Move(t) PROVE TypeOK'
    <3>1. call[t].to \in Addresses /\ instance[t] \in Instances
      BY <2>2 DEF Move, Form, CallForm, Addresses
    <3>2. [instance[t] EXCEPT !.address = call[t].to] \in Instances
      BY <3>1 DEF Instances
    <3> QED BY <2>2, <3>1, <3>2 DEF Move, Moved
  <2>3. ASSUME Drop(t) PROVE TypeOK'
    BY <2>3 DEF Drop
  <2>4. ASSUME NEW fate \in Fates, SwitchPoll(t, fate) PROVE TypeOK'
    <3>1. UNCHANGED instance \/ Expecting(t, call[t].target)
      BY <2>4 DEF SwitchPoll
    <3>2. instance' \in [Tasks -> Instances \cup {None}]
      BY <2>4, <3>1, ExpectingType DEF SwitchPoll, Form, CallForm
    <3> QED BY <2>4, <3>2 DEF SwitchPoll
  <2>5. ASSUME NEW fate \in Fates, SwitchError(t, fate) PROVE TypeOK'
    <3>1. UNCHANGED instance \/ Expecting(t, call[t].target)
      BY <2>5 DEF SwitchError
    <3>2. instance' \in [Tasks -> Instances \cup {None}]
      BY <2>5, <3>1, ExpectingType DEF SwitchError, Form, CallForm
    <3> QED BY <2>5, <3>2 DEF SwitchError
  <2>6. ASSUME NEW fate \in Fates, SwitchAllError(t, fate) PROVE TypeOK'
    BY <2>6 DEF SwitchAllError
  <2>7. ASSUME NEW fate \in Fates, ResetWrite(t, fate) PROVE TypeOK'
    BY <2>7 DEF ResetWrite
  <2>8. ASSUME SwitchAllPoll(t) \/ SwitchedAll(t) PROVE TypeOK'
    BY <2>8 DEF SwitchAllPoll, SwitchedAll
  <2>9. ASSUME InitClock(t) PROVE TypeOK'
    BY <2>9 DEF InitClock, Enqueue
  <2>11. ASSUME ReleaseClock(t) PROVE TypeOK'
    BY <2>11 DEF ReleaseClock
  <2>10. ASSUME NewClock(t) PROVE TypeOK'
    <3>1. clock' \in BOOLEAN
      BY <2>10 DEF NewClock
    <3> QED BY <2>10, <3>1 DEF NewClock
  <2> HIDE DEF TypeOK
  <2> QED BY <1>3, <2>1, <2>2, <2>3, <2>4, <2>5, <2>6, <2>7, <2>8, <2>9, <2>10, <2>11 DEF Continue
<1>4. ASSUME NEW s \in Slaves, Transition(s) PROVE TypeOK'
  BY <1>4 DEF Transition
<1>5. ASSUME UNCHANGED vars PROVE TypeOK'
  BY <1>5 DEF vars
<1> HIDE DEF TypeOK
<1> QED BY <1>1, <1>2, <1>3, <1>4, <1>5 DEF Next

-----------------------------------------------------------------------------
(* Forms *)

(* The steps of a task that touch no instance and start none of the calls    *)
(* that Form speaks of.                                                      *)
LEMMA FormPlain ==
  ASSUME TypeOK, Form, NEW t \in Tasks, UNCHANGED instance, NEW next, Goes(t, next),
         next.op \notin {"new", "move", "drop", "clock_lock"},
         next.op \in {"switch_all", "switch_all_error"} => next.target \in States,
         next.op \in {"switch", "switch_error"} => instance[t] # None /\ next.target \in States
  PROVE  Form'
<1>1. ASSUME NEW u \in Tasks, u # t PROVE InstanceForm(u)' /\ CallForm(u)'
  BY <1>1 DEF Form, InstanceForm, CallForm, Goes, TypeOK
<1>2. call'[t] = next
  BY DEF Goes, TypeOK
<1>3. InstanceForm(t)' /\ CallForm(t)'
  BY <1>2 DEF Form, InstanceForm, CallForm
<1> QED BY <1>1, <1>3 DEF Form

LEMMA FormTask ==
  ASSUME TypeOK, Form, NEW t \in Tasks,
         \A u \in Tasks \ {t} : instance'[u] = instance[u] /\ call'[u] = call[u],
         InstanceForm(t)', CallForm(t)'
  PROVE  Form'
<1>1. ASSUME NEW u \in Tasks, u # t PROVE InstanceForm(u)' /\ CallForm(u)'
  BY <1>1 DEF Form, InstanceForm, CallForm
<1> QED BY <1>1 DEF Form

(* Steps that change nothing of an instance but its mailbox and its expected *)
(* state.                                                                    *)
SameUse ==
  \A u \in Tasks : /\ instance'[u] = None <=> instance[u] = None
                   /\ instance[u] # None => /\ instance'[u].address = instance[u].address
                                            /\ instance'[u].slave = instance[u].slave

LEMMA ExpectingSameUse ==
  ASSUME TypeOK, NEW t \in Tasks, instance[t] # None, NEW state \in States, Expecting(t, state)
  PROVE  SameUse
<1>1. instance[t] \in Instances /\ [instance[t] EXCEPT !.expected = state] \in Instances
  BY DEF TypeOK, Instances
<1>2. \A u \in Tasks \ {t} : instance'[u] = instance[u]
  BY DEF Expecting, TypeOK
<1>3. instance'[t] = [instance[t] EXCEPT !.expected = state]
  BY DEF Expecting, TypeOK
<1>4. instance'[t] # None
  BY <1>1, <1>3, NoneAssumption
<1>5. instance'[t].address = instance[t].address /\ instance'[t].slave = instance[t].slave
  BY <1>1, <1>3 DEF Instances
<1> QED BY <1>2, <1>4, <1>5 DEF SameUse

LEMMA FormIdle ==
  ASSUME TypeOK, Form, SameUse, NEW t \in Tasks, call'[t] = Idle,
         \A u \in Tasks \ {t} : call'[u] = call[u]
  PROVE  Form'
<1>1. ASSUME NEW u \in Tasks PROVE InstanceForm(u)'
  BY DEF SameUse, Form, InstanceForm
<1>2. ASSUME NEW u \in Tasks, u # t PROVE CallForm(u)'
  BY <1>2 DEF SameUse, Form, CallForm
<1>3. CallForm(t)'
  BY DEF CallForm, Idle
<1> QED BY <1>1, <1>2, <1>3 DEF Form

LEMMA NextForm == TypeOK /\ Form /\ [Next]_vars => Form'
<1> SUFFICES ASSUME TypeOK, Form, [Next]_vars PROVE Form'
  OBVIOUS
<1> USE DEF bookkeeping
<1>1. ASSUME NEW t \in Tasks, Begin(t) PROVE Form'
  <2>1. ASSUME NEW a \in Addresses, New(t, a) PROVE Form'
    <3> DEFINE s == TheSlave(a)
    <3>1. s \in Slaves /\ Reach(fixed, a) = {s}
      BY <2>1, Single, ReachedIs DEF New
    <3>2. a[1] = "auto" => a = AutoIncremented(s)
      BY <3>1, AddressCases, AddressForms, ReachAuto
    <3>3. a[1] = "fixed" => a = Fixed(fixed[s])
      BY <3>1, AddressCases, AddressForms, ReachFixed
    <3>4. call'[t] = [op |-> "new", address |-> a, slave |-> s, fixed |-> fixed[s]]
      BY <2>1 DEF New, Goes, TypeOK
    <3>5. instance[t] = None /\ instance' = instance
      BY <2>1 DEF New
    <3>6. CallForm(t)'
      BY <3>1, <3>2, <3>3, <3>4, <3>5 DEF CallForm
    <3>7. InstanceForm(t)'
      BY <3>5 DEF InstanceForm
    <3> QED BY <2>1, <3>5, <3>6, <3>7, FormTask DEF New, Goes, TypeOK
  <2>2. ASSUME NEW v \in Values, NEW fate \in Fates, SetAddress(t, v, fate) PROVE Form'
    <3>1. instance[t] # None /\ instance' = instance
      BY <2>2 DEF SetAddress, Uses
    <3>2. call'[t] = [op |-> "move", to |-> Fixed(v)] \/ call'[t] = Idle
      BY <2>2 DEF SetAddress, Goes, TypeOK
    <3>3. CallForm(t)' /\ InstanceForm(t)'
      BY <3>1, <3>2 DEF CallForm, InstanceForm, Idle, Form
    <3> QED BY <2>2, <3>1, <3>3, FormTask DEF SetAddress, Goes, TypeOK
  <2>3. ASSUME NEW fate \in Fates, ResetAddress(t, fate) PROVE Form'
    <3>1. instance[t] # None /\ instance' = instance
      BY <2>3 DEF ResetAddress, Uses
    <3>2. call'[t] = [op |-> "drop"]
      BY <2>3 DEF ResetAddress, Goes, TypeOK
    <3>3. CallForm(t)' /\ InstanceForm(t)'
      BY <3>1, <3>2 DEF CallForm, InstanceForm, Form
    <3> QED BY <2>3, <3>1, <3>3, FormTask DEF ResetAddress, Goes, TypeOK
  <2>4. ASSUME InitMailbox(t) PROVE Form'
    <3>1. /\ instance'[t].address = instance[t].address /\ instance'[t].slave = instance[t].slave
          /\ \A u \in Tasks \ {t} : instance'[u] = instance[u] /\ call'[u] = call[u]
      BY <2>4 DEF InitMailbox, Uses, TypeOK, Instances
    <3>2. call'[t] = Idle /\ instance[t].address[1] = "fixed"
      BY <2>4 DEF InitMailbox, Uses, Start
    <3>3. CallForm(t)' /\ InstanceForm(t)'
      BY <3>1, <3>2 DEF CallForm, InstanceForm, Idle
    <3> QED BY <3>1, <3>3, FormTask
  <2>5. ASSUME NEW target \in States, NEW fate \in Fates, Switch(t, target, fate) PROVE Form'
    BY <2>5, FormPlain DEF Switch, Uses, Idle
  <2>10. ASSUME NEW state \in States, Expect(t, state) PROVE Form'
    <3>1. SameUse
      BY <2>10, ExpectingSameUse DEF Expect, Uses
    <3> QED BY <2>10, <3>1, FormIdle DEF Expect, Uses, Start
  <2>6. ASSUME NEW target \in States, NEW fate \in Fates, SwitchAll(t, target, fate) PROVE Form'
    BY <2>6, FormPlain DEF SwitchAll
  <2>7. ASSUME ResetAddresses(t) PROVE Form'
    BY <2>7, FormPlain DEF ResetAddresses
  <2>8. ASSUME NEW init \in BOOLEAN, ResetClock(t, init) PROVE Form'
    BY <2>8, FormPlain DEF ResetClock
  <2>9. ASSUME NEW use \in {"guard", "loop"}, Clock(t, use) PROVE Form'
    <3>1. instance' = instance /\ call'[t] = [op |-> "clock_lock", use |-> use]
      BY <2>9 DEF Clock, Goes, TypeOK
    <3>2. CallForm(t)' /\ InstanceForm(t)'
      BY <3>1 DEF CallForm, InstanceForm, Form
    <3> QED BY <2>9, <3>1, <3>2, FormTask DEF Clock, Goes, TypeOK
  <2> QED BY <1>1, <2>1, <2>2, <2>3, <2>4, <2>5, <2>6, <2>7, <2>8, <2>9, <2>10 DEF Begin
<1>2. ASSUME NEW t \in Tasks, Locking(t) PROVE Form'
  <2>1. ASSUME ResetLock(t) PROVE Form'
    BY <2>1, FormPlain DEF ResetLock, Idle
  <2>2. ASSUME TakeClock(t) PROVE Form'
    BY <2>2, FormPlain DEF TakeClock, Idle
  <2>3. ASSUME WriteClock(t) PROVE Form'
    BY <2>3, FormPlain DEF WriteClock
  <2>4. ASSUME LockClock(t) PROVE Form'
    <3>1. call[t].use \in {"guard", "loop"}
      BY <2>4 DEF LockClock, In, Form, CallForm
    <3> QED BY <2>4, <3>1, FormPlain DEF LockClock, Idle
  <2> QED BY <1>2, <2>1, <2>2, <2>3, <2>4 DEF Locking
<1>3. ASSUME NEW t \in Tasks, Continue(t) PROVE Form'
  <2>1. ASSUME Register(t) PROVE Form'
    <3>1. call'[t] = Idle
      BY <2>1 DEF Register, Goes, TypeOK
    <3>2. \A u \in Tasks \ {t} : instance'[u] = instance[u] /\ call'[u] = call[u]
      BY <2>1 DEF Register, Goes, TypeOK
    <3>3. \/ instance' = instance
          \/ instance'[t] = [address |-> call[t].address, slave |-> call[t].slave, mailbox |-> None,
                             expected |-> InitState]
      BY <2>1 DEF Register, TypeOK
    <3>4. InstanceForm(t)'
      BY <2>1, <3>3 DEF InstanceForm, Form, CallForm, Register, In
    <3> QED BY <3>1, <3>2, <3>4, FormTask DEF CallForm, Idle
  <2>2. ASSUME Move(t) PROVE Form'
    <3>1. call'[t] = Idle
      BY <2>2 DEF Move, Goes, TypeOK
    <3>2. \A u \in Tasks \ {t} : instance'[u] = instance[u] /\ call'[u] = call[u]
      BY <2>2 DEF Move, Goes, TypeOK
    <3>3. instance'[t].address = call[t].to /\ call[t].to[1] = "fixed"
      BY <2>2, AddressForms DEF Move, In, Form, CallForm, TypeOK, Instances
    <3>4. InstanceForm(t)'
      BY <3>3 DEF InstanceForm
    <3> QED BY <3>1, <3>2, <3>4, FormTask DEF CallForm, Idle
  <2>3. ASSUME Drop(t) PROVE Form'
    <3>1. call'[t] = Idle /\ instance'[t] = None
      BY <2>3 DEF Drop, Goes, TypeOK
    <3>2. \A u \in Tasks \ {t} : instance'[u] = instance[u] /\ call'[u] = call[u]
      BY <2>3 DEF Drop, Goes, TypeOK
    <3> QED BY <3>1, <3>2, FormTask DEF CallForm, InstanceForm, Idle
  <2>4. ASSUME NEW fate \in Fates, SwitchPoll(t, fate) PROVE Form'
    <3>1. instance[t] # None /\ call[t].target \in States
      BY <2>4 DEF SwitchPoll, In, Form, CallForm
    <3>2. ASSUME UNCHANGED instance PROVE Form'
      <4>1. \/ Goes(t, Idle)
            \/ Goes(t, [op |-> "switch_error", target |-> call[t].target,
                        seen |-> al[TheSlave(instance[t].address)]])
        BY <2>4 DEF SwitchPoll
      <4> QED BY <3>1, <3>2, <4>1, FormPlain DEF Idle
    <3>3. ASSUME Goes(t, Idle), Expecting(t, call[t].target) PROVE Form'
      <4>1. SameUse
        BY <3>1, <3>3, ExpectingSameUse
      <4> QED BY <3>3, <4>1, FormIdle DEF Goes, TypeOK
    <3> QED BY <2>4, <3>2, <3>3 DEF SwitchPoll
  <2>5. ASSUME NEW fate \in Fates, SwitchError(t, fate) PROVE Form'
    <3>1. instance[t] # None /\ call[t].target \in States
      BY <2>5 DEF SwitchError, In, Form, CallForm
    <3>2. ASSUME UNCHANGED instance PROVE Form'
      <4>1. Goes(t, Idle) \/ Goes(t, [op |-> "switch", target |-> call[t].target])
        BY <2>5 DEF SwitchError
      <4> QED BY <3>1, <3>2, <4>1, FormPlain DEF Idle
    <3>3. ASSUME Goes(t, Idle), Expecting(t, call[t].target) PROVE Form'
      <4>1. SameUse
        BY <3>1, <3>3, ExpectingSameUse
      <4> QED BY <3>3, <4>1, FormIdle DEF Goes, TypeOK
    <3> QED BY <2>5, <3>2, <3>3 DEF SwitchError
  <2>6. ASSUME NEW fate \in Fates, SwitchAllError(t, fate) PROVE Form'
    <3>1. call[t].target \in States
      BY <2>6 DEF SwitchAllError, In, Form, CallForm
    <3>2. \/ fate # "answered" \/ failed[call[t].next]
          \/ Goes(t, Polled(t, call[t].seen))
          \/ Goes(t, [op |-> "switch_all_error", target |-> call[t].target,
                      seen |-> call[t].seen, next |-> call[t].next + 1])
      BY <2>6 DEF SwitchAllError
    <3>3. UNCHANGED instance
      BY <2>6 DEF SwitchAllError
    <3>4. ASSUME fate # "answered" \/ failed[call[t].next] PROVE Form'
      <4>1. Goes(t, Idle)
        BY <2>6, <3>4 DEF SwitchAllError
      <4> QED BY <3>3, <4>1, FormPlain DEF Idle
    <3> QED BY <3>1, <3>2, <3>3, <3>4, FormPlain DEF Polled
  <2>7. ASSUME NEW fate \in Fates, ResetWrite(t, fate) PROVE Form'
    <3>1. instance' = instance
      BY <2>7 DEF ResetWrite
    <3> QED BY <2>7, <3>1, FormPlain DEF ResetWrite, Idle
  <2>8. ASSUME SwitchAllPoll(t) PROVE Form'
    <3>1. call[t].target \in States
      BY <2>8 DEF SwitchAllPoll, In, Form, CallForm
    <3> QED BY <2>8, <3>1, FormPlain DEF SwitchAllPoll, Polled
  <2>9. ASSUME SwitchedAll(t) PROVE Form'
    BY <2>9, FormPlain DEF SwitchedAll, Idle
  <2>10. ASSUME InitClock(t) PROVE Form'
    BY <2>10, FormPlain DEF InitClock
  <2>11. ASSUME NewClock(t) PROVE Form'
    BY <2>11, FormPlain DEF NewClock, Idle
  <2>12. ASSUME ReleaseClock(t) PROVE Form'
    BY <2>12, FormPlain DEF ReleaseClock, Idle
  <2> QED BY <1>3, <2>1, <2>2, <2>3, <2>4, <2>5, <2>6, <2>7, <2>8, <2>9, <2>10, <2>11, <2>12
          DEF Continue
<1>4. ASSUME NEW s \in Slaves, Transition(s) PROVE Form'
  BY <1>4 DEF Transition, Form, InstanceForm, CallForm
<1>5. ASSUME UNCHANGED vars PROVE Form'
  BY <1>5 DEF vars, Form, InstanceForm, CallForm
<1> QED BY <1>1, <1>2, <1>3, <1>4, <1>5 DEF Next

-----------------------------------------------------------------------------
(* Order: who reaches what *)

(* A write to the register of one slave takes no other slave from an address *)
(* and gives that slave to no address but that of the value.                 *)
LEMMA ReachOther ==
  ASSUME NEW f, NEW b \in Addresses, NEW r \in Slaves, NEW s \in Slaves, NEW v,
         Reach(f, b) = {r}, r # s, b # Fixed(v)
  PROVE  Reach(WriteAll(f, {s}, v), b) = {r}
<1> DEFINE g == WriteAll(f, {s}, v)
<1>1. \A q \in Slaves : g[q] = IF q = s THEN v ELSE f[q]
  BY DEF WriteAll
<1>2. CASE \E q \in Slaves : b = AutoIncremented(q)
  BY <1>2, ReachAuto
<1>3. CASE \E w \in Values : b = Fixed(w)
  <2>1. PICK w \in Values : b = Fixed(w)
    BY <1>3
  <2>2. w # v
    BY <2>1
  <2>3. {q \in Slaves : f[q] = w} = {r} /\ Reach(g, b) = {q \in Slaves : g[q] = w}
    BY <2>1, ReachFixed
  <2> QED BY <1>1, <2>2, <2>3
<1> QED BY <1>2, <1>3, AddressCases

LEMMA ReachWritten ==
  ASSUME NEW f, NEW s \in Slaves, NEW v, \A q \in Slaves \ {s} : f[q] # v
  PROVE  Reach(WriteAll(f, {s}, v), Fixed(v)) = {s}
BY ReachFixed DEF WriteAll

LEMMA TargetForms ==
  ASSUME TypeOK, Form, NEW t \in Tasks, Keeps(t)
  PROVE  /\ Target(t) \in Addresses /\ instance[t].slave \in Slaves
         /\ instance[t].address \in Addresses
<1>1. instance[t] \in Instances
  BY DEF TypeOK, Keeps
<1> QED BY <1>1 DEF Instances, Target, Form, CallForm, Addresses

(* The steps of a task that touch nothing Order speaks of.                   *)
LEMMA OrderPlain ==
  ASSUME TypeOK, Order, NEW t \in Tasks, UNCHANGED <<fixed, slaves, instance, unsure>>,
         NEW next, Goes(t, next), next.op \notin {"new", "move", "drop"},
         call[t].op \notin {"move", "drop"}
  PROVE  Order'
<1> SUFFICES ASSUME ~unsure PROVE Order'
  BY DEF Order
<1>1. call'[t] = next /\ \A u \in Tasks \ {t} : call'[u] = call[u]
  BY DEF Goes, TypeOK
<1>2. \A u \in Tasks : Keeps(u)' = Keeps(u) /\ Target(u)' = Target(u)
  BY <1>1 DEF Keeps, Target
<1>3. Holders' = Holders
  BY DEF Holders
<1>4. TargetsReach' /\ SlavesApart'
  BY <1>2 DEF Order, TargetsReach, SlavesApart
<1>5. AddressesApart'
  BY <1>1, <1>3 DEF Order, AddressesApart, Holders
<1>6. NewReaches'
  BY <1>1 DEF Order, NewReaches
<1>7. BookIs'
  BY <1>3 DEF Order, BookIs
<1> QED BY <1>4, <1>5, <1>6, <1>7 DEF Order

LEMMA OrderNew ==
  ASSUME TypeOK, Form, Order, NEW t \in Tasks, NEW a \in Addresses, New(t, a)
  PROVE  Order'
<1> SUFFICES ASSUME ~unsure PROVE Order'
  BY DEF New, bookkeeping, Order
<1> DEFINE s == TheSlave(a)
<1>1. s \in Slaves /\ Reach(fixed, a) = {s}
  BY Single, ReachedIs DEF New
<1>2. call'[t] = [op |-> "new", address |-> a, slave |-> s, fixed |-> fixed[s]]
  BY DEF New, Goes, TypeOK
<1>3. \A u \in Tasks \ {t} : call'[u] = call[u]
  BY DEF New, Goes, TypeOK
<1>4. UNCHANGED <<fixed, slaves, instance, unsure>> /\ instance[t] = None
  BY DEF New, registers, bookkeeping
<1> HIDE DEF s
<1>5. Holders' = Holders /\ t \notin Holders
  BY <1>4 DEF Holders
<1>6. \A u \in Tasks : Keeps(u)' = Keeps(u) /\ (Keeps(u) => Target(u)' = Target(u))
  BY <1>2, <1>3, <1>4 DEF Keeps, Target
<1>7. TargetsReach' /\ SlavesApart'
  BY <1>4, <1>6 DEF Order, TargetsReach, SlavesApart
<1>8. AddressesApart'
  BY <1>3, <1>4, <1>5 DEF Order, AddressesApart, Holders
<1>9. NewReaches'
  <2>1. ASSUME NEW u \in Tasks, call'[u].op = "new" /\ call'[u].address[1] = "fixed",
               fixed'[call'[u].slave] = call'[u].fixed
        PROVE  Reach(fixed', call'[u].address) = {call'[u].slave}
    <3>1. CASE u = t
      BY <1>1, <1>2, <1>4, <3>1
    <3>2. CASE u # t
      BY <2>1, <1>3, <1>4, <3>2 DEF Order, NewReaches
    <3> QED BY <3>1, <3>2
  <2> QED BY <2>1 DEF NewReaches
<1>10. BookIs'
  BY <1>4, <1>5 DEF Order, BookIs
<1> QED BY <1>7, <1>8, <1>9, <1>10 DEF Order

(* An instance is made of an address nobody has, for a slave nobody has:     *)
(* what was read of it still holds, and the book knows its other address.    *)
LEMMA OrderRegister ==
  ASSUME TypeOK, Form, Order, NEW t \in Tasks, Register(t)
  PROVE  Order'
<1> DEFINE a == call[t].address
           s == call[t].slave
           f == call[t].fixed
<1>1. CASE InUse(a, f)
  BY <1>1, OrderPlain DEF Register, In, Idle, bookkeeping, registers
<1>2. CASE ~InUse(a, f)
  <2> SUFFICES ASSUME ~unsure' PROVE Order'
    BY DEF Order
  <2>1. ~unsure /\ ~Outdated(t) /\ call[t].op = "new"
    BY <1>2 DEF Register, In
  <2>2. /\ instance[t] = None /\ a \in Addresses /\ s \in Slaves
        /\ a[1] = "auto" => a = AutoIncremented(s)
        /\ a[1] = "fixed" => a = Fixed(f)
    BY <2>1 DEF Form, CallForm
  <2>3. fixed[s] = f /\ \A u \in Owners(s) : call[u].op # "move"
    BY <2>1 DEF Outdated
  <2>4. a[1] = "fixed" => \A u \in Owners(s) : instance[u].address[1] # "auto"
    BY <2>1 DEF Outdated
  <2>5. a \notin slaves /\ Fixed(f) \notin slaves
    BY <1>2 DEF InUse
  <2>6. /\ instance' = [instance EXCEPT ![t] = [address |-> a, slave |-> s, mailbox |-> None,
                                                expected |-> InitState]]
        /\ slaves' = slaves \cup {a} /\ fixed' = fixed
        /\ call' = [call EXCEPT ![t] = Idle]
    BY <1>2 DEF Register, registers, Goes
  <2>7. /\ instance'[t] = [address |-> a, slave |-> s, mailbox |-> None, expected |-> InitState]
        /\ \A u \in Tasks \ {t} : instance'[u] = instance[u] /\ call'[u] = call[u]
        /\ call'[t] = Idle
    BY <2>6 DEF TypeOK
  <2>8. instance'[t] # None
    <3>1. InitState \in States
      BY ConstantsAssumption DEF InitState
    <3>2. instance'[t] \in Instances
      BY <2>2, <2>7, <3>1 DEF Instances
    <3> QED BY <3>2, NoneAssumption
  <2>9. Reach(fixed, a) = {s}
    <3>1. CASE a[1] = "auto"
      BY <3>1, <2>2, ReachAuto
    <3>2. CASE a[1] = "fixed"
      BY <3>2, <2>1, <2>3 DEF Order, NewReaches
    <3> QED BY <3>1, <3>2, <2>2, AddressCases, AddressForms
  <2> HIDE DEF a, s, f
  <2>10. Keeps(t)' /\ Target(t)' = a /\ ~Keeps(t)
    BY <2>2, <2>7, <2>8 DEF Keeps, Target, Idle
  <2>11. \A u \in Tasks \ {t} : Keeps(u)' = Keeps(u) /\ Target(u)' = Target(u)
    BY <2>7 DEF Keeps, Target
  <2>12. Holders' = Holders \cup {t} /\ t \notin Holders
    BY <2>2, <2>7, <2>8 DEF Holders
  <2>13. TargetsReach'
    BY <2>1, <2>6, <2>7, <2>9, <2>10, <2>11 DEF Order, TargetsReach
  <2>14. ASSUME NEW u \in Tasks \ {t}, Keeps(u) PROVE instance[u].slave # s
    <3> SUFFICES ASSUME instance[u].slave = s PROVE FALSE
      OBVIOUS
    <3>1. u \in Owners(s)
      BY <2>14 DEF Owners, Holders, Keeps
    <3>2. Reach(fixed, instance[u].address) = {s}
      BY <2>1, <2>3, <2>14, <3>1 DEF Order, TargetsReach, Target
    <3>3. instance[u].address \in slaves /\ instance[u].address \in Addresses
      BY <2>1, <2>14, TargetForms DEF Order, BookIs, Holders, Keeps
    <3>4. CASE instance[u].address[1] = "auto"
      BY <3>1, <3>3, <3>4, <2>2, <2>4, <2>5, AddressCases, AddressForms
         DEF Form, InstanceForm, Owners, Holders
    <3>5. CASE instance[u].address[1] = "fixed"
      <4>1. PICK v \in Values : instance[u].address = Fixed(v)
        BY <3>3, <3>5, AddressCases, AddressForms
      <4>2. fixed[s] = v
        BY <3>2, <4>1, ReachFixed
      <4> QED BY <4>1, <4>2, <3>3, <2>3, <2>5
    <3> QED BY <3>3, <3>4, <3>5, AddressCases, AddressForms
  <2>15. SlavesApart'
    BY <2>1, <2>7, <2>11, <2>14 DEF Order, SlavesApart
  <2>16. ASSUME NEW u \in Holders PROVE instance[u].address # a /\ (call[u].op = "move" => call[u].to # a)
    <3>1. u \in Tasks /\ u # t /\ instance[u].address # a
      BY <2>1, <2>5, <2>12 DEF Order, BookIs, Holders
    <3>2. ASSUME call[u].op = "move", call[u].to = a PROVE FALSE
      <4>1. Keeps(u) /\ Reach(fixed, a) = {instance[u].slave}
        BY <2>1, <3>1, <3>2 DEF Order, TargetsReach, Keeps, Target, Holders
      <4> QED BY <2>9, <2>14, <3>1, <4>1
    <3> QED BY <3>1, <3>2
  <2>17. AddressesApart'
    BY <2>1, <2>7, <2>12, <2>16 DEF Order, AddressesApart, Idle, Holders
  <2>18. NewReaches'
    BY <2>1, <2>6, <2>7 DEF Order, NewReaches, Idle
  <2>19. BookIs'
    BY <2>1, <2>6, <2>7, <2>12 DEF Order, BookIs, Holders
  <2> QED BY <2>13, <2>15, <2>17, <2>18, <2>19 DEF Order
<1> QED BY <1>1, <1>2

(* A fixed address is given to one slave that nobody else is given.          *)
LEMMA OrderSetAddress ==
  ASSUME TypeOK, Form, Order, NEW t \in Tasks, NEW v \in Values, NEW fate \in Fates,
         SetAddress(t, v, fate)
  PROVE  Order'
<1> DEFINE a == instance[t].address
           s == instance[t].slave
<1>1. CASE ~Executes(fate)
  <2>1. ~One(a, fate)
    BY <1>1 DEF Executes, One
  <2> QED BY <1>1, <2>1, OrderPlain DEF SetAddress, Uses, Start, Idle
<1>2. CASE Executes(fate)
  <2> SUFFICES ASSUME ~unsure' PROVE Order'
    BY DEF Order
  <2>1. /\ ~unsure /\ ~Misled(t, v, fate) /\ instance[t] # None /\ call[t] = Idle
        /\ fixed' = WriteAll(fixed, Reach(fixed, a), v) /\ UNCHANGED <<slaves, instance>>
    BY <1>2, ReachedIs DEF SetAddress, Uses, Start
  <2>2. Keeps(t) /\ Target(t) = a /\ t \in Holders
    BY <2>1 DEF Keeps, Target, Idle, Holders
  <2>3. Reach(fixed, a) = {s} /\ a \in Addresses /\ s \in Slaves
    BY <2>1, <2>2, TargetForms DEF Order, TargetsReach
  <2>4. \A q \in Slaves \ {s} : fixed[q] # v
    BY <2>1, <2>3, ReachedIs DEF Misled
  <2>5. \A u \in Holders \ {t} : instance[u].address # Fixed(v)
    BY <2>1 DEF Misled
  <2>6. fixed' = WriteAll(fixed, {s}, v) /\ Reach(fixed', Fixed(v)) = {s}
    BY <2>1, <2>3, <2>4, ReachWritten
  <2>7. \A u \in Tasks \ {t} : call'[u] = call[u]
    BY DEF SetAddress, Goes, TypeOK
  <2>8. \/ call'[t] = [op |-> "move", to |-> Fixed(v)]
        \/ call'[t] = Idle /\ ~One(a, fate)
    BY DEF SetAddress, Goes, TypeOK
  <2>9. Reach(fixed', Target(t)') = {s}
    <3>1. CASE call'[t] = [op |-> "move", to |-> Fixed(v)]
      BY <2>6, <3>1 DEF Target
    <3>2. CASE call'[t] = Idle /\ ~One(a, fate)
      <4>1. Target(t)' = a /\ a[1] # "fixed"
        BY <2>1, <3>2 DEF Target, Idle, Misled
      <4>2. a = AutoIncremented(s)
        BY <2>1, <2>3, <4>1, AddressCases, AddressForms DEF Form, InstanceForm
      <4> QED BY <4>1, <4>2, <2>3, ReachAuto
    <3> QED BY <2>8, <3>1, <3>2
  <2>10. Holders' = Holders
    BY <2>1 DEF Holders
  <2>11. \A u \in Tasks : Keeps(u)' = Keeps(u) /\ (u # t => Target(u)' = Target(u))
    BY <2>1, <2>7, <2>8 DEF Keeps, Target, Idle
  <2>12. ASSUME NEW u \in Tasks, Keeps(u) PROVE Reach(fixed', Target(u)') = {instance[u].slave}
    <3>1. CASE u = t
      BY <2>9, <3>1
    <3>2. CASE u # t
      <4>1. instance[u].slave # s /\ Reach(fixed, Target(u)) = {instance[u].slave}
        BY <2>1, <2>2, <2>12, <3>2 DEF Order, SlavesApart, TargetsReach
      <4>2. Target(u) \in Addresses /\ instance[u].slave \in Slaves
        BY <2>12, TargetForms
      <4>3. Target(u) # Fixed(v)
        BY <2>4, <4>1, <4>2, ReachFixed
      <4> QED BY <2>3, <2>6, <2>11, <3>2, <4>1, <4>2, <4>3, ReachOther
    <3> QED BY <3>1, <3>2
  <2>13. TargetsReach'
    BY <2>1, <2>11, <2>12 DEF TargetsReach
  <2>14. SlavesApart'
    BY <2>1, <2>11 DEF Order, SlavesApart
  <2>15. AddressesApart'
    BY <2>1, <2>5, <2>7, <2>8, <2>10 DEF Order, AddressesApart, Idle, Holders
  <2>16. ASSUME NEW u \in Tasks, call'[u].op = "new" /\ call'[u].address[1] = "fixed",
                fixed'[call'[u].slave] = call'[u].fixed
         PROVE  Reach(fixed', call'[u].address) = {call'[u].slave}
    <3>1. u # t /\ call'[u] = call[u]
      BY <2>7, <2>8, <2>16 DEF Idle
    <3> DEFINE r == call[u].slave
               b == call[u].address
    <3>2. r \in Slaves /\ b \in Addresses /\ b = Fixed(call[u].fixed)
      BY <2>16, <3>1 DEF Form, CallForm
    <3>3. CASE r = s
      <4>1. call[u].fixed = v
        BY <2>6, <2>16, <3>1, <3>3, <2>3 DEF WriteAll
      <4> QED BY <2>6, <3>1, <3>2, <3>3, <4>1
    <3>4. CASE r # s
      <4>1. fixed[r] = call[u].fixed
        BY <2>6, <2>16, <3>1, <3>2, <3>4 DEF WriteAll
      <4>2. Reach(fixed, b) = {r}
        BY <2>1, <2>16, <3>1, <4>1 DEF Order, NewReaches
      <4>3. b # Fixed(v)
        BY <2>4, <3>2, <3>4, <4>1, AddressForms
      <4> QED BY <2>3, <2>6, <3>1, <3>2, <3>4, <4>2, <4>3, ReachOther
    <3> QED BY <3>3, <3>4
  <2>17. NewReaches'
    BY <2>16 DEF NewReaches
  <2>18. BookIs'
    BY <2>1, <2>10 DEF Order, BookIs
  <2> QED BY <2>13, <2>14, <2>15, <2>17, <2>18 DEF Order
<1> QED BY <1>1, <1>2

LEMMA OrderMove ==
  ASSUME TypeOK, Form, Order, NEW t \in Tasks, Move(t)
  PROVE  Order'
<1> SUFFICES ASSUME ~unsure PROVE Order'
  BY DEF Move, Order
<1> DEFINE to == call[t].to
<1>1. call[t].op = "move" /\ instance[t] # None /\ instance[t] \in Instances
  BY DEF Move, In, Form, CallForm, TypeOK
<1>2. /\ instance'[t] = [instance[t] EXCEPT !.address = to] /\ call'[t] = Idle
      /\ \A u \in Tasks \ {t} : instance'[u] = instance[u] /\ call'[u] = call[u]
  BY DEF Move, Goes, TypeOK
<1>3. slaves' = (slaves \ {instance[t].address}) \cup {to} /\ fixed' = fixed
  BY DEF Move, Moved, registers
<1>4. to \in Addresses
  BY <1>1 DEF Form, CallForm, Addresses
<1>5. instance'[t].address = to /\ instance'[t].slave = instance[t].slave /\ instance'[t] # None
  BY <1>1, <1>2, <1>4, NoneAssumption DEF Instances
<1> HIDE DEF to
<1>6. Keeps(t) /\ Keeps(t)' /\ Target(t) = to /\ Target(t)' = to
  BY <1>1, <1>2, <1>5 DEF Keeps, Target, Idle, to
<1>7. \A u \in Tasks \ {t} : Keeps(u)' = Keeps(u) /\ Target(u)' = Target(u)
  BY <1>2 DEF Keeps, Target
<1>8. Holders' = Holders /\ t \in Holders
  BY <1>1, <1>2, <1>5 DEF Holders
<1>9. TargetsReach'
  BY <1>2, <1>3, <1>5, <1>6, <1>7, ZenonT(60) DEF Order, TargetsReach
<1>10. SlavesApart'
  <2>1. \A u \in Tasks : (Keeps(u)' <=> Keeps(u)) /\ instance'[u].slave = instance[u].slave
    BY <1>2, <1>5, <1>6, <1>7
  <2> QED BY <2>1 DEF Order, SlavesApart
<1>11. ASSUME NEW u \in Holders \ {t} PROVE instance[u].address # to /\ (call[u].op = "move" => call[u].to # to)
  <2>1. instance[u].address # to
    BY <1>1, <1>8, <1>11 DEF Order, AddressesApart, to
  <2>2. ASSUME call[u].op = "move", call[u].to = to PROVE FALSE
    <3>1. Keeps(u) /\ Target(u) = to
      BY <1>11, <2>2 DEF Keeps, Target, Holders
    <3> QED BY <1>6, <1>11, <3>1 DEF Order, TargetsReach, SlavesApart, Holders
  <2> QED BY <2>1, <2>2
<1>12. AddressesApart'
  <2>1. \A u \in Holders \ {t} : u \in Tasks /\ instance'[u] = instance[u] /\ call'[u] = call[u]
    BY <1>2 DEF Holders
  <2>2. call'[t].op # "move"
    BY <1>2 DEF Idle
  <2>3. ASSUME NEW u \in Holders, NEW w \in Holders, u # w
        PROVE  /\ instance'[u].address # instance'[w].address
               /\ call'[u].op = "move" => call'[u].to # instance'[w].address
    <3>1. CASE u = t
      BY <1>5, <1>11, <2>1, <2>2, <2>3, <3>1
    <3>2. CASE w = t
      BY <1>5, <1>11, <2>1, <2>3, <3>2
    <3>3. CASE u # t /\ w # t
      BY <2>1, <2>3, <3>3 DEF Order, AddressesApart
    <3> QED BY <3>1, <3>2, <3>3
  <2> QED BY <1>8, <2>3 DEF AddressesApart
<1>13. NewReaches'
  BY <1>2, <1>3 DEF Order, NewReaches, Idle
<1>14. BookIs'
  <2>1. \A u \in Holders \ {t} : instance[u].address # instance[t].address
    BY <1>8 DEF Order, AddressesApart
  <2>2. \A u \in Holders \ {t} : instance'[u] = instance[u]
    BY <1>2 DEF Holders
  <2>3. slaves = {instance[u].address : u \in Holders}
    BY DEF Order, BookIs
  <2>4. slaves' = {instance'[u].address : u \in Holders}
    BY <1>3, <1>5, <1>8, <2>1, <2>2, <2>3
  <2> QED BY <1>8, <2>4 DEF BookIs
<1> QED BY <1>9, <1>10, <1>12, <1>13, <1>14 DEF Order

LEMMA OrderDrop ==
  ASSUME TypeOK, Form, Order, NEW t \in Tasks, Drop(t)
  PROVE  Order'
<1> SUFFICES ASSUME ~unsure PROVE Order'
  BY DEF Drop, Order
<1>1. /\ instance'[t] = None /\ call'[t] = Idle /\ instance[t] # None
      /\ \A u \in Tasks \ {t} : instance'[u] = instance[u] /\ call'[u] = call[u]
  BY DEF Drop, Goes, TypeOK, Form, CallForm
<1>2. slaves' = slaves \ {instance[t].address} /\ fixed' = fixed
  BY DEF Drop, registers
<1>3. Holders' = Holders \ {t} /\ t \in Holders
  BY <1>1 DEF Holders
<1>4. ~Keeps(t)' /\ \A u \in Tasks \ {t} : Keeps(u)' = Keeps(u) /\ Target(u)' = Target(u)
  BY <1>1 DEF Keeps, Target
<1>5. TargetsReach' /\ SlavesApart'
  BY <1>1, <1>2, <1>4 DEF Order, TargetsReach, SlavesApart
<1>6. AddressesApart'
  BY <1>1, <1>3 DEF Order, AddressesApart, Holders
<1>7. NewReaches'
  BY <1>1, <1>2 DEF Order, NewReaches, Idle
<1>8. BookIs'
  <2>1. \A u \in Holders \ {t} : instance[u].address # instance[t].address
    BY <1>3 DEF Order, AddressesApart
  <2>2. \A u \in Holders \ {t} : instance'[u] = instance[u]
    BY <1>1 DEF Holders
  <2>3. slaves = {instance[u].address : u \in Holders}
    BY DEF Order, BookIs
  <2>4. slaves' = {instance'[u].address : u \in Holders \ {t}}
    BY <1>2, <1>3, <2>1, <2>2, <2>3
  <2> QED BY <1>3, <2>4 DEF BookIs
<1> QED BY <1>5, <1>6, <1>7, <1>8 DEF Order

LEMMA OrderResetAddress ==
  ASSUME TypeOK, Form, Order, NEW t \in Tasks, NEW fate \in Fates, ResetAddress(t, fate)
  PROVE  Order'
<1> SUFFICES ASSUME ~unsure PROVE Order'
  BY DEF ResetAddress, bookkeeping, Order
<1> DEFINE a == instance[t].address
           s == instance[t].slave
<1>1. /\ instance[t] # None /\ call[t] = Idle /\ call'[t] = [op |-> "drop"]
      /\ UNCHANGED <<slaves, instance>>
      /\ \A u \in Tasks \ {t} : call'[u] = call[u]
  BY DEF ResetAddress, Uses, Start, Goes, TypeOK, bookkeeping
<1>2. Keeps(t) /\ Target(t) = a /\ ~Keeps(t)'
  BY <1>1 DEF Keeps, Target, Idle
<1>3. Reach(fixed, a) = {s} /\ s \in Slaves
  BY <1>2, TargetForms DEF Order, TargetsReach
<1>4. fixed' = fixed \/ fixed' = WriteAll(fixed, {s}, 0)
  BY <1>3, ReachedIs DEF ResetAddress
<1>5. 0 \notin Values
  BY ConstantsAssumption
<1>6. \A b \in Addresses : b # Fixed(0)
  BY <1>5, AddressCases, AddressForms
<1>7. \A u \in Tasks \ {t} : (Keeps(u)' <=> Keeps(u)) /\ Target(u)' = Target(u)
  BY <1>1 DEF Keeps, Target
<1>8. Holders' = Holders
  BY <1>1 DEF Holders
<1>9. ASSUME NEW u \in Tasks \ {t}, Keeps(u)
      PROVE  Reach(fixed', Target(u)) = {instance[u].slave}
  <2>1. instance[u].slave # s /\ Reach(fixed, Target(u)) = {instance[u].slave}
    BY <1>2, <1>9 DEF Order, SlavesApart, TargetsReach
  <2>2. Target(u) \in Addresses /\ instance[u].slave \in Slaves
    BY <1>9, TargetForms
  <2>3. CASE fixed' = fixed
    BY <2>1, <2>3
  <2>4. CASE fixed' = WriteAll(fixed, {s}, 0)
    BY <1>3, <1>6, <2>1, <2>2, <2>4, ReachOther
  <2> QED BY <1>4, <2>3, <2>4
<1>10. TargetsReach'
  BY <1>1, <1>2, <1>7, <1>9 DEF TargetsReach
<1>11. SlavesApart'
  BY <1>1, <1>2, <1>7 DEF Order, SlavesApart
<1>12. AddressesApart'
  BY <1>1, <1>8 DEF Order, AddressesApart, Holders
<1>13. ASSUME NEW u \in Tasks, call'[u].op = "new" /\ call'[u].address[1] = "fixed",
              fixed'[call'[u].slave] = call'[u].fixed
       PROVE  Reach(fixed', call'[u].address) = {call'[u].slave}
  <2> DEFINE r == call[u].slave
             b == call[u].address
  <2>1. u # t /\ call'[u] = call[u]
    BY <1>1, <1>13
  <2>2. r \in Slaves /\ b \in Addresses /\ b = Fixed(call[u].fixed)
    BY <1>13, <2>1 DEF Form, CallForm
  <2>3. CASE fixed' = fixed
    BY <1>13, <2>1, <2>3 DEF Order, NewReaches
  <2>4. CASE fixed' = WriteAll(fixed, {s}, 0)
    <3>1. r # s
      BY <1>3, <1>6, <1>13, <2>1, <2>2, <2>4 DEF WriteAll
    <3>2. fixed[r] = call[u].fixed
      BY <1>13, <2>1, <2>2, <2>4, <3>1 DEF WriteAll
    <3>3. Reach(fixed, b) = {r}
      BY <1>13, <2>1, <3>2 DEF Order, NewReaches
    <3> QED BY <1>3, <1>6, <2>1, <2>2, <2>4, <3>1, <3>3, ReachOther
  <2> QED BY <1>4, <2>3, <2>4
<1>14. NewReaches'
  BY <1>13 DEF NewReaches
<1>15. BookIs'
  BY <1>1, <1>8 DEF Order, BookIs
<1> QED BY <1>10, <1>11, <1>12, <1>14, <1>15 DEF Order

(* The broadcast of reset_addresses harms nobody who is addressed by position. *)
LEMMA OrderResetWrite ==
  ASSUME TypeOK, Form, Order, NEW t \in Tasks, NEW fate \in Fates, ResetWrite(t, fate)
  PROVE  Order'
<1>1. CASE ~Executes(fate)
  BY <1>1, OrderPlain DEF ResetWrite, In, Idle
<1>2. CASE Executes(fate)
  <2> SUFFICES ASSUME ~unsure' PROVE Order'
    BY DEF Order
  <2>1. /\ ~unsure /\ fixed' = [s \in Slaves |-> 0] /\ UNCHANGED <<slaves, instance>>
        /\ \A u \in Holders : instance[u].address[1] # "fixed" /\ call[u].op # "move"
    BY <1>2 DEF ResetWrite
  <2>2. call'[t] = Idle /\ call[t].op = "reset_write"
    BY DEF ResetWrite, In, Goes, TypeOK
  <2>3. \A u \in Tasks \ {t} : call'[u] = call[u]
    BY DEF ResetWrite, Goes, TypeOK
  <2>4. Holders' = Holders
    BY <2>1 DEF Holders
  <2>5. \A u \in Tasks : (Keeps(u)' <=> Keeps(u)) /\ Target(u)' = Target(u)
    BY <2>1, <2>2, <2>3 DEF Keeps, Target, Idle
  <2>6. ASSUME NEW u \in Tasks, Keeps(u) PROVE Reach(fixed', Target(u)) = {instance[u].slave}
    <3>1. u \in Holders
      BY <2>6 DEF Keeps, Holders
    <3>2. Target(u) = instance[u].address /\ instance[u].address[1] # "fixed"
      BY <2>1, <3>1 DEF Target
    <3>3. instance[u].address \in Addresses /\ instance[u].slave \in Slaves
      BY <2>6, TargetForms
    <3>4. instance[u].address = AutoIncremented(instance[u].slave)
      BY <3>1, <3>2, <3>3, AddressCases, AddressForms DEF Form, InstanceForm, Holders
    <3> QED BY <3>2, <3>3, <3>4, ReachAuto
  <2>7. TargetsReach'
    BY <2>1, <2>5, <2>6 DEF TargetsReach
  <2>8. SlavesApart'
    BY <2>1, <2>5 DEF Order, SlavesApart
  <2>9. AddressesApart'
    BY <2>1, <2>2, <2>3, <2>4 DEF Order, AddressesApart, Holders, Idle
  <2>10. ASSUME NEW u \in Tasks, call'[u].op = "new" /\ call'[u].address[1] = "fixed",
                fixed'[call'[u].slave] = call'[u].fixed
         PROVE  FALSE
    <3>1. call'[u] = call[u]
      BY <2>2, <2>3, <2>10 DEF Idle
    <3>2. call[u].slave \in Slaves /\ call[u].address \in Addresses /\ call[u].address = Fixed(call[u].fixed)
      BY <2>10, <3>1 DEF Form, CallForm
    <3>3. call[u].address = Fixed(0)
      BY <2>1, <2>10, <3>1, <3>2
    <3> QED BY <3>2, <3>3, AddressCases, AddressForms, ConstantsAssumption
  <2>11. NewReaches'
    BY <2>10 DEF NewReaches
  <2>12. BookIs'
    BY <2>1, <2>4 DEF Order, BookIs
  <2> QED BY <2>7, <2>8, <2>9, <2>11, <2>12 DEF Order
<1> QED BY <1>1, <1>2

LEMMA OrderKept ==
  ASSUME TypeOK, Order, SameUse, UNCHANGED <<fixed, slaves, unsure>>, NEW t \in Tasks,
         \A u \in Tasks \ {t} : call'[u] = call[u], call'[t] = Idle,
         call[t].op \notin {"move", "drop"}
  PROVE  Order'
<1> SUFFICES ASSUME ~unsure PROVE Order'
  BY DEF Order
<1>1. Holders' = Holders
  BY DEF SameUse, Holders
<1>2. ASSUME NEW u \in Tasks
      PROVE  /\ Keeps(u)' <=> Keeps(u)
             /\ Keeps(u) => /\ Target(u)' = Target(u)
                            /\ instance'[u].slave = instance[u].slave
  BY DEF SameUse, Keeps, Target, Idle
<1>3. TargetsReach' /\ SlavesApart'
  BY <1>2 DEF Order, TargetsReach, SlavesApart
<1>4. \A u \in Holders : instance'[u].address = instance[u].address
  BY DEF SameUse, Holders
<1>5. AddressesApart'
  BY <1>1, <1>4 DEF Order, AddressesApart, Holders, Idle
<1>6. NewReaches'
  BY DEF Order, NewReaches, Idle
<1>7. BookIs'
  BY <1>1, <1>4 DEF Order, BookIs
<1> QED BY <1>3, <1>5, <1>6, <1>7 DEF Order

LEMMA OrderInitMailbox ==
  ASSUME TypeOK, Form, Order, NEW t \in Tasks, InitMailbox(t)
  PROVE  Order'
<1>1. /\ UNCHANGED <<fixed, call, slaves, unsure>> /\ instance[t] \in Instances /\ call[t] = Idle
      /\ instance' = [instance EXCEPT ![t].mailbox = instance[t].address]
  BY DEF InitMailbox, registers, Uses, Start, TypeOK
<1>2. instance'[t] \in Instances
  BY <1>1 DEF Instances, TypeOK
<1>3. SameUse
  BY <1>1, <1>2, NoneAssumption DEF SameUse, Instances, TypeOK
<1> QED BY <1>1, <1>3, OrderKept DEF Idle

LEMMA OrderExpect ==
  ASSUME TypeOK, Form, Order, NEW t \in Tasks, NEW state \in States, Expect(t, state)
  PROVE  Order'
<1>1. /\ UNCHANGED <<fixed, call, slaves, unsure>> /\ instance[t] # None /\ call[t] = Idle
      /\ Expecting(t, state)
  BY DEF Expect, registers, Uses, Start
<1> QED BY <1>1, ExpectingSameUse, OrderKept DEF Idle

(* A call of switch ends with an expected state, or goes on.                 *)
LEMMA OrderSwitch ==
  ASSUME TypeOK, Form, Order, NEW t \in Tasks, NEW fate \in Fates,
         SwitchPoll(t, fate) \/ SwitchError(t, fate)
  PROVE  Order'
<1>1. /\ call[t].op \in {"switch", "switch_error"} /\ UNCHANGED <<fixed, slaves, unsure>>
      /\ \/ UNCHANGED instance /\ \E next : /\ Goes(t, next)
                                           /\ next.op \in {"idle", "switch", "switch_error"}
         \/ Goes(t, Idle) /\ Expecting(t, call[t].target)
  BY DEF SwitchPoll, SwitchError, In, registers, Idle
<1>2. instance[t] # None /\ call[t].target \in States
  BY <1>1 DEF Form, CallForm
<1>3. CASE UNCHANGED instance /\ \E next : Goes(t, next) /\ next.op \in {"idle", "switch", "switch_error"}
  BY <1>1, <1>3, OrderPlain
<1>4. CASE Goes(t, Idle) /\ Expecting(t, call[t].target)
  <2>1. SameUse
    BY <1>2, <1>4, ExpectingSameUse
  <2> QED BY <1>1, <1>4, <2>1, OrderKept DEF Goes, TypeOK
<1> QED BY <1>1, <1>3, <1>4

LEMMA OrderSame ==
  ASSUME Order, UNCHANGED <<fixed, slaves, instance, unsure, call>>
  PROVE  Order'
BY DEF Order, TargetsReach, SlavesApart, AddressesApart, NewReaches, BookIs, Keeps, Target, Holders

LEMMA NextOrder == TypeOK /\ Form /\ Order /\ [Next]_vars => Order'
<1> SUFFICES ASSUME TypeOK, Form, Order, [Next]_vars PROVE Order'
  OBVIOUS
<1> USE DEF registers, bookkeeping, In
<1>1. ASSUME NEW t \in Tasks, Begin(t) PROVE Order'
  <2>1. ASSUME NEW target \in States, NEW fate \in Fates, Switch(t, target, fate) PROVE Order'
    BY <2>1, OrderPlain DEF Switch, Uses, Start, Idle
  <2>2. ASSUME NEW target \in States, NEW fate \in Fates, SwitchAll(t, target, fate) PROVE Order'
    BY <2>2, OrderPlain DEF SwitchAll, Start, Idle
  <2>3. ASSUME ResetAddresses(t) PROVE Order'
    BY <2>3, OrderPlain DEF ResetAddresses, Start, Idle
  <2>4. ASSUME NEW init \in BOOLEAN, ResetClock(t, init) PROVE Order'
    BY <2>4, OrderPlain DEF ResetClock, Start, Idle
  <2>5. ASSUME NEW use \in {"guard", "loop"}, Clock(t, use) PROVE Order'
    BY <2>5, OrderPlain DEF Clock, Start, Idle
  <2> QED BY <1>1, <2>1, <2>2, <2>3, <2>4, <2>5, OrderNew, OrderSetAddress, OrderResetAddress,
             OrderInitMailbox, OrderExpect DEF Begin
<1>2. ASSUME NEW t \in Tasks, Locking(t) PROVE Order'
  <2>1. ASSUME ResetLock(t) PROVE Order'
    BY <2>1, OrderPlain DEF ResetLock, Idle
  <2>2. ASSUME TakeClock(t) PROVE Order'
    BY <2>2, OrderPlain DEF TakeClock, Idle
  <2>3. ASSUME WriteClock(t) PROVE Order'
    BY <2>3, OrderPlain DEF WriteClock
  <2>4. ASSUME LockClock(t) PROVE Order'
    <3>1. call[t].use \in {"guard", "loop"}
      BY <2>4 DEF LockClock, Form, CallForm
    <3> QED BY <2>4, <3>1, OrderPlain DEF LockClock, Idle
  <2> QED BY <1>2, <2>1, <2>2, <2>3, <2>4 DEF Locking
<1>3. ASSUME NEW t \in Tasks, Continue(t) PROVE Order'
  <2>1. ASSUME NEW fate \in Fates, SwitchPoll(t, fate) \/ SwitchError(t, fate) PROVE Order'
    BY <2>1, OrderSwitch
  <2>3. ASSUME NEW fate \in Fates, SwitchAllError(t, fate) PROVE Order'
    BY <2>3, OrderPlain DEF SwitchAllError, Idle, Polled
  <2>4. ASSUME SwitchAllPoll(t) PROVE Order'
    BY <2>4, OrderPlain DEF SwitchAllPoll, Polled
  <2>5. ASSUME SwitchedAll(t) PROVE Order'
    BY <2>5, OrderPlain DEF SwitchedAll, Idle
  <2>6. ASSUME InitClock(t) PROVE Order'
    BY <2>6, OrderPlain DEF InitClock
  <2>7. ASSUME NewClock(t) PROVE Order'
    BY <2>7, OrderPlain DEF NewClock, Idle
  <2>8. ASSUME ReleaseClock(t) PROVE Order'
    BY <2>8, OrderPlain DEF ReleaseClock, Idle
  <2> QED BY <1>3, <2>1, <2>3, <2>4, <2>5, <2>6, <2>7, <2>8, OrderRegister, OrderMove,
             OrderDrop, OrderResetWrite DEF Continue
<1>4. ASSUME NEW s \in Slaves, Transition(s) PROVE Order'
  BY <1>4, OrderSame DEF Transition
<1>5. ASSUME UNCHANGED vars PROVE Order'
  BY <1>5, OrderSame DEF vars
<1> QED BY <1>1, <1>2, <1>3, <1>4, <1>5 DEF Next

-----------------------------------------------------------------------------
(* Theorems *)

IInv == TypeOK /\ Form /\ Order

LEMMA InitInv == Init => IInv
<1> SUFFICES ASSUME Init PROVE IInv
  OBVIOUS
<1>1. TypeOK
  <2>1. queue \in Seq(Tasks \X {"read", "write"}) /\ al \in [Slaves -> States]
    BY DEF Init
  <2>2. asked \in [Slaves -> States \cup {None}] /\ failed \in [Slaves -> BOOLEAN]
    BY DEF Init
  <2>3. instance \in [Tasks -> Instances \cup {None}] /\ DOMAIN call = Tasks
    BY DEF Init
  <2>4. clock \in BOOLEAN /\ unsure \in BOOLEAN
    BY DEF Init
  <2> QED BY <2>1, <2>2, <2>3, <2>4 DEF Init, TypeOK
<1>2. instance = [t \in Tasks |-> None] /\ call = [t \in Tasks |-> Idle] /\ slaves = {}
  BY DEF Init
<1>3. Form
  BY <1>2 DEF Form, InstanceForm, CallForm, Idle
<1>4. Holders = {} /\ \A t \in Tasks : ~Keeps(t) /\ call[t].op = "idle"
  BY <1>2 DEF Holders, Keeps, Idle
<1>5. Order
  BY <1>2, <1>4 DEF Order, TargetsReach, SlavesApart, AddressesApart, NewReaches, BookIs
<1> QED BY <1>1, <1>3, <1>5 DEF IInv

LEMMA Inductive == Spec => []IInv
<1>1. IInv /\ [Next]_vars => IInv'
  BY NextType, NextForm, NextOrder DEF IInv
<1> QED BY InitInv, <1>1, PTL DEF Spec

(* The state stays well formed: an instance has an address and a slave, what *)
(* waits for the clock is a task that reads or writes.                       *)
THEOREM TypeCorrect == Spec => []TypeOK
<1>1. IInv => TypeOK
  BY DEF IInv
<1> QED BY Inductive, <1>1, PTL

(* Until an address changes unseen, a slave has one owner at most: the book  *)
(* of addresses, checked after the await in Slave::new, suffices although it *)
(* speaks of addresses, which change, and not of slaves.                     *)
THEOREM OwnersApart == Spec => []OneOwner
<1>1. IInv => OneOwner
  <2> SUFFICES ASSUME IInv, ~unsure, NEW s \in Slaves PROVE Cardinality(Owners(s)) <= 1
    BY DEF OneOwner
  <2>1. \A t, u \in Owners(s) : t = u
    BY DEF IInv, Order, SlavesApart, Owners, Keeps, Holders
  <2>2. CASE Owners(s) = {}
    BY <2>2, FS_EmptySet
  <2>3. CASE Owners(s) # {}
    <3>1. PICK t : Owners(s) = {t}
      BY <2>1, <2>3
    <3>2. Cardinality({t}) = 1
      BY FS_Singleton
    <3> QED BY <3>1, <3>2
  <2> QED BY <2>2, <2>3
<1> QED BY Inductive, <1>1, PTL

(* Until then the address of an instance reaches its slave and no other one. *)
THEOREM AddressesReach == Spec => []ReachesOwn
<1>1. IInv => ReachesOwn
  <2> SUFFICES ASSUME IInv, ~unsure, NEW t \in Holders, call[t].op \notin {"move", "drop"}
               PROVE  Reached(instance[t].address) = {instance[t].slave}
    BY DEF ReachesOwn
  <2>1. Keeps(t) /\ Target(t) = instance[t].address /\ t \in Tasks
    BY DEF Keeps, Target, Holders
  <2> QED BY <2>1, ReachedIs DEF IInv, Order, TargetsReach
<1> QED BY Inductive, <1>1, PTL

(* Until then the book is the set of the addresses of the instances.         *)
THEOREM BookHolds == Spec => []BookExact
<1>1. IInv => BookExact
  BY DEF IInv, Order, BookIs, BookExact
<1> QED BY Inductive, <1>1, PTL

-----------------------------------------------------------------------------
(* Master::switch *)

(* A state of the protocol is one flag: what is gathered is that flag only   *)
(* if no slave has another one.                                              *)
LEMMA GatheredTells ==
  ASSUME TypeOK, NEW target \in States, AllReached(Gathered, target), NEW s \in Slaves
  PROVE  al[s] = target
<1>1. PICK flag : target = {flag}
  BY ConstantsAssumption
<1>2. al[s] \in States /\ al[s] \subseteq Gathered
  BY DEF TypeOK, Gathered
<1>3. PICK own : al[s] = {own}
  BY <1>2, ConstantsAssumption
<1>4. own = flag
  BY <1>1, <1>2, <1>3 DEF AllReached
<1> QED BY <1>1, <1>3, <1>4

(* What goes on from polling is a read.                                      *)
LEMMA SucceedsBy ==
  ASSUME TypeOK, NEW t \in Tasks, Next, Succeeds(t)
  PROVE  SwitchAllPoll(t)
<1>0. call[t].op = "switch_all" /\ call'[t].op \in {"switched", "switch_all_error"}
  BY DEF Succeeds
<1>1. PICK u \in Tasks : Begin(u) \/ Locking(u) \/ Continue(u)
  BY <1>0 DEF Next, Transition
<1>2. ASSUME NEW next, Goes(u, next), u # t PROVE FALSE
  BY <1>0, <1>2 DEF Goes, TypeOK
<1>3. \/ UNCHANGED call
      \/ \E next : Goes(u, next)
  <2>1. CASE Begin(u)
    BY <2>1 DEF Begin, New, SetAddress, ResetAddress, InitMailbox, Expect, Switch, SwitchAll,
                ResetAddresses, ResetClock, Clock
  <2>2. CASE Locking(u)
    BY <2>2 DEF Locking, ResetLock, TakeClock, WriteClock, LockClock
  <2>3. CASE Continue(u)
    BY <2>3 DEF Continue, Register, Move, Drop, SwitchPoll, SwitchError, SwitchAllError,
                ResetWrite, SwitchAllPoll, SwitchedAll, InitClock, NewClock, ReleaseClock
  <2> QED BY <1>1, <2>1, <2>2, <2>3
<1>4. u = t
  BY <1>0, <1>2, <1>3
<1>5. call[t] # Idle
  BY <1>0 DEF Idle
<1>6. ~Begin(t)
  BY <1>5 DEF Begin, New, SetAddress, ResetAddress, InitMailbox, Expect, Switch, SwitchAll,
              ResetAddresses, ResetClock, Clock, Uses, Start
<1>7. ~Locking(t)
  BY <1>0 DEF Locking, ResetLock, TakeClock, WriteClock, LockClock, In
<1>8. Continue(t) => SwitchAllPoll(t)
  BY <1>0, <1>5 DEF Continue, Register, Move, Drop, SwitchPoll, SwitchError, SwitchAllError,
              ResetWrite, SwitchedAll, InitClock, NewClock, ReleaseClock, In
<1> QED BY <1>1, <1>4, <1>6, <1>7, <1>8

(* Each success of Master::switch comes from a broadcast read at which every *)
(* slave was in the state asked for, although the answer only gathers flags, *)
(* with or without codes of errors read after it.                            *)
THEOREM SwitchHolds == Spec => SwitchReachesAll
<1>1. ASSUME IInv, [Next]_vars, NEW t \in Tasks, NEW s \in Slaves, Succeeds(t)
      PROVE  al[s] = call[t].target
  <2>1. TypeOK /\ call[t].target \in States /\ call[t].op = "switch_all"
    BY <1>1 DEF IInv, Form, CallForm, Succeeds
  <2>2. ~UNCHANGED vars
    BY <1>1 DEF vars, Succeeds
  <2>3. SwitchAllPoll(t)
    BY <1>1, <2>1, <2>2, SucceedsBy
  <2>4. PICK seen : seen = Gathered
    OBVIOUS
  <2>5. \/ call'[t] = [op |-> "switch_all_error", target |-> call[t].target, seen |-> seen, next |-> 0]
        \/ call'[t] = Polled(t, seen)
    BY <2>1, <2>3, <2>4 DEF SwitchAllPoll, Goes, TypeOK
  <2>6. AllReached(Gathered, call[t].target)
    BY <1>1, <2>4, <2>5 DEF Succeeds, Polled, AllReached
  <2> QED BY <2>1, <2>6, GatheredTells
<1>2. IInv /\ [Next]_vars
      => [\A t \in Tasks : Succeeds(t) => \A s \in Slaves : al[s] = call[t].target]_vars
  BY <1>1
<1> QED BY Inductive, <1>2, PTL DEF Spec, SwitchReachesAll

-----------------------------------------------------------------------------
(* Trees of slaves                                                           *)

LEMMA Least ==
  ASSUME NEW T, T \subseteq Nat, T # {}
  PROVE  \E n \in T : \A m \in T : n <= m
<1>1. IsWellFoundedOn({p \in Nat \X Nat : p[1] < p[2]}, Nat)
  BY NatLessThanWellFounded DEF OpToRel
<1>2. PICK n \in T : \A m \in T : ~(<<m, n>> \in {p \in Nat \X Nat : p[1] < p[2]})
  BY <1>1, WFMin
<1>3. \A m \in T : ~(m < n)
  BY <1>2
<1> QED BY <1>3

(* Induction, where the property is a set.                                   *)
LEMMA Induction ==
  ASSUME NEW T, 0 \in T, \A n \in Nat : n \in T => n + 1 \in T
  PROVE  Nat \subseteq T
<1> SUFFICES ASSUME Nat \ T # {} PROVE FALSE
  OBVIOUS
<1>1. PICK n \in Nat \ T : \A m \in Nat \ T : n <= m
  BY Least
<1>2. n # 0 /\ n - 1 \in Nat
  BY <1>1
<1>3. n - 1 \in T
  BY <1>1, <1>2
<1> QED BY <1>1, <1>2, <1>3

(* What holds of a slave when it holds of the ones before holds of all.      *)
LEMMA StrongInduction ==
  ASSUME NEW n \in Nat, NEW T, \A i \in 0..n - 1 : (\A j \in 0..n - 1 : j < i => j \in T) => i \in T
  PROVE  0..n - 1 \subseteq T
<1> SUFFICES ASSUME (0..n - 1) \ T # {} PROVE FALSE
  OBVIOUS
<1>3. PICK R : R = (0..n - 1) \ T
  OBVIOUS
<1>4. R \subseteq Nat /\ R # {}
  BY <1>3
<1>1. PICK i \in (0..n - 1) \ T : \A j \in (0..n - 1) \ T : i <= j
  BY <1>3, <1>4, Least
<1>2. \A j \in 0..n - 1 : j < i => j \in T
  BY <1>1
<1> QED BY <1>1, <1>2

(* A slave's parent comes before it, and a port takes one slave.             *)
Tree(n, parent, port) ==
  /\ n \in Nat \ {0} /\ parent \in [1..n - 1 -> Nat] /\ port \in [1..n - 1 -> 1..3]
  /\ \A i \in 1..n - 1 : parent[i] < i
  /\ \A i, j \in 1..n - 1 : parent[i] = parent[j] /\ port[i] = port[j] => i = j

(* What a definition by the value of the parent gives.                       *)
Upward(g, m, parent, D, base, step) ==
  /\ g \in [0..m -> D] /\ g[0] = base
  /\ \A i \in 1..m : g[i] = step[i][g[parent[i]]]

(* A definition by the value of the parent has a function.                   *)
LEMMA UpwardExists ==
  ASSUME NEW n \in Nat, NEW parent \in [1..n -> Nat], \A i \in 1..n : parent[i] < i,
         NEW D, NEW base \in D, NEW step \in [1..n -> [D -> D]]
  PROVE  \E g : Upward(g, n, parent, D, base, step)
<1> DEFINE T == {m \in Nat : m <= n => \E g : Upward(g, m, parent, D, base, step)}
<1>1. 0 \in T
  <2>1. Upward([k \in 0..0 |-> base], 0, parent, D, base, step)
    BY DEF Upward
  <2> QED BY <2>1
<1>2. ASSUME NEW m \in Nat, m \in T PROVE m + 1 \in T
  <2> SUFFICES ASSUME m + 1 <= n PROVE \E g : Upward(g, m + 1, parent, D, base, step)
    OBVIOUS
  <2>1. PICK g : Upward(g, m, parent, D, base, step)
    BY <1>2
  <2>2. PICK q \in 0..m : q = parent[m + 1]
    <3>1. m + 1 \in 1..n
      OBVIOUS
    <3>2. parent[m + 1] \in Nat /\ parent[m + 1] < m + 1
      BY <3>1
    <3> QED BY <3>2
  <2>3. PICK f \in [D -> D], d \in D : f = step[m + 1] /\ d = g[q]
    <3>1. m + 1 \in 1..n
      OBVIOUS
    <3>2. step[m + 1] \in [D -> D]
      BY <3>1
    <3>3. g[q] \in D
      BY <2>1 DEF Upward
    <3> QED BY <3>2, <3>3
  <2>4. PICK h \in [0..m + 1 -> D] : h = [k \in 0..m + 1 |-> IF k = m + 1 THEN f[d] ELSE g[k]]
    <3>1. \A k \in 0..m + 1 : k # m + 1 => k \in 0..m
      OBVIOUS
    <3>2. \A k \in 0..m + 1 : (IF k = m + 1 THEN f[d] ELSE g[k]) \in D
      BY <2>1, <3>1 DEF Upward
    <3> QED BY <3>2
  <2>5. \A k \in 0..m : k # m + 1 /\ k \in 0..m + 1
    OBVIOUS
  <2>6. \A k \in 0..m : h[k] = g[k]
    BY <2>4, <2>5
  <2>7. h[0] = base
    BY <2>1, <2>6 DEF Upward
  <2>8. ASSUME NEW k \in 1..m + 1 PROVE h[k] = step[k][h[parent[k]]]
    <3>1. CASE k = m + 1
      <4>1. m + 1 \in 0..m + 1 /\ h[q] = g[q]
        BY <2>6
      <4>2. h[m + 1] = f[d]
        BY <2>4, <4>1
      <4> QED BY <2>2, <2>3, <3>1, <4>1, <4>2
    <3>2. CASE k # m + 1
      <4>1. k \in 1..m /\ k \in 0..m /\ k \in 1..n
        BY <3>2
      <4>2. parent[k] \in 0..m
        BY <4>1
      <4> QED BY <2>1, <2>6, <4>1, <4>2 DEF Upward
    <3> QED BY <3>1, <3>2
  <2>9. Upward(h, m + 1, parent, D, base, step)
    BY <2>7, <2>8 DEF Upward
  <2> QED BY <2>9
<1> HIDE DEF T
<1>3. Nat \subseteq T
  BY <1>1, <1>2, Induction
<1> QED BY <1>3 DEF T

-----------------------------------------------------------------------------
(* Paths                                                                     *)

(* The slaves from the first one to each.                                    *)
Paths(path, n, parent) ==
  /\ path \in [0..n - 1 -> Seq(Nat)] /\ path[0] = <<0>>
  /\ \A i \in 1..n - 1 : path[i] = Append(path[parent[i]], i)

LEMMA PathsExist ==
  ASSUME NEW n, NEW parent, NEW port, Tree(n, parent, port)
  PROVE  \E path : Paths(path, n, parent)
<1>1. PICK m \in Nat : m = n - 1
  BY DEF Tree
<1>2. parent \in [1..m -> Nat] /\ \A i \in 1..m : parent[i] < i
  BY <1>1 DEF Tree
<1> DEFINE step == [i \in 1..m |-> [s \in Seq(Nat) |-> Append(s, i)]]
<1>3. step \in [1..m -> [Seq(Nat) -> Seq(Nat)]]
  <2> SUFFICES ASSUME NEW i \in 1..m, NEW s \in Seq(Nat) PROVE Append(s, i) \in Seq(Nat)
    OBVIOUS
  <2>1. i \in Nat
    OBVIOUS
  <2> QED BY <2>1, AppendProperties
<1>4. <<0>> \in Seq(Nat)
  OBVIOUS
<1>5. \A i \in 1..m : \A s \in Seq(Nat) : step[i][s] = Append(s, i)
  OBVIOUS
<1> HIDE DEF step
<1>6. PICK path : Upward(path, m, parent, Seq(Nat), <<0>>, step)
  BY <1>2, <1>3, <1>4, UpwardExists
<1>7. \A i \in 1..m : parent[i] \in 0..m
  BY <1>2
<1>8. \A i \in 1..m : path[i] = Append(path[parent[i]], i)
  BY <1>5, <1>6, <1>7 DEF Upward
<1> QED BY <1>1, <1>6, <1>8 DEF Paths, Upward

(* x is y or above it.                                                       *)
On(path, x, y) == \E k \in 1..Len(path[y]) : path[y][k] = x

LEMMA PathOf ==
  ASSUME NEW n, NEW parent, NEW port, Tree(n, parent, port), NEW path, Paths(path, n, parent), NEW i \in 1..n - 1
  PROVE  /\ parent[i] \in 0..n - 1 /\ parent[i] < i /\ path[parent[i]] \in Seq(Nat) /\ path[i] \in Seq(Nat)
         /\ Len(path[i]) = Len(path[parent[i]]) + 1 /\ path[i][Len(path[i])] = i
         /\ \A k \in 1..Len(path[parent[i]]) : path[i][k] = path[parent[i]][k]
<1>1. i \in 1..n - 1 /\ i \in Nat /\ n \in Nat
  BY DEF Tree
<1>2. PICK q \in 0..n - 1 : q = parent[i] /\ q < i
  <2>1. parent[i] \in Nat /\ parent[i] < i
    BY <1>1 DEF Tree
  <2> QED BY <1>1, <2>1
<1>3. PICK s \in Seq(Nat) : s = path[q]
  BY DEF Paths
<1>4. path[i] = Append(s, i)
  BY <1>2, <1>3 DEF Paths
<1>5. /\ Append(s, i) \in Seq(Nat) /\ Len(Append(s, i)) = Len(s) + 1
      /\ Append(s, i)[Len(s) + 1] = i /\ \A k \in 1..Len(s) : Append(s, i)[k] = s[k]
  BY <1>1, AppendProperties
<1> QED BY <1>2, <1>3, <1>4, <1>5

LEMMA OnFirst ==
  ASSUME NEW n, NEW parent, NEW path, Paths(path, n, parent), NEW x
  PROVE  On(path, x, 0) <=> x = 0
<1>1. path[0] = <<0>>
  BY DEF Paths
<1> QED BY <1>1 DEF On

LEMMA OnStep ==
  ASSUME NEW n, NEW parent, NEW port, Tree(n, parent, port), NEW path, Paths(path, n, parent), NEW i \in 1..n - 1, NEW x
  PROVE  On(path, x, i) <=> x = i \/ On(path, x, parent[i])
<1>1. PICK q \in 0..n - 1 : q = parent[i]
  BY PathOf
<1>2. PICK s \in Seq(Nat), t \in Seq(Nat) : s = path[q] /\ t = path[i]
  BY <1>1, PathOf
<1>3. Len(t) = Len(s) + 1 /\ t[Len(t)] = i /\ \A k \in 1..Len(s) : t[k] = s[k]
  <2>1. /\ Len(path[i]) = Len(path[q]) + 1 /\ path[i][Len(path[i])] = i
        /\ \A k \in 1..Len(path[q]) : path[i][k] = path[q][k]
    BY <1>1, PathOf
  <2> QED BY <1>2, <2>1
<1>4. Len(s) \in Nat /\ Len(t) \in Nat
  BY LenProperties
<1>5. (\E k \in 1..Len(t) : t[k] = x) <=> x = i \/ \E k \in 1..Len(s) : s[k] = x
  <2>1. \A k \in 1..Len(t) : k = Len(t) \/ k \in 1..Len(s)
    BY <1>3, <1>4
  <2>2. Len(t) \in 1..Len(t) /\ \A k \in 1..Len(s) : k \in 1..Len(t)
    BY <1>3, <1>4
  <2> QED BY <1>3, <2>1, <2>2
<1> QED BY <1>1, <1>2, <1>5 DEF On

(* What is before the last element stays when one is appended.               *)
LEMMA SliceOfAppend ==
  ASSUME NEW s \in Seq(Nat), NEW i \in Nat, NEW k \in Nat, k <= Len(s)
  PROVE  SubSeq(Append(s, i), 1, k) = SubSeq(s, 1, k)
<1>1. /\ Append(s, i) \in Seq(Nat) /\ Len(Append(s, i)) = Len(s) + 1
      /\ \A j \in 1..Len(s) : Append(s, i)[j] = s[j]
  BY AppendProperties
<1>2. PICK t \in Seq(Nat) : t = Append(s, i)
  BY <1>1
<1>3. Len(s) \in Nat
  BY LenProperties
<1>4. \A j \in 1..k : s[j] \in Nat /\ t[j] \in Nat /\ t[j] = s[j]
  <2>1. \A j \in 1..k : j \in 1..Len(s) /\ j \in 1..Len(t)
    BY <1>1, <1>2, <1>3
  <2> QED BY <1>1, <1>2, <2>1, ElementOfSeq
<1>5. /\ SubSeq(s, 1, k) \in Seq(Nat) /\ Len(SubSeq(s, 1, k)) = IF 1 <= k THEN k - 1 + 1 ELSE 0
      /\ \A j \in 1..k - 1 + 1 : SubSeq(s, 1, k)[j] = s[1 + j - 1]
  BY <1>4, SubSeqProperties
<1>6. /\ SubSeq(t, 1, k) \in Seq(Nat) /\ Len(SubSeq(t, 1, k)) = IF 1 <= k THEN k - 1 + 1 ELSE 0
      /\ \A j \in 1..k - 1 + 1 : SubSeq(t, 1, k)[j] = t[1 + j - 1]
  BY <1>4, SubSeqProperties
<1>7. PICK u \in Seq(Nat), v \in Seq(Nat) : u = SubSeq(s, 1, k) /\ v = SubSeq(t, 1, k)
  BY <1>5, <1>6
<1>8. Len(u) = k /\ Len(v) = k
  BY <1>5, <1>6, <1>7
<1>9. \A j \in 1..k : j \in 1..k - 1 + 1 /\ 1 + j - 1 = j
  OBVIOUS
<1>10. \A j \in 1..k : u[j] = v[j]
  BY <1>4, <1>5, <1>6, <1>7, <1>9
<1>11. u = v
  BY <1>8, <1>10, SeqEqual
<1> QED BY <1>2, <1>7, <1>11

(* A place in a path.                                                        *)
PlaceOf(path, n, parent, y, k) ==
  /\ path[y][k] \in 0..n - 1 /\ path[y][k] <= y
  /\ SubSeq(path[y], 1, k) = path[path[y][k]]
  /\ k < Len(path[y]) => path[y][k + 1] \in 1..n - 1 /\ parent[path[y][k + 1]] = path[y][k]

(* A path is in the tree: it starts with the paths of all the slaves on it,  *)
(* and each of its slaves is the parent of the next.                         *)
LEMMA PathPlaces ==
  ASSUME NEW n, NEW parent, NEW port, Tree(n, parent, port), NEW path, Paths(path, n, parent)
  PROVE  \A y \in 0..n - 1 : /\ path[y] \in Seq(Nat) /\ Len(path[y]) \in Nat \ {0} /\ path[y][Len(path[y])] = y
                             /\ \A k \in 1..Len(path[y]) : PlaceOf(path, n, parent, y, k)
<1> DEFINE T == {y \in 0..n - 1 : /\ path[y] \in Seq(Nat) /\ Len(path[y]) \in Nat \ {0}
                                  /\ path[y][Len(path[y])] = y
                                  /\ \A k \in 1..Len(path[y]) : PlaceOf(path, n, parent, y, k)}
<1>1. n \in Nat \ {0}
  BY DEF Tree
<1>2. 0 \in T
  <2>1. path[0] = <<0>> /\ 0 \in 0..n - 1
    BY <1>1 DEF Paths
  <2>2. PICK one \in Seq(Nat) : one = <<0>> /\ Len(one) = 1 /\ one[1] = 0
    <3>1. <<0>> \in Seq(Nat) /\ Len(<<0>>) = 1
      OBVIOUS
    <3>2. <<0>>[1] = 0
      OBVIOUS
    <3> QED BY <3>1, <3>2
  <2>3. SubSeq(one, 1, 1) = one
    BY <2>2, SubSeqFull
  <2>4. path[0] = one /\ path[0][1] = 0 /\ Len(path[0]) = 1 /\ SubSeq(path[0], 1, 1) = path[0]
    BY <2>1, <2>2, <2>3
  <2>5. PlaceOf(path, n, parent, 0, 1)
    BY <2>1, <2>4 DEF PlaceOf
  <2>6. \A k \in 1..Len(path[0]) : k = 1
    BY <2>4
  <2>7. Len(path[0]) \in Nat \ {0} /\ path[0] \in Seq(Nat) /\ path[0][Len(path[0])] = 0
    BY <2>2, <2>4
  <2> QED BY <2>1, <2>5, <2>6, <2>7
<1>3. ASSUME NEW y \in 0..n - 1, \A x \in 0..n - 1 : x < y => x \in T PROVE y \in T
  <2> SUFFICES ASSUME y # 0 PROVE y \in T
    BY <1>2
  <2>1. y \in 1..n - 1
    BY <1>1
  <2>2. PICK q \in 0..n - 1 : q = parent[y] /\ q < y
    BY <2>1, PathOf
  <2>3. q \in T
    BY <1>3, <2>2
  <2>4. PICK s \in Seq(Nat), t \in Seq(Nat) : s = path[q] /\ t = path[y]
    BY <2>1, <2>2, PathOf
  <2>5. t = Append(s, y)
    BY <2>1, <2>2, <2>4 DEF Paths
  <2>6. PICK l \in Nat \ {0} : l = Len(s) /\ s[l] = q /\ Len(t) = l + 1 /\ t[l + 1] = y /\ \A k \in 1..l : t[k] = s[k]
    <3>1. Len(s) \in Nat \ {0} /\ s[Len(s)] = q
      BY <2>3, <2>4
    <3>2. Len(t) = Len(s) + 1 /\ t[Len(t)] = y /\ \A k \in 1..Len(s) : t[k] = s[k]
      <4>1. y \in Nat
        OBVIOUS
      <4>2. /\ Len(Append(s, y)) = Len(s) + 1 /\ Append(s, y)[Len(s) + 1] = y
            /\ \A k \in 1..Len(s) : Append(s, y)[k] = s[k]
        BY <4>1, AppendProperties
      <4> QED BY <2>5, <4>2
    <3> QED BY <3>1, <3>2
  <2>7. ASSUME NEW k \in 1..l + 1 PROVE PlaceOf(path, n, parent, y, k)
    <3>1. CASE k = l + 1
      <4>1. SubSeq(t, 1, Len(t)) = t
        BY SubSeqFull
      <4>2. t[k] = y
        BY <2>6, <3>1
      <4>3. y <= y /\ ~(k < Len(t))
        BY <2>6, <3>1
      <4> QED BY <2>4, <2>6, <3>1, <4>1, <4>2, <4>3 DEF PlaceOf
    <3>2. CASE k # l + 1
      <4>1. k \in 1..l /\ k <= l /\ k < l + 1 /\ k \in Nat
        BY <3>2
      <4>2. PlaceOf(path, n, parent, q, k)
        BY <2>3, <2>4, <2>6, <4>1
      <4>3. PICK x \in 0..n - 1 : x = s[k] /\ x <= q /\ SubSeq(s, 1, k) = path[x]
        BY <2>4, <4>2 DEF PlaceOf
      <4>4. t[k] = x /\ x <= y
        BY <2>2, <2>6, <4>1, <4>3
      <4>5. SubSeq(t, 1, k) = path[x]
        BY <2>5, <2>6, <4>1, <4>3, SliceOfAppend
      <4>6. t[k + 1] \in 1..n - 1 /\ parent[t[k + 1]] = x
        <5>1. CASE k = l
          BY <2>1, <2>2, <2>6, <4>3, <5>1
        <5>2. CASE k # l
          <6>1. k + 1 \in 1..l /\ k < l
            BY <4>1, <5>2
          <6>2. s[k + 1] \in 1..n - 1 /\ parent[s[k + 1]] = x
            BY <2>4, <2>6, <4>2, <4>3, <6>1 DEF PlaceOf
          <6> QED BY <2>6, <6>1, <6>2
        <5> QED BY <5>1, <5>2
      <4> QED BY <2>4, <4>3, <4>4, <4>5, <4>6 DEF PlaceOf
    <3> QED BY <3>1, <3>2
  <2>8. l + 1 \in Nat \ {0}
    OBVIOUS
  <2> QED BY <2>4, <2>6, <2>7, <2>8
<1> HIDE DEF T
<1>4. 0..n - 1 \subseteq T
  BY <1>1, <1>3, StrongInduction
<1> QED BY <1>4 DEF T

(* A tree with its paths.                                                    *)
Pathed(n, parent, port, path) == Tree(n, parent, port) /\ Paths(path, n, parent)

LEMMA OnSelf ==
  ASSUME NEW n, NEW parent, NEW port, NEW path, Pathed(n, parent, port, path), NEW y \in 0..n - 1
  PROVE  On(path, y, y)
<1>1. Len(path[y]) \in Nat \ {0} /\ path[y][Len(path[y])] = y
  BY PathPlaces DEF Pathed
<1>2. Len(path[y]) \in 1..Len(path[y])
  BY <1>1
<1> QED BY <1>1, <1>2 DEF On

LEMMA OnBefore ==
  ASSUME NEW n, NEW parent, NEW port, NEW path, Pathed(n, parent, port, path), NEW y \in 0..n - 1, NEW x, On(path, x, y)
  PROVE  x \in 0..n - 1 /\ x <= y
<1>1. PICK k \in 1..Len(path[y]) : path[y][k] = x
  BY DEF On
<1>2. PlaceOf(path, n, parent, y, k)
  BY PathPlaces DEF Pathed
<1> QED BY <1>1, <1>2 DEF PlaceOf

(* The slave above y that x is the parent of.                                *)
LEMMA OnBranch ==
  ASSUME NEW n, NEW parent, NEW port, NEW path, Pathed(n, parent, port, path), NEW y \in 0..n - 1, NEW x, On(path, x, y), x # y
  PROVE  \E c \in 1..n - 1 : parent[c] = x /\ On(path, c, y)
<1>1. PICK k \in 1..Len(path[y]) : path[y][k] = x
  BY DEF On
<1>2. Len(path[y]) \in Nat \ {0} /\ path[y][Len(path[y])] = y /\ PlaceOf(path, n, parent, y, k)
  BY PathPlaces DEF Pathed
<1>3. k < Len(path[y]) /\ k + 1 \in 1..Len(path[y])
  BY <1>1, <1>2
<1>4. PICK c \in 1..n - 1 : c = path[y][k + 1] /\ parent[c] = x
  BY <1>1, <1>2, <1>3 DEF PlaceOf
<1>5. On(path, c, y)
  BY <1>3, <1>4 DEF On
<1> QED BY <1>4, <1>5

(* Being above is transitive.                                                *)
LEMMA OnTransitive ==
  ASSUME NEW n, NEW parent, NEW port, NEW path, Pathed(n, parent, port, path), NEW x, NEW y, On(path, x, y)
  PROVE  \A z \in 0..n - 1 : On(path, y, z) => On(path, x, z)
<1> DEFINE T == {z \in 0..n - 1 : On(path, y, z) => On(path, x, z)}
<1>1. n \in Nat
  BY DEF Pathed, Tree
<1>2. ASSUME NEW z \in 0..n - 1, \A w \in 0..n - 1 : w < z => w \in T PROVE z \in T
  <2> SUFFICES ASSUME On(path, y, z) PROVE On(path, x, z)
    OBVIOUS
  <2>1. CASE z = 0
    BY <2>1, OnFirst DEF Pathed
  <2>2. CASE z # 0
    <3>1. z \in 1..n - 1
      BY <1>1, <2>2
    <3>2. y = z \/ On(path, y, parent[z])
      BY <3>1, OnStep DEF Pathed
    <3>3. parent[z] \in 0..n - 1 /\ parent[z] < z
      BY <3>1, PathOf DEF Pathed
    <3>4. CASE On(path, y, parent[z])
      <4>1. On(path, x, parent[z])
        BY <1>2, <3>3, <3>4
      <4> QED BY <3>1, <4>1, OnStep DEF Pathed
    <3> QED BY <3>2, <3>4
  <2> QED BY <2>1, <2>2
<1> HIDE DEF T
<1>3. 0..n - 1 \subseteq T
  BY <1>1, <1>2, StrongInduction
<1> QED BY <1>3 DEF T

(* Slaves are numbered branch after branch, by ports.                        *)
Preorder(n, parent, port, path) ==
  \A c, d \in 1..n - 1 : parent[c] = parent[d] /\ port[c] < port[d] =>
    \A e \in 0..n - 1 : On(path, c, e) => e < d

(* The slaves numbered between one and another in its branches are in its    *)
(* branches.                                                                 *)
LEMMA OnBetween ==
  ASSUME NEW n, NEW parent, NEW port, NEW path, Pathed(n, parent, port, path), Preorder(n, parent, port, path)
  PROVE  \A y \in 0..n - 1 : \A x, z \in 0..n - 1 : On(path, x, z) /\ x <= y /\ y <= z => On(path, x, y)
<1> DEFINE T == {y \in 0..n - 1 : \A x, z \in 0..n - 1 : On(path, x, z) /\ x <= y /\ y <= z => On(path, x, y)}
<1>1. n \in Nat
  BY DEF Pathed, Tree
<1>2. ASSUME NEW y \in 0..n - 1, \A w \in 0..n - 1 : w < y => w \in T PROVE y \in T
  <2> SUFFICES ASSUME NEW x \in 0..n - 1, NEW z \in 0..n - 1, On(path, x, z), x < y, y <= z PROVE On(path, x, y)
    BY OnSelf
  <2>1. y \in 1..n - 1
    BY <1>1
  <2>2. PICK q \in 0..n - 1 : q = parent[y] /\ q < y
    BY <2>1, PathOf DEF Pathed
  <2>3. On(path, q, y)
    BY <2>1, <2>2, OnSelf, OnStep DEF Pathed
  <2>4. CASE x <= q
    <3>1. On(path, x, q)
      BY <1>2, <2>2, <2>4
    <3> QED BY <2>1, <2>2, <3>1, OnStep DEF Pathed
  <2>5. CASE q < x
    <3>1. On(path, q, x)
      BY <1>2, <2>2, <2>3, <2>5
    <3>2. PICK c \in 1..n - 1 : parent[c] = q /\ On(path, c, x)
      BY <2>5, <3>1, OnBranch
    <3>3. c <= x
      BY <3>2, OnBefore
    <3>4. On(path, c, z)
      BY <3>2, OnTransitive
    <3>5. parent \in [1..n - 1 -> Nat] /\ port \in [1..n - 1 -> 1..3]
          /\ (port[c] = port[y] => c = y)
      BY <2>1, <2>2, <3>2 DEF Pathed, Tree
    <3>6. port[c] < port[y] \/ port[y] < port[c]
      BY <2>1, <3>3, <3>5
    <3>7. CASE port[c] < port[y]
      <4>1. z < y
        BY <2>1, <2>2, <3>2, <3>4, <3>7 DEF Preorder
      <4> QED BY <4>1
    <3>8. CASE port[y] < port[c]
      <4>1. y < c
        BY <2>1, <2>2, <3>2, <3>8, OnSelf DEF Preorder
      <4> QED BY <3>3, <4>1
    <3> QED BY <3>6, <3>7, <3>8
  <2> QED BY <2>4, <2>5
<1> HIDE DEF T
<1>3. 0..n - 1 \subseteq T
  BY <1>1, <1>2, StrongInduction
<1> QED BY <1>3 DEF T

-----------------------------------------------------------------------------
(* Rebuilding the tree                                                       *)

NetIs(net, n, parent, port) == net.n = n /\ net.parent = parent /\ net.port = port

(* Child finds the slave on a port.                                          *)
LEMMA ChildIs ==
  ASSUME NEW n, NEW parent, NEW port, Tree(n, parent, port), NEW net, NetIs(net, n, parent, port)
  PROVE  \A i \in 0..n - 1, p \in 1..3 :
           /\ Child(net, i, p) = Unplugged \/ Child(net, i, p) \in 1..n - 1
           /\ \A c \in 1..n - 1 : Child(net, i, p) = c <=> parent[c] = i /\ port[c] = p
<1> SUFFICES ASSUME NEW i \in 0..n - 1, NEW p \in 1..3
             PROVE  /\ Child(net, i, p) = Unplugged \/ Child(net, i, p) \in 1..n - 1
                    /\ \A c \in 1..n - 1 : Child(net, i, p) = c <=> parent[c] = i /\ port[c] = p
  OBVIOUS
<1>1. PICK there : there = {c \in 1..n - 1 : parent[c] = i /\ port[c] = p}
  OBVIOUS
<1>2. PluggedTo(net, i, p) = there
  <2>1. SlavesOf(net) \ {0} = 1..n - 1
    BY DEF SlavesOf, NetIs, Tree
  <2> QED BY <1>1, <2>1 DEF NetIs, PluggedTo
<1>3. Child(net, i, p) = IF there = {} THEN Unplugged ELSE CHOOSE c \in there : TRUE
  BY <1>2 DEF Child
<1>4. Unplugged \notin 1..n - 1
  BY ClockAssumption DEF Tree
<1>5. CASE there = {}
  BY <1>1, <1>3, <1>4, <1>5
<1>6. CASE there # {}
  <2>1. PICK c \in there : Child(net, i, p) = c
    BY <1>3, <1>6
  <2>2. \A d \in 1..n - 1 : parent[d] = i /\ port[d] = p => d = c
    BY <1>1, <2>1 DEF Tree
  <2> QED BY <1>1, <2>1, <2>2
<1> QED BY <1>5, <1>6

LEMMA ChildAt ==
  ASSUME NEW n, NEW parent, NEW port, Tree(n, parent, port), NEW net, NetIs(net, n, parent, port),
         NEW i \in 0..n - 1, NEW p \in 1..3, NEW c \in 1..n - 1
  PROVE  Child(net, i, p) = c <=> parent[c] = i /\ port[c] = p
BY ChildIs

(* What is known once slave j is plugged.                                    *)
Known(net, parent, j, i, p) ==
  IF p = 0 THEN IF i = 0 THEN 0 ELSE IF i <= j THEN parent[i] ELSE Unplugged
  ELSE IF Child(net, i, p) # Unplugged /\ Child(net, i, p) <= j THEN Child(net, i, p) ELSE Unplugged

TopologyTo(net, n, parent, j) == [i \in 0..n - 1 |-> [p \in Ports |-> Known(net, parent, j, i, p)]]
ActiveOf(net, n) == [i \in 0..n - 1 |-> Active(net, i)]

(* Once j slaves are plugged, the free ports of one of them are those of its *)
(* children to come.                                                         *)
LEMMA FreeIs ==
  ASSUME NEW n, NEW parent, NEW port, Tree(n, parent, port), NEW net, NetIs(net, n, parent, port),
         NEW j \in 0..n - 1, NEW x \in 0..n - 1, x <= j
  PROVE  FreePorts(ActiveOf(net, n), TopologyTo(net, n, parent, j), x)
           = {p \in 1..3 : \E c \in 1..n - 1 : parent[c] = x /\ port[c] = p /\ j < c}
<1> DEFINE free == FreePorts(ActiveOf(net, n), TopologyTo(net, n, parent, j), x)
           new == {p \in 1..3 : \E c \in 1..n - 1 : parent[c] = x /\ port[c] = p /\ j < c}
<1>1. \A p \in Ports : p \in free <=> p \in Active(net, x) /\ Known(net, parent, j, x, p) = Unplugged
  BY DEF FreePorts, ActiveOf, TopologyTo
<1>2. free \subseteq Ports
  BY DEF FreePorts
<1>3. 0 \notin free
  <2>1. Known(net, parent, j, x, 0) \in Nat
    <3>1. x # 0 => x \in 1..n - 1
      OBVIOUS
    <3> QED BY <3>1 DEF Known, Tree
  <2> QED BY <1>1, <2>1, ClockAssumption DEF Ports
<1>4. ASSUME NEW p \in 1..3 PROVE p \in free <=> p \in new
  <2>1. p \in Ports /\ p # 0
    BY DEF Ports
  <2>2. PICK c : c = Child(net, x, p)
    OBVIOUS
  <2>3. c = Unplugged \/ c \in 1..n - 1
    BY <2>2, ChildIs
  <2>4. \A d \in 1..n - 1 : c = d <=> parent[d] = x /\ port[d] = p
    BY <2>2, ChildIs
  <2>5. p \in free <=> c # Unplugged /\ ~(c <= j)
    <3>1. p \in Active(net, x) <=> c # Unplugged
      BY <2>1, <2>2 DEF Active
    <3>2. Known(net, parent, j, x, p) = IF c # Unplugged /\ c <= j THEN c ELSE Unplugged
      BY <2>1, <2>2 DEF Known
    <3> QED BY <1>1, <2>1, <3>1, <3>2
  <2>6. CASE c = Unplugged
    <3>1. c \notin 1..n - 1
      BY <2>6, ClockAssumption DEF Tree
    <3> QED BY <2>4, <2>5, <2>6, <3>1
  <2>7. CASE c # Unplugged
    <3>1. c \in 1..n - 1
      BY <2>3, <2>7
    <3> QED BY <2>4, <2>5, <2>7, <3>1
  <2> QED BY <2>6, <2>7
<1>5. Ports = {0} \cup 1..3
  BY DEF Ports
<1> QED BY <1>2, <1>3, <1>4, <1>5

LEMMA MaxIs ==
  ASSUME NEW M, M \subseteq Int, NEW k \in M, \A l \in M : l <= k
  PROVE  Max(M) = k
<1>1. \A x \in M : x >= k => x = k
  OBVIOUS
<1> QED BY <1>1 DEF Max

LEMMA MinIs ==
  ASSUME NEW M, M \subseteq Int, NEW k \in M, \A l \in M : k <= l
  PROVE  Min(M) = k
<1>1. \A x \in M : x <= k => x = k
  OBVIOUS
<1> QED BY <1>1 DEF Min

(* Numbers grow along a path.                                                *)
LEMMA PathRises ==
  ASSUME NEW n, NEW parent, NEW port, NEW path, Pathed(n, parent, port, path), NEW y \in 0..n - 1,
         NEW k \in 1..Len(path[y]), NEW l \in 1..Len(path[y]), k < l
  PROVE  path[y][k] < path[y][l]
<1> DEFINE T == {m \in Nat : k + 1 + m <= Len(path[y]) => path[y][k] < path[y][k + 1 + m]}
<1>1. Len(path[y]) \in Nat \ {0}
  BY PathPlaces DEF Pathed
<1>2. ASSUME NEW a \in 1..Len(path[y]), a < Len(path[y])
      PROVE  path[y][a] \in Nat /\ path[y][a + 1] \in Nat /\ path[y][a] < path[y][a + 1]
  <2>1. PlaceOf(path, n, parent, y, a)
    BY PathPlaces DEF Pathed
  <2>2. PICK c \in 1..n - 1 : c = path[y][a + 1] /\ parent[c] = path[y][a]
    BY <1>2, <2>1 DEF PlaceOf
  <2>3. parent[c] \in Nat /\ parent[c] < c /\ c \in Nat
    BY DEF Pathed, Tree
  <2> QED BY <2>2, <2>3
<1>3. 0 \in T
  <2>1. k + 1 + 0 = k + 1 /\ (k + 1 + 0 <= Len(path[y]) => k < Len(path[y]))
    BY <1>1
  <2> QED BY <1>2, <2>1
<1>4. ASSUME NEW m \in Nat, m \in T PROVE m + 1 \in T
  <2> SUFFICES ASSUME k + 1 + (m + 1) <= Len(path[y]) PROVE path[y][k] < path[y][k + 1 + (m + 1)]
    <3>1. m + 1 \in Nat
      OBVIOUS
    <3> QED BY <3>1
  <2>1. PICK a \in 1..Len(path[y]) : a = k + 1 + m /\ a < Len(path[y]) /\ a + 1 = k + 1 + (m + 1) /\ k < Len(path[y])
    BY <1>1
  <2>2. path[y][k] < path[y][a]
    BY <1>4, <2>1
  <2>3. path[y][k] \in Nat /\ path[y][a] \in Nat /\ path[y][a + 1] \in Nat /\ path[y][a] < path[y][a + 1]
    BY <1>2, <2>1
  <2> QED BY <2>1, <2>2, <2>3
<1> HIDE DEF T
<1>5. Nat \subseteq T
  BY <1>3, <1>4, Induction
<1>6. l - k - 1 \in Nat /\ k + 1 + (l - k - 1) = l /\ l <= Len(path[y])
  BY <1>1
<1> QED BY <1>5, <1>6 DEF T

(* The parent of a slave is on the path to the one before it, and the ones   *)
(* further on that path have all their branches behind them.                 *)
LEMMA ParentIs ==
  ASSUME NEW n, NEW parent, NEW port, NEW path, Pathed(n, parent, port, path), Preorder(n, parent, port, path),
         NEW net, NetIs(net, n, parent, port), NEW i \in 1..n - 1
  PROVE  LET k == Parent(ActiveOf(net, n), TopologyTo(net, n, parent, i - 1), path[i - 1])
         IN k \in 1..Len(path[i - 1]) /\ path[i - 1][k] = parent[i]
<1>1. PICK j \in 0..n - 1 : j = i - 1
  BY DEF Pathed, Tree
<1>2. PICK q \in 0..n - 1 : q = parent[i] /\ q <= j
  <2>1. parent[i] \in 0..n - 1 /\ parent[i] < i
    BY PathOf DEF Pathed
  <2> QED BY <1>1, <2>1
<1>3. On(path, q, j)
  <2>1. On(path, q, i)
    BY <1>2, OnSelf, OnStep DEF Pathed
  <2>2. i \in 0..n - 1 /\ j <= i
    BY <1>1
  <2> QED BY <1>2, <2>1, <2>2, OnBetween
<1>4. PICK s \in Seq(Nat) : s = path[j]
  BY PathPlaces DEF Pathed
<1>5. PICK k \in 1..Len(s) : s[k] = q
  BY <1>3, <1>4 DEF On
<1>6. Len(s) \in Nat
  BY LenProperties
<1> DEFINE free(l) == FreePorts(ActiveOf(net, n), TopologyTo(net, n, parent, j), s[l])
<1>7. \A l \in 1..Len(s) : s[l] \in 0..n - 1 /\ s[l] <= j /\ On(path, s[l], j)
  <2>1. \A l \in 1..Len(s) : On(path, s[l], j)
    BY <1>4 DEF On
  <2> QED BY <2>1, OnBefore
<1>8. \A l \in 1..Len(s) : free(l) = {p \in 1..3 : \E c \in 1..n - 1 : parent[c] = s[l] /\ port[c] = p /\ j < c}
  <2> SUFFICES ASSUME NEW l \in 1..Len(s) PROVE free(l) = {p \in 1..3 : \E c \in 1..n - 1 : parent[c] = s[l] /\ port[c] = p /\ j < c}
    OBVIOUS
  <2>1. PICK x \in 0..n - 1 : x = s[l] /\ x <= j
    BY <1>7
  <2>2. FreePorts(ActiveOf(net, n), TopologyTo(net, n, parent, j), x)
          = {p \in 1..3 : \E c \in 1..n - 1 : parent[c] = x /\ port[c] = p /\ j < c}
    BY <2>1, FreeIs DEF Pathed
  <2> QED BY <2>1, <2>2
<1>9. free(k) # {}
  <2>1. port[i] \in 1..3 /\ parent[i] = s[k] /\ j < i
    BY <1>1, <1>2, <1>5 DEF Pathed, Tree
  <2> QED BY <1>8, <2>1
<1>10. ASSUME NEW l \in 1..Len(s), l > k PROVE free(l) = {}
  <2>1. PICK x \in 0..n - 1 : x = s[l] /\ x <= j /\ On(path, x, j)
    BY <1>7
  <2>2. q < x
    BY <1>4, <1>5, <1>10, <2>1, PathRises
  <2>3. ASSUME NEW c \in 1..n - 1, parent[c] = x, j < c PROVE FALSE
    <3>1. On(path, x, c)
      BY <2>1, <2>3, OnSelf, OnStep DEF Pathed
    <3>2. i \in 0..n - 1 /\ c \in 0..n - 1 /\ x <= i /\ i <= c /\ x # i
      BY <1>1, <2>1, <2>3
    <3>3. On(path, x, i)
      BY <3>1, <3>2, OnBetween
    <3>4. On(path, x, q)
      BY <1>2, <3>2, <3>3, OnStep DEF Pathed
    <3>5. x <= q
      BY <3>4, OnBefore
    <3> QED BY <2>2, <3>5
  <2> QED BY <1>8, <2>1, <2>3
<1>11. Parent(ActiveOf(net, n), TopologyTo(net, n, parent, j), s) = k
  <2>1. DOMAIN s = 1..Len(s)
    BY LenProperties
  <2> DEFINE M == {0} \cup {l \in DOMAIN s : free(l) # {}}
  <2>2. k \in M /\ \A l \in M : l <= k
    BY <1>6, <1>9, <1>10, <2>1
  <2>3. M \subseteq Int
    BY <1>6, <2>1
  <2>4. Parent(ActiveOf(net, n), TopologyTo(net, n, parent, j), s) = Max(M)
    BY DEF Parent
  <2> HIDE DEF M
  <2>5. Max(M) = k
    BY <2>2, <2>3, MaxIs
  <2> QED BY <2>4, <2>5
<1> QED BY <1>1, <1>2, <1>4, <1>5, <1>11

(* The first free port of the parent is the one the slave is plugged to.     *)
LEMMA PortIs ==
  ASSUME NEW n, NEW parent, NEW port, NEW path, Pathed(n, parent, port, path), Preorder(n, parent, port, path),
         NEW net, NetIs(net, n, parent, port), NEW i \in 1..n - 1
  PROVE  Min(FreePorts(ActiveOf(net, n), TopologyTo(net, n, parent, i - 1), parent[i]) \cup {3}) = port[i]
<1>1. PICK j \in 0..n - 1 : j = i - 1
  BY DEF Pathed, Tree
<1>2. PICK q \in 0..n - 1 : q = parent[i] /\ q <= j
  <2>1. parent[i] \in 0..n - 1 /\ parent[i] < i
    BY PathOf DEF Pathed
  <2> QED BY <1>1, <2>1
<1>3. PICK free : free = FreePorts(ActiveOf(net, n), TopologyTo(net, n, parent, j), q)
  OBVIOUS
<1>4. free = {p \in 1..3 : \E c \in 1..n - 1 : parent[c] = q /\ port[c] = p /\ j < c}
  BY <1>2, <1>3, FreeIs DEF Pathed
<1>5. port[i] \in 1..3 /\ port[i] \in free
  <2>1. port[i] \in 1..3 /\ j < i
    BY <1>1 DEF Pathed, Tree
  <2> QED BY <1>2, <1>4, <2>1
<1>6. ASSUME NEW p \in free PROVE port[i] <= p
  <2>1. PICK c \in 1..n - 1 : p \in 1..3 /\ parent[c] = q /\ port[c] = p /\ j < c
    BY <1>4, <1>6
  <2>2. CASE p < port[i]
    <3>1. c \in 0..n - 1 /\ On(path, c, c)
      BY <2>1, OnSelf
    <3>2. c < i
      BY <1>2, <2>1, <2>2, <3>1 DEF Preorder
    <3> QED BY <1>1, <2>1, <3>2
  <2> QED BY <1>5, <2>1, <2>2
<1>7. PICK M : M = free \cup {3}
  OBVIOUS
<1>8. M \subseteq Int /\ port[i] \in M /\ \A p \in M : port[i] <= p
  BY <1>4, <1>5, <1>6, <1>7
<1>9. Min(M) = port[i]
  BY <1>8, MinIs
<1> QED BY <1>1, <1>2, <1>3, <1>7, <1>9

Expected(net, n, parent, path, i) ==
  [topology |-> TopologyTo(net, n, parent, i), stack |-> path[i], failed |-> FALSE]

With(t, q, r, i) == [[t EXCEPT ![q][r] = i] EXCEPT ![i][0] = q]

(* What Plug writes in the topology.                                         *)
LEMMA PlugTopology ==
  ASSUME NEW n, NEW parent, NEW port, Tree(n, parent, port), NEW net, NetIs(net, n, parent, port), NEW i \in 1..n - 1
  PROVE  With(TopologyTo(net, n, parent, i - 1), parent[i], port[i], i) = TopologyTo(net, n, parent, i)
<1>1. PICK j \in 0..n - 1 : j = i - 1 /\ i = j + 1
  BY DEF Tree
<1>2. PICK q \in 0..n - 1 : q = parent[i] /\ q < i
  BY DEF Tree
<1>3. PICK r \in 1..3 : r = port[i]
  BY DEF Tree
<1> DEFINE before == TopologyTo(net, n, parent, j)
           new == [[before EXCEPT ![q][r] = i] EXCEPT ![i][0] = q]
           after == TopologyTo(net, n, parent, i)
<1>4. Ports = {0, 1, 2, 3}
  BY DEF Ports
<1>5. i \in 0..n - 1 /\ i # 0 /\ i # q /\ r \in Ports /\ r # 0 /\ 0 \in Ports
  BY <1>2, <1>4
<1>6. \A x \in 0..n - 1 : \A p \in Ports : before[x][p] = Known(net, parent, j, x, p)
                                           /\ after[x][p] = Known(net, parent, i, x, p)
  BY DEF TopologyTo
<1>7. /\ before = [x \in 0..n - 1 |-> before[x]] /\ \A x \in 0..n - 1 : before[x] = [p \in Ports |-> before[x][p]]
      /\ after = [x \in 0..n - 1 |-> after[x]] /\ \A x \in 0..n - 1 : after[x] = [p \in Ports |-> after[x][p]]
  BY DEF TopologyTo
<1> HIDE DEF before, after
<1>8. ASSUME NEW x \in 0..n - 1, NEW p \in Ports
      PROVE  new[x][p] = IF x = q /\ p = r THEN i ELSE IF x = i /\ p = 0 THEN q ELSE before[x][p]
  BY <1>5, <1>7
<1>9. ASSUME NEW x \in 0..n - 1, NEW p \in Ports
      PROVE  after[x][p] = IF x = q /\ p = r THEN i ELSE IF x = i /\ p = 0 THEN q ELSE before[x][p]
  <2>1. CASE p = 0
    <3>1. p # r
      BY <1>5, <2>1
    <3>2. Known(net, parent, j, x, p) = IF x = 0 THEN 0 ELSE IF x <= j THEN parent[x] ELSE Unplugged
      BY <2>1 DEF Known
    <3>3. Known(net, parent, i, x, p) = IF x = 0 THEN 0 ELSE IF x <= i THEN parent[x] ELSE Unplugged
      BY <2>1 DEF Known
    <3>4. x <= i <=> x <= j \/ x = i
      BY <1>1
    <3> QED BY <1>2, <1>5, <1>6, <2>1, <3>1, <3>2, <3>3, <3>4
  <2>2. CASE p # 0
    <3>1. p \in 1..3
      BY <1>4, <2>2
    <3>2. PICK c : c = Child(net, x, p)
      OBVIOUS
    <3>3. c = Unplugged \/ c \in 1..n - 1
      BY <3>1, <3>2, ChildIs
    <3>4. c = i <=> x = q /\ p = r
      <4>1. \A d \in 1..n - 1 : c = d <=> parent[d] = x /\ port[d] = p
        BY <3>1, <3>2, ChildIs
      <4> QED BY <1>2, <1>3, <4>1
    <3>5. /\ Known(net, parent, j, x, p) = IF c # Unplugged /\ c <= j THEN c ELSE Unplugged
          /\ Known(net, parent, i, x, p) = IF c # Unplugged /\ c <= i THEN c ELSE Unplugged
      BY <2>2, <3>2 DEF Known
    <3>6. c \in 1..n - 1 => c # Unplugged /\ (c <= i <=> c <= j \/ c = i) /\ ~(i <= j)
      BY <1>1, ClockAssumption
    <3>7. i # Unplugged
      BY ClockAssumption
    <3> QED BY <1>6, <2>2, <3>3, <3>4, <3>5, <3>6, <3>7
  <2> QED BY <2>1, <2>2
<1>10. new = after
  <2>1. new = [x \in 0..n - 1 |-> new[x]] /\ \A x \in 0..n - 1 : new[x] = [p \in Ports |-> new[x][p]]
    <3>1. new = [x \in 0..n - 1 |-> new[x]]
      BY <1>7
    <3>2. ASSUME NEW x \in 0..n - 1 PROVE new[x] = [p \in Ports |-> new[x][p]]
      BY <1>5, <1>7
    <3> QED BY <3>1, <3>2
  <2> HIDE DEF new
  <2>2. ASSUME NEW x \in 0..n - 1, NEW p \in Ports PROVE new[x][p] = after[x][p]
    <3>1. new[x][p] = IF x = q /\ p = r THEN i ELSE IF x = i /\ p = 0 THEN q ELSE before[x][p]
      BY <1>8
    <3>2. after[x][p] = IF x = q /\ p = r THEN i ELSE IF x = i /\ p = 0 THEN q ELSE before[x][p]
      BY <1>9
    <3> QED BY <3>1, <3>2
  <2>3. \A x \in 0..n - 1 : new[x] = after[x]
    BY <1>7, <2>1, <2>2
  <2> QED BY <1>7, <2>1, <2>3
<1> QED BY <1>1, <1>2, <1>3, <1>10 DEF before, after, With

(* Plug finds the place of the next slave.                                   *)
LEMMA PlugIs ==
  ASSUME NEW n, NEW parent, NEW port, NEW path, Pathed(n, parent, port, path), Preorder(n, parent, port, path),
         NEW net, NetIs(net, n, parent, port), NEW i \in 1..n - 1
  PROVE  Plug(ActiveOf(net, n), Expected(net, n, parent, path, i - 1), i) = Expected(net, n, parent, path, i)
<1>1. PICK active : active = ActiveOf(net, n)
  OBVIOUS
<1>2. PICK t : t = TopologyTo(net, n, parent, i - 1)
  OBVIOUS
<1>3. PICK u : u = TopologyTo(net, n, parent, i)
  OBVIOUS
<1>4. PICK j \in 0..n - 1 : j = i - 1
  BY DEF Pathed, Tree
<1>5. PICK s \in Seq(Nat) : s = path[j]
  BY PathPlaces DEF Pathed
<1>6. PICK k \in 1..Len(s) : k = Parent(active, t, s) /\ s[k] = parent[i]
  BY <1>1, <1>2, <1>4, <1>5, ParentIs
<1>7. k # 0
  BY <1>6
<1>8. PICK q : q = parent[i] /\ q = s[k]
  BY <1>6
<1>9. PICK r : r = port[i] /\ r = Min(FreePorts(active, t, q) \cup {3})
  <2>1. Min(FreePorts(ActiveOf(net, n), TopologyTo(net, n, parent, i - 1), parent[i]) \cup {3}) = port[i]
    BY PortIs
  <2>2. Min(FreePorts(active, t, q) \cup {3}) = port[i]
    BY <1>1, <1>2, <1>8, <2>1
  <2> QED BY <2>2
<1>10. With(t, q, r, i) = u
  <2>1. With(TopologyTo(net, n, parent, i - 1), parent[i], port[i], i) = TopologyTo(net, n, parent, i)
    BY PlugTopology DEF Pathed
  <2> QED BY <1>2, <1>3, <1>8, <1>9, <2>1
<1>11. Append(SubSeq(s, 1, k), i) = path[i]
  <2>1. PlaceOf(path, n, parent, j, k)
    BY <1>5, <1>6, PathPlaces DEF Pathed
  <2>2. SubSeq(s, 1, k) = path[q]
    BY <1>5, <1>8, <2>1 DEF PlaceOf
  <2> QED BY <1>8, <2>2 DEF Pathed, Paths
<1>12. PICK b : b = [topology |-> t, stack |-> s, failed |-> FALSE]
  OBVIOUS
<1>13. b.topology = t /\ b.stack = s /\ ~b.failed
  BY <1>12
<1>14. Plug(active, b, i) = [topology |-> With(t, q, r, i), stack |-> Append(SubSeq(s, 1, k), i), failed |-> FALSE]
  BY <1>6, <1>7, <1>8, <1>9, <1>13 DEF Plug, With
<1>16. Expected(net, n, parent, path, i - 1) = b /\ Expected(net, n, parent, path, i) = [topology |-> u, stack |-> path[i], failed |-> FALSE]
  BY <1>2, <1>3, <1>4, <1>5, <1>12 DEF Expected
<1> QED BY <1>1, <1>10, <1>11, <1>14, <1>16

(* Topology builds the tree of the segment.                                  *)
LEMMA TopologyIs ==
  ASSUME NEW n, NEW parent, NEW port, NEW path, Pathed(n, parent, port, path), Preorder(n, parent, port, path),
         NEW net, NetIs(net, n, parent, port)
  PROVE  Topology(net) = Expected(net, n, parent, path, n - 1)
<1>1. n \in Nat \ {0} /\ net.n = n /\ SlavesOf(net) = 0..n - 1
  BY DEF Pathed, Tree, NetIs, SlavesOf
<1>2. PICK first : first = [topology |-> [[i \in SlavesOf(net) |-> [p \in Ports |-> Unplugged]] EXCEPT ![0][0] = 0],
                            stack |-> <<0>>, failed |-> FALSE]
  OBVIOUS
<1> DEFINE F(f) == [i \in 0..n - 1 |-> IF i = 0 THEN first ELSE Plug(ActiveOf(net, n), f[i - 1], i)]
           built == CHOOSE f : f = F(f)
           E == [i \in 0..n - 1 |-> Expected(net, n, parent, path, i)]
<1>3. Topology(net) = built[n - 1]
  BY <1>1, <1>2 DEF Topology, ActiveOf
<1>4. Expected(net, n, parent, path, 0) = first
  <2>1. path[0] = <<0>>
    BY DEF Pathed, Paths
  <2>2. TopologyTo(net, n, parent, 0) = [[i \in 0..n - 1 |-> [p \in Ports |-> Unplugged]] EXCEPT ![0][0] = 0]
    <3> DEFINE none == [i \in 0..n - 1 |-> [p \in Ports |-> Unplugged]]
               new == [none EXCEPT ![0][0] = 0]
               t == TopologyTo(net, n, parent, 0)
    <3>1. t = [i \in 0..n - 1 |-> t[i]] /\ \A i \in 0..n - 1 : t[i] = [p \in Ports |-> t[i][p]]
      BY DEF TopologyTo
    <3>2. new = [i \in 0..n - 1 |-> new[i]] /\ \A i \in 0..n - 1 : new[i] = [p \in Ports |-> new[i][p]]
      OBVIOUS
    <3>3. ASSUME NEW i \in 0..n - 1, NEW p \in Ports PROVE t[i][p] = IF i = 0 /\ p = 0 THEN 0 ELSE Unplugged
      <4>1. t[i][p] = Known(net, parent, 0, i, p)
        BY DEF TopologyTo
      <4>2. CASE p = 0
        BY <4>1, <4>2 DEF Known
      <4>3. CASE p # 0
        <5>1. p \in 1..3
          BY <4>3 DEF Ports
        <5>2. Child(net, i, p) = Unplugged \/ Child(net, i, p) \in 1..n - 1
          BY <5>1, ChildIs DEF Pathed
        <5> QED BY <4>1, <4>3, <5>2 DEF Known
      <4> QED BY <4>2, <4>3
    <3>4. 0 \in 0..n - 1 /\ 0 \in Ports
      BY <1>1 DEF Ports
    <3>5. ASSUME NEW i \in 0..n - 1, NEW p \in Ports PROVE new[i][p] = IF i = 0 /\ p = 0 THEN 0 ELSE Unplugged
      BY <3>4
    <3> HIDE DEF t, new
    <3>6. \A i \in 0..n - 1 : t[i] = new[i]
      BY <3>1, <3>2, <3>3, <3>5
    <3>7. t = new
      BY <3>1, <3>2, <3>6
    <3> QED BY <3>7 DEF t, new
  <2> QED BY <1>1, <1>2, <2>1, <2>2 DEF Expected
<1>5. E = F(E)
  <2>1. ASSUME NEW i \in 0..n - 1, i # 0 PROVE E[i] = Plug(ActiveOf(net, n), E[i - 1], i)
    <3>1. i \in 1..n - 1 /\ i - 1 \in 0..n - 1
      BY <1>1, <2>1
    <3>2. E[i] = Expected(net, n, parent, path, i) /\ E[i - 1] = Expected(net, n, parent, path, i - 1)
      BY <3>1
    <3> QED BY <3>1, <3>2, PlugIs
  <2>2. E[0] = first
    BY <1>1, <1>4
  <2>3. E = [i \in 0..n - 1 |-> E[i]]
    OBVIOUS
  <2> HIDE DEF E
  <2> QED BY <2>1, <2>2, <2>3
<1>6. built = F(built)
  <2> HIDE DEF E, F
  <2> QED BY <1>5
<1> HIDE DEF built
<1> DEFINE T == {i \in 0..n - 1 : built[i] = Expected(net, n, parent, path, i)}
<1>7. ASSUME NEW i \in 0..n - 1, \A l \in 0..n - 1 : l < i => l \in T PROVE i \in T
  <2>1. CASE i = 0
    <3>1. built[i] = first
      BY <1>6, <2>1
    <3> QED BY <1>4, <2>1, <3>1
  <2>2. CASE i # 0
    <3>1. built[i] = Plug(ActiveOf(net, n), built[i - 1], i)
      BY <1>6, <2>2
    <3>2. i - 1 \in 0..n - 1 /\ i - 1 < i /\ i \in 1..n - 1
      BY <1>1, <2>2
    <3>3. built[i - 1] = Expected(net, n, parent, path, i - 1)
      BY <1>7, <3>2
    <3> QED BY <3>1, <3>2, <3>3, PlugIs
  <2> QED BY <2>1, <2>2
<1> HIDE DEF T
<1>8. 0..n - 1 \subseteq T
  BY <1>1, <1>7, StrongInduction
<1>9. n - 1 \in 0..n - 1
  BY <1>1
<1> QED BY <1>3, <1>8, <1>9 DEF T

RowIs(net, n, row, i) ==
  /\ row[i][0] = 0 /\ row[i][1] = row[i][0] + Branch(net, row, i, 1)
  /\ row[i][2] = row[i][1] + Branch(net, row, i, 2) /\ row[i][3] = row[i][2] + Branch(net, row, i, 3)
Rows(net, n, row) == row \in [0..n - 1 -> [Ports -> Nat]] /\ \A i \in 0..n - 1 : RowIs(net, n, row, i)

(* Back is defined from the last slave to the first.                         *)
LEMMA RowsExist ==
  ASSUME NEW n, NEW parent, NEW port, Tree(n, parent, port), NEW net, NetIs(net, n, parent, port), net.link \in [0..n - 1 -> Nat]
  PROVE  \E row : Rows(net, n, row)
<1> DEFINE T == {m \in Nat : m <= n => \E row \in [0..n - 1 -> [Ports -> Nat]] : \A i \in 0..n - 1 : i >= n - m => RowIs(net, n, row, i)}
<1>1. n \in Nat \ {0}
  BY DEF Tree
<1>2. 0 \in T
  <2>1. [i \in 0..n - 1 |-> [p \in Ports |-> 0]] \in [0..n - 1 -> [Ports -> Nat]] /\ \A i \in 0..n - 1 : ~(i >= n - 0)
    BY <1>1
  <2> QED BY <2>1
<1>3. ASSUME NEW m \in Nat, m \in T PROVE m + 1 \in T
  <2> SUFFICES ASSUME m + 1 <= n
               PROVE  \E row \in [0..n - 1 -> [Ports -> Nat]] : \A i \in 0..n - 1 : i >= n - (m + 1) => RowIs(net, n, row, i)
    OBVIOUS
  <2>1. PICK row \in [0..n - 1 -> [Ports -> Nat]] : \A i \in 0..n - 1 : i >= n - m => RowIs(net, n, row, i)
    <3>1. m <= n
      BY <1>1
    <3> QED BY <1>3, <3>1
  <2>2. PICK k \in 0..n - 1 : k = n - (m + 1) /\ k + 1 = n - m
    BY <1>1
  <2>3. ASSUME NEW i \in 0..n - 1, NEW p \in 1..3
        PROVE  Child(net, i, p) # Unplugged => Child(net, i, p) \in 1..n - 1 /\ i < Child(net, i, p)
    <3>1. PICK c : c = Child(net, i, p)
      OBVIOUS
    <3>2. c = Unplugged \/ c \in 1..n - 1
      BY <3>1, ChildIs
    <3>3. c \in 1..n - 1 => parent[c] = i
      BY <3>1, ChildIs
    <3> QED BY <3>1, <3>2, <3>3 DEF Tree
  <2>4. ASSUME NEW i \in 0..n - 1, NEW p \in 1..3 PROVE Branch(net, row, i, p) \in Nat
    <3>1. PICK c : c = Child(net, i, p)
      OBVIOUS
    <3>2. CASE c = Unplugged
      BY <3>1, <3>2 DEF Branch
    <3>3. CASE c # Unplugged
      <4>1. c \in 0..n - 1 /\ 3 \in Ports
        BY <2>3, <3>1, <3>3 DEF Ports
      <4>2. net.link[c] \in Nat /\ row[c][3] \in Nat
        BY <4>1
      <4>3. Branch(net, row, i, p) = 2 * net.link[c] + row[c][3]
        BY <3>1, <3>3 DEF Branch
      <4> QED BY <4>2, <4>3
    <3> QED BY <3>2, <3>3
  <2>5. PICK a \in Nat, b \in Nat, d \in Nat : a = Branch(net, row, k, 1) /\ b = Branch(net, row, k, 2) /\ d = Branch(net, row, k, 3)
    BY <2>4
  <2>6. PICK r \in [Ports -> Nat] : r[0] = 0 /\ r[1] = a /\ r[2] = a + b /\ r[3] = a + b + d
    <3> DEFINE r == [p \in Ports |-> IF p = 0 THEN 0 ELSE IF p = 1 THEN a ELSE IF p = 2 THEN a + b ELSE a + b + d]
    <3>1. r \in [Ports -> Nat]
      OBVIOUS
    <3>2. r[0] = 0 /\ r[1] = a /\ r[2] = a + b /\ r[3] = a + b + d
      BY DEF Ports
    <3> HIDE DEF r
    <3> QED BY <3>1, <3>2
  <2>7. PICK new \in [0..n - 1 -> [Ports -> Nat]] : new[k] = r /\ \A i \in 0..n - 1 : i # k => new[i] = row[i]
    <3>1. [row EXCEPT ![k] = r] \in [0..n - 1 -> [Ports -> Nat]]
      OBVIOUS
    <3>2. [row EXCEPT ![k] = r][k] = r /\ \A i \in 0..n - 1 : i # k => [row EXCEPT ![k] = r][i] = row[i]
      OBVIOUS
    <3> QED BY <3>1, <3>2
  <2>8. ASSUME NEW i \in 0..n - 1, i >= k, NEW p \in 1..3 PROVE Branch(net, new, i, p) = Branch(net, row, i, p)
    <3>1. PICK c : c = Child(net, i, p)
      OBVIOUS
    <3>2. CASE c = Unplugged
      BY <3>1, <3>2 DEF Branch
    <3>3. CASE c # Unplugged
      <4>1. c \in 0..n - 1 /\ i < c
        BY <2>3, <3>1, <3>3
      <4>2. new[c] = row[c]
        BY <2>7, <2>8, <4>1
      <4> QED BY <3>1, <3>3, <4>2 DEF Branch
    <3> QED BY <3>2, <3>3
  <2>9. ASSUME NEW i \in 0..n - 1, i >= k PROVE RowIs(net, n, new, i)
    <3>1. Branch(net, new, i, 1) = Branch(net, row, i, 1) /\ Branch(net, new, i, 2) = Branch(net, row, i, 2)
          /\ Branch(net, new, i, 3) = Branch(net, row, i, 3)
      BY <2>8, <2>9
    <3>2. CASE i = k
      <4>1. Branch(net, new, i, 1) = a /\ Branch(net, new, i, 2) = b /\ Branch(net, new, i, 3) = d /\ new[i] = r
        BY <2>5, <2>7, <3>1, <3>2
      <4>2. r[1] = r[0] + a /\ r[2] = r[1] + b /\ r[3] = r[2] + d
        BY <2>6
      <4>3. r \in [Ports -> Nat] /\ r[0] = 0
        BY <2>6
      <4> QED BY <4>1, <4>2, <4>3 DEF RowIs
    <3>3. CASE i # k
      <4>1. RowIs(net, n, row, i) /\ new[i] = row[i]
        BY <1>1, <2>1, <2>2, <2>7, <2>9, <3>3
      <4> QED BY <3>1, <4>1 DEF RowIs
    <3> QED BY <3>2, <3>3
  <2> QED BY <2>2, <2>7, <2>9
<1> HIDE DEF T
<1>4. Nat \subseteq T
  BY <1>2, <1>3, Induction
<1>5. PICK row \in [0..n - 1 -> [Ports -> Nat]] : \A i \in 0..n - 1 : i >= n - n => RowIs(net, n, row, i)
  <2>1. n \in T /\ n <= n
    BY <1>1, <1>4
  <2> QED BY <2>1 DEF T
<1>6. \A i \in 0..n - 1 : i >= n - n
  BY <1>1
<1> QED BY <1>5, <1>6 DEF Rows

(* Back is what its definition says.                                         *)
LEMMA BackRows ==
  ASSUME NEW n, NEW parent, NEW port, Tree(n, parent, port), NEW net, NetIs(net, n, parent, port), net.link \in [0..n - 1 -> Nat]
  PROVE  Rows(net, n, Back(net))
<1> DEFINE Row(f, i) == [p \in Ports |-> (IF p >= 1 THEN Branch(net, f, i, 1) ELSE 0)
                                       + (IF p >= 2 THEN Branch(net, f, i, 2) ELSE 0)
                                       + (IF p >= 3 THEN Branch(net, f, i, 3) ELSE 0)]
           F(f) == [i \in 0..n - 1 |-> Row(f, i)]
           back == CHOOSE f : f = F(f)
<1>1. SlavesOf(net) = 0..n - 1
  BY DEF SlavesOf, NetIs
<1>2. Back(net) = back
  BY <1>1 DEF Back
<1> HIDE DEF Row
<1>3. PICK row : Rows(net, n, row)
  BY RowsExist
<1>4. ASSUME NEW i \in 0..n - 1, NEW p \in 1..3
      PROVE  Child(net, i, p) # Unplugged => Child(net, i, p) \in 0..n - 1 /\ i < Child(net, i, p)
  <2>1. PICK c : c = Child(net, i, p)
    OBVIOUS
  <2>2. c = Unplugged \/ c \in 1..n - 1
    BY <2>1, ChildIs
  <2>3. c \in 1..n - 1 => parent[c] = i
    BY <2>1, ChildIs
  <2> QED BY <2>1, <2>2, <2>3 DEF Tree
<1>5. ASSUME NEW f, NEW i \in 0..n - 1, \A c \in 0..n - 1 : i < c => f[c] \in [Ports -> Nat]
      PROVE  \A p \in 1..3 : Branch(net, f, i, p) \in Nat
  <2> SUFFICES ASSUME NEW p \in 1..3 PROVE Branch(net, f, i, p) \in Nat
    OBVIOUS
  <2>1. PICK c : c = Child(net, i, p)
    OBVIOUS
  <2>2. CASE c = Unplugged
    BY <2>1, <2>2 DEF Branch
  <2>3. CASE c # Unplugged
    <3>1. c \in 0..n - 1 /\ i < c /\ 3 \in Ports
      BY <1>4, <2>1, <2>3 DEF Ports
    <3>2. net.link[c] \in Nat /\ f[c][3] \in Nat
      BY <1>5, <3>1
    <3>3. Branch(net, f, i, p) = 2 * net.link[c] + f[c][3]
      BY <2>1, <2>3 DEF Branch
    <3> QED BY <3>2, <3>3
  <2> QED BY <2>2, <2>3
<1>6. ASSUME NEW f, NEW i \in 0..n - 1, \A p \in 1..3 : Branch(net, f, i, p) \in Nat
      PROVE  /\ Row(f, i) \in [Ports -> Nat]
             /\ Row(f, i)[0] = 0 /\ Row(f, i)[1] = Row(f, i)[0] + Branch(net, f, i, 1)
             /\ Row(f, i)[2] = Row(f, i)[1] + Branch(net, f, i, 2) /\ Row(f, i)[3] = Row(f, i)[2] + Branch(net, f, i, 3)
  <2>1. PICK a \in Nat, b \in Nat, d \in Nat : a = Branch(net, f, i, 1) /\ b = Branch(net, f, i, 2) /\ d = Branch(net, f, i, 3)
    BY <1>6
  <2>2. Row(f, i) = [p \in Ports |-> (IF p >= 1 THEN a ELSE 0) + (IF p >= 2 THEN b ELSE 0) + (IF p >= 3 THEN d ELSE 0)]
    BY <2>1 DEF Row
  <2>3. Row(f, i) \in [Ports -> Nat]
    BY <2>2 DEF Ports
  <2>4. Row(f, i)[0] = 0 /\ Row(f, i)[1] = a /\ Row(f, i)[2] = a + b /\ Row(f, i)[3] = a + b + d
    BY <2>2 DEF Ports
  <2>5. PICK r : r = Row(f, i)
    OBVIOUS
  <2>6. r[1] = r[0] + a /\ r[2] = r[1] + b /\ r[3] = r[2] + d
    BY <2>4, <2>5
  <2> QED BY <2>1, <2>3, <2>4, <2>5, <2>6
<1>7. row = F(row)
  <2>1. row \in [0..n - 1 -> [Ports -> Nat]]
    BY <1>3 DEF Rows
  <2>2. ASSUME NEW i \in 0..n - 1 PROVE row[i] = Row(row, i)
    <3>1. \A p \in 1..3 : Branch(net, row, i, p) \in Nat
      BY <1>5, <2>1
    <3>2. PICK r \in [Ports -> Nat] : r = row[i]
      BY <2>1
    <3>3. PICK s \in [Ports -> Nat] : s = Row(row, i)
      BY <1>6, <3>1
    <3>4. r[0] = s[0] /\ r[1] = s[1] /\ r[2] = s[2] /\ r[3] = s[3]
      <4>1. r[0] = 0 /\ r[1] = r[0] + Branch(net, row, i, 1) /\ r[2] = r[1] + Branch(net, row, i, 2) /\ r[3] = r[2] + Branch(net, row, i, 3)
        BY <1>3, <3>2 DEF Rows, RowIs
      <4>2. s[0] = 0 /\ s[1] = s[0] + Branch(net, row, i, 1) /\ s[2] = s[1] + Branch(net, row, i, 2) /\ s[3] = s[2] + Branch(net, row, i, 3)
        BY <1>6, <3>1, <3>3
      <4> QED BY <4>1, <4>2
    <3>5. \A p \in Ports : p = 0 \/ p = 1 \/ p = 2 \/ p = 3
      BY DEF Ports
    <3>6. \A p \in Ports : r[p] = s[p]
      BY <3>4, <3>5
    <3>7. r = s
      BY <3>6
    <3> QED BY <3>2, <3>3, <3>7
  <2> QED BY <2>1, <2>2
<1> HIDE DEF F
<1>8. back = F(back)
  BY <1>7
<1>9. back = [i \in 0..n - 1 |-> back[i]] /\ \A i \in 0..n - 1 : back[i] = Row(back, i)
  BY <1>8 DEF F
<1> HIDE DEF back
<1> DEFINE T == {m \in 0..n - 1 : back[n - 1 - m] \in [Ports -> Nat]}
<1>10. n \in Nat
  BY DEF Tree
<1>11. ASSUME NEW m \in 0..n - 1, \A l \in 0..n - 1 : l < m => l \in T PROVE m \in T
  <2>1. PICK i \in 0..n - 1 : i = n - 1 - m
    BY <1>10
  <2>2. ASSUME NEW c \in 0..n - 1, i < c PROVE back[c] \in [Ports -> Nat]
    <3>1. n - 1 - c \in 0..n - 1 /\ n - 1 - c < m /\ n - 1 - (n - 1 - c) = c
      BY <1>10, <2>1, <2>2
    <3> QED BY <1>11, <3>1
  <2>3. \A p \in 1..3 : Branch(net, back, i, p) \in Nat
    BY <1>5, <2>2
  <2>4. back[i] \in [Ports -> Nat]
    BY <1>6, <1>9, <2>3
  <2> QED BY <2>1, <2>4
<1> HIDE DEF T
<1>12. 0..n - 1 \subseteq T
  BY <1>10, <1>11, StrongInduction
<1>13. \A i \in 0..n - 1 : back[i] \in [Ports -> Nat]
  <2> SUFFICES ASSUME NEW i \in 0..n - 1 PROVE back[i] \in [Ports -> Nat]
    OBVIOUS
  <2>1. n - 1 - i \in 0..n - 1 /\ n - 1 - (n - 1 - i) = i
    BY <1>10
  <2> QED BY <1>12, <2>1 DEF T
<1>14. ASSUME NEW i \in 0..n - 1 PROVE RowIs(net, n, back, i)
  <2>1. \A p \in 1..3 : Branch(net, back, i, p) \in Nat
    BY <1>5, <1>13
  <2> QED BY <1>6, <1>9, <2>1 DEF RowIs
<1> QED BY <1>2, <1>9, <1>13, <1>14 DEF Rows

ArrivalIs(net, n, parent, port, arrival) ==
  /\ arrival \in [0..n - 1 -> Nat] /\ arrival[0] = net.link[0]
  /\ \A i \in 1..n - 1 : arrival[i] = arrival[parent[i]] + Back(net)[parent[i]][port[i] - 1] + net.link[i]

LEMMA ArrivalExists ==
  ASSUME NEW n, NEW parent, NEW port, Tree(n, parent, port), NEW net, NetIs(net, n, parent, port), net.link \in [0..n - 1 -> Nat]
  PROVE  \E arrival : ArrivalIs(net, n, parent, port, arrival)
<1>1. PICK m \in Nat : m = n - 1
  BY DEF Tree
<1>2. parent \in [1..m -> Nat] /\ \A i \in 1..m : parent[i] < i
  BY <1>1 DEF Tree
<1>3. PICK base \in Nat : base = net.link[0]
  BY <1>1
<1> DEFINE wait == [i \in 1..m |-> Back(net)[parent[i]][port[i] - 1] + net.link[i]]
           step == [i \in 1..m |-> [a \in Nat |-> a + wait[i]]]
<1>4. \A i \in 1..m : wait[i] \in Nat
  <2> SUFFICES ASSUME NEW i \in 1..m PROVE wait[i] \in Nat
    OBVIOUS
  <2>1. PICK q \in 0..n - 1 : q = parent[i]
    BY <1>1, <1>2
  <2>2. PICK p \in Ports : p = port[i] - 1
    BY <1>1 DEF Tree, Ports
  <2>3. Back(net)[q][p] \in Nat
    <3>1. Rows(net, n, Back(net))
      BY BackRows
    <3> QED BY <3>1 DEF Rows
  <2>4. net.link[i] \in Nat
    BY <1>1
  <2> QED BY <2>1, <2>2, <2>3, <2>4
<1> HIDE DEF wait
<1>5. step \in [1..m -> [Nat -> Nat]]
  BY <1>4
<1> HIDE DEF step
<1>6. PICK g : Upward(g, m, parent, Nat, base, step)
  BY <1>2, <1>5, UpwardExists
<1>7. g \in [0..n - 1 -> Nat] /\ g[0] = net.link[0]
  BY <1>1, <1>3, <1>6 DEF Upward
<1>8. ASSUME NEW i \in 1..n - 1 PROVE g[i] = g[parent[i]] + Back(net)[parent[i]][port[i] - 1] + net.link[i]
  <2>1. PICK q \in 0..n - 1 : q = parent[i]
    BY <1>1, <1>2
  <2>2. PICK p \in Ports : p = port[i] - 1
    BY DEF Tree, Ports
  <2>3. PICK b \in Nat : b = Back(net)[q][p]
    <3>1. Rows(net, n, Back(net))
      BY BackRows
    <3> QED BY <3>1 DEF Rows
  <2>4. PICK l \in Nat : l = net.link[i]
    <3>1. i \in 0..n - 1
      BY <1>1
    <3> QED BY <3>1
  <2>5. PICK a \in Nat : a = g[q]
    BY <1>7
  <2>6. i \in 1..m
    BY <1>1
  <2>7. wait[i] = b + l
    BY <2>1, <2>2, <2>3, <2>4, <2>6 DEF wait
  <2>8. g[i] = step[i][a]
    BY <1>6, <2>1, <2>5, <2>6 DEF Upward
  <2>9. step[i][a] = a + wait[i]
    BY <2>6 DEF step
  <2>10. g[i] = a + b + l
    BY <2>7, <2>8, <2>9
  <2> QED BY <2>1, <2>2, <2>3, <2>4, <2>5, <2>10
<1> QED BY <1>7, <1>8 DEF ArrivalIs

(* Arrival is what its definition says.                                      *)
LEMMA ArrivalHolds ==
  ASSUME NEW n, NEW parent, NEW port, Tree(n, parent, port), NEW net, NetIs(net, n, parent, port), net.link \in [0..n - 1 -> Nat]
  PROVE  ArrivalIs(net, n, parent, port, Arrival(net))
<1>1. PICK wait : wait = [i \in 0..n - 1 |-> Back(net)[net.parent[i]][net.port[i] - 1]]
  OBVIOUS
<1> DEFINE F(f) == [i \in 0..n - 1 |-> IF i = 0 THEN net.link[0] ELSE f[net.parent[i]] + Back(net)[net.parent[i]][net.port[i] - 1] + net.link[i]]
           arrival == CHOOSE f : f = F(f)
<1>2. SlavesOf(net) = 0..n - 1 /\ net.parent = parent /\ net.port = port /\ n \in Nat \ {0}
  BY DEF SlavesOf, NetIs, Tree
<1>3. Arrival(net) = arrival
  BY <1>2 DEF Arrival
<1>4. PICK E : ArrivalIs(net, n, parent, port, E)
  BY ArrivalExists
<1>5. E = F(E)
  <2>1. ASSUME NEW i \in 0..n - 1
        PROVE E[i] = IF i = 0 THEN net.link[0] ELSE E[net.parent[i]] + Back(net)[net.parent[i]][net.port[i] - 1] + net.link[i]
    <3>1. i # 0 => i \in 1..n - 1
      BY <1>2
    <3> QED BY <1>2, <1>4, <3>1 DEF ArrivalIs
  <2>2. E = [i \in 0..n - 1 |-> E[i]]
    BY <1>4 DEF ArrivalIs
  <2> QED BY <2>1, <2>2
<1> HIDE DEF F
<1>6. arrival = F(arrival)
  BY <1>5
<1>7. \A i \in 0..n - 1 : arrival[i] = IF i = 0 THEN net.link[0]
                          ELSE arrival[parent[i]] + Back(net)[parent[i]][port[i] - 1] + net.link[i]
  BY <1>2, <1>6 DEF F
<1>8. arrival = [i \in 0..n - 1 |-> arrival[i]]
  BY <1>6 DEF F
<1> HIDE DEF arrival
<1> DEFINE T == {i \in 0..n - 1 : arrival[i] = E[i]}
<1>9. ASSUME NEW i \in 0..n - 1, \A j \in 0..n - 1 : j < i => j \in T PROVE i \in T
  <2>1. CASE i = 0
    BY <1>4, <1>7, <2>1 DEF ArrivalIs
  <2>2. CASE i # 0
    <3>1. i \in 1..n - 1
      BY <1>2, <2>2
    <3>2. PICK q \in 0..n - 1 : q = parent[i] /\ q < i
      BY <3>1 DEF Tree
    <3>3. arrival[q] = E[q]
      BY <1>9, <3>2
    <3>4. arrival[i] = arrival[parent[i]] + Back(net)[parent[i]][port[i] - 1] + net.link[i]
      BY <1>7, <2>2
    <3>5. E[i] = E[parent[i]] + Back(net)[parent[i]][port[i] - 1] + net.link[i]
      BY <1>4, <3>1 DEF ArrivalIs
    <3>6. arrival[parent[i]] = E[parent[i]]
      BY <3>2, <3>3
    <3> QED BY <3>4, <3>5, <3>6
  <2> QED BY <2>1, <2>2
<1> HIDE DEF T
<1>10. 0..n - 1 \subseteq T
  BY <1>2, <1>9, StrongInduction
<1>11. arrival = E
  <2>1. \A i \in 0..n - 1 : arrival[i] = E[i]
    BY <1>10 DEF T
  <2>2. E = [i \in 0..n - 1 |-> E[i]]
    BY <1>4 DEF ArrivalIs
  <2> QED BY <1>8, <2>1, <2>2
<1> QED BY <1>3, <1>4, <1>11

(* The time at which a frame has left the branches of a slave.               *)
Left(net, i) == Arrival(net)[i] + Back(net)[i][3]

(* What the branch of c adds to the time of q, its parent.                   *)
Joined(net, port, q, c) == Back(net)[q][port[c]] = Back(net)[q][port[c] - 1] + 2 * net.link[c] + Back(net)[c][3]

(* Time goes on from port to port.                                           *)
LEMMA RowGrows ==
  ASSUME NEW n, NEW parent, NEW port, Tree(n, parent, port), NEW net, NetIs(net, n, parent, port), net.link \in [0..n - 1 -> Nat],
         NEW i \in 0..n - 1
  PROVE  /\ \A p \in Ports : Back(net)[i][p] \in Nat
         /\ Back(net)[i][0] <= Back(net)[i][1] /\ Back(net)[i][1] <= Back(net)[i][2] /\ Back(net)[i][2] <= Back(net)[i][3]
         /\ \A c \in 1..n - 1 : parent[c] = i => Joined(net, port, i, c)
         /\ \A p \in 1..3 : Child(net, i, p) = Unplugged => Back(net)[i][p] = Back(net)[i][p - 1]
<1>1. Rows(net, n, Back(net))
  BY BackRows
<1>2. PICK r \in [Ports -> Nat] : r = Back(net)[i]
  BY <1>1 DEF Rows
<1>3. \A p \in Ports : r[p] \in Nat
  OBVIOUS
<1>4. ASSUME NEW p \in 1..3 PROVE r[p] = r[p - 1] + Branch(net, Back(net), i, p)
  <2>1. p = 1 \/ p = 2 \/ p = 3
    OBVIOUS
  <2> QED BY <1>1, <1>2, <2>1 DEF Rows, RowIs
<1>5. ASSUME NEW p \in 1..3, Child(net, i, p) = Unplugged PROVE Branch(net, Back(net), i, p) = 0
  BY <1>5 DEF Branch
<1>6. ASSUME NEW c \in 1..n - 1, parent[c] = i PROVE Branch(net, Back(net), i, port[c]) = 2 * net.link[c] + Back(net)[c][3]
  <2>1. PICK p \in 1..3 : p = port[c]
    BY DEF Tree
  <2>2. Child(net, i, p) = c
    BY <1>6, <2>1, ChildIs
  <2>3. c # Unplugged
    BY ClockAssumption
  <2> QED BY <2>1, <2>2, <2>3 DEF Branch
<1>7. ASSUME NEW p \in 1..3 PROVE Branch(net, Back(net), i, p) \in Nat
  <2>1. PICK d : d = Child(net, i, p)
    OBVIOUS
  <2>2. d = Unplugged \/ (d \in 1..n - 1 /\ parent[d] = i /\ port[d] = p)
    BY <2>1, ChildIs
  <2>3. CASE d = Unplugged
    <3>1. Branch(net, Back(net), i, p) = 0
      BY <1>5, <2>1, <2>3
    <3> QED BY <3>1
  <2>4. CASE d \in 1..n - 1 /\ parent[d] = i /\ port[d] = p
    <3>1. Branch(net, Back(net), i, p) = 2 * net.link[d] + Back(net)[d][3]
      BY <1>6, <2>4
    <3>2. d \in 0..n - 1 /\ 3 \in Ports
      BY <2>4 DEF Ports
    <3>3. net.link[d] \in Nat /\ Back(net)[d][3] \in Nat
      BY <1>1, <3>2 DEF Rows
    <3> QED BY <3>1, <3>3
  <2> QED BY <2>2, <2>3, <2>4
<1>8. 0 \in Ports /\ 1 \in Ports /\ 2 \in Ports /\ 3 \in Ports /\ \A p \in 1..3 : p - 1 \in Ports
  BY DEF Ports
<1>9. r[0] <= r[1] /\ r[1] <= r[2] /\ r[2] <= r[3]
  <2>1. r[1] = r[0] + Branch(net, Back(net), i, 1) /\ r[2] = r[1] + Branch(net, Back(net), i, 2) /\ r[3] = r[2] + Branch(net, Back(net), i, 3)
    <3>1. 1 \in 1..3 /\ 2 \in 1..3 /\ 3 \in 1..3 /\ 1 - 1 = 0 /\ 2 - 1 = 1 /\ 3 - 1 = 2
      OBVIOUS
    <3> QED BY <1>4, <3>1
  <2>2. Branch(net, Back(net), i, 1) \in Nat /\ Branch(net, Back(net), i, 2) \in Nat /\ Branch(net, Back(net), i, 3) \in Nat
    BY <1>7
  <2> QED BY <1>3, <1>8, <2>1, <2>2
<1>10. ASSUME NEW c \in 1..n - 1, parent[c] = i PROVE r[port[c]] = r[port[c] - 1] + 2 * net.link[c] + Back(net)[c][3]
  <2>1. PICK p \in 1..3 : p = port[c]
    BY DEF Tree
  <2>2. r[p] = r[p - 1] + Branch(net, Back(net), i, p)
    BY <1>4
  <2>3. Branch(net, Back(net), i, p) = 2 * net.link[c] + Back(net)[c][3]
    BY <1>6, <1>10, <2>1
  <2>4. c \in 0..n - 1
    OBVIOUS
  <2>5. net.link[c] \in Nat /\ Back(net)[c][3] \in Nat /\ r[p - 1] \in Nat
    BY <1>1, <1>8, <2>4 DEF Rows
  <2>6. PICK u \in Nat, v \in Nat, w \in Nat : u = r[p - 1] /\ v = net.link[c] /\ w = Back(net)[c][3]
    BY <2>5
  <2>7. r[p] = u + (2 * v + w)
    BY <2>2, <2>3, <2>6
  <2>8. u + (2 * v + w) = u + 2 * v + w
    OBVIOUS
  <2>9. r[port[c]] = r[p] /\ r[port[c] - 1] = u
    BY <2>1, <2>6
  <2> QED BY <2>6, <2>7, <2>8, <2>9
<1>11. ASSUME NEW p \in 1..3, Child(net, i, p) = Unplugged PROVE r[p] = r[p - 1]
  BY <1>4, <1>5, <1>8, <1>11
<1>12. ASSUME NEW c \in 1..n - 1, parent[c] = i PROVE Joined(net, port, i, c)
  BY <1>2, <1>10, <1>12 DEF Joined
<1> QED BY <1>2, <1>3, <1>9, <1>11, <1>12

(* Frames reach the slaves in the order of their numbers.                    *)
Ordered(net, n) == \A i \in 1..n - 1 : Arrival(net)[i - 1] < Arrival(net)[i]

(* A child has its time between the arrivals and the returns of its parent.  *)
LEMMA LeftUp ==
  ASSUME NEW n, NEW parent, NEW port, Tree(n, parent, port), NEW net, NetIs(net, n, parent, port), net.link \in [0..n - 1 -> Nat],
         NEW c \in 1..n - 1, NEW q \in 0..n - 1, q = parent[c]
  PROVE  /\ Left(net, c) \in Nat /\ Left(net, q) \in Nat /\ Left(net, c) + net.link[c] <= Left(net, q)
         /\ Left(net, c) + net.link[c] = Arrival(net)[q] + Back(net)[q][port[c]]
<1>1. ArrivalIs(net, n, parent, port, Arrival(net))
  BY ArrivalHolds
<1>2. PICK p \in 1..3 : p = port[c]
  BY DEF Tree
<1>3. c \in 0..n - 1 /\ 3 \in Ports /\ p \in Ports /\ p - 1 \in Ports /\ (p = 1 \/ p = 2 \/ p = 3)
  BY DEF Ports
<1>4. PICK a \in Nat, t \in Nat : a = Arrival(net)[q] /\ t = Arrival(net)[c]
  BY <1>1, <1>3 DEF ArrivalIs
<1>5. PICK l \in Nat : l = net.link[c]
  BY <1>3
<1>6. PICK r : r = Back(net)[q] /\ (\A x \in Ports : r[x] \in Nat) /\ r[0] <= r[1] /\ r[1] <= r[2] /\ r[2] <= r[3]
               /\ r[p] = r[p - 1] + 2 * l + Back(net)[c][3]
  <2>1. Joined(net, port, q, c)
    BY RowGrows
  <2>2. (\A x \in Ports : Back(net)[q][x] \in Nat) /\ Back(net)[q][0] <= Back(net)[q][1] /\ Back(net)[q][1] <= Back(net)[q][2]
        /\ Back(net)[q][2] <= Back(net)[q][3]
    BY RowGrows
  <2> QED BY <1>2, <1>5, <2>1, <2>2 DEF Joined
<1>7. PICK s \in Nat : s = Back(net)[c][3]
  BY <1>3, RowGrows
<1>8. t = a + r[p - 1] + l
  BY <1>1, <1>2, <1>4, <1>5, <1>6 DEF ArrivalIs
<1>9. r[p] <= r[3] /\ r[p] \in Nat /\ r[p - 1] \in Nat /\ r[3] \in Nat
  <2>1. r[1] \in Nat /\ r[2] \in Nat /\ r[3] \in Nat /\ r[p - 1] \in Nat
    BY <1>3, <1>6 DEF Ports
  <2> QED BY <1>3, <1>6, <2>1
<1>10. Left(net, c) = t + s /\ Left(net, q) = a + r[3]
  BY <1>4, <1>6, <1>7 DEF Left
<1>11. t + s + l = a + r[p]
  <2>1. PICK u \in Nat, v \in Nat : u = r[p] /\ v = r[p - 1]
    BY <1>9
  <2>2. t = a + v + l /\ u = v + 2 * l + s
    BY <1>6, <1>7, <1>8, <2>1
  <2>3. t + s + l = a + u
    BY <2>2
  <2> QED BY <2>1, <2>3
<1>12. t + s \in Nat /\ a + r[3] \in Nat /\ t + s + l <= a + r[3]
  BY <1>9, <1>11
<1>13. Left(net, c) + net.link[c] = t + s + l /\ Arrival(net)[q] + Back(net)[q][port[c]] = a + r[p]
  BY <1>2, <1>4, <1>5, <1>6, <1>10
<1> QED BY <1>5, <1>10, <1>11, <1>12, <1>13

(* A frame leaves the branches of a slave before those of the slaves above.  *)
LEMMA LeftOn ==
  ASSUME NEW n, NEW parent, NEW port, NEW path, Pathed(n, parent, port, path), NEW net, NetIs(net, n, parent, port),
         net.link \in [0..n - 1 -> Nat]
  PROVE  \A y \in 0..n - 1 : \A x \in 0..n - 1 : On(path, x, y) => Left(net, y) <= Left(net, x)
<1>1. n \in Nat \ {0}
  BY DEF Pathed, Tree
<1>2. \A y \in 0..n - 1 : Left(net, y) \in Nat
  <2> SUFFICES ASSUME NEW y \in 0..n - 1 PROVE Left(net, y) \in Nat
    OBVIOUS
  <2>1. Arrival(net)[y] \in Nat
    <3>1. ArrivalIs(net, n, parent, port, Arrival(net))
      BY ArrivalHolds DEF Pathed
    <3> QED BY <3>1 DEF ArrivalIs
  <2>2. Back(net)[y][3] \in Nat
    <3>1. 3 \in Ports
      BY DEF Ports
    <3> QED BY <3>1, RowGrows DEF Pathed
  <2> QED BY <2>1, <2>2 DEF Left
<1> DEFINE T == {y \in 0..n - 1 : \A x \in 0..n - 1 : On(path, x, y) => Left(net, y) <= Left(net, x)}
<1>3. ASSUME NEW y \in 0..n - 1, \A w \in 0..n - 1 : w < y => w \in T PROVE y \in T
  <2> SUFFICES ASSUME NEW x \in 0..n - 1, On(path, x, y), x # y PROVE Left(net, y) <= Left(net, x)
    BY <1>2
  <2>1. CASE y = 0
    BY <2>1, OnFirst DEF Pathed
  <2>2. CASE y # 0
    <3>1. y \in 1..n - 1
      BY <1>1, <2>2
    <3>2. PICK q \in 0..n - 1 : q = parent[y] /\ q < y
      BY <3>1, PathOf DEF Pathed
    <3>3. On(path, x, q)
      BY <3>1, <3>2, OnStep DEF Pathed
    <3>4. Left(net, q) <= Left(net, x)
      BY <1>3, <3>2, <3>3
    <3>5. Left(net, y) + net.link[y] <= Left(net, q) /\ net.link[y] \in Nat
      BY <3>1, <3>2, LeftUp DEF Pathed
    <3> QED BY <1>2, <3>4, <3>5
  <2> QED BY <2>1, <2>2
<1> HIDE DEF T
<1>4. 0..n - 1 \subseteq T
  BY <1>1, <1>3, StrongInduction
<1> QED BY <1>4 DEF T

LEMMA ArrivalGrows ==
  ASSUME NEW n, NEW parent, NEW port, Tree(n, parent, port), NEW net, NetIs(net, n, parent, port), net.link \in [0..n - 1 -> Nat],
         Ordered(net, n)
  PROVE  \A j \in 0..n - 1 : \A i \in 0..n - 1 : i <= j => Arrival(net)[i] <= Arrival(net)[j]
<1>1. n \in Nat \ {0}
  BY DEF Tree
<1>2. \A i \in 0..n - 1 : Arrival(net)[i] \in Nat
  <2>1. ArrivalIs(net, n, parent, port, Arrival(net))
    BY ArrivalHolds
  <2> QED BY <2>1 DEF ArrivalIs
<1> DEFINE T == {j \in 0..n - 1 : \A i \in 0..n - 1 : i <= j => Arrival(net)[i] <= Arrival(net)[j]}
<1>3. ASSUME NEW j \in 0..n - 1, \A w \in 0..n - 1 : w < j => w \in T PROVE j \in T
  <2> SUFFICES ASSUME NEW i \in 0..n - 1, i < j PROVE Arrival(net)[i] <= Arrival(net)[j]
    BY <1>2
  <2>1. PICK w \in 0..n - 1 : w = j - 1 /\ w < j /\ i <= w
    BY <1>1
  <2>2. Arrival(net)[i] <= Arrival(net)[w]
    BY <1>3, <2>1
  <2>3. Arrival(net)[w] < Arrival(net)[j]
    <3>1. j \in 1..n - 1
      BY <1>1
    <3>2. Arrival(net)[j - 1] < Arrival(net)[j]
      BY <3>1 DEF Ordered
    <3> QED BY <2>1, <3>2
  <2> QED BY <1>2, <2>2, <2>3
<1> HIDE DEF T
<1>4. 0..n - 1 \subseteq T
  BY <1>1, <1>3, StrongInduction
<1> QED BY <1>4 DEF T

(* Slaves numbered by arrival are numbered branch after branch.              *)
LEMMA OrderedIsPreorder ==
  ASSUME NEW n, NEW parent, NEW port, NEW path, Pathed(n, parent, port, path), NEW net, NetIs(net, n, parent, port),
         net.link \in [0..n - 1 -> Nat], \A i \in 0..n - 1 : net.link[i] = 1, Ordered(net, n)
  PROVE  Preorder(n, parent, port, path)
<1> SUFFICES ASSUME NEW c \in 1..n - 1, NEW d \in 1..n - 1, parent[c] = parent[d], port[c] < port[d],
                    NEW e \in 0..n - 1, On(path, c, e), d <= e
             PROVE  FALSE
  <2>1. n \in Nat
    BY DEF Pathed, Tree
  <2> QED BY <2>1 DEF Preorder
<1>1. Tree(n, parent, port) /\ net.link \in [0..n - 1 -> Nat]
  BY DEF Pathed
<1>2. PICK q \in 0..n - 1 : q = parent[c] /\ q = parent[d]
  BY PathOf DEF Pathed
<1>3. c \in 0..n - 1 /\ d \in 0..n - 1 /\ net.link[c] = 1 /\ net.link[d] = 1
  OBVIOUS
<1>4. \A i \in 0..n - 1 : Arrival(net)[i] \in Nat
  <2>1. ArrivalIs(net, n, parent, port, Arrival(net))
    BY <1>1, ArrivalHolds
  <2> QED BY <2>1 DEF ArrivalIs
<1>5. Arrival(net)[d] <= Arrival(net)[e]
  BY <1>1, <1>3, ArrivalGrows
<1>6. Left(net, e) <= Left(net, c)
  BY <1>1, <1>3, LeftOn
<1>7. Left(net, e) = Arrival(net)[e] + Back(net)[e][3] /\ Back(net)[e][3] \in Nat
  <2>1. 3 \in Ports
    BY DEF Ports
  <2> QED BY <1>1, <2>1, RowGrows DEF Left
<1>8. Left(net, c) \in Nat /\ Left(net, c) + 1 = Arrival(net)[q] + Back(net)[q][port[c]]
  <2>1. Left(net, c) \in Nat /\ Left(net, c) + net.link[c] = Arrival(net)[q] + Back(net)[q][port[c]]
    BY <1>1, <1>2, LeftUp
  <2> QED BY <1>3, <2>1
<1>9. Arrival(net)[d] = Arrival(net)[q] + Back(net)[q][port[d] - 1] + 1
  <2>1. ArrivalIs(net, n, parent, port, Arrival(net))
    BY <1>1, ArrivalHolds
  <2> QED BY <1>2, <1>3, <2>1 DEF ArrivalIs
<1>10. Back(net)[q][port[c]] <= Back(net)[q][port[d] - 1] /\ Back(net)[q][port[c]] \in Nat /\ Back(net)[q][port[d] - 1] \in Nat
  <2>1. PICK x \in 1..3, y \in 1..3 : x = port[c] /\ y = port[d] /\ x < y
    BY DEF Pathed, Tree
  <2>2. (x = 1 /\ y - 1 = 1) \/ (x = 1 /\ y - 1 = 2) \/ (x = 2 /\ y - 1 = 2)
    BY <2>1
  <2>3. Back(net)[q][1] <= Back(net)[q][2] /\ \A p \in Ports : Back(net)[q][p] \in Nat
    BY <1>1, RowGrows
  <2>4. 1 \in Ports /\ 2 \in Ports
    BY DEF Ports
  <2>5. PICK u \in Nat, v \in Nat : u = Back(net)[q][1] /\ v = Back(net)[q][2] /\ u <= v
    BY <2>3, <2>4
  <2>6. PICK f : f = Back(net)[q]
    OBVIOUS
  <2>7. f[x] <= f[y - 1] /\ f[x] \in Nat /\ f[y - 1] \in Nat
    BY <2>2, <2>5, <2>6
  <2> QED BY <2>1, <2>6, <2>7
<1>11. PICK aq \in Nat, ad \in Nat, ae \in Nat : aq = Arrival(net)[q] /\ ad = Arrival(net)[d] /\ ae = Arrival(net)[e]
  BY <1>3, <1>4
<1>12. PICK b \in Nat, x \in Nat, y \in Nat : b = Back(net)[e][3] /\ x = Back(net)[q][port[c]] /\ y = Back(net)[q][port[d] - 1]
  BY <1>7, <1>10
<1>13. PICK z \in Nat : z = Left(net, c)
  BY <1>8
<1>14. ad <= ae /\ ae + b <= z /\ z + 1 = aq + x /\ ad = aq + y + 1 /\ x <= y
  BY <1>5, <1>6, <1>7, <1>8, <1>9, <1>10, <1>11, <1>12, <1>13
<1> QED BY <1>14

(* What a segment is.                                                        *)
SegmentIs(net, n, parent, port, path, links, clocks, dcs) ==
  /\ Pathed(n, parent, port, path) /\ Preorder(n, parent, port, path) /\ NetIs(net, n, parent, port)
  /\ net.link \in [0..n - 1 -> links] /\ net.clock \in [0..n - 1 -> clocks] /\ net.dc \in dcs[n]

(* Any segment is a tree numbered branch after branch.                       *)
LEMMA SegmentOf ==
  ASSUME NEW n \in Nat \ {0}, NEW links, NEW clocks, NEW dcs, NEW net \in Segments(n, links, clocks, dcs)
  PROVE  \E parent, port, path : SegmentIs(net, n, parent, port, path, links, clocks, dcs)
<1>1. PICK t \in Trees(n), link \in [0..n - 1 -> links], times \in [0..n - 1 -> clocks], dc \in dcs[n] :
        net = Equip(t, link, times, dc)
  BY DEF Segments
<1>2. /\ t.n = n /\ t.parent \in [1..n - 1 -> 0..n - 2] /\ t.port \in [1..n - 1 -> Ports \ {0}] /\ t.link = [i \in 0..n - 1 |-> 1]
      /\ \A i \in 1..n - 1 : t.parent[i] < i
      /\ \A i, j \in 1..n - 1 : i # j => t.parent[i] # t.parent[j] \/ t.port[i] # t.port[j]
      /\ \A i \in 1..n - 1 : Arrival(t)[i - 1] < Arrival(t)[i]
  BY DEF Trees
<1>3. net.n = t.n /\ net.parent = t.parent /\ net.port = t.port /\ net.link = link /\ net.clock = times /\ net.dc = dc
  BY <1>1 DEF Trees, Equip
<1>4. PICK parent, port : parent = t.parent /\ port = t.port
  OBVIOUS
<1>5. Tree(n, parent, port)
  <2>1. parent \in [1..n - 1 -> Nat] /\ port \in [1..n - 1 -> 1..3]
    <3>1. Ports \ {0} = 1..3 /\ 0..n - 2 \subseteq Nat
      BY DEF Ports
    <3> QED BY <1>2, <1>4, <3>1
  <2>2. \A i, j \in 1..n - 1 : parent[i] = parent[j] /\ port[i] = port[j] => i = j
    BY <1>2, <1>4
  <2> QED BY <1>2, <1>4, <2>1, <2>2 DEF Tree
<1>6. PICK path : Paths(path, n, parent)
  BY <1>5, PathsExist
<1>7. Pathed(n, parent, port, path)
  BY <1>5, <1>6 DEF Pathed
<1>8. NetIs(t, n, parent, port) /\ NetIs(net, n, parent, port)
  BY <1>2, <1>3, <1>4 DEF NetIs
<1>9. Ordered(t, n)
  BY <1>2 DEF Ordered
<1>10. Preorder(n, parent, port, path)
  <2>1. t.link \in [0..n - 1 -> Nat] /\ \A i \in 0..n - 1 : t.link[i] = 1
    BY <1>2
  <2> QED BY <1>7, <1>8, <1>9, <2>1, OrderedIsPreorder
<1> QED BY <1>3, <1>7, <1>8, <1>10 DEF SegmentIs

(* The ports of slaves tell the tree, whatever the segment (init_topology).  *)
THEOREM TopologyHolds == TopologyRebuilt
<1> SUFFICES ASSUME NEW n \in 1..MaxSlaves, NEW net \in Segments(n, {1}, {0}, AllDc)
             PROVE  /\ ~Topology(net).failed
                    /\ \A i \in SlavesOf(net), p \in Ports \ {0} : Topology(net).topology[i][p] = Child(net, i, p)
  BY DEF TopologyRebuilt
<1>1. n \in Nat \ {0}
  BY ClockAssumption
<1>2. PICK parent, port, path : SegmentIs(net, n, parent, port, path, {1}, {0}, AllDc)
  BY <1>1, SegmentOf
<1>3. Pathed(n, parent, port, path) /\ Preorder(n, parent, port, path) /\ NetIs(net, n, parent, port) /\ Tree(n, parent, port)
  BY <1>2 DEF SegmentIs, Pathed
<1>4. Topology(net) = Expected(net, n, parent, path, n - 1)
  BY <1>3, TopologyIs
<1>5. ~Topology(net).failed /\ Topology(net).topology = TopologyTo(net, n, parent, n - 1)
  BY <1>4 DEF Expected
<1>6. SlavesOf(net) = 0..n - 1 /\ Ports \ {0} = 1..3
  BY <1>3 DEF SlavesOf, NetIs, Ports
<1>7. ASSUME NEW i \in 0..n - 1, NEW p \in 1..3 PROVE Topology(net).topology[i][p] = Child(net, i, p)
  <2>1. PICK c : c = Child(net, i, p)
    OBVIOUS
  <2>2. c = Unplugged \/ c \in 1..n - 1
    BY <1>3, <2>1, ChildIs
  <2>3. p \in Ports /\ p # 0
    BY DEF Ports
  <2>4. Topology(net).topology[i][p] = Known(net, parent, n - 1, i, p)
    BY <1>5, <2>3 DEF TopologyTo
  <2>5. Known(net, parent, n - 1, i, p) = IF c # Unplugged /\ c <= n - 1 THEN c ELSE Unplugged
    BY <2>1, <2>3 DEF Known
  <2> QED BY <2>1, <2>2, <2>4, <2>5
<1> QED BY <1>5, <1>6, <1>7

-----------------------------------------------------------------------------
(* Delays                                                                    *)

LEMMA ModIs ==
  ASSUME NEW W \in Nat \ {0}, NEW a \in Int, NEW k \in Int, NEW r \in 0..W - 1, a = W * k + r
  PROVE  a % W = r
<1>1. PICK q \in Int, s \in 0..W - 1 : a = W * q + s /\ s = a % W
  <2>1. a = W * (a \div W) + (a % W) /\ a \div W \in Int /\ a % W \in 0..W - 1
    OBVIOUS
  <2> QED BY <2>1
<1>2. PICK d \in Int : d = q - k
  OBVIOUS
<1>3. W * d = r - s
  <2>1. W * d = W * q - W * k
    BY <1>2
  <2>2. PICK u \in Int, v \in Int, w \in Int : u = W * q /\ v = W * k /\ w = W * d
    OBVIOUS
  <2>3. a = u + s /\ a = v + r /\ w = u - v
    BY <1>1, <2>1, <2>2
  <2>4. w = r - s
    BY <2>3
  <2> QED BY <2>2, <2>4
<1>4. CASE d = 0
  <2>1. W * d = 0
    BY <1>4
  <2>2. r - s = 0
    BY <1>3, <2>1
  <2>3. r = s
    BY <2>2
  <2> QED BY <1>1, <2>3
<1>5. CASE d >= 1
  <2>1. W * d >= W
    BY <1>5
  <2> QED BY <1>3, <2>1
<1>6. CASE d <= -1
  <2>1. W * d <= -W
    BY <1>6
  <2> QED BY <1>3, <2>1
<1> QED BY <1>4, <1>5, <1>6

(* The difference of two stamps of a clock.                                  *)
LEMMA WrapIs ==
  ASSUME NEW c \in Nat, NEW x \in Nat, NEW y \in Nat, y <= x, x - y < Width
  PROVE  Wrap(Wrap(c + x) - Wrap(c + y)) = x - y
<1>1. PICK W \in Nat \ {0} : W = Width
  BY ClockAssumption
<1>2. PICK p \in Int, s \in 0..W - 1 : c + x = W * p + s /\ s = (c + x) % W
  <2>1. c + x = W * ((c + x) \div W) + ((c + x) % W) /\ (c + x) \div W \in Int /\ (c + x) % W \in 0..W - 1
    OBVIOUS
  <2> QED BY <2>1
<1>3. PICK q \in Int, t \in 0..W - 1 : c + y = W * q + t /\ t = (c + y) % W
  <2>1. c + y = W * ((c + y) \div W) + ((c + y) % W) /\ (c + y) \div W \in Int /\ (c + y) % W \in 0..W - 1
    OBVIOUS
  <2> QED BY <2>1
<1>4. PICK k \in Int : k = q - p
  OBVIOUS
<1>5. W * k = W * q - W * p
  BY <1>4
<1>6. x - y \in 0..W - 1
  BY <1>1
<1>7. s - t = W * k + (x - y)
  <2>1. PICK u \in Int, v \in Int, w \in Int : u = W * p /\ v = W * q /\ w = W * k
    OBVIOUS
  <2>2. c + x = u + s /\ c + y = v + t /\ w = v - u
    BY <1>2, <1>3, <1>5, <2>1
  <2>3. s - t = w + (x - y)
    BY <2>2
  <2> QED BY <2>1, <2>3
<1>8. (s - t) % W = x - y
  BY <1>6, <1>7, ModIs
<1> QED BY <1>1, <1>2, <1>3, <1>8 DEF Wrap

(* The greatest plugged port below one, and the time up to it.               *)
LEMMA LastIs ==
  ASSUME NEW a \in 1..4, NEW M \in SUBSET Ports, 0 \in M, \A p \in M : p < a,
         NEW f, \A p \in 1..3 : p < a /\ p \notin M => f[p] = f[p - 1]
  PROVE  Max(M) \in Ports /\ f[Max(M)] = f[a - 1]
<1>1. M \subseteq Int
  BY DEF Ports
<1>2. \A p \in M : p = 0 \/ p = 1 \/ p = 2 \/ p = 3
  BY DEF Ports
<1>3. (1 < a /\ 1 \notin M => f[1] = f[0]) /\ (2 < a /\ 2 \notin M => f[2] = f[1]) /\ (3 < a /\ 3 \notin M => f[3] = f[2])
  <2>1. 1 \in 1..3 /\ 2 \in 1..3 /\ 3 \in 1..3 /\ 1 - 1 = 0 /\ 2 - 1 = 1 /\ 3 - 1 = 2
    OBVIOUS
  <2> QED BY <2>1
<1>4. ASSUME NEW k \in M, \A p \in M : p <= k, f[k] = f[a - 1] PROVE Max(M) \in Ports /\ f[Max(M)] = f[a - 1]
  <2>1. Max(M) = k
    BY <1>1, <1>4, MaxIs
  <2> QED BY <1>4, <2>1
<1>5. a = 1 \/ a = 2 \/ a = 3 \/ a = 4
  OBVIOUS
<1>6. CASE 3 \in M
  <2>1. 3 < a
    BY <1>6
  <2>2. a - 1 = 3 /\ \A p \in M : p <= 3
    BY <1>2, <1>5, <2>1
  <2> QED BY <1>4, <1>6, <2>2
<1>7. CASE 3 \notin M /\ 2 \in M
  <2>1. 2 < a /\ \A p \in M : p <= 2
    BY <1>2, <1>7
  <2>2. (a = 3 /\ a - 1 = 2) \/ (a = 4 /\ a - 1 = 3)
    BY <1>5, <2>1
  <2>3. f[2] = f[a - 1]
    BY <1>3, <1>7, <2>2
  <2> QED BY <1>4, <1>7, <2>1, <2>3
<1>8. CASE 3 \notin M /\ 2 \notin M /\ 1 \in M
  <2>1. 1 < a /\ \A p \in M : p <= 1
    BY <1>2, <1>8
  <2>2. (a = 2 /\ a - 1 = 1) \/ (a = 3 /\ a - 1 = 2) \/ (a = 4 /\ a - 1 = 3)
    BY <1>5, <2>1
  <2>3. f[1] = f[a - 1]
    BY <1>3, <1>8, <2>2
  <2> QED BY <1>4, <1>8, <2>1, <2>3
<1>9. CASE 3 \notin M /\ 2 \notin M /\ 1 \notin M
  <2>1. \A p \in M : p <= 0
    BY <1>2, <1>9
  <2>2. (a = 1 /\ a - 1 = 0) \/ (a = 2 /\ a - 1 = 1) \/ (a = 3 /\ a - 1 = 2) \/ (a = 4 /\ a - 1 = 3)
    BY <1>5
  <2>3. f[0] = f[a - 1]
    BY <1>3, <1>9, <2>2
  <2> QED BY <1>4, <2>1, <2>3
<1> QED BY <1>6, <1>7, <1>8, <1>9

LEMMA OnRoot ==
  ASSUME NEW n, NEW parent, NEW port, NEW path, Pathed(n, parent, port, path)
  PROVE  \A y \in 0..n - 1 : On(path, 0, y)
<1> DEFINE T == {y \in 0..n - 1 : On(path, 0, y)}
<1>1. n \in Nat \ {0}
  BY DEF Pathed, Tree
<1>2. ASSUME NEW y \in 0..n - 1, \A w \in 0..n - 1 : w < y => w \in T PROVE y \in T
  <2>1. CASE y = 0
    BY <2>1, OnFirst DEF Pathed
  <2>2. CASE y # 0
    <3>1. y \in 1..n - 1
      BY <1>1, <2>2
    <3>2. PICK q \in 0..n - 1 : q = parent[y] /\ q < y
      BY <3>1, PathOf DEF Pathed
    <3>3. On(path, 0, q)
      BY <1>2, <3>2
    <3> QED BY <3>1, <3>2, <3>3, OnStep DEF Pathed
  <2> QED BY <2>1, <2>2
<1> HIDE DEF T
<1>3. 0..n - 1 \subseteq T
  BY <1>1, <1>2, StrongInduction
<1> QED BY <1>3 DEF T

(* What is in the rebuilt topology.                                          *)
LEMMA TopologyHas ==
  ASSUME NEW n, NEW parent, NEW port, Tree(n, parent, port), NEW net, NetIs(net, n, parent, port), NEW i \in 0..n - 1
  PROVE  LET topology == TopologyTo(net, n, parent, n - 1) IN
         /\ topology[i][0] = IF i = 0 THEN 0 ELSE parent[i]
         /\ \A p \in 1..3 : topology[i][p] = Child(net, i, p)
         /\ 0 \in Plugged(topology, i) /\ Plugged(topology, i) \in SUBSET Ports
         /\ \A p \in 1..3 : p \notin Plugged(topology, i) => Child(net, i, p) = Unplugged
<1> DEFINE topology == TopologyTo(net, n, parent, n - 1)
<1>1. n \in Nat \ {0} /\ 0 \in Ports
  BY DEF Tree, Ports
<1>2. topology[i][0] = IF i = 0 THEN 0 ELSE parent[i]
  <2>1. topology[i][0] = Known(net, parent, n - 1, i, 0)
    BY <1>1 DEF TopologyTo
  <2>2. i <= n - 1
    BY <1>1
  <2> QED BY <2>1, <2>2 DEF Known
<1>3. ASSUME NEW p \in 1..3 PROVE topology[i][p] = Child(net, i, p)
  <2>1. PICK c : c = Child(net, i, p)
    OBVIOUS
  <2>2. c = Unplugged \/ c \in 1..n - 1
    BY <2>1, ChildIs
  <2>3. p \in Ports /\ p # 0
    BY DEF Ports
  <2>4. topology[i][p] = Known(net, parent, n - 1, i, p)
    BY <2>3 DEF TopologyTo
  <2>5. Known(net, parent, n - 1, i, p) = IF c # Unplugged /\ c <= n - 1 THEN c ELSE Unplugged
    BY <2>1, <2>3 DEF Known
  <2> QED BY <2>1, <2>2, <2>4, <2>5
<1> HIDE DEF topology
<1>4. Plugged(topology, i) \in SUBSET Ports
  BY DEF Plugged
<1>5. 0 \in Plugged(topology, i)
  <2>1. topology[i][0] \in Nat
    <3>1. i # 0 => i \in 1..n - 1
      BY <1>1
    <3> QED BY <1>2, <3>1 DEF Tree
  <2> QED BY <1>1, <2>1, ClockAssumption DEF Plugged
<1>6. ASSUME NEW p \in 1..3, p \notin Plugged(topology, i) PROVE Child(net, i, p) = Unplugged
  <2>1. p \in Ports
    BY DEF Ports
  <2> QED BY <1>3, <1>6, <2>1 DEF Plugged
<1> QED BY <1>2, <1>3, <1>4, <1>5, <1>6 DEF topology

(* A segment whose slaves all have a clock, and whose trip fits stamps.      *)
TimedIs(net, n, parent, port, path) ==
  /\ SegmentIs(net, n, parent, port, path, Nat, Nat, AllDc)
  /\ n \in 1..MaxSlaves /\ 2 * net.link[0] + Back(net)[0][3] < Width

LEMMA TimedFacts ==
  ASSUME NEW n, NEW parent, NEW port, NEW path, NEW net, TimedIs(net, n, parent, port, path)
  PROVE  /\ Tree(n, parent, port) /\ Pathed(n, parent, port, path) /\ Preorder(n, parent, port, path) /\ NetIs(net, n, parent, port)
         /\ net.link \in [0..n - 1 -> Nat] /\ net.clock \in [0..n - 1 -> Nat] /\ SlavesOf(net) = 0..n - 1 /\ n \in Nat \ {0}
         /\ \A i \in 0..n - 1 : net.dc[i]
         /\ Topology(net).topology = TopologyTo(net, n, parent, n - 1)
         /\ ArrivalIs(net, n, parent, port, Arrival(net))
<1>1. /\ Pathed(n, parent, port, path) /\ Preorder(n, parent, port, path) /\ NetIs(net, n, parent, port)
      /\ net.link \in [0..n - 1 -> Nat] /\ net.clock \in [0..n - 1 -> Nat] /\ net.dc \in AllDc[n] /\ n \in 1..MaxSlaves
  BY DEF TimedIs, SegmentIs
<1>2. Tree(n, parent, port)
  BY <1>1 DEF Pathed
<1>3. SlavesOf(net) = 0..n - 1 /\ n \in Nat \ {0}
  BY <1>1, <1>2 DEF SlavesOf, NetIs, Tree
<1>4. net.dc = [i \in 0..n - 1 |-> TRUE]
  BY <1>1 DEF AllDc
<1>5. Topology(net).topology = TopologyTo(net, n, parent, n - 1)
  <2>1. Topology(net) = Expected(net, n, parent, path, n - 1)
    BY <1>1, TopologyIs
  <2> QED BY <2>1 DEF Expected
<1>6. ArrivalIs(net, n, parent, port, Arrival(net))
  BY <1>1, <1>2, ArrivalHolds
<1> QED BY <1>1, <1>2, <1>3, <1>4, <1>5, <1>6

(* No trip in a branch is longer than stamps take to wrap.                   *)
LEMMA TripFits ==
  ASSUME NEW n, NEW parent, NEW port, NEW path, NEW net, TimedIs(net, n, parent, port, path), NEW i \in 0..n - 1
  PROVE  \A p \in Ports : Back(net)[i][p] \in Nat /\ Back(net)[i][p] < Width
<1>1. /\ Tree(n, parent, port) /\ Pathed(n, parent, port, path) /\ NetIs(net, n, parent, port) /\ net.link \in [0..n - 1 -> Nat]
      /\ ArrivalIs(net, n, parent, port, Arrival(net)) /\ n \in Nat \ {0}
  BY TimedFacts
<1>2. PICK W \in Nat : W = Width
  BY ClockAssumption
<1>3. 0 \in 0..n - 1 /\ 3 \in Ports
  BY <1>1 DEF Ports
<1>4. PICK l \in Nat, s \in Nat : l = net.link[0] /\ s = Back(net)[0][3] /\ 2 * l + s < W
  <2>1. net.link[0] \in Nat /\ Back(net)[0][3] \in Nat
    BY <1>1, <1>3, RowGrows
  <2>2. 2 * net.link[0] + Back(net)[0][3] < W
    BY <1>2 DEF TimedIs
  <2> QED BY <2>1, <2>2
<1>5. PICK a \in Nat : a = Arrival(net)[i]
  BY <1>1 DEF ArrivalIs
<1>6. Left(net, i) <= Left(net, 0)
  <2>1. On(path, 0, i)
    BY <1>1, OnRoot
  <2> QED BY <1>1, <1>3, <2>1, LeftOn
<1>7. PICK r : r = Back(net)[i] /\ (\A p \in Ports : r[p] \in Nat) /\ r[0] <= r[1] /\ r[1] <= r[2] /\ r[2] <= r[3]
  BY <1>1, RowGrows
<1>8. Left(net, 0) = l + s /\ Left(net, i) = a + r[3]
  BY <1>1, <1>4, <1>5, <1>7 DEF Left, ArrivalIs
<1>9. PICK x \in Nat, y \in Nat, z \in Nat, w \in Nat : x = r[0] /\ y = r[1] /\ z = r[2] /\ w = r[3]
  BY <1>7 DEF Ports
<1>10. a + w <= l + s /\ x <= y /\ y <= z /\ z <= w
  BY <1>6, <1>7, <1>8, <1>9
<1>11. x < W /\ y < W /\ z < W /\ w < W
  BY <1>4, <1>10
<1>12. \A p \in Ports : p = 0 \/ p = 1 \/ p = 2 \/ p = 3
  BY DEF Ports
<1>13. \A p \in Ports : r[p] \in Nat /\ r[p] < W
  BY <1>9, <1>11, <1>12
<1> QED BY <1>2, <1>7, <1>13

(* The time between the stamps of two ports of a slave.                      *)
LEMMA StampsTell ==
  ASSUME NEW n, NEW parent, NEW port, NEW path, NEW net, TimedIs(net, n, parent, port, path), NEW i \in 0..n - 1,
         NEW p \in Ports, NEW q \in Ports, Back(net)[i][q] <= Back(net)[i][p]
  PROVE  Wrap(Stamps(net)[i][p] - Stamps(net)[i][q]) = Back(net)[i][p] - Back(net)[i][q]
<1>1. SlavesOf(net) = 0..n - 1 /\ net.dc[i] /\ net.clock \in [0..n - 1 -> Nat] /\ ArrivalIs(net, n, parent, port, Arrival(net))
  BY TimedFacts
<1>2. PICK k \in Nat, a \in Nat : k = net.clock[i] /\ a = Arrival(net)[i]
  BY <1>1 DEF ArrivalIs
<1>3. PICK x \in Nat, y \in Nat : x = Back(net)[i][p] /\ y = Back(net)[i][q] /\ y <= x /\ x < Width
  BY TripFits
<1>4. PICK c \in Nat : c = k + a
  OBVIOUS
<1>5. Stamps(net)[i][p] = Wrap(k + a + x) /\ Stamps(net)[i][q] = Wrap(k + a + y)
  BY <1>1, <1>2, <1>3 DEF Stamps
<1>6. Stamps(net)[i][p] = Wrap(c + x) /\ Stamps(net)[i][q] = Wrap(c + y)
  BY <1>4, <1>5
<1>7. x - y < Width
  BY <1>3, ClockAssumption
<1>8. Wrap(Wrap(c + x) - Wrap(c + y)) = x - y
  BY <1>3, <1>7, WrapIs
<1> QED BY <1>3, <1>6, <1>8

Below(topology, i, a) == {p \in Plugged(topology, i) : p < a}

(* Nothing happens between the last plugged port and the next.               *)
LEMMA LastPlugged ==
  ASSUME NEW n, NEW parent, NEW port, NEW path, NEW net, TimedIs(net, n, parent, port, path), NEW i \in 0..n - 1,
         NEW a \in 1..4
  PROVE  /\ Max(Below(TopologyTo(net, n, parent, n - 1), i, a)) \in Ports
         /\ Back(net)[i][Max(Below(TopologyTo(net, n, parent, n - 1), i, a))] = Back(net)[i][a - 1]
<1>1. Tree(n, parent, port) /\ NetIs(net, n, parent, port) /\ net.link \in [0..n - 1 -> Nat]
  BY TimedFacts
<1>2. PICK P : P = Plugged(TopologyTo(net, n, parent, n - 1), i)
  OBVIOUS
<1>3. 0 \in P /\ P \in SUBSET Ports /\ \A p \in 1..3 : p \notin P => Child(net, i, p) = Unplugged
  BY <1>1, <1>2, TopologyHas
<1>4. PICK M : M = {p \in P : p < a}
  OBVIOUS
<1>5. M \in SUBSET Ports /\ 0 \in M /\ \A p \in M : p < a
  BY <1>3, <1>4
<1>6. PICK f : f = Back(net)[i]
  OBVIOUS
<1>7. \A p \in 1..3 : p < a /\ p \notin M => f[p] = f[p - 1]
  <2> SUFFICES ASSUME NEW p \in 1..3, p < a, p \notin M PROVE f[p] = f[p - 1]
    OBVIOUS
  <2>1. Child(net, i, p) = Unplugged
    BY <1>3, <1>4
  <2> QED BY <1>1, <1>6, <2>1, RowGrows
<1>8. Max(M) \in Ports /\ f[Max(M)] = f[a - 1]
  BY <1>5, <1>7, LastIs
<1>9. Below(TopologyTo(net, n, parent, n - 1), i, a) = M
  BY <1>2, <1>4 DEF Below
<1> QED BY <1>6, <1>8, <1>9

(* The port of the parent where the topology has a slave.                    *)
LEMMA PlaceIn ==
  ASSUME NEW n, NEW parent, NEW port, Tree(n, parent, port), NEW net, NetIs(net, n, parent, port), NEW i \in 1..n - 1,
         NEW q \in 0..n - 1, q = parent[i], NEW r \in 1..3, r = port[i]
  PROVE  {p \in Ports : TopologyTo(net, n, parent, n - 1)[q][p] = i} = {r}
<1>1. PICK topology : topology = TopologyTo(net, n, parent, n - 1)
  OBVIOUS
<1>2. topology[q][0] # i
  <2>1. topology[q][0] = IF q = 0 THEN 0 ELSE parent[q]
    BY <1>1, TopologyHas
  <2>2. q < i /\ (q # 0 => parent[q] \in Nat /\ parent[q] < q)
    BY DEF Tree
  <2> QED BY <2>1, <2>2
<1>3. ASSUME NEW p \in 1..3 PROVE topology[q][p] = i <=> p = r
  <2>1. topology[q][p] = Child(net, q, p)
    BY <1>1, TopologyHas
  <2>2. Child(net, q, p) = i <=> parent[i] = q /\ port[i] = p
    BY ChildAt
  <2> QED BY <2>1, <2>2
<1>4. Ports = {0} \cup 1..3
  BY DEF Ports
<1> QED BY <1>1, <1>2, <1>3, <1>4

(* What a sample tells: the way to the slave and back, the time from the     *)
(* parent.                                                                   *)
LEMMA SampleIs ==
  ASSUME NEW n, NEW parent, NEW port, NEW path, NEW net, TimedIs(net, n, parent, port, path), NEW i \in 1..n - 1
  PROVE  LET sample == Sample(TopologyTo(net, n, parent, n - 1), Stamps(net), i)
         IN sample.way = 2 * net.link[i] /\ sample.port = Back(net)[parent[i]][port[i] - 1]
<1> DEFINE topology == TopologyTo(net, n, parent, n - 1)
           stamps == Stamps(net)
<1>1. Tree(n, parent, port) /\ NetIs(net, n, parent, port) /\ net.link \in [0..n - 1 -> Nat] /\ n \in Nat \ {0}
  BY TimedFacts
<1>2. i \in 0..n - 1 /\ i # 0
  BY <1>1
<1>3. PICK q \in 0..n - 1 : q = parent[i] /\ q < i
  BY <1>1 DEF Tree
<1>4. PICK r \in 1..3 : r = port[i]
  BY <1>1 DEF Tree
<1>5. r \in Ports /\ 0 \in Ports /\ r - 1 \in Ports /\ 3 \in Ports
  BY DEF Ports
<1>6. topology[i][0] = q
  BY <1>1, <1>2, <1>3, TopologyHas
<1>7. {p \in Ports : topology[q][p] = i} = {r}
  BY <1>1, <1>3, <1>4, PlaceIn
<1>8. Min({p \in Ports : topology[q][p] = i}) = r
  <2>1. PICK M : M = {r}
    OBVIOUS
  <2>2. M \subseteq Int /\ r \in M /\ \A p \in M : r <= p
    BY <2>1
  <2>3. Min(M) = r
    BY <2>2, MinIs
  <2> QED BY <1>7, <2>1, <2>3
<1>9. PICK b \in Ports : b = LastBefore(topology, q, r) /\ Back(net)[q][b] = Back(net)[q][r - 1]
  <2>1. r \in 1..4
    OBVIOUS
  <2>2. Max(Below(topology, q, r)) \in Ports /\ Back(net)[q][Max(Below(topology, q, r))] = Back(net)[q][r - 1]
    BY <2>1, LastPlugged
  <2>3. LastBefore(topology, q, r) = Max(Below(topology, q, r))
    BY DEF LastBefore, Below
  <2> QED BY <2>2, <2>3
<1>10. PICK l \in Ports : l = Max(Plugged(topology, i)) /\ Back(net)[i][l] = Back(net)[i][3]
  <2>1. Below(topology, i, 4) = Plugged(topology, i)
    <3>1. Plugged(topology, i) \in SUBSET Ports
      BY <1>1, <1>2, TopologyHas
    <3> QED BY <3>1 DEF Ports, Below
  <2>2. 4 \in 1..4 /\ 4 - 1 = 3
    OBVIOUS
  <2>3. Max(Below(topology, i, 4)) \in Ports /\ Back(net)[i][Max(Below(topology, i, 4))] = Back(net)[i][4 - 1]
    BY <1>2, <2>2, LastPlugged
  <2> QED BY <2>1, <2>2, <2>3
<1> HIDE DEF topology, stamps
<1>11. /\ Sample(topology, stamps, i).way = Wrap(Wrap(stamps[q][r] - stamps[q][b]) - Wrap(stamps[i][l] - stamps[i][0]))
       /\ Sample(topology, stamps, i).port = Wrap(stamps[q][b] - stamps[q][0])
  BY <1>6, <1>8, <1>9, <1>10 DEF Sample
<1>12. PICK x \in Nat, y \in Nat, z \in Nat, m \in Nat, o \in Nat, v \in Nat :
         /\ x = Back(net)[q][r] /\ y = Back(net)[q][b] /\ z = Back(net)[i][l] /\ m = net.link[i]
         /\ o = Back(net)[q][0] /\ v = Back(net)[i][0]
  <2>1. Back(net)[q][r] \in Nat /\ Back(net)[q][b] \in Nat /\ Back(net)[q][0] \in Nat
    BY <1>5, TripFits
  <2>2. Back(net)[i][l] \in Nat /\ Back(net)[i][0] \in Nat
    BY <1>2, <1>5, TripFits
  <2>3. net.link[i] \in Nat
    BY <1>1, <1>2
  <2> QED BY <2>1, <2>2, <2>3
<1>13. o = 0 /\ v = 0 /\ x = y + 2 * m + z
  <2>1. Rows(net, n, Back(net))
    BY <1>1, BackRows
  <2>2. o = 0 /\ v = 0
    BY <1>2, <1>12, <2>1 DEF Rows, RowIs
  <2>3. Back(net)[q][r] = Back(net)[q][r - 1] + 2 * net.link[i] + Back(net)[i][3]
    <3>1. Joined(net, port, q, i)
      BY <1>1, <1>3, RowGrows
    <3> QED BY <1>4, <3>1 DEF Joined
  <2> QED BY <1>9, <1>10, <1>12, <2>2, <2>3
<1>14. Wrap(stamps[q][r] - stamps[q][b]) = x - y
  <2>1. Back(net)[q][b] <= Back(net)[q][r]
    BY <1>12, <1>13
  <2>2. Wrap(Stamps(net)[q][r] - Stamps(net)[q][b]) = Back(net)[q][r] - Back(net)[q][b]
    BY <1>5, <2>1, StampsTell
  <2> QED BY <1>12, <2>2 DEF stamps
<1>15. Wrap(stamps[i][l] - stamps[i][0]) = z
  <2>1. Back(net)[i][0] <= Back(net)[i][l]
    BY <1>12, <1>13
  <2>2. Wrap(Stamps(net)[i][l] - Stamps(net)[i][0]) = Back(net)[i][l] - Back(net)[i][0]
    BY <1>2, <1>5, <2>1, StampsTell
  <2> QED BY <1>12, <1>13, <2>2 DEF stamps
<1>16. Wrap(stamps[q][b] - stamps[q][0]) = y
  <2>1. Back(net)[q][0] <= Back(net)[q][b]
    BY <1>12, <1>13
  <2>2. Wrap(Stamps(net)[q][b] - Stamps(net)[q][0]) = Back(net)[q][b] - Back(net)[q][0]
    BY <1>5, <2>1, StampsTell
  <2> QED BY <1>12, <1>13, <2>2 DEF stamps
<1>17. Wrap(2 * m) = 2 * m
  <2>1. x < Width
    BY <1>5, <1>12, TripFits
  <2>2. PICK W \in Nat \ {0} : W = Width
    BY ClockAssumption
  <2>3. PICK a \in Int : a = 2 * m
    OBVIOUS
  <2>4. a \in 0..W - 1 /\ a = W * 0 + a
    BY <1>13, <2>1, <2>2, <2>3
  <2>5. a % W = a
    BY <2>4, ModIs
  <2> QED BY <2>2, <2>3, <2>5 DEF Wrap
<1>18. (x - y) - z = 2 * m
  BY <1>13
<1>19. Sample(topology, stamps, i).way = 2 * m /\ Sample(topology, stamps, i).port = y
  BY <1>11, <1>14, <1>15, <1>16, <1>17, <1>18
<1> QED BY <1>3, <1>4, <1>9, <1>12, <1>19 DEF topology, stamps

(* Delays add up to times of arrival.                                        *)
LEMMA DelaysAre ==
  ASSUME NEW n, NEW parent, NEW port, NEW path, NEW net, TimedIs(net, n, parent, port, path)
  PROVE  Delays(net) = Exact(net)
<1>1. /\ Tree(n, parent, port) /\ Topology(net).topology = TopologyTo(net, n, parent, n - 1) /\ SlavesOf(net) = 0..n - 1
      /\ n \in Nat \ {0} /\ NetIs(net, n, parent, port) /\ ArrivalIs(net, n, parent, port, Arrival(net)) /\ net.link \in [0..n - 1 -> Nat]
  BY TimedFacts
<1>2. PICK topology : topology = TopologyTo(net, n, parent, n - 1)
  OBVIOUS
<1>3. PICK arrival \in [0..n - 1 -> Nat] : arrival = Arrival(net)
  BY <1>1 DEF ArrivalIs
<1> DEFINE Of(f, i) == f[topology[i][0]] + Sample(topology, Stamps(net), i).way \div 2 + Sample(topology, Stamps(net), i).port
           F(f) == [i \in 0..n - 1 |-> IF i = 0 THEN 0 ELSE Of(f, i)]
           delay == CHOOSE f : f = F(f)
<1>4. Delays(net) = delay
  BY <1>1, <1>2 DEF Delays
<1>5. ASSUME NEW f, NEW i \in 1..n - 1, f[parent[i]] = arrival[parent[i]] - arrival[0]
      PROVE  Of(f, i) = arrival[i] - arrival[0]
  <2>1. PICK q \in 0..n - 1 : q = parent[i]
    BY <1>1 DEF Tree
  <2>2. i \in 0..n - 1 /\ i # 0 /\ 0 \in 0..n - 1
    BY <1>1
  <2>3. topology[i][0] = q
    BY <1>1, <1>2, <2>1, <2>2, TopologyHas
  <2>4. PICK p \in Ports : p = port[i] - 1
    BY <1>1 DEF Tree, Ports
  <2>5. PICK l \in Nat, b \in Nat : l = net.link[i] /\ b = Back(net)[q][p]
    <3>1. net.link[i] \in Nat
      BY <1>1, <2>2
    <3>2. Back(net)[q][p] \in Nat
      BY TripFits
    <3> QED BY <3>1, <3>2
  <2>6. Sample(topology, Stamps(net), i).way = 2 * l /\ Sample(topology, Stamps(net), i).port = b
    <3>1. /\ Sample(TopologyTo(net, n, parent, n - 1), Stamps(net), i).way = 2 * net.link[i]
          /\ Sample(TopologyTo(net, n, parent, n - 1), Stamps(net), i).port = Back(net)[parent[i]][port[i] - 1]
      BY SampleIs
    <3> QED BY <1>2, <2>1, <2>4, <2>5, <3>1
  <2>7. PICK x \in Nat, y \in Nat, z \in Nat : x = arrival[q] /\ y = arrival[0] /\ z = arrival[i]
    BY <2>2
  <2>8. z = x + b + l
    BY <1>1, <1>3, <2>1, <2>4, <2>5, <2>7 DEF ArrivalIs
  <2>9. f[q] = x - y
    BY <1>5, <2>1, <2>7
  <2>10. (2 * l) \div 2 = l
    OBVIOUS
  <2>11. Of(f, i) = (x - y) + l + b
    BY <2>3, <2>6, <2>9, <2>10
  <2>12. (x - y) + l + b = z - y
    BY <2>8
  <2> QED BY <2>7, <2>11, <2>12
<1> HIDE DEF Of
<1> DEFINE E == [i \in 0..n - 1 |-> arrival[i] - arrival[0]]
<1>6. E = F(E)
  <2>1. ASSUME NEW i \in 0..n - 1 PROVE arrival[i] - arrival[0] = IF i = 0 THEN 0 ELSE Of(E, i)
    <3>1. CASE i = 0
      BY <1>1, <3>1
    <3>2. CASE i # 0
      <4>1. i \in 1..n - 1
        BY <1>1, <3>2
      <4>2. parent[i] \in 0..n - 1
        BY <1>1, <4>1 DEF Tree
      <4>3. E[parent[i]] = arrival[parent[i]] - arrival[0]
        BY <4>2
      <4> HIDE DEF E
      <4>4. Of(E, i) = arrival[i] - arrival[0]
        BY <1>5, <4>1, <4>3
      <4> QED BY <3>2, <4>4
    <3> QED BY <3>1, <3>2
  <2>2. F(E) = [i \in 0..n - 1 |-> arrival[i] - arrival[0]]
    BY <2>1
  <2> QED BY <2>2
<1> HIDE DEF E, F
<1>7. delay = F(delay)
  BY <1>6
<1>8. \A i \in 0..n - 1 : delay[i] = IF i = 0 THEN 0 ELSE Of(delay, i)
  BY <1>7 DEF F
<1>9. delay = [i \in 0..n - 1 |-> delay[i]]
  BY <1>7 DEF F
<1> HIDE DEF delay
<1> DEFINE T == {i \in 0..n - 1 : delay[i] = arrival[i] - arrival[0]}
<1>10. ASSUME NEW i \in 0..n - 1, \A j \in 0..n - 1 : j < i => j \in T PROVE i \in T
  <2>1. CASE i = 0
    BY <1>8, <2>1
  <2>2. CASE i # 0
    <3>1. i \in 1..n - 1
      BY <1>1, <2>2
    <3>2. parent[i] \in 0..n - 1 /\ parent[i] < i
      BY <1>1, <3>1 DEF Tree
    <3>3. delay[parent[i]] = arrival[parent[i]] - arrival[0]
      BY <1>10, <3>2
    <3>4. Of(delay, i) = arrival[i] - arrival[0]
      BY <1>5, <3>1, <3>3
    <3> QED BY <1>8, <2>2, <3>4
  <2> QED BY <2>1, <2>2
<1> HIDE DEF T
<1>11. 0..n - 1 \subseteq T
  BY <1>1, <1>10, StrongInduction
<1>12. delay = [i \in 0..n - 1 |-> arrival[i] - arrival[0]]
  BY <1>11, <1>9 DEF T
<1> QED BY <1>1, <1>3, <1>4, <1>12 DEF Exact

LEMMA MasterDelayIs ==
  ASSUME NEW n, NEW parent, NEW port, NEW path, NEW net, TimedIs(net, n, parent, port, path), NEW wait \in Nat
  PROVE  MasterDelay(net, wait) = Arrival(net)[0] + wait \div 2
<1>1. /\ Tree(n, parent, port) /\ Topology(net).topology = TopologyTo(net, n, parent, n - 1) /\ SlavesOf(net) = 0..n - 1
      /\ n \in Nat \ {0} /\ NetIs(net, n, parent, port) /\ ArrivalIs(net, n, parent, port, Arrival(net)) /\ net.link \in [0..n - 1 -> Nat]
      /\ \A i \in 0..n - 1 : net.dc[i]
  BY TimedFacts
<1>2. 0 \in 0..n - 1 /\ 0 \in Ports /\ 3 \in Ports /\ 4 \in 1..4 /\ 4 - 1 = 3
  BY <1>1 DEF Ports
<1>3. Referent(net) = 0
  <2>1. PICK M : M = Clocked(net) /\ M = {i \in SlavesOf(net) : net.dc[i]}
    BY DEF Clocked
  <2>2. M \subseteq Int /\ 0 \in M /\ \A i \in M : 0 <= i
    BY <1>1, <1>2, <2>1
  <2>3. Min(M) = 0
    BY <2>2, MinIs
  <2> QED BY <2>1, <2>3 DEF Referent
<1>4. PICK l \in Ports : l = Max(Plugged(Topology(net).topology, 0)) /\ Back(net)[0][l] = Back(net)[0][3]
  <2>1. Below(TopologyTo(net, n, parent, n - 1), 0, 4) = Plugged(TopologyTo(net, n, parent, n - 1), 0)
    <3>1. Plugged(TopologyTo(net, n, parent, n - 1), 0) \in SUBSET Ports
      BY <1>1, <1>2, TopologyHas
    <3> QED BY <3>1 DEF Ports, Below
  <2>2. /\ Max(Below(TopologyTo(net, n, parent, n - 1), 0, 4)) \in Ports
        /\ Back(net)[0][Max(Below(TopologyTo(net, n, parent, n - 1), 0, 4))] = Back(net)[0][4 - 1]
    BY <1>2, LastPlugged
  <2> QED BY <1>1, <1>2, <2>1, <2>2
<1>5. PICK k \in Nat, s \in Nat : k = net.link[0] /\ s = Back(net)[0][3]
  <2>1. Back(net)[0][3] \in Nat /\ net.link[0] \in Nat
    BY <1>1, <1>2, TripFits
  <2> QED BY <2>1
<1>6. Wrap(Stamps(net)[0][l] - Stamps(net)[0][0]) = s
  <2>1. Rows(net, n, Back(net))
    BY <1>1, BackRows
  <2>2. Back(net)[0][0] = 0
    BY <1>2, <2>1 DEF Rows, RowIs
  <2>3. Back(net)[0][0] <= Back(net)[0][l]
    BY <1>4, <1>5, <2>2
  <2>4. Wrap(Stamps(net)[0][l] - Stamps(net)[0][0]) = Back(net)[0][l] - Back(net)[0][0]
    BY <1>2, <2>3, StampsTell
  <2> QED BY <1>4, <1>5, <2>2, <2>4
<1>7. MasterDelay(net, wait) = (2 * k + s + wait - s) \div 2
  BY <1>3, <1>4, <1>5, <1>6 DEF MasterDelay
<1>8. (2 * k + s + wait - s) \div 2 = k + wait \div 2
  OBVIOUS
<1> QED BY <1>1, <1>5, <1>7, <1>8 DEF ArrivalIs

LEMMA SegmentTimed ==
  ASSUME NEW n \in 1..MaxSlaves, NEW net \in Segments(n, Links, Clocks, AllDc)
  PROVE  \E parent, port, path : TimedIs(net, n, parent, port, path)
<1>1. n \in Nat \ {0}
  BY ClockAssumption
<1>2. PICK parent, port, path : SegmentIs(net, n, parent, port, path, Links, Clocks, AllDc)
  BY <1>1, SegmentOf
<1>3. TimedIs(net, n, parent, port, path)
  <2>1. SegmentIs(net, n, parent, port, path, Nat, Nat, AllDc)
    BY <1>2, ClockAssumption DEF SegmentIs
  <2>2. 2 * net.link[0] + Back(net)[0][3] < Width
    BY TripAssumption
  <2> QED BY <2>1, <2>2 DEF TimedIs
<1> QED BY <1>3

(* Delays are exact, whatever the segment and the wraps of clocks            *)
(* (init_delays).                                                            *)
THEOREM DelaysHold == DelaysExact
<1> SUFFICES ASSUME NEW n \in 1..MaxSlaves, NEW net \in Segments(n, Links, Clocks, AllDc), NEW wait \in Waits
             PROVE  Delays(net) = Exact(net) /\ MasterDelay(net, wait) = Arrival(net)[0] + wait \div 2
  <2>1. ASSUME NEW n \in 1..MaxSlaves, NEW net \in Segments(n, Links, Clocks, AllDc) PROVE Delays(net) = Exact(net)
    BY SegmentTimed, DelaysAre
  <2> QED BY <2>1 DEF DelaysExact
<1>1. PICK parent, port, path : TimedIs(net, n, parent, port, path)
  BY SegmentTimed
<1>2. wait \in Nat
  BY ClockAssumption
<1> QED BY <1>1, <1>2, DelaysAre, MasterDelayIs

(* Slaves hold the exact delays, or what they held, whichever of them miss   *)
(* theirs or are not heard (init_delays).                                    *)
THEOREM HeldHold == DelaysHeld
<1> SUFFICES ASSUME NEW n \in 1..MaxSlaves, NEW link \in Links, NEW clock1 \in Clocks,
                    NEW net \in Segments(n, {link}, {clock1}, AllDc),
                    NEW before, before = [i \in SlavesOf(net) |-> Width], NEW new \in NewDelays(net, before)
             PROVE  /\ ~new.failed => new.held = Exact(net)
                    /\ \A i \in SlavesOf(net) : new.held[i] \in {Exact(net)[i], before[i]}
  BY DEF DelaysHeld
<1>1. net \in Segments(n, Links, Clocks, AllDc)
  BY DEF Segments
<1>2. Delays(net) = Exact(net)
  BY <1>1, DelaysHold DEF DelaysExact
<1>3. CASE new = Failed(before)
  BY <1>3 DEF Failed
<1>4. CASE new # Failed(before)
  <2>1. new \in SendDelays(net, before)
    BY <1>4 DEF NewDelays, InitDelays
  <2>2. PICK took \in SUBSET SlavesOf(net), heard \in SUBSET SlavesOf(net) :
          /\ heard \subseteq took
          /\ new.held = [i \in SlavesOf(net) |-> IF i \in took THEN Exact(net)[i] ELSE before[i]]
          /\ new.failed = (heard # SlavesOf(net))
    <3>1. PICK fate \in [took : SUBSET SlavesOf(net), heard : SUBSET SlavesOf(net)] :
            /\ fate.heard \subseteq fate.took
            /\ new = [held   |-> [i \in SlavesOf(net) |-> IF i \in fate.took THEN Exact(net)[i] ELSE before[i]],
                      failed |-> fate.heard # SlavesOf(net)]
      BY <1>2, <2>1 DEF SendDelays
    <3> QED BY <3>1
  <2>3. ASSUME ~new.failed PROVE new.held = Exact(net)
    <3>1. took = SlavesOf(net)
      BY <2>2, <2>3
    <3>2. new.held = [i \in SlavesOf(net) |-> Exact(net)[i]]
      BY <2>2, <3>1
    <3> QED BY <3>2 DEF Exact
  <2>4. \A i \in SlavesOf(net) : new.held[i] \in {Exact(net)[i], before[i]}
    BY <2>2
  <2> QED BY <2>3, <2>4
<1> QED BY <1>3, <1>4

-----------------------------------------------------------------------------
(* The offset                                                                *)

(* What is said of an offset o which becomes q, for a measure m.             *)
Settles(o, m, q) ==
  /\ Distance(q, m) <= Distance(o, m)
  /\ Distance(o, m) >= Div => Distance(q, m) < Distance(o, m)

(* The offset moves by the rounded part of its error.                        *)
LEMMA SettlesBelow ==
  ASSUME NEW o \in Int, NEW m \in Int, NEW q \in Int, Div * q <= (Div - 1) * o + m, (Div - 1) * o + m < Div * q + Div
  PROVE  Settles(o, m, q)
<1>1. PICK D \in Nat \ {0} : D = Div
  BY ClockAssumption
<1>2. PICK d \in Int, e \in Int : d = o - q /\ e = o - m
  OBVIOUS
<1>3. PICK x \in Int, y \in Int, z \in Int : x = D * q /\ y = D * o /\ z = D * d
  OBVIOUS
<1>4. (D - 1) * o = y - o /\ z = y - x
  <2>1. (D - 1) * o = D * o - o
    OBVIOUS
  <2>2. D * d = D * o - D * q
    BY <1>2
  <2> QED BY <1>3, <2>1, <2>2
<1>5. e <= z /\ z < e + D
  <2>1. PICK f \in Int : f = (D - 1) * o /\ f = y - o
    BY <1>4
  <2>2. x <= f + m /\ f + m < x + D
    BY <1>1, <1>3, <2>1
  <2> QED BY <1>2, <1>4, <2>1, <2>2
<1>6. (d >= 1 => z >= D) /\ (d <= -1 => z <= -D) /\ (d >= 0 => z >= d) /\ (d <= 0 => z <= d)
  <2>1. d >= 1 => D * d >= D
    OBVIOUS
  <2>2. d <= -1 => D * d <= -D
    OBVIOUS
  <2>3. d >= 0 => D * d >= d
    OBVIOUS
  <2>4. d <= 0 => D * d <= d
    OBVIOUS
  <2> QED BY <1>3, <2>1, <2>2, <2>3, <2>4
<1>7. q = o - d /\ m = o - e
  BY <1>2
<1>8. CASE e >= 0
  <2>1. d >= 0
    BY <1>5, <1>6, <1>8
  <2>2. d <= e
    <3>1. ASSUME d >= e + 1 PROVE FALSE
      <4>1. PICK c \in Nat : c = d - 1
        BY <1>8, <3>1
      <4>2. D * c >= c
        OBVIOUS
      <4>3. D * d = D * c + D
        BY <4>1
      <4> QED BY <1>3, <1>5, <3>1, <4>1, <4>2, <4>3
    <3> QED BY <3>1
  <2>3. e >= D => d >= 1
    BY <1>5, <1>6, <2>1
  <2>4. Distance(o, m) = e /\ Distance(q, m) = e - d
    BY <1>7, <1>8, <2>2 DEF Distance
  <2> QED BY <1>1, <1>8, <2>1, <2>2, <2>3, <2>4 DEF Settles
<1>9. CASE e < 0
  <2>1. d <= 0
    BY <1>5, <1>6, <1>9
  <2>2. e <= d
    BY <1>5, <1>6, <2>1
  <2>3. -e >= D => d <= -1
    BY <1>5, <1>6, <2>1
  <2>4. Distance(o, m) = -e /\ Distance(q, m) = d - e
    BY <1>7, <1>9, <2>2 DEF Distance
  <2> QED BY <1>1, <1>9, <2>1, <2>2, <2>3, <2>4 DEF Settles
<1> QED BY <1>8, <1>9

(* What is measured is what the times are apart, although they wrap.         *)
LEMMA MeasuredIs ==
  ASSUME NEW a \in (-Far)..Far, NEW sent \in Nat, NEW delay \in Nat
  PROVE  Measured((sent + delay + a) % Wide, sent, delay) = a
<1>1. PICK W \in Nat \ {0}, f \in Nat : W = Wide /\ f = Far /\ 2 * f < W
  BY ClockAssumption
<1>2. PICK x \in Nat, e \in Int : x = sent + delay /\ e = a /\ -f <= e /\ e <= f
  BY <1>1
<1>3. PICK p \in Int, s \in 0..W - 1 : x + e = W * p + s /\ s = (x + e) % W
  <2>1. x + e = W * ((x + e) \div W) + ((x + e) % W) /\ (x + e) \div W \in Int /\ (x + e) % W \in 0..W - 1
    OBVIOUS
  <2> QED BY <2>1
<1>4. PICK w \in Int : w = W * p
  OBVIOUS
<1>5. Measured(s, sent, delay) = Signed((s - x) % W)
  BY <1>1, <1>2 DEF Measured
<1>6. CASE e >= 0
  <2>1. PICK k \in Int : k = -p
    OBVIOUS
  <2>2. W * k = -w
    BY <1>4, <2>1
  <2>3. s - x = W * k + e
    BY <1>3, <1>4, <2>2
  <2>4. e \in 0..W - 1
    BY <1>1, <1>2, <1>6
  <2>5. (s - x) % W = e
    BY <2>3, <2>4, ModIs
  <2>6. Signed(e) = e
    BY <1>1, <1>2, <1>6 DEF Signed
  <2> QED BY <1>1, <1>2, <1>3, <1>5, <2>5, <2>6
<1>7. CASE e < 0
  <2>1. PICK k \in Int : k = -p - 1
    OBVIOUS
  <2>2. W * k = -w - W
    BY <1>4, <2>1
  <2>3. s - x = W * k + (e + W)
    BY <1>3, <1>4, <2>2
  <2>4. e + W \in 0..W - 1
    BY <1>1, <1>2, <1>7
  <2>5. (s - x) % W = e + W
    BY <2>3, <2>4, ModIs
  <2>6. Signed(e + W) = e
    BY <1>1, <1>2, <1>7 DEF Signed
  <2> QED BY <1>1, <1>2, <1>3, <1>5, <2>5, <2>6
<1> QED BY <1>2, <1>6, <1>7

(* The offset moves towards the measure, whatever they are.                  *)
LEMMA FollowSettles ==
  ASSUME NEW o \in Int, NEW m \in Int
  PROVE  Settles(o, m, Follow(o, m))
<1>1. PICK D \in Nat \ {0} : D = Div
  BY ClockAssumption
<1>2. PICK a \in Int : a = (D - 1) * o + m
  OBVIOUS
<1>3. \A b \in Int : D * (b \div D) <= b /\ b < D * (b \div D) + D /\ b \div D \in Int
  OBVIOUS
<1>4. CASE a >= 0
  <2>1. PICK q \in Int : q = a \div D /\ D * q <= a /\ a < D * q + D
    BY <1>3
  <2>2. Follow(o, m) = q
    BY <1>1, <1>2, <1>4, <2>1 DEF Follow, Towards0
  <2>3. Settles(o, m, q)
    BY <1>1, <1>2, <2>1, SettlesBelow
  <2> QED BY <2>2, <2>3
<1>5. CASE a < 0
  <2>1. PICK b \in Int, oo \in Int, mm \in Int : b = -a /\ oo = -o /\ mm = -m
    OBVIOUS
  <2>2. PICK q \in Int : q = b \div D /\ D * q <= b /\ b < D * q + D
    BY <1>3
  <2>3. Follow(o, m) = -q
    BY <1>1, <1>2, <1>5, <2>1, <2>2 DEF Follow, Towards0
  <2>4. b = (D - 1) * oo + mm
    <3>1. (D - 1) * (-o) = -((D - 1) * o)
      OBVIOUS
    <3> QED BY <1>2, <2>1, <3>1
  <2>5. Settles(oo, mm, q)
    BY <1>1, <2>2, <2>4, SettlesBelow
  <2>6. Distance(oo, mm) = Distance(o, m) /\ Distance(q, mm) = Distance(-q, m)
    BY <2>1 DEF Distance
  <2>7. Settles(o, m, -q)
    BY <2>5, <2>6 DEF Settles
  <2> QED BY <2>3, <2>7
<1> QED BY <1>4, <1>5

(* The offset settles, whatever it and the times are (sync).                 *)
THEOREM OffsetHolds == OffsetSettles
<1> SUFFICES ASSUME NEW o \in (-Far)..Far, NEW a \in (-Far)..Far, NEW sent \in 0..(Wide - 1), NEW delay \in Links,
                    NEW time, time = (sent + delay + a) % Wide
             PROVE  /\ Settles(o, a, Sync(o, 1, time, sent, delay))
                    /\ Sync(o, 0, time, sent, delay) = o
  BY DEF OffsetSettles, Settles
<1>1. o \in Int /\ a \in Int /\ sent \in Nat /\ delay \in Nat
  BY ClockAssumption
<1>2. Measured(time, sent, delay) = a
  BY <1>1, MeasuredIs
<1>3. Sync(o, 1, time, sent, delay) = Follow(o, a)
  BY <1>2 DEF Sync
<1>4. Sync(o, 0, time, sent, delay) = o
  BY DEF Sync
<1> QED BY <1>1, <1>3, <1>4, FollowSettles

-----------------------------------------------------------------------------
(* The tree of the segment is rebuilt, whatever the segment is.              *)
THEOREM ClockTopologyHolds == Spec => []ClockTopology
<1>1. ClockTopology
  BY TopologyHolds DEF ClockTopology
<1> QED BY <1>1, PTL

(* Delays are exact, and the offset settles.                                 *)
THEOREM ClockDelaysHolds == Spec => []ClockDelays
<1>1. ClockDelays
  BY DelaysHold, HeldHold, OffsetHolds DEF ClockDelays
<1> QED BY <1>1, PTL
==============================================================================
