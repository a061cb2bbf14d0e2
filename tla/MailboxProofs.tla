---------------------------- MODULE MailboxProofs ----------------------------
(***************************************************************************)
(* Proofs about Mailbox, for any number of requests and losses: types, and *)
(* what the counter of mails ensures.                                      *)
(***************************************************************************)
EXTENDS Mailbox, TLAPS

LastServed == IF served = <<>> THEN 0 ELSE served[Len(served)]

(* The area holds the last request served or a later one, and a mail has the *)
(* counter of its request.                                                   *)
Once ==
  /\ ServedOnce
  /\ LastServed <= inbox.request /\ inbox.request <= asked
  /\ inbox.request = LastServed => inbox.count = last_count
  /\ inbox.request = asked => inbox.count = count
Form ==
  /\ outbox.mailbox_full => outbox.mail \in Mail
  /\ pc # "idle" => asked >= 1
TypeInv == TypeOK /\ Form /\ Once

LEMMA MailIs == NoMail \notin Mail
BY DEF Mail, NoMail

LEMMA InitType == Init => TypeInv
<1> SUFFICES ASSUME Init PROVE TypeInv
  OBVIOUS
<1>1. TypeOK
  <2>1. served \in Seq(1..MaxRequests) /\ outgoing \in Seq(Mail)
    BY DEF Init
  <2>2. results \in Seq([request : 1..MaxRequests, mail : Mail])
    BY DEF Init
  <2>3. asked \in 0..MaxRequests /\ losses \in 0..MaxLosses
    BY ConstantsAssumption DEF Init
  <2>4. inbox \in [mailbox_full : BOOLEAN, request : 0..MaxRequests, count : 0..7]
    BY ConstantsAssumption DEF Init
  <2>5. outbox \in [mailbox_full : BOOLEAN, mail : Mail \cup {NoMail}]
    BY DEF Init, Empty
  <2> QED BY <2>1, <2>2, <2>3, <2>4, <2>5 DEF Init, TypeOK
<1>2. Once
  BY DEF Init, Once, LastServed, ServedOnce
<1>3. Form
  BY DEF Init, Form, Empty
<1> QED BY <1>1, <1>2, <1>3 DEF TypeInv

LEMMA Elements ==
  ASSUME NEW S, NEW s \in Seq(S)
  PROVE  Len(s) \in Nat /\ DOMAIN s = 1..Len(s) /\ \A i \in 1..Len(s) : s[i] \in S
OBVIOUS

LEMMA ServedTypes ==
  ASSUME TypeOK
  PROVE  /\ Len(served) \in Nat /\ DOMAIN served = 1..Len(served)
         /\ \A i \in DOMAIN served : served[i] \in 1..MaxRequests
         /\ LastServed \in 0..MaxRequests
         /\ served # <<>> => Len(served) \in DOMAIN served /\ LastServed = served[Len(served)]
<1>1. served \in Seq(1..MaxRequests)
  BY DEF TypeOK
<1>2. Len(served) \in Nat /\ DOMAIN served = 1..Len(served)
  BY <1>1, Elements
<1>3. \A i \in DOMAIN served : served[i] \in 1..MaxRequests
  BY <1>1, <1>2, Elements
<1>4. served # <<>> => Len(served) \in DOMAIN served
  BY <1>1, <1>2
<1> QED BY <1>2, <1>3, <1>4, ConstantsAssumption DEF LastServed

(* Steps that leave alone what Once speaks of.                               *)
LEMMA OnceSame ==
  ASSUME Once, UNCHANGED <<served, inbox, last_count, asked, count>>
  PROVE  Once'
BY DEF Once, ServedOnce, LastServed

LEMMA NextType == TypeInv /\ [Next]_vars => TypeInv'
<1> SUFFICES ASSUME TypeInv, [Next]_vars PROVE TypeInv'
  OBVIOUS
<1> USE DEF TypeInv
<1>1. ASSUME WriteBegin PROVE TypeInv'
  <2>1. count' \in 0..7 /\ asked' = asked + 1 /\ asked' \in 0..MaxRequests /\ asked' >= 1
    BY <1>1, ConstantsAssumption DEF WriteBegin, TypeOK, NextCount
  <2>2. whole' \in BOOLEAN
    BY <1>1, ConstantsAssumption DEF WriteBegin
  <2>3. TypeOK'
    BY <1>1, <2>1, <2>2 DEF WriteBegin, TypeOK, slave
  <2>4. Once'
    BY <1>1, <2>1 DEF WriteBegin, Once, ServedOnce, LastServed, TypeOK, slave
  <2> QED BY <1>1, <2>1, <2>3, <2>4 DEF WriteBegin, Form, slave
<1>2. ASSUME WriteWait PROVE TypeInv'
  BY <1>2, OnceSame DEF WriteWait, TypeOK, Form, slave
<1>3. ASSUME ReadWait PROVE TypeInv'
  BY <1>3, OnceSame DEF ReadWait, TypeOK, Form, slave
<1>4. ASSUME RepeatWait PROVE TypeInv'
  BY <1>4, OnceSame DEF RepeatWait, TypeOK, Form, slave
<1>5. ASSUME NEW fate \in Fate, Write(fate) PROVE TypeInv'
  <2>1. losses' \in 0..MaxLosses
    BY <1>5, ConstantsAssumption DEF Write, Pdu, TypeOK
  <2>2. \/ inbox' = inbox
        \/ inbox' = [mailbox_full |-> whole, request |-> asked, count |-> count]
    BY <1>5 DEF Write
  <2>3. inbox' \in [mailbox_full : BOOLEAN, request : 0..MaxRequests, count : 0..7]
    BY <2>2 DEF TypeOK
  <2>4. written' \in BOOLEAN
    BY <1>5 DEF Write, Fate, TypeOK
  <2>5. pc' \in {"end", "read_wait", "write"}
    BY <1>5 DEF Write
  <2>6. TypeOK'
    BY <1>5, <2>1, <2>3, <2>4, <2>5 DEF Write, TypeOK
  <2>7. Once'
    <3>1. UNCHANGED <<served, last_count, asked, count>>
      BY <1>5 DEF Write
    <3>2. CASE inbox' = inbox
      BY <3>1, <3>2, OnceSame
    <3>3. CASE inbox' = [mailbox_full |-> whole, request |-> asked, count |-> count]
      <4>1. LastServed' = LastServed /\ LastServed <= asked
        BY <3>1, ServedTypes DEF LastServed, Once, TypeOK
      <4>2. asked = LastServed => count = last_count
        BY ServedTypes DEF Once, TypeOK
      <4> QED BY <3>1, <3>3, <4>1, <4>2 DEF Once, ServedOnce, TypeOK
    <3> QED BY <2>2, <3>2, <3>3
  <2>8. asked >= 1
    BY <1>5 DEF Write, Form
  <2> QED BY <1>5, <2>6, <2>7, <2>8 DEF Write, Form
<1>6. ASSUME NEW fate \in Fate, WriteEnd(fate) PROVE TypeInv'
  <2>1. losses' \in 0..MaxLosses
    BY <1>6, ConstantsAssumption DEF WriteEnd, Pdu, TypeOK
  <2>2. /\ inbox' \in [mailbox_full : BOOLEAN, request : 0..MaxRequests, count : 0..7]
        /\ inbox'.request = inbox.request /\ inbox'.count = inbox.count
    BY <1>6 DEF WriteEnd, TypeOK, Fate
  <2>3. TypeOK'
    BY <1>6, <2>1, <2>2 DEF WriteEnd, TypeOK
  <2>4. Once'
    BY <1>6, <2>2 DEF WriteEnd, Once, ServedOnce, LastServed
  <2>5. asked >= 1
    BY <1>6 DEF WriteEnd, Form
  <2> QED BY <1>6, <2>3, <2>4, <2>5 DEF WriteEnd, Form
<1>7. ASSUME NEW mail \in Mail, Return(mail), asked >= 1
      PROVE  results' \in Seq([request : 1..MaxRequests, mail : Mail])
  BY <1>7 DEF Return, TypeOK
<1>8. ASSUME NEW fate \in Fate, ReadHeader(fate) PROVE TypeInv'
  <2>1. losses' \in 0..MaxLosses /\ asked >= 1
    BY <1>8, ConstantsAssumption DEF ReadHeader, Pdu, TypeOK, Form
  <2>2. results' \in Seq([request : 1..MaxRequests, mail : Mail])
    BY <1>7, <1>8, <2>1 DEF ReadHeader, TypeOK, Form
  <2>3. received' \in Mail \cup {NoMail}
    BY <1>8 DEF ReadHeader, TypeOK
  <2>4. pc' \in {"idle", "last", "data", "repeat"}
    BY <1>8 DEF ReadHeader, Return
  <2>5. TypeOK'
    BY <1>8, <2>1, <2>2, <2>3, <2>4 DEF ReadHeader, TypeOK, slave
  <2>6. Once'
    BY <1>8, OnceSame DEF ReadHeader, slave
  <2> QED BY <1>8, <2>1, <2>5, <2>6 DEF ReadHeader, Form, slave
<1>9. ASSUME NEW fate \in Fate, ReadData(fate) PROVE TypeInv'
  <2>1. losses' \in 0..MaxLosses /\ asked >= 1
    BY <1>9, ConstantsAssumption DEF ReadData, Pdu, TypeOK, Form
  <2>2. /\ outbox' \in [mailbox_full : BOOLEAN, mail : Mail \cup {NoMail}]
        /\ outbox'.mail = outbox.mail /\ (outbox'.mailbox_full => outbox.mailbox_full)
    BY <1>9 DEF ReadData, TypeOK, Fate
  <2>3. received' \in Mail \cup {NoMail}
    BY <1>9 DEF ReadData, TypeOK
  <2>4. TypeOK'
    BY <1>9, <2>1, <2>2, <2>3 DEF ReadData, TypeOK
  <2>5. Once'
    BY <1>9, OnceSame DEF ReadData
  <2> QED BY <1>9, <2>1, <2>2, <2>4, <2>5 DEF ReadData, Form
<1>10. ASSUME NEW fate \in Fate, ReadLast(fate) PROVE TypeInv'
  <2>1. losses' \in 0..MaxLosses /\ asked >= 1
    BY <1>10, ConstantsAssumption DEF ReadLast, Pdu, TypeOK, Form
  <2>2. /\ outbox' \in [mailbox_full : BOOLEAN, mail : Mail \cup {NoMail}]
        /\ outbox'.mail = outbox.mail /\ (outbox'.mailbox_full => outbox.mailbox_full)
    BY <1>10 DEF ReadLast, TypeOK, Fate
  <2>3. results' \in Seq([request : 1..MaxRequests, mail : Mail]) /\ pc' \in {"idle", "repeat"}
    BY <1>7, <1>10, <2>1 DEF ReadLast, TypeOK, Return
  <2>4. TypeOK'
    BY <1>10, <2>1, <2>2, <2>3 DEF ReadLast, TypeOK
  <2>5. Once'
    BY <1>10, OnceSame DEF ReadLast
  <2> QED BY <1>10, <2>1, <2>2, <2>4, <2>5 DEF ReadLast, Form
<1>11. ASSUME NEW fate \in Fate, Repeat(fate) PROVE TypeInv'
  <2>1. losses' \in 0..MaxLosses /\ asked >= 1
    BY <1>11, ConstantsAssumption DEF Repeat, Pdu, TypeOK, Form
  <2>2. repeat' \in BOOLEAN
    BY <1>11 DEF Repeat, TypeOK, Fate
  <2>3. TypeOK'
    BY <1>11, <2>1, <2>2 DEF Repeat, TypeOK
  <2>4. Once'
    BY <1>11, OnceSame DEF Repeat
  <2> QED BY <1>11, <2>1, <2>3, <2>4 DEF Repeat, Form
<1>12. ASSUME Cancel PROVE TypeInv'
  BY <1>12, OnceSame DEF Cancel, TypeOK, Form, slave
<1>13. ASSUME Serve PROVE TypeInv'
  <2>1. /\ inbox' \in [mailbox_full : BOOLEAN, request : 0..MaxRequests, count : 0..7]
        /\ inbox'.request = inbox.request /\ inbox'.count = inbox.count
    BY <1>13 DEF Serve, TypeOK
  <2>2. UNCHANGED <<master, losses, outbox, repeat, repeat_ack>>
    BY <1>13 DEF Serve
  <2>3. Form'
    BY <2>2 DEF Form, master
  <2>4. CASE inbox.count = last_count
    <3>1. UNCHANGED <<last_count, served, outgoing>>
      BY <1>13, <2>4 DEF Serve
    <3>2. TypeOK'
      BY <2>1, <2>2, <3>1 DEF TypeOK, master
    <3>3. Once'
      BY <2>1, <2>2, <3>1 DEF Once, ServedOnce, LastServed, master
    <3> QED BY <2>3, <3>2, <3>3
  <2>5. CASE inbox.count # last_count
    <3>1. PICK kind \in Responses : outgoing' = Append(outgoing, [request |-> inbox.request, kind |-> kind])
      BY <1>13, <2>5 DEF Serve
    <3>2. served' = Append(served, inbox.request) /\ last_count' = inbox.count
      BY <1>13, <2>5 DEF Serve
    <3>3. LastServed < inbox.request /\ inbox.request \in 0..MaxRequests /\ LastServed \in 0..MaxRequests
      BY <2>5, ConstantsAssumption DEF Once, TypeOK, LastServed
    <3>4. inbox.request \in 1..MaxRequests
      BY <3>3
    <3>5. TypeOK'
      BY <2>1, <2>2, <3>1, <3>2, <3>4 DEF TypeOK, master, Mail
    <3>6. LastServed' = inbox.request
      BY <3>2 DEF LastServed, TypeOK
    <3>7. ASSUME NEW i \in DOMAIN served PROVE served[i] <= LastServed
      <4>1. served # <<>> /\ i \in 1..Len(served) /\ served[i] \in 1..MaxRequests
        BY ServedTypes
      <4>2. CASE i = Len(served)
        BY <4>1, <4>2 DEF LastServed
      <4>3. CASE i < Len(served)
        <5>1. Len(served) \in DOMAIN served /\ served[i] < served[Len(served)]
          BY <4>1, <4>3, ServedTypes DEF Once, ServedOnce
        <5> QED BY <4>1, <5>1, <3>3, ServedTypes
      <4> QED BY <4>1, <4>2, <4>3, ServedTypes
    <3>8. ServedOnce'
      <4>1. ASSUME NEW i \in DOMAIN served', NEW k \in DOMAIN served', i < k
            PROVE  served'[i] < served'[k]
        <5>1. Len(served) \in Nat /\ DOMAIN served' = 1..(Len(served) + 1) /\ DOMAIN served = 1..Len(served)
          BY <3>2, ServedTypes DEF TypeOK
        <5>2. i \in DOMAIN served /\ served'[i] = served[i] /\ served[i] \in Nat
          <6>1. i \in 1..Len(served) /\ k \in 1..(Len(served) + 1)
            BY <4>1, <5>1
          <6> QED BY <3>2, <5>1, <6>1, ServedTypes DEF TypeOK
        <5>3. CASE k \in DOMAIN served
          BY <3>2, <4>1, <5>1, <5>2, <5>3 DEF Once, ServedOnce, TypeOK
        <5>4. CASE k = Len(served) + 1
          BY <3>2, <3>3, <3>7, <5>2, <5>4 DEF TypeOK
        <5> QED BY <5>1, <5>3, <5>4
      <4> QED BY <4>1 DEF ServedOnce
    <3>9. Once'
      BY <2>1, <2>2, <3>2, <3>6, <3>8 DEF Once, master, TypeOK
    <3> QED BY <2>3, <3>5, <3>9
  <2> QED BY <2>4, <2>5
<1>14. ASSUME Respond PROVE TypeInv'
  <2>1. Head(outgoing) \in Mail /\ Tail(outgoing) \in Seq(Mail)
    BY <1>14 DEF Respond, TypeOK
  <2>2. TypeOK'
    BY <1>14, <2>1 DEF Respond, TypeOK, master
  <2>3. Once'
    BY <1>14, OnceSame DEF Respond, master
  <2> QED BY <1>14, <2>1, <2>2, <2>3 DEF Respond, Form, master
<1>15. ASSUME ServeRepeat PROVE TypeInv'
  <2>1. /\ outbox' \in [mailbox_full : BOOLEAN, mail : Mail \cup {NoMail}]
        /\ outbox'.mail = outbox.mail /\ (outbox'.mailbox_full => outbox.mail \in Mail)
    BY <1>15 DEF ServeRepeat, TypeOK, Form
  <2>2. TypeOK'
    BY <1>15, <2>1 DEF ServeRepeat, TypeOK, master
  <2>3. Once'
    BY <1>15, OnceSame DEF ServeRepeat, master
  <2> QED BY <1>15, <2>1, <2>2, <2>3 DEF ServeRepeat, Form, master
<1>16. ASSUME UNCHANGED vars PROVE TypeInv'
  BY <1>16, OnceSame DEF vars, master, slave, TypeOK, Form
<1> HIDE DEF TypeInv
<1> QED BY <1>1, <1>2, <1>3, <1>4, <1>5, <1>6, <1>8, <1>9, <1>10, <1>11, <1>12, <1>13, <1>14,
           <1>15, <1>16 DEF Next, Master, Done

LEMMA TypeInvariant == Spec => []TypeInv
BY InitType, NextType, PTL DEF Spec

(* The state keeps its types: counters stay in range, what is returned is a  *)
(* mail.                                                                     *)
THEOREM TypeCorrect == Spec => []TypeOK
<1>1. TypeInv => TypeOK
  BY DEF TypeInv
<1> QED BY TypeInvariant, <1>1, PTL

(* However often mails are lost and sent again, exceptions, cancelled        *)
(* requests and any losses included, a request is executed at most once and  *)
(* in order.                                                                 *)
THEOREM ExecutedOnce == Spec => []ServedOnce
<1>1. TypeInv => ServedOnce
  BY DEF TypeInv, Once
<1> QED BY TypeInvariant, <1>1, PTL

-----------------------------------------------------------------------------
(* Delivery, when no request is dropped *)

CountOf(n) == IF n = 0 THEN 0 ELSE ((n - 1) % 7) + 1

LEMMA CountNext ==
  ASSUME NEW n \in Nat
  PROVE  NextCount(CountOf(n)) = CountOf(n + 1) /\ CountOf(n + 1) # CountOf(n)
<1>1. CASE n = 0
  BY <1>1 DEF NextCount, CountOf
<1>2. CASE n > 0
  <2>1. PICK q \in Int, r \in 0..6 : n - 1 = (7 * q) + r
    <3> DEFINE m == n - 1
    <3>1. m \in Int /\ m % 7 \in 0..6 /\ m \div 7 \in Int /\ m = (7 * (m \div 7)) + (m % 7)
      <4>1. m \in Int
        BY <1>2
      <4> HIDE DEF m
      <4> QED BY <4>1, SMT
    <3> HIDE DEF m
    <3>2. \E q \in Int, r \in 0..6 : m = (7 * q) + r
      BY <3>1
    <3> QED BY <3>2 DEF m
  <2>2. (n - 1) % 7 = r
    BY <2>1
  <2>3. n % 7 = IF r = 6 THEN 0 ELSE r + 1
    BY <2>1
  <2>4. (r + 1) % 7 = IF r = 6 THEN 0 ELSE r + 1
    BY <2>1
  <2> QED BY <1>2, <2>1, <2>2, <2>3, <2>4 DEF NextCount, CountOf
<1> QED BY <1>1, <1>2

Reading == {"header", "data", "last", "repeat", "repeat_wait"}

(* The last request made is served, or in the area with a counter the slave  *)
(* will not take for that of a mail sent again: it was not before.           *)
Served(n) ==
  \/ LastServed = n
  \/ inbox.mailbox_full /\ inbox.request = n /\ LastServed = n - 1
Counted ==
  count = CountOf(asked) /\ last_count = CountOf(LastServed) /\ inbox.count = CountOf(inbox.request)
Delivery ==
  /\ Counted
  /\ pc \in Reading \cup {"idle", "read_wait"} => Served(asked)
  /\ pc = "write_wait" => Served(asked - 1) /\ inbox.request <= asked - 1
  /\ pc \in {"write", "end"} => LastServed \in {asked - 1, asked}
  /\ pc = "end" /\ written => inbox.request = asked

LEMMA InitDelivery == Init => Delivery
BY DEF Init, Delivery, Counted, Served, CountOf, LastServed, Reading

LEMMA DeliverySame ==
  ASSUME Delivery, UNCHANGED <<served, inbox, last_count, asked, count>>,
         pc \in Reading \cup {"idle", "read_wait"} /\ pc' \in Reading \cup {"idle", "read_wait"}
  PROVE  Delivery'
BY DEF Delivery, Counted, Served, LastServed, Reading

LEMMA NextDelivery ==
  ASSUME TypeInv, TypeInv', Delivery, [Next]_vars, Abandon = {}
  PROVE  Delivery'
<1>1. /\ LastServed \in Nat /\ asked \in Nat /\ inbox.request \in Nat
      /\ LastServed <= inbox.request /\ inbox.request <= asked
  BY ServedTypes, ConstantsAssumption DEF TypeInv, Once, TypeOK
<1>2. ASSUME WriteBegin PROVE Delivery'
  <2>1. /\ asked' = asked + 1 /\ count' = NextCount(count) /\ pc = "idle" /\ pc' = "write_wait"
        /\ UNCHANGED <<inbox, served, last_count>>
    BY <1>2 DEF WriteBegin, slave
  <2>2. Counted'
    BY <1>1, <2>1, CountNext DEF Delivery, Counted, LastServed
  <2> QED BY <1>1, <2>1, <2>2 DEF Delivery, Served, LastServed, Reading
<1>3. ASSUME WriteWait PROVE Delivery'
  <2>1. UNCHANGED <<served, inbox, last_count, asked, count>> /\ pc = "write_wait" /\ pc' = "write"
    BY <1>3 DEF WriteWait, slave
  <2>2. LastServed = asked - 1
    BY <1>3, <2>1 DEF WriteWait, Delivery, Served
  <2> QED BY <2>1, <2>2 DEF Delivery, Counted, LastServed, Reading
<1>4. ASSUME NEW fate \in Fate, Write(fate) PROVE Delivery'
  <2> DEFINE accepted == fate.done /\ ~inbox.mailbox_full
  <2>1. /\ UNCHANGED <<served, last_count, asked, count>> /\ pc = "write"
        /\ inbox' = IF accepted THEN [mailbox_full |-> whole, request |-> asked, count |-> count] ELSE inbox
        /\ written' = (fate.seen /\ accepted)
        /\ pc' = IF ~whole THEN "end" ELSE IF written' THEN "read_wait" ELSE "write"
    BY <1>4 DEF Write
  <2>2. LastServed' = LastServed /\ LastServed \in {asked - 1, asked}
    BY <2>1 DEF Delivery, LastServed
  <2>3. CASE accepted
    <3>1. inbox'.mailbox_full = whole /\ inbox'.request = asked /\ inbox'.count = count
      BY <2>1, <2>3
    <3>2. Counted'
      BY <2>1, <2>2, <3>1 DEF Delivery, Counted
    <3> QED BY <2>1, <2>2, <3>1, <3>2 DEF Delivery, Served, Reading
  <2>4. CASE ~accepted
    <3>1. inbox' = inbox /\ ~written' /\ pc' \in {"end", "write"}
      BY <2>1, <2>4
    <3>2. Counted'
      BY <2>1, <2>2, <3>1 DEF Delivery, Counted
    <3> QED BY <2>1, <2>2, <3>1, <3>2 DEF Delivery, Reading
  <2> QED BY <2>3, <2>4
<1>5. ASSUME NEW fate \in Fate, WriteEnd(fate) PROVE Delivery'
  <2>1. /\ UNCHANGED <<served, last_count, asked, count, written>> /\ pc = "end"
        /\ inbox'.request = inbox.request /\ inbox'.count = inbox.count
        /\ inbox'.mailbox_full = (inbox.mailbox_full \/ fate.done)
    BY <1>5 DEF WriteEnd, TypeInv, TypeOK
  <2>2. LastServed' = LastServed /\ LastServed \in {asked - 1, asked}
    BY <2>1 DEF Delivery, LastServed
  <2>3. Counted'
    BY <2>1, <2>2 DEF Delivery, Counted
  <2>4. CASE pc' = "write"
    BY <2>1, <2>2, <2>3, <2>4 DEF Delivery, Reading
  <2>5. CASE pc' = "read_wait"
    <3>1. written /\ fate.done
      BY <1>5, <2>5 DEF WriteEnd, Fate
    <3> QED BY <2>1, <2>2, <2>3, <2>5, <3>1 DEF Delivery, Served, Reading
  <2> QED BY <1>5, <2>4, <2>5 DEF WriteEnd
<1>6. ASSUME Serve PROVE Delivery'
  <2>1. /\ UNCHANGED <<pc, asked, count, written>> /\ inbox.mailbox_full
        /\ inbox'.request = inbox.request /\ inbox'.count = inbox.count /\ ~inbox'.mailbox_full
    BY <1>6 DEF Serve, master, TypeInv, TypeOK
  <2>2. CASE inbox.count = last_count
    <3>1. UNCHANGED <<served, last_count>> /\ LastServed' = LastServed
      BY <1>6, <2>2 DEF Serve, LastServed
    <3>2. \A n \in Nat : ~(inbox.request = n + 1 /\ LastServed = n)
      BY <1>1, <2>2, CountNext DEF Delivery, Counted
    <3>3. \A n \in Int : Served(n) => LastServed = n
      BY <1>1, <3>2 DEF Served
    <3>4. Counted'
      BY <2>1, <3>1 DEF Delivery, Counted
    <3> QED BY <1>1, <2>1, <3>1, <3>3, <3>4 DEF Delivery, Served
  <2>3. CASE inbox.count # last_count
    <3>1. served' = Append(served, inbox.request) /\ last_count' = inbox.count
      BY <1>6, <2>3 DEF Serve
    <3>2. LastServed' = inbox.request /\ LastServed < inbox.request
      <4>1. LastServed' = inbox.request
        <5>1. served \in Seq(1..MaxRequests)
          BY DEF TypeInv, TypeOK
        <5>2. Len(served') = Len(served) + 1 /\ served'[Len(served) + 1] = inbox.request /\ Len(served) \in Nat
          BY <3>1, <5>1
        <5>3. served' # <<>>
          BY <5>2
        <5> QED BY <5>2, <5>3 DEF LastServed
      <4>2. LastServed # inbox.request
        BY <2>3 DEF Delivery, Counted
      <4> QED BY <1>1, <4>1, <4>2
    <3>3. Counted'
      BY <2>1, <3>1, <3>2 DEF Delivery, Counted
    <3>4. pc \in {"write", "end"} => inbox.request = asked
      BY <1>1, <3>2 DEF Delivery
    <3>5. \A n \in Int : Served(n) /\ inbox.request <= n => LastServed' = n
      BY <1>1, <3>2 DEF Served
    <3> QED BY <1>1, <2>1, <3>2, <3>3, <3>4, <3>5 DEF Delivery, Served
  <2> QED BY <2>2, <2>3
<1>7. ASSUME Respond \/ ServeRepeat \/ UNCHANGED vars PROVE Delivery'
  BY <1>7 DEF Respond, ServeRepeat, vars, master, slave, Delivery, Counted, Served, LastServed
<1>8. ASSUME ReadWait \/ RepeatWait PROVE Delivery'
  BY <1>8, DeliverySame DEF ReadWait, RepeatWait, slave, Reading
<1>9. ASSUME NEW fate \in Fate, ReadHeader(fate) PROVE Delivery'
  BY <1>9, DeliverySame DEF ReadHeader, Return, slave, Reading
<1>10. ASSUME NEW fate \in Fate, ReadData(fate) PROVE Delivery'
  BY <1>10, DeliverySame DEF ReadData, Reading
<1>11. ASSUME NEW fate \in Fate, ReadLast(fate) PROVE Delivery'
  BY <1>11, DeliverySame DEF ReadLast, Return, Reading
<1>12. ASSUME NEW fate \in Fate, Repeat(fate) PROVE Delivery'
  BY <1>12, DeliverySame DEF Repeat, Reading
<1>13. ~Cancel
  BY DEF Cancel
<1> QED BY <1>2, <1>3, <1>4, <1>5, <1>6, <1>7, <1>8, <1>9, <1>10, <1>11, <1>12, <1>13
        DEF Next, Master, Done

(* When `write` returns, the slave executed the request or will: the counter *)
(* that wraps after 7 mails is never that of a request before it, as long as *)
(* no request is dropped halfway.                                            *)
THEOREM WritesDelivered == Abandon = {} => (Spec => []WriteDelivers)
<1> SUFFICES ASSUME Abandon = {} PROVE Spec => []WriteDelivers
  OBVIOUS
<1>1. TypeInv /\ TypeInv' /\ Delivery /\ [Next]_vars => Delivery'
  BY NextDelivery
<1>2. TypeInv /\ Delivery => WriteDelivers
  <2> SUFFICES ASSUME TypeInv, Delivery, pc \in Reading \cup {"read_wait"}
               PROVE  \/ \E i \in DOMAIN served : served[i] = asked
                      \/ inbox.mailbox_full /\ inbox.request = asked /\ inbox.count # last_count
    BY DEF WriteDelivers, Reading
  <2>1. asked >= 1 /\ asked \in Nat /\ LastServed \in Nat
    BY ServedTypes, ConstantsAssumption DEF TypeInv, Form, Reading, TypeOK
  <2>2. CASE LastServed = asked
    <3>1. served # <<>>
      BY <2>1, <2>2 DEF LastServed
    <3> QED BY <2>2, <3>1, ServedTypes DEF TypeInv
  <2>3. CASE inbox.mailbox_full /\ inbox.request = asked /\ LastServed = asked - 1
    BY <2>1, <2>3, CountNext DEF Delivery, Counted
  <2> QED BY <2>2, <2>3 DEF Delivery, Served
<1> QED BY TypeInvariant, InitDelivery, <1>1, <1>2, PTL DEF Spec

-----------------------------------------------------------------------------
(* The service, when no request is dropped, every request gets a response    *)
(* and the acknowledge of a mail is not lost                                 *)

Reliable == Abandon = {} /\ "exception" \notin Responses /\ "last" \notin Lossy

Quiet == outgoing = <<>> /\ ~outbox.mailbox_full

(* The response of the last request is on its way, alone.                    *)
Answering ==
  /\ LastServed = asked
  /\ \/ \E mail \in Mail : outgoing = <<mail>> /\ mail.request = asked /\ ~outbox.mailbox_full
     \/ outgoing = <<>> /\ outbox.mailbox_full /\ outbox.mail.request = asked

(* No request is skipped, no response is left behind: the area of responses  *)
(* is empty before a request is written, and `repeat` only brings back the   *)
(* response to the last request.                                             *)
Progress ==
  /\ pc = "idle" => LastServed = asked /\ Quiet
  /\ pc = "write_wait" => LastServed = asked - 1 /\ Quiet
  /\ pc \in {"write", "end", "read_wait"} => (LastServed = asked - 1 /\ Quiet) \/ Answering
  /\ pc \in Reading =>
       LastServed = asked /\ outgoing = <<>> /\ outbox.mail \in Mail /\ outbox.mail.request = asked
  /\ pc = "last" => received = NoMail \/ received.request = asked
Counting ==
  /\ Len(served) = LastServed
  /\ Len(results) = IF pc = "idle" THEN asked ELSE asked - 1
  /\ OwnResponse
Repeating ==
  /\ repeat_ack => repeat
  /\ pc \notin {"repeat", "repeat_wait"} => repeat = repeat_ack
Exchange == Progress /\ Counting /\ Repeating

LEMMA InitExchange == Init => Exchange
<1> SUFFICES ASSUME Init PROVE Exchange
  OBVIOUS
<1>1. pc = "idle" /\ LastServed = 0 /\ asked = 0 /\ Quiet
  BY DEF Init, LastServed, Quiet, Empty
<1>2. Progress
  BY <1>1 DEF Progress, Reading
<1>3. Len(served) = 0 /\ Len(results) = 0 /\ OwnResponse
  BY DEF Init, OwnResponse
<1>4. Repeating
  BY DEF Init, Repeating
<1> QED BY <1>1, <1>2, <1>3, <1>4 DEF Exchange, Counting

(* Steps inside a call, that make the slave do nothing.                      *)
LEMMA Inside ==
  ASSUME Exchange, pc # "idle", pc' # "idle", UNCHANGED <<asked, results, served>>
  PROVE  Counting' /\ LastServed' = LastServed /\ UNCHANGED <<asked, Len(served), Len(results)>>
BY DEF Exchange, Counting, OwnResponse, LastServed

(* A call that ends, with a mail that answers its request.                   *)
LEMMA Returns ==
  ASSUME TypeOK, Exchange, pc \in Reading, NEW mail \in Mail, mail.request = asked,
         asked \in 1..MaxRequests, Return(mail), UNCHANGED <<asked, served>>
  PROVE  /\ Counting' /\ LastServed' = LastServed /\ pc' = "idle"
         /\ Len(results) = asked - 1 /\ Len(results') = asked /\ Len(served) = asked
<1>1. results' = Append(results, [request |-> asked, mail |-> mail]) /\ pc' = "idle"
  BY DEF Return
<1>2. results \in Seq([request : 1..MaxRequests, mail : Mail])
  BY DEF TypeOK
<1>3. Len(results) = asked - 1 /\ Len(served) = asked /\ pc # "idle"
  BY DEF Exchange, Counting, Progress, Reading
<1>4. Len(results') = asked
  BY <1>1, <1>2, <1>3
<1>5. OwnResponse'
  <2>1. ASSUME NEW i \in DOMAIN results' PROVE results'[i].mail.request = results'[i].request
    <3>1. CASE i = Len(results) + 1
      BY <1>1, <1>2, <3>1
    <3>2. CASE i # Len(results) + 1
      <4>1. i \in DOMAIN results /\ results'[i] = results[i]
        BY <1>1, <1>2, <3>2
      <4> QED BY <4>1 DEF Exchange, Counting, OwnResponse
    <3> QED BY <3>1, <3>2
  <2> QED BY <2>1 DEF OwnResponse
<1> QED BY <1>1, <1>3, <1>4, <1>5 DEF Exchange, Counting, LastServed

ServiceStep == Service!Next \/ UNCHANGED <<asked, Len(served), Len(results)>>

LEMMA NextExchange ==
  ASSUME Reliable, TypeInv, TypeInv', Delivery, Exchange, [Next]_vars
  PROVE  Exchange' /\ ServiceStep
<1> DEFINE Goal == Exchange' /\ ServiceStep
<1>1. /\ LastServed \in Nat /\ asked \in 0..MaxRequests /\ asked \in Nat /\ inbox.request \in Nat
      /\ LastServed <= inbox.request /\ inbox.request <= asked
      /\ pc # "idle" => asked \in 1..MaxRequests
  BY ServedTypes, ConstantsAssumption DEF TypeInv, Once, TypeOK, Form
<1>2. ASSUME WriteBegin PROVE Goal
  <2>1. /\ pc = "idle" /\ pc' = "write_wait" /\ asked < MaxRequests /\ asked' = asked + 1
        /\ UNCHANGED <<results, served, outgoing, outbox, repeat, repeat_ack>>
    BY <1>2 DEF WriteBegin, slave
  <2>2. Counting'
    BY <1>1, <2>1 DEF Exchange, Counting, OwnResponse, LastServed
  <2>3. Progress'
    BY <1>1, <2>1 DEF Exchange, Progress, Quiet, LastServed, Reading
  <2>4. Repeating'
    BY <2>1 DEF Exchange, Repeating
  <2>5. Service!Ask
    BY <2>1 DEF Exchange, Counting, Service!Ask
  <2> QED BY <2>2, <2>3, <2>4, <2>5 DEF Exchange, ServiceStep, Service!Next
<1>3. ASSUME WriteWait \/ ReadWait \/ RepeatWait PROVE Goal
  <2>1. /\ pc # "idle" /\ pc' # "idle"
        /\ UNCHANGED <<asked, results, received, served, outgoing, outbox, repeat, repeat_ack>>
    BY <1>3 DEF WriteWait, ReadWait, RepeatWait, slave
  <2>2. Progress'
    <3>1. CASE WriteWait
      BY <2>1, <3>1 DEF WriteWait, Exchange, Progress, Quiet, LastServed, Reading
    <3>2. CASE ReadWait
      BY <2>1, <3>2 DEF ReadWait, Exchange, Progress, Quiet, Answering, LastServed, Reading, TypeInv, Form
    <3>3. CASE RepeatWait
      BY <2>1, <3>3 DEF RepeatWait, Exchange, Progress, LastServed, Reading
    <3> QED BY <1>3, <3>1, <3>2, <3>3
  <2>3. Repeating'
    BY <1>3, <2>1 DEF WriteWait, ReadWait, RepeatWait, Exchange, Repeating, TypeInv, TypeOK
  <2> QED BY <2>1, <2>2, <2>3, Inside DEF Exchange, ServiceStep
<1>4. ASSUME NEW fate \in Fate, Write(fate) \/ WriteEnd(fate) PROVE Goal
  <2>1. /\ pc \in {"write", "end"} /\ pc' \in {"write", "end", "read_wait"}
        /\ UNCHANGED <<asked, results, received, served, outgoing, outbox, repeat, repeat_ack>>
    BY <1>4 DEF Write, WriteEnd
  <2>2. Progress'
    BY <2>1 DEF Exchange, Progress, Quiet, Answering, LastServed, Reading
  <2>3. Repeating'
    BY <2>1 DEF Exchange, Repeating
  <2> QED BY <2>1, <2>2, <2>3, Inside DEF Exchange, ServiceStep
<1>5. ASSUME NEW fate \in Fate, ReadHeader(fate) PROVE Goal
  <2>1. /\ pc = "header"
        /\ UNCHANGED <<asked, served, outgoing, outbox, repeat, repeat_ack>>
    BY <1>5 DEF ReadHeader, slave
  <2>2. outbox.mail.kind # "exception"
    BY <2>1 DEF Exchange, Progress, Reading, Reliable, Mail
  <2>3. /\ pc' \in {"last", "data", "repeat"} /\ received' \in {outbox.mail, NoMail}
        /\ UNCHANGED results
    BY <1>5, <2>2 DEF ReadHeader
  <2>4. Progress'
    BY <2>1, <2>3 DEF Exchange, Progress, LastServed, Reading
  <2>5. Repeating'
    BY <2>1, <2>3 DEF Exchange, Repeating
  <2> QED BY <2>1, <2>3, <2>4, <2>5, Inside DEF Exchange, ServiceStep
<1>6. ASSUME NEW fate \in Fate, ReadData(fate) PROVE Goal
  <2>1. /\ pc = "data" /\ pc' = "last" /\ received' \in {outbox.mail, NoMail}
        /\ UNCHANGED <<asked, results, served, outgoing, repeat, repeat_ack>>
    BY <1>6 DEF ReadData
  <2>2. outbox'.mail = outbox.mail
    BY <1>6 DEF ReadData, TypeInv, TypeOK
  <2>3. Progress'
    BY <2>1, <2>2 DEF Exchange, Progress, LastServed, Reading
  <2>4. Repeating'
    BY <2>1 DEF Exchange, Repeating
  <2> QED BY <2>1, <2>3, <2>4, Inside DEF Exchange, ServiceStep
<1>7. ASSUME NEW fate \in Fate, ReadLast(fate) PROVE Goal
  <2>1. pc = "last" /\ UNCHANGED <<asked, served, received, outgoing, repeat, repeat_ack>>
    BY <1>7 DEF ReadLast
  <2>2. fate.done
    BY <1>7 DEF ReadLast, Pdu, Fate, Reliable
  <2>3. outbox'.mail = outbox.mail /\ ~outbox'.mailbox_full
    BY <1>7, <2>2 DEF ReadLast, TypeInv, TypeOK
  <2>4. Repeating'
    BY <1>7, <2>1 DEF ReadLast, Return, Exchange, Repeating
  <2>5. CASE received = NoMail
    <3>1. pc' = "repeat" /\ UNCHANGED results
      BY <1>7, <2>5 DEF ReadLast
    <3>2. Progress'
      BY <2>1, <2>3, <3>1 DEF Exchange, Progress, LastServed, Reading
    <3> QED BY <2>1, <2>4, <3>1, <3>2, Inside DEF Exchange, ServiceStep
  <2>6. CASE received # NoMail
    <3>1. received \in Mail /\ received.request = asked /\ asked \in 1..MaxRequests
      BY <1>1, <2>1, <2>6 DEF TypeInv, TypeOK, Exchange, Progress
    <3>2. Return(received)
      BY <1>7, <2>6 DEF ReadLast
    <3>3. /\ Counting' /\ LastServed' = LastServed /\ pc' = "idle"
          /\ Len(results) = asked - 1 /\ Len(results') = asked /\ Len(served) = asked
      BY <2>1, <3>1, <3>2, Returns DEF TypeInv, Reading
    <3>4. Progress'
      BY <2>1, <2>3, <3>3 DEF Exchange, Progress, Quiet, Reading
    <3>5. Service!Answer
      BY <1>1, <2>1, <3>3 DEF Service!Answer
    <3> QED BY <2>4, <3>3, <3>4, <3>5 DEF Exchange, ServiceStep, Service!Next
  <2> QED BY <2>5, <2>6
<1>8. ASSUME NEW fate \in Fate, Repeat(fate) PROVE Goal
  <2>1. /\ pc = "repeat" /\ pc' \in {"repeat", "repeat_wait"} /\ repeat' = (repeat \/ fate.done)
        /\ UNCHANGED <<asked, results, received, served, outgoing, outbox, repeat_ack>>
    BY <1>8 DEF Repeat
  <2>2. Progress'
    BY <2>1 DEF Exchange, Progress, LastServed, Reading
  <2>3. Repeating'
    BY <2>1 DEF Exchange, Repeating
  <2> QED BY <2>1, <2>2, <2>3, Inside DEF Exchange, ServiceStep
<1>9. ASSUME Serve PROVE Goal
  <2>1. /\ inbox.mailbox_full
        /\ UNCHANGED <<pc, asked, results, received, outbox, repeat, repeat_ack>>
    BY <1>9 DEF Serve, master
  <2>2. Repeating'
    BY <2>1 DEF Exchange, Repeating
  <2>3. CASE inbox.count = last_count
    <3>1. UNCHANGED <<served, outgoing>>
      BY <1>9, <2>3 DEF Serve
    <3>2. Progress' /\ Counting'
      BY <2>1, <3>1 DEF Exchange, Progress, Counting, OwnResponse, Quiet, Answering, LastServed
    <3> QED BY <2>1, <2>2, <3>1, <3>2 DEF Exchange, ServiceStep
  <2>4. CASE inbox.count # last_count
    <3>1. PICK kind \in Responses :
            /\ served' = Append(served, inbox.request)
            /\ outgoing' = Append(outgoing, [request |-> inbox.request, kind |-> kind])
      BY <1>9, <2>4 DEF Serve
    <3>2. LastServed < inbox.request
      BY <1>1, <2>4 DEF TypeInv, Once
    <3>3. /\ pc \in {"write", "end", "read_wait"} /\ inbox.request = asked
          /\ LastServed = asked - 1 /\ Quiet /\ pc # "idle"
      <4>1. pc # "idle" /\ pc \notin Reading
        BY <1>1, <3>2 DEF Exchange, Progress
      <4>2. pc # "write_wait"
        BY <1>1, <3>2 DEF Exchange, Progress, Delivery
      <4>3. pc \in {"write", "end", "read_wait"}
        BY <4>1, <4>2 DEF Reading, TypeInv, TypeOK
      <4>4. LastServed = asked - 1 /\ Quiet
        BY <1>1, <3>2, <4>3 DEF Exchange, Progress, Answering
      <4> QED BY <1>1, <3>2, <4>1, <4>3, <4>4
    <3>4. Len(served') = asked /\ LastServed' = asked /\ Len(served) = asked - 1
      <4>1. served \in Seq(1..MaxRequests)
        BY DEF TypeInv, TypeOK
      <4>2. Len(served') = Len(served) + 1 /\ served'[Len(served) + 1] = inbox.request /\ Len(served) \in Nat
        BY <3>1, <4>1
      <4>3. served' # <<>>
        BY <4>2
      <4>4. Len(served) = asked - 1
        BY <3>3 DEF Exchange, Counting
      <4> QED BY <1>1, <3>3, <4>2, <4>3, <4>4 DEF LastServed
    <3>5. \E mail \in Mail : outgoing' = <<mail>> /\ mail.request = asked
      <4>1. [request |-> asked, kind |-> kind] \in Mail
        BY <1>1, <3>3 DEF Mail
      <4>2. outgoing' = <<[request |-> asked, kind |-> kind]>>
        BY <3>1, <3>3 DEF Quiet
      <4> QED BY <4>1, <4>2
    <3>6. Progress'
      BY <2>1, <3>3, <3>4, <3>5 DEF Progress, Answering, Quiet, Reading
    <3>7. Counting'
      BY <2>1, <3>3, <3>4 DEF Exchange, Counting, OwnResponse
    <3>8. Service!Serve
      BY <1>1, <2>1, <3>4 DEF Service!Serve
    <3> QED BY <2>2, <3>6, <3>7, <3>8 DEF Exchange, ServiceStep, Service!Next
  <2> QED BY <2>3, <2>4
<1>10. ASSUME Respond PROVE Goal
  <2>1. /\ outgoing # <<>> /\ outgoing' = Tail(outgoing)
        /\ outbox' = [mailbox_full |-> TRUE, mail |-> Head(outgoing)]
        /\ UNCHANGED <<pc, asked, results, received, served, repeat, repeat_ack>>
    BY <1>10 DEF Respond, master
  <2>2. pc \in {"write", "end", "read_wait"} /\ Answering
    BY <2>1 DEF Exchange, Progress, Quiet, Reading, TypeInv, TypeOK
  <2>3. PICK mail \in Mail : outgoing = <<mail>> /\ mail.request = asked
    BY <2>1, <2>2 DEF Answering
  <2>4. outgoing' = <<>> /\ outbox'.mailbox_full /\ outbox'.mail.request = asked
    BY <2>1, <2>3
  <2>5. Progress'
    BY <2>1, <2>2, <2>4 DEF Progress, Answering, LastServed, Reading
  <2>6. Counting' /\ Repeating'
    BY <2>1 DEF Exchange, Counting, OwnResponse, Repeating, LastServed
  <2> QED BY <2>1, <2>5, <2>6 DEF Exchange, ServiceStep
<1>11. ASSUME ServeRepeat PROVE Goal
  <2>1. /\ repeat # repeat_ack /\ repeat_ack' = repeat
        /\ UNCHANGED <<pc, asked, results, received, served, outgoing, repeat>>
    BY <1>11 DEF ServeRepeat, master
  <2>2. outbox'.mail = outbox.mail
    BY <1>11 DEF ServeRepeat, TypeInv, TypeOK
  <2>3. pc \in {"repeat", "repeat_wait"}
    BY <2>1 DEF Exchange, Repeating
  <2>4. Progress'
    BY <2>1, <2>2, <2>3 DEF Exchange, Progress, LastServed, Reading
  <2>5. Counting' /\ Repeating'
    BY <2>1 DEF Exchange, Counting, OwnResponse, Repeating, LastServed
  <2> QED BY <2>1, <2>4, <2>5 DEF Exchange, ServiceStep
<1>12. ASSUME UNCHANGED vars PROVE Goal
  <2>1. UNCHANGED <<pc, asked, results, received, served, outgoing, outbox, repeat, repeat_ack>>
    BY <1>12 DEF vars, master, slave
  <2>2. Progress'
    BY <2>1 DEF Exchange, Progress, Quiet, Answering, LastServed
  <2>3. Counting' /\ Repeating'
    BY <2>1 DEF Exchange, Counting, OwnResponse, Repeating, LastServed
  <2> QED BY <2>1, <2>2, <2>3 DEF Exchange, ServiceStep
<1>13. ~Cancel
  BY DEF Cancel, Reliable
<1> HIDE DEF Goal
<1>14. Goal
  BY <1>2, <1>3, <1>4, <1>5, <1>6, <1>7, <1>8, <1>9, <1>10, <1>11, <1>12, <1>13
     DEF Next, Master, Done
<1> QED BY <1>14 DEF Goal

(* The mailbox is the service that can.rs uses: requests are executed one at *)
(* a time, each exactly once, and answered before the next is made; and each *)
(* call returns the response to its own request.                             *)
THEOREM Implements == Reliable => (Spec => ServiceSpec /\ []OwnResponse)
<1> SUFFICES ASSUME Reliable PROVE Spec => ServiceSpec /\ []OwnResponse
  OBVIOUS
<1>1. TypeInv /\ TypeInv' /\ Delivery /\ [Next]_vars => Delivery'
  BY NextDelivery DEF Reliable
<1>2. /\ TypeInv /\ TypeInv' /\ Delivery /\ Exchange /\ [Next]_vars => Exchange'
      /\ TypeInv /\ TypeInv' /\ Delivery /\ Exchange /\ [Next]_vars
           => [Service!Next]_<<asked, Len(served), Len(results)>>
  BY NextExchange DEF ServiceStep
<1>3. Exchange => OwnResponse
  BY DEF Exchange, Counting
<1>4. Init => Service!Init
  BY DEF Init, Service!Init
<1>5. [Service!Next]_<<asked, Len(served), Len(results)>> => [Service!Next]_Service!vars
  BY DEF Service!vars
<1> QED BY TypeInvariant, InitDelivery, InitExchange, <1>1, <1>2, <1>3, <1>4, <1>5, PTL
        DEF Spec, ServiceSpec, Service!Spec
=============================================================================
