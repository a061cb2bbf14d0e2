---------------------------- MODULE CanSdoProofs ----------------------------
(* Proofs about SDO transfers, for any calls, sizes and mailboxes. *)
EXTENDS CanSdo, SequenceTheorems, TLAPS

(* Data that sdo_write_slice can send at all is sent in its first request:   *)
(* the loop that sends segments (can.rs:232) is never entered, since what    *)
(* leaves data for it makes a first mail larger than the buffer.             *)
THEOREM WriteInOneRequest ==
  \A c \in Calls : WriteFits(c) => Expedited(c) \/ FirstLength(c) = Size[c]
<1> SUFFICES ASSUME NEW c \in Calls, WriteFits(c), ~Expedited(c)
             PROVE  FirstLength(c) = Size[c]
  OBVIOUS
<1>1. Size[c] \in Nat /\ WriteMax \in Nat
  BY ConstantsAssumption, SMT DEF ConstantsAssumption, MAILBOX_MAX_SIZE
<1>2. COE_HEADER + SDO_HEADER + 4 + FirstLength(c) <= MAILBOX_MAX_SIZE
  BY DEF WriteFits, Fits
<1>3. SDO_SEGMENT_MAX_SIZE = 1015
  BY DEF SDO_SEGMENT_MAX_SIZE, MAILBOX_MAX_SIZE, MAILBOX_HEADER, COE_HEADER, SEGMENT_HEADER
<1> QED
  BY <1>1, <1>2, <1>3 DEF FirstLength, Min2, COE_HEADER, SDO_HEADER, MAILBOX_MAX_SIZE

-----------------------------------------------------------------------------
(* Steps of the call that has the lock: it goes on, or ends.                 *)
LEMMA GotoExclusive ==
  ASSUME Exclusive, NEW c \in Calls, holder = c, NEW step, Goto(c, step),
         step \in {"request", "response", "send", "segment"}
  PROVE  Exclusive'
BY DEF Exclusive, Goto, Ended

LEMMA EndExclusive ==
  ASSUME Exclusive, NEW c \in Calls, holder = c, NEW how, End(c, how), how \in Ended
  PROVE  Exclusive'
BY DEF Exclusive, End, Ended

LEMMA InitExclusive == Init => Exclusive
BY DEF Init, Exclusive, Ended

LEMMA NextExclusive == Exclusive /\ [Next]_vars => Exclusive'
<1> SUFFICES ASSUME Exclusive, [Next]_vars PROVE Exclusive'
  OBVIOUS
<1>1. ASSUME NEW c \in Calls, Lock(c) PROVE Exclusive'
  <2>1. Nobody \notin Calls
    BY ConstantsAssumption DEF ConstantsAssumption
  <2>2. \A d \in Calls : pc[d] \in {"idle"} \cup Ended
    BY <1>1, <2>1 DEF Lock, Exclusive
  <2>3. holder' = c /\ pc' = [pc EXCEPT ![c] = "request"]
    BY <1>1 DEF Lock
  <2> QED BY <2>2, <2>3 DEF Exclusive, Ended
<1>2. ASSUME NEW c \in Calls, ReadRequest(c) PROVE Exclusive'
  BY <1>2, GotoExclusive DEF ReadRequest, At
<1>3. ASSUME NEW c \in Calls, ReadResponse(c) PROVE Exclusive'
  <2>1. holder = c /\ (End(c, "error") \/ End(c, "ok") \/ Goto(c, "send"))
    BY <1>3 DEF ReadResponse, At
  <2> QED BY <2>1, GotoExclusive, EndExclusive DEF Ended
<1>4. ASSUME NEW c \in Calls, ReadSegmentRequest(c) PROVE Exclusive'
  BY <1>4, GotoExclusive DEF ReadSegmentRequest, At
<1>5. ASSUME NEW c \in Calls, ReadSegment(c) PROVE Exclusive'
  <2>1. holder = c /\ (End(c, "error") \/ End(c, "panic") \/ End(c, "ok"))
    BY <1>5 DEF ReadSegment, At
  <2> QED BY <2>1, EndExclusive DEF Ended
<1>6. ASSUME NEW c \in Calls, WriteRequest(c) PROVE Exclusive'
  <2>1. holder = c /\ (End(c, "panic") \/ Goto(c, "response"))
    BY <1>6 DEF WriteRequest, At
  <2> QED BY <2>1, GotoExclusive, EndExclusive DEF Ended
<1>7. ASSUME NEW c \in Calls, WriteResponse(c) PROVE Exclusive'
  <2>1. holder = c /\ (End(c, "ok") \/ End(c, "error"))
    BY <1>7 DEF WriteResponse, At
  <2> QED BY <2>1, EndExclusive DEF Ended
<1>8. ASSUME NEW c \in Calls, Cancel(c) PROVE Exclusive'
  BY <1>8, EndExclusive DEF Cancel, Ended
<1>9. ASSUME UNCHANGED <<holder, pc>> PROVE Exclusive'
  BY <1>9 DEF Exclusive
<1>10. ASSUME \/ Serve \/ ServeException \/ Emergency \/ UNCHANGED vars
              \/ \E o \in Objects : \E len \in Lengths[o] : Update(o, len)
       PROVE Exclusive'
  BY <1>9, <1>10 DEF Serve, ServeException, Emergency, Update, vars
<1> QED
  BY <1>1, <1>2, <1>3, <1>4, <1>5, <1>6, <1>7, <1>8, <1>10 DEF Next, Master

(* The lock of the mailbox is held over a whole transfer (can.rs:72, 174):   *)
(* whatever the slave does, and wherever a future is dropped, one call is in *)
(* a transfer at a time, and it has the lock.                                *)
THEOREM Exclusion == Spec => []Exclusive
BY InitExclusive, NextExclusive, PTL DEF Spec

-----------------------------------------------------------------------------
(* The exchanges of a call, when no mail came that nobody asked for and no   *)
(* call was dropped: what the mailbox and the server hold is its own.        *)

Values == [origin : Calls \cup Objects, version : Nat, len : Nat]

(* The server is in the middle of the value that the call reads.             *)
Continues ==
  /\ server.command = "upload segment"
  /\ server.value.len = total /\ server.position = data[1].len

(* The request of the call waits for the slave.                              *)
Asked(c) ==
  /\ inbox # NoMail /\ inbox.call = c /\ outbox = <<>>
  /\ pc[c] = "response" =>
       /\ inbox.object = Object[c]
       /\ IF Kind[c] = "read" THEN inbox.command = "upload"
          ELSE inbox.command = "download" /\ inbox.value = Written(c)
  /\ pc[c] = "segment" => inbox.command = "upload segment" /\ Continues

(* The mail that the call will receive.                                      *)
UploadAnswer(c, mail) ==
  /\ IsResponse(mail, c, "upload") /\ (mail.sized \/ refused)
  /\ mail.part.value \in seen /\ mail.total = mail.part.value.len /\ mail.part.len \in Nat
  /\ ~mail.expedited =>
       /\ server.command = "upload segment"
       /\ server.value = mail.part.value /\ server.position = mail.part.len
SegmentAnswer(mail) ==
  /\ IsSegment(mail, "upload segment") /\ mail.padding \in Nat
  /\ mail.part.len = Min2(total - data[1].len, Space(SEGMENT_HEADER))
Answer(c, mail) ==
  IF pc[c] = "segment" THEN SegmentAnswer(mail)
  ELSE \/ mail.service = "abort" /\ refused
       \/ Kind[c] = "read" /\ UploadAnswer(c, mail)
       \/ Kind[c] = "write" /\ IsResponse(mail, c, "download") /\ stored
Answered(c) ==
  /\ inbox = NoMail
  /\ \E mail \in ToSet(outbox) : outbox = <<mail>> /\ Answer(c, mail)

(* The call has received the beginning of a value.                           *)
Partial(c) ==
  /\ Kind[c] = "read"
  /\ Len(data) = 1 /\ data = <<data[1]>>
  /\ data[1].value \in seen /\ total = data[1].value.len /\ data[1].len \in Nat

OrderedCall(c) ==
  /\ pc[c] \in {"request", "response", "send", "segment"}
  /\ object[Object[c]] \in seen
  /\ pc[c] \in {"request", "send"} => inbox = NoMail /\ outbox = <<>>
  /\ pc[c] \in {"response", "segment"} => Asked(c) \/ Answered(c)
  /\ pc[c] \in {"send", "segment"} => Partial(c)
  /\ pc[c] = "send" => Continues
Typed == object \in [Objects -> Values] /\ seen \subseteq Values /\ updates \in Nat
Ordered ==
  /\ Typed
  /\ holder = Nobody => inbox = NoMail /\ outbox = <<>>
  /\ \A c \in Calls : holder = c => OrderedCall(c)
CalmInv == Exclusive /\ strays \in Nat /\ (Calm => Ordered)

LEMMA NobodyCalls == Nobody \notin Calls
BY ConstantsAssumption DEF ConstantsAssumption

LEMMA CallsObject == \A c \in Calls : Object[c] \in Objects
BY DEF Objects

LEMMA SetOfOne == \A x : x \in ToSet(<<x>>)
<1> TAKE x
<1>1. 1 \in DOMAIN <<x>> /\ <<x>>[1] = x
  OBVIOUS
<1> QED BY <1>1 DEF ToSet

LEMMA AppendOne == \A x : Append(<<>>, x) = <<x>> /\ Head(<<x>>) = x /\ Tail(<<x>>) = <<>>
OBVIOUS

LEMMA AppendTwo == \A x, y : Append(<<x>>, y) = <<x, y>>
<1> TAKE x, y
<1> DEFINE T == {x, y}
<1>0. x \in T /\ y \in T
  OBVIOUS
<1> HIDE DEF T
<1>1. <<x>> \in Seq(T) /\ <<x, y>> \in Seq(T)
  BY <1>0
<1>2. Len(<<x>>) = 1 /\ Len(<<x, y>>) = 2
  OBVIOUS
<1>3. <<x>>[1] = x /\ <<x,y>>[1] = x /\ <<x,y>>[2] = y
  OBVIOUS
<1>4. PICK s \in Seq(T) : s = <<x>> /\ Len(s) = 1 /\ s[1] = x
  BY <1>1, <1>2, <1>3, Zenon
<1>5. PICK t \in Seq(T) : t = <<x, y>> /\ Len(t) = 2 /\ t[1] = x /\ t[2] = y
  BY <1>1, <1>2, <1>3, Zenon
<1>9. PICK n \in T : n = y
  BY <1>0
<1>10. PICK r : r = Append(s, n)
  OBVIOUS
<1>6. r \in Seq(T) /\ Len(r) = 2 /\ r[1] = x /\ r[2] = y
  BY <1>4, <1>9, <1>10, AppendProperties
<1>7. \A i \in 1..2 : r[i] = t[i]
  BY <1>5, <1>6
<1>8. r = t
  BY <1>5, <1>6, <1>7, SeqEqual
<1> QED BY <1>4, <1>5, <1>8, <1>9, <1>10, Zenon

LEMMA CalmBefore ==
  ASSUME CalmInv, [Next]_vars
  PROVE  strays' \in Nat /\ (Calm' => Calm)
<1> USE DEF CalmInv
<1>1. strays' \in {strays, strays + 1}
  BY DEF Next, Master, Lock, ReadRequest, ReadResponse, ReadSegmentRequest, ReadSegment,
         WriteRequest, WriteResponse, Cancel, Serve, Update, ServeException, Emergency, vars, slave
<1>2. \A d \in Calls : pc[d] = "dropped" => pc'[d] = "dropped"
  <2> SUFFICES ASSUME NEW d \in Calls, pc[d] = "dropped" PROVE pc'[d] = "dropped"
    OBVIOUS
  <2>1. pc \in [Calls -> {"idle", "request", "response", "send", "segment"} \cup Ended]
    BY DEF Exclusive
  <2>2. ASSUME NEW c \in Calls, Master(c) PROVE pc'[d] = "dropped"
    <3>1. pc[c] # "dropped" /\ \E step : pc' = [pc EXCEPT ![c] = step]
      <4>1. CASE Lock(c)
        BY <4>1 DEF Lock
      <4>2. CASE ReadRequest(c)
        BY <4>2 DEF ReadRequest, At, Goto
      <4>3. CASE ReadResponse(c)
        BY <4>3 DEF ReadResponse, At, Goto, End
      <4>4. CASE ReadSegmentRequest(c)
        BY <4>4 DEF ReadSegmentRequest, At, Goto
      <4>5. CASE ReadSegment(c)
        BY <4>5 DEF ReadSegment, At, End
      <4>6. CASE WriteRequest(c)
        BY <4>6 DEF WriteRequest, At, Goto, End
      <4>7. CASE WriteResponse(c)
        BY <4>7 DEF WriteResponse, At, End
      <4> QED BY <2>2, <4>1, <4>2, <4>3, <4>4, <4>5, <4>6, <4>7 DEF Master
    <3> QED BY <2>1, <3>1
  <2>3. ASSUME NEW c \in Calls, Cancel(c) PROVE pc'[d] = "dropped"
    BY <2>1, <2>3 DEF Cancel, End
  <2>4. ASSUME Serve \/ ServeException \/ Emergency \/ UNCHANGED vars
               \/ \E o \in Objects : \E len \in Lengths[o] : Update(o, len)
        PROVE pc' = pc
    BY <2>4 DEF Serve, ServeException, Emergency, Update, vars
  <2> QED BY <2>2, <2>3, <2>4 DEF Next
<1> QED BY <1>1, <1>2 DEF Calm

-----------------------------------------------------------------------------
LEMMA InitCalm == Init => CalmInv
<1> SUFFICES ASSUME Init PROVE CalmInv
  OBVIOUS
<1>1. Exclusive
  BY DEF Init, Exclusive, Ended
<1>2. Typed
  <2>1. PICK len \in [Objects -> UNION {Lengths[o] : o \in Objects}] :
          /\ \A o \in Objects : len[o] \in Lengths[o]
          /\ object = [o \in Objects |-> Value(o, 0, len[o])]
    BY DEF Init
  <2>2. \A o \in Objects : Lengths[o] \subseteq Nat
    BY ConstantsAssumption DEF ConstantsAssumption, Objects
  <2>3. \A o \in Objects : Value(o, 0, len[o]) \in Values
    BY <2>1, <2>2 DEF Value, Values
  <2>4. seen = {} /\ updates = 0
    BY DEF Init
  <2> QED BY <2>1, <2>3, <2>4 DEF Typed
<1> QED BY <1>1, <1>2, NobodyCalls DEF Init, CalmInv, Ordered

(* A call that ends leaves nothing behind.                                   *)
LEMMA EndOrdered ==
  ASSUME Typed, UNCHANGED <<object, seen, updates>>, holder' = Nobody,
         inbox' = NoMail, outbox' = <<>>
  PROVE  Ordered'
BY NobodyCalls DEF Ordered, Typed

LEMMA GoOrdered ==
  ASSUME Typed', NEW c \in Calls, holder' = c, OrderedCall(c)'
  PROVE  Ordered'
BY NobodyCalls DEF Ordered

LEMMA LockOrdered ==
  ASSUME CalmInv, Ordered, NEW c \in Calls, Lock(c)
  PROVE  Ordered'
<1>1. /\ holder = Nobody /\ holder' = c /\ pc' = [pc EXCEPT ![c] = "request"]
      /\ seen' = {object[Object[c]]} /\ UNCHANGED <<inbox, outbox, object, updates>>
  BY DEF Lock, slave
<1>2. pc'[c] = "request"
  BY <1>1 DEF CalmInv, Exclusive
<1>3. Typed'
  BY <1>1, CallsObject DEF Ordered, Typed
<1>4. OrderedCall(c)'
  BY <1>1, <1>2 DEF Ordered, OrderedCall
<1> QED BY <1>1, <1>3, <1>4, GoOrdered

LEMMA RequestOrdered ==
  ASSUME CalmInv, Ordered, NEW c \in Calls, ReadRequest(c) \/ WriteRequest(c)
  PROVE  Ordered'
<1>1. /\ holder = c /\ pc[c] = "request" /\ OrderedCall(c) /\ Typed
      /\ UNCHANGED <<outbox, object, seen, updates, data, total, stored, refused>>
  BY DEF ReadRequest, WriteRequest, At, Ordered, transfer, slave, history
<1>2. inbox = NoMail /\ outbox = <<>>
  BY <1>1 DEF OrderedCall
<1>3. CASE holder' = Nobody /\ UNCHANGED inbox
  BY <1>1, <1>2, <1>3, EndOrdered
<1>4. CASE Goto(c, "response")
  <2>1. holder' = c /\ pc'[c] = "response" /\ Typed'
    BY <1>1, <1>4 DEF Goto, CalmInv, Exclusive, Typed
  <2>2. /\ inbox' # NoMail /\ inbox'.call = c /\ inbox'.object = Object[c]
        /\ IF Kind[c] = "read" THEN inbox'.command = "upload"
           ELSE inbox'.command = "download" /\ inbox'.value = Written(c)
    <3>1. CASE ReadRequest(c)
      BY <3>1 DEF ReadRequest, Send, NoMail
    <3>2. CASE WriteRequest(c)
      <4>1. inbox' = [command |-> "download", call |-> c, object |-> Object[c],
                      value |-> Written(c)]
        BY <1>4, <3>2, NobodyCalls, <2>1 DEF WriteRequest, Send, End
      <4>2. Kind[c] # "read"
        BY <3>2 DEF WriteRequest
      <4> QED BY <4>1, <4>2 DEF NoMail
    <3> QED BY <3>1, <3>2
  <2>3. Asked(c)'
    BY <1>1, <1>2, <2>1, <2>2 DEF Asked
  <2>4. OrderedCall(c)'
    BY <1>1, <2>1, <2>3 DEF OrderedCall
  <2> QED BY <2>1, <2>4, GoOrdered
<1> QED BY <1>3, <1>4 DEF ReadRequest, WriteRequest, End

(* What a call receives is its answer.                                       *)
LEMMA Received ==
  ASSUME Ordered, NEW c \in Calls, holder = c, pc[c] \in {"response", "segment"},
         NEW mail, Receive(mail)
  PROVE  /\ inbox = NoMail /\ Answer(c, mail)
         /\ outbox' = IF mail.service = "exception" THEN outbox ELSE <<>>
<1>1. outbox # <<>> /\ mail = Head(outbox)
  BY DEF Receive
<1>2. Answered(c)
  BY <1>1 DEF Ordered, OrderedCall, Asked
<1>3. PICK answer \in ToSet(outbox) : outbox = <<answer>> /\ Answer(c, answer)
  BY <1>2 DEF Answered
<1>4. answer = mail /\ Tail(outbox) = <<>>
  BY <1>1, <1>3, AppendOne
<1> QED BY <1>2, <1>3, <1>4 DEF Answered, Receive

LEMMA Taken ==
  ASSUME NEW c \in Calls, NEW mail, Answer(c, mail)
  PROVE  mail.service # "exception"
BY DEF Answer, SegmentAnswer, UploadAnswer, IsSegment, IsResponse

LEMMA ResponseOrdered ==
  ASSUME CalmInv, Ordered, NEW c \in Calls, ReadResponse(c) \/ WriteResponse(c)
  PROVE  Ordered'
<1>1. /\ holder = c /\ pc[c] = "response" /\ OrderedCall(c) /\ Typed
      /\ UNCHANGED <<inbox, object, seen, updates, server, stored, refused>>
  BY DEF ReadResponse, WriteResponse, At, Ordered, slave, history
<1>2. CASE WriteResponse(c)
  <2>1. PICK mail : Receive(mail)
    BY <1>2 DEF WriteResponse
  <2>2. inbox' = NoMail /\ outbox' = <<>>
    BY <1>1, <2>1, Received, Taken
  <2>3. holder' = Nobody
    BY <1>2 DEF WriteResponse, End
  <2> QED BY <1>1, <2>2, <2>3, EndOrdered
<1>3. CASE ReadResponse(c)
  <2>1. PICK mail \in ToSet(outbox) :
          /\ Receive(mail)
          /\ IF ~IsResponse(mail, c, "upload") \/ ~mail.sized \/ mail.total > Size[c]
             THEN End(c, "error") /\ UNCHANGED transfer
             ELSE /\ total' = mail.total /\ data' = <<mail.part>>
                  /\ IF mail.expedited \/ Remain' = 0 THEN End(c, "ok") ELSE Goto(c, "send")
    BY <1>3 DEF ReadResponse
  <2>2. inbox' = NoMail /\ outbox' = <<>> /\ Answer(c, mail)
    BY <1>1, <2>1, Received, Taken
  <2>3. CASE holder' = Nobody
    BY <1>1, <2>2, <2>3, EndOrdered
  <2>4. CASE holder' # Nobody
    <3>1. /\ IsResponse(mail, c, "upload") /\ ~mail.expedited
          /\ total' = mail.total /\ data' = <<mail.part>> /\ Goto(c, "send")
      BY <2>1, <2>4 DEF End
    <3>2. Kind[c] = "read" /\ UploadAnswer(c, mail)
      <4>1. Kind[c] = "read"
        BY <1>3 DEF ReadResponse
      <4> QED BY <1>1, <2>2, <3>1, <4>1 DEF Answer, IsResponse
    <3>3. holder' = c /\ pc'[c] = "send" /\ Typed'
      BY <1>1, <3>1 DEF Goto, CalmInv, Exclusive, Typed
    <3>4. Partial(c)'
      BY <1>1, <3>1, <3>2 DEF Partial, UploadAnswer
    <3>5. Continues'
      BY <1>1, <3>1, <3>2 DEF Continues, UploadAnswer
    <3>6. OrderedCall(c)'
      BY <1>1, <2>2, <3>3, <3>4, <3>5 DEF OrderedCall
    <3> QED BY <3>3, <3>6, GoOrdered
  <2> QED BY <2>3, <2>4
<1> QED BY <1>2, <1>3

LEMMA SegmentOrdered ==
  ASSUME CalmInv, Ordered, NEW c \in Calls, ReadSegmentRequest(c) \/ ReadSegment(c)
  PROVE  Ordered'
<1>1. CASE ReadSegmentRequest(c)
  <2>1. /\ holder = c /\ pc[c] = "send" /\ OrderedCall(c) /\ Typed /\ Goto(c, "segment")
        /\ inbox' = [command |-> "upload segment", call |-> c]
        /\ UNCHANGED <<outbox, object, seen, updates, server, total, data>>
    BY <1>1 DEF ReadSegmentRequest, At, Ordered, slave, history, transfer, Send
  <2>2. holder' = c /\ pc'[c] = "segment" /\ Typed'
    BY <2>1 DEF Goto, CalmInv, Exclusive, Typed
  <2>3. outbox = <<>> /\ Partial(c) /\ Continues
    BY <2>1 DEF OrderedCall
  <2>4. Partial(c)' /\ Continues'
    BY <2>1, <2>3 DEF Partial, Continues
  <2>5. Asked(c)'
    BY <2>1, <2>2, <2>3, <2>4 DEF Asked, NoMail
  <2>6. OrderedCall(c)'
    BY <2>1, <2>2, <2>4, <2>5 DEF OrderedCall
  <2> QED BY <2>2, <2>6, GoOrdered
<1>2. CASE ReadSegment(c)
  <2>1. /\ holder = c /\ pc[c] = "segment" /\ Typed /\ holder' = Nobody
        /\ UNCHANGED <<inbox, object, seen, updates>>
    BY <1>2 DEF ReadSegment, At, Ordered, slave, history, End
  <2>2. PICK mail : Receive(mail)
    BY <1>2 DEF ReadSegment
  <2>3. inbox' = NoMail /\ outbox' = <<>>
    BY <2>1, <2>2, Received, Taken
  <2> QED BY <2>1, <2>3, EndOrdered
<1> QED BY <1>1, <1>2

-----------------------------------------------------------------------------
(* The mail that the slave puts in its area answers the call.                *)
LEMMA Answers ==
  ASSUME CalmInv, Ordered, NEW c \in Calls, holder = c, pc[c] \in {"response", "segment"},
         UNCHANGED <<holder, pc>>, Typed', inbox' = NoMail, object'[Object[c]] \in seen',
         NEW mail, outbox' = Append(outbox, mail), outbox = <<>>, Answer(c, mail)',
         pc[c] = "segment" => Partial(c)'
  PROVE  Ordered'
<1>1. outbox' = <<mail>> /\ mail \in ToSet(outbox')
  BY AppendOne, SetOfOne
<1>2. Answered(c)'
  BY <1>1 DEF Answered
<1>3. OrderedCall(c)'
  BY <1>2 DEF OrderedCall
<1> QED BY <1>3, GoOrdered

LEMMA ServeOrdered ==
  ASSUME CalmInv, Ordered, Serve
  PROVE  Ordered'
<1>1. /\ inbox # NoMail /\ inbox' = NoMail /\ Typed
      /\ UNCHANGED <<holder, pc, total, data, updates>>
  BY DEF Serve, Ordered, transfer
<1>2. PICK c \in Calls : holder = c
  BY <1>1 DEF Ordered, CalmInv, Exclusive
<1>3. OrderedCall(c) /\ pc[c] \in {"response", "segment"} /\ Asked(c)
  BY <1>1, <1>2 DEF Ordered, OrderedCall, Answered
<1>4. /\ inbox.call = c /\ outbox = <<>> /\ object[Object[c]] \in seen
      /\ object[Object[c]] \in Values /\ object[Object[c]].len \in Nat
      /\ pc[c] = "response" => inbox.object = Object[c]
      /\ pc[c] = "response" => inbox.command = IF Kind[c] = "read" THEN "upload" ELSE "download"
      /\ pc[c] = "segment" => inbox.command = "upload segment" /\ Continues /\ Partial(c)
  BY <1>3, <1>1, CallsObject DEF Asked, OrderedCall, Typed, Values
<1>5. CASE ServeUpload
  <2> DEFINE value == object[Object[c]]
  <2>1. pc[c] = "response" /\ Kind[c] = "read" /\ inbox.object = Object[c]
    BY <1>3, <1>4, <1>5 DEF ServeUpload
  <2>2. UNCHANGED <<object, seen, stored>>
    BY <1>5 DEF ServeUpload
  <2>3. PICK mail :
          /\ outbox' = Append(outbox, mail)
          /\ mail.service = "response" /\ mail.command = "upload" /\ mail.object = Object[c]
          /\ mail.part.value = value /\ mail.total = value.len /\ mail.part.len \in Nat
          /\ mail.sized \/ refused'
          /\ ~mail.expedited =>
               /\ server'.command = "upload segment"
               /\ server'.value = value /\ server'.position = mail.part.len
    <3> DEFINE response(expedited, sized, len) ==
                 [service |-> "response", command |-> "upload", object |-> Object[c],
                  expedited |-> expedited, sized |-> sized, total |-> value.len,
                  part |-> Part(value, 0, len)]
    <3> HIDE DEF response, value
    <3>1. CASE outbox' = Append(outbox, response(TRUE, TRUE, value.len))
      <4>1. value.len \in Nat
        BY <1>4 DEF value
      <4>2. response(TRUE, TRUE, value.len).part.len = value.len
        BY DEF response, Part
      <4>3. response(TRUE, TRUE, value.len).part.value = value
        BY DEF response, Part
      <4> QED BY <3>1, <4>1, <4>2, <4>3 DEF response
    <3>2. CASE \E sized \in BOOLEAN, len \in {0, Min2(value.len, Space(SDO_HEADER + 4))} :
                 /\ outbox' = Append(outbox, response(FALSE, sized, len))
                 /\ server' = [command |-> "upload segment", value |-> value, position |-> len]
                 /\ refused' = (refused \/ (~sized /\ inbox.call = holder))
      <4>2. Min2(value.len, Space(SDO_HEADER + 4)) \in Nat
        <5>1. Space(SDO_HEADER + 4) \in Nat
          BY ConstantsAssumption
             DEF ConstantsAssumption, Space, SDO_HEADER, MAILBOX_HEADER, COE_HEADER, MAILBOX_MAX_SIZE
        <5>2. value.len \in Nat
          BY <1>4 DEF value
        <5> QED BY <5>1, <5>2 DEF Min2
      <4>1. PICK sized \in BOOLEAN, len \in Nat :
                 /\ outbox' = Append(outbox, response(FALSE, sized, len))
                 /\ server' = [command |-> "upload segment", value |-> value, position |-> len]
                 /\ refused' = (refused \/ (~sized /\ inbox.call = holder))
        BY <3>2, <4>2
      <4>3. ~sized => refused'
        BY <1>2, <1>4, <4>1
      <4>4. /\ server'.command = "upload segment" /\ server'.value = value
            /\ server'.position = len
        BY <4>1
      <4>5. PICK mail : mail = response(FALSE, sized, len)
        OBVIOUS
      <4>6. /\ mail.service = "response" /\ mail.command = "upload" /\ mail.object = Object[c]
            /\ mail.part.value = value /\ mail.total = value.len /\ mail.part.len = len
            /\ mail.sized = sized
        BY <4>5 DEF response, Part
      <4>7. outbox' = Append(outbox, mail)
        BY <4>1, <4>5
      <4> QED BY <4>1, <4>3, <4>4, <4>6, <4>7
    <3> QED BY <1>5, <2>1, <3>1, <3>2 DEF ServeUpload, Reply, response, value
  <2>4. Answer(c, mail)'
    BY <1>1, <1>4, <2>1, <2>2, <2>3 DEF Answer, UploadAnswer, IsResponse
  <2>5. Typed'
    BY <1>1, <2>2 DEF Typed
  <2> QED BY <1>1, <1>2, <1>3, <1>4, <2>1, <2>2, <2>3, <2>4, <2>5, Answers
<1>6. CASE ServeUploadSegment
  <2>1. pc[c] = "segment" /\ Continues /\ Partial(c)
    BY <1>3, <1>4, <1>6 DEF ServeUploadSegment
  <2>2. UNCHANGED <<object, seen>>
    BY <1>6 DEF ServeUploadSegment, history
  <2> DEFINE len == Min2(server.value.len - server.position, Space(SEGMENT_HEADER))
  <2>3. len \in Int
    <3>1. Space(SEGMENT_HEADER) \in Int
      BY ConstantsAssumption
         DEF ConstantsAssumption, Space, SEGMENT_HEADER, MAILBOX_HEADER, COE_HEADER, MAILBOX_MAX_SIZE
    <3>2. total \in Nat /\ data[1].len \in Nat
      BY <2>1, <1>1 DEF Partial, Typed, Values
    <3>3. server.value.len - server.position \in Int
      <4>1. server.value.len = total /\ server.position = data[1].len
        BY <2>1 DEF Continues
      <4>2. total - data[1].len \in Int
        BY <3>2
      <4> QED BY <4>1, <4>2
    <3> QED BY <3>1, <3>3 DEF Min2
  <2>4. PICK padding \in Nat :
          outbox' = Append(outbox, [service |-> "response", command |-> "upload segment",
                      padding |-> padding, part |-> Part(server.value, server.position, len)])
    <3>1. PICK padding \in {0, IF len < 7 THEN 7 - len ELSE 0} :
            outbox' = Append(outbox, [service |-> "response", command |-> "upload segment",
                        padding |-> padding, part |-> Part(server.value, server.position, len)])
      BY <1>6 DEF ServeUploadSegment, Reply
    <3>2. \A n \in {0, IF len < 7 THEN 7 - len ELSE 0} : n \in Nat
      BY <2>3
    <3> HIDE DEF len
    <3>3. padding \in Nat
      BY <3>2
    <3> QED BY <3>1, <3>3
  <2>5. PICK mail :
          /\ outbox' = Append(outbox, mail) /\ IsSegment(mail, "upload segment")
          /\ mail.padding \in Nat
          /\ mail.part.len = Min2(total - data[1].len, Space(SEGMENT_HEADER))
    <3>1. len = Min2(total - data[1].len, Space(SEGMENT_HEADER))
      BY <2>1 DEF Continues
    <3>2. Part(server.value, server.position, len).len = len
      BY DEF Part
    <3> HIDE DEF len
    <3>3. PICK mail : mail = [service |-> "response", command |-> "upload segment",
                      padding |-> padding, part |-> Part(server.value, server.position, len)]
      OBVIOUS
    <3>4. /\ mail.service = "response" /\ mail.command = "upload segment"
          /\ mail.padding \in Nat /\ mail.part.len = len
      BY <3>2, <3>3
    <3>5. outbox' = Append(outbox, mail)
      BY <2>4, <3>3
    <3> QED BY <3>1, <3>4, <3>5 DEF IsSegment
  <2>7. Answer(c, mail)'
    BY <1>1, <2>1, <2>5 DEF Answer, SegmentAnswer, IsSegment
  <2>6. Typed' /\ Partial(c)'
    BY <1>1, <2>1, <2>2 DEF Typed, Partial
  <2> QED BY <1>1, <1>2, <1>3, <1>4, <2>1, <2>2, <2>5, <2>6, <2>7, Answers
<1>7. CASE ServeDownload
  <2>1. /\ pc[c] = "response" /\ inbox.object = Object[c] /\ Kind[c] = "write"
        /\ inbox.value = Written(c)
    <3>1. pc[c] = "response" /\ inbox.object = Object[c] /\ Kind[c] # "read"
      BY <1>3, <1>4, <1>7 DEF ServeDownload
    <3> QED BY <1>3, <3>1, ConstantsAssumption DEF ConstantsAssumption, Asked
  <2>2. Written(c) \in Values
    BY ConstantsAssumption DEF ConstantsAssumption, Written, Values, Value
  <2>3. /\ object' = [object EXCEPT ![Object[c]] = Written(c)]
        /\ seen' = seen \cup {Written(c)} /\ stored'
    BY <1>2, <1>4, <1>7, <2>1, NobodyCalls DEF ServeDownload, Store
  <2>4. Typed' /\ object'[Object[c]] \in seen'
    BY <1>1, <2>2, <2>3, CallsObject DEF Typed
  <2>5. outbox' = Append(outbox, [service |-> "response", command |-> "download", object |-> Object[c]])
    BY <1>7, <2>1 DEF ServeDownload, Reply
  <2>6. Answer(c, [service |-> "response", command |-> "download", object |-> Object[c]])'
    BY <1>1, <2>1, <2>3 DEF Answer, IsResponse
  <2> QED BY <1>1, <1>2, <1>3, <1>4, <2>1, <2>4, <2>5, <2>6, Answers
<1>8. CASE ServeAbort
  <2>1. pc[c] = "response" /\ inbox.command # "upload segment"
    BY <1>3, <1>4, <1>8 DEF ServeAbort, Continues
  <2>2. refused' /\ UNCHANGED <<object, seen>> /\ outbox' = Append(outbox, [service |-> "abort"])
    BY <1>2, <1>4, <1>8, <2>1 DEF ServeAbort, Reply
  <2>3. Answer(c, [service |-> "abort"])'
    BY <1>1, <2>1, <2>2 DEF Answer
  <2>4. Typed'
    BY <1>1, <2>2 DEF Typed
  <2> QED BY <1>1, <1>2, <1>3, <1>4, <2>1, <2>2, <2>3, <2>4, Answers
<1> QED BY <1>5, <1>6, <1>7, <1>8 DEF Serve

LEMMA UpdateOrdered ==
  ASSUME CalmInv, Ordered, NEW o \in Objects, NEW len \in Lengths[o], Update(o, len)
  PROVE  Ordered'
<1>1. /\ updates' = updates + 1 /\ object' = [object EXCEPT ![o] = Value(o, updates', len)]
      /\ seen' = IF holder # Nobody /\ Object[holder] = o
                 THEN seen \cup {Value(o, updates', len)} ELSE seen
      /\ UNCHANGED <<holder, pc, total, data, inbox, outbox, server, stored, refused>>
  BY DEF Update, Store, transfer
<1>2. Value(o, updates', len) \in Values
  <2>1. len \in Nat
    BY ConstantsAssumption DEF ConstantsAssumption, Objects
  <2>2. updates' \in Nat
    BY <1>1 DEF Ordered, Typed
  <2> QED BY <2>1, <2>2 DEF Value, Values
<1>3. Typed' /\ seen \subseteq seen'
  BY <1>1, <1>2 DEF Ordered, Typed
<1>4. ASSUME NEW c \in Calls, holder = c PROVE OrderedCall(c)'
  <2>1. OrderedCall(c) /\ Typed
    BY <1>4 DEF Ordered
  <2>2. object'[Object[c]] \in seen'
    BY <1>1, <1>4, <2>1, CallsObject, NobodyCalls DEF Typed, OrderedCall
  <2>3. Asked(c) => Asked(c)'
    BY <1>1 DEF Asked, Continues
  <2>4. \A mail : Answer(c, mail) => Answer(c, mail)'
    BY <1>1, <1>3 DEF Answer, SegmentAnswer, UploadAnswer
  <2>5. Answered(c) => Answered(c)'
    BY <1>1, <2>4 DEF Answered
  <2>6. (Partial(c) => Partial(c)') /\ (Continues => Continues')
    BY <1>1, <1>3 DEF Partial, Continues
  <2> QED BY <1>1, <2>1, <2>2, <2>3, <2>5, <2>6 DEF OrderedCall
<1> QED BY <1>1, <1>3, <1>4 DEF Ordered

LEMMA SameOrdered ==
  ASSUME Ordered, UNCHANGED vars
  PROVE  Ordered'
<1>1. UNCHANGED <<holder, pc, total, data, inbox, outbox, object, server, updates, seen,
                  stored, refused>>
  BY DEF vars, transfer, slave, history
<1>2. \A c \in Calls : \A mail : Answer(c, mail) => Answer(c, mail)'
  BY <1>1 DEF Answer, SegmentAnswer, UploadAnswer
<1>3. \A c \in Calls : OrderedCall(c) => OrderedCall(c)'
  BY <1>1, <1>2 DEF OrderedCall, Asked, Answered, Partial, Continues
<1> QED BY <1>1, <1>3 DEF Ordered, Typed

-----------------------------------------------------------------------------
LEMMA NextCalm == CalmInv /\ [Next]_vars => CalmInv'
<1> SUFFICES ASSUME CalmInv, [Next]_vars PROVE CalmInv'
  OBVIOUS
<1>1. Exclusive' /\ strays' \in Nat /\ strays \in Nat
  BY NextExclusive, CalmBefore DEF CalmInv
<1>2. ASSUME Calm' PROVE Ordered'
  <2>1. Ordered
    BY <1>2, CalmBefore DEF CalmInv
  <2>2. ASSUME NEW c \in Calls, Master(c) PROVE Ordered'
    BY <2>1, <2>2, LockOrdered, RequestOrdered, ResponseOrdered, SegmentOrdered DEF Master
  <2>3. \A c \in Calls : ~Cancel(c)
    <3> SUFFICES ASSUME NEW c \in Calls, Cancel(c) PROVE FALSE
      OBVIOUS
    <3>1. pc'[c] = "dropped"
      BY DEF Cancel, End, CalmInv, Exclusive
    <3> QED BY <1>2, <3>1 DEF Calm
  <2>4. ~ServeException /\ ~Emergency
    BY <1>1, <1>2 DEF ServeException, Emergency, Calm
  <2> QED BY <2>1, <2>2, <2>3, <2>4, ServeOrdered, UpdateOrdered, SameOrdered DEF Next
<1> QED BY <1>1, <1>2 DEF CalmInv

LEMMA CalmInvariant == Spec => []CalmInv
BY InitCalm, NextCalm, PTL DEF Spec

(* A call returns, or panics, at its own steps only.                         *)
LEMMA Ends ==
  ASSUME CalmInv, [Next]_vars, NEW c \in Calls, NEW how \in {"ok", "error", "panic"},
         Returns(c, how)
  PROVE  /\ WriteRequest(c) \/ ReadResponse(c) \/ WriteResponse(c) \/ ReadSegment(c)
         /\ \A other : End(c, other) => other = how
<1>1. pc \in [Calls -> {"idle", "request", "response", "send", "segment"} \cup Ended]
  BY DEF CalmInv, Exclusive
<1>2. \A other : End(c, other) => other = how
  BY <1>1 DEF End, Returns
<1>3. ASSUME NEW d \in Calls, NEW step, pc' = [pc EXCEPT ![d] = step] PROVE d = c /\ step = how
  BY <1>1, <1>3 DEF Returns
<1>4. ASSUME NEW d \in Calls, Master(d)
      PROVE  WriteRequest(c) \/ ReadResponse(c) \/ WriteResponse(c) \/ ReadSegment(c)
  <2>1. ~Lock(d)
    BY <1>3 DEF Lock
  <2>2. ~ReadRequest(d)
    BY <1>3 DEF ReadRequest, Goto
  <2>3. ~ReadSegmentRequest(d)
    <3>1. ReadSegmentRequest(d) => pc' = [pc EXCEPT ![d] = "segment"]
      BY DEF ReadSegmentRequest, Goto
    <3>2. "segment" # how
      OBVIOUS
    <3> QED BY <1>3, <3>1, <3>2
  <2>4. CASE ReadResponse(d)
    BY <2>4, <1>3 DEF ReadResponse, Goto, End
  <2>5. CASE ReadSegment(d)
    BY <2>5, <1>3 DEF ReadSegment, End
  <2>6. CASE WriteRequest(d)
    BY <2>6, <1>3 DEF WriteRequest, Goto, End
  <2>7. CASE WriteResponse(d)
    BY <2>7, <1>3 DEF WriteResponse, End
  <2> QED BY <1>4, <2>1, <2>2, <2>3, <2>4, <2>5, <2>6, <2>7 DEF Master
<1>5. \A d \in Calls : ~Cancel(d)
  BY <1>3 DEF Cancel, End
<1>6. ~(Serve \/ ServeException \/ Emergency \/ UNCHANGED vars
        \/ \E o \in Objects : \E len \in Lengths[o] : Update(o, len))
  BY DEF Serve, ServeException, Emergency, Update, vars, Returns
<1> QED BY <1>2, <1>4, <1>5, <1>6 DEF Next

(* The answers that calls get, when they return.                             *)
LEMMA WriteReturns ==
  ASSUME CalmInv, Calm, NEW c \in Calls, NEW how, WriteResponse(c),
         \A other : End(c, other) => other = how
  PROVE  IF how = "ok" THEN stored ELSE how = "error" /\ refused
<1>1. PICK mail \in ToSet(outbox) :
        Receive(mail) /\ End(c, IF IsResponse(mail, c, "download") THEN "ok" ELSE "error")
  BY DEF WriteResponse
<1>2. Ordered /\ holder = c /\ pc[c] = "response" /\ Kind[c] = "write"
  BY DEF CalmInv, WriteResponse, At
<1>3. Answer(c, mail)
  BY <1>1, <1>2, Received
<1>4. \/ ~IsResponse(mail, c, "download") /\ refused
      \/ IsResponse(mail, c, "download") /\ stored
  BY <1>2, <1>3 DEF Answer, IsResponse
<1> QED BY <1>1, <1>4

LEMMA ReadReturns ==
  ASSUME CalmInv, Calm, NEW c \in Calls, NEW how, ReadResponse(c),
         \A other : End(c, other) => other = how, how \in {"ok", "error", "panic"},
         holder' = Nobody
  PROVE  \/ how = "ok" /\ data'[1].value \in seen
         \/ how = "error" /\ (refused \/ \E value \in seen : value.len > Size[c])
<1>1. PICK mail \in ToSet(outbox) :
        /\ Receive(mail)
        /\ IF ~IsResponse(mail, c, "upload") \/ ~mail.sized \/ mail.total > Size[c]
           THEN End(c, "error") /\ UNCHANGED transfer
           ELSE /\ total' = mail.total /\ data' = <<mail.part>>
                /\ IF mail.expedited \/ Remain' = 0 THEN End(c, "ok") ELSE Goto(c, "send")
  BY DEF ReadResponse
<1>2. Ordered /\ holder = c /\ pc[c] = "response" /\ Kind[c] = "read"
  BY DEF CalmInv, ReadResponse, At
<1>3. Answer(c, mail)
  BY <1>1, <1>2, Received
<1>4. (mail.service = "abort" /\ refused) \/ UploadAnswer(c, mail)
  BY <1>2, <1>3 DEF Answer
<1>5. CASE ~IsResponse(mail, c, "upload") \/ ~mail.sized \/ mail.total > Size[c]
  <2>1. how = "error"
    BY <1>1, <1>5
  <2> QED BY <1>4, <1>5, <2>1 DEF UploadAnswer
<1>6. CASE ~(~IsResponse(mail, c, "upload") \/ ~mail.sized \/ mail.total > Size[c])
  <2>1. data' = <<mail.part>> /\ End(c, "ok")
    BY <1>1, <1>2, <1>6, NobodyCalls DEF Goto
  <2>2. UploadAnswer(c, mail)
    BY <1>4, <1>6 DEF IsResponse
  <2> QED BY <2>1, <2>2 DEF UploadAnswer
<1> QED BY <1>5, <1>6

LEMMA SegmentReturns ==
  ASSUME CalmInv, Calm, NEW c \in Calls, NEW how, ReadSegment(c),
         \A other : End(c, other) => other = how
  PROVE  /\ Kind[c] = "read"
         /\ \/ how = "ok" /\ data'[1].value \in seen
            \/ how = "panic" /\ \E value \in seen : value.len > Space(SEGMENT_HEADER)
<1>1. PICK mail \in ToSet(outbox) :
        /\ Receive(mail)
        /\ IF ~IsSegment(mail, "upload segment") THEN End(c, "error") /\ UNCHANGED data
           ELSE IF mail.part.len + mail.padding < Remain THEN End(c, "panic") /\ UNCHANGED data
           ELSE /\ data' = Append(data, [mail.part EXCEPT !.len = Remain])
                /\ End(c, "ok")
  BY DEF ReadSegment
<1>2. Ordered /\ holder = c /\ pc[c] = "segment"
  BY DEF CalmInv, ReadSegment, At
<1>3. Answer(c, mail)
  BY <1>1, <1>2, Received
<1>4. SegmentAnswer(mail) /\ Partial(c)
  BY <1>2, <1>3 DEF Answer, Ordered, OrderedCall
<1>5. /\ total \in Nat /\ data[1].len \in Nat /\ Space(SEGMENT_HEADER) \in Nat
      /\ data[1].value \in seen /\ data[1].value.len = total
  <2>1. seen \subseteq Values
    BY <1>2 DEF Ordered, Typed
  <2>2. Space(SEGMENT_HEADER) \in Nat
    BY ConstantsAssumption
       DEF ConstantsAssumption, Space, SEGMENT_HEADER, MAILBOX_HEADER, COE_HEADER, MAILBOX_MAX_SIZE
  <2> QED BY <1>4, <2>1, <2>2 DEF Partial, Values
<1>6. IsSegment(mail, "upload segment")
  BY <1>4 DEF SegmentAnswer
<1>7. CASE mail.part.len + mail.padding < Remain
  <2>1. how = "panic"
    BY <1>1, <1>6, <1>7
  <2>2. Min2(total - data[1].len, Space(SEGMENT_HEADER)) + mail.padding < total - data[1].len
    BY <1>4, <1>7 DEF SegmentAnswer, Remain
  <2>3. mail.padding \in Nat
    BY <1>4 DEF SegmentAnswer
  <2>4. total > Space(SEGMENT_HEADER)
    BY <1>5, <2>2, <2>3 DEF Min2
  <2> QED BY <1>4, <1>5, <2>1, <2>4 DEF Partial
<1>8. CASE ~(mail.part.len + mail.padding < Remain)
  <2>1. data' = Append(data, [mail.part EXCEPT !.len = Remain]) /\ how = "ok"
    BY <1>1, <1>6, <1>8
  <2>2. data = <<data[1]>>
    BY <1>4 DEF Partial
  <2>3. \A x, y : Append(<<x>>, y)[1] = x
    OBVIOUS
  <2>4. data'[1] = data[1]
    BY <2>1, <2>2, <2>3
  <2> QED BY <1>4, <1>5, <2>1, <2>4 DEF Partial
<1> QED BY <1>7, <1>8

(* Panics before anything is sent.                                           *)
LEMMA RequestReturns ==
  ASSUME NEW c \in Calls, NEW how, WriteRequest(c), \A other : End(c, other) => other = how,
         pc'[c] = how, how # "response", CalmInv
  PROVE  /\ how = "panic" /\ Kind[c] = "write"
         /\ Size[c] \notin 1..(WriteMax - MAILBOX_HEADER - COE_HEADER - SDO_HEADER - 4)
<1>1. ~Goto(c, "response")
  BY DEF Goto, CalmInv, Exclusive
<1>2. ~WriteFits(c) /\ End(c, "panic") /\ Kind[c] = "write"
  BY <1>1 DEF WriteRequest
<1>3. Size[c] \in Nat /\ WriteMax \in 32..1024
  BY ConstantsAssumption DEF ConstantsAssumption, MAILBOX_MAX_SIZE
<1>4. SDO_SEGMENT_MAX_SIZE = 1015
  BY DEF SDO_SEGMENT_MAX_SIZE, MAILBOX_MAX_SIZE, MAILBOX_HEADER, COE_HEADER, SEGMENT_HEADER
<1>5. ASSUME Size[c] \in 1..(WriteMax - 16) PROVE FALSE
  <2>1. FirstLength(c) \in Nat /\ FirstLength(c) <= Size[c]
    BY <1>3, <1>4 DEF FirstLength, Min2
  <2>2. CASE Expedited(c)
    BY <1>2, <1>3, <1>5, <2>2 DEF WriteFits, EXPEDITED_MAX_SIZE
  <2>3. CASE ~Expedited(c)
    BY <1>2, <1>3, <1>5, <2>1, <2>3
       DEF WriteFits, Fits, COE_HEADER, SDO_HEADER, MAILBOX_HEADER, MAILBOX_MAX_SIZE
  <2> QED BY <2>2, <2>3
<1>6. WriteMax - MAILBOX_HEADER - COE_HEADER - SDO_HEADER - 4 = WriteMax - 16
  BY <1>3 DEF COE_HEADER, SDO_HEADER, MAILBOX_HEADER
<1> QED BY <1>2, <1>5, <1>6

(* What the steps of Next do, as long as calls have been calm.               *)
LEMMA CalmStep ==
  ASSUME CalmInv, Calm, [Next]_vars, NEW c \in Calls, NEW how \in {"ok", "error", "panic"},
         Returns(c, how)
  PROVE  IF Kind[c] = "write"
         THEN \/ how = "ok" /\ stored
              \/ how = "error" /\ refused
              \/ /\ how = "panic"
                 /\ Size[c] \notin 1..(WriteMax - MAILBOX_HEADER - COE_HEADER - SDO_HEADER - 4)
         ELSE \/ how = "ok" /\ data'[1].value \in seen
              \/ how = "error" /\ (refused \/ \E value \in seen : value.len > Size[c])
              \/ how = "panic" /\ \E value \in seen : value.len > Space(SEGMENT_HEADER)
<1>1. \A other : End(c, other) => other = how
  BY Ends
<1>2. pc'[c] = how /\ how # "response" /\ how # "send"
  BY DEF Returns
<1>3. CASE WriteRequest(c)
  <2>1. how = "panic" /\ Kind[c] = "write"
        /\ Size[c] \notin 1..(WriteMax - MAILBOX_HEADER - COE_HEADER - SDO_HEADER - 4)
    BY <1>1, <1>2, <1>3, RequestReturns
  <2> QED BY <2>1
<1>4. CASE WriteResponse(c)
  <2>1. Kind[c] = "write"
    BY <1>4 DEF WriteResponse
  <2>2. IF how = "ok" THEN stored ELSE how = "error" /\ refused
    BY <1>1, <1>4, WriteReturns
  <2> QED BY <2>1, <2>2
<1>5. CASE ReadResponse(c)
  <2>1. Kind[c] # "write"
    BY <1>5 DEF ReadResponse
  <2>2. holder' = Nobody
    <3>1. ~Goto(c, "send")
      BY <1>2 DEF Goto, CalmInv, Exclusive
    <3> QED BY <1>5, <3>1 DEF ReadResponse, End
  <2>3. \/ how = "ok" /\ data'[1].value \in seen
        \/ how = "error" /\ (refused \/ \E value \in seen : value.len > Size[c])
    BY <1>1, <1>5, <2>2, ReadReturns
  <2> QED BY <2>1, <2>3
<1>6. CASE ReadSegment(c)
  <2>1. /\ Kind[c] = "read"
        /\ \/ how = "ok" /\ data'[1].value \in seen
           \/ how = "panic" /\ \E value \in seen : value.len > Space(SEGMENT_HEADER)
    BY <1>1, <1>6, SegmentReturns
  <2> QED BY <2>1
<1>7. WriteRequest(c) \/ ReadResponse(c) \/ WriteResponse(c) \/ ReadSegment(c)
  BY Ends
<1> QED BY <1>3, <1>4, <1>5, <1>6, <1>7

(* A write that succeeds was stored, its acknowledge is its own.             *)
THEOREM AcknowledgesOwn == Spec => WriteStored
<1>1. CalmInv /\ [Next]_vars =>
        [\A c \in Calls : Calm /\ Kind[c] = "write" /\ Returns(c, "ok") => stored]_vars
  BY CalmStep
<1> QED BY CalmInvariant, <1>1, PTL DEF Spec, WriteStored

(* A read that succeeds gives a value that its object had meanwhile.         *)
THEOREM ReadsAreFresh == Spec => ReadFresh
<1>1. CalmInv /\ [Next]_vars =>
        [\A c \in Calls : Calm /\ Kind[c] = "read" /\ Returns(c, "ok") =>
           data'[1].value \in seen]_vars
  BY CalmStep
<1> QED BY CalmInvariant, <1>1, PTL DEF Spec, ReadFresh

(* A call fails because the slave refused it, or its buffer is too small.    *)
THEOREM FailuresAreOwn == Spec => FailsForCause
<1>1. CalmInv /\ [Next]_vars =>
        [\A c \in Calls : Calm /\ Returns(c, "error") =>
           \/ refused
           \/ Kind[c] = "read" /\ \E value \in seen : value.len > Size[c]]_vars
  <2> SUFFICES ASSUME CalmInv, [Next]_vars, Calm, NEW c \in Calls, Returns(c, "error")
               PROVE  \/ refused
                      \/ Kind[c] = "read" /\ \E value \in seen : value.len > Size[c]
    OBVIOUS
  <2>1. Kind[c] \in {"read", "write"}
    BY ConstantsAssumption DEF ConstantsAssumption
  <2> QED BY <2>1, CalmStep
<1> QED BY CalmInvariant, <1>1, PTL DEF Spec, FailsForCause

(* The extent of what breaks AnySizeServed: calls panic for no other data    *)
(* than an empty write, a write that is larger than the slave's area, a value*)
(* that a read cannot have in one segment.                                   *)
SizesServed == [][\A c \in Calls : Calm /\ Returns(c, "panic") =>
  IF Kind[c] = "write"
  THEN Size[c] \notin 1..(WriteMax - MAILBOX_HEADER - COE_HEADER - SDO_HEADER - 4)
  ELSE \E value \in seen : value.len > Space(SEGMENT_HEADER)]_vars

(* No other sizes make a call panic, whatever the areas of the slave.        *)
THEOREM PanicSizes == Spec => SizesServed
<1>1. CalmInv /\ [Next]_vars =>
        [\A c \in Calls : Calm /\ Returns(c, "panic") =>
           IF Kind[c] = "write"
           THEN Size[c] \notin 1..(WriteMax - MAILBOX_HEADER - COE_HEADER - SDO_HEADER - 4)
           ELSE \E value \in seen : value.len > Space(SEGMENT_HEADER)]_vars
  BY CalmStep
<1> QED BY CalmInvariant, <1>1, PTL DEF Spec, SizesServed

TooLarge(c) ==
  Size[c] > EXPEDITED_MAX_SIZE /\ Size[c] > WriteMax - MAILBOX_HEADER - COE_HEADER - SDO_HEADER - 4
Unsent(c) == pc[c] \in {"idle", "request", "panic", "dropped"}

LEMMA LargeDoesNotFit ==
  ASSUME NEW c \in Calls, TooLarge(c)
  PROVE  ~WriteFits(c)
<1>1. Size[c] \in Nat /\ WriteMax \in 32..1024
  BY ConstantsAssumption DEF MAILBOX_MAX_SIZE
<1>2. Size[c] > 4 /\ Size[c] > WriteMax - 16
  BY <1>1 DEF TooLarge, EXPEDITED_MAX_SIZE, MAILBOX_HEADER, COE_HEADER, SDO_HEADER
<1>3. ~Expedited(c)
  BY <1>1, <1>2 DEF Expedited, EXPEDITED_MAX_SIZE
<1>4. FirstLength(c) \in Nat /\ FirstLength(c) > WriteMax - 16
  BY <1>1, <1>2 DEF FirstLength, Min2, SDO_SEGMENT_MAX_SIZE, MAILBOX_MAX_SIZE, MAILBOX_HEADER,
                    COE_HEADER, SEGMENT_HEADER
<1>5. ~Fits(COE_HEADER + SDO_HEADER + 4 + FirstLength(c))
  BY <1>1, <1>4 DEF Fits, MAILBOX_HEADER, COE_HEADER, SDO_HEADER
<1> QED BY <1>3, <1>5 DEF WriteFits

(* And those sizes are never written: a call that writes more than the area  *)
(* of the slave holds in one mail does not even send its request, whatever   *)
(* the other calls and the slave do, disturbed or not.                       *)
THEOREM LargeWritesFail ==
  Spec => [](\A c \in Calls : Kind[c] = "write" /\ TooLarge(c) => Unsent(c))
<1> DEFINE Inv == \A c \in Calls : Kind[c] = "write" /\ TooLarge(c) => Unsent(c)
<1>1. Init => Inv
  BY DEF Init, Unsent
<1>2. Exclusive /\ Inv /\ [Next]_vars => Inv'
  <2> SUFFICES ASSUME Exclusive, [Next]_vars, NEW c \in Calls, Kind[c] = "write", TooLarge(c), Unsent(c)
               PROVE  Unsent(c)'
    OBVIOUS
  <2>1. pc \in [Calls -> {"idle", "request", "response", "send", "segment"} \cup Ended] /\ ~WriteFits(c)
    BY LargeDoesNotFit DEF Exclusive
  <2>2. ASSUME NEW d \in Calls, Master(d) PROVE Unsent(c)'
    <3>1. CASE d # c
      BY <2>1, <2>2, <3>1 DEF Master, Lock, ReadRequest, ReadResponse, ReadSegmentRequest, ReadSegment,
                              WriteRequest, WriteResponse, At, Goto, End, Unsent
    <3>2. CASE d = c
      <4>1. Lock(c) \/ WriteRequest(c)
        BY <2>2, <3>2 DEF Master, ReadRequest, ReadResponse, ReadSegmentRequest, ReadSegment,
                          WriteResponse, At, Unsent
      <4> QED BY <2>1, <4>1 DEF Lock, WriteRequest, End, Unsent
    <3> QED BY <3>1, <3>2
  <2>3. ASSUME NEW d \in Calls, Cancel(d) PROVE Unsent(c)'
    BY <2>1, <2>3 DEF Cancel, End, Unsent
  <2>4. CASE ~ \E d \in Calls : Master(d) \/ Cancel(d)
    BY <2>4 DEF Next, Serve, ServeException, Update, Emergency, vars, Unsent
  <2> QED BY <2>2, <2>3, <2>4
<1> QED BY <1>1, <1>2, Exclusion, PTL DEF Spec

(* The mailbox is used as Rpc says.                                          *)
THEOREM MailboxUse == Spec => []OneOutstanding
<1>1. CalmInv => OneOutstanding
  <2> SUFFICES ASSUME CalmInv, Calm
               PROVE  Len(outbox) + (IF inbox = NoMail THEN 0 ELSE 1) =
                        IF \E c \in Calls : pc[c] \in {"response", "segment"} THEN 1 ELSE 0
    BY DEF OneOutstanding
  <2>1. Ordered /\ Exclusive
    BY DEF CalmInv
  <2>2. \A c \in Calls : pc[c] \in {"response", "segment"} => holder = c
    BY <2>1 DEF Exclusive, Ended
  <2>3. CASE \E c \in Calls : pc[c] \in {"response", "segment"}
    <3>1. PICK c \in Calls : holder = c /\ pc[c] \in {"response", "segment"}
      BY <2>2, <2>3
    <3>2. Asked(c) \/ Answered(c)
      BY <2>1, <3>1 DEF Ordered, OrderedCall
    <3>3. \A x : Len(<<x>>) = 1
      OBVIOUS
    <3>4. Len(<<>>) = 0
      OBVIOUS
    <3>5. CASE Asked(c)
      <4>1. inbox # NoMail /\ Len(outbox) = 0
        BY <3>4, <3>5 DEF Asked
      <4> QED BY <2>3, <4>1
    <3>6. CASE Answered(c)
      <4>1. inbox = NoMail /\ Len(outbox) = 1
        BY <3>3, <3>6 DEF Answered
      <4> QED BY <2>3, <4>1
    <3> QED BY <3>2, <3>5, <3>6
  <2>4. CASE ~\E c \in Calls : pc[c] \in {"response", "segment"}
    <3>1. inbox = NoMail /\ outbox = <<>>
      BY <2>1, <2>4 DEF Ordered, OrderedCall, Exclusive
    <3>2. Len(<<>>) = 0
      OBVIOUS
    <3> QED BY <2>4, <3>1, <3>2
  <2> QED BY <2>3, <2>4
<1> QED BY CalmInvariant, <1>1, PTL
-----------------------------------------------------------------------------
(* Reads when the mails of earlier calls are still on their way: dropped     *)
(* calls, errors and emergencies shift the responses, but never part a first *)
(* response from the segment that continues it.                              *)

(* Where the values of an object may come from.                              *)
Own(o) == {o} \cup {w \in Calls : Object[w] = o}

Parts == [value : Values, from : Int, len : Int]
UploadMails ==
  {m \in [service : {"response"}, command : {"upload"}, object : Objects,
          expedited : BOOLEAN, sized : BOOLEAN, total : Nat, part : Parts] :
     /\ m.total = m.part.value.len /\ m.part.from = 0
     /\ m.part.value.origin \in Own(m.object)
     /\ m.expedited => m.part.len = m.total}
SegmentMails ==
  [service : {"response"}, command : {"upload segment"}, padding : Int, part : Parts]
OtherMails ==
  [service : {"response"}, command : {"download"}, object : Objects]
    \cup [service : {"abort", "exception", "emergency"}]
Mails == UploadMails \cup SegmentMails \cup OtherMails

(* A response that begins a transfer, and what may continue it: the next     *)
(* segment, or the server if it is still to serve it.                        *)
Opens(mail) == mail.service = "response" /\ mail.command = "upload" /\ ~mail.expedited
MailAt(mail, value, n) ==
  IsSegment(mail, "upload segment") => mail.part.value = value /\ mail.part.from = n
ServerAt(value, n) ==
  server.command = "upload segment" => server.value = value /\ server.position = n
Follows(first, second) == Opens(first) => MailAt(second, first.part.value, first.part.len)
Leads(mail) == Opens(mail) => ServerAt(mail.part.value, mail.part.len)
(* A segment that the server adds.                                           *)
Served(mail) ==
  IsSegment(mail, "upload segment") =>
    /\ server.command = "upload segment"
    /\ mail.part.value = server.value /\ mail.part.from = server.position

Queue ==
  /\ outbox \in Seq(Mails)
  /\ \A i, j \in DOMAIN outbox : j = i + 1 => Follows(outbox[i], outbox[j])
  /\ \A i \in DOMAIN outbox : i = Len(outbox) => Leads(outbox[i])

Resumed(value, n) ==
  IF outbox = <<>> THEN ServerAt(value, n) ELSE MailAt(outbox[1], value, n)
Begun(c) ==
  /\ data = <<data[1]>> /\ data[1] \in Parts /\ data[1].from = 0
  /\ data[1].value.origin \in Own(Object[c])
  /\ total = data[1].value.len /\ total <= Size[c]
  /\ Resumed(data[1].value, data[1].len)
Begins == \A c \in Calls : holder = c /\ pc[c] \in {"send", "segment"} => Begun(c)

(* What the slave has, and is asked for.                                     *)
Servers ==
  [command : {"none", "upload segment"}, value : Values \cup {NoTransfer.value}, position : Int]
Asks ==
  inbox # NoMail =>
    /\ inbox.command \in {"upload", "download"} => inbox.object \in Objects
    /\ inbox.command = "download" =>
         inbox.value \in Values /\ inbox.value.origin \in Own(inbox.object)
Sources ==
  /\ object \in [Objects -> Values] /\ updates \in Nat
  /\ \A o \in Objects : object[o].origin \in Own(o)
  /\ server \in Servers /\ (server.command = "upload segment" => server.value \in Values)
  /\ Asks

WholeInv == Exclusive /\ Sources /\ Queue /\ Begins

LEMMA SpaceNat ==
  ASSUME NEW header \in 0..20
  PROVE  Space(header) \in Nat
BY ConstantsAssumption DEF ConstantsAssumption, Space, MAILBOX_HEADER, COE_HEADER, MAILBOX_MAX_SIZE

LEMMA ServerForms ==
  /\ NoTransfer \in Servers /\ NoTransfer.command # "upload segment"
  /\ \A s \in Servers : s.position \in Int
  /\ \A s \in Servers, n \in Int : /\ [s EXCEPT !.position = n] \in Servers
                                  /\ [s EXCEPT !.position = n].value = s.value
                                  /\ [s EXCEPT !.position = n].command = s.command
  /\ \A value \in Values, n \in Int :
       [command |-> "upload segment", value |-> value, position |-> n] \in Servers
<1> DEFINE none == NoTransfer.value
<1>1. NoTransfer = [command |-> "none", value |-> none, position |-> 0]
  BY DEF NoTransfer
<1> HIDE DEF none
<1> DEFINE V == Values \cup {none}
<1>2. /\ Servers = [command : {"none", "upload segment"}, value : V, position : Int]
      /\ none \in V /\ Values \subseteq V
  BY DEF Servers, none
<1> HIDE DEF V
<1>4. \A s \in Servers : s.position \in Int
  BY <1>2
<1>5. \A s \in Servers, n \in Int : /\ [s EXCEPT !.position = n] \in Servers
                                    /\ [s EXCEPT !.position = n].value = s.value
                                    /\ [s EXCEPT !.position = n].command = s.command
  BY <1>2
<1>6. \A command \in {"none", "upload segment"}, value \in V, n \in Int :
        [command |-> command, value |-> value, position |-> n] \in Servers
  BY <1>2
<1>7. \A value \in Values, n \in Int :
        [command |-> "upload segment", value |-> value, position |-> n] \in Servers
  BY <1>2, <1>6
<1>8. \A value \in V, n \in Int :
        /\ [command |-> "none", value |-> value, position |-> n] \in Servers
        /\ [command |-> "none", value |-> value, position |-> n].command # "upload segment"
  BY <1>2, <1>6
<1>9. none \in V
  BY <1>2, Zenon
<1>3. 0 \in Int
  OBVIOUS
<1>10. NoTransfer \in Servers /\ NoTransfer.command # "upload segment"
  BY <1>1, <1>3, <1>8, <1>9, Zenon
<1> QED BY <1>4, <1>5, <1>7, <1>10

LEMMA InitWhole == Init => WholeInv
<1> SUFFICES ASSUME Init PROVE WholeInv
  OBVIOUS
<1>1. Exclusive
  BY InitExclusive
<1>2. Sources
  <2>1. PICK len \in [Objects -> UNION {Lengths[o] : o \in Objects}] :
          /\ \A o \in Objects : len[o] \in Lengths[o]
          /\ object = [o \in Objects |-> Value(o, 0, len[o])]
    BY DEF Init
  <2>2. \A o \in Objects : Lengths[o] \subseteq Nat
    BY ConstantsAssumption DEF ConstantsAssumption, Objects
  <2>3. \A o \in Objects : Value(o, 0, len[o]) \in Values /\ Value(o, 0, len[o]).origin \in Own(o)
    BY <2>1, <2>2 DEF Value, Values, Own
  <2> QED BY <2>1, <2>3, ServerForms DEF Init, Sources, Asks
<1>3. Queue
  BY DEF Init, Queue
<1>4. Begins
  BY NobodyCalls DEF Init, Begins
<1> QED BY <1>1, <1>2, <1>3, <1>4 DEF WholeInv

(* The mail that the slave adds continues the last one, if it is a segment.  *)
LEMMA Appended ==
  ASSUME Queue, NEW mail \in Mails, outbox' = Append(outbox, mail),
         Served(mail), Leads(mail)'
  PROVE  /\ Queue'
         /\ \A value, n : Resumed(value, n) => Resumed(value, n)'
<1>2. PICK q \in Seq(Mails) : q = outbox
  <2>1. outbox \in Seq(Mails)
    BY DEF Queue
  <2> QED BY <2>1
<1>1. PICK n \in Nat : n = Len(outbox)
  <2>1. Len(q) \in Nat
    BY <1>2, LenProperties
  <2> QED BY <1>2, <2>1
<1>3. /\ outbox' \in Seq(Mails) /\ Len(outbox') = n + 1 /\ DOMAIN outbox' = 1..(n + 1)
      /\ DOMAIN outbox = 1..n /\ DOMAIN q = 1..n
      /\ \A i \in 1..n : outbox'[i] = q[i]
      /\ outbox'[n + 1] = mail
  <2>1. PICK r : r = outbox'
    OBVIOUS
  <2>2. r = Append(q, mail) /\ mail \in Mails /\ Len(q) = n
    BY <1>1, <1>2, <2>1
  <2>3. /\ r \in Seq(Mails) /\ Len(r) = n + 1 /\ r[n + 1] = mail
        /\ \A i \in 1..n : r[i] = q[i]
    BY <1>2, <2>2, AppendProperties
  <2>4. DOMAIN r = 1..(n + 1) /\ DOMAIN q = 1..n
    BY <1>2, <2>2, <2>3, LenProperties
  <2> QED BY <1>2, <2>1, <2>3, <2>4
<1>4. \A value, k : ServerAt(value, k) => MailAt(mail, value, k)
  BY DEF ServerAt, MailAt, Served
<1>5. ASSUME NEW i \in 1..(n + 1), NEW j \in 1..(n + 1), j = i + 1
      PROVE  Follows(outbox'[i], outbox'[j])
  <2>1. i \in 1..n /\ outbox'[i] = q[i]
    BY <1>3, <1>5
  <2>2. CASE j \in 1..n
    BY <1>2, <1>3, <1>5, <2>1, <2>2 DEF Queue
  <2>3. CASE j = n + 1
    <3>1. i = n /\ outbox'[j] = mail
      BY <1>3, <1>5, <2>3
    <3>2. Leads(q[i])
      BY <1>1, <1>2, <1>3, <2>1, <3>1 DEF Queue
    <3> QED BY <1>4, <2>1, <3>1, <3>2 DEF Follows, Leads
  <2>4. j \in 1..n \/ j = n + 1
    OBVIOUS
  <2> QED BY <2>2, <2>3, <2>4
<1>6. ASSUME NEW i \in 1..(n + 1), i = n + 1 PROVE Leads(outbox[i])'
  <2>1. outbox'[i] = mail
    BY <1>3, <1>6
  <2> QED BY <2>1 DEF Leads, ServerAt, Opens
<1>7. Queue'
  <2>1. \A i, j \in DOMAIN outbox' : j = i + 1 => Follows(outbox'[i], outbox'[j])
    BY <1>3, <1>5
  <2>2. \A i \in DOMAIN outbox' : i = Len(outbox') => Leads(outbox[i])'
    BY <1>3, <1>6
  <2> QED BY <1>3, <2>1, <2>2 DEF Queue, Follows
<1>8. ASSUME NEW value, NEW k, Resumed(value, k) PROVE Resumed(value, k)'
  <2>1. outbox' # <<>>
    BY <1>3
  <2>2. CASE outbox = <<>>
    <3>1. outbox'[1] = mail
      BY <1>1, <1>3, <2>2
    <3>2. MailAt(mail, value, k)
      BY <1>4, <1>8, <2>2 DEF Resumed
    <3> QED BY <2>1, <3>1, <3>2 DEF Resumed, MailAt
  <2>3. CASE outbox # <<>>
    <3>1. 1 \in 1..n
      BY <1>1, <1>2, <2>3
    <3>2. outbox'[1] = outbox[1]
      BY <1>2, <1>3, <3>1
    <3> QED BY <1>8, <2>1, <2>3, <3>2 DEF Resumed, MailAt
  <2> QED BY <2>2, <2>3
<1> QED BY <1>7, <1>8

(* What follows the mail that a call receives is what may continue it.       *)
LEMMA Followed ==
  ASSUME Queue, UNCHANGED server, NEW mail, Receive(mail)
  PROVE  /\ Queue' /\ mail \in Mails
         /\ mail.service # "exception" /\ Opens(mail) => Resumed(mail.part.value, mail.part.len)'
<1>1. PICK n \in Nat : n = Len(outbox)
  BY DEF Queue
<1>2. PICK q \in Seq(Mails) : q = outbox
  BY DEF Queue
<1>3. n > 0 /\ mail = q[1] /\ mail \in Mails /\ q # <<>>
  BY <1>1, <1>2 DEF Receive
<1>4. CASE outbox' = outbox
  <2>1. Queue'
    BY <1>4 DEF Queue, Leads, ServerAt
  <2>2. mail.service = "exception"
    <3>1. Len(Tail(q)) = n - 1
      BY <1>1, <1>2, <1>3
    <3>2. Tail(q) # q
      BY <1>1, <1>2, <3>1
    <3> QED BY <1>2, <1>4, <3>2 DEF Receive
  <2> QED BY <1>3, <2>1, <2>2
<1>5. CASE outbox' = Tail(outbox)
  <2>1. /\ outbox' \in Seq(Mails) /\ Len(outbox') = n - 1 /\ DOMAIN outbox' = 1..(n - 1)
        /\ DOMAIN outbox = 1..n
        /\ \A i \in 1..(n - 1) : outbox'[i] = q[i + 1]
    BY <1>1, <1>2, <1>3, <1>5
  <2>2. \A i, j \in 1..n : j = i + 1 => Follows(q[i], q[j])
    BY <1>2, <2>1 DEF Queue
  <2>3. Leads(q[n])
    BY <1>1, <1>2, <1>3, <2>1 DEF Queue
  <2>4. ASSUME NEW i \in 1..(n - 1), NEW j \in 1..(n - 1), j = i + 1
        PROVE  Follows(outbox'[i], outbox'[j])
    <3>1. i + 1 \in 1..n /\ j + 1 \in 1..n /\ j + 1 = (i + 1) + 1
      BY <2>4
    <3> QED BY <2>1, <2>2, <3>1
  <2>5. ASSUME NEW i \in 1..(n - 1), i = n - 1 PROVE Leads(outbox[i])'
    <3>1. outbox'[i] = q[n]
      BY <2>1, <2>5
    <3> QED BY <2>3, <3>1 DEF Leads, ServerAt, Opens
  <2>6. Queue'
    <3>1. \A i, j \in DOMAIN outbox' : j = i + 1 => Follows(outbox'[i], outbox'[j])
      BY <2>1, <2>4
    <3>2. \A i \in DOMAIN outbox' : i = Len(outbox') => Leads(outbox[i])'
      BY <2>1, <2>5
    <3> QED BY <2>1, <3>1, <3>2 DEF Queue, Follows
  <2>7. ASSUME Opens(mail) PROVE Resumed(mail.part.value, mail.part.len)'
    <3>1. CASE n = 1
      <4>1. outbox' = <<>>
        BY <2>1, <3>1
      <4>2. ServerAt(mail.part.value, mail.part.len)
        BY <1>3, <2>3, <2>7, <3>1 DEF Leads
      <4> QED BY <4>1, <4>2 DEF Resumed, ServerAt
    <3>2. CASE n # 1
      <4>1. outbox' # <<>> /\ 1 \in 1..n /\ 2 \in 1..n /\ outbox'[1] = q[2]
        BY <1>3, <2>1, <3>2
      <4>2. Follows(mail, q[2])
        BY <1>3, <2>2, <4>1
      <4> QED BY <2>7, <4>1, <4>2 DEF Follows, Resumed, MailAt
    <3> QED BY <3>1, <3>2
  <2> QED BY <1>3, <2>6, <2>7
<1> QED BY <1>4, <1>5 DEF Receive

LEMMA KeptQueue ==
  ASSUME Queue, UNCHANGED <<outbox, server>>
  PROVE  /\ Queue'
         /\ \A value, n : Resumed(value, n) => Resumed(value, n)'
BY DEF Queue, Leads, ServerAt, Resumed

LEMMA KeptBegins ==
  ASSUME Begins, UNCHANGED <<data, total>>,
         \A value, n : Resumed(value, n) => Resumed(value, n)',
         \A c \in Calls : holder' = c /\ pc'[c] \in {"send", "segment"} =>
                            holder = c /\ pc[c] \in {"send", "segment"}
  PROVE  Begins'
<1> SUFFICES ASSUME NEW c \in Calls, holder' = c, pc'[c] \in {"send", "segment"} PROVE Begun(c)'
  BY DEF Begins
<1>1. Begun(c)
  BY DEF Begins
<1> QED BY <1>1 DEF Begun

LEMMA NoneBegun ==
  ASSUME \A c \in Calls : holder' = c => pc'[c] \notin {"send", "segment"}
  PROVE  Begins'
BY DEF Begins

LEMMA KeptSources ==
  ASSUME Sources, UNCHANGED slave, Asks'
  PROVE  Sources'
BY DEF Sources, slave

LEMMA RequestWhole ==
  ASSUME WholeInv, NEW c \in Calls,
         Lock(c) \/ ReadRequest(c) \/ WriteRequest(c) \/ ReadSegmentRequest(c)
  PROVE  Sources' /\ Queue' /\ Begins'
<1>1. UNCHANGED slave /\ UNCHANGED outbox /\ UNCHANGED server
  BY DEF Lock, ReadRequest, WriteRequest, ReadSegmentRequest, slave
<1>2. Asks'
  <2>1. CASE UNCHANGED inbox
    BY <2>1 DEF WholeInv, Sources, Asks
  <2>2. CASE inbox' = [command |-> "upload", call |-> c, object |-> Object[c]]
    BY <2>2, CallsObject DEF Asks
  <2>3. CASE inbox' = [command |-> "download", call |-> c, object |-> Object[c], value |-> Written(c)]
    <3>1. Written(c) \in Values /\ Written(c).origin \in Own(Object[c])
      BY ConstantsAssumption DEF ConstantsAssumption, Written, Values, Value, Own
    <3> QED BY <2>3, <3>1, CallsObject DEF Asks
  <2>4. CASE inbox' = [command |-> "upload segment", call |-> c]
    BY <2>4 DEF Asks
  <2> QED BY <2>1, <2>2, <2>3, <2>4 DEF Lock, ReadRequest, WriteRequest, ReadSegmentRequest, Send
<1>3. Begins'
  <2>0. pc \in [Calls -> {"idle", "request", "response", "send", "segment"} \cup Ended]
    BY DEF WholeInv, Exclusive
  <2>1. CASE Lock(c)
    <3>1. holder' = c /\ pc'[c] = "request"
      BY <2>0, <2>1 DEF Lock
    <3> QED BY <3>1, NoneBegun
  <2>2. CASE ReadRequest(c)
    <3>1. holder' = c /\ pc'[c] = "response"
      BY <2>0, <2>2 DEF ReadRequest, At, Goto
    <3> QED BY <3>1, NoneBegun
  <2>3. CASE WriteRequest(c)
    <3>1. holder' = Nobody \/ (holder' = c /\ pc'[c] = "response")
      BY <2>0, <2>3 DEF WriteRequest, At, Goto, End
    <3> QED BY <3>1, NoneBegun, NobodyCalls
  <2>4. CASE ReadSegmentRequest(c)
    <3>1. holder = c /\ pc[c] = "send" /\ holder' = c /\ UNCHANGED <<data, total>>
      BY <2>4 DEF ReadSegmentRequest, At, Goto, transfer
    <3>2. Begins
      BY DEF WholeInv
    <3>3. \A value, n : Resumed(value, n) => Resumed(value, n)'
      BY <1>1, KeptQueue DEF WholeInv
    <3>4. \A d \in Calls : holder' = d /\ pc'[d] \in {"send", "segment"} =>
                            holder = d /\ pc[d] \in {"send", "segment"}
      BY <3>1
    <3> QED BY <3>1, <3>2, <3>3, <3>4, KeptBegins
  <2> QED BY <2>1, <2>2, <2>3, <2>4
<1> QED BY <1>1, <1>2, <1>3, KeptQueue, KeptSources DEF WholeInv

(* What a call gets as the response to its read.                             *)
LEMMA FirstPart ==
  ASSUME NEW c \in Calls, NEW mail \in Mails, IsResponse(mail, c, "upload")
  PROVE  /\ mail.total = mail.part.value.len /\ mail.part.from = 0 /\ mail.part \in Parts
         /\ mail.part.value.origin \in Own(Object[c])
         /\ mail.expedited => mail.part.len = mail.total
         /\ ~mail.expedited => Opens(mail)
<1>1. mail \in UploadMails
  BY DEF Mails, SegmentMails, OtherMails, IsResponse
<1> QED BY <1>1 DEF UploadMails, IsResponse, Opens

LEMMA ResponseWhole ==
  ASSUME WholeInv, NEW c \in Calls, ReadResponse(c) \/ WriteResponse(c) \/ ReadSegment(c)
  PROVE  Sources' /\ Queue' /\ Begins'
<1>1. UNCHANGED slave /\ UNCHANGED inbox /\ UNCHANGED server /\ holder = c
  BY DEF ReadResponse, WriteResponse, ReadSegment, slave, At
<1>2. Sources'
  BY <1>1, KeptSources DEF WholeInv, Sources, Asks
<1>3. PICK mail : Receive(mail) /\ (ReadResponse(c) =>
          IF ~IsResponse(mail, c, "upload") \/ ~mail.sized \/ mail.total > Size[c]
          THEN End(c, "error") /\ UNCHANGED transfer
          ELSE /\ total' = mail.total /\ data' = <<mail.part>>
               /\ IF mail.expedited \/ Remain' = 0 THEN End(c, "ok") ELSE Goto(c, "send"))
  <2>1. CASE ReadResponse(c)
    BY <2>1 DEF ReadResponse
  <2>2. CASE ~ReadResponse(c)
    BY <2>2 DEF WriteResponse, ReadSegment
  <2> QED BY <2>1, <2>2
<1>4. /\ Queue' /\ mail \in Mails
      /\ mail.service # "exception" /\ Opens(mail) => Resumed(mail.part.value, mail.part.len)'
  BY <1>1, <1>3, Followed DEF WholeInv
<1>5. CASE holder' = Nobody
  BY <1>2, <1>4, <1>5, NoneBegun, NobodyCalls
<1>6. CASE holder' # Nobody
  <2>1. ReadResponse(c)
    BY <1>6 DEF WriteResponse, ReadSegment, End
  <2>2. /\ IsResponse(mail, c, "upload") /\ ~(mail.total > Size[c]) /\ ~mail.expedited
        /\ total' = mail.total /\ data' = <<mail.part>> /\ holder' = c
    BY <1>1, <1>3, <1>6, <2>1 DEF End, Goto
  <2>3. PICK part \in Parts : part = mail.part
    BY <1>4, <2>2, FirstPart
  <2>4. /\ part.from = 0 /\ part.value.origin \in Own(Object[c])
        /\ mail.total = part.value.len /\ Opens(mail)
    BY <1>4, <2>2, <2>3, FirstPart
  <2>5. mail.service # "exception"
    BY <2>4 DEF Opens
  <2>6. Resumed(part.value, part.len)'
    BY <1>4, <2>3, <2>4, <2>5
  <2>7. PICK t \in Nat : t = mail.total /\ t = total'
    BY <2>2, <2>3, <2>4 DEF Parts, Values
  <2>8. t <= Size[c]
    <3>1. Size[c] \in Nat
      BY ConstantsAssumption DEF ConstantsAssumption
    <3> QED BY <2>2, <2>7, <3>1
  <2>9. data' = <<part>> /\ data'[1] = part
    BY <2>2, <2>3
  <2>10. Begun(c)'
    BY <2>3, <2>4, <2>6, <2>7, <2>8, <2>9 DEF Begun
  <2> QED BY <1>2, <1>4, <2>2, <2>10 DEF Begins
<1> QED BY <1>5, <1>6

(* The slave adds a mail, and goes on with the transfer the mail begins.     *)
LEMMA ReplyWhole ==
  ASSUME WholeInv, NEW mail \in Mails, Reply(mail), Served(mail), Leads(mail)',
         UNCHANGED <<holder, pc, transfer>>
  PROVE  Queue' /\ Begins'
<1>1. Queue /\ Begins /\ outbox' = Append(outbox, mail) /\ UNCHANGED <<data, total>>
  BY DEF WholeInv, Reply, transfer
<1>2. Queue' /\ \A value, n : Resumed(value, n) => Resumed(value, n)'
  BY <1>1, Appended
<1> QED BY <1>1, <1>2, KeptBegins

LEMMA OtherWhole ==
  ASSUME WholeInv, NEW mail \in OtherMails, Reply(mail), UNCHANGED <<holder, pc, transfer>>
  PROVE  Queue' /\ Begins'
<1>1. mail \in Mails
  BY DEF Mails
<1>2. Served(mail) /\ ~Opens(mail)
  BY DEF OtherMails, Served, IsSegment, Opens
<1>3. Leads(mail)'
  BY <1>2 DEF Leads, Opens
<1> QED BY <1>1, <1>2, <1>3, ReplyWhole

LEMMA ServeWhole ==
  ASSUME WholeInv, Serve
  PROVE  Sources' /\ Queue' /\ Begins'
<1>1. /\ inbox # NoMail /\ inbox' = NoMail /\ UNCHANGED <<holder, pc, transfer, updates>>
      /\ Sources /\ Asks /\ Asks'
  BY DEF Serve, WholeInv, Sources, Asks
<1>2. CASE ServeUpload
  <2>1. /\ inbox.object \in Objects /\ UNCHANGED object
        /\ object[inbox.object] \in Values /\ object[inbox.object].origin \in Own(inbox.object)
    BY <1>1, <1>2 DEF ServeUpload, Sources, Asks
  <2>2. PICK o \in Objects, value \in Values : o = inbox.object /\ value = object[inbox.object]
    BY <2>1
  <2>3. value.origin \in Own(o) /\ value.len \in Nat
    BY <2>1, <2>2 DEF Values
  <2> DEFINE response(expedited, sized, len) ==
               [service |-> "response", command |-> "upload", object |-> o,
                expedited |-> expedited, sized |-> sized, total |-> value.len,
                part |-> Part(value, 0, len)]
  <2>4. \A expedited, sized \in BOOLEAN, len \in Int :
          (expedited => len = value.len) => response(expedited, sized, len) \in UploadMails
    <3> SUFFICES ASSUME NEW expedited \in BOOLEAN, NEW sized \in BOOLEAN, NEW len \in Int,
                        expedited => len = value.len
                 PROVE  response(expedited, sized, len) \in UploadMails
      OBVIOUS
    <3>1. PICK part \in Parts : part = Part(value, 0, len) /\ part.value = value /\ part.from = 0
                                /\ part.len = len
      <4>1. Part(value, 0, len) \in Parts
        BY DEF Part, Parts
      <4>2. /\ Part(value, 0, len).value = value /\ Part(value, 0, len).from = 0
            /\ Part(value, 0, len).len = len
        BY DEF Part
      <4> QED BY <4>1, <4>2
    <3>2. PICK m : m = response(expedited, sized, len)
      OBVIOUS
    <3>3. m \in [service : {"response"}, command : {"upload"}, object : Objects,
                 expedited : BOOLEAN, sized : BOOLEAN, total : Nat, part : Parts]
      BY <2>3, <3>1, <3>2
    <3>4. m.total = value.len /\ m.part = part /\ m.object = o /\ m.expedited = expedited
      BY <3>1, <3>2
    <3>5. m \in UploadMails
      BY <2>3, <3>1, <3>3, <3>4 DEF UploadMails
    <3> QED BY <3>2, <3>5
  <2>5. \A expedited, sized, len : Served(response(expedited, sized, len))
    BY DEF Served, IsSegment
  <2>6. \/ Reply(response(TRUE, TRUE, value.len)) /\ server' = NoTransfer
        \/ \E sized \in BOOLEAN, len \in {0, Min2(value.len, Space(SDO_HEADER + 4))} :
             /\ Reply(response(FALSE, sized, len))
             /\ server' = [command |-> "upload segment", value |-> value, position |-> len]
    BY <1>2, <2>2 DEF ServeUpload
  <2>7. CASE Reply(response(TRUE, TRUE, value.len)) /\ server' = NoTransfer
    <3> PICK m : m = response(TRUE, TRUE, value.len)
      OBVIOUS
    <3>0. m.expedited
      OBVIOUS
    <3>1. PICK mail \in Mails : mail = m
      <4>1. value.len \in Int
        BY <2>3
      <4> HIDE DEF response
      <4>2. response(TRUE, TRUE, value.len) \in UploadMails
        BY <2>4, <4>1
      <4> QED BY <4>2 DEF Mails
    <3>2. mail.expedited
      BY <3>0, <3>1
    <3>3. Leads(mail)'
      BY <3>2 DEF Leads, Opens
    <3>4. Served(mail) /\ Reply(mail)
      BY <2>5, <2>7, <3>1
    <3>5. Sources'
      BY <1>1, <2>1, <2>7, ServerForms DEF Sources
    <3> QED BY <1>1, <3>3, <3>4, <3>5, ReplyWhole
  <2>8. ASSUME NEW sized \in BOOLEAN, NEW len \in {0, Min2(value.len, Space(SDO_HEADER + 4))},
               Reply(response(FALSE, sized, len)),
               server' = [command |-> "upload segment", value |-> value, position |-> len]
        PROVE  Sources' /\ Queue' /\ Begins'
    <3>1. len \in Int
      <4>1. Space(SDO_HEADER + 4) \in Int
        BY SpaceNat DEF SDO_HEADER
      <4> QED BY <2>3, <4>1 DEF Min2
    <3>2. PICK mail \in Mails : mail = response(FALSE, sized, len)
      BY <2>4, <3>1 DEF Mails
    <3>3. mail.part.value = value /\ mail.part.len = len
      BY <3>2 DEF Part
    <3>4. server'.value = value /\ server'.position = len
      BY <2>8
    <3>5. Leads(mail)'
      BY <3>3, <3>4 DEF Leads, ServerAt
    <3>6. Served(mail) /\ Reply(mail)
      BY <2>5, <2>8, <3>2
    <3>7. Sources'
      BY <1>1, <2>1, <2>8, <3>1, <3>4, ServerForms DEF Sources
    <3> QED BY <1>1, <3>5, <3>6, <3>7, ReplyWhole
  <2> QED BY <2>6, <2>7, <2>8
<1>3. CASE ServeUploadSegment
  <2> DEFINE len == Min2(server.value.len - server.position, Space(SEGMENT_HEADER))
  <2>1. /\ server.command = "upload segment" /\ server.value \in Values /\ server.position \in Int
        /\ server.value.len \in Nat
    BY <1>1, <1>3, ServerForms DEF ServeUploadSegment, Sources, Values
  <2>2. len \in Int
    <3>1. Space(SEGMENT_HEADER) \in Int
      BY SpaceNat DEF SEGMENT_HEADER
    <3>2. PICK l \in Nat, p \in Int : l = server.value.len /\ p = server.position
      BY <2>1
    <3>3. l - p \in Int
      BY <3>2
    <3>4. Min2(l - p, Space(SEGMENT_HEADER)) \in Int
      BY <3>1, <3>3 DEF Min2
    <3> QED BY <3>2, <3>4
  <2>3. PICK padding \in Int :
          Reply([service |-> "response", command |-> "upload segment", padding |-> padding,
                 part |-> Part(server.value, server.position, len)])
    <3>1. PICK padding \in {0, IF len < 7 THEN 7 - len ELSE 0} :
            Reply([service |-> "response", command |-> "upload segment", padding |-> padding,
                   part |-> Part(server.value, server.position, len)])
      BY <1>3 DEF ServeUploadSegment
    <3>2. \A n \in {0, IF len < 7 THEN 7 - len ELSE 0} : n \in Int
      BY <2>2
    <3> HIDE DEF len
    <3> QED BY <3>1, <3>2
  <2>4. server' = [server EXCEPT !.position = @ + len] /\ UNCHANGED object
    BY <1>3 DEF ServeUploadSegment
  <2> HIDE DEF len
  <2>5. PICK part \in Parts : part = Part(server.value, server.position, len)
    BY <2>1, <2>2 DEF Part, Parts
  <2>6. PICK mail : mail = [service |-> "response", command |-> "upload segment",
                            padding |-> padding, part |-> part]
    OBVIOUS
  <2>7. mail \in Mails /\ ~Opens(mail) /\ mail.part = part
    <3>1. mail \in SegmentMails
      BY <2>6 DEF SegmentMails
    <3> QED BY <2>6, <3>1 DEF Mails, Opens
  <2>8. Served(mail)
    <3>1. part.value = server.value /\ part.from = server.position
      BY <2>5 DEF Part
    <3> QED BY <2>1, <2>7, <3>1 DEF Served
  <2>9. Leads(mail)'
    BY <2>7 DEF Leads, Opens
  <2>10. Reply(mail)
    BY <2>3, <2>5, <2>6
  <2>11. Sources'
    <3>1. PICK p \in Int : p = server.position + len
      <4>1. PICK q \in Int : q = server.position
        BY <2>1
      <4> QED BY <2>2, <4>1
    <3>2. server' = [server EXCEPT !.position = p]
      BY <2>4, <3>1
    <3>3. server \in Servers
      BY <1>1 DEF Sources
    <3>4. server' \in Servers /\ server'.value = server.value
      BY <3>2, <3>3, ServerForms
    <3> QED BY <1>1, <2>1, <2>4, <3>4 DEF Sources
  <2> QED BY <1>1, <2>7, <2>8, <2>9, <2>10, <2>11, ReplyWhole
<1>4. CASE ServeDownload
  <2>1. /\ inbox.object \in Objects /\ inbox.value \in Values
        /\ inbox.value.origin \in Own(inbox.object)
    BY <1>1, <1>4 DEF ServeDownload, Asks
  <2>2. PICK o \in Objects, value \in Values : o = inbox.object /\ value = inbox.value
    BY <2>1
  <2>3. object' = [object EXCEPT ![o] = value] /\ server' = NoTransfer
    BY <1>4, <2>2 DEF ServeDownload, Store
  <2>4. Sources'
    BY <1>1, <2>1, <2>2, <2>3, ServerForms DEF Sources
  <2>5. PICK mail : mail = [service |-> "response", command |-> "download", object |-> o]
    OBVIOUS
  <2>6. mail \in OtherMails
    BY <2>5 DEF OtherMails
  <2>7. Reply(mail)
    BY <1>4, <2>2, <2>5 DEF ServeDownload
  <2> QED BY <1>1, <2>4, <2>6, <2>7, OtherWhole
<1>5. CASE ServeAbort
  <2>1. [service |-> "abort"] \in OtherMails
    BY DEF OtherMails
  <2>2. Reply([service |-> "abort"]) /\ server' = NoTransfer /\ UNCHANGED object
    BY <1>5 DEF ServeAbort
  <2>3. Sources'
    BY <1>1, <2>2, ServerForms DEF Sources
  <2> QED BY <1>1, <2>1, <2>2, <2>3, OtherWhole
<1> QED BY <1>2, <1>3, <1>4, <1>5 DEF Serve

LEMMA SlaveWhole ==
  ASSUME WholeInv,
         \/ ServeException \/ Emergency
         \/ \E o \in Objects : \E len \in Lengths[o] : Update(o, len)
  PROVE  Sources' /\ Queue' /\ Begins'
<1>0. Sources /\ Asks /\ Queue /\ Begins /\ updates \in Nat
  BY DEF WholeInv, Sources
<1>1. CASE ServeException
  <2>1. [service |-> "exception"] \in OtherMails
    BY DEF OtherMails
  <2>2. /\ Reply([service |-> "exception"]) /\ inbox' = NoMail
        /\ UNCHANGED <<holder, pc, transfer, object, updates, server>>
    BY <1>1 DEF ServeException
  <2>3. Sources'
    BY <1>0, <2>2 DEF Sources, Asks
  <2> QED BY <2>1, <2>2, <2>3, OtherWhole
<1>2. CASE Emergency
  <2>1. [service |-> "emergency"] \in OtherMails
    BY DEF OtherMails
  <2>2. /\ Reply([service |-> "emergency"]) /\ UNCHANGED inbox
        /\ UNCHANGED <<holder, pc, transfer, object, updates, server>>
    BY <1>2 DEF Emergency
  <2>3. Sources'
    BY <1>0, <2>2 DEF Sources, Asks
  <2> QED BY <2>1, <2>2, <2>3, OtherWhole
<1>3. ASSUME NEW o \in Objects, NEW len \in Lengths[o], Update(o, len)
      PROVE  Sources' /\ Queue' /\ Begins'
  <2>1. /\ updates' = updates + 1 /\ object' = [object EXCEPT ![o] = Value(o, updates', len)]
        /\ UNCHANGED <<inbox, outbox, server, holder, pc, data, total>>
    BY <1>3 DEF Update, Store, transfer
  <2>2. Value(o, updates', len) \in Values /\ Value(o, updates', len).origin \in Own(o)
    <3>1. len \in Nat
      BY ConstantsAssumption DEF ConstantsAssumption, Objects
    <3>2. updates' \in Nat
      BY <1>0, <2>1
    <3> QED BY <3>1, <3>2 DEF Value, Values, Own
  <2>5. PICK v \in Values : v = Value(o, updates', len) /\ v.origin \in Own(o)
    BY <2>2
  <2>6. object' = [object EXCEPT ![o] = v] /\ updates' \in Nat
    BY <1>0, <2>1, <2>5
  <2>3. Sources'
    BY <1>0, <2>1, <2>5, <2>6 DEF Sources, Asks
  <2>4. Queue' /\ \A value, n : Resumed(value, n) => Resumed(value, n)'
    BY <1>0, <2>1, KeptQueue
  <2> QED BY <1>0, <2>1, <2>3, <2>4, KeptBegins
<1> QED BY <1>1, <1>2, <1>3

LEMMA NextWhole == WholeInv /\ [Next]_vars => WholeInv'
<1> SUFFICES ASSUME WholeInv, [Next]_vars PROVE Sources' /\ Queue' /\ Begins'
  BY NextExclusive DEF WholeInv
<1>1. ASSUME NEW c \in Calls, Master(c) PROVE Sources' /\ Queue' /\ Begins'
  BY <1>1, RequestWhole, ResponseWhole DEF Master
<1>2. ASSUME NEW c \in Calls, Cancel(c) PROVE Sources' /\ Queue' /\ Begins'
  <2>1. holder' = Nobody /\ UNCHANGED <<inbox, outbox, slave, server>>
    BY <1>2 DEF Cancel, End, slave
  <2>2. Begins'
    BY <2>1, NobodyCalls, NoneBegun
  <2>3. Asks'
    BY <2>1 DEF WholeInv, Sources, Asks
  <2> QED BY <2>1, <2>2, <2>3, KeptQueue, KeptSources DEF WholeInv
<1>3. ASSUME UNCHANGED vars PROVE Sources' /\ Queue' /\ Begins'
  <2>1. UNCHANGED <<holder, pc, data, total, inbox, outbox, slave, server>>
    BY <1>3 DEF vars, transfer, slave
  <2>2. Asks'
    BY <2>1 DEF WholeInv, Sources, Asks
  <2>3. Queue' /\ \A value, n : Resumed(value, n) => Resumed(value, n)'
    BY <2>1, KeptQueue DEF WholeInv
  <2> QED BY <2>1, <2>2, <2>3, KeptSources, KeptBegins DEF WholeInv
<1> QED BY <1>1, <1>2, <1>3, ServeWhole, SlaveWhole DEF Next

(* A read that returns has the first part alone, or it and what remains.     *)
LEMMA ReturnsWhole ==
  ASSUME WholeInv, CalmInv, [Next]_vars, NEW c \in Calls, Kind[c] = "read", Returns(c, "ok")
  PROVE  /\ Whole(data') /\ data'[1].value.len <= Size[c]
         /\ data'[1].value.origin \in Own(Object[c])
<1>0. Size[c] \in Nat /\ Queue /\ Begins
  BY ConstantsAssumption DEF ConstantsAssumption, WholeInv
<1>1. /\ ReadResponse(c) \/ ReadSegment(c)
      /\ \A other : End(c, other) => other = "ok"
  BY Ends DEF WriteRequest, WriteResponse
<1>2. CASE ReadResponse(c)
  <2>1. PICK mail : /\ Receive(mail)
                    /\ IF ~IsResponse(mail, c, "upload") \/ ~mail.sized \/ mail.total > Size[c]
                       THEN End(c, "error") /\ UNCHANGED transfer
                       ELSE /\ total' = mail.total /\ data' = <<mail.part>>
                            /\ IF mail.expedited \/ Remain' = 0 THEN End(c, "ok") ELSE Goto(c, "send")
    BY <1>2 DEF ReadResponse
  <2>2. UNCHANGED server /\ mail \in Mails
    BY <1>0, <1>2, <2>1, Followed DEF ReadResponse, slave
  <2>3. ~Goto(c, "send")
    BY DEF Goto, Returns, CalmInv, Exclusive
  <2>4. /\ IsResponse(mail, c, "upload") /\ ~(mail.total > Size[c])
        /\ total' = mail.total /\ data' = <<mail.part>>
        /\ mail.expedited \/ Remain' = 0
    BY <1>1, <2>1, <2>3
  <2>5. PICK part \in Parts : part = mail.part
    BY <2>2, <2>4, FirstPart
  <2>6. /\ part.from = 0 /\ part.value.origin \in Own(Object[c])
        /\ mail.total = part.value.len /\ (mail.expedited => part.len = mail.total)
    BY <2>2, <2>4, <2>5, FirstPart
  <2>7. PICK t \in Nat, l \in Int : t = part.value.len /\ l = part.len
    BY DEF Parts, Values
  <2>8. data' = <<part>> /\ data'[1] = part /\ total' = t
    BY <2>4, <2>5, <2>6, <2>7
  <2>9. l = t
    BY <2>4, <2>6, <2>7, <2>8 DEF Remain
  <2>10. Whole(<<part>>)
    <3>1. DOMAIN <<part>> = {1} /\ <<part>>[1] = part /\ Last(<<part>>) = part
      BY DEF Last
    <3>2. PICK s : s = <<part>>
      OBVIOUS
    <3>3. DOMAIN s = {1} /\ s[1] = part /\ Last(s) = part
      BY <3>1, <3>2
    <3>4. part.from + part.len = part.value.len
      BY <2>6, <2>7, <2>9
    <3>5. Whole(s)
      BY <2>6, <3>3, <3>4 DEF Whole
    <3> QED BY <3>2, <3>5
  <2>11. t <= Size[c]
    BY <1>0, <2>4, <2>6, <2>7
  <2> QED BY <2>6, <2>7, <2>8, <2>10, <2>11
<1>3. CASE ReadSegment(c)
  <2>1. PICK mail : /\ Receive(mail)
                    /\ IF ~IsSegment(mail, "upload segment") THEN End(c, "error") /\ UNCHANGED data
                       ELSE IF mail.part.len + mail.padding < Remain THEN End(c, "panic") /\ UNCHANGED data
                       ELSE /\ data' = Append(data, [mail.part EXCEPT !.len = Remain])
                            /\ End(c, "ok")
    BY <1>3 DEF ReadSegment
  <2>2. /\ IsSegment(mail, "upload segment")
        /\ data' = Append(data, [mail.part EXCEPT !.len = Remain])
    BY <1>1, <2>1
  <2>3. Begun(c)
    BY <1>0, <1>3 DEF ReadSegment, At, Begins
  <2>4. outbox # <<>> /\ mail = outbox[1] /\ mail \in Mails
    <3>1. UNCHANGED server
      BY <1>3 DEF ReadSegment, slave
    <3>2. mail \in Mails
      BY <1>0, <2>1, <3>1, Followed
    <3>3. PICK q \in Seq(Mails) : q = outbox
      BY <1>0 DEF Queue
    <3>4. q # <<>> /\ mail = Head(q)
      BY <2>1, <3>3 DEF Receive
    <3>5. mail = q[1]
      BY <3>4
    <3> QED BY <3>2, <3>3, <3>4, <3>5
  <2>5. PICK first \in Parts : /\ first = data[1] /\ data = <<first>> /\ first.from = 0
                               /\ first.value.origin \in Own(Object[c])
                               /\ total = first.value.len /\ total <= Size[c]
                               /\ Resumed(first.value, first.len)
    BY <2>3 DEF Begun
  <2>6. PICK part \in Parts : part = mail.part
    <3>1. mail \in SegmentMails
      BY <2>2, <2>4 DEF Mails, UploadMails, OtherMails, IsSegment
    <3> QED BY <3>1 DEF SegmentMails
  <2>7. part.value = first.value /\ part.from = first.len
    BY <2>2, <2>4, <2>5, <2>6 DEF Resumed, MailAt
  <2>8. PICK t \in Nat, l \in Int : t = first.value.len /\ l = first.len
    BY DEF Parts, Values
  <2>9. Remain = t - l
    BY <2>5, <2>8 DEF Remain
  <2>10. PICK rest : rest = [part EXCEPT !.len = t - l]
    OBVIOUS
  <2>11. rest.value = first.value /\ rest.from = l /\ rest.len = t - l
    BY <2>7, <2>8, <2>10 DEF Parts
  <2>12. data' = <<first, rest>>
    <3>1. [mail.part EXCEPT !.len = Remain] = rest
      BY <2>6, <2>9, <2>10, Zenon
    <3>2. data' = Append(data, rest)
      BY <2>2, <3>1, Zenon
    <3>3. data' = Append(<<first>>, rest)
      BY <2>5, <3>2, Zenon
    <3> QED BY <3>3, AppendTwo, Zenon
  <2>13. Whole(<<first, rest>>)
    <3>1. /\ DOMAIN <<first, rest>> = 1..2 /\ <<first, rest>>[1] = first
          /\ <<first, rest>>[2] = rest /\ Last(<<first, rest>>) = rest
      BY DEF Last
    <3>2. l + (t - l) = t
      OBVIOUS
    <3> QED BY <2>5, <2>8, <2>11, <3>1, <3>2 DEF Whole
  <2>14. data'[1] = first
    BY <2>12
  <2> QED BY <2>5, <2>12, <2>13, <2>14
<1> QED BY <1>1, <1>2, <1>3

(* A read that succeeds gives all the bytes of one value of its object, even *)
(* when errors, panics, dropped calls, exceptions or emergencies have shifted*)
(* the responses: a read may take an old response for its own, but what comes*)
(* next in the mailbox continues this one, or makes the read fail.           *)
THEOREM ReadsAreWhole == Spec => ReadWhole
<1>1. WholeInv /\ CalmInv /\ [Next]_vars =>
        [\A c \in Calls : Kind[c] = "read" /\ Returns(c, "ok") =>
           /\ Whole(data') /\ data'[1].value.len <= Size[c]
           /\ data'[1].value.origin \in
                {Object[c]} \cup {w \in Calls : Object[w] = Object[c]}]_vars
  BY ReturnsWhole DEF Own
<1> QED BY InitWhole, NextWhole, CalmInvariant, <1>1, PTL DEF Spec, ReadWhole
=============================================================================
