------------------------------- MODULE CanSdo -------------------------------
(***************************************************************************)
(* SDO transfers (src/src/can.rs): Can::sdo_read_slice, sdo_write_slice    *)
(* and the reception of their responses.  Calls share the mailbox of a     *)
(* slave under a mutex, held over a whole transfer: one request and its    *)
(* response, then a segment if the data needs one.                         *)
(*                                                                         *)
(* A read never has two segments, and a write has none (WriteInOneRequest  *)
(* in CanSdoProofs): the code panics before.  So toggle bits never change, *)
(* and are left out.                                                       *)
(*                                                                         *)
(* The mailbox is a queue of mails in each direction, which is what module *)
(* Mailbox shows it to be when the network loses no acknowledge.  The      *)
(* slave's SDO server is external: it serves requests in order, gives the  *)
(* bytes of one value in a transfer, may abort it, may fail to serve a     *)
(* mail (exception), and may send an emergency.                            *)
(*                                                                         *)
(* Data is the part of a value it is made of.                              *)
(***************************************************************************)
EXTENDS Integers, Sequences, FiniteSets, SequencesExt

CONSTANTS
  Calls,
  Kind,         (* what each call does: "read" or "write"                    *)
  Object,       (* the SDO (index and subindex) each call is about           *)
  Size,         (* length of its buffer, or of its data                      *)
  Lengths,      (* lengths of the values each object gets from the slave     *)
  WriteMax,     (* size of the slave's area for the mails of the master      *)
  ReadMax,      (* size of the slave's area for its own mails                *)
  Abandon,      (* calls whose future may be dropped                         *)
  MaxUpdates,   (* BOUND: number of values the slave gives to its objects    *)
  MaxStrays,    (* BOUND: number of emergencies and exceptions               *)
  Nobody        (* no call                                                   *)

MAILBOX_MAX_SIZE     == 1024
MAILBOX_HEADER       == 6
COE_HEADER           == 2
SDO_HEADER           == 4
SEGMENT_HEADER       == 1
EXPEDITED_MAX_SIZE   == 4
SDO_SEGMENT_MAX_SIZE ==
  MAILBOX_MAX_SIZE - MAILBOX_HEADER - COE_HEADER - SEGMENT_HEADER

ASSUME ConstantsAssumption ==
  /\ Kind \in [Calls -> {"read", "write"}] /\ Size \in [Calls -> Nat]
  /\ DOMAIN Object = Calls
  /\ Lengths \in [{Object[c] : c \in Calls} -> SUBSET Nat]
  /\ WriteMax \in 32..MAILBOX_MAX_SIZE /\ ReadMax \in 32..MAILBOX_MAX_SIZE
  /\ Abandon \subseteq Calls
  /\ MaxUpdates \in Nat /\ MaxStrays \in Nat
  /\ Nobody \notin Calls

Objects == {Object[c] : c \in Calls}

VARIABLES
  holder,    (* the call that has the mailbox locked                         *)
  pc,        (* where each call is, or how it ended                          *)
  total,     (* bytes that the call which holds the mailbox has to receive   *)
  data,      (* the parts it received                                        *)
  inbox,     (* mail for the slave                                           *)
  outbox,    (* mails from the slave                                         *)
  object,    (* the value of each object of the slave                        *)
  server,    (* the segmented transfer of the slave                          *)
  updates, strays,  (* numbers of these so far                               *)
  seen,      (* values of its object since the call began (history)          *)
  stored,    (* the slave stored the data of the call (history)              *)
  refused    (* the slave refused the request of the call (history)          *)

transfer == <<total, data>>
slave    == <<object, server, updates, strays>>
history  == <<seen, stored, refused>>
vars     == <<holder, pc, transfer, inbox, outbox, slave, history>>

-----------------------------------------------------------------------------
(* A value comes from its object, or from a call that wrote it.  A part is   *)
(* `len` bytes of it.                                                        *)
Value(origin, version, len) == [origin |-> origin, version |-> version, len |-> len]
Part(value, from, len)      == [value |-> value, from |-> from, len |-> len]
Written(c) == Value(c, 0, Size[c])

NoMail == [command |-> "none"]
NoTransfer == [command |-> "none", value |-> Value(Nobody, 0, 0), position |-> 0]

Init ==
  /\ holder = Nobody /\ pc = [c \in Calls |-> "idle"]
  /\ total = 0 /\ data = <<>>
  /\ inbox = NoMail /\ outbox = <<>>
  /\ \E len \in [Objects -> UNION {Lengths[o] : o \in Objects}] :
       /\ \A o \in Objects : len[o] \in Lengths[o]
       /\ object = [o \in Objects |-> Value(o, 0, len[o])]
  /\ server = NoTransfer
  /\ updates = 0 /\ strays = 0
  /\ seen = {} /\ stored = FALSE /\ refused = FALSE

Min2(m, n) == IF m < n THEN m ELSE n

-----------------------------------------------------------------------------
(* Master *)

At(c, step) == holder = c /\ pc[c] = step
Goto(c, step) == pc' = [pc EXCEPT ![c] = step] /\ UNCHANGED holder
(* The call returns, panics or is dropped: the mutex is released.            *)
End(c, how) == pc' = [pc EXCEPT ![c] = how] /\ holder' = Nobody

(* variant: the mailbox is not locked, a call takes it over from another     *)
LockAny(c) ==
  /\ pc[c] = "idle"
  /\ holder' = c /\ pc' = [pc EXCEPT ![c] = "request"]
  /\ total' = 0 /\ data' = <<>>
  /\ seen' = {object[Object[c]]} /\ stored' = FALSE /\ refused' = FALSE
  /\ UNCHANGED <<inbox, outbox, slave>>

Lock(c) ==
  /\ pc[c] = "idle" /\ holder = Nobody
  /\ holder' = c /\ pc' = [pc EXCEPT ![c] = "request"]
  /\ total' = 0 /\ data' = <<>>
  /\ seen' = {object[Object[c]]} /\ stored' = FALSE /\ refused' = FALSE
  /\ UNCHANGED <<inbox, outbox, slave>>

(* Mailbox::write, once the slave has taken the previous mail.               *)
Send(mail) == inbox = NoMail /\ inbox' = mail

(* The mail fits the buffer of can.rs and the area of the slave.             *)
Fits(len) == len <= MAILBOX_MAX_SIZE /\ MAILBOX_HEADER + len <= WriteMax

ReadRequest(c) ==
  /\ At(c, "request") /\ Kind[c] = "read"
  /\ Send([command |-> "upload", call |-> c, object |-> Object[c]])
  /\ Goto(c, "response")
  /\ UNCHANGED <<transfer, outbox, slave, history>>

Expedited(c) == Size[c] <= EXPEDITED_MAX_SIZE

(* The first request carries the length of the data, and its beginning.      *)
FirstLength(c) == Min2(Size[c], SDO_SEGMENT_MAX_SIZE)

(* The size field of an expedited request has two bits.                      *)
WriteFits(c) ==
  IF Expedited(c) THEN EXPEDITED_MAX_SIZE - Size[c] < 4
  ELSE Fits(COE_HEADER + SDO_HEADER + 4 + FirstLength(c))

WriteRequest(c) ==
  /\ At(c, "request") /\ Kind[c] = "write"
  /\ IF WriteFits(c)
     THEN /\ Send([command |-> "download", call |-> c, object |-> Object[c],
                   value |-> Written(c)])
          /\ Goto(c, "response")
     ELSE End(c, "panic") /\ UNCHANGED inbox
  /\ UNCHANGED <<transfer, outbox, slave, history>>

(* Mailbox::read, which does not take an exception out of the mailbox.       *)
Receive(mail) ==
  /\ outbox # <<>> /\ mail = Head(outbox)
  /\ outbox' = IF mail.service = "exception" THEN outbox ELSE Tail(outbox)

(* variant: the acknowledge of a write is not looked at                      *)
IsAnyAcknowledge(mail, c, command) ==
  \/ Kind[c] = "write"
  \/ /\ mail.service = "response" /\ mail.command = command
     /\ mail.object = Object[c]
(* variant: the object of the response is not looked at                      *)
IsAnyObject(mail, c, command) ==
  mail.service = "response" /\ mail.command = command
(* receive_sdo_response                                                      *)
IsResponse(mail, c, command) ==
  /\ mail.service = "response" /\ mail.command = command
  /\ mail.object = Object[c]

(* Bytes still to receive after the first response.                          *)
Remain == total - data[1].len

(* variant: a response that is not the right one is skipped                  *)
ReadNextResponse(c) == \E mail \in ToSet(outbox) :
  /\ At(c, "response") /\ Kind[c] = "read" /\ Receive(mail)
  /\ IF ~IsResponse(mail, c, "upload") \/ ~mail.sized \/ mail.total > Size[c]
     THEN Goto(c, "response") /\ UNCHANGED transfer
     ELSE /\ total' = mail.total /\ data' = <<mail.part>>
          /\ IF mail.expedited \/ Remain' = 0 THEN End(c, "ok") ELSE Goto(c, "send")
  /\ UNCHANGED <<inbox, slave, history>>

(* A response without size is refused, as is a value larger than the buffer. *)
ReadResponse(c) == \E mail \in ToSet(outbox) :
  /\ At(c, "response") /\ Kind[c] = "read" /\ Receive(mail)
  /\ IF ~IsResponse(mail, c, "upload") \/ ~mail.sized \/ mail.total > Size[c]
     THEN End(c, "error") /\ UNCHANGED transfer
     ELSE /\ total' = mail.total /\ data' = <<mail.part>>
          /\ IF mail.expedited \/ Remain' = 0 THEN End(c, "ok") ELSE Goto(c, "send")
  /\ UNCHANGED <<inbox, slave, history>>

WriteResponse(c) == \E mail \in ToSet(outbox) :
  /\ At(c, "response") /\ Kind[c] = "write" /\ Receive(mail)
  /\ End(c, IF IsResponse(mail, c, "download") THEN "ok" ELSE "error")
  /\ UNCHANGED <<transfer, inbox, slave, history>>

ReadSegmentRequest(c) ==
  /\ At(c, "send")
  /\ Send([command |-> "upload segment", call |-> c])
  /\ Goto(c, "segment")
  /\ UNCHANGED <<transfer, outbox, slave, history>>

(* receive_sdo_segment                                                       *)
IsSegment(mail, command) ==
  mail.service = "response" /\ mail.command = command

(* variant: the segment may be shorter than what remains                     *)
ReadShortSegment(c) == \E mail \in ToSet(outbox) :
  /\ At(c, "segment") /\ Receive(mail)
  /\ IF ~IsSegment(mail, "upload segment") THEN End(c, "error") /\ UNCHANGED data
     ELSE /\ data' = Append(data, mail.part)
          /\ End(c, "ok")
  /\ UNCHANGED <<total, inbox, slave, history>>

(* All that remains is taken from the segment, which must be long enough; it *)
(* may be longer, short segments being padded.                               *)
ReadSegment(c) == \E mail \in ToSet(outbox) :
  /\ At(c, "segment") /\ Receive(mail)
  /\ IF ~IsSegment(mail, "upload segment") THEN End(c, "error") /\ UNCHANGED data
     ELSE IF mail.part.len + mail.padding < Remain THEN End(c, "panic") /\ UNCHANGED data
     ELSE /\ data' = Append(data, [mail.part EXCEPT !.len = Remain])
          /\ End(c, "ok")
  /\ UNCHANGED <<total, inbox, slave, history>>

(* The future is dropped at an await.  Neither does it, nor any error, tell  *)
(* the slave that the transfer is over.                                      *)
Cancel(c) ==
  /\ c \in Abandon /\ holder = c
  /\ End(c, "dropped")
  /\ UNCHANGED <<transfer, inbox, outbox, slave, history>>

-----------------------------------------------------------------------------
(* Slave (external) *)

Reply(mail)  == outbox' = Append(outbox, mail)

Store(o, value) ==
  /\ object' = [object EXCEPT ![o] = value]
  /\ seen' = IF holder # Nobody /\ Object[holder] = o THEN seen \cup {value} ELSE seen

(* Space for data in a mail after a header.                                  *)
Space(header) == ReadMax - MAILBOX_HEADER - COE_HEADER - header

(* A value of at most four bytes may be expedited; else the response has its *)
(* length, and some of its beginning.                                        *)
ServeUpload ==
  LET o == inbox.object  value == object[o]
      response(expedited, sized, len) ==
        [service |-> "response", command |-> "upload", object |-> o,
         expedited |-> expedited, sized |-> sized, total |-> value.len,
         part |-> Part(value, 0, len)]
  IN /\ inbox.command = "upload"
     /\ \/ /\ value.len \in 1..EXPEDITED_MAX_SIZE
           /\ Reply(response(TRUE, TRUE, value.len))
           /\ server' = NoTransfer /\ UNCHANGED refused
        \/ \E sized \in BOOLEAN, len \in {0, Min2(value.len, Space(SDO_HEADER + 4))} :
             /\ Reply(response(FALSE, sized, len))
             /\ server' = [command |-> "upload segment", value |-> value, position |-> len]
             /\ refused' = (refused \/ (~sized /\ inbox.call = holder))
     /\ UNCHANGED <<object, seen, stored>>

(* Segments of less than seven bytes may be padded.                          *)
ServeUploadSegment ==
  LET len == Min2(server.value.len - server.position, Space(SEGMENT_HEADER))
  IN /\ inbox.command = "upload segment" /\ server.command = "upload segment"
     /\ \E padding \in {0, IF len < 7 THEN 7 - len ELSE 0} :
          Reply([service |-> "response", command |-> "upload segment",
                 padding |-> padding, part |-> Part(server.value, server.position, len)])
     /\ server' = [server EXCEPT !.position = @ + len]
     /\ UNCHANGED <<object, history>>

(* All the data of a write is in its request.                                *)
ServeDownload ==
  /\ inbox.command = "download"
  /\ Store(inbox.object, inbox.value)
  /\ stored' = (stored \/ inbox.call = holder)
  /\ server' = NoTransfer
  /\ Reply([service |-> "response", command |-> "download", object |-> inbox.object])
  /\ UNCHANGED refused

(* The slave may refuse any request, but a segment that continues its        *)
(* transfer.                                                                 *)
ServeAbort ==
  /\ inbox.command = "upload segment" => server.command # "upload segment"
  /\ Reply([service |-> "abort"])
  /\ server' = NoTransfer
  /\ refused' = (refused \/ (inbox.command # "upload segment" /\ inbox.call = holder))
  /\ UNCHANGED <<object, seen, stored>>

Serve ==
  /\ inbox # NoMail /\ inbox' = NoMail
  /\ ServeUpload \/ ServeUploadSegment \/ ServeDownload \/ ServeAbort
  /\ UNCHANGED <<holder, pc, transfer, updates, strays>>

(* MailboxType::Exception                                                    *)
ServeException ==
  /\ inbox # NoMail /\ inbox' = NoMail
  /\ strays < MaxStrays
  /\ strays' = strays + 1
  /\ Reply([service |-> "exception"])
  /\ UNCHANGED <<holder, pc, transfer, object, server, updates, history>>

(* The slave gives a value to an object.                                     *)
Update(o, len) ==
  /\ updates < MaxUpdates
  /\ updates' = updates + 1
  /\ Store(o, Value(o, updates', len))
  /\ UNCHANGED <<holder, pc, transfer, inbox, outbox, server, strays, stored, refused>>

(* CanService::Emergency                                                     *)
Emergency ==
  /\ strays < MaxStrays
  /\ strays' = strays + 1
  /\ Reply([service |-> "emergency"])
  /\ UNCHANGED <<holder, pc, transfer, inbox, object, server, updates, history>>

-----------------------------------------------------------------------------
Master(c) ==
  \/ Lock(c)
  \/ ReadRequest(c) \/ ReadResponse(c) \/ ReadSegmentRequest(c) \/ ReadSegment(c)
  \/ WriteRequest(c) \/ WriteResponse(c)

Next ==
  \/ \E c \in Calls : Master(c) \/ Cancel(c)
  \/ Serve
  \/ \E o \in Objects : \E len \in Lengths[o] : Update(o, len)
  \/ ServeException \/ Emergency

Spec == Init /\ [][Next]_vars

(* Awaits end when what they wait for comes, and the slave serves requests.  *)
Fairness == (\A c \in Calls : WF_vars(Master(c))) /\ WF_vars(Serve)
FairSpec == Spec /\ Fairness

-----------------------------------------------------------------------------
(* Properties *)

Ended == {"ok", "error", "panic", "dropped"}

(* The mailbox belongs to one call, between its first and its last await.    *)
Exclusive ==
  /\ holder \in Calls \cup {Nobody}
  /\ pc \in [Calls -> {"idle", "request", "response", "send", "segment"} \cup Ended]
  /\ \A c \in Calls : pc[c] \notin {"idle"} \cup Ended => holder = c

TypeOK ==
  /\ Exclusive
  /\ total \in Nat /\ Len(data) <= 2
  /\ stored \in BOOLEAN /\ refused \in BOOLEAN

(* No mail came that nobody asked for, no request was left unanswered.       *)
Calm == strays = 0 /\ \A c \in Calls : pc[c] # "dropped"

Returns(c, how) == pc[c] # how /\ pc'[c] = how

(* The parts are all the bytes, in order, of one value.                      *)
Whole(parts) ==
  LET value == parts[1].value
  IN /\ \A i \in DOMAIN parts :
          /\ parts[i].value = value
          /\ parts[i].from = IF i = 1 THEN 0 ELSE parts[i-1].from + parts[i-1].len
     /\ Last(parts).from + Last(parts).len = value.len

(* A read that succeeds gives all the bytes, in order, of one value that its *)
(* object had, never parts of two values or of two objects: even when errors,*)
(* panics, cancellations or emergencies have shifted the responses.          *)
ReadWhole == [][\A c \in Calls : Kind[c] = "read" /\ Returns(c, "ok") =>
                  /\ Whole(data') /\ data'[1].value.len <= Size[c]
                  /\ data'[1].value.origin \in
                       {Object[c]} \cup {w \in Calls : Object[w] = Object[c]}]_vars

(* The value is one the object had during the call.                          *)
ReadFresh == [][\A c \in Calls : Calm /\ Kind[c] = "read" /\ Returns(c, "ok") =>
                  data'[1].value \in seen]_vars

(* A write that succeeds was stored: the acknowledge is that of its request, *)
(* whatever calls that failed or panicked before it have left in the mailbox.*)
WriteStored == [][\A c \in Calls : Calm /\ Kind[c] = "write" /\ Returns(c, "ok") =>
                    stored]_vars

(* A call fails only if the slave refused it, or the value was too large for *)
(* its buffer: nothing that a previous call left behind makes it fail.       *)
FailsForCause == [][\A c \in Calls : Calm /\ Returns(c, "error") =>
  \/ refused
  \/ Kind[c] = "read" /\ \E value \in seen : value.len > Size[c]]_vars

(* The mailbox is used as Rpc says: no request before the previous one is    *)
(* answered.                                                                 *)
OneOutstanding == Calm =>
  Len(outbox) + (IF inbox = NoMail THEN 0 ELSE 1) =
    IF \E c \in Calls : pc[c] \in {"response", "segment"} THEN 1 ELSE 0

(* Every call ends.                                                          *)
CallsEnd == \A c \in Calls : <>(pc[c] \in Ended)

(* "read an SDO, any size", "write an SDO, any size" (can.rs:58, :161): no   *)
(* call panics, whatever the size of the data, as long as nothing disturbed  *)
(* the mailbox.                                                              *)
AnySizeServed == Calm => \A c \in Calls : pc[c] # "panic"
=============================================================================
