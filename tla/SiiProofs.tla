------------------------------- MODULE SiiProofs -------------------------------
(* What a user of the EEPROM gets, proved for any slaves, requests, sizes of     *)
(* chunks and failures: who may be refused a command, what is left of a write    *)
(* whenever it ends, what reads and writes that succeed did.                    *)
EXTENDS Sii, SequenceTheorems, TLAPS

Phases == {"idle", "new", "access", "command", "poll", "data", "done"}
Stages == {"none", "slice", "category", "count", "general", "length", "string"}
Slicing == {"command", "poll", "data", "done"}

CallType ==
    [phase : Phases, stage : Stages, address : 0 .. Top, length : Nat,
     got : Seq(Nat), found : Seq(Seq(Nat)), left : Int]
OpType ==
    [kind : {"none", "read", "write", "reload"}, address : Nat, data : Seq(Nat),
     of : Requests \cup {NoRequest}, end : {"none", "running", "frame", "dropped"}]

SlaveType ==
    /\ device \in Devices /\ rom \in Seq(Nat) /\ DOMAIN rom = DOMAIN Image(device)
    /\ owner \in {"DL", "Pdi"}
    /\ op \in OpType /\ (op.kind = "none" => op = NoOp) /\ (op.kind = "write" => Len(op.data) = 2)
    /\ error \in {"none", "command", "write", "device", "checksum"}
    /\ data \in Seq(Nat) /\ Len(data) = device.chunk

(* Whether the slice of a stage of a walk has the bytes that the walk looks at.  *)
Long(stage, n) == /\ stage = "category" => n >= 4
                  /\ stage \in {"count", "length"} => n >= 1
CallForm ==
    /\ call \in CallType
    /\ call.phase # "idle" => request \in Requests
    /\ call.phase \in {"data", "done"} => Kind = "read"
    /\ call.phase # "idle" /\ Kind = "write" => call.length = Len(request.data)
    /\ call.phase = "poll" /\ Kind = "write" => Len(call.got) + 2 <= call.length
    /\ call.phase \in Slicing /\ Kind = "read" =>
        /\ Long(call.stage, call.length)
        /\ IF call.phase = "done" THEN Len(call.got) = call.length ELSE Len(call.got) < call.length

SiiForm ==
    /\ SlaveType /\ CallForm
    /\ locked \in BOOLEAN /\ unsure \in BOOLEAN
    /\ request \in Requests \cup {NoRequest} /\ failures \in 0 .. MaxFailures

--------------------------------------------------------------------------------
(* Refusals *)

Cause == \/ refusal.why = "owner" /\ (~locked \/ unsure)
         \/ refusal.why = "busy" /\ refusal.end \in {"frame", "dropped"}

(* The flag tells the owner, but while it changes and when the answer was lost. *)
FlagTrue ==
    /\ locked /\ ~unsure /\ call.phase # "access" => owner = "DL"
    /\ call.phase = "access" => locked = (request.kind = "acquire")
(* What the slave is at work on is the command polled, or one of a call that did *)
(* not see the end of its command.                                               *)
WorkOf ==
    op # NoOp =>
        IF op.end = "running"
        THEN \/ call.phase = "poll"
             \/ call.phase = "idle" /\ outcome.result \in {"frame", "dropped"}
        ELSE op.end \in {"frame", "dropped"}
Caused == \/ call.phase = "poll" /\ error = "command"
          \/ call.phase = "idle" /\ outcome.result = "command"
          => Cause
RefusalInv == FlagTrue /\ WorkOf /\ Caused

--------------------------------------------------------------------------------
(* Slices *)

(* No call goes beyond the last address, or the build panics if one does.        *)
NoWrap ==
    OverflowChecks \/ \A r \in Requests :
        /\ r.kind = "read" => r.address + r.length <= Top + 1
        /\ r.kind = "write" => r.address + Len(r.data) <= Top + 1
(* What users write is within the EEPROM.                                        *)
WritesInside ==
    \A r \in Requests : r.kind = "write" =>
        \A d \in Devices : r.address + Len(r.data) <= Len(Image(d))

(* A slice that is read so far is what the EEPROM has at its place, and the next *)
(* command is at an even address; the slave is at work for this call alone, but  *)
(* when its first command was refused.                                           *)
Refused == call.phase = "poll" /\ error = "command"
AtWork ==
    /\ call.phase = "poll" /\ ~Refused /\ op # NoOp =>
         /\ error = "none" /\ op.kind = Kind /\ 2 * op.address = Position - Start
         /\ op.of = request
    /\ call.phase \in {"command", "done"} => call.got = <<>> \/ op = NoOp
    /\ call.phase = "data" => op = NoOp
At(bytes, a) == \A i \in 1 .. Len(bytes) : bytes[i] = Byte(a + i - 1)
SliceRequested ==
    request.kind = "read" =>
        /\ call.phase \in Slicing \cup {"idle"}
        /\ call.phase \in Slicing =>
            /\ call.stage = "slice" /\ call.address = request.address /\ call.length = request.length
            /\ call.got # <<>> /\ call.phase # "done" => Position % 2 = 0
            /\ call.phase \in {"poll", "data"} => Position <= Top
SliceSoFar ==
    request.kind = "read" /\ call.phase \in Slicing =>
        /\ AtWork
        /\ ~Refused => At(call.got, call.address)
        /\ \/ call.phase = "poll" /\ op = NoOp /\ error \notin Errors("read")
           \/ call.phase = "data"
           => At(data, Position - Start)
SliceDone ==
    request.kind = "read" /\ call.phase = "idle" /\ outcome.result = "ok" =>
        /\ outcome.value \in Seq(Nat) /\ Len(outcome.value) = request.length
        /\ At(outcome.value, request.address)
        /\ request.length = 0 \/ op = NoOp
ReadInv == SliceRequested /\ SliceSoFar /\ SliceDone

(* The bytes written so far are those of the EEPROM, at their place.             *)
Stored(r, n) == \A i \in 1 .. n : rom[r.address + i] = r.data[i]
WriteRequested ==
    request.kind = "write" /\ call.phase # "idle" =>
        /\ call.phase \in {"command", "poll"}
        /\ call.address = request.address /\ call.length = Len(request.data)
        /\ Position % 2 = 0 /\ call.address % 2 = 0
        /\ Len(call.got) <= call.length
        /\ call.phase = "poll" => Position <= Top
WriteSoFar ==
    request.kind = "write" /\ call.phase # "idle" =>
        /\ AtWork
        /\ ~Refused => Stored(request, Len(call.got))
        /\ call.phase = "poll" /\ op = NoOp /\ error \notin Errors("write")
             => Stored(request, Len(call.got) + 2)
WriteDone ==
    request.kind = "write" /\ call.phase = "idle" /\ outcome.result = "ok" =>
        /\ Stored(request, Len(request.data))
        /\ Len(request.data) = 0 \/ op = NoOp
(* A command to write is about the next word of what its request has stored.     *)
Prefix ==
    op.kind = "write" =>
        LET n == 2 * op.address - op.of.address IN
        /\ op.of \in Requests /\ op.of.kind = "write"
        /\ n \in Nat /\ n + 2 <= Len(op.of.data)
        /\ op.data = SubSeq(op.of.data, n + 1, n + 2)
        /\ Stored(op.of, n)
WriteInv == WriteRequested /\ WriteSoFar /\ WriteDone /\ Prefix

--------------------------------------------------------------------------------
(* Types *)

LEMMA WrappedIn == ASSUME NEW n \in Nat PROVE Wrapped(n) \in 0 .. Top
BY ConstantsAssumption DEF Wrapped

LEMMA BytesSeq ==
    ASSUME SlaveType, NEW a \in Nat, NEW n \in Nat
    PROVE  /\ Bytes(a, n) \in Seq(Nat) /\ Len(Bytes(a, n)) = n
           /\ \A i \in 1 .. n : Bytes(a, n)[i] = Byte(a + i - 1)
<1>1. \A b \in Nat : Byte(b) \in Nat
  <2>1. device.fill \in Nat
    <3>1. device \in Devices
      BY DEF SlaveType
    <3>2. device.fill \in 0 .. 255
      BY <3>1, ConstantsAssumption
    <3> QED BY <3>2
  <2>2. \A b \in Nat : b < Len(rom) => rom[b + 1] \in Nat
    <3> SUFFICES ASSUME NEW b \in Nat, b < Len(rom) PROVE rom[b + 1] \in Nat
      OBVIOUS
    <3>1. rom \in Seq(Nat) /\ Len(rom) \in Nat
      BY DEF SlaveType
    <3>2. b + 1 \in 1 .. Len(rom)
      BY <3>1
    <3> QED BY <3>1, <3>2, ElementOfSeq
  <2> QED BY <2>1, <2>2 DEF Byte
<1>2. \A i \in 1 .. n : a + i - 1 \in Nat /\ Byte(a + i - 1) \in Nat
  BY <1>1
<1>3. Bytes(a, n) \in [1 .. n -> Nat]
  BY <1>2 DEF Bytes
<1>4. Bytes(a, n) \in Seq(Nat) /\ Len(Bytes(a, n)) = n
  BY <1>3
<1> QED BY <1>2, <1>4 DEF Bytes

LEMMA NoCallForm == NoCall \in CallType
<1>1. 0 \in 0 .. Top /\ <<>> \in Seq(Nat) /\ <<>> \in Seq(Seq(Nat))
  BY ConstantsAssumption
<1> QED BY <1>1 DEF NoCall, CallType, Phases, Stages

LEMMA EndForm == ASSUME call' = NoCall PROVE CallForm'
BY NoCallForm DEF CallForm, NoCall, Slicing

LEMMA ReadSliceForm ==
    ASSUME NEW c \in CallType, NEW stage \in Stages, NEW address \in Nat, NEW length \in Nat,
           Long(stage, length), request' \in Requests, request'.kind \notin {"write", "reload"}, device \in Devices,
           ReadSlice(c, stage, address, length)
    PROVE  CallForm'
<1>1. CASE address > Mask
  BY <1>1, EndForm DEF ReadSlice, End
<1>2. CASE ~(address > Mask)
  <2> DEFINE phase == IF length = 0 THEN "done" ELSE "command"
  <2>1. address \in 0 .. Top /\ phase \in Phases /\ <<>> \in Seq(Nat)
    BY <1>2, ConstantsAssumption DEF Mask, Phases
  <2>2. call' = [c EXCEPT !.phase = phase, !.stage = stage, !.address = address,
                          !.length = length, !.got = <<>>]
    BY <1>2 DEF ReadSlice, Go
  <2>3. call' \in CallType
    BY <2>1, <2>2 DEF CallType
  <2>4. /\ call'.phase = phase /\ call'.stage = stage /\ call'.length = length
        /\ call'.got = <<>>
    BY <2>2 DEF CallType
  <2> QED BY <2>3, <2>4 DEF CallForm, Long, Kind
<1> QED BY <1>1, <1>2

LEMMA ReadNextForm ==
    ASSUME NEW c \in CallType, NEW stage \in Stages, NEW skipped \in Nat, NEW length \in Nat,
           Long(stage, length), request' \in Requests, request'.kind \notin {"write", "reload"}, device \in Devices,
           ReadNext(c, stage, skipped, length)
    PROVE  CallForm'
<1> DEFINE next == c.address + c.length
<1>1. next + skipped \in Nat
  BY DEF CallType
<1>2. CASE ReadSlice(c, stage, Wrapped(next + skipped), length)
  <2>1. Wrapped(next + skipped) \in Nat
    BY <1>1, WrappedIn, ConstantsAssumption
  <2> HIDE DEF next
  <2> QED BY <1>2, <2>1, ReadSliceForm
<1>3. CASE End(Error("panic"))
  BY <1>3, EndForm DEF End
<1> QED BY <1>2, <1>3 DEF ReadNext

LEMMA NextStringForm ==
    ASSUME NEW c \in CallType, request' \in Requests, request'.kind \notin {"write", "reload"}, device \in Devices, NextString(c)
    PROVE  CallForm'
<1>1. CASE call' = NoCall
  BY <1>1, EndForm
<1>2. CASE ReadNext(c, "length", 0, 1)
  <2>1. "length" \in Stages /\ Long("length", 1)
    BY DEF Stages, Long
  <2> QED BY <1>2, <2>1, ReadNextForm
<1> QED BY <1>1, <1>2 DEF NextString, End

(* What the slave makes of a command.                                            *)
LEMMA TakeForm ==
    ASSUME SlaveType, NEW command \in OpType, command.kind # "none",
           command.kind = "write" => Len(command.data) = 2,
           TakeCommand(command), UNCHANGED device
    PROVE  SlaveType'
BY DEF SlaveType, TakeCommand

LEMMA PairType ==
    ASSUME SiiForm, call.phase # "idle", Kind = "write", Len(call.got) + 2 <= call.length
    PROVE  /\ Pair \in Seq(Nat) /\ Len(Pair) = 2
           /\ Pair[1] = request.data[Len(call.got) + 1] /\ Pair[2] = request.data[Len(call.got) + 2]
           /\ request.data \in Seq(Nat) /\ Len(request.data) = call.length
<1>1. request.data \in Seq(0 .. 255)
  BY RequestsAssumption DEF SiiForm, CallForm, Kind
<1>2. /\ Len(call.got) \in Nat /\ Len(request.data) \in Nat /\ call.length = Len(request.data)
  BY <1>1 DEF SiiForm, CallForm, CallType
<1>3. request.data \in Seq(Nat)
  <2>1. 0 .. 255 \subseteq Nat
    OBVIOUS
  <2> QED BY <1>1, <2>1, SeqMonotonic
<1> DEFINE n == Len(call.got)
<1>4. \A i \in n + 1 .. n + 2 : request.data[i] \in Nat
  <2> SUFFICES ASSUME NEW i \in n + 1 .. n + 2 PROVE request.data[i] \in Nat
    OBVIOUS
  <2>1. i \in 1 .. Len(request.data)
    BY <1>2
  <2> QED BY <1>3, <2>1, ElementOfSeq
<1>5. n + 1 \in Int /\ n + 2 \in Int
  BY <1>2
<1>6. /\ Pair \in Seq(Nat) /\ Len(Pair) = IF n + 1 <= n + 2 THEN n + 2 - (n + 1) + 1 ELSE 0
      /\ \A i \in 1 .. n + 2 - (n + 1) + 1 : Pair[i] = request.data[n + 1 + i - 1]
  BY <1>4, <1>5, SubSeqProperties DEF Pair
<1> HIDE DEF Pair
<1>7. Pair[1] = request.data[n + 1 + 1 - 1] /\ Pair[2] = request.data[n + 1 + 2 - 1]
  BY <1>2, <1>6
<1>8. n + 1 + 1 - 1 = n + 1 /\ n + 1 + 2 - 1 = n + 2 /\ n + 2 - (n + 1) + 1 = 2
  BY <1>2
<1> QED BY <1>2, <1>3, <1>6, <1>7, <1>8

LEMMA CommandType ==
    ASSUME SiiForm, call.phase = "command", ~Written, ~CannotSend
    PROVE  /\ Command \in OpType /\ Command.kind = Kind /\ Kind \in {"read", "write", "reload"}
           /\ Kind = "write" => Len(Command.data) = 2
<1>1. /\ request \in Requests /\ Kind \in {"read", "write", "reload"}
      /\ Kind = "write" <=> request.kind = "write"
      /\ call.address \in Nat /\ call.got \in Seq(Nat)
  BY DEF SiiForm, CallForm, Kind, CallType
<1>2. CommandWord \in Nat
  <2>1. Position \in Nat
    BY <1>1 DEF Position
  <2>2. Wrapped(Position) \in Nat
    BY <2>1, WrappedIn, ConstantsAssumption
  <2> QED BY <2>2 DEF CommandWord, WORD
<1>3. ASSUME Kind = "write" PROVE Pair \in Seq(Nat) /\ Len(Pair) = 2
  <2>1. Len(call.got) \in Nat /\ call.length \in Nat
    BY <1>1 DEF SiiForm, CallForm, CallType
  <2>2. Len(call.got) + 2 <= call.length
    BY <1>3, <2>1 DEF Written, CannotSend
  <2> QED BY <1>3, <2>2, PairType
<1> DEFINE bytes == IF Kind = "write" THEN Pair ELSE <<>>
<1>4. bytes \in Seq(Nat)
  BY <1>3
<1>5. Command = [kind |-> Kind, address |-> CommandWord, data |-> bytes,
                of |-> request, end |-> "running"]
  BY DEF Command
<1> HIDE DEF bytes
<1>6. Command \in OpType
  <2>1. request \in Requests \cup {NoRequest} /\ Kind \in {"none", "read", "write", "reload"}
    BY <1>1
  <2> HIDE DEF Kind, CommandWord
  <2> QED BY <1>2, <1>4, <1>5, <2>1 DEF OpType
<1>7. Command.kind = Kind /\ Command.data = bytes
  BY <1>5
<1>8. Kind = "write" => Len(bytes) = 2
  BY <1>3 DEF bytes
<1> QED BY <1>1, <1>6, <1>7, <1>8

LEMMA InitForm == Init => SiiForm
<1> SUFFICES ASSUME Init PROVE SiiForm
  OBVIOUS
<1>1. device \in Devices /\ device.chunk \in Nat
  BY ConstantsAssumption DEF Init
<1>2. rom \in Seq(Nat)
  <2>1. rom \in Seq(0 .. 255) /\ 0 .. 255 \subseteq Nat
    BY <1>1, ImagesAssumption DEF Init
  <2> QED BY <2>1, SeqMonotonic
<1>3. data \in Seq(Nat) /\ Len(data) = device.chunk
  BY <1>1 DEF Init
<1>4. NoOp \in OpType /\ NoOp.kind = "none"
  BY DEF NoOp, OpType
<1>5. CallForm
  BY NoCallForm DEF Init, CallForm, NoCall, Slicing
<1>6. SlaveType
  BY <1>1, <1>2, <1>3, <1>4 DEF Init, SlaveType
<1>7. failures \in 0 .. MaxFailures
  BY ConstantsAssumption DEF Init
<1> QED BY <1>5, <1>6, <1>7 DEF Init, SiiForm

LEMMA BeginForm ==
    ASSUME SiiForm, WorkOf, NEW r \in Requests, Begin(r)
    PROVE  SiiForm'
<1> USE RequestsAssumption
<1>1. request' = r /\ call.phase = "idle" /\ device' = device /\ device \in Devices
  BY DEF Begin, SiiForm, SlaveType
<1>2. SlaveType'
  <2>1. op' \in OpType /\ (op'.kind = "none" => op' = NoOp) /\ (op'.kind = "write" => Len(op'.data) = 2)
    <3>1. CASE op.end = "running"
      <4>1. op' = [op EXCEPT !.end = outcome.result]
        BY <3>1 DEF Begin
      <4>2. op # NoOp
        BY <3>1 DEF NoOp
      <4>3. outcome.result \in {"frame", "dropped"}
        BY <1>1, <3>1, <4>2 DEF WorkOf
      <4> QED BY <4>1, <4>2, <4>3 DEF SiiForm, SlaveType, OpType
    <3>2. CASE op.end # "running"
      BY <3>2 DEF Begin, SiiForm, SlaveType
    <3> QED BY <3>1, <3>2
  <2> QED BY <2>1 DEF Begin, SiiForm, SlaveType
<1>3. CallForm'
  <2>1. CASE call' = NoCall
    BY <2>1, EndForm
  <2>2. CASE r.kind \in {"new", "acquire", "release", "reload"} /\ call' # NoCall
    <3>1. PICK p \in {"new", "access", "command"} : call' = [NoCall EXCEPT !.phase = p]
      BY <2>2 DEF Begin, Go, End
    <3>2. call' \in CallType
      BY <3>1, NoCallForm DEF CallType, Phases
    <3>3. call'.phase = p /\ (p = "command" => r.kind = "reload")
      BY <2>2, <3>1 DEF NoCall, Begin, Go, End
    <3>4. (Kind = "reload" \/ (Kind = "read" /\ p # "command"))'
      BY <1>1, <2>2, <3>3 DEF Kind
    <3> QED BY <1>1, <3>2, <3>3, <3>4 DEF CallForm, Slicing
  <2>3. CASE r.kind = "read"
    <3>1. ReadSlice(NoCall, "slice", r.address, r.length)
      BY <2>3 DEF Begin
    <3>2. r.address \in Nat /\ r.length \in Nat /\ "slice" \in Stages /\ Long("slice", r.length)
      BY <2>3 DEF Stages, Long
    <3> QED BY <1>1, <2>3, <3>1, <3>2, NoCallForm, ReadSliceForm
  <2>4. CASE r.kind = "write" /\ call' # NoCall
    <3>1. call' = [NoCall EXCEPT !.phase = "command", !.address = r.address, !.length = Len(r.data)]
      BY <2>4 DEF Begin, Go, End
    <3>2. r.address \in 0 .. Top /\ Len(r.data) \in Nat
      BY <2>4
    <3>3. call' \in CallType /\ call'.length = Len(r.data) /\ call'.phase = "command"
      BY <3>1, <3>2, NoCallForm DEF CallType, Phases
    <3> QED BY <1>1, <2>4, <3>3 DEF CallForm, Kind
  <2>5. CASE r.kind \in {"strings", "generals"}
    <3>1. ReadSlice(NoCall, "category", Registers, 4)
      BY <2>5 DEF Begin
    <3>2. Registers \in Nat /\ "category" \in Stages /\ Long("category", 4)
      BY ConstantsAssumption DEF Stages, Long
    <3> QED BY <1>1, <2>5, <3>1, <3>2, NoCallForm, ReadSliceForm
  <2> QED BY <2>1, <2>2, <2>3, <2>4, <2>5
<1>4. locked' \in BOOLEAN /\ UNCHANGED <<unsure, failures>>
  BY DEF Begin, SiiForm
<1> QED BY <1>1, <1>2, <1>3, <1>4 DEF SiiForm

(* A failure is counted.                                                         *)
LEMMA FailureCounted == ASSUME failures \in 0 .. MaxFailures, Failing PROVE failures' \in 0 .. MaxFailures
BY ConstantsAssumption DEF Failing

LEMMA NewForm == ASSUME SiiForm, New PROVE SiiForm'
<1>1. CallForm' /\ SlaveType'
  BY EndForm DEF New, End, SiiForm, SlaveType, slave
<1>2. failures' \in 0 .. MaxFailures
  BY FailureCounted DEF New, SiiForm
<1> QED BY <1>1, <1>2 DEF New, SiiForm

LEMMA AccessForm == ASSUME SiiForm, Access PROVE SiiForm'
<1>1. CallForm'
  BY EndForm DEF Access, End
<1>2. SlaveType'
  <2>1. owner' \in {"DL", "Pdi"}
    BY DEF Access, NewOwner, SiiForm, SlaveType
  <2> QED BY <2>1 DEF Access, SiiForm, SlaveType
<1>3. failures' \in 0 .. MaxFailures
  BY FailureCounted DEF Access, SiiForm
<1> QED BY <1>1, <1>2, <1>3 DEF Access, SiiForm

(* A step of a call that changes its phase only.                                 *)
LEMMA PhaseForm ==
    ASSUME CallForm, NEW p \in {"poll", "data", "command"}, call' = [call EXCEPT !.phase = p],
           UNCHANGED request, call.phase \in {"command", "poll"},
           p = "data" => Kind = "read", p = "poll" /\ Kind = "write" => Len(call.got) + 2 <= call.length
    PROVE  CallForm'
<1>1. call' \in CallType /\ call'.phase = p /\ call'.stage = call.stage
      /\ call'.length = call.length /\ call'.got = call.got
  BY DEF CallForm, CallType, Phases
<1> QED BY <1>1 DEF CallForm, Kind, Slicing, Long

LEMMA SendCommandForm == ASSUME SiiForm, SendCommand PROVE SiiForm'
<1>1. device' = device /\ request' = request /\ call.phase = "command"
  BY DEF SendCommand
<1>2. CallForm'
  <2>1. CASE call' = NoCall
    BY <2>1, EndForm
  <2>2. CASE call' = [call EXCEPT !.phase = "poll"] /\ ~Written /\ ~CannotSend
    <3>1. Kind = "write" => Len(call.got) + 2 <= call.length
      BY <2>2 DEF Written, CannotSend, SiiForm, CallForm, CallType
    <3> QED BY <1>1, <2>2, <3>1, PhaseForm DEF SiiForm
  <2> QED BY <2>1, <2>2 DEF SendCommand, End, Go
<1>3. SlaveType'
  <2>1. CASE UNCHANGED slave
    BY <1>1, <2>1 DEF SiiForm, SlaveType, slave
  <2>2. CASE TakeCommand(Command) /\ ~Written /\ ~CannotSend
    BY <1>1, <2>2, CommandType, TakeForm DEF SiiForm
  <2> QED BY <2>1, <2>2 DEF SendCommand
<1>4. failures' \in 0 .. MaxFailures
  BY FailureCounted DEF SendCommand, SiiForm
<1> QED BY <1>2, <1>3, <1>4 DEF SendCommand, SiiForm

LEMMA PollForm == ASSUME SiiForm, Poll PROVE SiiForm'
<1>1. device' = device /\ request' = request /\ call.phase = "poll" /\ SlaveType'
  BY DEF Poll, SiiForm, SlaveType, slave
<1>2. CallForm'
  <2>1. CASE call' = NoCall
    BY <2>1, EndForm
  <2>2. CASE call' = [call EXCEPT !.phase = "data"] /\ Kind = "read"
    BY <1>1, <2>2, PhaseForm DEF SiiForm
  <2>3. CASE Kind = "write" /\ call' = [call EXCEPT !.phase = "command", !.got = @ \o Pair]
    <3>1. /\ Pair \in Seq(Nat) /\ call.got \in Seq(Nat)
      BY <1>1, <2>3, PairType DEF SiiForm, CallForm, CallType
    <3>2. call.got \o Pair \in Seq(Nat)
      BY <3>1
    <3>3. call' \in CallType /\ call'.length = call.length
      BY <2>3, <3>2 DEF SiiForm, CallForm, CallType, Phases
    <3> QED BY <1>1, <2>3, <3>3 DEF SiiForm, CallForm, Kind
  <2> QED BY <2>1, <2>2, <2>3 DEF Poll, End, Go
<1> QED BY <1>1, <1>2 DEF Poll, SiiForm

(* What the chunk of a slice holds of it.                                        *)
LEMMA ChunkForm ==
    ASSUME SiiForm, call.phase = "data"
    PROVE  LET n == Smallest(device.chunk, Start + call.length - Len(call.got)) - Start
           IN /\ Chunk \in Seq(Nat) /\ Len(Chunk) = n
              /\ n \in Nat \ {0} /\ Len(call.got) + n <= call.length
              /\ \A i \in 1 .. n : Chunk[i] = data[Start + i]
              /\ n = call.length - Len(call.got) \/ n = device.chunk - Start
<1> DEFINE m == Smallest(device.chunk, Start + call.length - Len(call.got))
<1>1. /\ call.address \in Nat /\ call.length \in Nat /\ call.got \in Seq(Nat)
      /\ Len(call.got) \in Nat
  BY DEF SiiForm, CallForm, CallType
<1> USE DEF Smallest
<1>0. Len(call.got) < call.length
  BY DEF SiiForm, CallForm, Slicing
<1>2. Start \in {0, 1}
  BY <1>1 DEF Start, WORD
<1>3. device.chunk \in {4, 8}
  BY ConstantsAssumption DEF SiiForm, SlaveType
<1>4. m \in Nat /\ m > Start /\ m <= device.chunk /\ m - Start <= call.length - Len(call.got)
      /\ (m = device.chunk \/ m - Start = call.length - Len(call.got))
  <2> DEFINE a == Start + call.length - Len(call.got)
  <2>1. a \in Nat /\ a > Start /\ a - Start = call.length - Len(call.got)
    BY <1>0, <1>1, <1>2
  <2>2. device.chunk \in Nat /\ device.chunk > Start
    BY <1>2, <1>3
  <2> HIDE DEF a
  <2>3. m = Smallest(device.chunk, a)
    BY DEF a
  <2> QED BY <1>2, <2>1, <2>2, <2>3
<1>5. data \in Seq(Nat) /\ Len(data) = device.chunk
  BY DEF SiiForm, SlaveType
<1> HIDE DEF m
<1>6. \A i \in Start + 1 .. m : data[i] \in Nat
  <2> SUFFICES ASSUME NEW i \in Start + 1 .. m PROVE data[i] \in Nat
    OBVIOUS
  <2>1. i \in 1 .. Len(data)
    BY <1>2, <1>3, <1>4, <1>5
  <2> QED BY <1>5, <2>1, ElementOfSeq
<1>7. /\ Chunk = SubSeq(data, Start + 1, m)
  BY DEF Chunk, m
<1>8. /\ Chunk \in Seq(Nat) /\ Len(Chunk) = m - Start
      /\ \A i \in 1 .. m - Start : Chunk[i] = data[Start + i]
  <2>1. Start + 1 \in Int /\ m \in Int
    BY <1>2, <1>4
  <2>2. /\ Chunk \in Seq(Nat)
        /\ Len(Chunk) = IF Start + 1 <= m THEN m - (Start + 1) + 1 ELSE 0
        /\ \A i \in 1 .. m - (Start + 1) + 1 : Chunk[i] = data[Start + 1 + i - 1]
    BY <1>6, <1>7, <2>1, SubSeqProperties
  <2> HIDE DEF Start, Chunk
  <2> QED BY <1>2, <1>4, <2>2
<1> QED BY <1>1, <1>2, <1>3, <1>4, <1>8 DEF m

LEMMA ReadDataForm ==
    ASSUME SiiForm, ReadData
    PROVE  SiiForm'
<1>1. device' = device /\ request' = request /\ call.phase = "data" /\ SlaveType'
  BY DEF ReadData, SiiForm, SlaveType, slave
<1>2. CallForm'
  <2>1. CASE call' = NoCall
    BY <2>1, EndForm
  <2>2. CASE ~ (call' = NoCall)
    <3> DEFINE got == call.got \o Chunk
               p == IF Len(got) = call.length THEN "done" ELSE "command"
    <3>1. call' = [call EXCEPT !.got = got, !.phase = p]
      BY <2>2 DEF ReadData, Go, End
    <3>2. Chunk \in Seq(Nat) /\ Len(Chunk) \in Nat /\ Len(call.got) + Len(Chunk) <= call.length
      BY <1>1, ChunkForm
    <3>3. got \in Seq(Nat) /\ Len(got) <= call.length /\ p \in {"done", "command"}
      BY <3>2 DEF SiiForm, CallForm, CallType
    <3> HIDE DEF got
    <3>4. /\ call' \in CallType /\ call'.phase = p /\ call'.got = got
          /\ call'.stage = call.stage /\ call'.length = call.length
      BY <3>1, <3>3 DEF SiiForm, CallForm, CallType, Phases
    <3>5. /\ Kind = "read" /\ Kind' = Kind /\ request \in Requests
          /\ Long(call.stage, call.length) /\ Len(got) \in Nat /\ call.length \in Nat
      BY <1>1, <3>3 DEF SiiForm, CallForm, Kind, Slicing, CallType
    <3>6. IF p = "done" THEN Len(got) = call.length ELSE Len(got) < call.length
      BY <3>3, <3>5
    <3> HIDE DEF p
    <3> QED BY <1>1, <3>3, <3>4, <3>5, <3>6 DEF CallForm, Slicing, Long
  <2> QED BY <2>1, <2>2
<1>3. failures' \in 0 .. MaxFailures
  BY FailureCounted DEF ReadData, SiiForm
<1> QED BY <1>1, <1>2, <1>3 DEF ReadData, SiiForm

(* What a walk looks at.                                                         *)
LEMMA DoneForm ==
    ASSUME SiiForm, NEW stage \in Stages, Done(stage)
    PROVE  /\ device' = device /\ request' = request /\ SlaveType' /\ failures' = failures
           /\ UNCHANGED <<unsure, locked>>
           /\ call \in CallType /\ request' \in Requests /\ request'.kind \notin {"write", "reload"}
           /\ device \in Devices
           /\ stage = "category" => Len(call.got) >= 4
           /\ stage \in {"count", "length"} => Len(call.got) >= 1
           /\ \A i \in 1 .. Len(call.got) : call.got[i] \in Nat
<1>1. Kind = "read" /\ call.got \in Seq(Nat) /\ Len(call.got) = call.length /\ Long(stage, call.length)
  BY DEF Done, SiiForm, CallForm, CallType, Slicing
<1>2. SlaveType'
  BY DEF Done, SiiForm, SlaveType, slave
<1>3. \A i \in 1 .. Len(call.got) : call.got[i] \in Nat
  BY <1>1, ElementOfSeq
<1>4. request' \in Requests /\ request'.kind \notin {"write", "reload"}
  BY <1>1 DEF Done, SiiForm, CallForm, Kind
<1> QED BY <1>1, <1>2, <1>3, <1>4 DEF Done, SiiForm, CallForm, Long, SlaveType, slave

LEMMA CategoryForm == ASSUME SiiForm, CategoryRead PROVE CallForm'
<1> DEFINE size == Word(call.got, 3)
<1>1. Done("category") /\ "category" \in Stages /\ "general" \in Stages /\ "count" \in Stages
  BY DEF CategoryRead, Stages
<1>2. /\ call \in CallType /\ request' \in Requests /\ request'.kind \notin {"write", "reload"}
      /\ device \in Devices
  BY <1>1, DoneForm
<1>3. size \in Nat
  <2>1. Len(call.got) >= 4 /\ Len(call.got) \in Nat
    BY <1>1, DoneForm DEF CallType
  <2>2. 3 \in 1 .. Len(call.got) /\ 4 \in 1 .. Len(call.got)
    BY <2>1
  <2>3. call.got[3] \in Nat /\ call.got[4] \in Nat
    BY <1>1, <2>2, DoneForm
  <2> QED BY <2>3 DEF Word
<1> HIDE DEF size
<1>4. WORD * size \in Nat /\ GeneralSize \in Nat
  BY <1>3, ConstantsAssumption DEF WORD
<1>5. CASE ReadNext(call, "count", 0, 1)
  BY <1>1, <1>2, <1>5, ReadNextForm DEF Long
<1>6. CASE ReadNext(call, "general", 0, GeneralSize)
  BY <1>1, <1>2, <1>4, <1>6, ReadNextForm DEF Long
<1>7. CASE ReadNext(call, "category", WORD * size, 4)
  BY <1>1, <1>2, <1>4, <1>7, ReadNextForm DEF Long
<1>8. CASE call' = NoCall
  BY <1>8, EndForm
<1> QED BY <1>5, <1>6, <1>7, <1>8 DEF CategoryRead, End, size

LEMMA WalkForm == ASSUME SiiForm, SliceRead \/ Walk PROVE SiiForm'
<1> USE DEF Stages
<1>1. PICK stage \in Stages : Done(stage)
  BY DEF SliceRead, Walk, CategoryRead, CountRead, LengthRead, StringRead
<1> HIDE DEF Stages
<1>2. /\ call \in CallType /\ request' \in Requests /\ request'.kind \notin {"write", "reload"}
      /\ device \in Devices
  BY <1>1, DoneForm
<1>3. CallForm'
  <2>1. CASE SliceRead
    BY <2>1, EndForm DEF SliceRead, End
  <2>2. CASE CategoryRead
    BY <2>2, CategoryForm
  <2>3. CASE CountRead
    <3>1. call.got[1] \in Nat
      <4>1. Len(call.got) >= 1 /\ Len(call.got) \in Nat
        BY <2>3, DoneForm DEF CountRead, CallType, Stages
      <4>2. 1 \in 1 .. Len(call.got)
        BY <4>1
      <4> QED BY <1>1, <4>2, DoneForm
    <3>2. [call EXCEPT !.left = call.got[1]] \in CallType
      <4>1. call.got[1] \in Int
        BY <3>1
      <4> QED BY <1>2, <4>1 DEF CallType
    <3> QED BY <1>2, <2>3, <3>2, NextStringForm DEF CountRead
  <2>4. CASE LengthRead
    <3>1. call.got[1] \in Nat
      <4>1. Len(call.got) >= 1 /\ Len(call.got) \in Nat
        BY <2>4, DoneForm DEF LengthRead, CallType, Stages
      <4>2. 1 \in 1 .. Len(call.got)
        BY <4>1
      <4> QED BY <1>1, <4>2, DoneForm
    <3>2. "string" \in Stages /\ Long("string", call.got[1])
      BY DEF Stages, Long
    <3> QED BY <1>2, <2>4, <3>1, <3>2, ReadNextForm DEF LengthRead
  <2>5. CASE StringRead
    <3>1. CASE call' = NoCall
      BY <3>1, EndForm
    <3>2. CASE NextString([call EXCEPT !.found = Append(@, call.got), !.left = @ - 1])
      <4>1. Append(call.found, call.got) \in Seq(Seq(Nat)) /\ call.left - 1 \in Int
        BY <1>2 DEF CallType
      <4>2. [call EXCEPT !.found = Append(@, call.got), !.left = @ - 1] \in CallType
        BY <1>2, <4>1 DEF CallType
      <4> QED BY <1>2, <3>2, <4>2, NextStringForm
    <3> QED BY <2>5, <3>1, <3>2 DEF StringRead, End
  <2> QED BY <2>1, <2>2, <2>3, <2>4, <2>5 DEF Walk
<1> QED BY <1>1, <1>3, DoneForm DEF SiiForm

LEMMA DropForm == ASSUME SiiForm, Drop PROVE SiiForm'
<1>1. device' = device /\ CallForm'
  BY EndForm DEF Drop, End
<1>2. SlaveType'
  <2>1. CASE UNCHANGED slave
    BY <1>1, <2>1 DEF SiiForm, SlaveType, slave
  <2>2. CASE call.phase = "access" /\ owner' \in {owner, NewOwner} /\ UNCHANGED <<rom, op, error, data>>
    <3>1. owner' \in {"DL", "Pdi"}
      BY <2>2 DEF NewOwner, SiiForm, SlaveType
    <3> QED BY <1>1, <2>2, <3>1 DEF SiiForm, SlaveType
  <2>3. CASE call.phase = "command" /\ TakeCommand(Command) /\ ~Written /\ ~CannotSend
    BY <1>1, <2>3, CommandType, TakeForm DEF SiiForm
  <2> QED BY <2>1, <2>2, <2>3 DEF Drop
<1>3. failures' \in 0 .. MaxFailures
  BY FailureCounted DEF Drop, SiiForm
<1>4. unsure' \in BOOLEAN
  BY DEF Drop, SiiForm
<1> QED BY <1>1, <1>2, <1>3, <1>4 DEF Drop, SiiForm

LEMMA ExecuteForm == ASSUME SiiForm, Execute PROVE SiiForm'
<1>1. UNCHANGED <<device, locked, call, request, unsure, failures>> /\ op' = NoOp /\ owner' = owner
  BY DEF Execute
<1>2. op \in OpType /\ rom \in Seq(Nat) /\ data \in Seq(Nat) /\ device \in Devices
  BY DEF SiiForm, SlaveType
<1>3. NoOp \in OpType /\ NoOp.kind = "none"
  BY DEF NoOp, OpType
<1>4. data' \in Seq(Nat) /\ Len(data') = device.chunk
  <2>1. 2 * op.address \in Nat /\ device.chunk \in Nat
    BY <1>2, ConstantsAssumption DEF OpType
  <2>2. Bytes(2 * op.address, device.chunk) \in Seq(Nat)
        /\ Len(Bytes(2 * op.address, device.chunk)) = device.chunk
    BY <2>1, BytesSeq DEF SiiForm
  <2> QED BY <2>2 DEF Execute, WORD, SiiForm, SlaveType
<1>5. rom' \in Seq(Nat) /\ DOMAIN rom' = DOMAIN rom
  <2>1. CASE rom' = rom
    BY <1>2, <2>1
  <2>2. CASE op.kind = "write" /\ rom' = [rom EXCEPT ![WORD * op.address + 1] = op.data[1],
                                   ![WORD * op.address + 2] = op.data[2]]
    <3>1. op.data[1] \in Nat /\ op.data[2] \in Nat
      <4>1. op.data \in Seq(Nat) /\ Len(op.data) = 2
        BY <2>2 DEF SiiForm, SlaveType, OpType
      <4> QED BY <4>1, ElementOfSeq
    <3> DEFINE first == [rom EXCEPT ![WORD * op.address + 1] = op.data[1]]
    <3>2. rom \in [1 .. Len(rom) -> Nat] /\ Len(rom) \in Nat
      BY <1>2, LenProperties
    <3>3. first \in [1 .. Len(rom) -> Nat]
      BY <3>1, <3>2
    <3>4. rom' = [first EXCEPT ![WORD * op.address + 2] = op.data[2]]
      BY <2>2
    <3> HIDE DEF first
    <3>5. rom' \in [1 .. Len(rom) -> Nat]
      BY <3>1, <3>3, <3>4
    <3>6. rom' \in Seq(Nat)
      BY <3>2, <3>5
    <3>7. DOMAIN rom' = DOMAIN rom
      BY <3>2, <3>5
    <3> QED BY <3>6, <3>7
  <2> QED BY <2>1, <2>2 DEF Execute
<1>6. error' \in {"none", "command", "write", "device", "checksum"}
  BY DEF Execute, Fails, SiiForm, SlaveType
<1>7. SlaveType'
  BY <1>1, <1>3, <1>4, <1>5, <1>6 DEF SiiForm, SlaveType
<1>8. CallForm'
  BY <1>1 DEF SiiForm, CallForm, Kind
<1> QED BY <1>1, <1>7, <1>8 DEF SiiForm

--------------------------------------------------------------------------------
(* Refusals *)

LEMMA Results ==
    /\ \A r : Error(r).result = r
    /\ \A v : Ok(v).result = "ok" /\ Ok(v).value = v
    /\ Pending.result = "none" /\ NoCall.phase = "idle"
BY DEF Error, Ok, Pending, NoCall

LEMMA InitRefusal == Init => RefusalInv
BY DEF Init, RefusalInv, FlagTrue, WorkOf, Caused, NoCall, Pending

(* What the slave makes of a command of the call.                                *)
LEMMA TakeWork ==
    ASSUME SiiForm, RefusalInv, TakeCommand(Command), call.phase = "command",
           UNCHANGED <<locked, unsure>>
    PROVE  /\ op' # NoOp => op'.end = "running" \/ op'.end \in {"frame", "dropped"}
           /\ error' = "command" => Cause'
           /\ owner' = owner
<1>1. op # NoOp => op.end \in {"frame", "dropped"}
  BY DEF RefusalInv, WorkOf
<1>2. locked /\ ~unsure => owner = "DL"
  BY DEF RefusalInv, FlagTrue
<1>3. Command.end = "running"
  BY DEF Command
<1> QED BY <1>1, <1>2, <1>3 DEF TakeCommand, Cause, SiiForm

(* A call that goes on, or ends, while the slave is not given anything.          *)
LEMMA QuietRefusal ==
    ASSUME RefusalInv, UNCHANGED <<slave, unsure>>, locked' => locked,
           call.phase # "access", call.phase # "idle",
           \/ call'.phase \notin {"access", "poll", "idle"} /\ (call.phase = "poll" => op = NoOp)
           \/ /\ call'.phase = "idle"
              /\ outcome'.result = "command" => call.phase = "poll" /\ error = "command"
              /\ call.phase = "poll" => op = NoOp \/ outcome'.result \in {"frame", "dropped"}
    PROVE  RefusalInv'
<1>1. op' = op /\ error' = error /\ owner' = owner /\ refusal' = refusal /\ unsure' = unsure
  BY DEF slave
<1>2. FlagTrue'
  BY <1>1 DEF RefusalInv, FlagTrue
<1>3. WorkOf'
  BY <1>1 DEF RefusalInv, WorkOf
<1>4. Caused'
  BY <1>1 DEF RefusalInv, Caused, Cause
<1> QED BY <1>2, <1>3, <1>4 DEF RefusalInv

(* A call whose command the slave takes or refuses.                              *)
LEMMA SentRefusal ==
    ASSUME SiiForm, RefusalInv, TakeCommand(Command), call.phase = "command",
           UNCHANGED <<locked, unsure>>,
           \/ call'.phase = "poll"
           \/ call'.phase = "idle" /\ outcome'.result \in {"frame", "dropped"}
    PROVE  RefusalInv'
<1>1. /\ op' # NoOp => op'.end = "running" \/ op'.end \in {"frame", "dropped"}
      /\ error' = "command" => Cause'
      /\ owner' = owner
  BY TakeWork
<1>2. FlagTrue'
  BY <1>1 DEF RefusalInv, FlagTrue
<1>3. WorkOf'
  BY <1>1 DEF WorkOf
<1>4. Caused'
  BY <1>1 DEF Caused
<1> QED BY <1>2, <1>3, <1>4 DEF RefusalInv

(* A change of owner, answered or not.                                           *)
LEMMA AccessRefusal ==
    ASSUME RefusalInv, call.phase = "access", UNCHANGED <<op, locked, request>>,
           call'.phase = "idle", outcome'.result # "command", unsure' \/ owner' = NewOwner
    PROVE  RefusalInv'
<1>1. FlagTrue'
  BY DEF RefusalInv, FlagTrue, NewOwner
<1>2. WorkOf' /\ Caused'
  BY DEF RefusalInv, WorkOf, Caused
<1> QED BY <1>1, <1>2 DEF RefusalInv

(* A walk goes on with a slice, or ends; it is never refused anything itself.    *)
LEMMA ReadNextPhase ==
    ASSUME NEW c, NEW stage, NEW skipped, NEW length, ReadNext(c, stage, skipped, length),
           c \in [phase : Phases, stage : Stages, address : 0 .. Top, length : Nat,
                  got : Seq(Nat), found : Seq(Seq(Nat)), left : Int]
    PROVE  call'.phase \in {"done", "command"} \/ (call'.phase = "idle" /\ outcome'.result # "command")
<1> DEFINE phase == IF length = 0 THEN "done" ELSE "command"
<1>1. ASSUME NEW address,
             ReadSlice(c, stage, address, length)
      PROVE  \/ call' = NoCall /\ outcome' = Error("range")
             \/ call' = [c EXCEPT !.phase = phase, !.stage = stage, !.address = address,
                                  !.length = length, !.got = <<>>]
  BY <1>1 DEF ReadSlice, Go, End
<1>2. phase \in {"done", "command"}
  OBVIOUS
<1> HIDE DEF phase
<1>3. \A address : [c EXCEPT !.phase = phase, !.stage = stage, !.address = address,
                            !.length = length, !.got = <<>>].phase = phase
  OBVIOUS
<1>4. \/ call' = NoCall /\ outcome' = Error("panic")
      \/ \E address : ReadSlice(c, stage, address, length)
  BY DEF ReadNext, End
<1>5. \/ call' = NoCall /\ outcome' \in {Error("panic"), Error("range")}
      \/ call'.phase = phase
  BY <1>1, <1>3, <1>4
<1> QED BY <1>2, <1>5, Results

LEMMA NextStringPhase ==
    ASSUME NEW c \in CallType, NextString(c)
    PROVE  call'.phase \in {"done", "command"} \/ (call'.phase = "idle" /\ outcome'.result # "command")
BY ReadNextPhase, Results DEF NextString, End, CallType

LEMMA WalkPhase ==
    ASSUME SiiForm, SliceRead \/ Walk
    PROVE  call'.phase \in {"done", "command"} \/ (call'.phase = "idle" /\ outcome'.result # "command")
<1>0. call \in CallType
  BY DEF SiiForm, CallForm
<1>1. call \in [phase : Phases, stage : Stages, address : 0 .. Top, length : Nat,
                 got : Seq(Nat), found : Seq(Seq(Nat)), left : Int]
  BY <1>0 DEF CallType
<1>2. CASE SliceRead
  BY <1>2, Results DEF SliceRead, End
<1>3. CASE CategoryRead
  BY <1>1, <1>3, ReadNextPhase, Results DEF CategoryRead, End
<1>4. CASE CountRead
  <2>1. call.got[1] \in Nat
    <3>1. Len(call.got) >= 1 /\ Len(call.got) \in Nat
      BY <1>4, DoneForm DEF CountRead, CallType, Stages
    <3> QED BY <3>1, <1>0, ElementOfSeq DEF CallType
  <2>2. [call EXCEPT !.left = call.got[1]] \in CallType
    <3>1. call.got[1] \in Int
      BY <2>1
    <3> QED BY <1>0, <3>1 DEF CallType
  <2> QED BY <1>4, <2>2, NextStringPhase DEF CountRead
<1>5. CASE LengthRead
  BY <1>1, <1>5, ReadNextPhase DEF LengthRead
<1>6. CASE StringRead
  <2>1. Append(call.found, call.got) \in Seq(Seq(Nat)) /\ call.left - 1 \in Int
    BY <1>0 DEF CallType
  <2>2. [call EXCEPT !.found = Append(@, call.got), !.left = @ - 1] \in CallType
    BY <1>0, <2>1 DEF CallType
  <2> QED BY <1>6, <2>2, NextStringPhase, Results DEF StringRead, End
<1> QED BY <1>2, <1>3, <1>4, <1>5, <1>6 DEF Walk

LEMMA BeginRefusal ==
    ASSUME SiiForm, RefusalInv, NEW r \in Requests, Begin(r)
    PROVE  RefusalInv'
<1>1. call.phase = "idle" /\ owner' = owner /\ unsure' = unsure /\ request' = r
  BY DEF Begin
<1>2. WorkOf'
  <2>1. CASE op.end = "running"
    <3>1. op' = [op EXCEPT !.end = outcome.result] /\ op # NoOp
      BY <2>1 DEF Begin, NoOp
    <3>2. outcome.result \in {"frame", "dropped"}
      BY <1>1, <2>1, <3>1 DEF RefusalInv, WorkOf
    <3>3. op'.end \in {"frame", "dropped"}
      BY <3>1, <3>2 DEF SiiForm, SlaveType, OpType
    <3> QED BY <3>3 DEF WorkOf
  <2>2. CASE op.end # "running"
    BY <2>2 DEF Begin, RefusalInv, WorkOf
  <2> QED BY <2>1, <2>2
<1>3. FlagTrue' /\ call'.phase # "poll" /\ outcome'.result # "command"
  <2>1. CASE r.kind = "acquire" \/ r.kind = "release"
    <3>1. CASE End(Ok(<<>>)) /\ UNCHANGED locked
      BY <1>1, <3>1, Results DEF End, RefusalInv, FlagTrue
    <3>2. CASE Go([NoCall EXCEPT !.phase = "access"]) /\ locked' = (r.kind = "acquire")
      <4>1. call'.phase = "access" /\ outcome' = Pending
        BY <3>2 DEF Go, NoCall
      <4> QED BY <1>1, <2>1, <3>2, <4>1, Results DEF FlagTrue
    <3> QED BY <2>1, <3>1, <3>2 DEF Begin
  <2>2. CASE r.kind \notin {"acquire", "release"}
    <3>1. UNCHANGED locked
      BY <2>2, RequestsAssumption DEF Begin
    <3>2. \/ call' = NoCall /\ \E e \in {"range", "unaligned"} : outcome' = Error(e)
          \/ outcome' = Pending /\ call'.phase \in {"new", "command", "done"}
      <4>1. ASSUME NEW stage, NEW address, NEW length, ReadSlice(NoCall, stage, address, length)
            PROVE  \/ call' = NoCall /\ outcome' = Error("range")
                   \/ outcome' = Pending /\ call'.phase \in {"command", "done"}
        BY <4>1 DEF ReadSlice, Go, End, NoCall
      <4>2. CASE r.kind = "new" \/ r.kind = "reload"
        BY <4>2 DEF Begin, Go, NoCall
      <4>3. CASE r.kind = "read"
        BY <4>1, <4>3 DEF Begin
      <4>4. CASE r.kind = "write"
        BY <4>4 DEF Begin, Go, End, NoCall
      <4>5. CASE r.kind = "strings" \/ r.kind = "generals"
        BY <4>1, <4>5 DEF Begin
      <4> QED BY <2>2, <4>2, <4>3, <4>4, <4>5, RequestsAssumption
    <3> QED BY <1>1, <3>1, <3>2, Results DEF RefusalInv, FlagTrue
  <2> QED BY <2>1, <2>2
<1> QED BY <1>2, <1>3 DEF RefusalInv, Caused

LEMMA NextRefusal == SiiForm /\ RefusalInv /\ [Next]_vars => RefusalInv'
<1> SUFFICES ASSUME SiiForm, RefusalInv, [Next]_vars PROVE RefusalInv'
  OBVIOUS
<1>0. call \in CallType /\ [call EXCEPT !.phase = "poll"].phase = "poll"
  BY DEF SiiForm, CallForm, CallType
<1>1. ASSUME NEW r \in Requests, Begin(r) PROVE RefusalInv'
  BY <1>1, BeginRefusal
<1>2. CASE New
  <2>1. /\ call.phase = "new" /\ call' = NoCall /\ outcome'.result # "command"
        /\ UNCHANGED <<slave, unsure>> /\ (locked' => locked)
    BY <1>2, Results DEF New, End
  <2> QED BY <2>1, QuietRefusal, Results
<1>3. CASE Access
  <2>1. call.phase = "access" /\ UNCHANGED <<op, locked, request>>
    BY <1>3 DEF Access
  <2>2. call' = NoCall /\ outcome'.result # "command" /\ (unsure' \/ owner' = NewOwner)
    BY <1>3, Results DEF Access, End
  <2> QED BY <2>1, <2>2, AccessRefusal, Results
<1>4. CASE SendCommand
  <2>0. call.phase = "command" /\ UNCHANGED <<locked, unsure>>
    BY <1>4 DEF SendCommand
  <2>1. CASE UNCHANGED slave /\ call' = NoCall /\ outcome'.result \in {"ok", "panic", "frame"}
    BY <2>0, <2>1, QuietRefusal, Results
  <2>2. CASE TakeCommand(Command) /\ call' = [call EXCEPT !.phase = "poll"]
    BY <1>0, <2>0, <2>2, SentRefusal
  <2>3. CASE TakeCommand(Command) /\ call' = NoCall /\ outcome' = Error("frame")
    BY <2>0, <2>3, SentRefusal, Results
  <2> QED BY <1>4, <2>1, <2>2, <2>3, Results DEF SendCommand, End, Go
<1>5. CASE Poll
  <2>1. /\ call.phase = "poll" /\ op = NoOp /\ UNCHANGED <<slave, locked, unsure>>
        /\ \/ call' = NoCall /\ outcome' = Error(error)
           \/ call' = NoCall /\ outcome' = Ok(<<>>)
           \/ call' = [call EXCEPT !.phase = "data"]
           \/ call' = [call EXCEPT !.phase = "command", !.got = @ \o Pair]
    BY <1>5 DEF Poll, Settled, Go, End
  <2>2. /\ [call EXCEPT !.phase = "data"].phase = "data"
        /\ [call EXCEPT !.phase = "command", !.got = @ \o Pair].phase = "command"
    BY <1>0 DEF CallType
  <2>3. \/ call'.phase \in {"data", "command"}
        \/ call'.phase = "idle" /\ (outcome'.result = "command" => error = "command")
    <3>1. ASSUME call' = NoCall, outcome' = Error(error)
          PROVE  call'.phase = "idle" /\ outcome'.result = error
      BY <3>1, Results, Zenon
    <3>2. ASSUME call' = NoCall, outcome' = Ok(<<>>)
          PROVE  call'.phase = "idle" /\ outcome'.result = "ok"
      BY <3>2, Results, Zenon
    <3>3. ASSUME call' = [call EXCEPT !.phase = "data"] PROVE call'.phase = "data"
      BY <2>2, <3>3, Zenon
    <3>4. ASSUME call' = [call EXCEPT !.phase = "command", !.got = @ \o Pair] PROVE call'.phase = "command"
      BY <2>2, <3>4, Zenon
    <3> QED BY <2>1, <3>1, <3>2, <3>3, <3>4, Zenon
  <2> QED BY <2>1, <2>3, QuietRefusal
<1>6. CASE ReadData
  <2>1. call.phase = "data" /\ UNCHANGED <<slave, locked, unsure>>
    BY <1>6 DEF ReadData
  <2> DEFINE got == call.got \o Chunk
             phase == IF Len(got) = call.length THEN "done" ELSE "command"
  <2>2. \/ call' = [call EXCEPT !.got = got, !.phase = phase]
        \/ call' = NoCall /\ outcome' = Error("frame")
    BY <1>6 DEF ReadData, Go, End
  <2>3. phase \in {"done", "command"}
    OBVIOUS
  <2> HIDE DEF got, phase
  <2>4. [call EXCEPT !.got = got, !.phase = phase].phase = phase
    BY <1>0 DEF CallType
  <2>5. call'.phase \in {"done", "command"} \/ (call'.phase = "idle" /\ outcome'.result = "frame")
    BY <2>2, <2>3, <2>4, Results
  <2> QED BY <2>1, <2>5, QuietRefusal
<1>7. CASE SliceRead \/ Walk
  <2>1. call.phase = "done" /\ UNCHANGED <<slave, locked, unsure>>
    BY <1>7 DEF SliceRead, Walk, CategoryRead, CountRead, LengthRead, StringRead, Done
  <2>2. call'.phase \in {"done", "command"} \/ (call'.phase = "idle" /\ outcome'.result # "command")
    BY <1>7, WalkPhase
  <2> QED BY <2>1, <2>2, QuietRefusal
<1>8. CASE Drop
  <2>1. call' = NoCall /\ outcome' = Error("dropped") /\ UNCHANGED locked /\ UNCHANGED request
    BY <1>8 DEF Drop, End
  <2>2. CASE call.phase = "access"
    <3>1. unsure' /\ op' = op
      BY <1>8, <2>2 DEF Drop
    <3> QED BY <2>1, <2>2, <3>1, AccessRefusal, Results
  <2>3. CASE call.phase = "command"
    <3>1. UNCHANGED unsure /\ (TakeCommand(Command) \/ UNCHANGED slave)
      BY <1>8, <2>3 DEF Drop
    <3> QED BY <2>1, <2>3, <3>1, SentRefusal, QuietRefusal, Results
  <2>4. CASE call.phase \in {"new", "poll", "data"}
    <3>1. UNCHANGED <<slave, unsure>>
      BY <1>8, <2>4 DEF Drop
    <3> QED BY <2>1, <2>4, <3>1, QuietRefusal, Results
  <2> QED BY <1>8, <2>2, <2>3, <2>4 DEF Drop
<1>9. CASE Execute
  <2>1. op' = NoOp /\ UNCHANGED <<owner, refusal, locked, call, request, outcome, unsure>>
    BY <1>9 DEF Execute
  <2>2. error' = "command" => error = "command"
    BY <1>9 DEF Execute, Fails
  <2>3. FlagTrue' /\ WorkOf'
    BY <2>1 DEF RefusalInv, FlagTrue, WorkOf
  <2>4. Caused'
    BY <2>1, <2>2 DEF RefusalInv, Caused, Cause
  <2> QED BY <2>3, <2>4 DEF RefusalInv
<1>10. CASE UNCHANGED vars
  BY <1>10 DEF vars, slave, FlagTrue, WorkOf, Caused, Cause, RefusalInv
<1> QED BY <1>1, <1>2, <1>3, <1>4, <1>5, <1>6, <1>7, <1>8, <1>9, <1>10 DEF Next, Step

LEMMA NextForm == SiiForm /\ RefusalInv /\ [Next]_vars => SiiForm'
<1> SUFFICES ASSUME SiiForm, RefusalInv, [Next]_vars PROVE SiiForm'
  OBVIOUS
<1>1. ASSUME NEW r \in Requests, Begin(r) PROVE SiiForm'
  BY <1>1, BeginForm DEF RefusalInv
<1>2. CASE Step
  BY <1>2, NewForm, AccessForm, SendCommandForm, PollForm, ReadDataForm, WalkForm DEF Step
<1>3. CASE UNCHANGED vars
  BY <1>3 DEF vars, slave, SiiForm, SlaveType, CallForm, Kind
<1> QED BY <1>1, <1>2, <1>3, DropForm, ExecuteForm DEF Next

LEMMA SiiInvariant == Spec => [](SiiForm /\ RefusalInv)
<1>1. Init => SiiForm /\ RefusalInv
  BY InitForm, InitRefusal
<1>2. SiiForm /\ RefusalInv /\ [Next]_vars => (SiiForm /\ RefusalInv)'
  BY NextForm, NextRefusal
<1> QED BY <1>1, <1>2, PTL DEF Spec

(* The state of the slave and of the calls has its type, for any slaves and      *)
(* requests.                                                                     *)
THEOREM TypeCorrect == Spec => []TypeOK
<1>1. SiiForm => TypeOK
  BY DEF SiiForm, SlaveType, CallForm, OpType, CallType, Phases, TypeOK
<1> QED BY <1>1, SiiInvariant, PTL

(* A call is refused a command only when the flag says nothing of the owner, or  *)
(* when an earlier call left the slave at work: locking as acquire and release   *)
(* do, with the flag changed before the register, gives no other refusal.        *)
THEOREM CauseOfRefusal == Spec => []RefusedForCause
<1>1. RefusalInv => RefusedForCause
  BY DEF RefusalInv, Caused, Cause, RefusedForCause
<1> QED BY <1>1, SiiInvariant, PTL

--------------------------------------------------------------------------------
(* Reads *)

LEMMA EndRead == ASSUME call' = NoCall, outcome'.result # "ok" PROVE ReadInv'
BY DEF NoCall, ReadInv, SliceRequested, SliceSoFar, SliceDone, Slicing

LEMMA ReadKind ==
    ASSUME SiiForm, request.kind = "read"
    PROVE  /\ Kind = "read" /\ request \in Requests
           /\ request.address \in 0 .. Top /\ request.length \in Nat
           /\ call \in CallType /\ call.address \in Nat /\ call.length \in Nat
           /\ call.got \in Seq(Nat) /\ Len(call.got) \in Nat /\ Top \in Nat
<1>1. request \in Requests
  BY DEF SiiForm, NoRequest
<1> QED BY <1>1, RequestsAssumption, ConstantsAssumption DEF Kind, SiiForm, CallForm, CallType

LEMMA BeginRead == ASSUME SiiForm, NEW r \in Requests, Begin(r) PROVE ReadInv'
<1>1. request' = r
  BY DEF Begin
<1>2. CASE r.kind # "read"
  BY <1>1, <1>2 DEF ReadInv, SliceRequested, SliceSoFar, SliceDone
<1>3. CASE r.kind = "read"
  <2> DEFINE phase == IF r.length = 0 THEN "done" ELSE "command"
             c == [NoCall EXCEPT !.phase = phase, !.stage = "slice", !.address = r.address,
                                 !.length = r.length, !.got = <<>>]
  <2>1. \/ call' = NoCall /\ outcome' = Error("range")
        \/ call' = c
    BY <1>3 DEF Begin, ReadSlice, Go, End
  <2>2. phase \in {"done", "command"}
    OBVIOUS
  <2> HIDE DEF phase
  <2>3. /\ c.phase = phase /\ c.stage = "slice" /\ c.address = r.address
        /\ c.length = r.length /\ c.got = <<>>
    BY DEF NoCall
  <2> HIDE DEF c
  <2>4. CASE call' = c
    <3>1. call'.phase \in {"done", "command"} /\ call'.got = <<>> /\ Len(call'.got) = 0
      BY <2>2, <2>3, <2>4
    <3>2. SliceRequested'
      BY <1>1, <2>3, <2>4, <3>1 DEF SliceRequested, Slicing
    <3>3. SliceSoFar'
      BY <3>1 DEF SliceSoFar, AtWork, At
    <3> QED BY <3>1, <3>2, <3>3 DEF ReadInv, SliceDone
  <2> QED BY <2>1, <2>4, EndRead, Results
<1> QED BY <1>2, <1>3

LEMMA NotWrapped == ASSUME NEW n \in 0 .. Top PROVE Wrapped(n) = n
<1> DEFINE m == Top + 1
<1>1. m \in Nat /\ m > 0 /\ n < m /\ n \in Nat
  BY ConstantsAssumption
<1> HIDE DEF m
<1>2. n % m = n
  BY <1>1
<1> QED BY <1>2 DEF m, Wrapped

(* The command of the next chunk: its word has the next byte of the slice.       *)
LEMMA ReadCommand ==
    ASSUME SiiForm, ReadInv, NoWrap, request.kind = "read", call.phase = "command", ~CannotSend
    PROVE  /\ Position <= Top /\ Command.kind = "read" /\ Command.of = request
           /\ 2 * Command.address = Position - Start
<1>1. /\ Kind = "read" /\ request \in Requests /\ request.address \in Nat /\ request.length \in Nat
      /\ call.address = request.address /\ call.length = request.length
      /\ Len(call.got) \in Nat /\ Len(call.got) < call.length /\ Top \in Nat
      /\ call.got # <<>> => Position % 2 = 0
  BY ReadKind DEF ReadInv, SliceRequested, Slicing, SiiForm, CallForm
<1>2. Position \in Nat /\ Position = request.address + Len(call.got)
  BY <1>1 DEF Position
<1>3. Position <= Top
  <2>1. CASE OverflowChecks
    BY <1>2, <2>1, ConstantsAssumption DEF CannotSend, Overflow
  <2>2. CASE ~OverflowChecks
    <3>1. request.address + request.length <= Top + 1
      BY <1>1, <2>2 DEF NoWrap, ReadInv
    <3> QED BY <1>1, <1>2, <3>1
  <2> QED BY <2>1, <2>2
<1>4. 2 * CommandWord = Position - Start
  <2>1. Wrapped(Position) = Position
    <3>1. Position \in 0 .. Top
      BY <1>1, <1>2, <1>3
    <3> HIDE DEF Position
    <3> QED BY <3>1, NotWrapped
  <2>2. CommandWord = Position \div 2
    BY <2>1 DEF CommandWord, WORD
  <2>3. CASE call.got = <<>>
    <3>1. Start = Position % 2
      BY <1>2, <2>3, <1>1 DEF Start, WORD, Position
    <3> HIDE DEF Position, CommandWord, Start
    <3> QED BY <1>2, <2>2, <3>1
  <2>4. CASE call.got # <<>>
    <3>1. Start = 0 /\ Position % 2 = 0
      BY <1>1, <2>4 DEF Start
    <3> HIDE DEF Position, CommandWord, Start
    <3> QED BY <1>2, <2>2, <3>1
  <2> QED BY <2>3, <2>4
<1> QED BY <1>1, <1>3, <1>4 DEF Command

LEMMA SendRead ==
    ASSUME SiiForm, ReadInv, NoWrap, SendCommand, request.kind = "read"
    PROVE  ReadInv'
<1>1. /\ call.phase = "command" /\ request' = request /\ device' = device
      /\ Kind = "read" /\ ~Written /\ call \in CallType
  BY ReadKind DEF SendCommand, Written
<1>2. CASE call' = NoCall /\ outcome' \in {Error("panic"), Error("frame")}
  BY <1>2, EndRead, Results
<1>3. CASE TakeCommand(Command) /\ call' = [call EXCEPT !.phase = "poll"] /\ ~CannotSend
  <2>1. /\ call'.phase = "poll" /\ call'.stage = call.stage /\ call'.address = call.address
        /\ call'.length = call.length /\ call'.got = call.got
    BY <1>1, <1>3 DEF CallType
  <2>2. /\ Position <= Top /\ Command.kind = "read" /\ Command.of = request
        /\ 2 * Command.address = Position - Start
    BY <1>1, <1>3, ReadCommand
  <2>3. Position' = Position /\ Start' = Start /\ Kind' = "read"
    BY <1>1, <2>1 DEF Position, Start, Kind
  <2>4. SliceRequested'
    BY <1>1, <2>1, <2>2, <2>3 DEF ReadInv, SliceRequested, Slicing
  <2>5. SliceSoFar'
    <3>1. CASE error' = "command"
      BY <2>1, <3>1 DEF SliceSoFar, AtWork, Refused, Errors
    <3>2. CASE op' = Command /\ error' = "none" /\ op = NoOp
      <4>1. rom' = rom
        BY <1>3 DEF TakeCommand
      <4>2. At(call.got, call.address)
        BY <1>1 DEF ReadInv, SliceSoFar, Slicing, Refused
      <4>3. At(call.got, call.address)'
        BY <1>1, <2>1, <4>1, <4>2 DEF At, Byte
      <4>4. op' # NoOp
        BY <2>2, <3>2 DEF NoOp
      <4>5. AtWork'
        BY <1>1, <2>1, <2>2, <2>3, <3>2 DEF AtWork
      <4> QED BY <2>1, <4>3, <4>4, <4>5 DEF SliceSoFar
    <3> QED BY <1>3, <3>1, <3>2 DEF TakeCommand
  <2> QED BY <2>1, <2>4, <2>5 DEF ReadInv, SliceDone
<1> QED BY <1>1, <1>2, <1>3 DEF SendCommand, Go, End

LEMMA PollRead ==
    ASSUME SiiForm, ReadInv, Poll, request.kind = "read"
    PROVE  ReadInv'
<1>1. /\ call.phase = "poll" /\ op = NoOp /\ request' = request /\ UNCHANGED <<device, slave>>
      /\ Kind = "read" /\ call \in CallType
  BY ReadKind DEF Poll, Settled
<1>2. \/ call' = NoCall /\ outcome' = Error(error) /\ error \in Errors("read")
      \/ call' = [call EXCEPT !.phase = "data"] /\ error \notin Errors("read")
  BY <1>1 DEF Poll, Go, End
<1>3. CASE call' = NoCall /\ outcome' = Error(error) /\ error \in Errors("read")
  BY <1>3, EndRead, Results DEF Errors
<1>4. CASE call' = [call EXCEPT !.phase = "data"] /\ error \notin Errors("read")
  <2>1. /\ call'.phase = "data" /\ call'.stage = call.stage /\ call'.address = call.address
        /\ call'.length = call.length /\ call'.got = call.got
    BY <1>1, <1>4 DEF CallType
  <2>2. Position' = Position /\ Start' = Start
    BY <2>1 DEF Position, Start
  <2>3. /\ rom' = rom /\ device' = device /\ data' = data /\ op' = op /\ error' = error
        /\ error # "command"
    BY <1>1, <1>4 DEF slave, Errors
  <2>4. SliceRequested'
    BY <1>1, <2>1, <2>2 DEF ReadInv, SliceRequested, Slicing
  <2>5. At(call.got, call.address) /\ At(data, Position - Start)
    BY <1>1, <1>4, <2>3 DEF ReadInv, SliceSoFar, Slicing, Refused
  <2>6. At(call.got, call.address)' /\ At(data, Position - Start)'
    <3> DEFINE p == Position - Start
    <3>1. p' = p
      BY <2>2
    <3> HIDE DEF p
    <3>2. At(data, p)'
      BY <2>3, <2>5, <3>1 DEF At, Byte, p
    <3>3. At(call.got, call.address)'
      BY <2>1, <2>3, <2>5 DEF At, Byte
    <3> QED BY <3>2, <3>3 DEF p
  <2>7. SliceSoFar'
    BY <1>1, <2>1, <2>3, <2>6 DEF SliceSoFar, AtWork
  <2> QED BY <2>1, <2>4, <2>7 DEF ReadInv, SliceDone
<1> QED BY <1>2, <1>3, <1>4

LEMMA DataRead ==
    ASSUME SiiForm, ReadInv, ReadData, request.kind = "read"
    PROVE  ReadInv'
<1>1. /\ call.phase = "data" /\ request' = request /\ UNCHANGED <<device, slave>>
      /\ Kind = "read" /\ call \in CallType /\ call.address \in Nat /\ call.got \in Seq(Nat)
      /\ Len(call.got) \in Nat
  BY ReadKind DEF ReadData
<1>2. op = NoOp /\ op' = op /\ rom' = rom /\ device' = device
  BY <1>1 DEF ReadInv, SliceSoFar, AtWork, Slicing, slave
<1> DEFINE got == call.got \o Chunk
           phase == IF Len(got) = call.length THEN "done" ELSE "command"
           n == Len(Chunk)
<1>3. /\ Chunk \in Seq(Nat) /\ n \in Nat \ {0}
      /\ \A i \in 1 .. n : Chunk[i] = data[Start + i]
      /\ n = call.length - Len(call.got) \/ n = device.chunk - Start
  BY <1>1, ChunkForm
<1>4. Start \in {0, 1} /\ device.chunk \in {4, 8} /\ Len(data) = device.chunk
      /\ n <= device.chunk - Start
  <2>1. Start \in {0, 1} /\ device.chunk \in {4, 8} /\ Len(data) = device.chunk
    <3>1. Start \in {0, 1}
      BY <1>1 DEF Start, WORD
    <3>2. device \in Devices /\ Len(data) = device.chunk
      BY DEF SiiForm, SlaveType
    <3> QED BY <3>1, <3>2, ConstantsAssumption
  <2>2. /\ n = Smallest(device.chunk, Start + call.length - Len(call.got)) - Start
        /\ call.length \in Nat
    BY <1>1, ChunkForm DEF CallType
  <2> HIDE DEF n, Start
  <2> QED BY <1>1, <2>1, <2>2 DEF Smallest
<1>5. CASE call' = NoCall /\ outcome' = Error("frame")
  BY <1>5, EndRead, Results
<1>6. CASE call' = [call EXCEPT !.got = got, !.phase = phase]
  <2>1. phase \in {"done", "command"}
    OBVIOUS
  <2> HIDE DEF phase, got
  <2>2. /\ call'.phase = phase /\ call'.stage = call.stage /\ call'.address = call.address
        /\ call'.length = call.length /\ call'.got = got
    BY <1>1, <1>6 DEF CallType
  <2>3. /\ got \in Seq(Nat) /\ Len(got) = Len(call.got) + n
        /\ \A i \in 1 .. Len(call.got) : got[i] = call.got[i]
        /\ \A i \in Len(call.got) + 1 .. Len(call.got) + n : got[i] = Chunk[i - Len(call.got)]
    BY <1>1, <1>3 DEF got
  <2> HIDE DEF n
  <2>4. At(call.got, call.address) /\ At(data, Position - Start)
    BY <1>1 DEF ReadInv, SliceSoFar, Slicing, Refused
  <2>5. Position = call.address + Len(call.got) /\ Position \in Nat
    BY <1>1 DEF Position
  <2>6. At(got, call.address)
    <3> SUFFICES ASSUME NEW i \in 1 .. Len(got) PROVE got[i] = Byte(call.address + i - 1)
      BY DEF At
    <3>1. CASE i \in 1 .. Len(call.got)
      BY <2>3, <2>4, <3>1 DEF At
    <3>2. CASE i \notin 1 .. Len(call.got)
      <4> DEFINE j == i - Len(call.got)
      <4>1. j \in 1 .. n /\ got[i] = Chunk[j] /\ Start + j \in 1 .. Len(data)
        <5>1. j \in 1 .. n /\ i \in Len(call.got) + 1 .. Len(call.got) + n
          BY <1>1, <1>3, <2>3, <3>2
        <5>2. got[i] = Chunk[j]
          BY <2>3, <5>1
        <5>3. Start + j \in 1 .. Len(data)
          <6> HIDE DEF Start, j
          <6> QED BY <1>3, <1>4, <5>1
        <5> QED BY <5>1, <5>2, <5>3
      <4>2. data[Start + j] = Byte(Position - Start + (Start + j) - 1)
        <5> HIDE DEF j, Start, Position
        <5> QED BY <2>4, <4>1 DEF At
      <4>3. Position - Start + (Start + j) - 1 = call.address + i - 1
        <5> HIDE DEF Start, Position
        <5>1. i \in Nat /\ Start \in Nat
          BY <1>4, <2>3, <1>1, <1>3
        <5> DEFINE l == Len(call.got)
                   a == call.address
        <5>2. l \in Nat /\ a \in Nat /\ Position = a + l
          BY <1>1, <2>5
        <5> HIDE DEF l, a
        <5>3. Position - Start + (Start + (i - l)) - 1 = a + i - 1
          BY <5>1, <5>2
        <5> QED BY <5>3 DEF l, a
      <4> QED BY <1>3, <4>1, <4>2, <4>3
    <3> QED BY <3>1, <3>2
  <2>7. At(call.got, call.address)'
    <3>1. PICK g, a : g = got /\ a = call.address
      OBVIOUS
    <3>2. call'.got = g /\ call'.address = a /\ At(g, a)
      BY <2>2, <2>6, <3>1
    <3> QED BY <1>2, <3>2 DEF At, Byte
  <2>8. SliceRequested'
    <3>1. got # <<>> /\ Position' = Position + n
      BY <1>1, <1>3, <2>2, <2>3, <2>5 DEF Position
    <3>2. phase = "done" \/ Position' % 2 = 0
      <4>1. CASE n = call.length - Len(call.got)
        <5>1. call.length \in Nat
          BY <1>1 DEF CallType
        <5> QED BY <1>1, <2>3, <4>1, <5>1 DEF phase
      <4>2. CASE n = device.chunk - Start
        <5>1. (Position - Start) % 2 = 0
          <6>1. CASE call.got = <<>>
            <7>1. Start = Position % 2
              BY <1>1, <2>5, <6>1 DEF Start, WORD
            <7> HIDE DEF Position, Start
            <7> QED BY <2>5, <7>1
          <6>2. CASE call.got # <<>>
            <7>1. Start = 0 /\ Position % 2 = 0
              BY <1>1, <6>2 DEF Start, ReadInv, SliceRequested, Slicing
            <7> HIDE DEF Position, Start
            <7> QED BY <2>5, <7>1
          <6> QED BY <6>1, <6>2
        <5>2. Position' = Position - Start + device.chunk
          <6> HIDE DEF Position, Start
          <6> QED BY <1>4, <2>5, <3>1, <4>2
        <5> HIDE DEF Position, Start
        <5>3. Position - Start \in Int /\ device.chunk % 2 = 0 /\ device.chunk \in Nat
          BY <1>4, <2>5
        <5> QED BY <5>1, <5>2, <5>3
      <4> QED BY <1>3, <4>1, <4>2
    <3> QED BY <1>1, <2>1, <2>2, <3>1, <3>2 DEF ReadInv, SliceRequested, Slicing
  <2>9. SliceSoFar'
    <3>1. call'.phase \in {"done", "command"}
      BY <2>1, <2>2
    <3>2. AtWork'
      BY <1>2, <3>1 DEF AtWork
    <3> QED BY <2>7, <3>1, <3>2 DEF SliceSoFar
  <2> QED BY <2>1, <2>2, <2>8, <2>9 DEF ReadInv, SliceDone
<1> QED BY <1>5, <1>6 DEF ReadData, Go, End

LEMMA ReadEnds ==
    ASSUME SiiForm, ReadInv, SliceRead \/ Walk, request.kind = "read"
    PROVE  ReadInv'
<1>1. call.phase = "done" /\ request' = request /\ UNCHANGED <<device, slave>>
  BY DEF SliceRead, Walk, CategoryRead, CountRead, LengthRead, StringRead, Done
<1>2. /\ call.stage = "slice" /\ call.address = request.address /\ call.length = request.length
      /\ call.got = <<>> \/ op = NoOp
      /\ At(call.got, call.address)
  BY <1>1 DEF ReadInv, SliceRequested, SliceSoFar, AtWork, Slicing, Refused
<1>3. call' = NoCall /\ outcome' = Ok(call.got)
  BY <1>2 DEF SliceRead, Walk, CategoryRead, CountRead, LengthRead, StringRead, Done, End
<1>4. call.got \in Seq(Nat) /\ Len(call.got) = request.length
  BY <1>1, <1>2, ReadKind DEF SiiForm, CallForm, Slicing
<1>5. call'.phase = "idle" /\ outcome'.value = call.got /\ op' = op /\ rom' = rom /\ device' = device
  BY <1>1, <1>3, Results DEF slave
<1>6. At(outcome.value, request.address)'
  BY <1>1, <1>2, <1>5 DEF At, Byte
<1>7. request.length = 0 \/ op = NoOp
  BY <1>2, <1>4
<1> QED BY <1>1, <1>4, <1>5, <1>6, <1>7 DEF ReadInv, SliceRequested, SliceSoFar, SliceDone, Slicing

(* What the slave ends is either the command of the chunk, or one of an earlier  *)
(* call, while this call has nothing to lose yet.                                *)
LEMMA ExecuteRead ==
    ASSUME SiiForm, ReadInv, Execute, request.kind = "read"
    PROVE  ReadInv'
<1>1. /\ op # NoOp /\ op' = NoOp /\ UNCHANGED <<device, call, request, outcome>>
      /\ call.got \in Seq(Nat) /\ call.address \in Nat
  BY ReadKind DEF Execute, NoOp
<1>2. SliceRequested'
  BY <1>1 DEF ReadInv, SliceRequested, Position
<1>3. SliceDone'
  <2> SUFFICES ASSUME call.phase = "idle", outcome.result = "ok"
               PROVE  /\ outcome.value \in Seq(Nat) /\ Len(outcome.value) = request.length
                      /\ At(outcome.value, request.address)'
    BY <1>1 DEF SliceDone
  <2>1. outcome.value \in Seq(Nat) /\ Len(outcome.value) = request.length /\ request.length = 0
    BY <1>1 DEF ReadInv, SliceDone
  <2> QED BY <1>1, <2>1 DEF At
<1>4. SliceSoFar'
  <2>1. CASE call.phase \in {"command", "done"}
    <3>1. call.got = <<>>
      BY <1>1, <2>1 DEF ReadInv, SliceSoFar, AtWork, Slicing
    <3> QED BY <1>1, <2>1, <3>1 DEF SliceSoFar, AtWork, At
  <2>2. CASE call.phase = "poll" /\ error = "command"
    <3>1. error' = "command"
      BY <2>2 DEF Execute, Fails
    <3> QED BY <1>1, <2>2, <3>1 DEF SliceSoFar, AtWork, Refused, Errors
  <2>3. CASE call.phase = "poll" /\ error # "command"
    <3>1. /\ error = "none" /\ op.kind = "read" /\ 2 * op.address = Position - Start
          /\ At(call.got, call.address)
      BY <1>1, <2>3, ReadKind DEF ReadInv, SliceSoFar, AtWork, Slicing, Refused
    <3>2. rom' = rom /\ data' = Bytes(Position - Start, device.chunk) /\ error' # "command"
      BY <3>1 DEF Execute, Fails, WORD
    <3>3. AtWork' /\ At(call.got, call.address)'
      BY <1>1, <2>3, <3>1, <3>2 DEF AtWork, At, Byte
    <3>4. At(data, Position - Start)'
      <4> DEFINE p == Position - Start
      <4>1. p' = p /\ p \in Nat
        <5>1. 2 * op.address \in Nat
          BY DEF SiiForm, SlaveType, OpType
        <5> QED BY <1>1, <3>1, <5>1 DEF Position, Start
      <4> HIDE DEF p
      <4>2. device.chunk \in Nat
        <5>1. device \in Devices
          BY DEF SiiForm, SlaveType
        <5> QED BY <5>1, ConstantsAssumption
      <4>3. data' = Bytes(p, device.chunk)
        BY <3>2 DEF p
      <4>4. Len(data') = device.chunk /\ \A i \in 1 .. device.chunk : data'[i] = Byte(p + i - 1)
        BY <4>1, <4>2, <4>3, BytesSeq DEF SiiForm
      <4>5. At(data, p)'
        BY <1>1, <3>2, <4>1, <4>4 DEF At, Byte
      <4> QED BY <4>5 DEF p
    <3> QED BY <1>1, <2>3, <3>3, <3>4 DEF SliceSoFar
  <2>4. CASE call.phase = "data"
    BY <1>1, <2>4 DEF ReadInv, SliceSoFar, AtWork, Slicing
  <2> QED BY <1>1, <2>1, <2>2, <2>3, <2>4 DEF SliceSoFar, Slicing
<1> QED BY <1>2, <1>3, <1>4 DEF ReadInv

LEMMA NextRead == SiiForm /\ ReadInv /\ NoWrap /\ [Next]_vars => ReadInv'
<1> SUFFICES ASSUME SiiForm, ReadInv, NoWrap, [Next]_vars PROVE ReadInv'
  OBVIOUS
<1>1. ASSUME NEW r \in Requests, Begin(r) PROVE ReadInv'
  BY <1>1, BeginRead
<1>2. CASE request.kind # "read" /\ request' = request
  BY <1>2 DEF ReadInv, SliceRequested, SliceSoFar, SliceDone
<1>3. CASE request.kind = "read"
  <2>1. call.phase \in Slicing \cup {"idle"}
    BY <1>3 DEF ReadInv, SliceRequested
  <2>2. CASE New \/ Access
    BY <2>1, <2>2 DEF New, Access, Slicing
  <2>3. CASE SendCommand \/ Poll \/ ReadData \/ SliceRead \/ Walk
    BY <1>3, <2>3, SendRead, PollRead, DataRead, ReadEnds
  <2>4. CASE Drop
    BY <2>4, EndRead, Results DEF Drop, End
  <2>5. CASE Execute
    BY <1>3, <2>5, ExecuteRead
  <2>6. CASE UNCHANGED vars
    <3>1. UNCHANGED <<device, rom, op, error, data, call, request, outcome>>
      BY <2>6 DEF vars, slave
    <3> QED BY <3>1 DEF ReadInv, SliceRequested, SliceSoFar, SliceDone, AtWork, At, Byte, Refused,
                        Position, Start, Kind, Errors
  <2> QED BY <1>1, <2>2, <2>3, <2>4, <2>5, <2>6 DEF Next, Step
<1>4. request' = request \/ \E r \in Requests : Begin(r)
  <2>1. CASE Step
    BY <2>1 DEF Step, New, Access, SendCommand, Poll, ReadData, SliceRead, Walk, CategoryRead, CountRead,
                LengthRead, StringRead, Done
  <2> QED BY <2>1 DEF Next, Drop, Execute, vars
<1> QED BY <1>1, <1>2, <1>3, <1>4

--------------------------------------------------------------------------------
(* Writes *)

LEMMA EndWrite ==
    ASSUME call' = NoCall, outcome'.result # "ok"
    PROVE  WriteRequested' /\ WriteSoFar' /\ WriteDone'
BY DEF NoCall, WriteRequested, WriteSoFar, WriteDone

LEMMA WriteKind ==
    ASSUME SiiForm, request.kind = "write"
    PROVE  /\ Kind = "write" /\ request \in Requests
           /\ request.address \in Nat /\ request.data \in Seq(0 .. 255) /\ Len(request.data) \in Nat
           /\ call \in CallType /\ call.address \in Nat /\ call.length \in Nat
           /\ call.got \in Seq(Nat) /\ Len(call.got) \in Nat /\ Top \in Nat
<1>1. request \in Requests
  BY DEF SiiForm, NoRequest
<1>2. request.address \in 0 .. Top /\ request.data \in Seq(0 .. 255) /\ Top \in Nat
  BY <1>1, RequestsAssumption, ConstantsAssumption
<1> QED BY <1>1, <1>2 DEF Kind, SiiForm, CallForm, CallType

LEMMA BeginWrite ==
    ASSUME SiiForm, WriteInv, NEW r \in Requests, Begin(r)
    PROVE  WriteInv'
<1>1. request' = r /\ rom' = rom
  BY DEF Begin
<1>2. Prefix'
  <2>1. CASE op' = op
    BY <1>1, <2>1 DEF Prefix, WriteInv, Stored
  <2>2. CASE op' = [op EXCEPT !.end = outcome.result]
    <3>1. op' # op => op'.kind = op.kind /\ op'.address = op.address /\ op'.of = op.of /\ op'.data = op.data
      BY <2>2 DEF SiiForm, SlaveType, OpType
    <3> QED BY <1>1, <2>1, <3>1 DEF Prefix, WriteInv, Stored
  <2> QED BY <2>1, <2>2 DEF Begin
<1>3. CASE r.kind # "write"
  BY <1>1, <1>2, <1>3 DEF WriteInv, WriteRequested, WriteSoFar, WriteDone
<1>4. CASE r.kind = "write"
  <2> DEFINE c == [NoCall EXCEPT !.phase = "command", !.address = r.address, !.length = Len(r.data)]
  <2>1. \/ call' = NoCall /\ outcome' = Error("unaligned")
        \/ call' = c /\ r.address % 2 = 0
    BY <1>4 DEF Begin, Go, End, WORD
  <2>2. c.phase = "command" /\ c.address = r.address /\ c.length = Len(r.data) /\ c.got = <<>>
    BY DEF NoCall
  <2> HIDE DEF c
  <2>3. CASE call' = c /\ r.address % 2 = 0
    <3>1. r.data \in Seq(0 .. 255) /\ Len(r.data) \in Nat /\ r.address \in Nat
      BY <1>4, RequestsAssumption, ConstantsAssumption
    <3>2. call'.phase = "command" /\ call'.got = <<>> /\ Len(call'.got) = 0 /\ call'.address = r.address
          /\ call'.length = Len(r.data)
      BY <2>2, <2>3
    <3>3. Position' = r.address
      BY <3>1, <3>2 DEF Position
    <3>4. WriteRequested'
      BY <1>1, <2>3, <3>1, <3>2, <3>3 DEF WriteRequested
    <3>5. WriteSoFar'
      BY <3>2 DEF WriteSoFar, AtWork, Stored
    <3> QED BY <1>2, <3>2, <3>4, <3>5 DEF WriteInv, WriteDone
  <2> QED BY <1>2, <2>1, <2>3, EndWrite, Results DEF WriteInv
<1> QED BY <1>3, <1>4

(* The command of the next word of a write.                                      *)
LEMMA WriteCommand ==
    ASSUME SiiForm, WriteInv, NoWrap, request.kind = "write", call.phase = "command",
           ~CannotSend, ~Written
    PROVE  /\ Position <= Top /\ Command.kind = "write" /\ Command.of = request
           /\ Start = 0 /\ 2 * Command.address = Position
           /\ Command.data = SubSeq(request.data, Len(call.got) + 1, Len(call.got) + 2)
           /\ Len(call.got) + 2 <= Len(request.data)
           /\ Position = request.address + Len(call.got)
<1>1. /\ Kind = "write" /\ request \in Requests /\ request.address \in Nat /\ Len(request.data) \in Nat
      /\ call.address = request.address /\ call.length = Len(request.data)
      /\ Len(call.got) \in Nat /\ Top \in Nat
      /\ Position % 2 = 0 /\ call.address % 2 = 0
  BY WriteKind DEF WriteInv, WriteRequested
<1>2. Position \in Nat /\ Position = request.address + Len(call.got)
  BY <1>1 DEF Position
<1>3. Len(call.got) + 2 <= Len(request.data)
  BY <1>1 DEF Written, CannotSend
<1>4. Position <= Top
  <2>1. CASE OverflowChecks
    BY <1>2, <2>1, ConstantsAssumption DEF CannotSend, Overflow
  <2>2. CASE ~OverflowChecks
    <3>1. request.address + Len(request.data) <= Top + 1
      BY <1>1, <2>2 DEF NoWrap
    <3> QED BY <1>1, <1>2, <1>3, <3>1
  <2> QED BY <2>1, <2>2
<1>5. 2 * CommandWord = Position
  <2>1. Wrapped(Position) = Position
    <3>1. Position \in 0 .. Top
      BY <1>1, <1>2, <1>4
    <3> HIDE DEF Position
    <3> QED BY <3>1, NotWrapped
  <2>2. CommandWord = Position \div 2
    BY <2>1 DEF CommandWord, WORD
  <2> HIDE DEF Position, CommandWord
  <2> QED BY <1>1, <1>2, <2>2
<1>6. Start = 0
  BY <1>1 DEF Start, WORD
<1> QED BY <1>1, <1>2, <1>3, <1>4, <1>5, <1>6 DEF Command, Pair

LEMMA SendWrite ==
    ASSUME SiiForm, WriteInv, NoWrap, SendCommand \/ (Drop /\ call.phase = "command"), request.kind = "write"
    PROVE  WriteInv'
<1>1. /\ call.phase = "command" /\ request' = request /\ device' = device
      /\ Kind = "write" /\ call \in CallType /\ Len(call.got) \in Nat
      /\ call.address = request.address /\ call.length = Len(request.data)
      /\ Len(call.got) <= call.length /\ Len(request.data) \in Nat
  BY WriteKind DEF SendCommand, Drop, WriteInv, WriteRequested
<1>2. Stored(request, Len(call.got)) /\ (call.got = <<>> \/ op = NoOp)
  BY <1>1 DEF WriteInv, WriteSoFar, AtWork, Refused
<1>3. ASSUME TakeCommand(Command), ~Written, ~CannotSend
      PROVE  Prefix'
  <2>1. rom' = rom
    BY <1>3 DEF TakeCommand
  <2>2. CASE op' = Command
    <3> DEFINE n == Len(call.got)
    <3>1. /\ Command.kind = "write" /\ Command.of = request
          /\ 2 * Command.address - request.address = n /\ n + 2 <= Len(request.data)
          /\ Command.data = SubSeq(request.data, n + 1, n + 2)
      <4>1. /\ 2 * Command.address = request.address + n /\ n \in Nat /\ request.address \in Nat
            /\ Command.kind = "write" /\ Command.of = request /\ n + 2 <= Len(request.data)
            /\ Command.data = SubSeq(request.data, n + 1, n + 2)
        BY <1>1, <1>3, WriteCommand, WriteKind
      <4> HIDE DEF n
      <4> QED BY <4>1
    <3>2. request \in Requests /\ Stored(request, n)
      BY <1>2, WriteKind
    <3> HIDE DEF n
    <3>3. PICK m : m = n
      OBVIOUS
    <3>4. Stored(request, m)'
      BY <1>1, <2>1, <3>2, <3>3 DEF Stored
    <3>5. op'.kind = "write" /\ op'.of = request /\ 2 * op'.address - request.address = m
      BY <2>2, <3>1, <3>3
    <3>6. m \in Nat /\ op'.data = SubSeq(request.data, m + 1, m + 2) /\ m + 2 <= Len(request.data)
      BY <1>1, <2>2, <3>1, <3>3 DEF n
    <3>7. Stored(op.of, m)' /\ request.kind = "write"
      BY <1>1, <3>4, <3>5 DEF Stored
    <3> QED BY <3>2, <3>5, <3>6, <3>7 DEF Prefix, Stored
  <2>3. CASE op' = op
    BY <2>1, <2>3 DEF WriteInv, Prefix, Stored
  <2> QED BY <1>3, <2>2, <2>3 DEF TakeCommand
<1>4. ASSUME UNCHANGED slave, call' = NoCall, outcome'.result # "ok" \/ Written
      PROVE  WriteInv'
  <2>1. rom' = rom /\ op' = op
    BY <1>4 DEF slave
  <2>2. Prefix'
    BY <2>1 DEF WriteInv, Prefix, Stored
  <2>3. CASE outcome'.result # "ok"
    BY <1>4, <2>2, <2>3, EndWrite DEF WriteInv
  <2>4. CASE Written
    <3>1. Stored(request, Len(request.data))'
      <4>1. Len(call.got) = Len(request.data)
        BY <1>1, <2>4 DEF Written
      <4> QED BY <1>1, <1>2, <2>1, <4>1 DEF Stored
    <3>2. Len(request.data) = 0 \/ op = NoOp
      BY <1>1, <1>2, <2>4 DEF Written
    <3>3. call'.phase = "idle"
      BY <1>4 DEF NoCall
    <3> QED BY <1>1, <2>1, <2>2, <3>1, <3>2, <3>3 DEF WriteInv, WriteRequested, WriteSoFar, WriteDone
  <2> QED BY <1>4, <2>3, <2>4
<1>5. ASSUME TakeCommand(Command), ~Written, ~CannotSend, call' = [call EXCEPT !.phase = "poll"]
      PROVE  WriteInv'
  <2>1. call'.phase = "poll" /\ call'.got = call.got /\ call'.address = call.address /\ call'.length = call.length
    BY <1>1, <1>5 DEF CallType
  <2>2. /\ Position <= Top /\ Command.kind = "write" /\ Command.of = request
        /\ Start = 0 /\ 2 * Command.address = Position
    BY <1>1, <1>5, WriteCommand
  <2>3. Position' = Position /\ Start' = Start /\ Kind' = "write"
    BY <1>1, <2>1 DEF Position, Start, Kind
  <2>4. WriteRequested'
    BY <1>1, <2>1, <2>2, <2>3 DEF WriteInv, WriteRequested
  <2>5. WriteSoFar'
    <3>1. rom' = rom
      BY <1>5 DEF TakeCommand
    <3>2. Stored(request, Len(call.got))'
      BY <1>1, <1>2, <2>1, <3>1 DEF Stored
    <3>3. CASE error' = "command"
      BY <2>1, <3>3 DEF WriteSoFar, AtWork, Refused, Errors
    <3>4. CASE op' = Command /\ error' = "none"
      <4>1. op' # NoOp
        BY <2>2, <3>4 DEF NoOp
      <4>2. Position - Start = Position
        <5>1. Position \in Nat
          BY <1>1, WriteKind DEF Position
        <5> QED BY <2>2, <5>1
      <4>3. AtWork'
        BY <1>1, <2>1, <2>2, <2>3, <3>4, <4>2 DEF AtWork
      <4> QED BY <2>1, <3>2, <4>1, <4>3 DEF WriteSoFar
    <3> QED BY <1>5, <3>3, <3>4 DEF TakeCommand
  <2>6. Prefix'
    BY <1>3, <1>5
  <2> QED BY <2>1, <2>4, <2>5, <2>6 DEF WriteInv, WriteDone
<1>6. ASSUME TakeCommand(Command), ~Written, ~CannotSend, call' = NoCall, outcome'.result # "ok"
      PROVE  WriteInv'
  BY <1>3, <1>6, EndWrite DEF WriteInv
<1>7. CASE SendCommand
  BY <1>4, <1>5, <1>6, <1>7, Results DEF SendCommand, Go, End
<1>8. CASE Drop /\ call.phase = "command"
  BY <1>4, <1>6, <1>8, Results DEF Drop, End
<1> QED BY <1>7, <1>8

LEMMA PollWrite ==
    ASSUME SiiForm, WriteInv, Poll, request.kind = "write"
    PROVE  WriteInv'
<1>1. /\ call.phase = "poll" /\ op = NoOp /\ request' = request /\ UNCHANGED <<device, slave>>
      /\ Kind = "write" /\ call \in CallType /\ call.address \in Nat /\ call.got \in Seq(Nat)
      /\ Len(call.got) \in Nat /\ call.length \in Nat
      /\ call.address = request.address /\ call.length = Len(request.data)
      /\ Position % 2 = 0 /\ call.address % 2 = 0
  BY WriteKind DEF Poll, Settled, WriteInv, WriteRequested
<1>2. rom' = rom /\ op' = op
  BY <1>1 DEF slave
<1>3. Prefix'
  BY <1>2 DEF WriteInv, Prefix, Stored
<1>4. \/ call' = NoCall /\ outcome' = Error(error) /\ error \in Errors("write")
      \/ call' = [call EXCEPT !.phase = "command", !.got = call.got \o Pair] /\ error \notin Errors("write")
  BY <1>1 DEF Poll, Go, End
<1>5. CASE call' = NoCall /\ outcome' = Error(error) /\ error \in Errors("write")
  BY <1>3, <1>5, EndWrite, Results DEF Errors, WriteInv
<1>6. CASE call' = [call EXCEPT !.phase = "command", !.got = call.got \o Pair] /\ error \notin Errors("write")
  <2>1. Pair \in Seq(Nat) /\ Len(Pair) = 2 /\ Len(call.got) + 2 <= call.length
    <3>1. Len(call.got) + 2 <= call.length
      BY <1>1 DEF SiiForm, CallForm
    <3> QED BY <1>1, <3>1, PairType
  <2>2. call.got \o Pair \in Seq(Nat) /\ Len(call.got \o Pair) = Len(call.got) + 2
    <3>1. /\ call.got \o Pair \in Seq(Nat)
          /\ Len(call.got \o Pair) = Len(call.got) + Len(Pair)
      BY <1>1, <2>1, ConcatProperties
    <3> QED BY <2>1, <3>1
  <2>3. /\ call'.phase = "command" /\ call'.address = call.address /\ call'.length = call.length
        /\ Len(call'.got) = Len(call.got) + 2
    BY <1>1, <1>6, <2>2 DEF CallType
  <2>4. Position' = Position + 2 /\ Position \in Nat
    BY <1>1, <2>3 DEF Position
  <2>5. WriteRequested'
    <3>1. Position' % 2 = 0
      <4> HIDE DEF Position
      <4> QED BY <1>1, <2>4
    <3> QED BY <1>1, <2>1, <2>3, <3>1 DEF WriteInv, WriteRequested
  <2>6. WriteSoFar'
    <3>1. Stored(request, Len(call.got) + 2)
      BY <1>1, <1>6 DEF WriteInv, WriteSoFar
    <3>2. Stored(request, Len(call.got))'
      BY <1>1, <1>2, <2>3, <3>1 DEF Stored
    <3> QED BY <1>1, <1>2, <2>3, <3>2 DEF WriteSoFar, AtWork
  <2> QED BY <1>3, <2>3, <2>5, <2>6 DEF WriteInv, WriteDone
<1> QED BY <1>4, <1>5, <1>6

LEMMA SameBound == ASSUME NEW m \in Nat, NEW n \in Nat, 1 .. m = 1 .. n PROVE m = n
<1>1. \A i \in Nat : i \in 1 .. m <=> i \in 1 .. n
  OBVIOUS
<1> QED BY <1>1

(* A word of a request is put after what is stored of it.                        *)
LEMMA WordStored ==
    ASSUME SiiForm, Prefix, WritesInside, op.kind = "write",
           rom' = [rom EXCEPT ![WORD * op.address + 1] = op.data[1],
                              ![WORD * op.address + 2] = op.data[2]]
    PROVE  LET w == op.of
               n == WORD * op.address - w.address
           IN /\ w \in Requests /\ w.kind = "write" /\ n \in Nat /\ n + 2 <= Len(w.data)
              /\ w.address \in Nat /\ w.data \in Seq(0 .. 255) /\ w.address + n + 2 <= Len(rom)
              /\ rom' \in Seq(Nat) /\ Len(rom') = Len(rom)
              /\ \A i \in 1 .. n + 2 : rom'[w.address + i] = w.data[i]
              /\ \A i \in DOMAIN rom : rom'[i] # rom[i] => i - w.address \in n + 1 .. n + 2
<1> DEFINE w == op.of
           n == 2 * op.address - w.address
<1>1. /\ w \in Requests /\ w.kind = "write" /\ n \in Nat /\ n + 2 <= Len(w.data)
      /\ op.data = SubSeq(w.data, n + 1, n + 2) /\ \A i \in 1 .. n : rom[w.address + i] = w.data[i]
  BY DEF Prefix, Stored
<1>2. w.address \in Nat /\ w.data \in Seq(0 .. 255) /\ Len(w.data) \in Nat
  BY <1>1, RequestsAssumption, ConstantsAssumption
<1>3. 2 * op.address = w.address + n /\ op.address \in Nat
  BY <1>1, <1>2 DEF SiiForm, SlaveType, OpType
<1> HIDE DEF n, w
<1>4. rom \in Seq(Nat) /\ Len(rom) \in Nat /\ rom \in [1 .. Len(rom) -> Nat]
  BY LenProperties DEF SiiForm, SlaveType
<1>5. w.address + n + 2 <= Len(rom)
  <2>1. device \in Devices /\ DOMAIN rom = DOMAIN Image(device)
    BY DEF SiiForm, SlaveType
  <2>2. Image(device) \in Seq(0 .. 255)
    BY <2>1, ImagesAssumption
  <2>3. DOMAIN rom = 1 .. Len(rom) /\ DOMAIN Image(device) = 1 .. Len(Image(device)) /\ Len(Image(device)) \in Nat
    BY <1>4, <2>2, LenProperties
  <2>4. Len(Image(device)) = Len(rom)
    BY <1>4, <2>1, <2>3, SameBound
  <2>5. w.address + Len(w.data) <= Len(Image(device))
    BY <1>1, <2>1 DEF WritesInside
  <2> QED BY <1>1, <1>2, <1>4, <2>4, <2>5
<1>6. op.data[1] = w.data[n + 1] /\ op.data[2] = w.data[n + 2] /\ op.data[1] \in Nat /\ op.data[2] \in Nat
  <2>1. op.data \in Seq(Nat) /\ Len(op.data) = 2
    BY DEF SiiForm, SlaveType, OpType
  <2>2. op.data[1] \in Nat /\ op.data[2] \in Nat
    BY <2>1, ElementOfSeq
  <2>3. \A i \in n + 1 .. n + 2 : w.data[i] \in 0 .. 255
    <3> SUFFICES ASSUME NEW i \in n + 1 .. n + 2 PROVE w.data[i] \in 0 .. 255
      OBVIOUS
    <3>1. i \in 1 .. Len(w.data)
      BY <1>1, <1>2
    <3> QED BY <1>2, <3>1, ElementOfSeq
  <2>4. n + 1 \in Int /\ n + 2 \in Int
    BY <1>1
  <2>5. \A i \in 1 .. n + 2 - (n + 1) + 1 : op.data[i] = w.data[n + 1 + i - 1]
    BY <1>1, <2>3, <2>4, SubSeqProperties
  <2>6. 1 \in 1 .. n + 2 - (n + 1) + 1 /\ 2 \in 1 .. n + 2 - (n + 1) + 1
        /\ n + 1 + 1 - 1 = n + 1 /\ n + 1 + 2 - 1 = n + 2
    BY <1>1
  <2>7. op.data[1] = w.data[n + 1 + 1 - 1] /\ op.data[2] = w.data[n + 1 + 2 - 1]
    BY <2>5, <2>6
  <2> QED BY <2>2, <2>6, <2>7
<1>7. PICK a, l \in Nat : a = w.address + n + 1 /\ l = Len(rom)
  <2>1. w.address + n + 1 \in Nat
    BY <1>1, <1>2
  <2> QED BY <1>4, <2>1
<1> DEFINE first == [rom EXCEPT ![a] = op.data[1]]
<1>8. a \in 1 .. l /\ a + 1 \in 1 .. l /\ rom' = [first EXCEPT ![a + 1] = op.data[2]]
  <2>1. WORD * op.address + 1 = a /\ WORD * op.address + 2 = a + 1
    BY <1>1, <1>2, <1>3, <1>7 DEF WORD
  <2>2. rom' = [first EXCEPT ![a + 1] = op.data[2]]
    BY <2>1
  <2>3. a \in 1 .. l /\ a + 1 \in 1 .. l
    BY <1>1, <1>2, <1>5, <1>7
  <2> QED BY <2>2, <2>3
<1>9. rom \in [1 .. l -> Nat]
  BY <1>4, <1>7
<1>10. /\ first \in [1 .. l -> Nat] /\ first[a] = op.data[1]
       /\ \A i \in 1 .. l : i # a => first[i] = rom[i]
  BY <1>6, <1>8, <1>9
<1> HIDE DEF first
<1>11. /\ rom' \in [1 .. l -> Nat] /\ rom'[a + 1] = op.data[2] /\ rom'[a] = op.data[1]
       /\ \A i \in 1 .. l : i \notin {a, a + 1} => rom'[i] = rom[i]
  <2>1. a # a + 1
    BY <1>7
  <2> QED BY <1>6, <1>8, <1>10, <2>1
<1>12. rom' \in Seq(Nat) /\ Len(rom') = Len(rom)
  <2>1. rom' \in [1 .. l -> Nat]
    BY <1>11
  <2>2. \A s \in [1 .. l -> Nat] : s \in Seq(Nat) /\ Len(s) = l
    BY LenProperties
  <2>3. rom' \in Seq(Nat) /\ Len(rom') = l
    BY <2>1, <2>2
  <2> QED BY <1>7, <2>3
<1>13. \A i \in 1 .. n + 2 : rom'[w.address + i] = w.data[i]
  <2> SUFFICES ASSUME NEW i \in 1 .. n + 2 PROVE rom'[w.address + i] = w.data[i]
    OBVIOUS
  <2>1. CASE i \in 1 .. n
    <3>1. w.address + i \in 1 .. l /\ w.address + i \notin {a, a + 1}
      BY <1>1, <1>2, <1>5, <1>7, <2>1, SMTT(30)
    <3> QED BY <1>1, <1>11, <2>1, <3>1
  <2>2. CASE i = n + 1
    <3>1. w.address + i = a
      BY <1>1, <1>2, <1>7, <2>2
    <3> QED BY <1>6, <1>11, <2>2, <3>1
  <2>3. CASE i = n + 2
    <3>1. w.address \in Nat /\ n \in Nat
      BY <1>1, <1>2
    <3>2. w.address + i = a + 1
      BY <1>7, <2>3, <3>1
    <3> QED BY <1>6, <1>11, <2>3, <3>2
  <2> QED BY <1>1, <2>1, <2>2, <2>3
<1>14. \A i \in DOMAIN rom : rom'[i] # rom[i] => i - w.address \in n + 1 .. n + 2
  <2> SUFFICES ASSUME NEW i \in 1 .. l, rom'[i] # rom[i] PROVE i - w.address \in n + 1 .. n + 2
    BY <1>9
  <2>1. i = a \/ i = a + 1
    BY <1>11
  <2> QED BY <1>1, <1>2, <1>7, <2>1, SMTT(30)
<1> QED BY <1>1, <1>2, <1>5, <1>12, <1>13, <1>14 DEF n, w, WORD

LEMMA ExecuteWrite ==
    ASSUME SiiForm, WriteInv, WritesInside, Execute
    PROVE  WriteInv'
<1>1. op # NoOp /\ op' = NoOp /\ UNCHANGED <<device, call, request, outcome>>
  BY DEF Execute, NoOp
<1>2. Prefix'
  BY <1>1 DEF Prefix, NoOp
<1>3. WriteRequested'
  BY <1>1 DEF WriteInv, WriteRequested, Position
<1>4. WriteDone'
  BY <1>1 DEF WriteInv, WriteDone, Stored
<1>5. WriteSoFar'
  <2> SUFFICES ASSUME request.kind = "write", call.phase # "idle" PROVE WriteSoFar'
    BY <1>1 DEF WriteSoFar
  <2>0. call.phase \in {"command", "poll"} /\ Len(call.got) \in Nat /\ call.got \in Seq(Nat)
        /\ request.address \in Nat
    BY WriteKind DEF WriteInv, WriteRequested
  <2>1. CASE call.phase = "command"
    <3>1. call.got = <<>>
      BY <1>1, <2>1 DEF WriteInv, WriteSoFar, AtWork
    <3>2. Len(call.got) = 0
      BY <3>1
    <3>3. Stored(request, Len(call.got))'
      BY <1>1, <3>2 DEF Stored
    <3> QED BY <1>1, <2>1, <3>3 DEF WriteSoFar, AtWork
  <2>2. CASE call.phase = "poll" /\ error = "command"
    <3>1. error' = "command"
      BY <2>2 DEF Execute, Fails
    <3> QED BY <1>1, <2>2, <3>1 DEF WriteSoFar, AtWork, Refused, Errors
  <2>3. CASE call.phase = "poll" /\ error # "command"
    <3>1. /\ error = "none" /\ op.kind = "write" /\ 2 * op.address = Position - Start /\ op.of = request
          /\ Stored(request, Len(call.got))
      BY <1>1, <2>3, WriteKind DEF WriteInv, WriteSoFar, AtWork, Refused
    <3>2. 2 * op.address - request.address = Len(call.got)
      <4>1. call.address = request.address /\ call.address % 2 = 0
        BY <2>3 DEF WriteInv, WriteRequested
      <4>2. Start = 0
        BY <4>1 DEF Start, WORD
      <4>3. Position = request.address + Len(call.got)
        BY <4>1 DEF Position
      <4>4. 2 * op.address = request.address + Len(call.got) - 0
        BY <3>1, <4>2, <4>3
      <4> QED BY <2>0, <4>4
    <3>3. AtWork'
      BY <1>1, <2>3 DEF AtWork
    <3>4. CASE rom' = rom /\ error' = "write"
      <4>1. Stored(request, Len(call.got))'
        BY <1>1, <3>1, <3>4 DEF Stored
      <4> QED BY <1>1, <3>3, <3>4, <4>1 DEF WriteSoFar, Errors
    <3>5. CASE rom' = [rom EXCEPT ![WORD * op.address + 1] = op.data[1],
                                  ![WORD * op.address + 2] = op.data[2]]
      <4> DEFINE n == Len(call.got)
      <4>1. \A i \in 1 .. n + 2 : rom'[request.address + i] = request.data[i]
        BY <3>1, <3>2, <3>5, WordStored DEF WriteInv, WORD
      <4>2. Stored(request, Len(call.got) + 2)'
        BY <1>1, <4>1 DEF Stored
      <4>3. \A i \in 1 .. n : i \in 1 .. n + 2
        BY <2>0
      <4>4. Stored(request, Len(call.got))'
        BY <1>1, <4>1, <4>3 DEF Stored
      <4> QED BY <1>1, <3>3, <4>2, <4>4 DEF WriteSoFar
    <3> QED BY <3>1, <3>4, <3>5 DEF Execute
  <2> QED BY <2>0, <2>1, <2>2, <2>3
<1> QED BY <1>2, <1>3, <1>4, <1>5 DEF WriteInv

(* Prefix is of the command the slave works on, whoever gave it.                 *)
LEMMA OtherPrefix ==
    ASSUME SiiForm, Prefix, request.kind # "write", rom' = rom,
           op' = op \/ op' = Command
    PROVE  Prefix'
<1>1. CASE op' = op
  BY <1>1 DEF Prefix, Stored
<1>2. CASE op' = Command
  <2>1. op'.kind # "write"
    BY <1>2 DEF Command, Kind
  <2> QED BY <2>1 DEF Prefix
<1> QED BY <1>1, <1>2

LEMMA NextWrite == SiiForm /\ WriteInv /\ NoWrap /\ WritesInside /\ [Next]_vars => WriteInv'
<1> SUFFICES ASSUME SiiForm, WriteInv, NoWrap, WritesInside, [Next]_vars PROVE WriteInv'
  OBVIOUS
<1>1. ASSUME NEW r \in Requests, Begin(r) PROVE WriteInv'
  BY <1>1, BeginWrite
<1>2. CASE Execute
  BY <1>2, ExecuteWrite
<1>3. CASE UNCHANGED vars
  <2>1. UNCHANGED <<device, rom, op, error, data, call, request, outcome>>
    BY <1>3 DEF vars, slave
  <2> QED BY <2>1 DEF WriteInv, WriteRequested, WriteSoFar, WriteDone, Prefix, AtWork, Stored, Refused,
                      Position, Start, Kind, Errors
<1>4. CASE Step \/ Drop
  <2>1. request' = request
    BY <1>4 DEF Step, New, Access, SendCommand, Poll, ReadData, SliceRead, Walk, CategoryRead, CountRead,
                LengthRead, StringRead, Done, Drop
  <2>2. CASE request.kind # "write"
    <3>1. rom' = rom /\ (op' = op \/ op' = Command)
      <4>1. CASE Step
        BY <4>1 DEF Step, New, Access, SendCommand, Poll, ReadData, SliceRead, Walk, CategoryRead, CountRead,
                    LengthRead, StringRead, Done, TakeCommand, slave
      <4>2. CASE Drop
        BY <4>2 DEF Drop, TakeCommand, slave
      <4> QED BY <1>4, <4>1, <4>2
    <3>2. Prefix'
      BY <2>2, <3>1, OtherPrefix DEF WriteInv
    <3> QED BY <2>1, <2>2, <3>2 DEF WriteInv, WriteRequested, WriteSoFar, WriteDone
  <2>3. CASE request.kind = "write"
    <3>1. call.phase \in {"command", "poll", "idle"}
      BY <2>3 DEF WriteInv, WriteRequested
    <3>2. CASE SendCommand \/ (Drop /\ call.phase = "command")
      BY <2>3, <3>2, SendWrite
    <3>3. CASE Poll
      BY <2>3, <3>3, PollWrite
    <3>4. CASE Drop /\ call.phase = "poll"
      <4>1. UNCHANGED slave /\ call' = NoCall /\ outcome' = Error("dropped")
        BY <3>4 DEF Drop, End
      <4>2. Prefix'
        BY <4>1 DEF slave, WriteInv, Prefix, Stored
      <4> QED BY <4>1, <4>2, EndWrite, Results DEF WriteInv
    <3> QED BY <1>4, <3>1, <3>2, <3>3, <3>4 DEF Step, New, Access, ReadData, SliceRead, Walk, CategoryRead,
                CountRead, LengthRead, StringRead, Done, Drop
  <2> QED BY <2>2, <2>3
<1> QED BY <1>1, <1>2, <1>3, <1>4 DEF Next

(* What reads and writes did when they report success, and what of a write is    *)
(* in the EEPROM at any time, for any slaves, requests and failures, if no call  *)
(* goes past the last address unnoticed and writes stay in the EEPROM.           *)
LEMMA SlicesInvariant ==
    ASSUME NoWrap, WritesInside
    PROVE  Spec => [](SiiForm /\ ReadInv /\ WriteInv)
<1>1. Init => ReadInv /\ WriteInv
  <2> SUFFICES ASSUME Init PROVE ReadInv /\ WriteInv
    OBVIOUS
  <2>1. request.kind = "none" /\ op.kind = "none"
    BY DEF Init, NoRequest, NoOp
  <2> QED BY <2>1 DEF ReadInv, WriteInv, SliceRequested, SliceSoFar, SliceDone, WriteRequested, WriteSoFar,
                      WriteDone, Prefix
<1>2. SiiForm /\ ReadInv /\ WriteInv /\ [Next]_vars => ReadInv' /\ WriteInv'
  BY NextRead, NextWrite
<1> QED BY <1>1, <1>2, SiiInvariant, PTL DEF Spec

LEMMA SameSlices ==
    ASSUME NEW s \in Seq(Nat), NEW t \in Seq(0 .. 255), NEW a \in Nat, NEW k \in Nat,
           a + k <= Len(s), k <= Len(t), \A i \in 1 .. k : s[a + i] = t[i]
    PROVE  SubSeq(s, a + 1, a + k) = SubSeq(t, 1, k)
<1>1. /\ \A i \in a + 1 .. a + k : s[i] \in Nat
      /\ \A i \in 1 .. k : t[i] \in 0 .. 255
  <2>1. Len(s) \in Nat /\ Len(t) \in Nat
    OBVIOUS
  <2>2. \A i \in a + 1 .. a + k : i \in 1 .. Len(s)
    BY <2>1
  <2>3. \A i \in 1 .. k : i \in 1 .. Len(t)
    BY <2>1
  <2> QED BY <2>2, <2>3, ElementOfSeq
<1>2. /\ SubSeq(s, a + 1, a + k) \in Seq(Nat)
      /\ Len(SubSeq(s, a + 1, a + k)) = IF a + 1 <= a + k THEN a + k - (a + 1) + 1 ELSE 0
      /\ \A i \in 1 .. a + k - (a + 1) + 1 : SubSeq(s, a + 1, a + k)[i] = s[a + 1 + i - 1]
  BY <1>1, SubSeqProperties
<1>3. /\ SubSeq(t, 1, k) \in Seq(0 .. 255)
      /\ Len(SubSeq(t, 1, k)) = IF 1 <= k THEN k - 1 + 1 ELSE 0
      /\ \A i \in 1 .. k - 1 + 1 : SubSeq(t, 1, k)[i] = t[1 + i - 1]
  BY <1>1, SubSeqProperties
<1>4. a + k - (a + 1) + 1 = k /\ k - 1 + 1 = k /\ (a + 1 <= a + k <=> k # 0) /\ (1 <= k <=> k # 0)
  OBVIOUS
<1>5. \A i \in 1 .. k : a + 1 + i - 1 = a + i /\ 1 + i - 1 = i
  OBVIOUS
<1> DEFINE p == SubSeq(s, a + 1, a + k)
           q == SubSeq(t, 1, k)
<1>6. p \in Seq(Nat) /\ Len(p) = k /\ \A i \in 1 .. k : p[i] = t[i]
  BY <1>2, <1>4, <1>5
<1>7. q \in Seq(0 .. 255) /\ Len(q) = k /\ \A i \in 1 .. k : q[i] = t[i]
  BY <1>3, <1>4, <1>5
<1> HIDE DEF p, q
<1>8. p = q
  <2>1. q \in Seq(Nat)
    <3>1. 0 .. 255 \subseteq Nat
      OBVIOUS
    <3> QED BY <1>7, <3>1, SeqMonotonic
  <2> QED BY <1>6, <1>7, <2>1, SeqEqual
<1> QED BY <1>8 DEF p, q

(* A write reaches the EEPROM as a prefix of its data, in order, whatever calls  *)
(* fail, are dropped, or are made while the slave is still at work on it.        *)
THEOREM WritesArePrefixes ==
    ASSUME NoWrap, WritesInside
    PROVE  Spec => WritePrefix
<1> DEFINE A == rom' # rom =>
         LET w == op.of
             n == WORD * op.address - w.address
         IN /\ w.kind = "write" /\ n \in 0 .. Len(w.data) - 1
            /\ SubSeq(rom', w.address + 1, w.address + n + 2) = SubSeq(w.data, 1, n + 2)
            /\ \A i \in DOMAIN rom : rom'[i] # rom[i] => i - w.address \in n + 1 .. n + 2
<1>1. SiiForm /\ WriteInv /\ [Next]_vars => [A]_vars
  <2> SUFFICES ASSUME SiiForm, WriteInv, [Next]_vars, rom' # rom PROVE A
    OBVIOUS
  <2>1. Execute
    BY DEF Next, Begin, Step, New, Access, SendCommand, Poll, ReadData, SliceRead, Walk, CategoryRead,
           CountRead, LengthRead, StringRead, Done, Drop, TakeCommand, vars, slave
  <2>2. /\ op.kind = "write"
        /\ rom' = [rom EXCEPT ![WORD * op.address + 1] = op.data[1], ![WORD * op.address + 2] = op.data[2]]
    BY <2>1 DEF Execute
  <2> DEFINE w == op.of
             n == WORD * op.address - w.address
  <2>3. /\ w \in Requests /\ w.kind = "write" /\ n \in Nat /\ n + 2 <= Len(w.data)
        /\ w.address \in Nat /\ w.data \in Seq(0 .. 255) /\ w.address + n + 2 <= Len(rom)
        /\ rom' \in Seq(Nat) /\ Len(rom') = Len(rom)
        /\ \A i \in 1 .. n + 2 : rom'[w.address + i] = w.data[i]
        /\ \A i \in DOMAIN rom : rom'[i] # rom[i] => i - w.address \in n + 1 .. n + 2
    BY <2>2, WordStored DEF WriteInv
  <2> HIDE DEF w, n
  <2>4. n \in 0 .. Len(w.data) - 1
    BY <2>3, SMTT(30)
  <2>5. SubSeq(rom', w.address + 1, w.address + n + 2) = SubSeq(w.data, 1, n + 2)
    <3>1. n + 2 \in Nat /\ w.address + (n + 2) = w.address + n + 2 /\ w.address + (n + 2) <= Len(rom')
      <4>1. n \in Nat /\ w.address \in Nat
        BY <2>3
      <4>2. w.address + (n + 2) = w.address + n + 2 /\ n + 2 \in Nat
        BY <4>1
      <4> QED BY <2>3, <4>2
    <3>2. SubSeq(rom', w.address + 1, w.address + (n + 2)) = SubSeq(w.data, 1, n + 2)
      BY <2>3, <3>1, SameSlices
    <3> QED BY <3>1, <3>2
  <2> QED BY <2>3, <2>4, <2>5 DEF w, n
<1>2. WritePrefix <=> [][A]_vars
  BY DEF WritePrefix
<1> QED BY <1>1, SlicesInvariant, PTL DEF Spec, WritePrefix

(* A read that succeeds returned the bytes at its address, whatever its parity,  *)
(* its length and the chunks of the slave; a write that succeeds is stored whole.*)
THEOREM ReadsAndWritesExact ==
    ASSUME NoWrap, WritesInside
    PROVE  Spec => [](request.kind \in {"read", "write"} => OutcomesExact)
<1>1. SiiForm /\ ReadInv /\ WriteInv => (request.kind \in {"read", "write"} => OutcomesExact)
  <2> SUFFICES ASSUME SiiForm, ReadInv, WriteInv, request.kind \in {"read", "write"},
                      call.phase = "idle", outcome.result = "ok"
               PROVE  /\ request.kind = "read" => outcome.value = Bytes(request.address, request.length)
                      /\ request.kind = "write" => Bytes(request.address, Len(request.data)) = request.data
    BY DEF OutcomesExact, Correct
  <2>1. CASE request.kind = "read"
    <3>1. /\ outcome.value \in Seq(Nat) /\ Len(outcome.value) = request.length
          /\ \A i \in 1 .. request.length : outcome.value[i] = Byte(request.address + i - 1)
      BY <2>1 DEF ReadInv, SliceDone, At
    <3>2. request.address \in Nat /\ request.length \in Nat
      BY <2>1, ReadKind
    <3>3. /\ Bytes(request.address, request.length) \in Seq(Nat)
          /\ Len(Bytes(request.address, request.length)) = request.length
          /\ \A i \in 1 .. request.length :
                Bytes(request.address, request.length)[i] = Byte(request.address + i - 1)
      BY <3>2, BytesSeq DEF SiiForm
    <3> DEFINE b == Bytes(request.address, request.length)
    <3> HIDE DEF b
    <3>4. /\ b \in Seq(Nat) /\ Len(b) = Len(outcome.value)
          /\ \A i \in 1 .. Len(b) : b[i] = outcome.value[i]
      BY <3>1, <3>3 DEF b
    <3>5. outcome.value = b
      BY <3>1, <3>4, SeqEqual
    <3> QED BY <2>1, <3>5 DEF b
  <2>2. CASE request.kind = "write"
    <3> DEFINE a == request.address
               d == request.data
    <3>1. \A i \in 1 .. Len(d) : rom[a + i] = d[i]
      BY <2>2 DEF WriteInv, WriteDone, Stored
    <3>2. a \in Nat /\ d \in Seq(0 .. 255) /\ Len(d) \in Nat /\ request \in Requests
      BY <2>2, WriteKind
    <3>3. a + Len(d) <= Len(rom) /\ Len(rom) \in Nat
      <4>1. device \in Devices /\ DOMAIN rom = DOMAIN Image(device) /\ rom \in Seq(Nat)
        BY DEF SiiForm, SlaveType
      <4>2. Len(rom) = Len(Image(device))
        BY <4>1, ImagesAssumption, SameBound
      <4> QED BY <2>2, <3>2, <4>1, <4>2 DEF WritesInside
    <3> HIDE DEF a, d
    <3>4. /\ Bytes(a, Len(d)) \in Seq(Nat) /\ Len(Bytes(a, Len(d))) = Len(d)
          /\ \A i \in 1 .. Len(d) : Bytes(a, Len(d))[i] = Byte(a + i - 1)
      BY <3>2, BytesSeq DEF SiiForm
    <3>5. \A i \in 1 .. Len(d) : Byte(a + i - 1) = d[i]
      BY <3>1, <3>2, <3>3 DEF Byte
    <3> DEFINE b == Bytes(a, Len(d))
    <3>6. d \in Seq(Nat)
      <4>1. 0 .. 255 \subseteq Nat
        OBVIOUS
      <4> QED BY <3>2, <4>1, SeqMonotonic
    <3> HIDE DEF b
    <3>7. b \in Seq(Nat) /\ Len(b) = Len(d) /\ \A i \in 1 .. Len(b) : b[i] = d[i]
      BY <3>4, <3>5 DEF b
    <3>8. b = d
      BY <3>6, <3>7, SeqEqual
    <3> QED BY <2>2, <3>8 DEF a, d, b
  <2> QED BY <2>1, <2>2
<1> QED BY <1>1, SlicesInvariant, PTL
================================================================================
