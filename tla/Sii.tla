---------------------------------- MODULE Sii ----------------------------------
(* Sii and SiiCursor (sii.rs): access to the EEPROM of a slave through its       *)
(* registers. `&mut self` and the mutex of Slave::sii make calls one at a time,  *)
(* but a call may fail, panic, or be dropped anywhere, with the slave still at   *)
(* work on it. A step is an await: one PDU and what follows its answer. A poll   *)
(* that is lost, or finds the slave busy, is repeated: it is a stuttering step.  *)
(* The slave (owner, commands, registers) is external.                          *)
EXTENDS Naturals, SequencesExt

CONSTANTS
    Devices,         \* the slaves: [categories, fill, unit, chunk]
    Requests,        \* the calls users make
    ByteMask,        \* addresses of a slave whose unit is the byte (0xff)
    Top,             \* largest u16
    Registers,       \* address of the categories (eeprom::categories)
    GeneralSize,     \* bytes of General
    OverflowChecks,  \* whether the build panics on overflows
    MaxFailures      \* bound on calls dropped, and PDUs (but polls) not answered

ASSUME ConstantsAssumption ==
    /\ {Top, GeneralSize, MaxFailures} \subseteq Nat /\ ByteMask \in 0 .. Top
    /\ Registers \in Nat /\ Registers % 2 = 0
    /\ OverflowChecks \in BOOLEAN
    /\ \A d \in Devices : d.fill \in 0 .. 255 /\ d.unit \in {"Byte", "Word"} /\ d.chunk \in {4, 8}

(* Addresses are u16.                                                            *)
ASSUME RequestsAssumption ==
    \A r \in Requests :
        /\ r.kind \in {"new", "acquire", "release", "reload", "read", "write", "strings", "generals"}
        /\ r.kind = "read" => r.address \in 0 .. Top /\ r.length \in Nat
        /\ r.kind = "write" => r.address \in 0 .. Top /\ r.data \in Seq(0 .. 255)

VARIABLES
    device,     \* the slave connected
    rom,        \* bytes of its EEPROM, rom[i] is at address i - 1
    owner,      \* who may give commands: "DL" (the master) or "Pdi"
    op,         \* command in progress, or NoOp: [kind, address, data], and of which
                \* request it is part, how the call that gave it ended (history)
    error,      \* flag of the status register
    data,       \* data register
    locked,     \* Sii::locked
    call,       \* the call in progress
    request,    \* the last call made
    outcome,    \* history: how the last call that ended did
    refusal,    \* history: why the slave last refused a command
    unsure,     \* history: the last write of `access` was not answered
    failures    \* count of PDUs not answered and calls dropped

slave == <<rom, owner, op, error, data, refusal>>
vars == <<device, slave, locked, call, request, outcome, unsure, failures>>

--------------------------------------------------------------------------------
(* Content of an EEPROM: registers, then categories.                             *)

WORD == 2
Types == [Strings |-> 10, General |-> 30, End |-> 65535, Fmmu |-> 40]

Word(bytes, i) == bytes[i] + 256 * bytes[i + 1]
Little(n) == <<n % 256, n \div 256>>
EvenLength(bytes) == IF Len(bytes) % 2 = 0 THEN bytes ELSE Append(bytes, 0)

(* A string in its category: its length in bytes, then its bytes.                *)
Counted(bytes) == <<Len(bytes)>> \o bytes
(* What follows the header of a category.                                        *)
Body(category) ==
    IF category.ty = "Strings"
    THEN EvenLength(<<Len(category.strings)>>
                    \o FlattenSeq([i \in DOMAIN category.strings |-> Counted(category.strings[i])]))
    ELSE category.bytes
Encoded(category) ==
    Little(Types[category.ty]) \o Little(Len(Body(category)) \div WORD) \o Body(category)
Image(d) ==
    [i \in 1 .. Registers |-> 100 + i]
    \o FlattenSeq([i \in DOMAIN d.categories |-> Encoded(d.categories[i])])

ASSUME ImagesAssumption == \A d \in Devices : Image(d) \in Seq(0 .. 255)

(* The byte at an address, and n of them; nothing is stored after the content.   *)
Byte(address) == IF address < Len(rom) THEN rom[address + 1] ELSE device.fill
Bytes(address, n) == [i \in 1 .. n |-> Byte(address + i - 1)]

--------------------------------------------------------------------------------
(* The slave: takes a command written in its registers unless it is busy or the  *)
(* master does not own the EEPROM, and works on it for a while.                  *)

NoRequest == [kind |-> "none"]
NoOp == [kind |-> "none", address |-> 0, data |-> <<>>, of |-> NoRequest, end |-> "none"]
Pending == [result |-> "none", value |-> <<>>]
NoRefusal == [why |-> "none", end |-> "none"]

TakeCommand(command) ==
    /\ \/ owner = "DL" /\ op = NoOp
          /\ op' = command /\ error' = "none" /\ UNCHANGED refusal
       \/ owner # "DL"
          /\ error' = "command" /\ refusal' = [why |-> "owner", end |-> "none"] /\ UNCHANGED op
       \/ owner = "DL" /\ op # NoOp
          /\ error' = "command" /\ refusal' = [why |-> "busy", end |-> op.end] /\ UNCHANGED op
    /\ UNCHANGED <<rom, owner, data>>

Fails(kinds) == error' \in {error} \cup (IF error = "none" THEN kinds ELSE {})
Execute ==
    /\ \/ op.kind = "read"
          /\ data' = Bytes(WORD * op.address, device.chunk)
          /\ Fails({"device"}) /\ UNCHANGED rom
       \/ op.kind = "write"
          /\ \/ rom' = [rom EXCEPT ![WORD * op.address + 1] = op.data[1],
                                   ![WORD * op.address + 2] = op.data[2]]
                /\ UNCHANGED error
             \/ error = "none" /\ error' = "write" /\ UNCHANGED rom
          /\ UNCHANGED data
       \/ op.kind = "reload" /\ Fails({"checksum", "device"}) /\ UNCHANGED <<rom, data>>
    /\ op' = NoOp
    /\ UNCHANGED <<owner, refusal, device, locked, call, request, outcome, unsure, failures>>

--------------------------------------------------------------------------------
(* Calls. `address` is where the slice read or written starts, the position of   *)
(* the cursor of a walk; `got` is what was read, or written, of the slice.       *)

NoCall == [phase |-> "idle", stage |-> "none", address |-> 0, length |-> 0,
           got |-> <<>>, found |-> <<>>, left |-> 0]
Ok(value) == [result |-> "ok", value |-> value]
Error(result) == [result |-> result, value |-> <<>>]

Go(c) == call' = c /\ outcome' = Pending
End(result) == call' = NoCall /\ outcome' = result

Failing == failures < MaxFailures /\ failures' = failures + 1
Overflow(n) == OverflowChecks /\ n > Top
Wrapped(n) == n % (Top + 1)

Mask == IF device.unit = "Byte" THEN ByteMask ELSE Top

(* read_slice is entered.                                                        *)
ReadSlice(c, stage, address, length) ==
    IF address > Mask THEN End(Error("range"))
    ELSE Go([c EXCEPT !.phase = IF length = 0 THEN "done" ELSE "command",
                      !.stage = stage, !.address = address, !.length = length, !.got = <<>>])
(* variant: the cursor is not moved by what it reads                             *)
ReadStaying(c, stage, skipped, length) ==
    IF Overflow(c.address + skipped) THEN End(Error("panic"))
    ELSE ReadSlice(c, stage, Wrapped(c.address + skipped), length)
(* A walk goes on reading at the next position of the cursor.                    *)
ReadNext(c, stage, skipped, length) ==
    LET next == c.address + c.length IN
    IF Overflow(skipped) \/ Overflow(next) \/ Overflow(Wrapped(next) + skipped) THEN End(Error("panic"))
    ELSE ReadSlice(c, stage, Wrapped(next + skipped), length)

Begin(r) ==
    /\ call.phase = "idle"
    /\ request' = r
    /\ op' = IF op.end = "running" THEN [op EXCEPT !.end = outcome.result] ELSE op
    /\ CASE r.kind = "new" -> Go([NoCall EXCEPT !.phase = "new"]) /\ UNCHANGED locked
         [] r.kind = "acquire" ->
                IF locked THEN End(Ok(<<>>)) /\ UNCHANGED locked
                ELSE Go([NoCall EXCEPT !.phase = "access"]) /\ locked' = TRUE
         [] r.kind = "release" ->
                IF ~locked THEN End(Ok(<<>>)) /\ UNCHANGED locked
                ELSE Go([NoCall EXCEPT !.phase = "access"]) /\ locked' = FALSE
         [] r.kind = "read" ->
                ReadSlice(NoCall, "slice", r.address, r.length) /\ UNCHANGED locked
         [] r.kind = "write" ->
                /\ IF r.address % WORD # 0 THEN End(Error("unaligned"))
                   ELSE Go([NoCall EXCEPT !.phase = "command", !.address = r.address,
                                          !.length = Len(r.data)])
                /\ UNCHANGED locked
         [] r.kind = "reload" -> Go([NoCall EXCEPT !.phase = "command"]) /\ UNCHANGED locked
         [] OTHER -> ReadSlice(NoCall, "category", Registers, 4) /\ UNCHANGED locked
    /\ refusal' = NoRefusal
    /\ UNCHANGED <<device, rom, owner, error, data, unsure, failures>>

(* Sii::new: a fresh instance believes it has not the EEPROM.                    *)
New ==
    /\ call.phase = "new"
    /\ \/ /\ IF error = "checksum" THEN End(Error("checksum")) /\ UNCHANGED locked
             ELSE End(Ok(<<>>)) /\ locked' = FALSE
          /\ UNCHANGED failures
       \/ Failing /\ End(Error("frame")) /\ UNCHANGED locked
    /\ UNCHANGED <<device, slave, request, unsure>>

(* acquire and release, the flag being already changed.                          *)
NewOwner == IF request.kind = "acquire" THEN "DL" ELSE "Pdi"
Access ==
    /\ call.phase = "access"
    /\ \/ owner' = NewOwner /\ unsure' = FALSE /\ End(Ok(<<>>)) /\ UNCHANGED failures
       \/ owner' \in {owner, NewOwner} /\ unsure' = TRUE /\ Failing /\ End(Error("frame"))
    /\ UNCHANGED <<device, rom, op, error, data, refusal, locked, request>>

--------------------------------------------------------------------------------
(* One command after the other.                                                  *)

Kind == IF request.kind \in {"write", "reload"} THEN request.kind ELSE "read"
Position == call.address + Len(call.got)
(* variant: the address is taken after the data of a write is unpacked           *)
LateWord == Wrapped(IF Kind = "write" THEN Position + WORD ELSE Position) \div WORD
CommandWord == Wrapped(Position) \div WORD
Pair == SubSeq(request.data, Len(call.got) + 1, Len(call.got) + 2)
Command == [kind |-> Kind, address |-> CommandWord, data |-> IF Kind = "write" THEN Pair ELSE <<>>,
            of |-> request, end |-> "running"]
(* Nothing left to write; the last byte of an odd length cannot be unpacked.     *)
Written == Kind = "write" /\ Len(call.got) >= call.length
CannotSend == Overflow(Position) \/ (Kind = "write" /\ Len(call.got) + 1 = call.length)

SendCommand ==
    /\ call.phase = "command"
    /\ \/ Written /\ End(Ok(<<>>)) /\ UNCHANGED <<slave, failures>>
       \/ ~Written /\ CannotSend /\ End(Error("panic")) /\ UNCHANGED <<slave, failures>>
       \/ ~Written /\ ~CannotSend /\ TakeCommand(Command)
          /\ Go([call EXCEPT !.phase = "poll"]) /\ UNCHANGED failures
       \/ ~Written /\ ~CannotSend /\ (TakeCommand(Command) \/ UNCHANGED slave)
          /\ Failing /\ End(Error("frame"))
    /\ UNCHANGED <<device, locked, request, unsure>>

(* variant: the status is read once                                              *)
AtOnce == TRUE
(* Neither busy nor the bit of the operation set.                                *)
Settled == op = NoOp
Errors(kind) == {"command"} \cup (CASE kind = "read" -> {"device"} [] kind = "write" -> {"write"}
                                    [] OTHER -> {"checksum", "device"})
Poll ==
    /\ call.phase = "poll" /\ Settled
    /\ \/ error \in Errors(Kind) /\ End(Error(error))
       \/ error \notin Errors(Kind) /\ Kind = "read" /\ Go([call EXCEPT !.phase = "data"])
       \/ error \notin Errors(Kind) /\ Kind = "write"
          /\ Go([call EXCEPT !.phase = "command", !.got = @ \o Pair])
       \/ error \notin Errors(Kind) /\ Kind = "reload" /\ End(Ok(<<>>))
    /\ UNCHANGED <<device, slave, locked, request, unsure, failures>>

(* The first chunk of an odd address starts with a byte nobody asked for, the    *)
(* last one may hold more than what remains.                                     *)
(* variant (of Start): `start` is not reset                                      *)
AlwaysOdd == call.address % WORD
Start == IF call.got = <<>> THEN call.address % WORD ELSE 0
Smallest(m, n) == IF m < n THEN m ELSE n
Chunk == SubSeq(data, Start + 1, Smallest(device.chunk, Start + call.length - Len(call.got)))
ReadData ==
    /\ call.phase = "data"
    /\ \/ LET got == call.got \o Chunk IN
          Go([call EXCEPT !.got = got, !.phase = IF Len(got) = call.length THEN "done" ELSE "command"])
          /\ UNCHANGED failures
       \/ Failing /\ End(Error("frame"))
    /\ UNCHANGED <<device, slave, locked, request, unsure>>

--------------------------------------------------------------------------------
(* What is done with a slice that is read.                                       *)

Done(stage) ==
    /\ call.phase = "done" /\ call.stage = stage
    /\ UNCHANGED <<device, slave, locked, request, unsure, failures>>

SliceRead == (Done("slice") \/ Done("general")) /\ End(Ok(call.got))

Sought == IF request.kind = "strings" THEN "Strings" ELSE "General"
CategoryRead ==
    LET ty == Word(call.got, 1)
        size == Word(call.got, 3)
    IN /\ Done("category")
       /\ \/ ty = Types[Sought] /\ Sought = "Strings" /\ ReadNext(call, "count", 0, 1)
          \/ ty = Types[Sought] /\ Sought = "General" /\ ReadNext(call, "general", 0, GeneralSize)
          \/ ty = Types.End /\ (IF Overflow(call.address + 4) THEN End(Error("panic")) ELSE End(Error("missing")))
          \/ ty \notin {Types[Sought], Types.End} /\ ReadNext(call, "category", WORD * size, 4)

(* The next string, or the end.                                                  *)
NextString(c) ==
    IF c.left = 0
    THEN IF Overflow(c.address + c.length) THEN End(Error("panic")) ELSE End(Ok(c.found))
    ELSE ReadNext(c, "length", 0, 1)
CountRead == Done("count") /\ NextString([call EXCEPT !.left = call.got[1]])
LengthRead == Done("length") /\ ReadNext(call, "string", 0, call.got[1])
Utf8(bytes) == \A i \in DOMAIN bytes : bytes[i] < 128
StringRead ==
    /\ Done("string")
    /\ IF Utf8(call.got)
       THEN NextString([call EXCEPT !.found = Append(@, call.got), !.left = @ - 1])
       ELSE End(Error(IF Overflow(call.address + call.length) THEN "panic" ELSE "utf8"))

(* The future of a call is dropped at an await; its PDU may be executed.         *)
Drop ==
    /\ call.phase \in {"new", "access", "command", "poll", "data"}
    /\ Failing /\ End(Error("dropped"))
    /\ \/ call.phase = "access" /\ owner' \in {owner, NewOwner} /\ unsure' = TRUE
          /\ UNCHANGED <<rom, op, error, data, refusal>>
       \/ call.phase = "command" /\ ~Written /\ ~CannotSend
          /\ (TakeCommand(Command) \/ UNCHANGED slave) /\ UNCHANGED unsure
       \/ call.phase \in {"new", "poll", "data"} /\ UNCHANGED <<slave, unsure>>
    /\ UNCHANGED <<device, locked, request>>

--------------------------------------------------------------------------------
Init ==
    /\ device \in Devices /\ rom = Image(device)
    /\ owner \in {"DL", "Pdi"} /\ op = NoOp /\ error = "none"
    /\ data = [i \in 1 .. device.chunk |-> 0]
    /\ locked = FALSE /\ call = NoCall
    /\ request = NoRequest /\ outcome = Pending /\ refusal = NoRefusal /\ unsure = FALSE /\ failures = 0

Walk == CategoryRead \/ CountRead \/ LengthRead \/ StringRead
Step == New \/ Access \/ SendCommand \/ Poll \/ ReadData \/ SliceRead \/ Walk
Next == (\E r \in Requests : Begin(r)) \/ Step \/ Drop \/ Execute

Spec == Init /\ [][Next]_vars
(* The future is polled, polls are answered, the slave ends what it takes.       *)
FairSpec == Spec /\ WF_vars(Step) /\ WF_vars(Execute)

TypeOK ==
    /\ device \in Devices /\ owner \in {"DL", "Pdi"} /\ locked \in BOOLEAN /\ unsure \in BOOLEAN
    /\ op.kind \in {"none", "read", "write", "reload"}
    /\ error \in {"none", "command", "write", "device", "checksum"}
    /\ call.phase \in {"idle", "new", "access", "command", "poll", "data", "done"}
    /\ request \in Requests \cup {NoRequest}
    /\ call.address \in 0 .. Top /\ failures \in 0 .. MaxFailures
--------------------------------------------------------------------------------
(* The categories of a device named `ty`, in order.                              *)
Named(ty) == SelectSeq(device.categories, LAMBDA c : c.ty = ty)
Correct ==
    CASE request.kind = "read" ->
            outcome.result = "ok" => outcome.value = Bytes(request.address, request.length)
      [] request.kind = "write" ->
            outcome.result = "ok" => Bytes(request.address, Len(request.data)) = request.data
      [] request.kind = "strings" ->
            /\ outcome.result = "ok" => Named("Strings") # <<>> /\ outcome.value = Named("Strings")[1].strings
            /\ outcome.result = "missing" => Named("Strings") = <<>>
      [] request.kind = "generals" ->
            /\ outcome.result = "ok" => Named("General") # <<>> /\ outcome.value = Named("General")[1].bytes
            /\ outcome.result = "missing" => Named("General") = <<>>
      [] OTHER -> TRUE

(* What a call reports is so: a read returned the bytes at its address, whatever *)
(* its parity, its length and the size of chunks; a successful write is stored   *)
(* whole; the walk over the categories finds what is there and nothing else -    *)
(* also right after calls that failed or were dropped in the middle.             *)
OutcomesExact ==
    call.phase = "idle" => Correct

(* A write reaches the EEPROM as a prefix of its data, in order: a word changes  *)
(* to what a write asked for at this place, the words before it being stored;    *)
(* so a write that fails, or is dropped, leaves a prefix and nothing else.       *)
WritePrefix ==
    [][rom' # rom =>
         LET w == op.of
             n == WORD * op.address - w.address
         IN /\ w.kind = "write" /\ n \in 0 .. Len(w.data) - 1
            /\ SubSeq(rom', w.address + 1, w.address + n + 2) = SubSeq(w.data, 1, n + 2)
            /\ \A i \in DOMAIN rom : rom'[i] # rom[i] => i - w.address \in n + 1 .. n + 2]_vars

(* A caller that acquired the EEPROM is refused a command only when the answer   *)
(* to the last change of owner was missing (the flag is set before the write:    *)
(* acquire then does nothing), or when the slave is still at work for a call     *)
(* that failed or was dropped.                                                   *)
RefusedForCause ==
    call.phase = "idle" /\ outcome.result = "command" =>
        \/ refusal.why = "owner" /\ (~locked \/ unsure)
        \/ refusal.why = "busy" /\ refusal.end \in {"frame", "dropped"}

(* Each call ends, walks over an EEPROM without end mark included, if the slave  *)
(* answers polls.                                                                *)
CallsEnd == [](call.phase # "idle" => <>(call.phase = "idle"))
================================================================================
