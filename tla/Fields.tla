------------------------------- MODULE Fields -------------------------------
(***************************************************************************)
(* Where values are in bytes: PduData, ByteField, BitField and Cursor      *)
(* (src/src/data.rs), the buffers of a group, which start with the initial *)
(* values of its mapping (src/src/mapping.rs), and the padding of ethernet *)
(* frames (src/src/socket/ethernet.rs).                                    *)
(*                                                                         *)
(* A value is the bytes of its packed form, of a type [kind, size]: what   *)
(* kinds differ in is the slices they can be packed to and unpacked from.  *)
(***************************************************************************)
EXTENDS Integers, Sequences

CONSTANTS
  BitBuffer,  (* bytes of the intermediate buffer of a BitField (16)         *)
  Header,     (* bytes of the header of an ethernet frame (14)               *)
  MinFrame,   (* bytes of the shortest ethernet frame (60)                   *)
  DataSize,   (* BOUND: bytes of the data holding fields                     *)
  SomeBytes,  (* BOUND: bytes of data and values                             *)
  SomeTypes   (* BOUND: types of fields                                      *)

ASSUME FieldsAssumption ==
  /\ {BitBuffer, Header, MinFrame} \subseteq Nat /\ DataSize \in Nat /\ SomeBytes \subseteq 0..255
  /\ SomeTypes \subseteq [kind : {"number", "array", "struct"}, size : Nat] \cup [kind : {"bool"}, size : {1}]

Zeros(n) == [i \in 1..n |-> 0]
Tuples(n) == [1..n -> SomeBytes]

-----------------------------------------------------------------------------
(* PduData *)

(* Numbers and arrays want a slice of their size; structs (`bilge` or packed)*)
(* and booleans take the beginning of a longer one.                          *)
PacksTo(type, len) == IF type.kind \in {"number", "array"} THEN len = type.size ELSE len >= type.size
UnpacksFrom(type, len) == IF type.kind = "number" THEN len = type.size ELSE len >= type.size

Values(type) == IF type.kind = "bool" THEN {<<0>>, <<1>>} ELSE Tuples(type.size)
Pack(type, value, dst) == value \o SubSeq(dst, type.size + 1, Len(dst))
Unpack(type, src) ==
  IF type.kind = "bool" THEN <<src[1] % 2>> ELSE [i \in 1..type.size |-> src[i]]

-----------------------------------------------------------------------------
(* ByteField *)

ByteGet(field, type, data) == Unpack(type, SubSeq(data, field.byte + 1, field.byte + field.len))
ByteSet(field, type, data, value) ==
  LET end == field.byte + field.len IN
  SubSeq(data, 1, field.byte)
  \o Pack(type, value, SubSeq(data, field.byte + 1, end))
  \o SubSeq(data, end + 1, Len(data))

-----------------------------------------------------------------------------
(* BitField *)

Bit(data, i) == (data[i \div 8 + 1] \div 2 ^ (i % 8)) % 2
Cleared(data, i) == [data EXCEPT ![i \div 8 + 1] = @ - Bit(data, i) * 2 ^ (i % 8)]
With(data, i, bit) == IF bit = 1 /\ Bit(data, i) = 0
                      THEN [data EXCEPT ![i \div 8 + 1] = @ + 2 ^ (i % 8)] ELSE data

BitGet(field, type, data) ==
  LET got[k \in 0..field.len] ==
        IF k = 0 THEN Zeros(BitBuffer) ELSE With(got[k - 1], k - 1, Bit(data, field.bit + k - 1))
  IN Unpack(type, got[field.len])

(* variant: bits of data are not cleared before they are written             *)
OrBit(data, i, bit) == With(data, i, bit)
SetBit(data, i, bit) == With(Cleared(data, i), i, bit)
BitSet(field, type, data, value) ==
  LET buf == Pack(type, value, Zeros(BitBuffer))
      set[k \in 0..field.len] ==
        IF k = 0 THEN data ELSE SetBit(set[k - 1], field.bit + k - 1, Bit(buf, k - 1))
  IN set[field.len]

-----------------------------------------------------------------------------
(* Cursor *)

CursorOn(data) == [position |-> 0, data |-> data]
(* The bytes the next `size` ones are.                                       *)
Coming(cursor, size) == [byte |-> cursor.position, len |-> size]
CursorPack(cursor, type, value) ==
  [position |-> cursor.position + type.size,
   data |-> ByteSet(Coming(cursor, type.size), type, cursor.data, value)]
CursorUnpack(cursor, type) ==
  [value  |-> ByteGet(Coming(cursor, type.size), type, cursor.data),
   cursor |-> [cursor EXCEPT !.position = @ + type.size]]
Finish(cursor) == SubSeq(cursor.data, 1, cursor.position)
Remain(cursor) == SubSeq(cursor.data, cursor.position + 1, Len(cursor.data))

-----------------------------------------------------------------------------
(* Ethernet frames *)

FrameSize(data) == IF Header + Len(data) > MinFrame THEN Header + Len(data) ELSE MinFrame
FramePack(header, data) ==
  header \o data \o Zeros(FrameSize(data) - Header - Len(data))
(* What the socket hands over of a frame: the padding is with the data.      *)
FrameUnpack(src) == SubSeq(src, Header + 1, Len(src))

-----------------------------------------------------------------------------
(* Initial values *)

(* MappingSlave::default: the buffer grows up to the end of the field.       *)
Default(default, field, type, value) ==
  LET end == field.byte + field.len
      grown == default \o Zeros(IF end > Len(default) THEN end - Len(default) ELSE 0)
  IN ByteSet(field, type, grown, value)
(* The buffers of a new group.                                               *)
GroupBuffer(default, size) == default \o Zeros(size - Len(default))

-----------------------------------------------------------------------------
(* Properties *)

BitsOf(n) == 0..(8 * n - 1)
Covers(field, i) == i \in field.bit..(field.bit + field.len - 1)
BitFields == {f \in [bit : BitsOf(DataSize), len : 0..(8 * DataSize)] :
                f.bit + f.len <= 8 * DataSize /\ f.len < 8 * BitBuffer}
ByteFields == {f \in [byte : 0..(DataSize - 1), len : 0..DataSize] : f.byte + f.len <= DataSize}

(* Setting a field of bits writes the bits of the value to its bits and no   *)
(* other, whatever was there; getting it gives back as many bits of it.      *)
BitFieldsExact ==
  \A type \in {t \in SomeTypes : PacksTo(t, BitBuffer) /\ UnpacksFrom(t, BitBuffer)} :
  \A field \in BitFields, data \in Tuples(DataSize), value \in Values(type) :
    LET after == BitSet(field, type, data, value)
        whole == Pack(type, value, Zeros(BitBuffer))
        again == BitGet(field, type, after)
    IN /\ \A i \in BitsOf(DataSize) :
            Bit(after, i) = IF Covers(field, i) THEN Bit(whole, i - field.bit) ELSE Bit(data, i)
       /\ \A i \in BitsOf(type.size) :
            Bit(again, i) = IF i < field.len THEN Bit(value, i) ELSE 0

ByteFieldsExact ==
  \A type \in SomeTypes :
  \A field \in {f \in ByteFields : PacksTo(type, f.len) /\ UnpacksFrom(type, f.len)} :
  \A data \in Tuples(DataSize), value \in Values(type) :
    LET after == ByteSet(field, type, data, value)
    IN /\ Len(after) = DataSize /\ ByteGet(field, type, after) = value
       /\ \A i \in 1..DataSize : i \notin (field.byte + 1)..(field.byte + field.len) => after[i] = data[i]

(* The buffers of a group hold the initial values of its mapping, in whatever*)
(* order fields apart from each other were given one, and zeros elsewhere.   *)
Apart(f, g) == f.byte + f.len <= g.byte \/ g.byte + g.len <= f.byte
InitialsExact ==
  \A type \in SomeTypes :
  \A f, g \in {f \in ByteFields : f.len = type.size} : Apart(f, g) =>
  \A u, v \in Values(type) :
    LET buffer == GroupBuffer(Default(Default(<<>>, f, type, u), g, type, v), DataSize)
    IN /\ Len(buffer) = DataSize
       /\ ByteGet(f, type, buffer) = u /\ ByteGet(g, type, buffer) = v
       /\ \A i \in 1..DataSize :
            (\A h \in {f, g} : i \notin (h.byte + 1)..(h.byte + h.len)) => buffer[i] = 0

(* Values packed one after the other are unpacked the same, in their order,  *)
(* from the bytes before the cursor, also behind the header of an ethernet   *)
(* frame with its padding: nothing of them depends on what follows.          *)
CursorExact ==
  \A s, t \in SomeTypes : s.size + t.size <= DataSize =>
  \A u \in Values(s), v \in Values(t), data \in Tuples(DataSize) :
    LET packed == CursorPack(CursorPack(CursorOn(data), s, u), t, v)
        frame  == FramePack(Zeros(Header), Finish(packed))
        first  == CursorUnpack(CursorOn(FrameUnpack(frame)), s)
        second == CursorUnpack(first.cursor, t)
    IN /\ first.value = u /\ second.value = v
       /\ Finish(second.cursor) = Finish(packed)
       /\ Remain(packed) = SubSeq(data, s.size + t.size + 1, DataSize)
       /\ Len(frame) >= MinFrame

FieldsExact == BitFieldsExact /\ ByteFieldsExact /\ InitialsExact /\ CursorExact
=============================================================================
