---------------------------- MODULE MappingFields ----------------------------
(* A mapping with the bytes of its fields. *)
EXTENDS Mapping, Fields

(* FieldsExact of Fields: a field reads what was written to it and leaves    *)
(* the bits of other fields alone, in buffers that start with initial values *)
(* and behind cursors. It is about data of any content, so it is evaluated   *)
(* once, in the initial state.                                               *)
FieldsIndependent == Init => FieldsExact
=============================================================================
