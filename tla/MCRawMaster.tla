----------------------------- MODULE MCRawMaster -----------------------------
(* Instances of RawMaster for TLC.                                           *)
EXTENDS RawMaster

CONSTANTS a, b, c

(* One PDU per user; or two for b, a group which may have both in flight.    *)
OneEach == [u \in Users |-> 1]
TwoForB == [u \in Users |-> IF u = b THEN 2 ELSE 1]

(* PDUs of one size, two of which fill a frame.                              *)
SameSize == [u \in Users |-> 2]
TwoPdus  == 2 + 2 * (PduOverhead + 2) + 1

(* The PDU of c takes a frame of its own.                                    *)
MixedSize == [u \in Users |-> IF u = c THEN 16 ELSE 2]

(* The PDU of c is longer, and still shares a frame with another one.        *)
SmallSize == [u \in Users |-> IF u = c THEN 3 ELSE 2]
SharedFrame == TwoPdus + 1

(* The PDU of b does not fit any frame.                                      *)
Oversize == [u \in Users |-> IF u = b THEN TwoPdus ELSE 2]
=============================================================================
