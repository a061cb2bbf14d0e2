---------------------------- MODULE SocketsProofs ----------------------------
(* That the readiness of the ethernet socket never misses a frame, for any   *)
(* number of frames.                                                         *)
EXTENDS Sockets, TLAPS

(* FrameReachable, and why clearing the flag is safe: frames that come after *)
(* the read that found none come with an edge, and once it is seen the guard *)
(* is not fresh and does not clear.                                          *)
Reachable == edge \/ "read" \in ready \/ at = "failed"

ReachInv ==
  kind = "ethernet" =>
    /\ arrived # <<>> => Reachable
    /\ arrived # <<>> /\ at = "read" => edge \/ (fresh /\ "read" \in ready)

LEMMA ReachInit == Init => ReachInv
  BY DEF Init, ReachInv

LEMMA ReachKernel ==
  ASSUME ReachInv, Kernel \/ ArriveForeign PROVE ReachInv'
<1>1. CASE Transmit
  BY <1>1 DEF Transmit, ReachInv, Reachable, tokio, task
<1>2. CASE Arrive
  BY <1>2 DEF Arrive, ReachInv, Reachable, tokio, task
<1>3. CASE Event
  <2>1. arrived # <<>> => "read" \in Possible
    BY DEF Possible, Directions
  <2> QED
    BY <1>3, <2>1 DEF Event, ReachInv, Reachable, world
<1>4. CASE ArriveForeign
  BY <1>4 DEF ArriveForeign, ReachInv, Reachable, tokio, task
<1> QED BY <1>1, <1>2, <1>3, <1>4 DEF Kernel

LEMMA ReachReceiving ==
  ASSUME ReachInv, Receiving PROVE ReachInv'
<1>1. CASE PollReceive
  BY <1>1 DEF PollReceive, Take, Pending, ReachInv, Reachable, kernel, world
<1>2. CASE EthernetRead
  BY <1>2 DEF EthernetRead, Give, Retain, Pending, ReachInv, Reachable, world
<1>3. CASE EthernetReadNothing
  BY <1>3 DEF EthernetReadNothing, Clear, Pending, ReachInv, Reachable, kernel, world
<1>4. CASE UdpClear \/ UdpReceive \/ UdpReceiveNothing
  BY <1>4 DEF UdpClear, UdpReceive, UdpReceiveNothing, ReachInv
<1> QED BY <1>1, <1>2, <1>3, <1>4 DEF Receiving

LEMMA ReachSending ==
  ASSUME ReachInv, Sending PROVE ReachInv'
<1>1. CASE SendNothing
  BY <1>1 DEF SendNothing, Pending, ReachInv, Reachable, kernel, tokio, world
<1>2. CASE PollSend
  BY <1>2 DEF PollSend, Take, Pending, ReachInv, Reachable, kernel, world
<1>3. CASE UdpSendClear
  BY <1>3 DEF UdpSendClear, ReachInv
<1>4. CASE Write
  BY <1>4 DEF Write, ReachInv, Reachable, tokio
<1>5. CASE WriteFails
  BY <1>5 DEF WriteFails, FailLoop, Clear, ReachInv, Reachable, kernel, world
<1> QED BY <1>1, <1>2, <1>3, <1>4, <1>5 DEF Sending

LEMMA ReachNext == ReachInv /\ [Next]_vars => ReachInv'
<1> SUFFICES ASSUME ReachInv, [Next]_vars PROVE ReachInv'
  OBVIOUS
<1>1. CASE UNCHANGED vars
  BY <1>1 DEF vars, kernel, tokio, task, ReachInv, Reachable
<1>2. CASE Request \/ Tick
  BY <1>2 DEF Request, Tick, ReachInv, Reachable, kernel, tokio
<1>3. CASE Poll
  BY <1>3 DEF Poll, ReachInv, Reachable, kernel, tokio, world
<1>4. CASE PollTimeout
  BY <1>4 DEF PollTimeout, Pending, ReachInv, Reachable, kernel, tokio, world
<1> QED
  BY <1>1, <1>2, <1>3, <1>4, ReachKernel, ReachReceiving, ReachSending DEF Next, Running

(* The flags and the pending edge always tell the frames that have arrived,  *)
(* whatever comes between the read and the clearing of the flag              *)
(* (ethernet.rs:130).                                                        *)
THEOREM FramesReachable == Spec => []FrameReachable
<1>1. ReachInv => FrameReachable
  BY DEF ReachInv, Reachable, FrameReachable
<1> QED BY ReachInit, ReachNext, <1>1, PTL DEF Spec

-----------------------------------------------------------------------------
LEMMA TypeKernel ==
  ASSUME TypeOK, Kernel \/ ArriveForeign \/ Request \/ Tick PROVE TypeOK'
<1> USE ConstantsAssumption DEF TypeOK, Directions, Loops, Frames, Places
<1>1. CASE Transmit
  BY <1>1 DEF Transmit, tokio, task
<1>2. CASE Arrive
  BY <1>2 DEF Arrive, tokio, task
<1>3. CASE Event
  BY <1>3 DEF Event, world, Possible
<1>4. CASE ArriveForeign
  BY <1>4 DEF ArriveForeign, tokio, task
<1>5. CASE Request
  BY <1>5 DEF Request, kernel, tokio
<1>6. CASE Tick
  BY <1>6 DEF Tick, kernel, tokio, world
<1> QED BY <1>1, <1>2, <1>3, <1>4, <1>5, <1>6 DEF Kernel

LEMMA TypeReceiving ==
  ASSUME TypeOK, Receiving PROVE TypeOK'
<1> USE ConstantsAssumption DEF TypeOK, Directions, Loops, Frames, Places
<1>1. CASE PollReceive
  BY <1>1 DEF PollReceive, Take, Pending, kernel, world
<1>2. CASE EthernetRead
  <2>1. arrived # <<>> => Head(arrived) \in Frames /\ Tail(arrived) \in Seq(Frames)
    OBVIOUS
  <2>2. CASE arrived = <<>>
    BY <1>2, <2>2 DEF EthernetRead, world
  <2>3. CASE arrived # <<>> /\ Accepts(Head(arrived))
    <3>1. received' \in Seq(Frames)
      BY <1>2, <2>1, <2>3 DEF EthernetRead, Give
    <3> QED BY <1>2, <2>1, <2>3, <3>1 DEF EthernetRead, Give, world
  <2>4. CASE arrived # <<>> /\ ~Accepts(Head(arrived))
    BY <1>2, <2>1, <2>4 DEF EthernetRead, Retain, Pending, world
  <2> QED BY <2>2, <2>3, <2>4
<1>3. CASE EthernetReadNothing
  BY <1>3 DEF EthernetReadNothing, Clear, Pending, kernel, world
<1>4. CASE UdpClear
  BY <1>4 DEF UdpClear, Clear, kernel, world
<1>5. CASE UdpReceive
  BY <1>5 DEF UdpReceive, Give, tokio, world
<1>6. CASE UdpReceiveNothing
  BY <1>6 DEF UdpReceiveNothing, FailLoop, kernel, tokio, world
<1> HIDE DEF TypeOK
<1> QED BY <1>1, <1>2, <1>3, <1>4, <1>5, <1>6 DEF Receiving

LEMMA TypeSending ==
  ASSUME TypeOK, Sending PROVE TypeOK'
<1> USE ConstantsAssumption DEF TypeOK, Directions, Loops, Frames, Places
<1>1. CASE SendNothing
  BY <1>1 DEF SendNothing, Pending, kernel, tokio, world
<1>2. CASE PollSend
  BY <1>2 DEF PollSend, Take, Pending, kernel, world
<1>3. CASE UdpSendClear
  BY <1>3 DEF UdpSendClear, Clear, kernel, world
<1>4. CASE Write
  <2>1. outgoing' \in 0..Capacity
    BY <1>4 DEF Write
  <2> QED BY <1>4, <2>1 DEF Write, tokio
<1>5. CASE WriteFails
  BY <1>5 DEF WriteFails, FailLoop, Clear, kernel, world
<1> HIDE DEF TypeOK
<1> QED BY <1>1, <1>2, <1>3, <1>4, <1>5 DEF Sending

(* Queues hold frames, the kernel never queues more than it accepts, and the *)
(* loops being polled are some of the three.                                 *)
THEOREM TypeCorrect == Spec => []TypeOK
<1>1. Init => TypeOK
  <2> SUFFICES ASSUME Init PROVE TypeOK
    OBVIOUS
  <2>1. arrived \in Seq(Frames) /\ received \in Seq(Frames)
    BY DEF Init
  <2>2. /\ outgoing \in 0..Capacity /\ requests \in 0..MaxRequests
        /\ travelling \in Nat /\ foreign \in 0..MaxForeign
    BY ConstantsAssumption DEF Init
  <2> QED BY <2>1, <2>2 DEF Init, TypeOK, Places
<1>2. TypeOK /\ [Next]_vars => TypeOK'
  <2> SUFFICES ASSUME TypeOK, [Next]_vars PROVE TypeOK'
    OBVIOUS
  <2> USE ConstantsAssumption DEF TypeOK, Directions, Loops, Frames, Places
  <2>1. CASE UNCHANGED vars
    BY <2>1 DEF vars, kernel, tokio, task, world
  <2>2. CASE Poll
    BY <2>2 DEF Poll, kernel, tokio, world
  <2>3. CASE PollTimeout
    BY <2>3 DEF PollTimeout, Pending, kernel, tokio, world
  <2> QED
    BY <2>1, <2>2, <2>3, TypeKernel, TypeReceiving, TypeSending DEF Next, Running
<1> QED BY <1>1, <1>2, PTL DEF Spec
=============================================================================
