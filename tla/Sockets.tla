------------------------------- MODULE Sockets -------------------------------
(***************************************************************************)
(* The sockets of the master (src/src/socket/ethernet.rs, udp.rs), under   *)
(* the task that races its three loops (RawMaster::task_loop).             *)
(*                                                                         *)
(* Outside of src/, and modelled as these functions use it:                *)
(*  - the kernel queues frames in both directions, and raises an edge when *)
(*    one arrives and when one has left (epoll, edge-triggered);           *)
(*  - tokio's driver turns an edge into readiness flags, for what is       *)
(*    possible when it sees the edge, and wakes the wakers registered by   *)
(*    polls that found no readiness.  A guard clears a flag unless an      *)
(*    event came since the guard was taken;                                *)
(*  - Race polls every future each time its task is woken.                 *)
(*                                                                         *)
(* A step is a system call or an access to the flags.                      *)
(***************************************************************************)
EXTENDS Integers, Sequences

CONSTANTS
  Kinds,       (* sockets in use: "ethernet", "udp"                          *)
  Capacity,    (* frames that the kernel accepts to queue for sending        *)
  MaxRequests, (* BOUND: frames the users have to send                       *)
  MaxForeign   (* BOUND: frames of another host                              *)

ASSUME ConstantsAssumption ==
  /\ Kinds \subseteq {"ethernet", "udp"}
  /\ Capacity \in Nat \ {0} /\ MaxRequests \in Nat /\ MaxForeign \in Nat

VARIABLES
  kind,        (* the socket of the master                                   *)
  arrived,     (* kernel: frames to be read                                  *)
  outgoing,    (* kernel: number of frames that have to leave                *)
  edge,        (* kernel: an event the driver has not seen                   *)
  ready,       (* tokio: readiness flags, for "read" and "write"             *)
  waker,       (* tokio: directions whose waker is registered                *)
  woken,       (* the task has to be polled                                  *)
  polls,       (* the loops that Race has to poll before it returns          *)
  at,          (* where the loop being polled is                             *)
  fresh,       (* an event came since the guard was taken                    *)
  requests,    (* frames the users have asked for                            *)
  full,        (* the send buffer has a frame to send                        *)
  travelling,  (* frames in the segment                                      *)
  foreign,     (* frames of other hosts so far                               *)
  received     (* frames given to the reception loop                         *)

kernel == <<arrived, outgoing, edge>>
tokio  == <<ready, waker, fresh>>
task   == <<woken, polls, at>>
world  == <<requests, full, travelling, foreign>>
vars   == <<kind, kernel, tokio, task, world, received>>

Directions == {"read", "write"}
Loops      == {"receive", "send", "timeout"}
Frames     == {"answer", "foreign"}
Places     == {"idle", "polling", "reading", "read", "again", "writing", "write", "failed"}

Init ==
  /\ kind \in Kinds
  /\ arrived = <<>> /\ outgoing = 0 /\ edge = TRUE
  /\ ready = {} /\ waker = {} /\ fresh = FALSE
  /\ woken = TRUE /\ polls = {} /\ at = "idle"
  /\ requests = 0 /\ full = FALSE /\ travelling = 0 /\ foreign = 0
  /\ received = <<>>

-----------------------------------------------------------------------------
(* The kernel, the driver, and what wakes the task *)

(* A frame leaves; its buffer is free again.                                 *)
Transmit ==
  /\ outgoing > 0
  /\ outgoing' = outgoing - 1 /\ edge' = TRUE
  /\ travelling' = travelling + 1
  /\ UNCHANGED <<kind, arrived, tokio, task, requests, full, foreign, received>>

Arrive ==
  /\ travelling > 0 /\ travelling' = travelling - 1
  /\ arrived' = Append(arrived, "answer") /\ edge' = TRUE
  /\ UNCHANGED <<kind, outgoing, tokio, task, requests, full, foreign, received>>

ArriveForeign ==
  /\ foreign < MaxForeign /\ foreign' = foreign + 1
  /\ arrived' = Append(arrived, "foreign") /\ edge' = TRUE
  /\ UNCHANGED <<kind, outgoing, tokio, task, requests, full, travelling, received>>

Possible == {d \in Directions : IF d = "read" THEN arrived # <<>> ELSE outgoing < Capacity}

(* The driver sees the edge.                                                 *)
Event ==
  /\ edge /\ edge' = FALSE
  /\ ready' = ready \cup Possible /\ fresh' = TRUE
  /\ waker' = waker \ Possible
  /\ woken' = (woken \/ waker \cap Possible # {})
  /\ UNCHANGED <<kind, arrived, outgoing, polls, at, world, received>>

(* A user fills the send buffer and notifies task_send.                      *)
Request ==
  /\ requests < MaxRequests /\ ~full
  /\ requests' = requests + 1 /\ full' = TRUE /\ woken' = TRUE
  /\ UNCHANGED <<kind, kernel, tokio, polls, at, travelling, foreign, received>>

(* The interval of task_timeout elapses.                                     *)
Tick ==
  /\ ~woken /\ woken' = TRUE
  /\ UNCHANGED <<kind, kernel, tokio, polls, at, world, received>>

-----------------------------------------------------------------------------
(* RawMaster::task_loop *)

Poll ==
  /\ at = "idle" /\ woken
  /\ woken' = FALSE /\ polls' = Loops /\ at' = "polling"
  /\ UNCHANGED <<kind, kernel, tokio, world, received>>

(* A loop is pending: Race goes on with the next one, and returns.           *)
Pending(loop) ==
  /\ polls' = polls \ {loop}
  /\ at' = IF polls = {loop} THEN "idle" ELSE "polling"

(* An error of a loop is unwrapped: the three loops end.                     *)
FailLoop == at' = "failed" /\ polls' = {}

PollTimeout ==
  /\ at = "polling" /\ "timeout" \in polls /\ Pending("timeout")
  /\ UNCHANGED <<kind, kernel, tokio, woken, world, received>>

(* AsyncFd::poll_read_ready, poll_write_ready: a guard if the flag is set,   *)
(* else the waker is registered.                                             *)
Take(direction, next, loop) ==
  IF direction \in ready
  THEN at' = next /\ fresh' = FALSE /\ UNCHANGED <<waker, polls>>
  ELSE waker' = waker \cup {direction} /\ Pending(loop) /\ UNCHANGED fresh

(* variant: guard.clear_ready() of a newer event as well                     *)
ClearAnyway(direction) == ready' = ready \ {direction}
Clear(direction) == ready' = IF fresh THEN ready ELSE ready \ {direction}

-----------------------------------------------------------------------------
(* poll_receive, in the loop task_receive *)

PollReceive ==
  /\ \/ at = "polling" /\ "receive" \in polls
     \/ at = "again"
  /\ Take("read", "reading", "receive")
  /\ UNCHANGED <<kind, kernel, ready, woken, world, received>>

(* The frame is given to task_receive, that polls again.                     *)
Give ==
  /\ received' = Append(received, Head(arrived)) /\ at' = "again"
  /\ UNCHANGED polls

(* The header of the frame is the one frames are sent with.                  *)
Accepts(frame) == frame = "answer"

(* variant: the flag is cleared once a frame was read                        *)
ClearRead == Pending("receive") /\ ready' = ready \ {"read"}
(* A frame was read: there may be others, the flag is retained.              *)
Retain == Pending("receive") /\ UNCHANGED ready

(* EthernetSocket: nothing to read, or a frame of another host, is pending.  *)
EthernetRead ==
  /\ kind = "ethernet" /\ at = "reading"
  /\ IF arrived = <<>>
     THEN at' = "read" /\ UNCHANGED <<polls, ready, arrived, received>>
     ELSE /\ arrived' = Tail(arrived)
          /\ IF Accepts(Head(arrived)) THEN Give /\ UNCHANGED ready
                                       ELSE Retain /\ UNCHANGED received
  /\ UNCHANGED <<kind, outgoing, edge, waker, fresh, woken, world>>

EthernetReadNothing ==
  /\ kind = "ethernet" /\ at = "read"
  /\ Clear("read") /\ Pending("receive")
  /\ UNCHANGED <<kind, kernel, waker, fresh, woken, world, received>>

(* UdpSocket: the flag is cleared before the only recv_from.                 *)
UdpClear ==
  /\ kind = "udp" /\ at = "reading" /\ at' = "read"
  /\ Clear("read")
  /\ UNCHANGED <<kind, kernel, waker, fresh, woken, polls, world, received>>

(* The address of the sender is compared but nothing depends on it.          *)
UdpReceive ==
  /\ kind = "udp" /\ at = "read" /\ arrived # <<>>
  /\ arrived' = Tail(arrived) /\ Give
  /\ UNCHANGED <<kind, outgoing, edge, tokio, woken, world>>

UdpReceiveNothing ==
  /\ kind = "udp" /\ at = "read" /\ arrived = <<>>
  /\ FailLoop
  /\ UNCHANGED <<kind, kernel, tokio, woken, world, received>>

-----------------------------------------------------------------------------
(* poll_send, in the loop task_send *)

SendNothing ==
  /\ at = "polling" /\ "send" \in polls /\ ~full /\ Pending("send")
  /\ UNCHANGED <<kind, kernel, tokio, woken, world, received>>

PollSend ==
  /\ at = "polling" /\ "send" \in polls /\ full
  /\ Take("write", "writing", "send")
  /\ UNCHANGED <<kind, kernel, ready, woken, world, received>>

(* UdpSocket clears the flag first, EthernetSocket when the write fails.     *)
UdpSendClear ==
  /\ kind = "udp" /\ at = "writing" /\ at' = "write"
  /\ Clear("write")
  /\ UNCHANGED <<kind, kernel, waker, fresh, woken, polls, world, received>>

Write ==
  /\ at = (IF kind = "udp" THEN "write" ELSE "writing")
  /\ outgoing < Capacity /\ outgoing' = outgoing + 1
  /\ full' = FALSE /\ at' = "polling"
  /\ UNCHANGED <<kind, arrived, edge, tokio, woken, polls, requests, travelling, foreign, received>>

WriteFails ==
  /\ at = (IF kind = "udp" THEN "write" ELSE "writing")
  /\ outgoing = Capacity /\ FailLoop
  /\ IF kind = "udp" THEN UNCHANGED ready ELSE Clear("write")
  /\ UNCHANGED <<kind, kernel, waker, fresh, woken, world, received>>

-----------------------------------------------------------------------------
Kernel == Transmit \/ Arrive \/ Event
Receiving == PollReceive \/ EthernetRead \/ EthernetReadNothing
             \/ UdpClear \/ UdpReceive \/ UdpReceiveNothing
Sending == SendNothing \/ PollSend \/ UdpSendClear \/ Write \/ WriteFails
Running == Poll \/ PollTimeout \/ Receiving \/ Sending

Next == Kernel \/ ArriveForeign \/ Request \/ Tick \/ Running

(* Frames that left come back, edges are seen, a woken task is polled.       *)
Fairness == WF_vars(Transmit) /\ WF_vars(Arrive) /\ WF_vars(Event) /\ WF_vars(Running)
            /\ WF_vars(Receiving) /\ WF_vars(Sending)
Spec == Init /\ [][Next]_vars /\ Fairness /\ WF_vars(Tick)

-----------------------------------------------------------------------------
(* Properties *)

TypeOK ==
  /\ kind \in Kinds /\ at \in Places
  /\ arrived \in Seq(Frames) /\ outgoing \in 0..Capacity /\ edge \in BOOLEAN
  /\ ready \subseteq Directions /\ waker \subseteq Directions /\ fresh \in BOOLEAN
  /\ woken \in BOOLEAN /\ polls \subseteq Loops
  /\ requests \in 0..MaxRequests /\ full \in BOOLEAN
  /\ travelling \in Nat /\ foreign \in 0..MaxForeign
  /\ received \in Seq(Frames)

(* The next poll of the ethernet socket finds the frames that have arrived:  *)
(* the flag that a retained guard leaves, or an event to come, tells them,   *)
(* whatever was read, filtered or cleared while they arrived.                *)
FrameReachable ==
  kind = "ethernet" /\ arrived # <<>> => edge \/ "read" \in ready \/ at = "failed"

(* Every frame is read or the loops have failed: with the ethernet socket,   *)
(* although it returns pending without a waker: the interval polls it again. *)
FramesReceived ==
  kind = "ethernet" => (arrived # <<>> ~> arrived = <<>> \/ at = "failed")

(* When the task sleeps, what is to read wakes it, without the help of the   *)
(* interval (false, see README).                                             *)
SleeperWoken ==
  at = "idle" /\ ~woken /\ arrived # <<>> => edge /\ "read" \in waker
=============================================================================
