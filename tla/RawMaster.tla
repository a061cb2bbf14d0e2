------------------------------ MODULE RawMaster ------------------------------
(***************************************************************************)
(* The PDU layer of the master (src/src/rawmaster.rs): users exchange PDUs *)
(* with the EtherCAT segment through `Topic`s, each holding one token (a   *)
(* reception storage).  PDUs are stacked in the single send buffer, sent   *)
(* as one frame by `task_send`, and their answers are dispatched to the    *)
(* storages by `task_receive`; `task_timeout` gives up on old PDUs.        *)
(*                                                                         *)
(* A user is an async task.  Most run `read_slice` / `write_slice` /       *)
(* `exchange_slice`: topic, send, wait, receive, drop.  Those in Groups    *)
(* keep their topic, as mapping::Group does, and send and receive at will  *)
(* without ever waiting.                                                   *)
(*                                                                         *)
(* Steps are the critical sections of `state` and the atomic accesses of   *)
(* `PduState::ready`: between two of them any other thread may run.        *)
(***************************************************************************)
EXTENDS Integers, Sequences, FiniteSets

CONSTANTS
  Users,          (* async tasks using the master                            *)
  Groups,         (* the users which keep their topic, like mapping::Group   *)
  Abandon,        (* the users whose futures may be cancelled at an await,   *)
                  (* and the groups which may be dropped                     *)
  Nobody,         (* not a user: origin of data that no request produced     *)
  NumTokens,      (* number of reception storages (2*MAX_ETHERCAT_PDU)       *)
  Size,           (* bytes in the PDU of each user                           *)
  MaxFrame,       (* EthercatSocket::max_frame                               *)
  Workload,       (* BOUND: number of PDUs of each user                      *)
  U16Max,         (* largest value of a working count: 65535                 *)
  WorkingCounts,  (* working counts the segment may answer with              *)
  Timely,         (* an answer that arrives does within pdu_timeout          *)
  Faulty          (* reception may hit an unreadable frame, and the master   *)
                  (* may be stopped                                          *)

ASSUME ConstantsAssumption ==
  /\ Groups \subseteq Users /\ Abandon \subseteq Users
  /\ Nobody \notin Users
  /\ NumTokens \in Nat
  /\ Size \in [Users -> Nat]
  /\ MaxFrame \in Nat /\ Workload \in [Users -> Nat]
  /\ U16Max \in Nat \ {0} /\ WorkingCounts \subseteq 0..U16Max
  /\ Timely \in BOOLEAN /\ Faulty \in BOOLEAN

VARIABLES
  last_start, last_end,  (* last PDU of the send buffer: start, end (bytes)  *)
  ready,                 (* the send buffer is complete, or being sent       *)
  send,                  (* PDUs stacked in the send buffer                  *)
  receive,               (* reception storage of each reserved token         *)
  free,                  (* stack of free tokens                             *)
  sendable,              (* permit stored by `sendable.notify_one()`         *)
  received, sent,        (* users registered on these notifications          *)
  sender,                (* where `task_send` is                             *)
  tasks,                 (* state of the task running the three loops        *)
  pc, topic,             (* where each user is, the token of its topic       *)
  request,               (* number of PDUs each user stacked (history)       *)
  answer,                (* what each user last received                     *)
  wire                   (* frames travelling through the segment            *)

buffer == <<last_start, last_end, ready, send>>
users  == <<pc, topic, request, answer>>
vars   == <<buffer, receive, free, sendable, received, sent, sender, tasks,
            users, wire>>

-----------------------------------------------------------------------------
(* Data *)

Tokens == 0..(NumTokens - 1)
NoToken == -1

FrameHeader == 2       (* EthercatHeader::packed_size() *)
PduOverhead == 10 + 2  (* PduHeader::packed_size() + PduFooter::packed_size() *)

(* A request is the n-th PDU stacked by a user.                              *)
Request == Users \X Nat

(* Where the bytes of a reception buffer come from: a request, what the      *)
(* user put there itself, or a misread frame.                                *)
Untouched == <<Nobody, 0>>
Garbage   == <<Nobody, 1>>
Origin    == Request \cup {Untouched, Garbage}

Pdu == [token : Tokens, len : Nat, next : BOOLEAN, request : Request]

(* `ready` is 0 while there is nothing to receive, else the working count    *)
(* plus 1; `aged` tells that `task_timeout` already ticked since `sent`.     *)
PduState == [ready : 0..U16Max, len : Nat, aged : BOOLEAN, data : Origin]

Larger(a, b)  == IF a > b THEN a ELSE b
Smaller(a, b) == IF a < b THEN a ELSE b
PlainSub(a, b)      == a - b            (* variant: not saturating          *)
NoSub(a, b)         == a                (* variant: the +1 is kept          *)
SaturatingSub(a, b) == Larger(a - b, 0)
SaturatingAdd(a, b) == Smaller(a + b, U16Max)

Last(s)   == s[Len(s)]
Peeked(s) == s                          (* variant: last() for pop()        *)
Popped(s) == SubSeq(s, 1, Len(s) - 1)

-----------------------------------------------------------------------------
Init ==
  /\ last_start = FrameHeader /\ last_end = 0
  /\ ready = FALSE
  /\ send = <<>>
  /\ receive = [t \in {} |-> <<>>]
  /\ free = [i \in 1..NumTokens |-> i - 1]
  /\ sendable = FALSE
  /\ received = {} /\ sent = {}
  /\ sender = "idle"
  /\ tasks = "running"
  /\ pc = [u \in Users |-> "idle"]
  /\ topic = [u \in Users |-> NoToken]
  /\ request = [u \in Users |-> 0]
  /\ answer = [u \in Users |-> [answers |-> 0, data |-> Untouched]]
  /\ wire = {}

(* Whoever locks `state` after a panic under the lock panics as well.        *)
Lock == tasks # "poisoned"

Goto(u, to) == pc' = [pc EXCEPT ![u] = to]

-----------------------------------------------------------------------------
(* Topic::new *)

Reserving(u) ==
  /\ Lock
  /\ \/ pc[u] = "idle" /\ request[u] < Workload[u]
     \/ pc[u] = "new" /\ u \notin received

(* A token is popped and its storage takes the user's buffer.                *)
NewReserve(u) ==
  /\ Reserving(u)
  /\ free # <<>>
  /\ LET token == Last(free) IN
       /\ free' = Popped(free)
       /\ receive' =
            [t \in DOMAIN receive \cup {token} |->
               IF t = token
               THEN [ready |-> 0, len |-> Size[u], aged |-> FALSE,
                     data |-> Untouched]
               ELSE receive[t]]
       /\ topic' = [topic EXCEPT ![u] = token]
  /\ Goto(u, "topic")
  /\ UNCHANGED <<buffer, sendable, received, sent, sender, tasks, request,
                 answer, wire>>

(* No token: wait for any reception.                                         *)
NewBlock(u) ==
  /\ Reserving(u)
  /\ free = <<>>
  /\ received' = received \cup {u}
  /\ Goto(u, "new")
  /\ UNCHANGED <<buffer, receive, free, sendable, sent, sender, tasks, topic,
                 request, answer, wire>>

-----------------------------------------------------------------------------
(* Topic::send *)

Sending(u) ==
  /\ Lock
  /\ \/ pc[u] = "topic" /\ request[u] < Workload[u]
     \/ pc[u] = "sending" /\ u \notin sent

(* variant: what is already in the buffer is forgotten                       *)
FitsAlone(u) == MaxFrame > last_start + Size[u] + PduOverhead

Fits(u) == MaxFrame > Larger(last_end, last_start) + Size[u] + PduOverhead

(* The buffer is complete or being sent: wait for the end of sending.        *)
SendBlocked(u) ==
  /\ Sending(u)
  /\ ready
  /\ sent' = sent \cup {u}
  /\ Goto(u, "sending")
  /\ UNCHANGED <<buffer, receive, free, sendable, received, sender, tasks,
                 topic, request, answer, wire>>

(* The PDU does not fit: have the buffer sent, wait for the end of sending.  *)
SendFull(u) ==
  /\ Sending(u)
  /\ ~ready /\ ~Fits(u)
  /\ ready' = TRUE
  /\ sendable' = TRUE
  /\ sent' = sent \cup {u}
  /\ Goto(u, "sending")
  /\ UNCHANGED <<last_start, last_end, send, receive, free, received, sender,
                 tasks, topic, request, answer, wire>>

(* The PDU is stacked, and chained to the previous one if there is one.      *)
SendStack(u) ==
  /\ Sending(u)
  /\ ~ready /\ Fits(u)
  /\ LET chained == IF last_start <= last_end
                    THEN [send EXCEPT ![Len(send)].next = TRUE]
                    ELSE send
         start   == Larger(last_start, last_end)
         pdu     == [token |-> topic[u], len |-> Size[u], next |-> FALSE,
                     request |-> <<u, request[u] + 1>>]
     IN /\ send' = Append(chained, pdu)
        /\ last_start' = start
        /\ last_end' = start + Size[u] + PduOverhead
  /\ receive' = [receive EXCEPT ![topic[u]].aged = FALSE]
  /\ request' = [request EXCEPT ![u] = @ + 1]
  /\ sendable' = TRUE
  /\ Goto(u, IF u \in Groups THEN "topic" ELSE "wait")
  /\ UNCHANGED <<ready, free, received, sent, sender, tasks, topic, answer,
                 wire>>

BufferIgnored == TRUE                   (* variant: flush without check     *)
BufferUsed    == last_end # 0

(* RawMaster::flush, as clock.rs calls it between `send` and `wait`.         *)
Flush(u) ==
  /\ Lock
  /\ pc[u] = "wait"
  /\ BufferUsed
  /\ ready' = TRUE
  /\ sendable' = TRUE
  /\ UNCHANGED <<last_start, last_end, send, receive, free, received, sent,
                 sender, tasks, users, wire>>

-----------------------------------------------------------------------------
(* Topic::wait: `state` is not locked, `ready` is read after registering.    *)

Optimistic(u) == TRUE                   (* variant: does not wait           *)
Available(u)  == receive[topic[u]].ready # 0

WaitRegister(u) ==
  /\ \/ pc[u] = "wait"
     \/ pc[u] = "asleep" /\ u \notin received
  /\ received' = received \cup {u}
  /\ Goto(u, "check")
  /\ UNCHANGED <<buffer, receive, free, sendable, sent, sender, tasks, topic,
                 request, answer, wire>>

WaitCheck(u) ==
  /\ pc[u] = "check"
  /\ IF Available(u)
     THEN Goto(u, "done") /\ received' = received \ {u}
     ELSE Goto(u, "asleep") /\ UNCHANGED received
  /\ UNCHANGED <<buffer, receive, free, sendable, sent, sender, tasks, topic,
                 request, answer, wire>>

(* Topic::receive, at the end of a wait or at any time for a group.          *)
Receive(u) ==
  /\ \/ pc[u] = "done" /\ Goto(u, "received")
     \/ pc[u] = "topic" /\ u \in Groups /\ Lock /\ UNCHANGED pc
  /\ answer' = [answer EXCEPT ![u] =
                  [answers |-> SaturatingSub(receive[topic[u]].ready, 1),
                   data    |-> receive[topic[u]].data]]
  /\ receive' = [receive EXCEPT ![topic[u]].ready = 0]
  /\ UNCHANGED <<buffer, free, sendable, received, sent, sender, tasks, topic,
                 request, wire>>

-----------------------------------------------------------------------------
(* Drop of a Topic *)

FreeToken(u) ==
  /\ Lock
  /\ receive' = [t \in DOMAIN receive \ {topic[u]} |-> receive[t]]
  /\ free' = Append(free, topic[u])
  /\ topic' = [topic EXCEPT ![u] = NoToken]
  /\ Goto(u, "idle")

(* End of the exchange.                                                      *)
DropTopic(u) ==
  /\ pc[u] = "received"
  /\ FreeToken(u)
  /\ UNCHANGED <<buffer, sendable, received, sent, sender, tasks, request,
                 answer, wire>>

(* The future is dropped at one of its awaits, or the group is dropped.      *)
Cancel(u) ==
  /\ u \in Abandon
  /\ \/ /\ pc[u] = "new"
        /\ Goto(u, "idle")
        /\ UNCHANGED <<receive, free, topic>>
     \/ /\ pc[u] \in {"sending", "asleep"} \/ (pc[u] = "topic" /\ u \in Groups)
        /\ FreeToken(u)
  /\ received' = received \ {u}
  /\ sent' = sent \ {u}
  /\ UNCHANGED <<buffer, sendable, sender, tasks, request, answer, wire>>

-----------------------------------------------------------------------------
(* task_send *)

(* First loop: wait for a permit, then for something in the buffer.          *)
SenderWake ==
  /\ tasks = "running" /\ sender = "idle" /\ sendable
  /\ sendable' = FALSE
  /\ sender' = CASE last_end = 0 -> "idle"
                 [] last_end # 0 /\ ready -> "sending"
                 [] OTHER -> "merging"
  /\ UNCHANGED <<buffer, receive, free, received, sent, tasks, users, wire>>

(* variant: the buffer is not closed when sending starts                     *)
MergeTimerOpen ==
  /\ tasks = "running" /\ sender = "merging"
  /\ sender' = "sending"
  /\ UNCHANGED <<buffer, receive, free, sendable, received, sent, tasks, users,
                 wire>>

(* The merge delay elapses.                                                  *)
MergeTimer ==
  /\ tasks = "running" /\ sender = "merging"
  /\ ready' = TRUE
  /\ sender' = "sending"
  /\ UNCHANGED <<last_start, last_end, send, receive, free, sendable, received,
                 sent, tasks, users, wire>>

(* A permit arrives during the merge delay.                                  *)
MergeWake ==
  /\ tasks = "running" /\ sender = "merging" /\ sendable
  /\ sendable' = FALSE
  /\ sender' = IF ready THEN "sending" ELSE "merging"
  /\ UNCHANGED <<buffer, receive, free, received, sent, tasks, users, wire>>

(* poll_send completes: the bytes up to last_end left as a frame.            *)
PollSend ==
  /\ tasks = "running" /\ sender = "sending"
  /\ wire' = wire \cup {send}
  /\ sender' = "resetting"
  /\ UNCHANGED <<buffer, receive, free, sendable, received, sent, tasks, users>>

(* variant: the buffer is reopened without being emptied                     *)
SenderReopen ==
  /\ tasks = "running" /\ sender = "resetting"
  /\ ready' = FALSE
  /\ sender' = "notifying"
  /\ UNCHANGED <<last_start, last_end, send, receive, free, sendable, received,
                 sent, tasks, users, wire>>

SenderReset ==
  /\ tasks = "running" /\ sender = "resetting"
  /\ ready' = FALSE
  /\ last_end' = 0 /\ last_start' = FrameHeader
  /\ send' = <<>>
  /\ sender' = "notifying"
  /\ UNCHANGED <<receive, free, sendable, received, sent, tasks, users, wire>>

(* variant: the users blocked on the send buffer are not woken               *)
SenderForget ==
  /\ tasks = "running" /\ sender = "notifying"
  /\ sender' = "idle"
  /\ UNCHANGED <<buffer, receive, free, sendable, received, sent, tasks, users,
                 wire>>

SenderNotify ==
  /\ tasks = "running" /\ sender = "notifying"
  /\ sent' = {}
  /\ sender' = "idle"
  /\ UNCHANGED <<buffer, receive, free, sendable, received, tasks, users, wire>>

-----------------------------------------------------------------------------
(* task_receive and pdu_receive *)

(* The loop goes on to the next PDU as long as the token of the current one  *)
(* is reserved (else its content is not skipped, and the following bytes are *)
(* taken for a header) and its storage has the right size (else              *)
(* copy_from_slice panics with `state` locked).                              *)
Matches(pdu) ==
  /\ pdu.token \in DOMAIN receive
  /\ pdu.len = receive[pdu.token].len

Dispatched(frame) ==
  {i \in DOMAIN frame : \A j \in 1..i : Matches(frame[j])}

(* The PDU whose answer stays in the storage of t once those at the indices  *)
(* `is` have been dispatched, in order.                                      *)
LastFor(frame, is, t, i) ==
  /\ i \in is /\ frame[i].token = t
  /\ \A j \in is : frame[j].token = t => j <= i

Store(frame, is, wc) ==
  [t \in DOMAIN receive |->
     IF \E i \in is : LastFor(frame, is, t, i)
     THEN LET i == CHOOSE i \in is : LastFor(frame, is, t, i)
          IN [receive[t] EXCEPT !.ready = SaturatingAdd(wc[i], 1),
                                !.data = frame[i].request]
     ELSE receive[t]]

Reception(frame) ==
  /\ tasks = "running"
  /\ frame \in wire
  /\ wire' = wire \ {frame}
  /\ received' = {}
  /\ UNCHANGED <<buffer, free, sendable, sent, sender, users>>

(* Every PDU finds its storage, but maybe the last one.                      *)
ReceiveFrame(frame, wc) ==
  /\ Reception(frame)
  /\ LET is == Dispatched(frame)
         i  == Cardinality(is) + 1
     IN /\ i >= Len(frame)
        /\ i = Len(frame) => frame[i].token \notin DOMAIN receive
        /\ receive' = Store(frame, is, wc)
  /\ UNCHANGED tasks

(* A PDU other than the last one finds no storage.  The bytes of its data    *)
(* are read as a header: the loop ends there, or returns an error, or        *)
(* panics, possibly after storing them as the answer to another token.       *)
ReceiveMisread(frame, wc) ==
  /\ Reception(frame)
  /\ LET is == Dispatched(frame)
         i  == Cardinality(is) + 1
         stored == Store(frame, is, wc)
     IN /\ i < Len(frame)
        /\ frame[i].token \notin DOMAIN receive
        /\ \/ receive' = stored
           \/ \E t \in DOMAIN receive, n \in WorkingCounts :
                receive' = [stored EXCEPT ![t].ready = SaturatingAdd(n, 1),
                                          ![t].data = Garbage]
  /\ tasks' \in {"running", "failed", "poisoned"}

(* A PDU finds the storage of a PDU of another size.                         *)
ReceivePanic(frame, wc) ==
  /\ Reception(frame)
  /\ LET is == Dispatched(frame)
         i  == Cardinality(is) + 1
     IN /\ i <= Len(frame)
        /\ frame[i].token \in DOMAIN receive
        /\ receive' = Store(frame, is, wc)
  /\ tasks' = "poisoned"

(* The frame is unreadable from some PDU on: pdu_receive returns an error,   *)
(* which ends task_receive, and the unwrap in task_loop ends the others.     *)
ReceiveError(frame, wc) ==
  /\ Faulty
  /\ Reception(frame)
  /\ \E n \in 0..(Len(frame) - 1) :
       /\ 1..n \subseteq Dispatched(frame)
       /\ receive' = Store(frame, 1..n, wc)
  /\ tasks' = "failed"

(* The segment (cable, slaves, UDP) loses a frame.                           *)
Lose(frame) ==
  /\ frame \in wire
  /\ wire' = wire \ {frame}
  /\ UNCHANGED <<buffer, receive, free, sendable, received, sent, sender,
                 tasks, users>>

-----------------------------------------------------------------------------
(* task_timeout *)

Pending(t) ==
  \/ receive[t].ready # 0
  \/ \E i \in DOMAIN send : send[i].token = t
  \/ \E frame \in wire : \E i \in DOMAIN frame : frame[i].token = t
  \/ \E u \in Users \ Groups : topic[u] = t /\ pc[u] \in {"topic", "sending"}

(* The interval fires every pdu_timeout, so a PDU is too old from the second *)
(* tick after it was stacked, or from the first one when that one is late.   *)
TimeoutTick ==
  /\ tasks = "running"
  /\ \E expired \in SUBSET DOMAIN receive :
       /\ \A t \in DOMAIN receive : receive[t].aged => t \in expired
       /\ Timely => \A t \in expired : ~Pending(t)
       /\ receive' = [t \in DOMAIN receive |->
                        IF t \in expired
                        THEN [receive[t] EXCEPT !.aged = TRUE, !.ready = 1]
                        ELSE [receive[t] EXCEPT !.aged = TRUE]]
  /\ received' = {}
  /\ UNCHANGED <<buffer, free, sendable, sent, sender, tasks, users, wire>>

(* RawMaster::stop *)
Stop ==
  /\ Faulty
  /\ tasks = "running"
  /\ tasks' = "stopped"
  /\ UNCHANGED <<buffer, receive, free, sendable, received, sent, sender, users,
                 wire>>

-----------------------------------------------------------------------------
NewStep(u)  == NewReserve(u) \/ NewBlock(u)
SendStep(u) == SendBlocked(u) \/ SendFull(u) \/ SendStack(u)
WaitStep(u) == WaitRegister(u) \/ WaitCheck(u)

SenderStep ==
  \/ SenderWake \/ MergeTimer \/ MergeWake
  \/ PollSend \/ SenderReset \/ SenderNotify

ReceiverStep ==
  \E frame \in wire : \E wc \in [DOMAIN frame -> WorkingCounts] :
    \/ ReceiveFrame(frame, wc) \/ ReceiveMisread(frame, wc)
    \/ ReceivePanic(frame, wc) \/ ReceiveError(frame, wc)

Next ==
  \/ \E u \in Users :
       \/ NewStep(u) \/ SendStep(u) \/ Flush(u) \/ WaitStep(u)
       \/ Receive(u) \/ DropTopic(u) \/ Cancel(u)
  \/ SenderStep
  \/ ReceiverStep
  \/ \E frame \in wire : Lose(frame)
  \/ TimeoutTick
  \/ Stop

Spec == Init /\ [][Next]_vars

(* The tasks are polled by the tokio runtime as long as they can progress,   *)
(* timers elapse, and a frame does not stay in the segment forever.          *)
Fairness ==
  /\ \A u \in Users :
       /\ WF_vars(NewStep(u)) /\ WF_vars(SendStep(u)) /\ WF_vars(WaitStep(u))
       /\ WF_vars(Receive(u)) /\ WF_vars(DropTopic(u))
  /\ WF_vars(SenderStep)
  /\ WF_vars(ReceiverStep \/ \E frame \in wire : Lose(frame))
  /\ WF_vars(TimeoutTick)

FairSpec == Spec /\ Fairness

-----------------------------------------------------------------------------
(* Properties *)

(* Types.                                                                    *)
TypeOK ==
  /\ last_start \in Nat /\ last_end \in Nat
  /\ ready \in BOOLEAN
  /\ send \in Seq(Pdu)
  /\ DOMAIN receive \subseteq Tokens
  /\ receive \in [DOMAIN receive -> PduState]
  /\ free \in Seq(Tokens)
  /\ sendable \in BOOLEAN
  /\ received \subseteq Users /\ sent \subseteq Users
  /\ sender \in {"idle", "merging", "sending", "resetting", "notifying"}
  /\ tasks \in {"running", "failed", "poisoned", "stopped"}
  /\ pc \in [Users -> {"idle", "new", "topic", "sending", "wait", "check",
                       "asleep", "done", "received"}]
  /\ topic \in [Users -> Tokens \cup {NoToken}]
  /\ request \in [Users -> Nat] /\ \A u \in Users : request[u] <= Workload[u]
  /\ answer \in [Users -> [answers : 0..U16Max, data : Origin]]
  /\ wire \subseteq Seq(Pdu)

Holds(u) == topic[u] # NoToken

(* A token has one owner: no two topics share one, the reserved tokens are   *)
(* exactly those of the topics (none leaks) and the free stack holds each    *)
(* other token once, so that pushing one back never overflows it             *)
(* (rawmaster.rs:516-518, 663-666).                                          *)
TokensOwned ==
  /\ \A u \in Users : Holds(u) <=> pc[u] \notin {"idle", "new"}
  /\ \A u, v \in Users : Holds(u) /\ topic[u] = topic[v] => u = v
  /\ \A t \in Tokens : t \in DOMAIN receive <=> \E u \in Users : topic[u] = t
  /\ \A t \in Tokens : t \in DOMAIN receive <=> \A i \in DOMAIN free : free[i] # t
  /\ \A i, j \in DOMAIN free : free[i] = free[j] => i = j

(* The send buffer is a well-formed EtherCAT frame whenever `state` is       *)
(* unlocked: it stays shorter than the socket accepts, last_start and        *)
(* last_end delimit its last PDU, and every PDU but the last one announces   *)
(* a next one, without which slaves and pdu_receive would ignore the rest.   *)
SendLayout ==
  /\ send = <<>> <=> last_end = 0
  /\ send = <<>> => last_start = FrameHeader
  /\ send # <<>> =>
       /\ FrameHeader <= last_start /\ last_end < MaxFrame
       /\ last_end = last_start + Last(send).len + PduOverhead
  /\ \A i \in DOMAIN send : send[i].next <=> i < Len(send)

(* poll_send reads the buffer through a raw slice, with `state` unlocked:    *)
(* nobody may stack a PDU or move the end meanwhile.                         *)
FrameFrozen ==
  [][sender = "sending" => UNCHANGED <<send, last_start, last_end>>]_vars

(* A buffer declared complete holds something: task_send ignores an empty    *)
(* one, so that `ready` would never be cleared and every send would block    *)
(* for ever.                                                                 *)
ReadyHasFrame == ready => last_end # 0

Requests(pdus) == {pdus[i].request : i \in DOMAIN pdus}

(* A PDU is sent once: a buffer that has been sent is emptied before anyone  *)
(* may stack in it again, and no request is in two frames.                   *)
SentOnce ==
  /\ \A f, g \in wire : Requests(f) \cap Requests(g) # {} => f = g
  /\ \A f \in wire : Requests(f) \cap Requests(send) # {} => sender = "resetting"
  /\ \A i, j \in DOMAIN send : send[i].request = send[j].request => i = j

(* An exchange that reports answers got the data of its own PDU; a group     *)
(* gets the data of one of its own PDUs.                                     *)
OwnAnswer ==
  \A u \in Users :
    /\ u \notin Groups /\ pc[u] = "received" /\ answer[u].answers # 0
         => answer[u].data = <<u, request[u]>>
    /\ u \in Groups /\ answer[u].answers # 0 => answer[u].data[1] = u

InTransit(req) == \E pdus \in wire \cup {send} : req \in Requests(pdus)

(* When `wait` returns the exchange is over: its PDU was answered, or lost.  *)
AvailableMeansOver ==
  \A u \in Users :
    pc[u] \in {"done", "received"} =>
      \/ ~InTransit(<<u, request[u]>>)
      \/ sender = "resetting" /\ <<u, request[u]>> \in Requests(send)

(* An exchange whose PDU came back reports the number of slaves that         *)
(* processed it.                                                             *)
AnswersCounted ==
  \A u \in Users \ Groups :
    pc[u] = "received" /\ answer[u].data = <<u, request[u]>>
      => answer[u].answers \in WorkingCounts

(* An exchange is not given up before its PDU is stacked: pdu_timeout is     *)
(* documented as the "delay since the PDU sending" (rawmaster.rs:80).        *)
TimeoutAfterSending ==
  \A u \in Users \ Groups :
    pc[u] \in {"topic", "sending"} => receive[topic[u]].ready = 0

(* Whatever comes from the segment, reception goes on.                       *)
ReceptionSurvives == tasks = "running"

(* Whatever is lost, every exchange ends: all the users get through all      *)
(* their requests, none stays blocked on a token, on the send buffer, or on  *)
(* an answer.                                                                *)
WorkloadCompletes ==
  <>[](\A u \in Users : /\ request[u] = Workload[u]
                        /\ pc[u] = IF u \in Groups THEN "topic" ELSE "idle")

(* What users are promised: PduExchange. Its requests in flight are in the   *)
(* segment or in the send buffer, which is not sent twice; the outcome of a  *)
(* user is in its storage, unless its exchange has not begun or is over.     *)
Flying == wire \cup (IF sender = "resetting" THEN {} ELSE {send})
InFlight == UNION {Requests(pdus) : pdus \in Flying}

Waiting == {u \in Users \ Groups : pc[u] \in {"wait", "check", "asleep", "done"}}

Reported(n, data) == [answers |-> n, data |-> IF n = 0 THEN Untouched ELSE data]
Came(u) ==
  IF u \in Groups \cup Waiting /\ Holds(u) /\ receive[topic[u]].ready # 0
  THEN {Reported(receive[topic[u]].ready - 1, receive[topic[u]].data)}
  ELSE {}

Exchange == INSTANCE PduExchange WITH
  Nothing <- Untouched, MaxRequests <- Workload,
  asked <- request, flying <- InFlight, waiting <- Waiting,
  came <- [u \in Users |-> Came(u)],
  answer <- [u \in Users |-> Reported(answer[u].answers, answer[u].data)]

(* RawMaster implements PduExchange: a request comes back once and to its    *)
(* user, an exchange is not given up while its answer may come, no outcome   *)
(* is taken twice.                                                           *)
ExchangeSpec == Exchange!Spec
=============================================================================
