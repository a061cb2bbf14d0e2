------------------------------- MODULE Mailbox -------------------------------
(***************************************************************************)
(* A slave's mailbox (src/src/mailbox.rs), used as can.rs does: the        *)
(* mailbox is locked, a request is written, its response is read.  Mails   *)
(* travel through two memory areas of the slave guarded by sync managers   *)
(* in handshake mode: the master fills the first when it is empty, the     *)
(* slave the second, each area changes side when its last byte is accessed.*)
(*                                                                         *)
(* The master only knows of an area what the answers to its PDUs tell. A   *)
(* PDU can be lost before the slave executes it or on its way back; the    *)
(* code retries, and asks the slave to repeat a mail it failed to read.    *)
(*                                                                         *)
(* The slave (sync managers and mailbox service) is external: it is what   *)
(* the registers of registers.rs document, and it uses the counter of the  *)
(* mailbox header to drop a mail it receives twice.                        *)
(***************************************************************************)
EXTENDS Integers, Sequences

CONSTANTS
  Responses,     (* kinds of mail the slave may answer with                  *)
  Whole,         (* the values of "requests fill the write buffer"           *)
  SameFrame,     (* the PDUs joined in an attempt share a frame: the slave   *)
                 (* does nothing between them                                *)
  Lossy,         (* exchanges whose PDU may be lost                          *)
  MaxLosses,     (* BOUND: number of PDUs lost                               *)
  MaxRequests,   (* BOUND: number of requests                                *)
  Abandon        (* requests whose future may be dropped at an await         *)

ASSUME ConstantsAssumption ==
  /\ Responses \subseteq {"small", "large", "full", "exception"}
  /\ Whole \subseteq BOOLEAN /\ SameFrame \in BOOLEAN
  /\ Lossy \subseteq {"write", "end", "header", "data", "last", "repeat"}
  /\ MaxLosses \in Nat /\ MaxRequests \in Nat
  /\ Abandon \subseteq 1..MaxRequests

VARIABLES
  (* master *)
  pc,          (* where read and write are                                   *)
  count,       (* write.count, the counter of mails written                  *)
  whole,       (* the mail is written in one PDU                             *)
  written,     (* `writing.answers == 1` in this attempt                     *)
  received,    (* the content read in this attempt, or NoMail                *)
  asked,       (* number of requests made (history)                          *)
  results,     (* what each call returned: request and mail (history)        *)
  losses,      (* number of PDUs lost                                        *)
  (* slave *)
  inbox,       (* area of the write sync manager                             *)
  last_count,  (* counter of the last mail accepted                          *)
  served,      (* requests executed by the slave (history)                   *)
  outgoing,    (* responses waiting for the area to be free                  *)
  outbox,      (* area of the read sync manager                              *)
  repeat, repeat_ack  (* SyncManagerChannel::repeat, repeat_ack              *)

master == <<pc, count, whole, written, received, asked, results>>
slave  == <<inbox, last_count, served, outgoing, outbox, repeat, repeat_ack>>
vars   == <<master, losses, slave>>

-----------------------------------------------------------------------------
(* A mail is the request it answers and its kind:                            *)
(*   small      the first 32 bytes of the buffer hold it all                 *)
(*   large      it needs a second read, which stops before the last byte     *)
(*   full       the second read reaches the last byte of the buffer          *)
(*   exception  MailboxType::Exception, the answer to a mail it cannot serve *)
Mail   == [request : 1..MaxRequests, kind : Responses]
NoMail == [request |-> 0, kind |-> "none"]

Empty == [mailbox_full |-> FALSE, mail |-> NoMail]

Init ==
  /\ pc = "idle" /\ count = 0 /\ whole = FALSE /\ written = FALSE
  /\ received = NoMail /\ asked = 0 /\ results = <<>> /\ losses = 0
  /\ inbox = [mailbox_full |-> FALSE, request |-> 0, count |-> 0]
  /\ last_count = 0 /\ served = <<>> /\ outgoing = <<>>
  /\ outbox = Empty /\ repeat = FALSE /\ repeat_ack = FALSE

(* What becomes of a PDU: the slave executes it or not, the master sees the  *)
(* answer or not.                                                            *)
Fate == {[done |-> TRUE,  seen |-> TRUE],
         [done |-> TRUE,  seen |-> FALSE],
         [done |-> FALSE, seen |-> FALSE]}

Pdu(exchange, fate) ==
  \/ fate.seen /\ UNCHANGED losses
  \/ /\ ~fate.seen /\ exchange \in Lossy /\ losses < MaxLosses
     /\ losses' = losses + 1

-----------------------------------------------------------------------------
(* Mailbox::write *)

SameCount(c) == c                 (* variant: the counter does not change    *)
CountUp(c) == c + 1               (* variant: the counter does not wrap      *)
NextCount(c) == (c % 7) + 1

WriteBegin ==
  /\ pc = "idle" /\ asked < MaxRequests
  /\ asked' = asked + 1
  /\ count' = NextCount(count)
  /\ whole' \in Whole
  /\ pc' = "write_wait"
  /\ UNCHANGED <<written, received, results, losses, slave>>

(* The loop on the register ends when the slave emptied the area.            *)
WriteWait ==
  /\ pc = "write_wait"
  /\ ~inbox.mailbox_full
  /\ pc' = "write"
  /\ UNCHANGED <<count, whole, written, received, asked, results, losses, slave>>

(* variant: each attempt has a counter of its own                            *)
WriteRecounted(fate) ==
  /\ pc = "write" /\ Pdu("write", fate)
  /\ count' = NextCount(count)
  /\ LET accepted == fate.done /\ ~inbox.mailbox_full
     IN /\ inbox' = IF accepted
                    THEN [mailbox_full |-> whole, request |-> asked, count |-> count']
                    ELSE inbox
        /\ written' = (fate.seen /\ accepted)
        /\ pc' = IF ~whole THEN "end" ELSE IF written' THEN "read_wait" ELSE "write"
  /\ UNCHANGED <<whole, received, asked, results,
                 last_count, served, outgoing, outbox, repeat, repeat_ack>>

(* The beginning of the area is written, or all of it, which hands it over.  *)
(* The sync manager refuses accesses to an area of the other side.           *)
Write(fate) ==
  /\ pc = "write" /\ Pdu("write", fate)
  /\ LET accepted == fate.done /\ ~inbox.mailbox_full
     IN /\ inbox' = IF accepted
                    THEN [mailbox_full |-> whole, request |-> asked, count |-> count]
                    ELSE inbox
        /\ written' = (fate.seen /\ accepted)
        /\ pc' = IF ~whole THEN "end" ELSE IF written' THEN "read_wait" ELSE "write"
  /\ UNCHANGED <<count, whole, received, asked, results,
                 last_count, served, outgoing, outbox, repeat, repeat_ack>>

(* variant: the answer of the first PDU is not looked at                     *)
WriteEndOnly(fate) ==
  /\ pc = "end" /\ Pdu("end", fate)
  /\ inbox' = [inbox EXCEPT !.mailbox_full = @ \/ fate.done]
  /\ pc' = IF fate.seen /\ ~inbox.mailbox_full THEN "read_wait" ELSE "write"
  /\ UNCHANGED <<count, whole, written, received, asked, results,
                 last_count, served, outgoing, outbox, repeat, repeat_ack>>

(* The last word is written, which hands the area over; both PDUs are sent   *)
(* again unless both are answered.                                           *)
WriteEnd(fate) ==
  /\ pc = "end" /\ Pdu("end", fate)
  /\ inbox' = [inbox EXCEPT !.mailbox_full = @ \/ fate.done]
  /\ pc' = IF written /\ fate.seen /\ ~inbox.mailbox_full THEN "read_wait" ELSE "write"
  /\ UNCHANGED <<count, whole, written, received, asked, results,
                 last_count, served, outgoing, outbox, repeat, repeat_ack>>

-----------------------------------------------------------------------------
(* Mailbox::read *)

Return(mail) ==
  /\ results' = Append(results, [request |-> asked, mail |-> mail])
  /\ pc' = "idle"

(* variant: the register is not polled                                       *)
ReadNoWait ==
  /\ pc = "read_wait"
  /\ pc' = "header"
  /\ UNCHANGED <<count, whole, written, received, asked, results, losses, slave>>

(* The loop on the register ends when the slave filled the area.             *)
ReadWait ==
  /\ pc = "read_wait"
  /\ outbox.mailbox_full
  /\ pc' = "header"
  /\ UNCHANGED <<count, whole, written, received, asked, results, losses, slave>>

(* The header and a few bytes; an exception is returned at once.             *)
ReadHeader(fate) ==
  /\ pc = "header" /\ Pdu("header", fate)
  /\ IF fate.seen /\ outbox.mailbox_full
     THEN IF outbox.mail.kind = "exception"
          THEN Return(outbox.mail) /\ received' = NoMail
          ELSE IF outbox.mail.kind = "small"
          THEN received' = outbox.mail /\ pc' = "last" /\ UNCHANGED results
          ELSE received' = NoMail /\ pc' = "data" /\ UNCHANGED results
     ELSE received' = NoMail /\ pc' = "repeat" /\ UNCHANGED results
  /\ UNCHANGED <<count, whole, written, asked, slave>>

(* The data of a longer mail.                                                *)
ReadData(fate) ==
  /\ pc = "data" /\ Pdu("data", fate)
  /\ received' = IF fate.seen /\ outbox.mailbox_full THEN outbox.mail ELSE NoMail
  /\ outbox' = [outbox EXCEPT !.mailbox_full = @ /\ ~(fate.done /\ outbox.mail.kind = "full")]
  /\ pc' = "last"
  /\ UNCHANGED <<count, whole, written, asked, results,
                 inbox, last_count, served, outgoing, repeat, repeat_ack>>

(* The last word is read, which frees the area.  Its answer is ignored: the  *)
(* result only depends on the data.                                          *)
ReadLast(fate) ==
  /\ pc = "last" /\ Pdu("last", fate)
  /\ outbox' = [outbox EXCEPT !.mailbox_full = @ /\ ~fate.done]
  /\ IF received = NoMail THEN pc' = "repeat" /\ UNCHANGED results ELSE Return(received)
  /\ UNCHANGED <<count, whole, written, received, asked,
                 inbox, last_count, served, outgoing, repeat, repeat_ack>>

(* variant: the mail is read again without being asked for                   *)
SkipRepeat(fate) ==
  /\ pc = "repeat" /\ Pdu("repeat", fate)
  /\ pc' = "repeat_wait"
  /\ UNCHANGED <<count, whole, written, received, asked, results, slave>>

(* The register is written back with `repeat` set.                           *)
Repeat(fate) ==
  /\ pc = "repeat" /\ Pdu("repeat", fate)
  /\ repeat' = (repeat \/ fate.done)
  /\ pc' = IF fate.seen THEN "repeat_wait" ELSE "repeat"
  /\ UNCHANGED <<count, whole, written, received, asked, results,
                 inbox, last_count, served, outgoing, outbox, repeat_ack>>

RepeatWait ==
  /\ pc = "repeat_wait"
  /\ repeat_ack
  /\ pc' = "header"
  /\ UNCHANGED <<count, whole, written, received, asked, results, losses, slave>>

(* The future of the request is dropped, wherever it is.                     *)
Cancel ==
  /\ asked \in Abandon
  /\ pc # "idle"
  /\ pc' = "idle"
  /\ UNCHANGED <<count, whole, written, received, asked, results, losses, slave>>

-----------------------------------------------------------------------------
(* The slave *)

Between == SameFrame /\ pc \in {"end", "last"}

(* Its mailbox service takes a mail, and serves it unless it already did.    *)
Serve ==
  /\ ~Between
  /\ inbox.mailbox_full
  /\ inbox' = [inbox EXCEPT !.mailbox_full = FALSE]
  /\ IF inbox.count = last_count
     THEN UNCHANGED <<last_count, served, outgoing>>
     ELSE /\ last_count' = inbox.count
          /\ served' = Append(served, inbox.request)
          /\ \E kind \in Responses :
               outgoing' = Append(outgoing, [request |-> inbox.request, kind |-> kind])
  /\ UNCHANGED <<master, losses, outbox, repeat, repeat_ack>>

Respond ==
  /\ ~Between
  /\ outgoing # <<>> /\ ~outbox.mailbox_full
  /\ outbox' = [mailbox_full |-> TRUE, mail |-> Head(outgoing)]
  /\ outgoing' = Tail(outgoing)
  /\ UNCHANGED <<master, losses, inbox, last_count, served, repeat, repeat_ack>>

(* A change of `repeat` makes it present its last mail again.                *)
ServeRepeat ==
  /\ ~Between
  /\ repeat # repeat_ack
  /\ outbox' = [outbox EXCEPT !.mailbox_full = @ \/ outbox.mail # NoMail]
  /\ repeat_ack' = repeat
  /\ UNCHANGED <<master, losses, inbox, last_count, served, outgoing, repeat>>

-----------------------------------------------------------------------------
Done ==
  /\ pc = "idle" /\ asked = MaxRequests
  /\ UNCHANGED vars

Master ==
  \/ WriteBegin \/ WriteWait \/ ReadWait \/ RepeatWait
  \/ \E fate \in Fate :
       \/ Write(fate) \/ WriteEnd(fate)
       \/ ReadHeader(fate) \/ ReadData(fate) \/ ReadLast(fate) \/ Repeat(fate)

Next == Master \/ Cancel \/ Serve \/ Respond \/ ServeRepeat \/ Done

Spec == Init /\ [][Next]_vars

(* The future is polled, the slave works between the frames that keep coming *)
(* (hence SF: it is interrupted by each), and only MaxLosses PDUs are lost.  *)
FairSpec ==
  Spec /\ WF_vars(Master) /\ SF_vars(Serve) /\ SF_vars(Respond) /\ SF_vars(ServeRepeat)

-----------------------------------------------------------------------------
(* Properties *)

TypeOK ==
  /\ pc \in {"idle", "write_wait", "write", "end", "read_wait", "header", "data",
             "last", "repeat", "repeat_wait"}
  /\ count \in 0..7 /\ last_count \in 0..7
  /\ whole \in BOOLEAN /\ written \in BOOLEAN
  /\ received \in Mail \cup {NoMail}
  /\ asked \in 0..MaxRequests
  /\ results \in Seq([request : 1..MaxRequests, mail : Mail])
  /\ losses \in 0..MaxLosses
  /\ inbox \in [mailbox_full : BOOLEAN, request : 0..MaxRequests, count : 0..7]
  /\ served \in Seq(1..MaxRequests)
  /\ outgoing \in Seq(Mail)
  /\ outbox \in [mailbox_full : BOOLEAN, mail : Mail \cup {NoMail}]
  /\ repeat \in BOOLEAN /\ repeat_ack \in BOOLEAN

(* However often its PDUs are lost and sent again, a request is executed by  *)
(* the slave at most once, and in order: not after a later one.              *)
ServedOnce == \A i, j \in DOMAIN served : i < j => served[i] < served[j]

(* When `write` returns, the slave executed the request, or is about to: it  *)
(* is in the area, and its counter is not one the slave would drop.          *)
WriteDelivers ==
  pc \in {"read_wait", "header", "data", "last", "repeat", "repeat_wait"} =>
    \/ \E i \in DOMAIN served : served[i] = asked
    \/ inbox.mailbox_full /\ inbox.request = asked /\ inbox.count # last_count

(* Each call gets the response to its own request.                           *)
OwnResponse == \A i \in DOMAIN results : results[i].mail.request = results[i].request

(* Every request that is not dropped gets a response, whichever PDUs are     *)
(* lost: the loops of `read` and `write` on the registers end.               *)
RequestsComplete == <>[](pc = "idle" /\ asked = MaxRequests)

(* The service that can.rs uses: one request at a time, each executed exactly*)
(* once and then answered, whatever is lost and sent again.                  *)
Service == INSTANCE Rpc WITH
  asked <- asked, served <- Len(served), answered <- Len(results)
ServiceSpec == Service!Spec
=============================================================================
