-------------------------- MODULE RawMasterProofs --------------------------
(***************************************************************************)
(* Invariants of RawMaster proved for every set of users and groups, every *)
(* number of tokens, every PDU and frame size, and whatever the segment,   *)
(* the timeouts and the cancellations do.  The second half is about what   *)
(* RawMaster owes to its users: a PDU is sent once, whatever happens; and  *)
(* as long as nobody is cancelled, no frame is unreadable and late answers *)
(* are dropped by pdu_timeout, an exchange gets the answer to its own PDU, *)
(* reception never stops, and RawMaster implements PduExchange.            *)
(***************************************************************************)
EXTENDS RawMaster, FiniteSetTheorems, WellFoundedInduction, TLAPS

(* The users in the loop of Topic::send still have something to send: what   *)
(* keeps the history variable `request` within its bound.                    *)
SendersPending ==
  \A u \in Users : pc[u] = "sending" => request[u] < Workload[u]

(* The inductive invariant of the tokens.                                    *)
TokenInv == TypeOK /\ TokensOwned /\ SendersPending

LEMMA InitToken == Init => TokenInv
  <1> SUFFICES ASSUME Init PROVE TokenInv
    OBVIOUS
  <1> USE ConstantsAssumption DEF Init
  <1>1. TypeOK
    <2>1. free \in Seq(Tokens) /\ send \in Seq(Pdu)
      BY DEF Tokens
    <2>2. DOMAIN receive = {} /\ receive \in [DOMAIN receive -> PduState]
      OBVIOUS
    <2>3. topic \in [Users -> Tokens \cup {NoToken}]
      OBVIOUS
    <2>4. answer \in [Users -> [answers : 0..U16Max, data : Origin]]
      BY DEF Origin
    <2>5. request \in [Users -> Nat] /\ \A u \in Users : request[u] <= Workload[u]
      OBVIOUS
    <2>6. QED
      BY <2>1, <2>2, <2>3, <2>4, <2>5 DEF TypeOK, FrameHeader
  <1>2. TokensOwned
    <2>1. \A u \in Users : ~Holds(u) /\ pc[u] = "idle" /\ topic[u] = NoToken
      BY DEF Holds
    <2>2. DOMAIN receive = {}
      OBVIOUS
    <2>3. DOMAIN free = 1..NumTokens /\ \A i \in DOMAIN free : free[i] = i - 1
      OBVIOUS
    <2>4. \A t \in Tokens : \E i \in DOMAIN free : free[i] = t
      <3> SUFFICES ASSUME NEW t \in Tokens
                   PROVE  \E i \in DOMAIN free : free[i] = t
        OBVIOUS
      <3>1. t + 1 \in DOMAIN free /\ free[t + 1] = t
        BY <2>3 DEF Tokens
      <3>2. QED
        BY <3>1
    <2>5. QED
      BY <2>1, <2>2, <2>3, <2>4 DEF TokensOwned, Tokens, NoToken
  <1>3. SendersPending
    BY DEF SendersPending
  <1>4. QED
    BY <1>1, <1>2, <1>3 DEF TokenInv

(* What Topic::new does to the tokens.                                       *)
LEMMA NewReserveToken ==
  ASSUME TokenInv, NEW u \in Users, NewReserve(u)
  PROVE  TokenInv'
  <1> USE ConstantsAssumption
  <1> DEFINE token == Last(free)
  <1>1. /\ free \in Seq(Tokens) /\ Len(free) \in Nat \ {0}
        /\ token = free[Len(free)] /\ token \in Tokens
        /\ token \notin DOMAIN receive
    <2>1. free \in Seq(Tokens) /\ free # <<>>
      BY DEF TokenInv, TypeOK, NewReserve
    <2>2. Len(free) \in Nat \ {0} /\ Len(free) \in DOMAIN free
      BY <2>1
    <2>3. token = free[Len(free)] /\ token \in Tokens
      BY <2>1, <2>2 DEF Last
    <2>4. QED
      BY <2>1, <2>2, <2>3 DEF TokenInv, TokensOwned
  <1>2. /\ free' = SubSeq(free, 1, Len(free) - 1)
        /\ DOMAIN receive' = DOMAIN receive \cup {token}
        /\ receive'[token] = [ready |-> 0, len |-> Size[u], aged |-> FALSE,
                              data |-> Untouched]
        /\ \A t \in DOMAIN receive : receive'[t] = receive[t]
        /\ receive' = [t \in DOMAIN receive' |-> receive'[t]]
        /\ topic' = [topic EXCEPT ![u] = token]
        /\ pc' = [pc EXCEPT ![u] = "topic"]
        /\ pc[u] \in {"idle", "new"}
        /\ UNCHANGED <<buffer, sendable, received, sent, sender, tasks,
                       request, answer, wire>>
    BY <1>1 DEF NewReserve, Reserving, Goto, Popped
  <1> HIDE DEF token
  <1>3. TypeOK'
    <2>1. receive' \in [DOMAIN receive' -> PduState]
      <3>1. receive'[token] \in PduState
        BY <1>2 DEF PduState, Origin, Untouched
      <3>2. \A t \in DOMAIN receive : receive[t] \in PduState
        BY DEF TokenInv, TypeOK
      <3>3. \A t \in DOMAIN receive' : receive'[t] \in PduState
        BY <1>2, <3>1, <3>2
      <3>4. QED
        BY <1>2, <3>3
    <2>2. free' \in Seq(Tokens)
      BY <1>1, <1>2
    <2>3. QED
      BY <1>1, <1>2, <2>1, <2>2 DEF TokenInv, TypeOK, buffer
  <1>4. TokensOwned'
    <2>1. \A v \in Users : Holds(v) <=> pc[v] \notin {"idle", "new"}
      BY DEF TokenInv, TokensOwned
    <2>2. ~Holds(u) /\ Holds(u)' /\ \A v \in Users \ {u} : Holds(v)' = Holds(v)
      BY <1>1, <1>2, <2>1 DEF TokenInv, TypeOK, Holds, Tokens, NoToken
    <2>3. (\A v \in Users : Holds(v) <=> pc[v] \notin {"idle", "new"})'
      BY <1>2, <2>1, <2>2 DEF TokenInv, TypeOK
    <2>4. \A v \in Users : topic[v] # token
      BY <1>1 DEF TokenInv, TokensOwned
    <2>5. (\A v, w \in Users : Holds(v) /\ topic[v] = topic[w] => v = w)'
      <3>1. \A v, w \in Users : Holds(v) /\ topic[v] = topic[w] => v = w
        BY DEF TokenInv, TokensOwned
      <3>2. topic'[u] = token /\ \A v \in Users \ {u} : topic'[v] = topic[v]
        BY <1>2 DEF TokenInv, TypeOK
      <3>3. \A v \in Users \ {u} : topic'[v] # token
        BY <1>1, <2>4, <3>2 DEF Holds, Tokens, NoToken
      <3>4. QED
        BY <2>2, <3>1, <3>2, <3>3 DEF Holds
    <2>6. (\A t \in Tokens : t \in DOMAIN receive
                             <=> \E v \in Users : topic[v] = t)'
      <3>1. \A t \in Tokens : t \in DOMAIN receive <=> \E v \in Users : topic[v] = t
        BY DEF TokenInv, TokensOwned
      <3>2. topic'[u] = token /\ \A v \in Users \ {u} : topic'[v] = topic[v]
        BY <1>2 DEF TokenInv, TypeOK
      <3>3. topic[u] \notin Tokens
        BY <2>2 DEF TokenInv, TypeOK, Holds, Tokens, NoToken
      <3>4. QED
        BY <1>1, <1>2, <3>1, <3>2, <3>3, SMTT(30)
    <2>7. (\A t \in Tokens : t \in DOMAIN receive
                             <=> \A i \in DOMAIN free : free[i] # t)'
      <3>1. /\ \A i, j \in DOMAIN free : free[i] = free[j] => i = j
            /\ \A t \in Tokens : t \in DOMAIN receive
                                 <=> \A i \in DOMAIN free : free[i] # t
        BY DEF TokenInv, TokensOwned
      <3>2. /\ DOMAIN free = 1..Len(free)
            /\ DOMAIN free' = 1..(Len(free) - 1)
            /\ \A i \in DOMAIN free' : free'[i] = free[i]
        BY <1>1, <1>2
      <3>3. \A i \in DOMAIN free' : free'[i] # token
        BY <1>1, <3>1, <3>2
      <3>4. \A t \in Tokens \ {token} :
              (\E i \in DOMAIN free : free[i] = t)
              <=> (\E i \in DOMAIN free' : free'[i] = t)
        BY <1>1, <3>2
      <3>5. \A t \in Tokens \ {token} : t \in DOMAIN receive' <=> t \in DOMAIN receive
        BY <1>2
      <3>6. token \in DOMAIN receive'
        BY <1>2
      <3>7. QED
        BY <3>1, <3>3, <3>4, <3>5, <3>6
    <2>8. (\A i, j \in DOMAIN free : free[i] = free[j] => i = j)'
      BY <1>1, <1>2 DEF TokenInv, TokensOwned
    <2>9. QED
      BY <2>3, <2>5, <2>6, <2>7, <2>8 DEF TokensOwned
  <1>5. SendersPending'
    BY <1>2 DEF TokenInv, TypeOK, SendersPending
  <1>6. QED
    BY <1>3, <1>4, <1>5 DEF TokenInv

(* What the end of a topic does to the tokens.                               *)
LEMMA FreeTokenToken ==
  ASSUME TokenInv, NEW u \in Users, Holds(u), FreeToken(u),
         received' \subseteq Users, sent' \subseteq Users,
         UNCHANGED <<buffer, sendable, sender, tasks, request, answer, wire>>
  PROVE  TokenInv'
  <1> USE ConstantsAssumption
  <1> DEFINE token == topic[u]
  <1>1. token \in Tokens /\ token \in DOMAIN receive /\ token # NoToken
    BY DEF TokenInv, TypeOK, TokensOwned, Holds
  <1>2. /\ DOMAIN receive' = DOMAIN receive \ {token}
        /\ \A t \in DOMAIN receive' : receive'[t] = receive[t]
        /\ receive' = [t \in DOMAIN receive' |-> receive'[t]]
        /\ free' = Append(free, token)
        /\ topic' = [topic EXCEPT ![u] = NoToken]
        /\ pc' = [pc EXCEPT ![u] = "idle"]
    BY DEF FreeToken, Goto
  <1> HIDE DEF token
  <1>3. /\ free \in Seq(Tokens) /\ free' \in Seq(Tokens)
        /\ DOMAIN free' = DOMAIN free \cup {Len(free) + 1}
        /\ Len(free) + 1 \notin DOMAIN free
        /\ free'[Len(free) + 1] = token
        /\ \A i \in DOMAIN free : free'[i] = free[i]
    BY <1>1, <1>2 DEF TokenInv, TypeOK
  <1>4. /\ topic'[u] = NoToken /\ topic[u] = token
        /\ \A v \in Users \ {u} : topic'[v] = topic[v] /\ topic[v] # token
        /\ pc'[u] = "idle" /\ \A v \in Users \ {u} : pc'[v] = pc[v]
    BY <1>1, <1>2 DEF TokenInv, TypeOK, TokensOwned, Holds, token
  <1>5. TypeOK'
    <2>1. \A t \in DOMAIN receive' : receive'[t] \in PduState
      BY <1>2 DEF TokenInv, TypeOK
    <2>2. receive' \in [DOMAIN receive' -> PduState]
      BY <1>2, <2>1
    <2>3. QED
      BY <1>2, <1>3, <2>2 DEF TokenInv, TypeOK, buffer
  <1>6. TokensOwned'
    <2>1. (\A v \in Users : Holds(v) <=> pc[v] \notin {"idle", "new"})'
      BY <1>4 DEF TokenInv, TokensOwned, Holds
    <2>2. (\A v, w \in Users : Holds(v) /\ topic[v] = topic[w] => v = w)'
      BY <1>4 DEF TokenInv, TokensOwned, Holds
    <2>3. (\A t \in Tokens : t \in DOMAIN receive
                             <=> \E v \in Users : topic[v] = t)'
      <3>1. \A t \in Tokens : t \in DOMAIN receive <=> \E v \in Users : topic[v] = t
        BY DEF TokenInv, TokensOwned
      <3>2. NoToken \notin Tokens
        BY DEF NoToken, Tokens
      <3>3. QED
        BY <1>2, <1>4, <3>1, <3>2
    <2>4. token \notin {free[i] : i \in DOMAIN free}
      BY <1>1 DEF TokenInv, TokensOwned
    <2>5. (\A t \in Tokens : t \in DOMAIN receive
                             <=> \A i \in DOMAIN free : free[i] # t)'
      <3>1. \A t \in Tokens : t \in DOMAIN receive
                             <=> \A i \in DOMAIN free : free[i] # t
        BY DEF TokenInv, TokensOwned
      <3>2. QED
        BY <1>2, <1>3, <3>1
    <2>6. (\A i, j \in DOMAIN free : free[i] = free[j] => i = j)'
      <3>1. \A i, j \in DOMAIN free : free[i] = free[j] => i = j
        BY DEF TokenInv, TokensOwned
      <3>2. QED
        BY <1>3, <2>4, <3>1
    <2>7. QED
      BY <2>1, <2>2, <2>3, <2>5, <2>6 DEF TokensOwned
  <1>7. SendersPending'
    BY <1>4 DEF TokenInv, SendersPending
  <1>8. QED
    BY <1>5, <1>6, <1>7 DEF TokenInv

(* A step that leaves the topics and the free tokens alone, and reserves     *)
(* or frees no storage, keeps the ownership of the tokens.                   *)
LEMMA SameTokens ==
  ASSUME TokensOwned, UNCHANGED <<topic, free>>,
         DOMAIN receive' = DOMAIN receive,
         \A u \in Users : pc'[u] \in {"idle", "new"} <=> pc[u] \in {"idle", "new"}
  PROVE  TokensOwned'
  <1>1. \A u \in Users : Holds(u)' = Holds(u)
    BY DEF Holds
  <1>2. QED
    BY <1>1 DEF TokensOwned

(* The steps of a user that neither reserve nor free a token.                *)
LEMMA UserToken ==
  ASSUME TokenInv, NEW u \in Users,
         NewBlock(u) \/ SendBlocked(u) \/ SendFull(u) \/ Flush(u) \/ WaitStep(u)
  PROVE  TokenInv'
  <1> USE DEF TokenInv, TypeOK, buffer, users, Goto
  <1>1. CASE NewBlock(u)
    <2>1. TypeOK'
      BY <1>1 DEF NewBlock
    <2>2. TokensOwned'
      BY <1>1, SameTokens DEF NewBlock, Reserving
    <2>3. QED
      BY <1>1, <2>1, <2>2 DEF NewBlock, SendersPending
  <1>2. CASE SendBlocked(u)
    <2>1. TypeOK'
      BY <1>2 DEF SendBlocked
    <2>2. TokensOwned'
      BY <1>2, SameTokens DEF SendBlocked, Sending
    <2>3. QED
      BY <1>2, <2>1, <2>2 DEF SendBlocked, Sending, SendersPending
  <1>3. CASE SendFull(u)
    <2>1. TypeOK'
      BY <1>3 DEF SendFull
    <2>2. TokensOwned'
      BY <1>3, SameTokens DEF SendFull, Sending
    <2>3. QED
      BY <1>3, <2>1, <2>2 DEF SendFull, Sending, SendersPending
  <1>4. CASE Flush(u)
    <2>1. TypeOK'
      BY <1>4 DEF Flush
    <2>2. TokensOwned'
      BY <1>4, SameTokens DEF Flush
    <2>3. QED
      BY <1>4, <2>1, <2>2 DEF Flush, SendersPending
  <1>5. CASE WaitRegister(u)
    <2>1. TypeOK'
      BY <1>5 DEF WaitRegister
    <2>2. TokensOwned'
      BY <1>5, SameTokens DEF WaitRegister
    <2>3. QED
      BY <1>5, <2>1, <2>2 DEF WaitRegister, SendersPending
  <1>6. CASE WaitCheck(u)
    <2>1. TypeOK'
      BY <1>6 DEF WaitCheck
    <2>2. TokensOwned'
      BY <1>6, SameTokens DEF WaitCheck
    <2>3. QED
      BY <1>6, <2>1, <2>2 DEF WaitCheck, SendersPending
  <1>7. QED
    BY <1>1, <1>2, <1>3, <1>4, <1>5, <1>6 DEF WaitStep

(* A user outside of "idle" and "new" has a token with a storage.            *)
LEMMA HoldsStorage ==
  ASSUME TokenInv, NEW u \in Users, pc[u] \notin {"idle", "new"}
  PROVE  Holds(u) /\ topic[u] \in Tokens /\ topic[u] \in DOMAIN receive
  BY DEF TokenInv, TypeOK, TokensOwned, Holds

LEMMA SendStackToken ==
  ASSUME TokenInv, NEW u \in Users, SendStack(u)
  PROVE  TokenInv'
  <1> USE ConstantsAssumption
  <1>1. pc[u] \in {"topic", "sending"} /\ request[u] < Workload[u]
    BY DEF SendStack, Sending, TokenInv, SendersPending
  <1>2. topic[u] \in Tokens /\ topic[u] \in DOMAIN receive
    BY <1>1, HoldsStorage
  <1>3. /\ pc' = [pc EXCEPT ![u] = IF u \in Groups THEN "topic" ELSE "wait"]
        /\ request' = [request EXCEPT ![u] = @ + 1]
        /\ receive' = [receive EXCEPT ![topic[u]].aged = FALSE]
        /\ UNCHANGED <<ready, free, received, sent, sender, tasks, topic,
                       answer, wire>>
        /\ sendable' = TRUE
    BY DEF SendStack, Goto
  <1>4. TypeOK'
    <2>1. send' \in Seq(Pdu)
      <3> DEFINE chained == IF last_start <= last_end
                            THEN [send EXCEPT ![Len(send)].next = TRUE]
                            ELSE send
                 pdu == [token |-> topic[u], len |-> Size[u], next |-> FALSE,
                         request |-> <<u, request[u] + 1>>]
      <3>1. send \in Seq(Pdu)
        BY DEF TokenInv, TypeOK
      <3>2. [send EXCEPT ![Len(send)].next = TRUE] \in Seq(Pdu)
        <4>1. CASE send = <<>>
          <5>1. Len(send) \notin DOMAIN send
            BY <4>1
          <5>2. [send EXCEPT ![Len(send)].next = TRUE] = send
            BY <3>1, <5>1
          <5>3. QED
            BY <3>1, <5>2
        <4>2. CASE send # <<>>
          <5>1. Len(send) \in DOMAIN send /\ send[Len(send)] \in Pdu
            BY <3>1, <4>2
          <5>2. [send[Len(send)] EXCEPT !.next = TRUE] \in Pdu
            BY <5>1 DEF Pdu
          <5>3. [send EXCEPT ![Len(send)] = [send[Len(send)] EXCEPT !.next = TRUE]]
                  \in Seq(Pdu)
            BY <3>1, <5>1, <5>2
          <5>4. QED
            BY <3>1, <5>1, <5>3
        <4>3. QED
          BY <4>1, <4>2
      <3>3. pdu \in Pdu
        BY <1>2 DEF Pdu, Request, TokenInv, TypeOK
      <3>4. send' = Append(chained, pdu)
        BY DEF SendStack
      <3>5. QED
        BY <3>1, <3>2, <3>3, <3>4
    <2>2. last_start' \in Nat /\ last_end' \in Nat
      <3>1. /\ last_start' = Larger(last_start, last_end)
            /\ last_end' = Larger(last_start, last_end) + Size[u] + PduOverhead
        BY DEF SendStack
      <3>2. last_start \in Nat /\ last_end \in Nat /\ Size[u] \in Nat
        BY DEF TokenInv, TypeOK
      <3>3. QED
        BY <3>1, <3>2 DEF Larger, PduOverhead
    <2>3. receive' \in [DOMAIN receive' -> PduState] /\ DOMAIN receive' = DOMAIN receive
      <3>1. receive[topic[u]] \in PduState
        BY <1>2 DEF TokenInv, TypeOK
      <3>2. [receive[topic[u]] EXCEPT !.aged = FALSE] \in PduState
        BY <3>1 DEF PduState
      <3>3. receive' = [receive EXCEPT ![topic[u]] =
                          [receive[topic[u]] EXCEPT !.aged = FALSE]]
        BY <1>3
      <3>4. QED
        BY <1>2, <3>2, <3>3 DEF TokenInv, TypeOK
    <2>4. request' \in [Users -> Nat] /\ \A v \in Users : request'[v] <= Workload[v]
      BY <1>1, <1>3 DEF TokenInv, TypeOK
    <2>5. QED
      BY <1>3, <2>1, <2>2, <2>3, <2>4 DEF TokenInv, TypeOK
  <1>5. TokensOwned'
    <2>1. DOMAIN receive' = DOMAIN receive
      BY <1>3
    <2>2. QED
      BY <1>1, <1>3, <2>1, SameTokens DEF TokenInv, TypeOK
  <1>6. SendersPending'
    BY <1>3 DEF TokenInv, TypeOK, SendersPending
  <1>7. QED
    BY <1>4, <1>5, <1>6 DEF TokenInv

LEMMA ReceiveToken ==
  ASSUME TokenInv, NEW u \in Users, Receive(u)
  PROVE  TokenInv'
  <1> USE ConstantsAssumption
  <1>1. pc[u] \in {"done", "topic"} /\ topic[u] \in Tokens /\ topic[u] \in DOMAIN receive
    BY HoldsStorage DEF Receive
  <1>2. receive[topic[u]] \in PduState
    BY <1>1 DEF TokenInv, TypeOK
  <1>3. /\ receive' = [receive EXCEPT ![topic[u]].ready = 0]
        /\ answer' = [answer EXCEPT ![u] =
                        [answers |-> SaturatingSub(receive[topic[u]].ready, 1),
                         data    |-> receive[topic[u]].data]]
        /\ UNCHANGED <<buffer, free, sendable, received, sent, sender, tasks,
                       topic, request, wire>>
        /\ pc' = pc \/ pc' = [pc EXCEPT ![u] = "received"]
    BY DEF Receive, Goto
  <1>4. TypeOK'
    <2>1. receive' \in [DOMAIN receive' -> PduState] /\ DOMAIN receive' = DOMAIN receive
      <3>1. [receive[topic[u]] EXCEPT !.ready = 0] \in PduState
        BY <1>2 DEF PduState
      <3>2. receive' = [receive EXCEPT ![topic[u]] =
                          [receive[topic[u]] EXCEPT !.ready = 0]]
        BY <1>3
      <3>3. QED
        BY <1>1, <3>1, <3>2 DEF TokenInv, TypeOK
    <2>2. SaturatingSub(receive[topic[u]].ready, 1) \in 0..U16Max
      BY <1>2 DEF PduState, SaturatingSub, Larger
    <2>3. answer' \in [Users -> [answers : 0..U16Max, data : Origin]]
      BY <1>2, <1>3, <2>2 DEF TokenInv, TypeOK, PduState
    <2>4. QED
      BY <1>3, <2>1, <2>3 DEF TokenInv, TypeOK, buffer
  <1>5. TokensOwned'
    <2>1. DOMAIN receive' = DOMAIN receive
      BY <1>3
    <2>2. QED
      BY <1>1, <1>3, <2>1, SameTokens DEF TokenInv, TypeOK
  <1>6. SendersPending'
    BY <1>3 DEF TokenInv, TypeOK, SendersPending
  <1>7. QED
    BY <1>4, <1>5, <1>6 DEF TokenInv

LEMMA DropToken ==
  ASSUME TokenInv, NEW u \in Users, DropTopic(u) \/ Cancel(u)
  PROVE  TokenInv'
  <1>1. CASE DropTopic(u)
    <2>1. Holds(u)
      BY <1>1, HoldsStorage DEF DropTopic
    <2>2. received' \subseteq Users /\ sent' \subseteq Users
      BY <1>1 DEF DropTopic, TokenInv, TypeOK
    <2>3. QED
      BY <1>1, <2>1, <2>2, FreeTokenToken DEF DropTopic
  <1>2. CASE Cancel(u)
    <2>1. received' \subseteq Users /\ sent' \subseteq Users
      BY <1>2 DEF Cancel, TokenInv, TypeOK
    <2>2. CASE pc[u] = "new" /\ Goto(u, "idle") /\ UNCHANGED <<receive, free, topic>>
      <3>1. TypeOK'
        BY <1>2, <2>1, <2>2 DEF Cancel, Goto, TokenInv, TypeOK, buffer
      <3>2. TokensOwned'
        BY <2>2, SameTokens DEF Goto, TokenInv, TypeOK
      <3>3. QED
        BY <1>2, <2>2, <3>1, <3>2 DEF Cancel, Goto, TokenInv, TypeOK, SendersPending
    <2>3. CASE pc[u] \in {"sending", "asleep", "topic"} /\ FreeToken(u)
      <3>1. Holds(u)
        BY <2>3, HoldsStorage
      <3>2. QED
        BY <1>2, <2>1, <2>3, <3>1, FreeTokenToken DEF Cancel
    <2>4. QED
      BY <1>2, <2>2, <2>3 DEF Cancel
  <1>3. QED
    BY <1>1, <1>2

(* The steps of the tasks that change neither the users, the storages nor    *)
(* the free tokens.                                                          *)
LEMMA TaskToken ==
  ASSUME TokenInv,
         SenderStep \/ Stop \/ \E frame \in wire : Lose(frame)
  PROVE  TokenInv'
  <1>1. /\ UNCHANGED <<receive, free, users>>
        /\ received' = received
        /\ SendersPending'
    BY DEF SenderStep, SenderWake, MergeTimer, MergeWake, PollSend, SenderReset,
           SenderNotify, Stop, Lose, TokenInv, SendersPending, users
  <1>2. TypeOK'
    <2> USE DEF TokenInv, TypeOK, buffer, users
    <2>1. CASE SenderWake
      BY <2>1 DEF SenderWake
    <2>2. CASE MergeTimer
      BY <2>2 DEF MergeTimer
    <2>3. CASE MergeWake
      BY <2>3 DEF MergeWake
    <2>4. CASE PollSend
      BY <2>4 DEF PollSend
    <2>5. CASE SenderReset
      <3>1. send' \in Seq(Pdu) /\ last_start' \in Nat /\ last_end' \in Nat
        BY <2>5 DEF SenderReset, FrameHeader
      <3>2. ready' \in BOOLEAN /\ UNCHANGED <<receive, free, sendable, received,
                                    sent, tasks, pc, topic, request, answer, wire>>
        BY <2>5 DEF SenderReset
      <3>3. sender' = "notifying"
        BY <2>5 DEF SenderReset
      <3>4. QED
        BY <3>1, <3>2, <3>3
    <2>6. CASE SenderNotify
      BY <2>6 DEF SenderNotify
    <2>7. CASE Stop
      BY <2>7 DEF Stop
    <2>8. CASE \E frame \in wire : Lose(frame)
      BY <2>8 DEF Lose
    <2>9. QED
      BY <2>1, <2>2, <2>3, <2>4, <2>5, <2>6, <2>7, <2>8 DEF SenderStep
  <1>3. TokensOwned'
    BY <1>1, SameTokens DEF TokenInv, users
  <1>4. QED
    BY <1>1, <1>2, <1>3 DEF TokenInv

(* `saturating_add` of a working count stays a 16 bit word.                   *)
LEMMA SaturatingWord ==
  ASSUME NEW n \in WorkingCounts
  PROVE  SaturatingAdd(n, 1) \in 0..U16Max
  BY ConstantsAssumption DEF SaturatingAdd, Smaller

(* Dispatching PDUs keeps the storages, and fills them with working counts   *)
(* and requests.                                                             *)
LEMMA StoreType ==
  ASSUME TypeOK, NEW frame \in Seq(Pdu), NEW is \in SUBSET DOMAIN frame,
         NEW wc \in [DOMAIN frame -> WorkingCounts]
  PROVE  /\ DOMAIN Store(frame, is, wc) = DOMAIN receive
         /\ Store(frame, is, wc) \in [DOMAIN receive -> PduState]
  <1> DEFINE S == Store(frame, is, wc)
  <1> SUFFICES ASSUME NEW t \in DOMAIN receive PROVE S[t] \in PduState
    BY DEF Store
  <1>1. receive[t] \in PduState
    BY DEF TypeOK
  <1>2. CASE \E i \in is : LastFor(frame, is, t, i)
    <2> DEFINE last == CHOOSE i \in is : LastFor(frame, is, t, i)
    <2>1. last \in is /\ last \in DOMAIN frame
      BY <1>2
    <2>2. frame[last] \in Pdu
      BY <2>1
    <2>3. wc[last] \in WorkingCounts
      BY <2>1
    <2>4. SaturatingAdd(wc[last], 1) \in 0..U16Max
      BY <2>3, SaturatingWord
    <2>5. S[t] = [receive[t] EXCEPT !.ready = SaturatingAdd(wc[last], 1),
                                    !.data = frame[last].request]
      BY <1>2 DEF Store
    <2>6. frame[last].request \in Origin
      BY <2>2 DEF Pdu, Origin
    <2>7. \A n \in 0..U16Max, d \in Origin :
            [receive[t] EXCEPT !.ready = n, !.data = d] \in PduState
      BY <1>1 DEF PduState
    <2> HIDE DEF last, S
    <2>8. QED
      BY <2>4, <2>5, <2>6, <2>7
  <1>3. CASE ~\E i \in is : LastFor(frame, is, t, i)
    BY <1>1, <1>3 DEF Store
  <1>4. QED
    BY <1>2, <1>3

(* Any step that keeps the storages reserved, whatever it stores in them.    *)
LEMMA StorageToken ==
  ASSUME TokenInv, DOMAIN receive' = DOMAIN receive,
         receive' \in [DOMAIN receive -> PduState],
         received' = {}, wire' \subseteq wire,
         tasks' \in {"running", "failed", "poisoned", "stopped"},
         UNCHANGED <<buffer, free, sendable, sent, sender, users>>
  PROVE  TokenInv'
  <1>1. TypeOK'
    BY DEF TokenInv, TypeOK, buffer, users
  <1>2. TokensOwned'
    BY SameTokens DEF TokenInv, users
  <1>3. QED
    BY <1>1, <1>2 DEF TokenInv, SendersPending, users

LEMMA ReceiverToken ==
  ASSUME TokenInv, ReceiverStep
  PROVE  TokenInv'
  <1>0. PICK frame \in wire : \E wc \in [DOMAIN frame -> WorkingCounts] :
          \/ ReceiveFrame(frame, wc) \/ ReceiveMisread(frame, wc)
          \/ ReceivePanic(frame, wc) \/ ReceiveError(frame, wc)
    BY DEF ReceiverStep
  <1>1. PICK wc \in [DOMAIN frame -> WorkingCounts] :
          \/ ReceiveFrame(frame, wc) \/ ReceiveMisread(frame, wc)
          \/ ReceivePanic(frame, wc) \/ ReceiveError(frame, wc)
    BY <1>0
  <1>2. frame \in Seq(Pdu) /\ Dispatched(frame) \subseteq DOMAIN frame
    BY DEF TokenInv, TypeOK, Dispatched
  <1> DEFINE stored == Store(frame, Dispatched(frame), wc)
  <1>3. DOMAIN stored = DOMAIN receive /\ stored \in [DOMAIN receive -> PduState]
    BY <1>2, StoreType DEF TokenInv
  <1>4. /\ Reception(frame)
        /\ received' = {} /\ wire' \subseteq wire
        /\ UNCHANGED <<buffer, free, sendable, sent, sender, users>>
        /\ tasks' \in {"running", "failed", "poisoned", "stopped"}
    BY <1>1 DEF ReceiveFrame, ReceiveMisread, ReceivePanic, ReceiveError, Reception
  <1>5. DOMAIN receive' = DOMAIN receive /\ receive' \in [DOMAIN receive -> PduState]
    <2>1. CASE receive' = stored
      BY <1>3, <2>1
    <2>2. CASE \E t \in DOMAIN receive, n \in WorkingCounts :
                 receive' = [stored EXCEPT ![t].ready = SaturatingAdd(n, 1),
                                           ![t].data = Garbage]
      <3>1. PICK t \in DOMAIN receive, n \in WorkingCounts :
              receive' = [stored EXCEPT ![t].ready = SaturatingAdd(n, 1),
                                        ![t].data = Garbage]
        BY <2>2
      <3>2. SaturatingAdd(n, 1) \in 0..U16Max
        BY SaturatingWord
      <3> HIDE DEF stored
      <3>3. stored[t] \in PduState
        BY <1>3
      <3>4. [stored[t] EXCEPT !.ready = SaturatingAdd(n, 1), !.data = Garbage]
              \in PduState
        BY <3>2, <3>3 DEF PduState, Origin
      <3>5. receive' = [stored EXCEPT ![t] =
              [stored[t] EXCEPT !.ready = SaturatingAdd(n, 1), !.data = Garbage]]
        BY <1>3, <3>1
      <3>6. QED
        BY <1>3, <3>4, <3>5
    <2>3. CASE \E n \in 0..(Len(frame) - 1) :
                 1..n \subseteq Dispatched(frame) /\ receive' = Store(frame, 1..n, wc)
      <3>1. PICK n \in 0..(Len(frame) - 1) :
              1..n \subseteq Dispatched(frame) /\ receive' = Store(frame, 1..n, wc)
        BY <2>3
      <3>2. 1..n \in SUBSET DOMAIN frame
        BY <1>2, <3>1
      <3>3. QED
        BY <1>2, <3>1, <3>2, StoreType DEF TokenInv
    <2>4. QED
      BY <1>1, <2>1, <2>2, <2>3
         DEF ReceiveFrame, ReceiveMisread, ReceivePanic, ReceiveError
  <1>6. QED
    BY <1>4, <1>5, StorageToken

LEMMA TimeoutToken ==
  ASSUME TokenInv, TimeoutTick
  PROVE  TokenInv'
  <1>1. PICK expired \in SUBSET DOMAIN receive :
          receive' = [t \in DOMAIN receive |->
                        IF t \in expired
                        THEN [receive[t] EXCEPT !.aged = TRUE, !.ready = 1]
                        ELSE [receive[t] EXCEPT !.aged = TRUE]]
    BY DEF TimeoutTick
  <1>2. \A t \in DOMAIN receive : receive'[t] \in PduState
    <2> SUFFICES ASSUME NEW t \in DOMAIN receive PROVE receive'[t] \in PduState
      OBVIOUS
    <2>1. receive[t] \in PduState
      BY DEF TokenInv, TypeOK
    <2>2. 1 \in 0..U16Max
      BY ConstantsAssumption
    <2>3. /\ [receive[t] EXCEPT !.aged = TRUE] \in PduState
          /\ [receive[t] EXCEPT !.aged = TRUE, !.ready = 1] \in PduState
      BY <2>1, <2>2 DEF PduState
    <2>4. QED
      BY <1>1, <2>3
  <1>3. DOMAIN receive' = DOMAIN receive /\ receive' \in [DOMAIN receive -> PduState]
    BY <1>1, <1>2
  <1>4. QED
    BY <1>3, StorageToken DEF TimeoutTick, TokenInv, TypeOK

LEMMA NextToken == TokenInv /\ [Next]_vars => TokenInv'
  <1> SUFFICES ASSUME TokenInv, [Next]_vars PROVE TokenInv'
    OBVIOUS
  <1>1. ASSUME NEW u \in Users,
               \/ NewStep(u) \/ SendStep(u) \/ Flush(u) \/ WaitStep(u)
               \/ Receive(u) \/ DropTopic(u) \/ Cancel(u)
        PROVE  TokenInv'
    BY <1>1, NewReserveToken, UserToken, SendStackToken, ReceiveToken, DropToken
       DEF NewStep, SendStep
  <1>2. CASE SenderStep \/ Stop \/ \E frame \in wire : Lose(frame)
    BY <1>2, TaskToken
  <1>3. CASE ReceiverStep
    BY <1>3, ReceiverToken
  <1>4. CASE TimeoutTick
    BY <1>4, TimeoutToken
  <1>5. CASE UNCHANGED vars
    BY <1>5 DEF vars, buffer, users, TokenInv, TypeOK, TokensOwned, Holds,
                SendersPending
  <1>6. QED
    BY <1>1, <1>2, <1>3, <1>4, <1>5 DEF Next

LEMMA TokenInvariant == Spec => []TokenInv
  BY InitToken, NextToken, PTL DEF Spec

(* Every variable keeps its type.                                            *)
THEOREM TypeCorrect == Spec => []TypeOK
  <1>1. TokenInv => TypeOK
    BY DEF TokenInv
  <1>2. QED
    BY <1>1, TokenInvariant, PTL

(* Whatever is lost, late, cancelled or stopped, a token has one owner: two  *)
(* topics never share one, and the free stack and the storages partition     *)
(* the tokens.                                                               *)
THEOREM TokenOwnership == Spec => []TokensOwned
  <1>1. TokenInv => TokensOwned
    BY DEF TokenInv
  <1>2. QED
    BY <1>1, TokenInvariant, PTL

-----------------------------------------------------------------------------
(* The send buffer *)

(* The buffer is closed while it is read without the lock, and task_send     *)
(* only leaves its first loop when the buffer holds something.               *)
SenderHasFrame ==
  /\ sender \in {"sending", "resetting"} => ready
  /\ sender \in {"merging", "sending", "resetting"} => last_end # 0

LEMMA InitBuffer == Init => SendLayout /\ SenderHasFrame
  BY DEF Init, SendLayout, SenderHasFrame, FrameHeader

LEMMA AppendFacts ==
  ASSUME NEW S, NEW s \in Seq(S), NEW e \in S
  PROVE  /\ Append(s, e) \in Seq(S) /\ Len(Append(s, e)) = Len(s) + 1
         /\ Append(s, e)[Len(s) + 1] = e
         /\ \A i \in 1..Len(s) : Append(s, e)[i] = s[i]
  OBVIOUS

(* Stacking a PDU extends the layout, after a reset as after another PDU.    *)
LEMMA SendStackLayout ==
  ASSUME TypeOK, SendLayout, SenderHasFrame, NEW u \in Users, SendStack(u)
  PROVE  SendLayout' /\ SenderHasFrame' /\ send' # <<>>
  <1> DEFINE chained == IF last_start <= last_end
                        THEN [send EXCEPT ![Len(send)].next = TRUE]
                        ELSE send
             start == Larger(last_start, last_end)
             pdu == [token |-> topic[u], len |-> Size[u], next |-> FALSE,
                     request |-> <<u, request[u] + 1>>]
  <1>1. /\ send \in Seq(Pdu) /\ last_start \in Nat /\ last_end \in Nat
        /\ Size[u] \in Nat /\ MaxFrame \in Nat
    BY ConstantsAssumption DEF TypeOK
  <1>2. /\ send' = Append(chained, pdu)
        /\ last_start' = start /\ last_end' = start + Size[u] + PduOverhead
        /\ MaxFrame > Larger(last_end, last_start) + Size[u] + PduOverhead
        /\ ready' = ready /\ sender' = sender /\ ~ready
    BY DEF SendStack, Fits
  <1>3. /\ start \in Nat /\ FrameHeader <= start
        /\ Larger(last_end, last_start) = start
    BY <1>1 DEF Larger, SendLayout, FrameHeader
  <1>4. /\ chained \in Seq(Pdu)
        /\ Len(chained) = Len(send)
        /\ \A i \in DOMAIN chained : chained[i].next
    <2>1. CASE send = <<>>
      <3>1. chained = send
        BY <1>1, <2>1 DEF SendLayout, FrameHeader
      <3> HIDE DEF chained
      <3>2. DOMAIN send = {}
        BY <2>1
      <3>3. QED
        BY <1>1, <3>1, <3>2
    <2>2. CASE send # <<>>
      <3>1. /\ Len(send) \in Nat \ {0} /\ Len(send) \in DOMAIN send
            /\ send[Len(send)] \in Pdu
        BY <1>1, <2>2
      <3>2. last_start <= last_end
        BY <1>1, <2>2, <3>1 DEF SendLayout, Last, Pdu, PduOverhead
      <3>3. [send[Len(send)] EXCEPT !.next = TRUE] \in Pdu
        BY <3>1 DEF Pdu
      <3>4. chained = [send EXCEPT ![Len(send)] =
                         [send[Len(send)] EXCEPT !.next = TRUE]]
        BY <1>1, <3>1, <3>2
      <3>5. /\ chained \in Seq(Pdu) /\ Len(chained) = Len(send)
            /\ chained[Len(send)].next
            /\ \A i \in DOMAIN send \ {Len(send)} : chained[i] = send[i]
        <4> HIDE DEF chained
        <4>1. [send[Len(send)] EXCEPT !.next = TRUE].next
          BY <3>1 DEF Pdu
        <4>2. \A p \in Pdu :
                 LET c == [send EXCEPT ![Len(send)] = p]
                 IN /\ c \in Seq(Pdu) /\ Len(c) = Len(send) /\ c[Len(send)] = p
                    /\ \A i \in DOMAIN send \ {Len(send)} : c[i] = send[i]
          BY <1>1, <3>1
        <4>3. QED
          BY <3>3, <3>4, <4>1, <4>2
      <3>6. \A i \in DOMAIN send \ {Len(send)} : send[i].next
        BY <1>1 DEF SendLayout
      <3> HIDE DEF chained
      <3>7. QED
        BY <1>1, <3>1, <3>5, <3>6 DEF Pdu
    <2>3. QED
      BY <2>1, <2>2
  <1> HIDE DEF chained, start
  <1>5. /\ Len(send') = Len(send) + 1 /\ DOMAIN send' = 1..(Len(send) + 1)
        /\ send'[Len(send) + 1] = pdu /\ send' # <<>>
        /\ \A i \in 1..Len(send) : send'[i] = chained[i]
    <2> HIDE DEF pdu
    <2>1. chained \in Seq(Pdu \cup {pdu})
      BY <1>4
    <2>2. pdu \in Pdu \cup {pdu}
      OBVIOUS
    <2>3. /\ send' \in Seq(Pdu \cup {pdu}) /\ Len(send') = Len(send) + 1
          /\ send'[Len(send) + 1] = pdu
          /\ \A i \in 1..Len(send) : send'[i] = chained[i]
      BY <1>2, <1>4, <2>1, <2>2, AppendFacts
    <2>4. QED
      BY <1>1, <2>3
  <1>6. Last(send)' = pdu
    BY <1>5 DEF Last
  <1>7. \A i \in DOMAIN send' : send'[i].next <=> i < Len(send')
    BY <1>1, <1>4, <1>5
  <1>8. /\ last_end' # 0 /\ FrameHeader <= last_start' /\ last_end' < MaxFrame
        /\ last_end' = last_start' + Last(send)'.len + PduOverhead
    BY <1>1, <1>2, <1>3, <1>6 DEF FrameHeader, PduOverhead
  <1>9. QED
    BY <1>2, <1>5, <1>7, <1>8 DEF SendLayout, SenderHasFrame

LEMMA NextBuffer ==
  ASSUME TypeOK, SendLayout, SenderHasFrame, [Next]_vars
  PROVE  SendLayout' /\ SenderHasFrame'
  <1>1. CASE \E u \in Users : SendStack(u)
    BY <1>1, SendStackLayout
  <1>2. CASE SenderReset
    BY <1>2 DEF SenderReset, SendLayout, SenderHasFrame, FrameHeader
  <1>3. CASE /\ UNCHANGED <<last_start, last_end, send>>
             /\ ready => ready'
             /\ \/ sender' \in {sender, "idle", "notifying"}
                \/ ready' /\ last_end # 0
                \/ sender' = "merging" /\ last_end # 0
    <2>1. SendLayout'
      BY <1>3 DEF SendLayout, Last
    <2>2. SenderHasFrame'
      BY <1>3 DEF SenderHasFrame
    <2>3. QED
      BY <2>1, <2>2
  <1>4. ASSUME NEW u \in Users,
               \/ NewStep(u) \/ SendBlocked(u) \/ SendFull(u) \/ Flush(u)
               \/ WaitStep(u) \/ Receive(u) \/ DropTopic(u) \/ Cancel(u)
        PROVE  UNCHANGED <<last_start, last_end, send, sender>> /\ (ready => ready')
    BY <1>4 DEF NewStep, NewReserve, NewBlock, SendBlocked, SendFull, Flush,
                WaitStep, WaitRegister, WaitCheck, Receive, DropTopic, Cancel,
                buffer
  <1>5. CASE SenderWake \/ MergeTimer \/ MergeWake \/ PollSend \/ SenderNotify
    <2>1. UNCHANGED <<last_start, last_end, send>> /\ (ready => ready')
      BY <1>5 DEF SenderWake, MergeTimer, MergeWake, PollSend, SenderNotify, buffer
    <2>2. \/ sender' \in {sender, "idle"}
          \/ ready' /\ last_end # 0
          \/ sender' = "merging" /\ last_end # 0
      BY <1>5 DEF SenderWake, MergeTimer, MergeWake, PollSend, SenderNotify,
                  buffer, SenderHasFrame
    <2>3. QED
      BY <1>3, <2>1, <2>2
  <1>6. CASE \/ ReceiverStep \/ TimeoutTick \/ Stop \/ UNCHANGED vars
             \/ \E frame \in wire : Lose(frame)
    <2>1. UNCHANGED <<last_start, last_end, send, sender, ready>>
      BY <1>6 DEF ReceiverStep, ReceiveFrame, ReceiveMisread, ReceivePanic,
                  ReceiveError, Reception, TimeoutTick, Stop, Lose, vars, buffer
    <2>2. QED
      BY <1>3, <2>1
  <1>7. QED
    BY <1>1, <1>2, <1>3, <1>4, <1>5, <1>6 DEF Next, SendStep, SenderStep

(* In every reachable state the send buffer is a well-formed frame, shorter  *)
(* than the socket accepts, whose PDUs are chained to each other.            *)
THEOREM BufferLayout == Spec => []SendLayout
  <1>1. Init => SendLayout /\ SenderHasFrame
    BY InitBuffer
  <1>2. TypeOK /\ (SendLayout /\ SenderHasFrame) /\ [Next]_vars
          => (SendLayout /\ SenderHasFrame)'
    BY NextBuffer
  <1>3. QED
    BY <1>1, <1>2, TypeCorrect, PTL DEF Spec

LEMMA SenderInvariant == Spec => []SenderHasFrame
  <1>1. Init => SendLayout /\ SenderHasFrame
    BY InitBuffer
  <1>2. TypeOK /\ (SendLayout /\ SenderHasFrame) /\ [Next]_vars
          => (SendLayout /\ SenderHasFrame)'
    BY NextBuffer
  <1>3. QED
    BY <1>1, <1>2, TypeCorrect, PTL DEF Spec

(* While the socket reads the frame through a raw slice, with `state`        *)
(* unlocked, no step of any user changes it.                                 *)
THEOREM FrameStable == Spec => FrameFrozen
  <1>1. SenderHasFrame /\ [Next]_vars
          => [sender = "sending" => UNCHANGED <<send, last_start, last_end>>]_vars
    <2> SUFFICES ASSUME SenderHasFrame, Next, sender = "sending"
                 PROVE  UNCHANGED <<send, last_start, last_end>>
      OBVIOUS
    <2>1. ready
      BY DEF SenderHasFrame
    <2>2. ASSUME NEW u \in Users,
                 \/ NewStep(u) \/ SendStep(u) \/ Flush(u) \/ WaitStep(u)
                 \/ Receive(u) \/ DropTopic(u) \/ Cancel(u)
          PROVE  UNCHANGED <<send, last_start, last_end>>
      BY <2>1, <2>2 DEF NewStep, NewReserve, NewBlock, SendStep, SendBlocked,
           SendFull, SendStack, Flush, WaitStep, WaitRegister, WaitCheck, Receive,
           DropTopic, Cancel, buffer
    <2>3. CASE SenderStep
      BY <2>3 DEF SenderStep, SenderWake, MergeTimer, MergeWake, PollSend,
                  SenderReset, SenderNotify, buffer
    <2>4. CASE ReceiverStep \/ TimeoutTick \/ Stop \/ \E frame \in wire : Lose(frame)
      BY <2>4 DEF ReceiverStep, ReceiveFrame, ReceiveMisread, ReceivePanic,
                  ReceiveError, Reception, TimeoutTick, Stop, Lose, buffer
    <2>5. QED
      BY <2>2, <2>3, <2>4 DEF Next
  <1>2. QED
    BY <1>1, SenderInvariant, PTL DEF Spec, FrameFrozen

(* Provided every PDU fits an empty frame, which the code does not check,    *)
(* the buffer is never declared complete while it is empty: the deadlock of  *)
(* all the senders cannot happen.                                            *)
THEOREM SenderNeverStuck ==
  ASSUME \A u \in Users : MaxFrame > FrameHeader + Size[u] + PduOverhead
  PROVE  Spec => []ReadyHasFrame
  <1>1. Init => ReadyHasFrame
    BY DEF Init, ReadyHasFrame
  <1>2. TypeOK /\ SendLayout /\ SenderHasFrame /\ ReadyHasFrame /\ [Next]_vars
          => ReadyHasFrame'
    <2> SUFFICES ASSUME TypeOK, SendLayout, SenderHasFrame, ReadyHasFrame,
                        [Next]_vars
                 PROVE  ReadyHasFrame'
      OBVIOUS
    <2>1. CASE \E u \in Users : SendStack(u)
      BY <2>1 DEF SendStack, ReadyHasFrame
    <2>2. CASE \E u \in Users : SendFull(u)
      <3>1. PICK u \in Users : SendFull(u)
        BY <2>2
      <3>2. last_end # 0
        <4> SUFFICES ASSUME last_end = 0 PROVE FALSE
          OBVIOUS
        <4>1. last_start = FrameHeader /\ Size[u] \in Nat
          BY ConstantsAssumption DEF SendLayout
        <4>2. QED
          BY <3>1, <4>1 DEF SendFull, Fits, Larger, FrameHeader
      <3>3. QED
        BY <3>1, <3>2 DEF SendFull, ReadyHasFrame
    <2>3. ASSUME NEW u \in Users,
                 \/ NewStep(u) \/ SendBlocked(u) \/ Flush(u) \/ WaitStep(u)
                 \/ Receive(u) \/ DropTopic(u) \/ Cancel(u)
          PROVE  ReadyHasFrame'
      BY <2>3 DEF NewStep, NewReserve, NewBlock, SendBlocked, Flush, BufferUsed,
           WaitStep, WaitRegister, WaitCheck, Receive, DropTopic, Cancel, buffer,
           ReadyHasFrame
    <2>4. CASE SenderStep
      BY <2>4 DEF SenderStep, SenderWake, MergeTimer, MergeWake, PollSend,
                  SenderReset, SenderNotify, buffer, ReadyHasFrame, SenderHasFrame
    <2>5. CASE \/ ReceiverStep \/ TimeoutTick \/ Stop \/ UNCHANGED vars
               \/ \E frame \in wire : Lose(frame)
      BY <2>5 DEF ReceiverStep, ReceiveFrame, ReceiveMisread, ReceivePanic,
                  ReceiveError, Reception, TimeoutTick, Stop, Lose, vars, buffer,
                  ReadyHasFrame
    <2>6. QED
      BY <2>1, <2>2, <2>3, <2>4, <2>5 DEF Next, SendStep
  <1>3. QED
    BY <1>1, <1>2, TypeCorrect, BufferLayout, SenderInvariant, PTL DEF Spec

-----------------------------------------------------------------------------
(* A PDU is sent once *)

(* PDUs are stacked in the order their users count them.                     *)
Counted ==
  \A pdus \in wire \cup {send} : \A i \in DOMAIN pdus :
    pdus[i].request[2] <= request[pdus[i].request[1]]

(* What stacking does to the send buffer: the PDUs that are there keep all   *)
(* but their `next` flag.                                                    *)
LEMMA Stacked ==
  ASSUME TypeOK, SendLayout, NEW u \in Users, SendStack(u)
  PROVE  LET n == Len(send) IN
         /\ n \in Nat /\ DOMAIN send = 1..n /\ DOMAIN send' = 1..(n + 1)
         /\ send'[n + 1] = [token |-> topic[u], len |-> Size[u], next |-> FALSE,
                            request |-> <<u, request[u] + 1>>]
         /\ \A i \in 1..n : /\ send'[i].token = send[i].token
                            /\ send'[i].len = send[i].len
                            /\ send'[i].request = send[i].request
  <1> DEFINE chained == IF last_start <= last_end
                        THEN [send EXCEPT ![Len(send)].next = TRUE]
                        ELSE send
             pdu == [token |-> topic[u], len |-> Size[u], next |-> FALSE,
                     request |-> <<u, request[u] + 1>>]
  <1>1. send \in Seq(Pdu) /\ last_start \in Nat /\ last_end \in Nat
    BY DEF TypeOK
  <1>2. send' = Append(chained, pdu)
    BY DEF SendStack
  <1>3. /\ chained \in Seq(Pdu) /\ Len(chained) = Len(send)
        /\ \A i \in 1..Len(send) : /\ chained[i].token = send[i].token
                                   /\ chained[i].len = send[i].len
                                   /\ chained[i].request = send[i].request
    <2>1. CASE send = <<>>
      <3>1. chained = send
        BY <1>1, <2>1 DEF SendLayout, FrameHeader
      <3> HIDE DEF chained
      <3>2. QED
        BY <1>1, <3>1
    <2>2. CASE send # <<>>
      <3>1. /\ Len(send) \in Nat \ {0} /\ Len(send) \in DOMAIN send
            /\ send[Len(send)] \in Pdu
        BY <1>1, <2>2
      <3> DEFINE last == [send[Len(send)] EXCEPT !.next = TRUE]
      <3>2. /\ last \in Pdu /\ last.token = send[Len(send)].token
            /\ last.len = send[Len(send)].len
            /\ last.request = send[Len(send)].request
        BY <3>1 DEF Pdu
      <3>3. chained = send \/ chained = [send EXCEPT ![Len(send)] = last]
        BY <1>1, <3>1
      <3> HIDE DEF chained, last
      <3>4. CASE chained = send
        BY <1>1, <3>4
      <3>5. CASE chained = [send EXCEPT ![Len(send)] = last]
        <4>1. /\ chained \in Seq(Pdu) /\ Len(chained) = Len(send)
              /\ chained[Len(send)] = last
              /\ \A i \in 1..Len(send) : i # Len(send) => chained[i] = send[i]
          BY <1>1, <3>1, <3>2, <3>5
        <4>2. QED
          BY <3>2, <4>1
      <3>6. QED
        BY <3>3, <3>4, <3>5
    <2>3. QED
      BY <2>1, <2>2
  <1> HIDE DEF chained, pdu
  <1>4. chained \in Seq(Pdu \cup {pdu}) /\ pdu \in Pdu \cup {pdu}
    BY <1>3
  <1>5. /\ send' \in Seq(Pdu \cup {pdu}) /\ Len(send') = Len(send) + 1
        /\ send'[Len(send) + 1] = pdu
        /\ \A i \in 1..Len(send) : send'[i] = chained[i]
    BY <1>2, <1>3, <1>4, AppendFacts
  <1>6. QED
    BY <1>1, <1>3, <1>5 DEF pdu

(* Steps which neither stack nor send.                                       *)
LEMMA QuietOnce ==
  ASSUME TypeOK, Counted, SentOnce, UNCHANGED <<send, request>>, wire' \subseteq wire,
         sender = "resetting" => sender' = "resetting"
  PROVE  Counted' /\ SentOnce'
  <1>1. Counted'
    BY DEF Counted
  <1>2. SentOnce'
    BY SMTT(30) DEF SentOnce, Requests
  <1> QED BY <1>1, <1>2

LEMMA SendStackOnce ==
  ASSUME TypeOK, SendLayout, SenderHasFrame, Counted, SentOnce,
         NEW u \in Users, SendStack(u)
  PROVE  Counted' /\ SentOnce'
  <1> DEFINE n == Len(send)
             new == <<u, request[u] + 1>>
  <1>1. /\ n \in Nat /\ DOMAIN send = 1..n /\ DOMAIN send' = 1..(n + 1)
        /\ send'[n + 1].request = new
        /\ \A i \in 1..n : send'[i].request = send[i].request
    <2> HIDE DEF new
    <2>1. [token |-> topic[u], len |-> Size[u], next |-> FALSE, request |-> new].request = new
      OBVIOUS
    <2> QED BY <2>1, Stacked DEF new
  <1>2. /\ wire' = wire /\ sender' = sender /\ sender # "resetting"
        /\ request' = [request EXCEPT ![u] = @ + 1] /\ request \in [Users -> Nat]
    BY DEF SendStack, SenderHasFrame, TypeOK
  <1>3. \A pdus \in wire \cup {send} : \A i \in DOMAIN pdus :
          pdus[i].request \in Request
    <2> SUFFICES ASSUME NEW pdus \in wire \cup {send}, NEW i \in DOMAIN pdus
                 PROVE  pdus[i].request \in Request
      OBVIOUS
    <2>1. pdus \in Seq(Pdu)
      BY DEF TypeOK
    <2>2. pdus[i] \in Pdu
      BY <2>1
    <2> QED BY <2>2 DEF Pdu
  <1>4. \A v \in Users : request[v] \in Nat /\ request[v] <= request'[v]
    BY <1>2
  <1>5. \A pdus \in wire \cup {send} : \A i \in DOMAIN pdus :
          /\ pdus[i].request # new
          /\ pdus[i].request[2] <= request'[pdus[i].request[1]]
    <2> SUFFICES ASSUME NEW pdus \in wire \cup {send}, NEW i \in DOMAIN pdus
                 PROVE  /\ pdus[i].request # new
                        /\ pdus[i].request[2] <= request'[pdus[i].request[1]]
      OBVIOUS
    <2>1. PICK v \in Users, k \in Nat : pdus[i].request = <<v, k>>
      BY <1>3 DEF Request
    <2>2. k <= request[v]
      BY <2>1 DEF Counted
    <2>3. k <= request'[v] /\ <<v, k>> # new
      BY <1>2, <1>4, <2>2
    <2> QED BY <2>1, <2>3
  <1>6. request'[u] = request[u] + 1
    BY <1>2
  <1> HIDE DEF n
  <1>7. Counted'
    <2> SUFFICES ASSUME NEW pdus \in (wire \cup {send})', NEW i \in DOMAIN pdus
                 PROVE  pdus[i].request[2] <= request'[pdus[i].request[1]]
      BY DEF Counted
    <2>1. CASE pdus \in wire
      BY <1>5, <2>1
    <2>2. CASE pdus = send' /\ i \in 1..n
      BY <1>1, <1>5, <2>2
    <2>3. CASE pdus = send' /\ i = n + 1
      BY <1>1, <1>4, <1>6, <2>3
    <2> QED BY <1>1, <1>2, <2>1, <2>2, <2>3
  <1>8. Requests(send') \subseteq Requests(send) \cup {new}
    <2> SUFFICES ASSUME NEW i \in DOMAIN send'
                 PROVE  send'[i].request \in Requests(send) \cup {new}
      BY DEF Requests
    <2>1. CASE i \in 1..n
      BY <1>1, <2>1 DEF Requests
    <2>2. CASE i = n + 1
      BY <1>1, <2>2
    <2> QED BY <1>1, <2>1, <2>2
  <1>9. \A f \in wire : new \notin Requests(f)
    BY <1>5 DEF Requests
  <1> HIDE DEF new
  <1>10. \A f \in wire' : Requests(f) \cap Requests(send') = {}
    BY <1>2, <1>8, <1>9 DEF SentOnce
  <1>11. \A i, j \in 1..(n + 1) : send'[i].request = send'[j].request => i = j
    <2>1. \A i \in 1..n : send'[i].request # new
      BY <1>1, <1>5
    <2>2. \A i, j \in 1..n : send[i].request = send[j].request => i = j
      BY <1>1 DEF SentOnce
    <2> QED BY <1>1, <2>1, <2>2
  <1>12. SentOnce'
    BY <1>1, <1>2, <1>10, <1>11 DEF SentOnce
  <1> QED BY <1>7, <1>12

LEMMA NextOnce ==
  TypeOK /\ SendLayout /\ SenderHasFrame /\ (Counted /\ SentOnce) /\ [Next]_vars
    => (Counted /\ SentOnce)'
<1> SUFFICES ASSUME TypeOK, SendLayout, SenderHasFrame, Counted, SentOnce, [Next]_vars
             PROVE  Counted' /\ SentOnce'
  OBVIOUS
<1>1. CASE \E u \in Users : SendStack(u)
  BY <1>1, SendStackOnce
<1>2. CASE PollSend
  <2>1. /\ wire' = wire \cup {send} /\ send' = send /\ request' = request
        /\ sender = "sending" /\ sender' = "resetting"
    BY <1>2 DEF PollSend, buffer, users
  <2>2. Counted'
    BY <2>1 DEF Counted
  <2>3. SentOnce'
    BY <2>1 DEF SentOnce
  <2> QED BY <2>2, <2>3
<1>3. CASE SenderReset
  <2>1. wire' = wire /\ send' = <<>> /\ request' = request
    BY <1>3 DEF SenderReset, users
  <2>2. Counted'
    BY <2>1 DEF Counted
  <2>3. SentOnce'
    BY <2>1 DEF SentOnce, Requests
  <2> QED BY <2>2, <2>3
<1>4. ASSUME NEW u \in Users,
             \/ NewStep(u) \/ SendBlocked(u) \/ SendFull(u) \/ Flush(u)
             \/ WaitStep(u) \/ Receive(u) \/ DropTopic(u) \/ Cancel(u)
      PROVE  Counted' /\ SentOnce'
  <2>1. UNCHANGED <<send, request, wire, sender>>
    BY <1>4 DEF NewStep, NewReserve, NewBlock, SendBlocked, SendFull, Flush,
                WaitStep, WaitRegister, WaitCheck, Receive, DropTopic, Cancel,
                buffer, users
  <2> QED BY <2>1, QuietOnce
<1>5. CASE SenderWake \/ MergeTimer \/ MergeWake \/ SenderNotify
  <2>1. UNCHANGED <<send, request, wire>> /\ sender # "resetting"
    BY <1>5 DEF SenderWake, MergeTimer, MergeWake, SenderNotify, buffer, users
  <2> QED BY <2>1, QuietOnce
<1>6. CASE \/ ReceiverStep \/ TimeoutTick \/ Stop \/ UNCHANGED vars
           \/ \E frame \in wire : Lose(frame)
  <2>1. UNCHANGED <<send, request, sender>> /\ wire' \subseteq wire
    BY <1>6 DEF ReceiverStep, ReceiveFrame, ReceiveMisread, ReceivePanic,
                ReceiveError, Reception, TimeoutTick, Stop, Lose, vars, buffer, users
  <2> QED BY <2>1, QuietOnce
<1> QED BY <1>1, <1>2, <1>3, <1>4, <1>5, <1>6 DEF Next, SendStep, SenderStep

(* Whatever is lost, late, cancelled or stopped, the bytes of a PDU leave    *)
(* once: a sent buffer is emptied before anyone stacks again.                *)
THEOREM NeverResent == Spec => []SentOnce
<1>1. Init => Counted /\ SentOnce
  BY DEF Init, Counted, SentOnce
<1>2. QED
  BY <1>1, NextOnce, TypeCorrect, BufferLayout, SenderInvariant, PTL DEF Spec

LEMMA OnceInvariant == Spec => [](Counted /\ SentOnce)
<1>1. Init => Counted /\ SentOnce
  BY DEF Init, Counted, SentOnce
<1>2. QED
  BY <1>1, NextOnce, TypeCorrect, BufferLayout, SenderInvariant, PTL DEF Spec

-----------------------------------------------------------------------------
(* The answer of an exchange *)

(* The answer to a PDU in flight has its place: its user still has the token *)
(* and, unless it is a group, awaits this very PDU with nothing received.    *)
Expected(pdu) ==
  LET u == pdu.request[1] IN
  /\ topic[u] = pdu.token /\ pdu.len = Size[u]
  /\ u \notin Groups =>
       /\ pdu.request[2] = request[u]
       /\ pc[u] \in {"wait", "check", "asleep"}
       /\ receive[topic[u]].ready = 0

AllExpected == \A pdus \in Flying : \A i \in DOMAIN pdus : Expected(pdus[i])

Counts == {SaturatingAdd(w, 1) : w \in WorkingCounts}

(* What the storage of an exchange holds: nothing, whether it timed out or   *)
(* not, or the answer to its PDU.                                            *)
Outcome(u, n, data) ==
  \/ data = Untouched /\ n \in {0, 1}
  \/ data = <<u, request[u]>> /\ n \in Counts

ExchangeStored(u) ==
  LET storage == receive[topic[u]] IN
  /\ pc[u] \in {"topic", "sending"} => storage.ready = 0 /\ storage.data = Untouched
  /\ pc[u] \in {"wait", "check", "asleep", "done"} => Outcome(u, storage.ready, storage.data)
  /\ pc[u] = "received" =>
       \E n \in {0, 1} \cup Counts : /\ Outcome(u, n, answer[u].data)
                      /\ answer[u].answers = SaturatingSub(n, 1)

GroupStored(u) ==
  /\ pc[u] \in {"idle", "new", "topic", "sending"}
  /\ Holds(u) => \/ receive[topic[u]].ready \in {0, 1}
                 \/ receive[topic[u]].data[1] = u
  /\ answer[u].answers # 0 => answer[u].data[1] = u

Stored(u) ==
  /\ Holds(u) => receive[topic[u]].len = Size[u]
  /\ IF u \in Groups THEN GroupStored(u) ELSE ExchangeStored(u)

ExchangeInv ==
  tasks = "running" /\ AllExpected /\ \A u \in Users : Stored(u)

(* The answers come from the segment in time, and are awaited to the end.    *)
Cooperative == Timely /\ Abandon = {} /\ ~Faulty

(* What the other invariants say.                                            *)
BaseInv == TokenInv /\ SendLayout /\ SenderHasFrame /\ Counted /\ SentOnce

LEMMA CountsPositive == \A n \in Counts : n \in 0..U16Max /\ n # 0
  BY ConstantsAssumption DEF Counts, SaturatingAdd, Smaller

LEMMA FlyingPdus ==
  ASSUME TypeOK, NEW pdus \in Flying
  PROVE  /\ pdus \in Seq(Pdu)
         /\ \A i \in DOMAIN pdus :
              /\ pdus[i] \in Pdu /\ pdus[i].token \in Tokens
              /\ pdus[i].request \in Request /\ pdus[i].request[1] \in Users
<1>1. pdus \in Seq(Pdu)
  BY DEF TypeOK, Flying
<1>2. \A i \in DOMAIN pdus : pdus[i] \in Pdu
  BY <1>1
<1> QED BY <1>1, <1>2 DEF Pdu, Request

(* A user whose topic, storage and place are left alone.                     *)
LEMMA OtherStored ==
  ASSUME TokenInv, NEW v \in Users, Stored(v), pc'[v] = pc[v], topic'[v] = topic[v],
         request'[v] = request[v], answer'[v] = answer[v],
         Holds(v) => /\ receive'[topic[v]].len = receive[topic[v]].len
                     /\ receive'[topic[v]].ready = receive[topic[v]].ready
                     /\ receive'[topic[v]].data = receive[topic[v]].data
  PROVE  Stored(v)'
<1>1. Holds(v)' = Holds(v)
  BY DEF Holds
<1>2. pc[v] \in {"topic", "sending", "wait", "check", "asleep", "done", "received"} => Holds(v)
  BY DEF TokenInv, TokensOwned
<1>3. CASE v \in Groups
  BY <1>1, <1>3 DEF Stored, GroupStored
<1>4. CASE v \notin Groups
  BY <1>1, <1>2, <1>4 DEF Stored, ExchangeStored, Outcome
<1> QED BY <1>3, <1>4

(* A step of user u which leaves the PDUs in flight, and the others, alone.  *)
LEMMA OfUser ==
  ASSUME TokenInv, ExchangeInv, NEW u \in Users,
         UNCHANGED <<send, wire, sender, tasks>>,
         \A v \in Users \ {u} :
           /\ pc'[v] = pc[v] /\ topic'[v] = topic[v] /\ request'[v] = request[v]
           /\ answer'[v] = answer[v]
           /\ Holds(v) => receive'[topic[v]] = receive[topic[v]],
         Stored(u)',
         \A pdu \in Pdu : Expected(pdu) /\ pdu.request[1] = u => Expected(pdu)'
  PROVE  ExchangeInv'
<1>1. \A v \in Users : Stored(v)'
  BY OtherStored DEF ExchangeInv
<1>2. ASSUME NEW pdus \in Flying, NEW i \in DOMAIN pdus
      PROVE  Expected(pdus[i])'
  <2>1. pdus[i] \in Pdu /\ pdus[i].request[1] \in Users /\ pdus[i].token \in Tokens
    BY FlyingPdus DEF TokenInv
  <2>2. Expected(pdus[i])
    BY DEF ExchangeInv, AllExpected
  <2>3. CASE pdus[i].request[1] = u
    BY <2>1, <2>2, <2>3
  <2>4. CASE pdus[i].request[1] # u
    <3>1. Holds(pdus[i].request[1])
      BY <2>1, <2>2 DEF Expected, Holds, Tokens, NoToken
    <3> QED BY <2>1, <2>2, <2>4, <3>1 DEF Expected
  <2> QED BY <2>3, <2>4
<1>3. Flying' = Flying
  BY DEF Flying
<1>4. AllExpected'
  BY <1>2, <1>3 DEF AllExpected
<1> QED BY <1>1, <1>4 DEF ExchangeInv

(* A step of the tasks which keeps what users have and adds nothing in       *)
(* flight.                                                                   *)
LEMMA OfTasks ==
  ASSUME TokenInv, ExchangeInv, UNCHANGED <<users, receive, tasks>>,
         \A pdus \in Flying' : pdus \in Flying \/ pdus = <<>>
  PROVE  ExchangeInv'
<1>1. \A v \in Users : Stored(v)'
  BY OtherStored DEF ExchangeInv, users
<1>2. AllExpected'
  <2> SUFFICES ASSUME NEW pdus \in Flying', NEW i \in DOMAIN pdus PROVE Expected(pdus[i])'
    BY DEF AllExpected
  <2>1. pdus \in Flying
    OBVIOUS
  <2>2. Expected(pdus[i])
    BY <2>1 DEF ExchangeInv, AllExpected
  <2> QED BY <2>2 DEF Expected, users
<1> QED BY <1>1, <1>2 DEF ExchangeInv, users

LEMMA NewExchange ==
  ASSUME BaseInv, ExchangeInv, NEW u \in Users, NewStep(u)
  PROVE  ExchangeInv'
<1> USE DEF Goto
<1>1. TokenInv /\ TypeOK /\ TokensOwned
  BY DEF BaseInv, TokenInv
<1>2. pc[u] \in {"idle", "new"} /\ ~Holds(u) /\ Stored(u)
  BY <1>1 DEF NewStep, NewReserve, NewBlock, Reserving, TokensOwned, ExchangeInv
<1>3. \A pdu \in Pdu : ~(Expected(pdu) /\ pdu.request[1] = u)
  <2> SUFFICES ASSUME NEW pdu \in Pdu, Expected(pdu), pdu.request[1] = u PROVE FALSE
    OBVIOUS
  <2>1. pdu.token \in Tokens
    BY DEF Pdu
  <2> QED BY <1>2, <2>1 DEF Expected, Holds, Tokens, NoToken
<1>4. CASE NewBlock(u)
  <2>1. /\ UNCHANGED <<send, wire, sender, tasks, topic, request, answer, receive>>
        /\ pc' = [pc EXCEPT ![u] = "new"]
    BY <1>4 DEF NewBlock, buffer
  <2>2. pc'[u] = "new" /\ \A v \in Users \ {u} : pc'[v] = pc[v]
    BY <1>1, <2>1 DEF TypeOK
  <2>3. Stored(u)'
    BY <1>2, <2>1, <2>2 DEF Stored, GroupStored, ExchangeStored, Holds
  <2> QED BY <1>1, <1>3, <2>1, <2>2, <2>3, OfUser
<1>5. CASE NewReserve(u)
  <2> DEFINE token == Last(free)
  <2>1. token \in Tokens /\ token \notin DOMAIN receive
    <3>1. free \in Seq(Tokens) /\ free # <<>>
      BY <1>1, <1>5 DEF TypeOK, NewReserve
    <3>2. Len(free) \in DOMAIN free /\ free[Len(free)] \in Tokens
      BY <3>1
    <3> QED BY <1>1, <3>2 DEF Last, TokensOwned
  <2>2. /\ receive'[token] = [ready |-> 0, len |-> Size[u], aged |-> FALSE,
                              data |-> Untouched]
        /\ \A t \in DOMAIN receive : receive'[t] = receive[t]
        /\ topic' = [topic EXCEPT ![u] = token]
        /\ pc' = [pc EXCEPT ![u] = "topic"]
        /\ UNCHANGED <<send, wire, sender, tasks, request, answer>>
    BY <1>5, <2>1 DEF NewReserve, buffer
  <2> HIDE DEF token
  <2>3. /\ topic'[u] = token /\ pc'[u] = "topic"
        /\ \A v \in Users \ {u} : pc'[v] = pc[v] /\ topic'[v] = topic[v]
    BY <1>1, <2>2 DEF TypeOK
  <2>4. \A v \in Users \ {u} : Holds(v) => receive'[topic[v]] = receive[topic[v]]
    BY <1>1, <2>2 DEF TypeOK, TokensOwned, Holds
  <2>5. /\ receive'[token].len = Size[u] /\ receive'[token].ready = 0
        /\ receive'[token].data = Untouched
    BY <2>2
  <2>6. Stored(u)'
    BY <1>2, <2>2, <2>3, <2>5 DEF Stored, GroupStored, ExchangeStored
  <2> QED BY <1>1, <1>3, <2>2, <2>3, <2>4, <2>6, OfUser
<1> QED BY <1>4, <1>5 DEF NewStep

LEMMA SendExchange ==
  ASSUME BaseInv, ExchangeInv, NEW u \in Users,
         SendBlocked(u) \/ SendFull(u) \/ Flush(u)
  PROVE  ExchangeInv'
<1>1. TokenInv /\ TypeOK
  BY DEF BaseInv, TokenInv
<1>2. CASE Flush(u)
  <2>1. UNCHANGED <<users, receive, tasks, wire, send, sender>>
    BY <1>2 DEF Flush
  <2>2. Flying' = Flying
    BY <2>1 DEF Flying
  <2> QED BY <1>1, <2>1, <2>2, OfTasks
<1>3. CASE SendBlocked(u) \/ SendFull(u)
  <2>1. /\ UNCHANGED <<send, wire, sender, tasks, topic, request, answer, receive>>
        /\ pc' = [pc EXCEPT ![u] = "sending"] /\ pc[u] \in {"topic", "sending"}
    BY <1>3 DEF SendBlocked, SendFull, Sending, Goto, buffer
  <2>2. pc'[u] = "sending" /\ \A v \in Users \ {u} : pc'[v] = pc[v]
    BY <1>1, <2>1 DEF TypeOK
  <2>3. Stored(u)
    BY DEF ExchangeInv
  <2>4. Stored(u)'
    BY <2>1, <2>2, <2>3 DEF Stored, GroupStored, ExchangeStored, Holds
  <2>5. \A pdu \in Pdu : Expected(pdu) /\ pdu.request[1] = u => Expected(pdu)'
    BY <2>1 DEF Expected
  <2> QED BY <1>1, <2>1, <2>2, <2>4, <2>5, OfUser
<1> QED BY <1>2, <1>3

LEMMA WaitExchange ==
  ASSUME BaseInv, ExchangeInv, NEW u \in Users, WaitStep(u)
  PROVE  ExchangeInv'
<1>1. TokenInv /\ TypeOK
  BY DEF BaseInv, TokenInv
<1>2. /\ UNCHANGED <<send, wire, sender, tasks, topic, request, answer, receive>>
      /\ pc[u] \in {"wait", "check", "asleep"}
      /\ \/ pc' = [pc EXCEPT ![u] = "check"] \/ pc' = [pc EXCEPT ![u] = "asleep"]
         \/ pc' = [pc EXCEPT ![u] = "done"] /\ receive[topic[u]].ready # 0
  BY DEF WaitStep, WaitRegister, WaitCheck, Available, Goto, buffer
<1>3. /\ \/ pc'[u] \in {"check", "asleep"}
         \/ pc'[u] = "done" /\ receive[topic[u]].ready # 0
      /\ \A v \in Users \ {u} : pc'[v] = pc[v]
  BY <1>1, <1>2 DEF TypeOK
<1>4. Stored(u) /\ u \notin Groups
  BY <1>2 DEF ExchangeInv, Stored, GroupStored
<1>5. Stored(u)'
  BY <1>2, <1>3, <1>4 DEF Stored, ExchangeStored, Holds, Outcome
<1>6. \A pdu \in Pdu : Expected(pdu) /\ pdu.request[1] = u => Expected(pdu)'
  BY <1>2, <1>3, <1>4 DEF Expected
<1> QED BY <1>1, <1>2, <1>3, <1>5, <1>6, OfUser

(* A user takes the answer.                                                  *)
LEMMA ReceiveExchange ==
  ASSUME BaseInv, ExchangeInv, NEW u \in Users, Receive(u)
  PROVE  ExchangeInv'
<1>1. TokenInv /\ TypeOK /\ TokensOwned
  BY DEF BaseInv, TokenInv
<1>2. pc[u] \in {"done", "topic"} /\ (pc[u] = "topic" => u \in Groups) /\ Stored(u)
  BY DEF Receive, ExchangeInv
<1>3. Holds(u) /\ topic[u] \in DOMAIN receive
  BY <1>1, <1>2, HoldsStorage
<1> DEFINE storage == receive[topic[u]]
<1>4. storage \in PduState /\ storage.ready \in 0..U16Max
  BY <1>1, <1>3 DEF TypeOK, PduState
<1>5. /\ UNCHANGED <<send, wire, sender, tasks, topic, request>>
      /\ pc[u] = "done" => pc' = [pc EXCEPT ![u] = "received"]
      /\ pc[u] = "topic" => pc' = pc
      /\ receive' = [receive EXCEPT ![topic[u]].ready = 0]
      /\ answer' = [answer EXCEPT ![u] = [answers |-> SaturatingSub(storage.ready, 1),
                                          data |-> storage.data]]
  BY DEF Receive, Goto, buffer
<1>6. /\ receive'[topic[u]].ready = 0 /\ receive'[topic[u]].len = storage.len
      /\ \A t \in DOMAIN receive \ {topic[u]} : receive'[t] = receive[t]
  <2>1. receive' = [receive EXCEPT ![topic[u]] = [storage EXCEPT !.ready = 0]]
    BY <1>5
  <2>2. /\ [storage EXCEPT !.ready = 0].ready = 0
        /\ [storage EXCEPT !.ready = 0].len = storage.len
    BY <1>4 DEF PduState
  <2> HIDE DEF storage
  <2>3. receive'[topic[u]] = [storage EXCEPT !.ready = 0]
    BY <1>1, <1>3, <2>1 DEF TypeOK
  <2> QED BY <1>1, <1>3, <2>1, <2>2, <2>3 DEF TypeOK
<1>7. /\ answer'[u].answers = SaturatingSub(storage.ready, 1)
      /\ answer'[u].data = storage.data
      /\ \A v \in Users \ {u} : answer'[v] = answer[v]
  BY <1>1, <1>5 DEF TypeOK
<1>8. /\ pc'[u] = IF pc[u] = "done" THEN "received" ELSE "topic"
      /\ \A v \in Users \ {u} : pc'[v] = pc[v]
  BY <1>1, <1>2, <1>5 DEF TypeOK
<1>9. \A v \in Users \ {u} : Holds(v) => receive'[topic[v]] = receive[topic[v]]
  BY <1>1, <1>3, <1>6 DEF TypeOK, TokensOwned, Holds
<1>10. SaturatingSub(storage.ready, 1) # 0 => storage.ready \notin {0, 1}
  BY <1>4 DEF SaturatingSub, Larger
<1>11. Stored(u)'
  <2>1. CASE u \in Groups
    <3>1. pc[u] = "topic" /\ pc'[u] = "topic" /\ GroupStored(u) /\ storage.len = Size[u]
      BY <1>2, <1>3, <1>8, <2>1 DEF Stored, GroupStored
    <3> QED BY <1>3, <1>5, <1>6, <1>7, <1>10, <2>1, <3>1 DEF Stored, GroupStored, Holds
  <2>2. CASE u \notin Groups
    <3>1. /\ pc[u] = "done" /\ pc'[u] = "received" /\ storage.len = Size[u]
          /\ Outcome(u, storage.ready, storage.data)
      BY <1>2, <1>3, <1>8, <2>2 DEF Stored, ExchangeStored
    <3>2. storage.ready \in {0, 1} \cup Counts
      BY <3>1 DEF Outcome
    <3>3. PICK k \in {0, 1} \cup Counts :
             Outcome(u, k, storage.data) /\ answer'[u].answers = SaturatingSub(k, 1)
      BY <1>7, <3>1, <3>2
    <3>4. \/ answer'[u].data = Untouched /\ k \in {0, 1}
          \/ answer'[u].data = <<u, request'[u]>> /\ k \in Counts
      BY <1>5, <1>7, <3>3 DEF Outcome
    <3> QED BY <1>5, <1>6, <1>7, <2>2, <3>1, <3>3, <3>4
            DEF Stored, ExchangeStored, Holds, Outcome
  <2> QED BY <2>1, <2>2
<1>12. \A pdu \in Pdu : Expected(pdu) /\ pdu.request[1] = u => Expected(pdu)'
  BY <1>2, <1>5, <1>6, <1>8 DEF Expected
<1> QED BY <1>1, <1>5, <1>7, <1>8, <1>9, <1>11, <1>12, OfUser

LEMMA DropExchange ==
  ASSUME BaseInv, ExchangeInv, NEW u \in Users, DropTopic(u)
  PROVE  ExchangeInv'
<1>1. TokenInv /\ TypeOK /\ TokensOwned
  BY DEF BaseInv, TokenInv
<1>2. pc[u] = "received" /\ u \notin Groups
  BY DEF DropTopic, ExchangeInv, Stored, GroupStored
<1>3. Holds(u)
  BY <1>1, <1>2, HoldsStorage
<1>4. /\ UNCHANGED <<send, wire, sender, tasks, request, answer>>
      /\ receive' = [t \in DOMAIN receive \ {topic[u]} |-> receive[t]]
      /\ topic' = [topic EXCEPT ![u] = NoToken]
      /\ pc' = [pc EXCEPT ![u] = "idle"]
  BY DEF DropTopic, FreeToken, Goto, buffer
<1>5. /\ topic'[u] = NoToken /\ pc'[u] = "idle"
      /\ \A v \in Users \ {u} : pc'[v] = pc[v] /\ topic'[v] = topic[v]
  BY <1>1, <1>4 DEF TypeOK
<1>6. \A v \in Users \ {u} : Holds(v) => receive'[topic[v]] = receive[topic[v]]
  BY <1>1, <1>3, <1>4 DEF TypeOK, TokensOwned, Holds
<1>7. Stored(u)'
  BY <1>2, <1>5 DEF Stored, ExchangeStored, Holds
<1>8. \A pdu \in Pdu : ~(Expected(pdu) /\ pdu.request[1] = u)
  BY <1>2 DEF Expected
<1> QED BY <1>1, <1>4, <1>5, <1>6, <1>7, <1>8, OfUser

(* The PDU stacked is expected, and no other one of an exchange is.          *)
LEMMA StackExchange ==
  ASSUME BaseInv, ExchangeInv, NEW u \in Users, SendStack(u)
  PROVE  ExchangeInv'
<1> DEFINE n == Len(send)
           pdu == [token |-> topic[u], len |-> Size[u], next |-> FALSE,
                   request |-> <<u, request[u] + 1>>]
           next == IF u \in Groups THEN "topic" ELSE "wait"
<1>1. TokenInv /\ TypeOK /\ TokensOwned /\ SendLayout /\ SenderHasFrame
  BY DEF BaseInv, TokenInv
<1>2. pc[u] \in {"topic", "sending"} /\ Stored(u) /\ sender # "resetting"
  BY <1>1 DEF SendStack, Sending, SenderHasFrame, ExchangeInv
<1>3. Holds(u) /\ topic[u] \in DOMAIN receive
  BY <1>1, <1>2, HoldsStorage
<1>4. /\ UNCHANGED <<wire, sender, tasks, topic, answer>>
      /\ request' = [request EXCEPT ![u] = @ + 1]
      /\ receive' = [receive EXCEPT ![topic[u]].aged = FALSE]
      /\ pc' = [pc EXCEPT ![u] = next]
  BY DEF SendStack, Goto
<1>5. /\ receive'[topic[u]].ready = receive[topic[u]].ready
      /\ receive'[topic[u]].len = receive[topic[u]].len
      /\ receive'[topic[u]].data = receive[topic[u]].data
      /\ \A t \in DOMAIN receive \ {topic[u]} : receive'[t] = receive[t]
  <2> DEFINE storage == receive[topic[u]]
  <2>1. storage \in PduState
    BY <1>1, <1>3 DEF TypeOK
  <2>2. /\ [storage EXCEPT !.aged = FALSE].ready = storage.ready
        /\ [storage EXCEPT !.aged = FALSE].len = storage.len
        /\ [storage EXCEPT !.aged = FALSE].data = storage.data
    BY <2>1 DEF PduState
  <2>3. receive' = [receive EXCEPT ![topic[u]] = [storage EXCEPT !.aged = FALSE]]
    BY <1>4
  <2> HIDE DEF storage
  <2>4. /\ receive'[topic[u]] = [storage EXCEPT !.aged = FALSE]
        /\ \A t \in DOMAIN receive \ {topic[u]} : receive'[t] = receive[t]
    BY <1>1, <1>3, <2>3 DEF TypeOK
  <2> QED BY <2>2, <2>4 DEF storage
<1>6. /\ pc'[u] = next /\ request'[u] = request[u] + 1
      /\ \A v \in Users \ {u} : pc'[v] = pc[v] /\ request'[v] = request[v]
  BY <1>1, <1>4 DEF TypeOK
<1>7. \A v \in Users \ {u} : Holds(v) => receive'[topic[v]] = receive[topic[v]]
  BY <1>1, <1>3, <1>5 DEF TypeOK, TokensOwned, Holds
<1>8. Stored(u)'
  <2>1. CASE u \in Groups
    BY <1>2, <1>3, <1>4, <1>5, <1>6, <2>1 DEF Stored, GroupStored, Holds
  <2>2. CASE u \notin Groups
    <3>1. /\ pc'[u] = "wait" /\ topic'[u] = topic[u]
          /\ receive'[topic[u]].ready = 0 /\ receive'[topic[u]].data = Untouched
          /\ receive'[topic[u]].len = Size[u]
      BY <1>2, <1>3, <1>4, <1>5, <1>6, <2>2 DEF Stored, ExchangeStored
    <3> QED BY <2>2, <3>1 DEF Stored, ExchangeStored, Outcome
  <2> QED BY <2>1, <2>2
<1>9. \A v \in Users : Stored(v)'
  BY <1>1, <1>4, <1>6, <1>7, <1>8, OtherStored DEF ExchangeInv
<1>10. ASSUME NEW pdus \in Flying, NEW i \in DOMAIN pdus
       PROVE  Expected(pdus[i])'
  <2>1. pdus[i] \in Pdu /\ pdus[i].request[1] \in Users /\ pdus[i].token \in Tokens
    BY <1>1, FlyingPdus
  <2>2. Expected(pdus[i])
    BY DEF ExchangeInv, AllExpected
  <2>3. CASE pdus[i].request[1] = u
    BY <1>2, <1>4, <2>2, <2>3 DEF Expected
  <2>4. CASE pdus[i].request[1] # u
    <3>1. Holds(pdus[i].request[1])
      BY <2>1, <2>2 DEF Expected, Holds, Tokens, NoToken
    <3> QED BY <1>4, <1>6, <1>7, <2>1, <2>2, <2>4, <3>1 DEF Expected
  <2> QED BY <2>3, <2>4
<1>11. /\ n \in Nat /\ DOMAIN send = 1..n /\ DOMAIN send' = 1..(n + 1)
       /\ send'[n + 1] = pdu
       /\ \A i \in 1..n : /\ send'[i].token = send[i].token
                          /\ send'[i].len = send[i].len
                          /\ send'[i].request = send[i].request
  BY <1>1, Stacked
<1>12. PICK new : new = pdu
  OBVIOUS
<1>13. Expected(new)'
  <2>1. u \notin Groups => receive[topic[u]].ready = 0
    BY <1>2 DEF Stored, ExchangeStored
  <2>2. /\ new.token = topic[u] /\ new.len = Size[u]
        /\ new.request[1] = u /\ new.request[2] = request[u] + 1
    BY <1>12
  <2> QED BY <1>4, <1>5, <1>6, <2>1, <2>2 DEF Expected
<1> HIDE DEF n, pdu
<1>14. ASSUME NEW pdus \in Flying', NEW i \in DOMAIN pdus
       PROVE  Expected(pdus[i])'
  <2>1. pdus \in wire \/ pdus = send'
    BY <1>4 DEF Flying
  <2>2. CASE pdus \in wire
    BY <1>10, <2>2 DEF Flying
  <2>3. CASE pdus = send' /\ i = n + 1
    BY <1>11, <1>12, <1>13, <2>3
  <2>4. CASE pdus = send' /\ i \in 1..n
    <3>1. PICK former \in Flying : former = send
      BY <1>2 DEF Flying
    <3>2. i \in DOMAIN former /\ Expected(former[i])'
      BY <1>10, <1>11, <2>4, <3>1
    <3>3. /\ pdus[i].token = former[i].token /\ pdus[i].len = former[i].len
          /\ pdus[i].request = former[i].request
      BY <1>11, <2>4, <3>1
    <3> QED BY <3>2, <3>3 DEF Expected
  <2> QED BY <1>11, <2>1, <2>2, <2>3, <2>4
<1>15. AllExpected'
  BY <1>14 DEF AllExpected
<1> QED BY <1>4, <1>9, <1>15 DEF ExchangeInv

(* The tasks send what is in the buffer, and the segment loses frames.       *)
LEMMA SenderExchange ==
  ASSUME BaseInv, ExchangeInv, SenderStep \/ \E frame \in wire : Lose(frame)
  PROVE  ExchangeInv'
<1>1. TokenInv
  BY DEF BaseInv
<1>2. UNCHANGED <<users, receive, tasks>>
  BY DEF SenderStep, SenderWake, MergeTimer, MergeWake, PollSend, SenderReset,
         SenderNotify, Lose
<1>3. \A pdus \in Flying' : pdus \in Flying \/ pdus = <<>>
  <2>1. CASE SenderWake \/ MergeTimer \/ MergeWake \/ SenderNotify
    <3>1. UNCHANGED <<send, wire>> /\ sender # "resetting"
      BY <2>1 DEF SenderWake, MergeTimer, MergeWake, SenderNotify, buffer
    <3> QED BY <3>1 DEF Flying
  <2>2. CASE PollSend
    BY <2>2 DEF PollSend, Flying, buffer
  <2>3. CASE SenderReset
    BY <2>3 DEF SenderReset, Flying
  <2>4. CASE \E frame \in wire : Lose(frame)
    BY <2>4 DEF Lose, Flying, buffer
  <2> QED BY <2>1, <2>2, <2>3, <2>4 DEF SenderStep
<1> QED BY <1>1, <1>2, <1>3, OfTasks

-----------------------------------------------------------------------------
(* Reception *)

(* Every PDU of a frame finds the storage of its user.                       *)
LEMMA AllDispatched ==
  ASSUME TokenInv, ExchangeInv, NEW frame \in wire
  PROVE  /\ Dispatched(frame) = DOMAIN frame
         /\ Cardinality(Dispatched(frame)) = Len(frame)
<1>1. /\ frame \in Flying /\ frame \in Seq(Pdu)
      /\ Len(frame) \in Nat /\ DOMAIN frame = 1..Len(frame)
  BY DEF Flying, TokenInv, TypeOK
<1>2. \A i \in DOMAIN frame : Matches(frame[i])
  <2> SUFFICES ASSUME NEW i \in DOMAIN frame PROVE Matches(frame[i])
    OBVIOUS
  <2> DEFINE u == frame[i].request[1]
  <2>1. u \in Users /\ frame[i].token \in Tokens
    BY <1>1, FlyingPdus DEF TokenInv
  <2>2. topic[u] = frame[i].token /\ frame[i].len = Size[u]
    BY <1>1 DEF ExchangeInv, AllExpected, Expected
  <2>3. Holds(u) /\ frame[i].token \in DOMAIN receive
    BY <2>1, <2>2 DEF TokenInv, TokensOwned, Holds, Tokens, NoToken
  <2>4. receive[topic[u]].len = Size[u]
    BY <2>1, <2>3 DEF ExchangeInv, Stored
  <2> QED BY <2>2, <2>3, <2>4 DEF Matches
<1>3. Dispatched(frame) = DOMAIN frame
  BY <1>1, <1>2 DEF Dispatched
<1>4. Cardinality(1..Len(frame)) = Len(frame)
  BY <1>1, FS_Interval
<1> QED BY <1>1, <1>3, <1>4

(* So that the only thing that happens to a frame is to be dispatched whole. *)
LEMMA OnlyReceived ==
  ASSUME TokenInv, ExchangeInv, ~Faulty, ReceiverStep
  PROVE  \E frame \in wire : \E wc \in [DOMAIN frame -> WorkingCounts] :
           /\ Reception(frame) /\ tasks' = "running"
           /\ receive' = Store(frame, DOMAIN frame, wc)
<1>1. PICK frame \in wire : \E wc \in [DOMAIN frame -> WorkingCounts] :
        \/ ReceiveFrame(frame, wc) \/ ReceiveMisread(frame, wc)
        \/ ReceivePanic(frame, wc) \/ ReceiveError(frame, wc)
  BY DEF ReceiverStep
<1>2. PICK wc \in [DOMAIN frame -> WorkingCounts] :
        \/ ReceiveFrame(frame, wc) \/ ReceiveMisread(frame, wc)
        \/ ReceivePanic(frame, wc) \/ ReceiveError(frame, wc)
  BY <1>1
<1>3. /\ Dispatched(frame) = DOMAIN frame
      /\ Cardinality(Dispatched(frame)) = Len(frame) /\ Len(frame) \in Nat
  BY AllDispatched DEF TokenInv, TypeOK
<1>4. ~ReceiveMisread(frame, wc) /\ ~ReceivePanic(frame, wc) /\ ~ReceiveError(frame, wc)
  BY <1>3 DEF ReceiveMisread, ReceivePanic, ReceiveError
<1>5. ReceiveFrame(frame, wc)
  BY <1>2, <1>4
<1>6. Reception(frame) /\ tasks' = "running" /\ receive' = Store(frame, DOMAIN frame, wc)
  BY <1>3, <1>5 DEF ReceiveFrame, Reception, ExchangeInv
<1> QED BY <1>6

(* What a storage holds after a frame: what it held, or the answer to a PDU  *)
(* of its token.                                                             *)
LEMMA Kept ==
  ASSUME TypeOK, NEW frame \in Seq(Pdu), NEW wc \in [DOMAIN frame -> WorkingCounts],
         NEW t \in DOMAIN receive
  PROVE  LET kept == Store(frame, DOMAIN frame, wc)[t] IN
         /\ kept.len = receive[t].len
         /\ \/ \E i \in DOMAIN frame : /\ frame[i].token = t /\ kept.ready \in Counts
                                       /\ kept.data = frame[i].request
            \/ kept = receive[t]
<1> DEFINE kept == Store(frame, DOMAIN frame, wc)[t]
<1>1. receive[t] \in PduState
  BY DEF TypeOK
<1>2. CASE \E i \in DOMAIN frame : LastFor(frame, DOMAIN frame, t, i)
  <2> DEFINE last == CHOOSE i \in DOMAIN frame : LastFor(frame, DOMAIN frame, t, i)
  <2>1. last \in DOMAIN frame /\ frame[last].token = t
    BY <1>2 DEF LastFor
  <2>2. kept = [receive[t] EXCEPT !.ready = SaturatingAdd(wc[last], 1),
                                  !.data = frame[last].request]
    BY <1>2 DEF Store
  <2>3. SaturatingAdd(wc[last], 1) \in Counts
    BY <2>1 DEF Counts
  <2> HIDE DEF last
  <2>4. \A k, d : LET r == [receive[t] EXCEPT !.ready = k, !.data = d]
                  IN r.len = receive[t].len /\ r.ready = k /\ r.data = d
    BY <1>1 DEF PduState
  <2> HIDE DEF kept
  <2>5. /\ kept.len = receive[t].len /\ kept.ready = SaturatingAdd(wc[last], 1)
        /\ kept.data = frame[last].request
    BY <2>2, <2>4
  <2> QED BY <2>1, <2>3, <2>5 DEF kept
<1>3. CASE ~\E i \in DOMAIN frame : LastFor(frame, DOMAIN frame, t, i)
  BY <1>3 DEF Store
<1> QED BY <1>2, <1>3

LEMMA ReceiverExchange ==
  ASSUME BaseInv, ExchangeInv, ~Faulty, ReceiverStep
  PROVE  ExchangeInv'
<1>1. TokenInv /\ TypeOK /\ TokensOwned /\ SentOnce
  BY DEF BaseInv, TokenInv
<1>2. PICK frame \in wire : \E wc \in [DOMAIN frame -> WorkingCounts] :
        /\ Reception(frame) /\ tasks' = "running"
        /\ receive' = Store(frame, DOMAIN frame, wc)
  BY <1>1, OnlyReceived
<1>3. PICK wc \in [DOMAIN frame -> WorkingCounts] :
        /\ Reception(frame) /\ tasks' = "running"
        /\ receive' = Store(frame, DOMAIN frame, wc)
  BY <1>2
<1>4. /\ frame \in Flying /\ frame \in Seq(Pdu)
      /\ wire' = wire \ {frame} /\ UNCHANGED <<send, sender, users>>
  BY <1>1, <1>3 DEF Flying, Reception, TypeOK, buffer
<1>5. \A t \in DOMAIN receive :
        /\ receive'[t].len = receive[t].len
        /\ \/ \E i \in DOMAIN frame : /\ frame[i].token = t /\ receive'[t].ready \in Counts
                                      /\ receive'[t].data = frame[i].request
           \/ receive'[t] = receive[t]
  BY <1>1, <1>3, <1>4, Kept
(* A PDU of the frame with the token of a user is this user's.               *)
<1>6. ASSUME NEW v \in Users, Holds(v), NEW i \in DOMAIN frame, frame[i].token = topic[v]
      PROVE  /\ frame[i].request[1] = v
             /\ v \notin Groups => /\ frame[i].request = <<v, request[v]>>
                                   /\ pc[v] \in {"wait", "check", "asleep"}
  <2>1. /\ frame[i].request \in Request /\ frame[i].request[1] \in Users
        /\ frame[i].token \in Tokens /\ Expected(frame[i])
    BY <1>1, <1>4, FlyingPdus DEF ExchangeInv, AllExpected
  <2>2. PICK w \in Users, k \in Nat : frame[i].request = <<w, k>>
    BY <2>1 DEF Request
  <2>3. topic[w] = topic[v]
    BY <1>6, <2>1, <2>2 DEF Expected
  <2>4. w = v
    BY <1>1, <1>6, <2>2, <2>3 DEF TokensOwned, Holds
  <2> QED BY <2>1, <2>2, <2>4 DEF Expected
<1>7. ASSUME NEW v \in Users
      PROVE  Stored(v)'
  <2>1. Stored(v) /\ UNCHANGED <<pc, topic, request, answer>>
    BY <1>4 DEF ExchangeInv, users
  <2>2. CASE ~Holds(v) \/ receive'[topic[v]] = receive[topic[v]]
    BY <1>1, <2>1, <2>2, OtherStored
  <2>3. CASE Holds(v) /\ receive'[topic[v]] # receive[topic[v]]
    <3>1. topic[v] \in DOMAIN receive
      BY <1>1, <2>3 DEF TokensOwned, TypeOK, Holds
    <3>2. PICK i \in DOMAIN frame : /\ frame[i].token = topic[v]
                                    /\ receive'[topic[v]].ready \in Counts
                                    /\ receive'[topic[v]].data = frame[i].request
      BY <1>5, <2>3, <3>1
    <3>3. /\ frame[i].request[1] = v
          /\ v \notin Groups => /\ frame[i].request = <<v, request[v]>>
                                /\ pc[v] \in {"wait", "check", "asleep"}
      BY <1>6, <2>3, <3>2
    <3>4. receive'[topic[v]].len = receive[topic[v]].len
      BY <1>5, <3>1
    <3>5. CASE v \in Groups
      BY <2>1, <2>3, <3>2, <3>3, <3>4, <3>5 DEF Stored, GroupStored, Holds
    <3>6. CASE v \notin Groups
      BY <2>1, <2>3, <3>2, <3>3, <3>4, <3>6 DEF Stored, ExchangeStored, Outcome, Holds
    <3> QED BY <3>5, <3>6
  <2> QED BY <2>2, <2>3
<1>8. ASSUME NEW pdus \in Flying', NEW j \in DOMAIN pdus
      PROVE  Expected(pdus[j])'
  <2>1. pdus \in Flying
    BY <1>4 DEF Flying
  <2>2. Requests(pdus) \cap Requests(frame) = {}
    <3>1. CASE pdus \in wire /\ pdus # frame
      BY <1>1, <3>1 DEF SentOnce
    <3>2. CASE pdus = send /\ sender # "resetting"
      BY <1>1, <3>2 DEF SentOnce
    <3> QED BY <1>4, <3>1, <3>2 DEF Flying
  <2>3. /\ pdus[j].request \in Request /\ pdus[j].request[1] \in Users
        /\ pdus[j].token \in Tokens /\ Expected(pdus[j])
    BY <1>1, <2>1, FlyingPdus DEF ExchangeInv, AllExpected
  <2>4. PICK v \in Users, k \in Nat : pdus[j].request = <<v, k>>
    BY <2>3 DEF Request
  <2>5. Holds(v) /\ topic[v] \in DOMAIN receive
    BY <1>1, <2>3, <2>4 DEF Expected, TokensOwned, Holds, Tokens, NoToken
  <2>6. CASE v \in Groups
    BY <1>4, <2>3, <2>4, <2>6 DEF Expected, users
  <2>7. CASE v \notin Groups
    <3>1. <<v, request[v]>> \in Requests(pdus)
      BY <2>3, <2>4, <2>7 DEF Expected, Requests
    <3>2. \A i \in DOMAIN frame : frame[i].token # topic[v]
      BY <1>6, <2>2, <2>5, <2>7, <3>1 DEF Requests
    <3>3. receive'[topic[v]] = receive[topic[v]]
      BY <1>5, <2>5, <3>2
    <3> QED BY <1>4, <2>3, <2>4, <2>7, <3>3 DEF Expected, users
  <2> QED BY <2>6, <2>7
<1>9. AllExpected'
  BY <1>8 DEF AllExpected
<1> QED BY <1>3, <1>7, <1>9 DEF ExchangeInv

(* pdu_timeout gives up what is not pending any more.                        *)
LEMMA TimeoutExchange ==
  ASSUME BaseInv, ExchangeInv, Timely, TimeoutTick
  PROVE  ExchangeInv'
<1>1. TokenInv /\ TypeOK /\ TokensOwned
  BY DEF BaseInv, TokenInv
<1>2. PICK expired \in SUBSET DOMAIN receive :
        /\ \A t \in expired : ~Pending(t)
        /\ receive' = [t \in DOMAIN receive |->
                         IF t \in expired
                         THEN [receive[t] EXCEPT !.aged = TRUE, !.ready = 1]
                         ELSE [receive[t] EXCEPT !.aged = TRUE]]
  BY DEF TimeoutTick
<1>3. UNCHANGED <<send, wire, sender, tasks, users>>
  BY DEF TimeoutTick, buffer
<1>4. \A t \in DOMAIN receive :
        /\ receive'[t].len = receive[t].len /\ receive'[t].data = receive[t].data
        /\ receive'[t].ready = IF t \in expired THEN 1 ELSE receive[t].ready
  <2> SUFFICES ASSUME NEW t \in DOMAIN receive
               PROVE  /\ receive'[t].len = receive[t].len
                      /\ receive'[t].data = receive[t].data
                      /\ receive'[t].ready = IF t \in expired THEN 1 ELSE receive[t].ready
    OBVIOUS
  <2> DEFINE storage == receive[t]
  <2>1. storage \in PduState
    BY <1>1 DEF TypeOK
  <2>2. receive'[t] = IF t \in expired THEN [storage EXCEPT !.aged = TRUE, !.ready = 1]
                      ELSE [storage EXCEPT !.aged = TRUE]
    BY <1>2
  <2> HIDE DEF storage
  <2>3. LET late == [storage EXCEPT !.aged = TRUE, !.ready = 1]
            other == [storage EXCEPT !.aged = TRUE]
        IN /\ late.len = storage.len /\ late.data = storage.data /\ late.ready = 1
           /\ other.len = storage.len /\ other.data = storage.data
           /\ other.ready = storage.ready
    BY <2>1 DEF PduState
  <2> QED BY <2>2, <2>3 DEF storage
<1>5. ASSUME NEW v \in Users
      PROVE  Stored(v)'
  <2>1. Stored(v) /\ UNCHANGED <<pc, topic, request, answer>>
    BY <1>3 DEF ExchangeInv, users
  <2>2. CASE Holds(v) /\ topic[v] \in expired
    <3>1. /\ topic[v] \in DOMAIN receive /\ receive[topic[v]].ready = 0
          /\ v \notin Groups => pc[v] \notin {"topic", "sending"}
      BY <1>2, <2>2 DEF Pending
    <3>2. CASE v \in Groups
      BY <1>4, <2>1, <2>2, <3>1, <3>2 DEF Stored, GroupStored, Holds
    <3>3. CASE v \notin Groups
      <4>1. 0 \notin Counts
        BY CountsPositive
      <4>2. pc[v] \in {"wait", "check", "asleep", "done"} => receive[topic[v]].data = Untouched
        BY <2>1, <3>1, <3>3, <4>1 DEF Stored, ExchangeStored, Outcome
      <4> QED BY <1>4, <2>1, <2>2, <3>1, <3>3, <4>2 DEF Stored, ExchangeStored, Outcome, Holds
    <3> QED BY <3>2, <3>3
  <2>3. CASE ~Holds(v) \/ topic[v] \notin expired
    <3>1. Holds(v) => topic[v] \in DOMAIN receive
      BY <1>1 DEF TokensOwned, TypeOK, Holds
    <3> QED BY <1>1, <1>4, <2>1, <2>3, <3>1, OtherStored
  <2> QED BY <2>2, <2>3
<1>6. ASSUME NEW pdus \in Flying, NEW i \in DOMAIN pdus
      PROVE  Expected(pdus[i])'
  <2> DEFINE u == pdus[i].request[1]
  <2>1. u \in Users /\ pdus[i].token \in Tokens /\ Expected(pdus[i])
    BY <1>1, FlyingPdus DEF ExchangeInv, AllExpected
  <2>2. pdus[i].token = topic[u] /\ topic[u] \in DOMAIN receive
    BY <1>1, <2>1 DEF Expected, TokensOwned
  <2>3. Pending(topic[u])
    BY <2>2 DEF Pending, Flying
  <2>4. receive'[topic[u]].ready = receive[topic[u]].ready
    BY <1>2, <1>4, <2>2, <2>3
  <2> QED BY <1>3, <2>1, <2>4 DEF Expected, users
<1>7. AllExpected'
  BY <1>3, <1>6 DEF AllExpected, Flying
<1> QED BY <1>3, <1>5, <1>7 DEF ExchangeInv

LEMMA NextExchange ==
  ASSUME Cooperative
  PROVE  BaseInv /\ ExchangeInv /\ [Next]_vars => ExchangeInv'
<1> SUFFICES ASSUME BaseInv, ExchangeInv, [Next]_vars PROVE ExchangeInv'
  OBVIOUS
<1> USE DEF Cooperative
<1>1. ASSUME NEW u \in Users,
             \/ NewStep(u) \/ SendStep(u) \/ Flush(u) \/ WaitStep(u)
             \/ Receive(u) \/ DropTopic(u) \/ Cancel(u)
      PROVE  ExchangeInv'
  <2>1. ~Cancel(u)
    BY DEF Cancel
  <2> QED BY <1>1, <2>1, NewExchange, SendExchange, StackExchange, WaitExchange,
             ReceiveExchange, DropExchange DEF SendStep
<1>2. CASE SenderStep \/ \E frame \in wire : Lose(frame)
  BY <1>2, SenderExchange
<1>3. CASE ReceiverStep
  BY <1>3, ReceiverExchange
<1>4. CASE TimeoutTick
  BY <1>4, TimeoutExchange
<1>5. ~Stop
  BY DEF Stop
<1>6. CASE UNCHANGED vars
  <2>1. UNCHANGED <<users, receive, tasks, wire, send, sender>>
    BY <1>6 DEF vars, buffer
  <2>2. Flying' = Flying
    BY <2>1 DEF Flying
  <2> QED BY <2>1, <2>2, OfTasks DEF BaseInv
<1> QED BY <1>1, <1>2, <1>3, <1>4, <1>5, <1>6 DEF Next

LEMMA InitExchange == Init => ExchangeInv
<1> SUFFICES ASSUME Init PROVE ExchangeInv
  OBVIOUS
<1>1. \A v \in Users : pc[v] = "idle" /\ ~Holds(v) /\ answer[v].answers = 0
  BY DEF Init, Holds
<1>2. \A v \in Users : Stored(v)
  BY <1>1 DEF Stored, GroupStored, ExchangeStored
<1>3. AllExpected
  BY DEF Init, AllExpected, Flying
<1> QED BY <1>2, <1>3 DEF Init, ExchangeInv

LEMMA ExchangeInvariant ==
  ASSUME Cooperative
  PROVE  Spec => [](BaseInv /\ ExchangeInv)
<1>1. Init => ExchangeInv
  BY InitExchange
<1>2. BaseInv /\ ExchangeInv /\ [Next]_vars => ExchangeInv'
  BY NextExchange
<1>3. TokenInv /\ SendLayout /\ SenderHasFrame /\ (Counted /\ SentOnce) => BaseInv
  BY DEF BaseInv
<1> QED BY <1>1, <1>2, <1>3, TokenInvariant, BufferLayout, SenderInvariant,
           OnceInvariant, PTL DEF Spec

(* An exchange that reports answers got the data of its own PDU, a group the *)
(* data of one of its own, whatever is lost and however tokens are reused.   *)
THEOREM AnswersOwn ==
  ASSUME Cooperative
  PROVE  Spec => []OwnAnswer
<1>1. BaseInv /\ ExchangeInv => OwnAnswer
  <2> SUFFICES ASSUME BaseInv, ExchangeInv, NEW u \in Users
               PROVE  /\ u \notin Groups /\ pc[u] = "received" /\ answer[u].answers # 0
                           => answer[u].data = <<u, request[u]>>
                      /\ u \in Groups /\ answer[u].answers # 0 => answer[u].data[1] = u
    BY DEF OwnAnswer
  <2>1. Stored(u)
    BY DEF ExchangeInv
  <2>2. SaturatingSub(0, 1) = 0 /\ SaturatingSub(1, 1) = 0
    BY DEF SaturatingSub, Larger
  <2> QED BY <2>1, <2>2 DEF Stored, GroupStored, ExchangeStored, Outcome
<1> QED BY <1>1, ExchangeInvariant, PTL

(* Nothing that comes from the segment ends the loops or poisons the state:  *)
(* each PDU finds its token reserved for data of its size.                   *)
THEOREM ReceptionGoesOn ==
  ASSUME Cooperative
  PROVE  Spec => []ReceptionSurvives
<1>1. BaseInv /\ ExchangeInv => ReceptionSurvives
  BY DEF ExchangeInv, ReceptionSurvives
<1> QED BY <1>1, ExchangeInvariant, PTL

(* The number of answers an exchange reports with its data is the working    *)
(* count of its PDU, unless this one is the largest, which saturates.        *)
THEOREM AnswersExact ==
  ASSUME Cooperative, U16Max \notin WorkingCounts
  PROVE  Spec => []AnswersCounted
<1>1. BaseInv /\ ExchangeInv => AnswersCounted
  <2> SUFFICES ASSUME BaseInv, ExchangeInv, NEW u \in Users \ Groups,
                      pc[u] = "received", answer[u].data = <<u, request[u]>>
               PROVE  answer[u].answers \in WorkingCounts
    BY DEF AnswersCounted
  <2>1. PICK n \in {0, 1} \cup Counts :
          Outcome(u, n, answer[u].data) /\ answer[u].answers = SaturatingSub(n, 1)
    BY DEF ExchangeInv, Stored, ExchangeStored
  <2>2. <<u, request[u]>> # Untouched
    BY ConstantsAssumption DEF Untouched
  <2>3. n \in Counts
    BY <2>1, <2>2 DEF Outcome
  <2>4. PICK w \in WorkingCounts : n = SaturatingAdd(w, 1)
    BY <2>3 DEF Counts
  <2>5. w \in 0..U16Max /\ w # U16Max /\ U16Max \in Nat
    BY ConstantsAssumption
  <2>6. SaturatingSub(SaturatingAdd(w, 1), 1) = w
    BY <2>5 DEF SaturatingAdd, SaturatingSub, Smaller, Larger
  <2> QED BY <2>1, <2>4, <2>6
<1> QED BY <1>1, ExchangeInvariant, PTL

(* When `wait` returns the exchange is over: its PDU is not in the segment   *)
(* nor to be sent.                                                           *)
THEOREM WaitEnds ==
  ASSUME Cooperative
  PROVE  Spec => []AvailableMeansOver
<1>1. BaseInv /\ ExchangeInv => AvailableMeansOver
  <2> SUFFICES ASSUME BaseInv, ExchangeInv, NEW u \in Users,
                      pc[u] \in {"done", "received"}, InTransit(<<u, request[u]>>)
               PROVE  sender = "resetting" /\ <<u, request[u]>> \in Requests(send)
    BY DEF AvailableMeansOver
  <2>1. u \notin Groups
    BY DEF ExchangeInv, Stored, GroupStored
  <2>2. \A pdus \in Flying : <<u, request[u]>> \notin Requests(pdus)
    <3> SUFFICES ASSUME NEW pdus \in Flying, NEW i \in DOMAIN pdus,
                        pdus[i].request = <<u, request[u]>>
                 PROVE  FALSE
      BY DEF Requests
    <3>1. Expected(pdus[i])
      BY DEF ExchangeInv, AllExpected
    <3> QED BY <2>1, <3>1 DEF Expected
  <2>3. PICK pdus \in wire \cup {send} : <<u, request[u]>> \in Requests(pdus)
    BY DEF InTransit
  <2> QED BY <2>2, <2>3 DEF Flying
<1> QED BY <1>1, ExchangeInvariant, PTL

-----------------------------------------------------------------------------
(* What users are promised *)

(* In a frame, the PDUs of a user are in the order of its requests.          *)
InOrder(pdus) ==
  \A i, j \in DOMAIN pdus :
    i < j /\ pdus[i].request[1] = pdus[j].request[1] => pdus[i].request[2] < pdus[j].request[2]
FramesInOrder == \A pdus \in wire \cup {send} : InOrder(pdus)

(* A user at the end of its wait has an outcome.                             *)
DoneHasOutcome == \A u \in Users : pc[u] = "done" => receive[topic[u]].ready # 0

LEMMA StackInOrder ==
  ASSUME TypeOK, SendLayout, Counted, FramesInOrder, NEW u \in Users, SendStack(u)
  PROVE  FramesInOrder'
<1> DEFINE n == Len(send)
<1>1. /\ n \in Nat /\ DOMAIN send = 1..n /\ DOMAIN send' = 1..(n + 1)
      /\ send'[n + 1].request = <<u, request[u] + 1>>
      /\ \A i \in 1..n : send'[i].request = send[i].request
  <2> DEFINE new == <<u, request[u] + 1>>
  <2> HIDE DEF new
  <2>1. [token |-> topic[u], len |-> Size[u], next |-> FALSE, request |-> new].request = new
    OBVIOUS
  <2> QED BY <2>1, Stacked DEF new
<1>2. wire' = wire /\ request[u] \in Nat
  BY DEF SendStack, TypeOK
<1> HIDE DEF n
<1>3. \A i \in 1..n : send[i].request[1] = u => send[i].request[2] \in Nat /\ send[i].request[2] <= request[u]
  <2> SUFFICES ASSUME NEW i \in 1..n, send[i].request[1] = u
               PROVE  send[i].request[2] \in Nat /\ send[i].request[2] <= request[u]
    OBVIOUS
  <2>1. send[i] \in Pdu
    BY <1>1 DEF TypeOK
  <2>2. send[i].request[2] \in Nat
    BY <2>1 DEF Pdu, Request
  <2>3. send[i].request[2] <= request[send[i].request[1]]
    BY <1>1 DEF Counted
  <2> QED BY <2>2, <2>3
<1>4. InOrder(send)
  BY DEF FramesInOrder
<1>5. InOrder(send')
  <2> SUFFICES ASSUME NEW i \in 1..(n + 1), NEW j \in 1..(n + 1), i < j,
                      send'[i].request[1] = send'[j].request[1]
               PROVE  send'[i].request[2] < send'[j].request[2]
    BY <1>1 DEF InOrder
  <2>1. i \in 1..n
    BY <1>1
  <2>2. CASE j \in 1..n
    BY <1>1, <1>4, <2>1, <2>2 DEF InOrder
  <2>3. CASE j = n + 1
    <3>1. /\ send'[j].request[1] = u /\ send'[j].request[2] = request[u] + 1
          /\ send'[i].request = send[i].request
      BY <1>1, <2>1, <2>3
    <3> QED BY <1>2, <1>3, <2>1, <3>1
  <2> QED BY <1>1, <2>2, <2>3
<1> QED BY <1>2, <1>5 DEF FramesInOrder

LEMMA NextInOrder ==
  TypeOK /\ SendLayout /\ Counted /\ FramesInOrder /\ [Next]_vars => FramesInOrder'
<1> SUFFICES ASSUME TypeOK, SendLayout, Counted, FramesInOrder, [Next]_vars
             PROVE  FramesInOrder'
  OBVIOUS
<1>1. CASE \E u \in Users : SendStack(u)
  BY <1>1, StackInOrder
<1>2. CASE PollSend \/ SenderReset
  <2>1. /\ wire' \subseteq wire \cup {send}
        /\ send' = send \/ send' = <<>>
    BY <1>2 DEF PollSend, SenderReset, buffer
  <2>2. InOrder(<<>>)
    BY DEF InOrder
  <2> QED BY <2>1, <2>2 DEF FramesInOrder
<1>3. ASSUME NEW u \in Users,
             \/ NewStep(u) \/ SendBlocked(u) \/ SendFull(u) \/ Flush(u)
             \/ WaitStep(u) \/ Receive(u) \/ DropTopic(u) \/ Cancel(u)
      PROVE  FramesInOrder'
  <2>1. UNCHANGED <<send, wire>>
    BY <1>3 DEF NewStep, NewReserve, NewBlock, SendBlocked, SendFull, Flush,
                WaitStep, WaitRegister, WaitCheck, Receive, DropTopic, Cancel, buffer
  <2> QED BY <2>1 DEF FramesInOrder
<1>4. CASE \/ SenderWake \/ MergeTimer \/ MergeWake \/ SenderNotify
           \/ ReceiverStep \/ TimeoutTick \/ Stop \/ UNCHANGED vars
           \/ \E frame \in wire : Lose(frame)
  <2>1. send' = send /\ wire' \subseteq wire
    BY <1>4 DEF SenderWake, MergeTimer, MergeWake, SenderNotify, ReceiverStep,
                ReceiveFrame, ReceiveMisread, ReceivePanic, ReceiveError, Reception,
                TimeoutTick, Stop, Lose, vars, buffer
  <2> QED BY <2>1 DEF FramesInOrder
<1> QED BY <1>1, <1>2, <1>3, <1>4 DEF Next, SendStep, SenderStep

(* What PduExchange sees.                                                    *)
Outcomes == [u \in Users |-> Came(u)]
Answers  == [u \in Users |-> Reported(answer[u].answers, answer[u].data)]
ExchangeStep == Exchange!Next \/ UNCHANGED <<request, InFlight, Waiting, Outcomes, Answers>>

(* What concerns a user at the end of a step.                                *)
Ready(u) == pc[u] = "done" => receive[topic[u]].ready # 0

(* A user whose place, topic and storage are left alone.                     *)
LEMMA OtherCame ==
  ASSUME TokenInv, DoneHasOutcome, NEW v \in Users, pc'[v] = pc[v], topic'[v] = topic[v],
         Holds(v) => /\ receive'[topic[v]].ready = receive[topic[v]].ready
                     /\ receive'[topic[v]].data = receive[topic[v]].data
  PROVE  /\ Came(v)' = Came(v) /\ Ready(v)'
         /\ v \in Waiting' <=> v \in Waiting
<1>1. Holds(v)' = Holds(v)
  BY DEF Holds
<1>2. v \in Waiting' <=> v \in Waiting
  BY DEF Waiting
<1>3. Came(v)' = Came(v)
  BY <1>1, <1>2 DEF Came
<1>4. pc[v] = "done" => Holds(v)
  BY DEF TokenInv, TokensOwned
<1>5. Ready(v)'
  BY <1>4 DEF Ready, DoneHasOutcome
<1> QED BY <1>2, <1>3, <1>5

(* The user of a step, when the others are left alone.                       *)
Alone(u) ==
  \A v \in Users \ {u} : /\ pc'[v] = pc[v] /\ topic'[v] = topic[v] /\ answer'[v] = answer[v]
                         /\ Holds(v) => receive'[topic[v]] = receive[topic[v]]

LEMMA Others ==
  ASSUME TokenInv, DoneHasOutcome, NEW u \in Users, Alone(u)
  PROVE  /\ \A v \in Users \ {u} : /\ Came(v)' = Came(v) /\ Ready(v)'
                                   /\ v \in Waiting' <=> v \in Waiting
         /\ \A v \in Users \ {u} : Answers'[v] = Answers[v]
<1>1. \A v \in Users \ {u} : /\ Came(v)' = Came(v) /\ Ready(v)'
                             /\ v \in Waiting' <=> v \in Waiting
  BY OtherCame DEF Alone
<1>2. \A v \in Users \ {u} : Answers'[v] = Answers[v]
  BY DEF Answers, Alone
<1> QED BY <1>1, <1>2

LEMMA EveryReady ==
  ASSUME \A v \in Users : Ready(v)'
  PROVE  DoneHasOutcome'
  BY DEF Ready, DoneHasOutcome

(* A step of a user that PduExchange does not see.                           *)
LEMMA Unseen ==
  ASSUME TokenInv, DoneHasOutcome, NEW u \in Users, Alone(u),
         UNCHANGED <<request, wire, send, sender>>, answer'[u] = answer[u],
         Came(u)' = Came(u), u \in Waiting' <=> u \in Waiting, Ready(u)'
  PROVE  DoneHasOutcome' /\ ExchangeStep
<1>1. /\ \A v \in Users : /\ Came(v)' = Came(v) /\ Ready(v)'
                          /\ v \in Waiting' <=> v \in Waiting
      /\ \A v \in Users \ {u} : Answers'[v] = Answers[v]
  BY Others
<1>2. Answers' = Answers
  BY <1>1 DEF Answers
<1>3. Outcomes' = Outcomes
  BY <1>1 DEF Outcomes
<1>4. Waiting' = Waiting
  BY <1>1 DEF Waiting
<1>5. InFlight' = InFlight
  BY DEF InFlight, Flying
<1> QED BY <1>1, <1>2, <1>3, <1>4, <1>5, EveryReady DEF ExchangeStep

LEMMA NewUnseen ==
  ASSUME BaseInv, ExchangeInv, DoneHasOutcome, NEW u \in Users, NewStep(u)
  PROVE  DoneHasOutcome' /\ ExchangeStep
<1> USE DEF Goto
<1>1. TokenInv /\ TypeOK /\ TokensOwned
  BY DEF BaseInv, TokenInv
<1>2. pc[u] \in {"idle", "new"} /\ ~Holds(u)
  BY <1>1 DEF NewStep, NewReserve, NewBlock, Reserving, TokensOwned
<1>3. Came(u) = {} /\ u \notin Waiting
  BY <1>2 DEF Came, Waiting
<1>4. CASE NewBlock(u)
  <2>1. /\ UNCHANGED <<send, wire, sender, topic, request, answer, receive>>
        /\ pc' = [pc EXCEPT ![u] = "new"]
    BY <1>4 DEF NewBlock, buffer
  <2>2. pc'[u] = "new" /\ Alone(u)
    BY <1>1, <2>1 DEF TypeOK, Alone
  <2>3. Came(u)' = {} /\ u \notin Waiting' /\ Ready(u)'
    BY <1>2, <2>1, <2>2 DEF Came, Waiting, Ready, Holds
  <2> QED BY <1>1, <1>3, <2>1, <2>2, <2>3, Unseen
<1>5. CASE NewReserve(u)
  <2> DEFINE token == Last(free)
  <2>1. token \in Tokens /\ token \notin DOMAIN receive
    <3>1. free \in Seq(Tokens) /\ free # <<>>
      BY <1>1, <1>5 DEF TypeOK, NewReserve
    <3>2. Len(free) \in DOMAIN free /\ free[Len(free)] \in Tokens
      BY <3>1
    <3> QED BY <1>1, <3>2 DEF Last, TokensOwned
  <2>2. /\ receive'[token] = [ready |-> 0, len |-> Size[u], aged |-> FALSE,
                              data |-> Untouched]
        /\ \A t \in DOMAIN receive : receive'[t] = receive[t]
        /\ topic' = [topic EXCEPT ![u] = token]
        /\ pc' = [pc EXCEPT ![u] = "topic"]
        /\ UNCHANGED <<send, wire, sender, request, answer>>
    BY <1>5, <2>1 DEF NewReserve, buffer
  <2> HIDE DEF token
  <2>3. topic'[u] = token /\ pc'[u] = "topic" /\ receive'[token].ready = 0
    BY <1>1, <2>2 DEF TypeOK
  <2>4. Alone(u)
    BY <1>1, <2>2 DEF TypeOK, TokensOwned, Holds, Alone
  <2>5. Came(u)' = {} /\ u \notin Waiting' /\ Ready(u)'
    BY <2>3 DEF Came, Waiting, Ready
  <2> QED BY <1>1, <1>3, <2>2, <2>4, <2>5, Unseen
<1> QED BY <1>4, <1>5 DEF NewStep

LEMMA SendUnseen ==
  ASSUME BaseInv, ExchangeInv, DoneHasOutcome, NEW u \in Users,
         SendBlocked(u) \/ SendFull(u) \/ Flush(u)
  PROVE  DoneHasOutcome' /\ ExchangeStep
<1>1. TokenInv /\ TypeOK
  BY DEF BaseInv, TokenInv
<1>2. /\ UNCHANGED <<send, wire, sender, topic, request, answer, receive>>
      /\ \/ pc' = pc
         \/ pc' = [pc EXCEPT ![u] = "sending"] /\ pc[u] \in {"topic", "sending"}
  BY DEF SendBlocked, SendFull, Sending, Flush, Goto, buffer, users
<1>3. Alone(u) /\ (pc'[u] = pc[u] \/ (pc'[u] = "sending" /\ pc[u] \in {"topic", "sending"}))
  <2>1. CASE pc' = pc
    BY <1>2, <2>1 DEF Alone
  <2>2. CASE pc' = [pc EXCEPT ![u] = "sending"] /\ pc[u] \in {"topic", "sending"}
    BY <1>1, <1>2, <2>2 DEF TypeOK, Alone
  <2> QED BY <1>2, <2>1, <2>2
<1>4. (u \in Waiting' <=> u \in Waiting) /\ Ready(u)'
  BY <1>2, <1>3 DEF Waiting, Ready, DoneHasOutcome
<1>5. Came(u)' = Came(u)
  BY <1>2, <1>4 DEF Came, Holds
<1> QED BY <1>1, <1>2, <1>3, <1>4, <1>5, Unseen

LEMMA WaitUnseen ==
  ASSUME BaseInv, ExchangeInv, DoneHasOutcome, NEW u \in Users, WaitStep(u)
  PROVE  DoneHasOutcome' /\ ExchangeStep
<1>1. TokenInv /\ TypeOK
  BY DEF BaseInv, TokenInv
<1>2. /\ UNCHANGED <<send, wire, sender, topic, request, answer, receive>>
      /\ pc[u] \in {"wait", "check", "asleep"}
      /\ \/ pc' = [pc EXCEPT ![u] = "check"] \/ pc' = [pc EXCEPT ![u] = "asleep"]
         \/ pc' = [pc EXCEPT ![u] = "done"] /\ receive[topic[u]].ready # 0
  BY DEF WaitStep, WaitRegister, WaitCheck, Available, Goto, buffer
<1>3. /\ \/ pc'[u] \in {"check", "asleep"}
         \/ pc'[u] = "done" /\ receive[topic[u]].ready # 0
      /\ Alone(u)
  BY <1>1, <1>2 DEF TypeOK, Alone
<1>4. (u \in Waiting' <=> u \in Waiting) /\ Ready(u)'
  BY <1>2, <1>3 DEF Waiting, Ready
<1>5. Came(u)' = Came(u)
  BY <1>2, <1>4 DEF Came, Holds
<1> QED BY <1>1, <1>2, <1>3, <1>4, <1>5, Unseen

LEMMA DropUnseen ==
  ASSUME BaseInv, ExchangeInv, DoneHasOutcome, NEW u \in Users, DropTopic(u)
  PROVE  DoneHasOutcome' /\ ExchangeStep
<1>1. TokenInv /\ TypeOK /\ TokensOwned
  BY DEF BaseInv, TokenInv
<1>2. pc[u] = "received" /\ u \notin Groups
  BY DEF DropTopic, ExchangeInv, Stored, GroupStored
<1>3. Holds(u)
  BY <1>1, <1>2, HoldsStorage
<1>4. /\ UNCHANGED <<send, wire, sender, request, answer>>
      /\ receive' = [t \in DOMAIN receive \ {topic[u]} |-> receive[t]]
      /\ topic' = [topic EXCEPT ![u] = NoToken]
      /\ pc' = [pc EXCEPT ![u] = "idle"]
  BY DEF DropTopic, FreeToken, Goto, buffer
<1>5. pc'[u] = "idle"
  BY <1>1, <1>4 DEF TypeOK
<1>6. Alone(u)
  BY <1>1, <1>3, <1>4 DEF TypeOK, TokensOwned, Holds, Alone
<1>7. Came(u)' = Came(u) /\ (u \in Waiting' <=> u \in Waiting) /\ Ready(u)'
  BY <1>2, <1>5 DEF Came, Waiting, Ready
<1> QED BY <1>1, <1>4, <1>6, <1>7, Unseen

(* Topic::send is a request.                                                 *)
LEMMA StackAsks ==
  ASSUME BaseInv, ExchangeInv, DoneHasOutcome, NEW u \in Users, SendStack(u)
  PROVE  DoneHasOutcome' /\ ExchangeStep
<1> DEFINE n == Len(send)
           new == <<u, request[u] + 1>>
<1>1. TokenInv /\ TypeOK /\ TokensOwned /\ SendLayout /\ SenderHasFrame
  BY DEF BaseInv, TokenInv
<1>2. pc[u] \in {"topic", "sending"} /\ Stored(u) /\ sender # "resetting"
  BY <1>1 DEF SendStack, Sending, SenderHasFrame, ExchangeInv
<1>3. Holds(u) /\ topic[u] \in DOMAIN receive /\ request[u] < Workload[u]
  BY <1>1, <1>2, HoldsStorage DEF SendStack, Sending, TokenInv, SendersPending
<1>4. /\ UNCHANGED <<wire, sender, topic, answer>>
      /\ request' = [request EXCEPT ![u] = @ + 1]
      /\ receive' = [receive EXCEPT ![topic[u]].aged = FALSE]
      /\ pc' = [pc EXCEPT ![u] = IF u \in Groups THEN "topic" ELSE "wait"]
  BY DEF SendStack, Goto
<1>5. /\ receive'[topic[u]].ready = receive[topic[u]].ready
      /\ receive'[topic[u]].data = receive[topic[u]].data
      /\ \A t \in DOMAIN receive \ {topic[u]} : receive'[t] = receive[t]
  <2> DEFINE storage == receive[topic[u]]
  <2>1. storage \in PduState
    BY <1>1, <1>3 DEF TypeOK
  <2>2. /\ [storage EXCEPT !.aged = FALSE].ready = storage.ready
        /\ [storage EXCEPT !.aged = FALSE].data = storage.data
    BY <2>1 DEF PduState
  <2>3. receive' = [receive EXCEPT ![topic[u]] = [storage EXCEPT !.aged = FALSE]]
    BY <1>4
  <2> HIDE DEF storage
  <2>4. /\ receive'[topic[u]] = [storage EXCEPT !.aged = FALSE]
        /\ \A t \in DOMAIN receive \ {topic[u]} : receive'[t] = receive[t]
    BY <1>1, <1>3, <2>3 DEF TypeOK
  <2> QED BY <2>2, <2>4 DEF storage
<1>6. pc'[u] = IF u \in Groups THEN "topic" ELSE "wait"
  BY <1>1, <1>4 DEF TypeOK
<1>7. Alone(u)
  BY <1>1, <1>3, <1>4, <1>5 DEF TypeOK, TokensOwned, Holds, Alone
<1>8. u \notin Waiting /\ (u \in Waiting' <=> u \notin Groups) /\ Ready(u)'
  BY <1>2, <1>6 DEF Waiting, Ready
<1>9. Came(u)' = Came(u)
  <2>1. CASE u \in Groups
    BY <1>4, <1>5, <2>1 DEF Came, Holds
  <2>2. CASE u \notin Groups
    <3>1. receive'[topic'[u]].ready = 0
      BY <1>2, <1>4, <1>5, <2>2 DEF Stored, ExchangeStored
    <3> QED BY <1>8, <2>2, <3>1 DEF Came
  <2> QED BY <2>1, <2>2
<1>10. \A v \in Users \ {u} : /\ Came(v)' = Came(v) /\ Ready(v)'
                              /\ v \in Waiting' <=> v \in Waiting
  BY <1>1, <1>7, Others
<1>11. Outcomes' = Outcomes /\ DoneHasOutcome'
  BY <1>8, <1>9, <1>10, EveryReady DEF Outcomes
<1>12. Waiting' = IF u \in Groups THEN Waiting ELSE Waiting \cup {u}
  <2>1. \A v \in Users : v \in Waiting' <=> v \in Waiting \/ (v = u /\ u \notin Groups)
    BY <1>8, <1>10
  <2>2. Waiting \subseteq Users /\ Waiting' \subseteq Users
    BY DEF Waiting
  <2> QED BY <2>1, <2>2
<1>13. Answers' = Answers
  BY <1>4 DEF Answers
<1>14. InFlight' = InFlight \cup {new}
  <2> HIDE DEF new
  <2>1. [token |-> topic[u], len |-> Size[u], next |-> FALSE, request |-> new].request = new
    OBVIOUS
  <2>2. /\ n \in Nat /\ DOMAIN send = 1..n /\ DOMAIN send' = 1..(n + 1)
        /\ send'[n + 1].request = new
        /\ \A i \in 1..n : send'[i].request = send[i].request
    BY <1>1, <2>1, Stacked DEF new
  <2> HIDE DEF n
  <2>3. Requests(send') = Requests(send) \cup {new}
    <3>1. Requests(send') \subseteq Requests(send) \cup {new}
      <4> SUFFICES ASSUME NEW i \in 1..(n + 1)
                   PROVE  send'[i].request \in Requests(send) \cup {new}
        BY <2>2 DEF Requests
      <4>1. i \in 1..n \/ i = n + 1
        BY <2>2
      <4> QED BY <2>2, <4>1 DEF Requests
    <3>2. Requests(send) \cup {new} \subseteq Requests(send')
      <4>1. 1..n \subseteq 1..(n + 1) /\ n + 1 \in 1..(n + 1)
        BY <2>2
      <4> QED BY <2>2, <4>1 DEF Requests
    <3> QED BY <3>1, <3>2
  <2>4. Flying = wire \cup {send} /\ Flying' = wire \cup {send'}
    BY <1>2, <1>4 DEF Flying
  <2> QED BY <2>3, <2>4 DEF InFlight
<1>15. Exchange!Ask(u)
  <2> HIDE DEF new
  <2>1. new = <<u, request[u] + 1>>
    BY DEF new
  <2> QED BY <1>3, <1>4, <1>8, <1>11, <1>12, <1>13, <1>14, <2>1
          DEF Exchange!Ask, Outcomes, Answers
<1> QED BY <1>11, <1>15 DEF ExchangeStep, Exchange!Next

(* Topic::receive takes the outcome.                                         *)
LEMMA ReceiveTakes ==
  ASSUME BaseInv, ExchangeInv, DoneHasOutcome, NEW u \in Users, Receive(u)
  PROVE  DoneHasOutcome' /\ ExchangeStep
<1>1. TokenInv /\ TypeOK /\ TokensOwned
  BY DEF BaseInv, TokenInv
<1>2. pc[u] \in {"done", "topic"} /\ (pc[u] = "topic" <=> u \in Groups) /\ Stored(u)
  BY DEF Receive, ExchangeInv, Stored, GroupStored
<1>3. Holds(u) /\ topic[u] \in DOMAIN receive
  BY <1>1, <1>2, HoldsStorage
<1> DEFINE storage == receive[topic[u]]
           outcome == Reported(SaturatingSub(storage.ready, 1), storage.data)
<1>4. storage \in PduState /\ storage.ready \in 0..U16Max
  BY <1>1, <1>3 DEF TypeOK, PduState
<1>5. /\ UNCHANGED <<send, wire, sender, topic, request>>
      /\ pc[u] = "done" => pc' = [pc EXCEPT ![u] = "received"]
      /\ pc[u] = "topic" => pc' = pc
      /\ receive' = [receive EXCEPT ![topic[u]].ready = 0]
      /\ answer' = [answer EXCEPT ![u] = [answers |-> SaturatingSub(storage.ready, 1),
                                          data |-> storage.data]]
  BY DEF Receive, Goto, buffer
<1>6. /\ receive'[topic[u]].ready = 0
      /\ \A t \in DOMAIN receive \ {topic[u]} : receive'[t] = receive[t]
  <2>1. receive' = [receive EXCEPT ![topic[u]] = [storage EXCEPT !.ready = 0]]
    BY <1>5
  <2>2. [storage EXCEPT !.ready = 0].ready = 0
    BY <1>4 DEF PduState
  <2> HIDE DEF storage
  <2>3. receive'[topic[u]] = [storage EXCEPT !.ready = 0]
    BY <1>1, <1>3, <2>1 DEF TypeOK
  <2> QED BY <1>1, <1>3, <2>1, <2>2, <2>3 DEF TypeOK
<1>7. /\ Reported(answer'[u].answers, answer'[u].data) = outcome
      /\ \A v \in Users \ {u} : answer'[v] = answer[v]
  <2>1. answer'[u] = [answers |-> SaturatingSub(storage.ready, 1), data |-> storage.data]
    BY <1>1, <1>5 DEF TypeOK
  <2>2. answer'[u].answers = SaturatingSub(storage.ready, 1) /\ answer'[u].data = storage.data
    BY <2>1
  <2> QED BY <1>1, <1>5, <2>2 DEF TypeOK
<1>8. /\ pc'[u] = IF u \in Groups THEN "topic" ELSE "received"
      /\ \A v \in Users \ {u} : pc'[v] = pc[v]
  BY <1>1, <1>2, <1>5 DEF TypeOK
<1>9. Alone(u)
  BY <1>1, <1>3, <1>5, <1>6, <1>7, <1>8 DEF TypeOK, TokensOwned, Holds, Alone
<1>10. /\ Came(u)' = {} /\ u \notin Waiting' /\ Ready(u)'
       /\ u \in Waiting <=> u \notin Groups
  BY <1>2, <1>5, <1>6, <1>8 DEF Came, Waiting, Ready
<1>11. /\ u \in Groups \/ (u \in Waiting /\ Came(u) # {})
       /\ outcome \in IF Came(u) = {} THEN {Reported(0, Untouched)} ELSE Came(u)
  <2>1. u \in Groups \cup Waiting
    BY <1>10
  <2>2. CASE storage.ready = 0
    <3>1. u \in Groups
      BY <1>2, <2>2 DEF DoneHasOutcome
    <3>2. Came(u) = {}
      BY <2>2 DEF Came
    <3>3. SaturatingSub(storage.ready, 1) = 0
      BY <2>2 DEF SaturatingSub, Larger
    <3>4. outcome = Reported(0, Untouched)
      BY <3>3 DEF Reported
    <3> QED BY <3>1, <3>2, <3>4
  <2>3. CASE storage.ready # 0
    <3>1. SaturatingSub(storage.ready, 1) = storage.ready - 1
      BY <1>4, <2>3 DEF SaturatingSub, Larger
    <3>2. Came(u) = {outcome}
      BY <1>3, <2>1, <2>3, <3>1 DEF Came
    <3> QED BY <2>1, <3>2
  <2> QED BY <2>2, <2>3
<1>12. /\ \A v \in Users \ {u} : /\ Came(v)' = Came(v) /\ Ready(v)'
                                 /\ v \in Waiting' <=> v \in Waiting
       /\ \A v \in Users \ {u} : Answers'[v] = Answers[v]
  BY <1>1, <1>9, Others
<1> HIDE DEF storage, outcome
<1>13. Outcomes' = [Outcomes EXCEPT ![u] = {}] /\ DoneHasOutcome'
  BY <1>10, <1>12, EveryReady DEF Outcomes
<1>14. Answers' = [Answers EXCEPT ![u] = outcome]
  BY <1>7, <1>12 DEF Answers
<1>15. Waiting' = Waiting \ {u}
  <2>1. \A v \in Users : v \in Waiting' <=> v \in Waiting /\ v # u
    BY <1>10, <1>12
  <2>2. Waiting \subseteq Users /\ Waiting' \subseteq Users
    BY DEF Waiting
  <2> QED BY <2>1, <2>2
<1>16. InFlight' = InFlight
  BY <1>5 DEF InFlight, Flying
<1>17. Exchange!Take(u)
  <2>1. Outcomes[u] = Came(u)
    BY DEF Outcomes
  <2>2. Exchange!NoAnswer = Reported(0, Untouched)
    BY DEF Exchange!NoAnswer, Reported
  <2> QED BY <1>5, <1>11, <1>13, <1>14, <1>15, <1>16, <2>1, <2>2
          DEF Exchange!Take, Outcomes, Answers
<1> QED BY <1>13, <1>17 DEF ExchangeStep, Exchange!Next

(* A step of the tasks, of which users only see what is in their storages.   *)
LEMMA OfLoops ==
  ASSUME BaseInv, UNCHANGED users
  PROVE  /\ Waiting' = Waiting /\ Answers' = Answers /\ request' = request
         /\ \A v \in Users : Holds(v)' = Holds(v) /\ (v \in Waiting' <=> v \in Waiting)
BY DEF users, Waiting, Answers, Holds

(* The loop of task_send and the segment.                                    *)
LEMMA SenderUnseen ==
  ASSUME BaseInv, DoneHasOutcome, SenderStep
  PROVE  DoneHasOutcome' /\ ExchangeStep
<1>1. UNCHANGED <<users, receive>>
  BY DEF SenderStep, SenderWake, MergeTimer, MergeWake, PollSend, SenderReset, SenderNotify
<1>2. InFlight' = InFlight
  <2>1. CASE SenderWake \/ MergeTimer \/ MergeWake \/ SenderNotify
    <3>1. UNCHANGED <<send, wire>> /\ sender # "resetting" /\ sender' # "resetting"
      BY <2>1 DEF SenderWake, MergeTimer, MergeWake, SenderNotify, buffer
    <3> QED BY <3>1 DEF InFlight, Flying
  <2>2. CASE PollSend
    <3>1. Flying' = Flying
      BY <2>2 DEF PollSend, Flying, buffer
    <3> QED BY <3>1 DEF InFlight
  <2>3. CASE SenderReset
    <3>1. Flying = wire /\ Flying' = wire \cup {<<>>}
      BY <2>3 DEF SenderReset, Flying
    <3>2. Requests(<<>>) = {}
      BY DEF Requests
    <3> QED BY <3>1, <3>2 DEF InFlight
  <2> QED BY <2>1, <2>2, <2>3 DEF SenderStep
<1>3. Outcomes' = Outcomes /\ DoneHasOutcome'
  BY <1>1, OfLoops DEF Outcomes, Came, DoneHasOutcome, users
<1> QED BY <1>1, <1>2, <1>3, OfLoops DEF ExchangeStep

(* A frame that leaves the segment takes its requests along.                 *)
LEMMA LeftFlying ==
  ASSUME SentOnce, NEW frame \in wire, wire' = wire \ {frame}, UNCHANGED <<send, sender>>
  PROVE  /\ Requests(frame) \in SUBSET InFlight
         /\ InFlight' = InFlight \ Requests(frame)
<1>1. frame \in Flying /\ \A pdus \in Flying : pdus \in Flying' \/ pdus = frame
  BY DEF Flying
<1>2. \A pdus \in Flying' : pdus \in Flying /\ Requests(pdus) \cap Requests(frame) = {}
  BY DEF Flying, SentOnce
<1>3. Requests(frame) \in SUBSET InFlight
  BY <1>1 DEF InFlight
<1>4. InFlight' \subseteq InFlight \ Requests(frame)
  BY <1>2 DEF InFlight
<1>5. InFlight \ Requests(frame) \subseteq InFlight'
  BY <1>1 DEF InFlight
<1> QED BY <1>3, <1>4, <1>5

LEMMA LoseLoses ==
  ASSUME BaseInv, DoneHasOutcome, NEW frame \in wire, Lose(frame)
  PROVE  DoneHasOutcome' /\ ExchangeStep
<1>1. UNCHANGED <<users, receive, send, sender>> /\ wire' = wire \ {frame}
  BY DEF Lose, buffer
<1>2. Outcomes' = Outcomes /\ DoneHasOutcome'
  BY <1>1, OfLoops DEF Outcomes, Came, DoneHasOutcome, users
<1>3. /\ Requests(frame) \in SUBSET InFlight
      /\ InFlight' = InFlight \ Requests(frame)
  BY <1>1, LeftFlying DEF BaseInv
<1>4. Exchange!Lose(Requests(frame))
  BY <1>1, <1>2, <1>3, OfLoops DEF Exchange!Lose, Outcomes, Answers
<1> QED BY <1>2, <1>3, <1>4 DEF ExchangeStep, Exchange!Next

-----------------------------------------------------------------------------
(* The answers in a frame *)

LEMMA Least ==
  ASSUME NEW T, T \subseteq Nat, T # {}
  PROVE  \E n \in T : \A m \in T : n <= m
<1>1. IsWellFoundedOn({p \in Nat \X Nat : p[1] < p[2]}, Nat)
  BY NatLessThanWellFounded DEF OpToRel
<1>2. PICK n \in T : \A m \in T : ~(<<m, n>> \in {p \in Nat \X Nat : p[1] < p[2]})
  BY <1>1, WFMin
<1>3. \A m \in T : ~(m < n)
  BY <1>2
<1> QED BY <1>3

(* The last PDU of a frame with a given token.                               *)
LEMMA LastExists ==
  ASSUME NEW frame, NEW n \in Nat, DOMAIN frame = 1..n, NEW t,
         NEW j \in 1..n, frame[j].token = t
  PROVE  \E i \in 1..n : LastFor(frame, 1..n, t, i)
<1> DEFINE S == {i \in 1..n : frame[i].token = t}
           T == {k \in Nat : \A i \in S : i <= k}
<1>1. n \in T /\ j \in S
  OBVIOUS
<1>2. PICK k \in T : \A m \in T : k <= m
  BY <1>1, Least
<1>3. j <= k /\ k \in Nat \ {0}
  BY <1>1, <1>2
<1>4. k \in S
  <2> SUFFICES ASSUME k \notin S PROVE FALSE
    OBVIOUS
  <2>1. \A i \in S : i \in Nat /\ i <= k /\ i # k
    BY <1>2
  <2>2. \A i \in S : i <= k - 1
    BY <1>3, <2>1
  <2>3. k - 1 \in T
    BY <1>3, <2>2
  <2> QED BY <1>2, <1>3, <2>3
<1> QED BY <1>2, <1>4 DEF LastFor

(* What the storage of a token holds after a frame.                          *)
LEMMA StoreIs ==
  ASSUME TypeOK, NEW frame \in Seq(Pdu), NEW wc \in [DOMAIN frame -> WorkingCounts],
         NEW t \in DOMAIN receive
  PROVE  LET kept == Store(frame, DOMAIN frame, wc)[t] IN
         \/ /\ \A i \in DOMAIN frame : frame[i].token # t
            /\ kept = receive[t]
         \/ \E i \in DOMAIN frame : /\ LastFor(frame, DOMAIN frame, t, i)
                                    /\ kept.ready = SaturatingAdd(wc[i], 1)
                                    /\ kept.data = frame[i].request
<1> DEFINE kept == Store(frame, DOMAIN frame, wc)[t]
<1>1. receive[t] \in PduState
  BY DEF TypeOK
<1>2. CASE \E i \in DOMAIN frame : LastFor(frame, DOMAIN frame, t, i)
  <2> DEFINE last == CHOOSE i \in DOMAIN frame : LastFor(frame, DOMAIN frame, t, i)
  <2>1. last \in DOMAIN frame /\ LastFor(frame, DOMAIN frame, t, last)
    BY <1>2
  <2>2. kept = [receive[t] EXCEPT !.ready = SaturatingAdd(wc[last], 1),
                                  !.data = frame[last].request]
    BY <1>2 DEF Store
  <2> HIDE DEF last
  <2>3. \A k, d : LET r == [receive[t] EXCEPT !.ready = k, !.data = d]
                  IN r.ready = k /\ r.data = d
    BY <1>1 DEF PduState
  <2> HIDE DEF kept
  <2>4. kept.ready = SaturatingAdd(wc[last], 1) /\ kept.data = frame[last].request
    BY <2>2, <2>3
  <2> QED BY <2>1, <2>4 DEF kept
<1>3. CASE ~\E i \in DOMAIN frame : LastFor(frame, DOMAIN frame, t, i)
  <2>1. kept = receive[t]
    BY <1>3 DEF Store
  <2>2. Len(frame) \in Nat /\ DOMAIN frame = 1..Len(frame)
    OBVIOUS
  <2>3. \A i \in DOMAIN frame : frame[i].token # t
    BY <1>3, <2>2, LastExists
  <2> QED BY <2>1, <2>3
<1> QED BY <1>2, <1>3

(* Requests of one user are compared by their numbers.                       *)
LEMMA LatestIs ==
  ASSUME NEW v, NEW reqs, \A req \in reqs : \E k \in Nat : req = <<v, k>>,
         NEW last \in reqs, \A req \in reqs : req[2] <= last[2]
  PROVE  Exchange!Latest(reqs) = last
<1> DEFINE latest == CHOOSE req \in reqs : \A other \in reqs : other[2] <= req[2]
<1>1. latest \in reqs /\ \A other \in reqs : other[2] <= latest[2]
  OBVIOUS
<1>2. Exchange!Latest(reqs) = latest
  BY DEF Exchange!Latest
<1> HIDE DEF latest
<1>3. PICK k \in Nat : latest = <<v, k>>
  BY <1>1
<1>4. PICK m \in Nat : last = <<v, m>>
  OBVIOUS
<1>5. k <= m /\ m <= k
  BY <1>1, <1>3, <1>4
<1> QED BY <1>2, <1>3, <1>4, <1>5

(* The PDUs in a frame with the token of a user are those of its requests,   *)
(* which it waits for unless it is a group.                                  *)
LEMMA OwnPdus ==
  ASSUME TokenInv, ExchangeInv, NEW frame \in wire, NEW i \in DOMAIN frame, NEW v \in Users
  PROVE  /\ Holds(v) /\ frame[i].token = topic[v] <=> frame[i].request[1] = v
         /\ frame[i].request[1] = v => /\ v \in Groups \cup Waiting
                                       /\ topic[v] \in DOMAIN receive
                                       /\ \E k \in Nat : frame[i].request = <<v, k>>
<1>1. frame \in Flying
  BY DEF Flying
<1>2. /\ frame[i].request \in Request /\ frame[i].request[1] \in Users
      /\ frame[i].token \in Tokens /\ Expected(frame[i])
  BY <1>1, FlyingPdus DEF TokenInv, ExchangeInv, AllExpected
<1>3. PICK w \in Users, k \in Nat : frame[i].request = <<w, k>>
  BY <1>2 DEF Request
<1>4. topic[w] = frame[i].token /\ Holds(w) /\ (w \notin Groups => w \in Waiting)
  BY <1>2, <1>3 DEF Expected, Holds, Tokens, NoToken, Waiting
<1>5. Holds(v) /\ frame[i].token = topic[v] <=> v = w
  BY <1>4 DEF TokenInv, TokensOwned, Holds
<1>6. topic[w] \in DOMAIN receive
  BY <1>2, <1>4 DEF TokenInv, TokensOwned
<1> QED BY <1>3, <1>4, <1>5, <1>6

LEMMA Distinct ==
  ASSUME TokenInv, ExchangeInv, NEW frame \in wire, InOrder(frame),
         NEW i \in DOMAIN frame, NEW j \in DOMAIN frame, frame[i].request = frame[j].request
  PROVE  i = j
<1>1. frame \in Flying
  BY DEF Flying
<1>2. frame \in Seq(Pdu) /\ frame[i].request \in Request
  BY <1>1, FlyingPdus DEF TokenInv
<1>3. frame[i].request[2] \in Nat
  BY <1>2 DEF Request
<1>4. ~(i < j) /\ ~(j < i)
  BY <1>3 DEF InOrder
<1> QED BY <1>2, <1>4

(* What a user gets of a frame with requests of its own.                     *)
LEMMA CameOf ==
  ASSUME TokenInv, ExchangeInv, U16Max \notin WorkingCounts, NEW frame \in wire, InOrder(frame),
         NEW wc \in [DOMAIN frame -> WorkingCounts],
         UNCHANGED users, receive' = Store(frame, DOMAIN frame, wc),
         NEW count, \A i \in DOMAIN frame : count[frame[i].request] = wc[i],
         NEW v \in Users, Exchange!Of(v, Requests(frame)) # {}
  PROVE  /\ Came(v)' = LET req == Exchange!Latest(Exchange!Of(v, Requests(frame)))
                       IN {Exchange!Outcome(count[req], req)}
         /\ Ready(v)'
<1> DEFINE own == Exchange!Of(v, Requests(frame))
<1>1. own = {req \in Requests(frame) : req[1] = v}
  BY DEF Exchange!Of
<1>2. PICK j \in DOMAIN frame : frame[j].request[1] = v
  BY <1>1 DEF Requests
<1>3. /\ Holds(v) /\ v \in Groups \cup Waiting /\ topic[v] \in DOMAIN receive
      /\ frame[j].token = topic[v]
  BY <1>2, OwnPdus
<1>4. frame \in Seq(Pdu) /\ TypeOK
  BY DEF TokenInv, TypeOK
<1>5. PICK i \in DOMAIN frame : /\ LastFor(frame, DOMAIN frame, topic[v], i)
                                /\ receive'[topic[v]].ready = SaturatingAdd(wc[i], 1)
                                /\ receive'[topic[v]].data = frame[i].request
  BY <1>2, <1>3, <1>4, StoreIs
<1> DEFINE last == frame[i].request
<1>6. frame[i].token = topic[v] /\ last[1] = v /\ last \in own
  BY <1>1, <1>3, <1>5, OwnPdus DEF LastFor, Requests
<1>7. count[last] = wc[i] /\ wc[i] \in WorkingCounts
  OBVIOUS
<1>8. ASSUME NEW k \in DOMAIN frame, frame[k].request[1] = v
      PROVE  /\ \E m \in Nat : frame[k].request = <<v, m>>
             /\ frame[k].request[2] <= last[2]
  <2>1. PICK m \in Nat : frame[k].request = <<v, m>>
    BY <1>8, OwnPdus
  <2>2. PICK m2 \in Nat : last = <<v, m2>>
    BY <1>6, OwnPdus
  <2>3. k <= i
    BY <1>5, <1>8, OwnPdus DEF LastFor
  <2>4. CASE k < i
    BY <1>6, <2>1, <2>2, <2>4 DEF InOrder
  <2>5. CASE k = i
    BY <2>1, <2>5
  <2> QED BY <1>4, <2>1, <2>3, <2>4, <2>5
<1> HIDE DEF own, last
<1>9. Exchange!Latest(own) = last
  <2>1. ASSUME NEW req \in own
        PROVE  (\E m \in Nat : req = <<v, m>>) /\ req[2] <= last[2]
    <3>1. PICK k \in DOMAIN frame : req = frame[k].request /\ frame[k].request[1] = v
      BY <1>1, <2>1 DEF Requests
    <3> QED BY <1>8, <3>1
  <2>2. \A req \in own : \E m \in Nat : req = <<v, m>>
    BY <2>1
  <2>3. \A req \in own : req[2] <= last[2]
    BY <2>1
  <2>4. last \in own
    BY <1>6
  <2> QED BY <2>2, <2>3, <2>4, LatestIs
<1>10. wc[i] \in 0..U16Max /\ wc[i] # U16Max /\ U16Max \in Nat
  BY <1>7, ConstantsAssumption
<1>11. /\ receive'[topic[v]].ready # 0
       /\ receive'[topic[v]].ready - 1 = wc[i]
  BY <1>5, <1>10 DEF SaturatingAdd, Smaller
<1>12. topic' = topic /\ Holds(v)' /\ v \in (Groups \cup Waiting)'
  BY <1>3 DEF users, Holds, Waiting
<1>13. Came(v)' = {Reported(wc[i], last)}
  BY <1>5, <1>11, <1>12 DEF Came, last
<1>14. Exchange!Outcome(count[last], last) = Reported(wc[i], last)
  BY <1>7 DEF Exchange!Outcome, Exchange!NoAnswer, Reported
<1>15. Ready(v)'
  BY <1>11, <1>12 DEF Ready
<1> QED BY <1>9, <1>13, <1>14, <1>15 DEF own

(* A frame received is requests coming back.                                 *)
LEMMA ReceiverComesBack ==
  ASSUME BaseInv, ExchangeInv, FramesInOrder, DoneHasOutcome, ~Faulty,
         U16Max \notin WorkingCounts, ReceiverStep
  PROVE  DoneHasOutcome' /\ ExchangeStep
<1>1. TokenInv /\ TypeOK /\ TokensOwned /\ SentOnce
  BY DEF BaseInv, TokenInv
<1>2. PICK frame \in wire : \E wc \in [DOMAIN frame -> WorkingCounts] :
        /\ Reception(frame) /\ tasks' = "running"
        /\ receive' = Store(frame, DOMAIN frame, wc)
  BY <1>1, OnlyReceived
<1>3. PICK wc \in [DOMAIN frame -> WorkingCounts] :
        /\ Reception(frame) /\ receive' = Store(frame, DOMAIN frame, wc)
  BY <1>2
<1>4. /\ wire' = wire \ {frame} /\ UNCHANGED <<send, sender, users>>
      /\ frame \in Seq(Pdu) /\ InOrder(frame)
  BY <1>1, <1>3 DEF Reception, buffer, TypeOK, FramesInOrder
<1> DEFINE reqs == Requests(frame)
           count == [req \in reqs |-> wc[CHOOSE i \in DOMAIN frame : frame[i].request = req]]
<1>5. \A i \in DOMAIN frame : count[frame[i].request] = wc[i]
  <2> SUFFICES ASSUME NEW i \in DOMAIN frame PROVE count[frame[i].request] = wc[i]
    OBVIOUS
  <2>1. PICK k : k = CHOOSE j \in DOMAIN frame : frame[j].request = frame[i].request
    OBVIOUS
  <2>2. k \in DOMAIN frame /\ frame[k].request = frame[i].request
    BY <2>1
  <2>3. k = i
    BY <1>1, <1>4, <2>2, Distinct
  <2> QED BY <2>1, <2>3 DEF Requests
<1>6. count \in [reqs -> WorkingCounts]
  <2> SUFFICES ASSUME NEW req \in reqs PROVE count[req] \in WorkingCounts
    OBVIOUS
  <2>1. PICK i \in DOMAIN frame : req = frame[i].request
    BY DEF Requests
  <2> HIDE DEF count
  <2> QED BY <1>5, <2>1
<1> HIDE DEF count, reqs
<1>7. ASSUME NEW v \in Users
      PROVE  /\ Came(v)' = IF Exchange!Of(v, reqs) = {} THEN Came(v)
                           ELSE LET req == Exchange!Latest(Exchange!Of(v, reqs))
                                IN {Exchange!Outcome(count[req], req)}
             /\ Ready(v)'
  <2>1. CASE Exchange!Of(v, reqs) # {}
    BY <1>1, <1>3, <1>4, <1>5, <2>1, CameOf DEF reqs
  <2>2. CASE Exchange!Of(v, reqs) = {}
    <3>1. \A i \in DOMAIN frame : frame[i].request[1] # v
      BY <2>2 DEF Exchange!Of, reqs, Requests
    <3>2. Holds(v) => receive'[topic[v]] = receive[topic[v]]
      <4> SUFFICES ASSUME Holds(v) PROVE receive'[topic[v]] = receive[topic[v]]
        OBVIOUS
      <4>1. topic[v] \in DOMAIN receive
        BY <1>1 DEF TokensOwned, TypeOK, Holds
      <4>2. \A i \in DOMAIN frame : frame[i].token # topic[v]
        BY <1>1, <3>1, OwnPdus
      <4> QED BY <1>1, <1>3, <1>4, <4>1, <4>2, StoreIs DEF LastFor
    <3>3. pc'[v] = pc[v] /\ topic'[v] = topic[v]
      BY <1>4 DEF users
    <3> QED BY <1>1, <2>2, <3>2, <3>3, OtherCame
  <2> QED BY <2>1, <2>2
<1>8. DoneHasOutcome'
  BY <1>7, EveryReady
<1>9. reqs \in SUBSET InFlight /\ InFlight' = InFlight \ reqs
  BY <1>1, <1>4, LeftFlying DEF reqs
<1>10. Outcomes' = [v \in Users |-> IF Exchange!Of(v, reqs) = {} THEN Outcomes[v]
                                    ELSE LET req == Exchange!Latest(Exchange!Of(v, reqs))
                                         IN {Exchange!Outcome(count[req], req)}]
  BY <1>7 DEF Outcomes
<1>11. Exchange!ComeBack(reqs)
  BY <1>4, <1>6, <1>9, <1>10, OfLoops DEF Exchange!ComeBack, Outcomes, Answers
<1> QED BY <1>8, <1>9, <1>11 DEF ExchangeStep, Exchange!Next

(* pdu_timeout gives up the exchanges and groups it finds too old.           *)
LEMMA TimeoutGivesUp ==
  ASSUME BaseInv, ExchangeInv, DoneHasOutcome, Timely, TimeoutTick
  PROVE  DoneHasOutcome' /\ ExchangeStep
<1>1. TokenInv /\ TypeOK /\ TokensOwned
  BY DEF BaseInv, TokenInv
<1>2. PICK expired \in SUBSET DOMAIN receive :
        /\ \A t \in expired : ~Pending(t)
        /\ receive' = [t \in DOMAIN receive |->
                         IF t \in expired
                         THEN [receive[t] EXCEPT !.aged = TRUE, !.ready = 1]
                         ELSE [receive[t] EXCEPT !.aged = TRUE]]
  BY DEF TimeoutTick
<1>3. UNCHANGED <<send, wire, sender, users>>
  BY DEF TimeoutTick, buffer
<1>4. \A t \in DOMAIN receive :
        /\ receive'[t].data = receive[t].data
        /\ receive'[t].ready = IF t \in expired THEN 1 ELSE receive[t].ready
  <2> SUFFICES ASSUME NEW t \in DOMAIN receive
               PROVE  /\ receive'[t].data = receive[t].data
                      /\ receive'[t].ready = IF t \in expired THEN 1 ELSE receive[t].ready
    OBVIOUS
  <2> DEFINE storage == receive[t]
  <2>1. storage \in PduState
    BY <1>1 DEF TypeOK
  <2>2. receive'[t] = IF t \in expired THEN [storage EXCEPT !.aged = TRUE, !.ready = 1]
                      ELSE [storage EXCEPT !.aged = TRUE]
    BY <1>2
  <2> HIDE DEF storage
  <2>3. LET late == [storage EXCEPT !.aged = TRUE, !.ready = 1]
            other == [storage EXCEPT !.aged = TRUE]
        IN /\ late.data = storage.data /\ late.ready = 1
           /\ other.data = storage.data /\ other.ready = storage.ready
    BY <2>1 DEF PduState
  <2> QED BY <2>2, <2>3 DEF storage
<1> DEFINE late == {v \in Groups \cup Waiting : Holds(v) /\ topic[v] \in expired}
<1>5. late \in SUBSET Users
  BY ConstantsAssumption DEF Waiting
<1>6. ASSUME NEW v \in late
      PROVE  /\ Exchange!Of(v, InFlight) = {} /\ Came(v) = {}
             /\ Came(v)' = {Exchange!NoAnswer} /\ Ready(v)'
  <2>1. /\ topic[v] \in expired /\ topic[v] \in DOMAIN receive /\ Holds(v)
        /\ v \in Groups \cup Waiting /\ ~Pending(topic[v])
    BY <1>2
  <2>2. Came(v) = {}
    BY <2>1 DEF Pending, Came
  <2>3. Exchange!Of(v, InFlight) = {}
    <3> SUFFICES ASSUME NEW req \in InFlight, req[1] = v PROVE FALSE
      BY DEF Exchange!Of
    <3>1. PICK pdus \in Flying : \E i \in DOMAIN pdus : pdus[i].request = req
      BY DEF InFlight, Requests
    <3>2. PICK i \in DOMAIN pdus : pdus[i].request = req
      BY <3>1
    <3>3. pdus[i].token = topic[v]
      BY <3>2 DEF ExchangeInv, AllExpected, Expected
    <3> QED BY <2>1, <3>3 DEF Pending, Flying
  <2>4. topic' = topic /\ Holds(v)' /\ v \in (Groups \cup Waiting)' /\ receive'[topic[v]].ready = 1
    BY <1>3, <1>4, <2>1 DEF users, Holds, Waiting
  <2>5. Came(v)' = {Exchange!NoAnswer}
    BY <2>4 DEF Came, Reported, Exchange!NoAnswer
  <2> QED BY <2>2, <2>3, <2>4, <2>5 DEF Ready
<1>7. ASSUME NEW v \in Users \ late
      PROVE  Came(v)' = Came(v) /\ Ready(v)'
  <2>1. UNCHANGED <<pc, topic>>
    BY <1>3 DEF users
  <2>2. CASE v \in Groups \cup Waiting
    <3>1. Holds(v) => topic[v] \in DOMAIN receive /\ topic[v] \notin expired
      BY <1>1, <2>2 DEF TokensOwned, TypeOK, Holds
    <3> QED BY <1>1, <1>4, <2>1, <3>1, OtherCame
  <2>3. CASE v \notin Groups \cup Waiting
    BY <2>1, <2>3 DEF Came, Waiting, Ready
  <2> QED BY <2>2, <2>3
<1>8. late \subseteq Groups \cup Waiting
  OBVIOUS
<1> HIDE DEF late
<1>9. DoneHasOutcome'
  BY <1>6, <1>7, EveryReady
<1>10. Outcomes' = [v \in Users |-> IF v \in late THEN {Exchange!NoAnswer} ELSE Outcomes[v]]
  BY <1>6, <1>7 DEF Outcomes
<1>11. InFlight' = InFlight
  BY <1>3 DEF InFlight, Flying
<1>12. \A v \in late : Exchange!Of(v, InFlight) = {} /\ Outcomes[v] = {} /\ v \in Groups \cup Waiting
  BY <1>5, <1>6, <1>8 DEF Outcomes
<1>13. Exchange!GiveUp(late)
  BY <1>3, <1>10, <1>11, <1>12, OfLoops DEF Exchange!GiveUp, Outcomes, Answers
<1> QED BY <1>5, <1>9, <1>13 DEF ExchangeStep, Exchange!Next

LEMMA NextPromised ==
  ASSUME Cooperative, U16Max \notin WorkingCounts
  PROVE  BaseInv /\ ExchangeInv /\ FramesInOrder /\ DoneHasOutcome /\ [Next]_vars
           => DoneHasOutcome' /\ ExchangeStep
<1> SUFFICES ASSUME BaseInv, ExchangeInv, FramesInOrder, DoneHasOutcome, [Next]_vars
             PROVE  DoneHasOutcome' /\ ExchangeStep
  OBVIOUS
<1> USE DEF Cooperative
<1>1. ASSUME NEW u \in Users,
             \/ NewStep(u) \/ SendStep(u) \/ Flush(u) \/ WaitStep(u)
             \/ Receive(u) \/ DropTopic(u) \/ Cancel(u)
      PROVE  DoneHasOutcome' /\ ExchangeStep
  <2>1. ~Cancel(u)
    BY DEF Cancel
  <2> QED BY <1>1, <2>1, NewUnseen, SendUnseen, StackAsks, WaitUnseen, ReceiveTakes,
             DropUnseen DEF SendStep
<1>2. CASE SenderStep
  BY <1>2, SenderUnseen
<1>3. CASE \E frame \in wire : Lose(frame)
  BY <1>3, LoseLoses
<1>4. CASE ReceiverStep
  BY <1>4, ReceiverComesBack
<1>5. CASE TimeoutTick
  BY <1>5, TimeoutGivesUp
<1>6. ~Stop
  BY DEF Stop
<1>7. CASE UNCHANGED vars
  <2>1. UNCHANGED <<users, receive, wire, send, sender>>
    BY <1>7 DEF vars, buffer
  <2>2. InFlight' = InFlight
    BY <2>1 DEF InFlight, Flying
  <2>3. Outcomes' = Outcomes /\ DoneHasOutcome'
    BY <2>1, OfLoops DEF Outcomes, Came, DoneHasOutcome, users
  <2> QED BY <2>1, <2>2, <2>3, OfLoops DEF ExchangeStep
<1> QED BY <1>1, <1>2, <1>3, <1>4, <1>5, <1>6, <1>7 DEF Next

LEMMA InitPromised == Init => Exchange!Init /\ FramesInOrder /\ DoneHasOutcome
<1> SUFFICES ASSUME Init PROVE Exchange!Init /\ FramesInOrder /\ DoneHasOutcome
  OBVIOUS
<1>1. FramesInOrder /\ DoneHasOutcome
  BY DEF Init, FramesInOrder, InOrder, DoneHasOutcome
<1>2. InFlight = {} /\ Waiting = {}
  BY DEF Init, InFlight, Flying, Requests, Waiting
<1>3. \A u \in Users : Came(u) = {} /\ Reported(answer[u].answers, answer[u].data) = Exchange!NoAnswer
  BY DEF Init, Came, Holds, Reported, Exchange!NoAnswer
<1> QED BY <1>1, <1>2, <1>3 DEF Init, Exchange!Init

(* RawMaster implements PduExchange: each request comes back once, to its    *)
(* user, or is lost; an exchange waits for the outcome of its own request,   *)
(* and is not given up while its answer may come.                            *)
THEOREM KeepsPromise ==
  ASSUME Cooperative, U16Max \notin WorkingCounts
  PROVE  Spec => ExchangeSpec
<1>1. /\ BaseInv /\ ExchangeInv /\ FramesInOrder /\ DoneHasOutcome /\ [Next]_vars
           => DoneHasOutcome'
      /\ BaseInv /\ ExchangeInv /\ FramesInOrder /\ DoneHasOutcome /\ [Next]_vars
           => [Exchange!Next]_<<request, InFlight, Waiting, Outcomes, Answers>>
  BY NextPromised DEF ExchangeStep
<1>2. BaseInv /\ FramesInOrder /\ [Next]_vars => FramesInOrder'
  BY NextInOrder DEF BaseInv, TokenInv
<1>3. [Exchange!Next]_<<request, InFlight, Waiting, Outcomes, Answers>>
        => [Exchange!Next]_Exchange!vars
  BY DEF Exchange!vars, Outcomes, Answers
<1> QED BY <1>1, <1>2, <1>3, InitPromised, ExchangeInvariant, PTL
           DEF Spec, ExchangeSpec, Exchange!Spec
=============================================================================
