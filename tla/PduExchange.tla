---------------------------- MODULE PduExchange ----------------------------
(***************************************************************************)
(* What RawMaster promises to its users.  A request is executed once, or   *)
(* lost.  A user making an exchange waits for its outcome: the answer to   *)
(* this very request, or no answer once it can not come any more.  A user  *)
(* in Groups makes requests and takes what came as it pleases.             *)
(***************************************************************************)
EXTENDS Integers

CONSTANTS Users, Groups,
          Nothing,        (* no data                                       *)
          WorkingCounts,  (* how many slaves may execute a request         *)
          MaxRequests     (* BOUND: number of requests of each user        *)

VARIABLES asked,    (* number of requests of each user                     *)
          flying,   (* requests that may still come back: <<user, number>> *)
          waiting,  (* users in an exchange                                *)
          came,     (* the outcome of each user that it did not take: {}   *)
                    (* or a singleton                                      *)
          answer    (* the outcome that each user last took                *)

vars == <<asked, flying, waiting, came, answer>>

NoAnswer == [answers |-> 0, data |-> Nothing]
Outcome(count, req) == IF count = 0 THEN NoAnswer ELSE [answers |-> count, data |-> req]

Of(u, reqs) == {req \in reqs : req[1] = u}
Latest(reqs) == CHOOSE req \in reqs : \A other \in reqs : other[2] <= req[2]

Init ==
  /\ asked = [u \in Users |-> 0]
  /\ flying = {} /\ waiting = {}
  /\ came = [u \in Users |-> {}]
  /\ answer = [u \in Users |-> NoAnswer]

Ask(u) ==
  /\ asked[u] < MaxRequests[u]
  /\ u \notin waiting
  /\ waiting' = IF u \in Groups THEN waiting ELSE waiting \cup {u}
  /\ asked' = [asked EXCEPT ![u] = @ + 1]
  /\ flying' = flying \cup {<<u, asked[u] + 1>>}
  /\ UNCHANGED <<came, answer>>

(* Requests come back together; of those of a group the latest is kept.      *)
ComeBack(reqs) ==
  /\ flying' = flying \ reqs
  /\ \E count \in [reqs -> WorkingCounts] :
       came' = [u \in Users |->
                  IF Of(u, reqs) = {} THEN came[u]
                  ELSE LET req == Latest(Of(u, reqs)) IN {Outcome(count[req], req)}]
  /\ UNCHANGED <<asked, waiting, answer>>

Lose(reqs) ==
  /\ flying' = flying \ reqs
  /\ UNCHANGED <<asked, waiting, came, answer>>

(* Nothing can come any more for these users, and nothing did.               *)
GiveUp(late) ==
  /\ \A u \in late : Of(u, flying) = {} /\ came[u] = {} /\ u \in Groups \cup waiting
  /\ came' = [u \in Users |-> IF u \in late THEN {NoAnswer} ELSE came[u]]
  /\ UNCHANGED <<asked, flying, waiting, answer>>

(* An exchange ends with an outcome; a group may find that nothing came.     *)
Take(u) ==
  /\ u \in Groups \/ (u \in waiting /\ came[u] # {})
  /\ waiting' = waiting \ {u}
  /\ \E outcome \in IF came[u] = {} THEN {NoAnswer} ELSE came[u] :
       answer' = [answer EXCEPT ![u] = outcome]
  /\ came' = [came EXCEPT ![u] = {}]
  /\ UNCHANGED <<asked, flying>>

Next ==
  \/ \E u \in Users : Ask(u) \/ Take(u)
  \/ \E reqs \in SUBSET flying : ComeBack(reqs) \/ Lose(reqs)
  \/ \E late \in SUBSET Users : GiveUp(late)

Spec == Init /\ [][Next]_vars
============================================================================
