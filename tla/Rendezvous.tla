----------------------------- MODULE Rendezvous ------------------------------
(* What synchronous IPC promises (docs/ipc-design.md, sections 4 and 7): a   *)
(* message moves exactly when one sender and one receiver meet on an         *)
(* endpoint, each meeting takes one offer away, and nobody is left offering  *)
(* on an endpoint where somebody waits.  Queues, message registers, buffers  *)
(* to be filled later and the scheduler are not part of it.                  *)
EXTENDS FiniteSets, Naturals

CONSTANTS Procs, Endpoints, QueueCap, Msgs, NoMsg

VARIABLES at,        (* What each process is doing, and on which endpoint.   *)
          box        (* The contents of each process's message buffer.      *)

absvars == <<at, box>>

Idle == [doing |-> "idle"]
Offering(e, call)   == [doing |-> "offering", ep |-> e, call |-> call]
Waiting(e, deaf)    == [doing |-> "waiting", ep |-> e, deaf |-> deaf]
Owed(e)             == [doing |-> "owed", ep |-> e]
Stranded            == [doing |-> "stranded"]

AtEndpoint(doing, e) == {p \in Procs : at[p].doing = doing /\ at[p].ep = e}

RInit == /\ at = [p \in Procs |-> Idle]
         /\ box = [p \in Procs |-> NoMsg]

(* Nobody waits on the endpoint: the message is offered there.               *)
Offer(p, e, call, m) ==
  /\ at[p] = Idle
  /\ AtEndpoint("waiting", e) = {}
  /\ Cardinality(AtEndpoint("offering", e)) < QueueCap
  /\ at' = [at EXCEPT ![p] = Offering(e, call)]
  /\ box' = [box EXCEPT ![p] = m]

(* So many offer on the endpoint already that this one is refused.           *)
Refuse(p, e, m) ==
  /\ at[p] = Idle
  /\ Cardinality(AtEndpoint("offering", e)) = QueueCap
  /\ box' = [box EXCEPT ![p] = m]
  /\ UNCHANGED at

(* Nobody offers on the endpoint: the process waits there.  A deaf process   *)
(* waits with a buffer nothing can be written to.                            *)
Wait(p, e, deaf) ==
  /\ at[p] = Idle
  /\ AtEndpoint("offering", e) = {}
  /\ Cardinality(AtEndpoint("waiting", e)) < QueueCap
  /\ at' = [at EXCEPT ![p] = Waiting(e, deaf)]
  /\ UNCHANGED box

(* A sender meets one process that waits.                                    *)
Deliver(p, e, call, m, r) ==
  /\ at[p] = Idle
  /\ r \in AtEndpoint("waiting", e)
  /\ at' = [at EXCEPT ![r] = Idle, ![p] = IF call THEN Owed(e) ELSE Idle]
  /\ box' = [q \in Procs |-> IF q = p \/ (q = r /\ ~at[r].deaf) THEN m ELSE box[q]]

(* A receiver meets one process that offers.                                 *)
Take(p, e, s) ==
  /\ at[p] = Idle
  /\ s \in AtEndpoint("offering", e)
  /\ at' = [at EXCEPT ![s] = IF at[s].call THEN Owed(e) ELSE Idle]
  /\ box' = [box EXCEPT ![p] = box[s]]

(* A receiver whose buffer cannot be written takes an offer away, and the    *)
(* process that made it is left behind.                                      *)
Drop(p, e, s) ==
  /\ at[p] = Idle
  /\ s \in AtEndpoint("offering", e)
  /\ at' = [at EXCEPT ![s] = Stranded]
  /\ UNCHANGED box

(* A process that is owed a reply gets one.                                  *)
Answer(p, e, m, c) ==
  /\ at[p] = Idle
  /\ c \in AtEndpoint("owed", e)
  /\ at' = [at EXCEPT ![c] = Idle]
  /\ box' = [box EXCEPT ![p] = m, ![c] = m]


RNext ==
  \E p \in Procs, e \in Endpoints :
    \/ \E m \in Msgs, call \in BOOLEAN : Offer(p, e, call, m)
    \/ \E m \in Msgs : Refuse(p, e, m)
    \/ \E deaf \in BOOLEAN : Wait(p, e, deaf)
    \/ \E m \in Msgs, call \in BOOLEAN, r \in Procs : Deliver(p, e, call, m, r)
    \/ \E s \in Procs : Take(p, e, s) \/ Drop(p, e, s)
    \/ \E m \in Msgs, c \in Procs : Answer(p, e, m, c)

RSpec == RInit /\ [][RNext]_absvars
=============================================================================
