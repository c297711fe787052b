-------------------------- MODULE TenantSchedProofs --------------------------
(***************************************************************************)
(* Proofs about TenantSched for every set of processes, endpoints, rights  *)
(* and modules, every length of the queues and of the audit ring, every    *)
(* restart budget and every bound on the messages.                         *)
(***************************************************************************)
EXTENDS TenantSched, Integers, FiniteSetTheorems, SequenceTheorems,
        WellFoundedInduction, TLAPS

-----------------------------------------------------------------------------
(* What the model's operators return.                                       *)

(* The lowest of a set of process ids is one of them: the scheduler's scan, *)
(* the scan for a waiting caller and the scan for an unused process id find *)
(* somebody whenever there is somebody to find.                             *)
LEMMA LowestIn ==
  ASSUME NEW S \in SUBSET Procs, S # {}
  PROVE  Lowest(S) \in S /\ \A q \in S : Lowest(S) <= q
<1>1. IsWellFoundedOn({ss \in Nat \X Nat : ss[1] < ss[2]}, Nat)
  BY NatLessThanWellFounded DEF OpToRel
<1>2. S \subseteq Nat
  BY SchedAssumption
<1>3. PICK x \in S : \A y \in S : ~ (<<y, x>> \in {ss \in Nat \X Nat : ss[1] < ss[2]})
  BY <1>1, <1>2, WFMin
<1>4. ASSUME NEW y \in S PROVE x <= y
  <2>1. ~ (<<y, x>> \in {ss \in Nat \X Nat : ss[1] < ss[2]})
    BY <1>3
  <2>2. ~ (y < x)
    BY <2>1, <1>2
  <2> QED
    BY <2>2, <1>2
<1> QED
  BY <1>4 DEF Lowest

(* No two entries of a queue are the same process.                          *)
Distinct(q) == \A i, j \in DOMAIN q : q[i] = q[j] => i = j

(* A pop takes the first entry of a queue and leaves the others in order.   *)
LEMMA QueuePop ==
  ASSUME NEW q \in Seq(Procs), q # <<>>
  PROVE  /\ Head(q) \in Procs /\ InQueue(Head(q), q)
         /\ 1 \in DOMAIN q /\ q[1] = Head(q)
         /\ Tail(q) \in Seq(Procs) /\ Len(Tail(q)) = Len(q) - 1 /\ Len(q) \in Nat
         /\ \A i \in DOMAIN Tail(q) : i + 1 \in DOMAIN q /\ Tail(q)[i] = q[i + 1]
         /\ Distinct(q) => Distinct(Tail(q)) /\ ~ InQueue(Head(q), Tail(q))
         /\ \A r : InQueue(r, q) => r = Head(q) \/ InQueue(r, Tail(q))
<1>1. /\ Head(q) \in Procs /\ Tail(q) \in Seq(Procs) /\ Len(Tail(q)) = Len(q) - 1
      /\ \A i \in 1 .. Len(Tail(q)) : Tail(q)[i] = q[i + 1]
  BY HeadTailProperties
<1>2. Len(q) \in Nat \ {0} /\ DOMAIN q = 1 .. Len(q)
  BY EmptySeq, LenProperties
<1>3. DOMAIN Tail(q) = 1 .. Len(q) - 1
  BY <1>1, LenProperties
<1>4. 1 \in DOMAIN q /\ q[1] = Head(q)
  BY <1>2
<1>5. \A i \in DOMAIN Tail(q) : i + 1 \in DOMAIN q /\ Tail(q)[i] = q[i + 1]
  BY <1>1, <1>2, <1>3
<1>6. Distinct(q) => Distinct(Tail(q)) /\ ~ InQueue(Head(q), Tail(q))
  <2> SUFFICES ASSUME Distinct(q)
               PROVE  Distinct(Tail(q)) /\ ~ InQueue(Head(q), Tail(q))
    OBVIOUS
  <2>1. ASSUME NEW i \in DOMAIN Tail(q), NEW j \in DOMAIN Tail(q),
               Tail(q)[i] = Tail(q)[j]
        PROVE  i = j
    <3>1. i + 1 = j + 1
      BY <2>1, <1>5 DEF Distinct
    <3> QED
      BY <3>1, <1>2, <1>3
  <2>2. ASSUME NEW i \in DOMAIN Tail(q), Tail(q)[i] = Head(q)
        PROVE  FALSE
    <3>1. i + 1 = 1
      BY <2>2, <1>4, <1>5 DEF Distinct
    <3> QED
      BY <3>1, <1>2, <1>3
  <2> QED
    BY <2>1, <2>2 DEF Distinct, InQueue
<1>7. ASSUME NEW r, InQueue(r, q)
      PROVE  r = Head(q) \/ InQueue(r, Tail(q))
  <2>1. PICK i \in DOMAIN q : q[i] = r
    BY <1>7 DEF InQueue
  <2>2. CASE i = 1
    BY <2>1, <2>2, <1>4
  <2>3. CASE i # 1
    <3>1. i - 1 \in DOMAIN Tail(q) /\ (i - 1) + 1 = i
      BY <2>3, <1>2, <1>3
    <3>2. Tail(q)[i - 1] = r
      BY <3>1, <2>1, <1>5
    <3> QED
      BY <3>1, <3>2 DEF InQueue
  <2> QED
    BY <2>2, <2>3
<1>8. InQueue(Head(q), q)
  BY <1>4 DEF InQueue
<1> QED
  BY <1>1, <1>2, <1>4, <1>5, <1>6, <1>7, <1>8

(* A push puts one entry behind the others.                                 *)
LEMMA QueuePush ==
  ASSUME NEW q \in Seq(Procs), NEW p \in Procs
  PROVE  /\ Append(q, p) \in Seq(Procs) /\ Append(q, p) # <<>>
         /\ Len(Append(q, p)) = Len(q) + 1 /\ Len(q) \in Nat
         /\ \A i \in DOMAIN Append(q, p) :
              \/ i \in DOMAIN q /\ Append(q, p)[i] = q[i]
              \/ i = Len(q) + 1 /\ Append(q, p)[i] = p
         /\ Distinct(q) /\ ~ InQueue(p, q) => Distinct(Append(q, p))
         /\ \A r : InQueue(r, Append(q, p)) <=> InQueue(r, q) \/ r = p
<1>1. /\ Append(q, p) \in Seq(Procs) /\ Append(q, p) # <<>>
      /\ Len(Append(q, p)) = Len(q) + 1
      /\ \A i \in 1 .. Len(q) : Append(q, p)[i] = q[i]
      /\ Append(q, p)[Len(q) + 1] = p
  BY AppendProperties
<1>2. Len(q) \in Nat /\ DOMAIN q = 1 .. Len(q)
  BY LenProperties
<1>3. DOMAIN Append(q, p) = 1 .. Len(q) + 1
  BY <1>1, LenProperties
<1>4. \A i \in DOMAIN Append(q, p) :
        \/ i \in DOMAIN q /\ Append(q, p)[i] = q[i]
        \/ i = Len(q) + 1 /\ Append(q, p)[i] = p
  BY <1>1, <1>2, <1>3
<1>5. Distinct(q) /\ ~ InQueue(p, q) => Distinct(Append(q, p))
  BY <1>4 DEF Distinct, InQueue
<1>6. ASSUME NEW r
      PROVE  InQueue(r, Append(q, p)) <=> InQueue(r, q) \/ r = p
  <2>1. InQueue(r, Append(q, p)) => InQueue(r, q) \/ r = p
    BY <1>4 DEF InQueue
  <2>2. InQueue(r, q) \/ r = p => InQueue(r, Append(q, p))
    BY <1>1, <1>2, <1>3 DEF InQueue
  <2> QED
    BY <2>1, <2>2
<1> QED
  BY <1>1, <1>2, <1>4, <1>5, <1>6

(* The place of a sequence number in the ring is one of its places.         *)
LEMMA SlotOfType ==
  ASSUME NEW s \in Nat
  PROVE  SlotOf(s) \in RingSlots
  BY RingAssumption DEF SlotOf, RingSlots

(* Sequence numbers less than a ring apart have different places.           *)
LEMMA SlotOfApart ==
  ASSUME NEW a \in Nat, NEW b \in Nat, a < b, b < a + RingCapacity
  PROVE  SlotOf(a) # SlotOf(b)
<1> DEFINE C == RingCapacity
           d == b \div C - a \div C
<1>1. a = C * (a \div C) + (a % C) /\ a \div C \in Int /\ a % C \in Int
  BY RingAssumption
<1>2. b = C * (b \div C) + (b % C) /\ b \div C \in Int /\ b % C \in Int
  BY RingAssumption
<1>3. ASSUME a % C = b % C PROVE FALSE
  <2>1. C * d = b - a /\ d \in Int
    BY <1>1, <1>2, <1>3, RingAssumption
  <2> HIDE DEF d
  <2>2. CASE d <= 0
    <3>1. C * d <= 0
      BY <2>2, <2>1, RingAssumption
    <3> QED
      BY <3>1, <2>1
  <2>3. CASE d >= 1
    <3>1. C * d >= C
      BY <2>3, <2>1, RingAssumption
    <3> QED
      BY <3>1, <2>1, RingAssumption
  <2> QED
    BY <2>1, <2>2, <2>3
<1> QED
  BY <1>3 DEF SlotOf

-----------------------------------------------------------------------------
(* Types.                                                                   *)

(* The tables are typed at boot.                                             *)
LEMMA InitType == Init => SchedTypeOK
<1> SUFFICES ASSUME Init PROVE SchedTypeOK
  OBVIOUS
<1> USE SchedAssumption, RingAssumption
<1>1. state \in [Procs -> States]
  BY DEF Init, States, Ready, Free, Plain
<1>2. /\ senders \in [Endpoints -> Seq(Procs)] /\ receivers \in [Endpoints -> Seq(Procs)]
      /\ \A e \in Endpoints : Len(senders[e]) <= QueueCap /\ Len(receivers[e]) <= QueueCap
  BY EmptySeq DEF Init
<1>3. /\ msg_regs \in [Procs -> Msgs \cup {NoMsg}] /\ mem \in [Procs -> Msgs \cup {NoMsg}]
      /\ msg_buf \in [Procs -> {NoBuf, GoodBuf, BadBuf}]
      /\ pool \in [Procs -> {"none", "entered", "parked"}]
      /\ composed \in [Procs -> 0 .. MsgMax]
      /\ next_seq \in Nat /\ cursor \in [Procs -> Nat]
      /\ ring_waiters \subseteq Procs
  BY DEF Init
<1>4. ring \in [RingSlots -> Records]
  <2>1. ASSUME NEW i \in RingSlots
        PROVE  BootRing[i] \in Records
    <3> DEFINE held == {s \in Oldest(BootEvents) .. BootEvents - 1 : SlotOf(s) = i}
    <3>1. held \subseteq Nat
      BY DEF Oldest
    <3>2. held # {} => (CHOOSE s \in held : TRUE) \in Nat
      BY <3>1
    <3>3. \A s \in Nat : Record(s, "Boot", NoProc) \in Records
      BY DEF Record, Records
    <3>4. NoRecord \in Records
      BY DEF NoRecord, Record, Records
    <3> HIDE DEF held
    <3>5. (IF held = {} THEN NoRecord ELSE Record(CHOOSE s \in held : TRUE, "Boot", NoProc))
            \in Records
      BY <3>2, <3>3, <3>4
    <3> QED
      BY <3>5 DEF BootRing, held
  <2> QED
    BY <2>1 DEF Init, BootRing
<1>5. slots \in [Modules -> [proc_id : Procs, daemon : BOOLEAN, restarts_left : Nat]]
  <2>1. ASSUME NEW d \in Modules
        PROVE  /\ ModuleProc[d] \in Procs /\ Budget[d] \in Nat
    OBVIOUS
  <2> QED
    BY <2>1 DEF Init
<1> QED
  BY <1>1, <1>2, <1>3, <1>4, <1>5 DEF SchedTypeOK

(* What an emit writes is a record.                                         *)
LEMMA EmittedType ==
  ASSUME NEW r \in [RingSlots -> Records],
         NEW seq \in Nat, NEW a \in Procs,
         NEW kind \in {"DaemonRestarted", "DaemonGaveUp"} \cup Endings
  PROVE  Emitted(r, seq, kind, a) \in [RingSlots -> Records]
  BY DEF Emitted, Record, Records

(* A process that blocks is typed.                                           *)
LEMMA BlockType ==
  ASSUME SchedTypeOK, NEW p \in Procs, NEW e \in Endpoints, NEW reason \in BlockReasons,
         NEW st \in [Procs -> States], NEW buf \in {NoBuf, GoodBuf, BadBuf},
         block_and_yield(st, p, reason, e, buf)
  PROVE  /\ state' \in [Procs -> States]
         /\ msg_buf' \in [Procs -> {NoBuf, GoodBuf, BadBuf}]
         /\ pool' \in [Procs -> {"none", "entered", "parked"}]
  BY DEF SchedTypeOK, block_and_yield, BlockedOn, States

(* A sender's step keeps the types of what it touches.                      *)
LEMMA SendType ==
  ASSUME SchedTypeOK, NEW p \in Procs, NEW e \in Endpoints, NEW call \in BOOLEAN,
         do_send_like(p, e, call)
  PROVE  SchedTypeOK'
<1> USE DEF SchedTypeOK
<1>1. NextMsg(p) \in Msgs
  BY SchedAssumption DEF do_send_like, Compose, NextMsg, Msgs
<1>2. \A q \in Procs : Woken(q) \in [Procs -> States]
  BY DEF Woken, Ready, Plain, States
<1>3. /\ composed' \in [Procs -> 0 .. MsgMax]
      /\ mem' \in [Procs -> Msgs \cup {NoMsg}]
      /\ next_seq' \in Nat /\ cursor' \in [Procs -> Nat]
      /\ ring' \in [RingSlots -> Records]
      /\ ring_waiters' \subseteq Procs
      /\ slots' \in [Modules -> [proc_id : Procs, daemon : BOOLEAN, restarts_left : Nat]]
  BY <1>1, SchedAssumption DEF do_send_like, Compose, eventVars
<1>4. CASE SendToReceiver(p, e, call)
  <2>1. /\ Head(receivers[e]) \in Procs /\ Tail(receivers[e]) \in Seq(Procs)
        /\ Len(Tail(receivers[e])) <= QueueCap
    BY <1>4, QueuePop, SchedAssumption DEF SendToReceiver
  <2>2. /\ senders' \in [Endpoints -> Seq(Procs)] /\ receivers' \in [Endpoints -> Seq(Procs)]
        /\ \A f \in Endpoints : Len(senders'[f]) <= QueueCap /\ Len(receivers'[f]) <= QueueCap
        /\ msg_regs' \in [Procs -> Msgs \cup {NoMsg}]
    BY <1>4, <1>1, <2>1 DEF SendToReceiver
  <2>3. /\ state' \in [Procs -> States]
        /\ msg_buf' \in [Procs -> {NoBuf, GoodBuf, BadBuf}]
        /\ pool' \in [Procs -> {"none", "entered", "parked"}]
    <3>1. "ReplyWait" \in BlockReasons /\ Woken(Head(receivers[e])) \in [Procs -> States]
      BY <1>2, <2>1 DEF BlockReasons
    <3>2. CASE call
      <4>1. block_and_yield(Woken(Head(receivers[e])), p, "ReplyWait", e, GoodBuf)
        BY <1>4, <3>2 DEF SendToReceiver
      <4> QED
        BY <4>1, <3>1, BlockType
    <3>3. CASE ~ call
      BY <1>4, <3>1, <3>3 DEF SendToReceiver
    <3> QED
      BY <3>2, <3>3
  <2> QED
    BY <1>3, <2>2, <2>3
<1>5. CASE SendQueued(p, e, call)
  <2>1. /\ Append(senders[e], p) \in Seq(Procs)
        /\ Len(senders[e]) < QueueCap => Len(Append(senders[e], p)) <= QueueCap
    BY QueuePush, SchedAssumption
  <2>2. /\ senders' \in [Endpoints -> Seq(Procs)] /\ receivers' \in [Endpoints -> Seq(Procs)]
        /\ \A f \in Endpoints : Len(senders'[f]) <= QueueCap /\ Len(receivers'[f]) <= QueueCap
        /\ msg_regs' \in [Procs -> Msgs \cup {NoMsg}]
    BY <1>5, <1>1, <2>1 DEF SendQueued
  <2>3. /\ state' \in [Procs -> States]
        /\ msg_buf' \in [Procs -> {NoBuf, GoodBuf, BadBuf}]
        /\ pool' \in [Procs -> {"none", "entered", "parked"}]
    <3>1. CASE Len(senders[e]) < QueueCap
      <4>1. PICK reason \in BlockReasons : block_and_yield(state, p, reason, e, GoodBuf)
        BY <1>5, <3>1 DEF SendQueued, BlockReasons
      <4> QED
        BY <4>1, BlockType
    <3>2. CASE ~ (Len(senders[e]) < QueueCap)
      BY <1>5, <3>2 DEF SendQueued
    <3> QED
      BY <3>1, <3>2
  <2> QED
    BY <1>3, <2>2, <2>3
<1> QED
  BY <1>4, <1>5 DEF do_send_like

(* So does a receiver's.                                                    *)
LEMMA RecvType ==
  ASSUME SchedTypeOK, NEW p \in Procs, NEW e \in Endpoints,
         NEW buf \in {GoodBuf, BadBuf}, ipc_recv(p, e, buf)
  PROVE  SchedTypeOK'
<1> USE DEF SchedTypeOK
<1>1. /\ msg_regs' \in [Procs -> Msgs \cup {NoMsg}]
      /\ composed' \in [Procs -> 0 .. MsgMax]
      /\ next_seq' \in Nat /\ cursor' \in [Procs -> Nat]
      /\ ring' \in [RingSlots -> Records]
      /\ ring_waiters' \subseteq Procs
      /\ slots' \in [Modules -> [proc_id : Procs, daemon : BOOLEAN, restarts_left : Nat]]
  BY DEF ipc_recv, eventVars
<1>2. ASSUME senders[e] # <<>>
      PROVE  /\ Head(senders[e]) \in Procs /\ Tail(senders[e]) \in Seq(Procs)
             /\ Len(Tail(senders[e])) <= QueueCap
  BY <1>2, QueuePop, SchedAssumption
<1>3. CASE RecvFromSender(p, e)
  <2>1. state' \in [Procs -> States]
    <3>1. Woken(Head(senders[e])) \in [Procs -> States]
      BY <1>2 DEF Woken, Ready, Plain, States
    <3>2. [state EXCEPT ![Head(senders[e])] = BlockedOn("ReplyWait", @.ep)]
            \in [Procs -> States]
      BY <1>2 DEF BlockedOn, States, BlockReasons
    <3> QED
      BY <1>3, <3>1, <3>2 DEF RecvFromSender
  <2>2. /\ senders' \in [Endpoints -> Seq(Procs)] /\ receivers' \in [Endpoints -> Seq(Procs)]
        /\ \A f \in Endpoints : Len(senders'[f]) <= QueueCap /\ Len(receivers'[f]) <= QueueCap
        /\ mem' \in [Procs -> Msgs \cup {NoMsg}]
        /\ msg_buf' \in [Procs -> {NoBuf, GoodBuf, BadBuf}]
        /\ pool' \in [Procs -> {"none", "entered", "parked"}]
    BY <1>3, <1>2 DEF RecvFromSender
  <2> QED
    BY <1>1, <2>1, <2>2
<1>4. CASE RecvUnwritable(p, e)
  <2>1. /\ senders' \in [Endpoints -> Seq(Procs)] /\ receivers' \in [Endpoints -> Seq(Procs)]
        /\ \A f \in Endpoints : Len(senders'[f]) <= QueueCap /\ Len(receivers'[f]) <= QueueCap
    BY <1>4, <1>2 DEF RecvUnwritable
  <2> QED
    BY <1>1, <1>4, <2>1 DEF RecvUnwritable
<1>5. CASE RecvQueued(p, e, buf)
  <2>1. /\ Append(receivers[e], p) \in Seq(Procs)
        /\ Len(Append(receivers[e], p)) <= QueueCap
    BY <1>5, QueuePush, SchedAssumption DEF RecvQueued
  <2>2. /\ senders' \in [Endpoints -> Seq(Procs)] /\ receivers' \in [Endpoints -> Seq(Procs)]
        /\ \A f \in Endpoints : Len(senders'[f]) <= QueueCap /\ Len(receivers'[f]) <= QueueCap
    BY <1>5, <2>1 DEF RecvQueued
  <2>3. /\ state' \in [Procs -> States]
        /\ msg_buf' \in [Procs -> {NoBuf, GoodBuf, BadBuf}]
        /\ pool' \in [Procs -> {"none", "entered", "parked"}]
        /\ mem' \in [Procs -> Msgs \cup {NoMsg}]
    <3>1. block_and_yield(state, p, "RecvWait", e, buf) /\ UNCHANGED mem
      BY <1>5 DEF RecvQueued
    <3>2. "RecvWait" \in BlockReasons
      BY DEF BlockReasons
    <3> QED
      BY <3>1, <3>2, BlockType
  <2> QED
    BY <1>1, <2>2, <2>3
<1> QED
  BY <1>3, <1>4, <1>5 DEF ipc_recv

(* So does a reply.                                                         *)
LEMMA ReplyType ==
  ASSUME SchedTypeOK, NEW p \in Procs, NEW e \in Endpoints, ipc_reply(p, e)
  PROVE  SchedTypeOK'
<1> USE DEF SchedTypeOK
<1>1. NextMsg(p) \in Msgs /\ composed' \in [Procs -> 0 .. MsgMax]
  BY SchedAssumption DEF ipc_reply, Compose, NextMsg, Msgs
<1>2. Lowest(ReplyWaiters(e)) \in Procs
  BY LowestIn DEF ipc_reply, ReplyWaiters
<1>3. state' \in [Procs -> States]
  BY <1>2 DEF ipc_reply, Woken, Ready, Plain, States
<1> QED
  BY <1>1, <1>2, <1>3 DEF ipc_reply, eventVars

(* A restart gives a module a new process and takes one off its budget.     *)
LEMMA RestartSlots ==
  ASSUME SchedTypeOK, NEW d \in Modules, NEW st, NEW r, NEW seq, Restart(d, st, r, seq)
  PROVE  /\ DOMAIN slots' = Modules
         /\ \A x \in Modules \ {d} : slots'[x] = slots[x]
         /\ slots'[d] = [proc_id |-> Lowest(FreePids), daemon |-> slots[d].daemon,
                         restarts_left |-> slots[d].restarts_left - 1]
         /\ slots' = [x \in Modules |-> slots'[x]]
<1>1. /\ slots' = [slots EXCEPT ![d].proc_id = Lowest(FreePids), ![d].restarts_left = @ - 1]
      /\ slots \in [Modules -> [proc_id : Procs, daemon : BOOLEAN, restarts_left : Nat]]
  BY DEF Restart, SchedTypeOK
<1>2. DOMAIN slots' = Modules /\ \A x \in Modules \ {d} : slots'[x] = slots[x]
  BY <1>1
<1>3. slots'[d] = [proc_id |-> Lowest(FreePids), daemon |-> slots[d].daemon,
                   restarts_left |-> slots[d].restarts_left - 1]
  BY <1>1
<1>4. slots' = [x \in Modules |-> slots'[x]]
  BY <1>1
<1> QED
  BY <1>2, <1>3, <1>4

(* A module that is given up is not watched any longer.                     *)
LEMMA GiveUpSlots ==
  ASSUME SchedTypeOK, NEW d \in Modules, NEW st, NEW r, NEW seq, GiveUp(d, st, r, seq)
  PROVE  /\ DOMAIN slots' = Modules
         /\ \A x \in Modules \ {d} : slots'[x] = slots[x]
         /\ slots'[d] = [proc_id |-> slots[d].proc_id, daemon |-> FALSE,
                         restarts_left |-> 0]
         /\ slots' = [x \in Modules |-> slots'[x]]
<1>1. /\ slots' = [slots EXCEPT ![d].daemon = FALSE, ![d].restarts_left = 0]
      /\ slots \in [Modules -> [proc_id : Procs, daemon : BOOLEAN, restarts_left : Nat]]
  BY DEF GiveUp, SchedTypeOK
<1>2. DOMAIN slots' = Modules /\ \A x \in Modules \ {d} : slots'[x] = slots[x]
  BY <1>1
<1>3. slots'[d] = [proc_id |-> slots[d].proc_id, daemon |-> FALSE, restarts_left |-> 0]
  BY <1>1
<1>4. slots' = [x \in Modules |-> slots'[x]]
  BY <1>1
<1> QED
  BY <1>2, <1>3, <1>4

(* The end of a tenant keeps the types, whatever the registry does about it.*)
LEMMA SettleType ==
  ASSUME SchedTypeOK, NEW p \in Procs, NEW ending \in Endings, settle(p, ending)
  PROVE  SchedTypeOK'
<1> USE DEF SchedTypeOK
<1> DEFINE st == [WakeRingWaiters EXCEPT ![p] = Plain(ending)]
           r == Emitted(ring, next_seq, ending, p)
           Typed == /\ state' \in [Procs -> States]
                    /\ next_seq' \in Nat
                    /\ ring' \in [RingSlots -> Records]
                    /\ slots' \in [Modules -> [proc_id : Procs, daemon : BOOLEAN, restarts_left : Nat]]
<1>1. st \in [Procs -> States]
  BY DEF WakeRingWaiters, Plain, Ready, States, Endings
<1>2. r \in [RingSlots -> Records] /\ next_seq + 1 \in Nat /\ (next_seq + 1) + 1 \in Nat
  <2>1. r \in [RingSlots -> Records]
    BY EmittedType
  <2> HIDE DEF r
  <2> QED
    BY <2>1
<1>3. on_tenant_terminated(p, st, r, next_seq + 1)
  BY DEF settle
<1> HIDE DEF st, r
<1>4. Typed
  <2>1. CASE state' = st /\ next_seq' = next_seq + 1 /\ ring' = r /\ UNCHANGED slots
    BY <2>1, <1>1, <1>2
  <2>2. ASSUME NEW d \in WatchedAs(p), Restartable(d), Restart(d, st, r, next_seq + 1)
        PROVE  Typed
    <3>1. Lowest(FreePids) \in Procs
      BY <2>2, LowestIn, SchedAssumption DEF Restartable, FreePids
    <3>2. d \in Modules /\ slots[d].restarts_left - 1 \in Nat
      BY <2>2 DEF WatchedAs, Restartable
    <3>3. Emitted(r, next_seq + 1, "DaemonRestarted", Lowest(FreePids)) \in [RingSlots -> Records]
      BY <3>1, <1>2, EmittedType
    <3>4. [st EXCEPT ![Lowest(FreePids)] = Ready] \in [Procs -> States]
      BY <1>1 DEF Ready, Plain, States
    <3>5. state' \in [Procs -> States] /\ ring' \in [RingSlots -> Records] /\ next_seq' \in Nat
      BY <2>2, <1>2, <3>3, <3>4 DEF Restart
    <3>6. ASSUME NEW x \in Modules
          PROVE  slots'[x] \in [proc_id : Procs, daemon : BOOLEAN, restarts_left : Nat]
      <4>1. CASE x = d
        <5>1. slots'[d] = [proc_id |-> Lowest(FreePids), daemon |-> slots[d].daemon,
                           restarts_left |-> slots[d].restarts_left - 1]
          BY <2>2, <3>2, RestartSlots
        <5>2. slots[d].daemon \in BOOLEAN
          BY <3>2
        <5> QED
          BY <4>1, <5>1, <5>2, <3>1, <3>2
      <4>2. CASE x # d
        BY <4>2, <2>2, <3>2, RestartSlots
      <4> QED
        BY <4>1, <4>2
    <3>7. slots' = [x \in Modules |-> slots'[x]]
      BY <2>2, <3>2, RestartSlots
    <3> QED
      BY <3>5, <3>6, <3>7
  <2>3. ASSUME NEW d \in WatchedAs(p), GiveUp(d, st, r, next_seq + 1)
        PROVE  Typed
    <3>1. d \in Modules /\ slots[d].proc_id \in Procs
      BY DEF WatchedAs
    <3>2. Emitted(r, next_seq + 1, "DaemonGaveUp", slots[d].proc_id) \in [RingSlots -> Records]
      BY <3>1, <1>2, EmittedType
    <3>3. state' = st /\ ring' \in [RingSlots -> Records] /\ next_seq' \in Nat
      <4>1. state' = st /\ next_seq' = next_seq + 1 + 1
        BY <2>3 DEF GiveUp
      <4>2. ring' = Emitted(r, next_seq + 1, "DaemonGaveUp", slots[d].proc_id)
        BY <2>3 DEF GiveUp
      <4> QED
        BY <1>2, <3>2, <4>1, <4>2
    <3>4. ASSUME NEW x \in Modules
          PROVE  slots'[x] \in [proc_id : Procs, daemon : BOOLEAN, restarts_left : Nat]
      <4>1. CASE x = d
        <5>1. slots'[d] = [proc_id |-> slots[d].proc_id, daemon |-> FALSE,
                           restarts_left |-> 0]
          BY <2>3, <3>1, GiveUpSlots
        <5> QED
          BY <3>1, <4>1, <5>1
      <4>2. CASE x # d
        BY <4>2, <2>3, <3>1, GiveUpSlots
      <4> QED
        BY <4>1, <4>2
    <3>5. slots' = [x \in Modules |-> slots'[x]]
      BY <2>3, <3>1, GiveUpSlots
    <3> QED
      BY <1>1, <3>3, <3>4, <3>5
  <2> QED
    BY <1>3, <2>1, <2>2, <2>3 DEF on_tenant_terminated
<1>5. pool' \in [Procs -> {"none", "entered", "parked"}] /\ ring_waiters' \subseteq Procs
  BY DEF settle
<1> QED
  BY <1>4, <1>5 DEF settle, ipcVars

(* Every step keeps the types.                                              *)
LEMMA TypeStep == SchedTypeOK /\ [Next]_vars => SchedTypeOK'
<1> SUFFICES ASSUME SchedTypeOK, [Next]_vars PROVE SchedTypeOK'
  OBVIOUS
<1>1. ASSUME NEW p \in Procs, run(p) PROVE SchedTypeOK'
  BY <1>1 DEF SchedTypeOK, run, eventVars, Running, Plain, States
<1>2. ASSUME NEW p \in Procs, event_read(p) PROVE SchedTypeOK'
  <2>1. CASE ReadRecord(p)
    <3>1. ReadSeq(cursor[p], next_seq) \in Nat
      BY RingAssumption DEF SchedTypeOK, ReadSeq, Oldest
    <3>2. ring[SlotOf(ReadSeq(cursor[p], next_seq))] \in Records
      BY <3>1, SlotOfType DEF SchedTypeOK
    <3>3. ring[SlotOf(ReadSeq(cursor[p], next_seq))].seq + 1 \in Nat
      BY <3>2 DEF Records
    <3> QED
      BY <1>2, <2>1, <3>3 DEF SchedTypeOK, event_read, ReadRecord, ipcVars
  <2>2. CASE block_on_event_ring(p)
    BY <1>2, <2>2 DEF SchedTypeOK, event_read, block_on_event_ring, ipcVars,
                      BlockedOn, States, BlockReasons
  <2> QED
    BY <1>2, <2>1, <2>2 DEF event_read
<1>3. CASE UNCHANGED vars
  BY <1>3 DEF SchedTypeOK, vars, ipcVars, eventVars
<1> QED
  BY <1>1, <1>2, <1>3, SendType, RecvType, ReplyType, SettleType
  DEF Next, ipc_send, ipc_call

-----------------------------------------------------------------------------
(* The rendezvous.                                                          *)

(* The inductive invariant of the rendezvous.  An emit wakes every waiter   *)
(* of the audit stream that is blocked, on whatever it is blocked: only     *)
(* because no such waiter is in an endpoint's queue do the queues survive   *)
(* it, so the invariant of the queues needs that of the stream.             *)
CoreInv == RendezvousInv /\ NoMissedRecord

(* The six states a process can be compared with are six states.            *)
LEMMA StatesApart ==
  /\ Free # Ready /\ Free # Running /\ Ready # Running
  /\ Free.tag = "Free" /\ Ready.tag = "Ready" /\ Running.tag = "Running"
  /\ \A r, e : BlockedOn(r, e).tag = r /\ BlockedOn(r, e).ep = e
  /\ \A r \in BlockReasons : r \notin {"Free", "Ready", "Running"} \cup Endings
  /\ \A t \in Endings : Plain(t).tag = t /\ t \notin {"Free", "Ready", "Running"}
  BY DEF Free, Ready, Running, Plain, BlockedOn, BlockReasons, Endings

(* Queues keep their entries blocked when no entry changes its state but    *)
(* into one that belongs there.                                             *)
LEMMA QueuesStep ==
  ASSUME SchedTypeOK, SchedTypeOK', QueuedAreBlocked,
         \A e \in Endpoints : Distinct(senders'[e]) /\ Distinct(receivers'[e]),
         \A e \in Endpoints : \A q \in Procs : InQueue(q, senders'[e]) =>
           \/ InQueue(q, senders[e]) /\ state'[q] = state[q]
           \/ state'[q] \in {BlockedOn("SendWait", e), BlockedOn("CallWait", e)},
         \A e \in Endpoints : \A q \in Procs : InQueue(q, receivers'[e]) =>
           \/ InQueue(q, receivers[e]) /\ state'[q] = state[q]
           \/ state'[q] = BlockedOn("RecvWait", e)
  PROVE  QueuedAreBlocked'
<1> SUFFICES ASSUME NEW e \in Endpoints
             PROVE  /\ \A i \in DOMAIN senders'[e] : state'[senders'[e][i]]
                         \in {BlockedOn("SendWait", e), BlockedOn("CallWait", e)}
                    /\ \A i \in DOMAIN receivers'[e] :
                         state'[receivers'[e][i]] = BlockedOn("RecvWait", e)
  BY DEF QueuedAreBlocked, Distinct
<1>1. ASSUME NEW i \in DOMAIN senders'[e]
      PROVE  state'[senders'[e][i]] \in {BlockedOn("SendWait", e), BlockedOn("CallWait", e)}
  <2>1. senders'[e][i] \in Procs /\ InQueue(senders'[e][i], senders'[e])
    BY ElementOfSeq, LenProperties DEF SchedTypeOK, InQueue
  <2> QED
    BY <2>1 DEF QueuedAreBlocked, InQueue
<1>2. ASSUME NEW i \in DOMAIN receivers'[e]
      PROVE  state'[receivers'[e][i]] = BlockedOn("RecvWait", e)
  <2>1. receivers'[e][i] \in Procs /\ InQueue(receivers'[e][i], receivers'[e])
    BY ElementOfSeq, LenProperties DEF SchedTypeOK, InQueue
  <2> QED
    BY <2>1 DEF QueuedAreBlocked, InQueue
<1> QED
  BY <1>1, <1>2

(* Where a process is queued says what it waits for.                        *)
LEMMA QueuedState ==
  ASSUME QueuedAreBlocked, NEW e \in Endpoints, NEW q \in Procs
  PROVE  /\ InQueue(q, senders[e]) =>
              state[q] \in {BlockedOn("SendWait", e), BlockedOn("CallWait", e)}
         /\ InQueue(q, receivers[e]) => state[q] = BlockedOn("RecvWait", e)
         /\ Distinct(senders[e]) /\ Distinct(receivers[e])
  BY DEF QueuedAreBlocked, InQueue, Distinct

(* The pool and the process table keep agreeing when every process whose    *)
(* state, instance or buffer changes agrees afterwards.                     *)
PoolAgrees(p) ==
  /\ state[p] = Running <=> pool[p] = "entered"
  /\ Blocked(p) => pool[p] = "parked"
  /\ state[p] = Free \/ Terminated(p) => pool[p] = "none"
  /\ pool[p] # "parked" => msg_buf[p] = NoBuf
  /\ state[p].tag = "EventWait" => msg_buf[p] = NoBuf

(* A step that moves one process keeps pool and table together.              *)
LEMMA PoolStep ==
  ASSUME PoolMatches, NEW p \in Procs,
         \A q \in Procs : state'[q] = Running => q = p,
         \A q \in Procs :
           \/ state'[q] = state[q] /\ pool'[q] = pool[q] /\ msg_buf'[q] = msg_buf[q]
           \/ PoolAgrees(q)'
  PROVE  PoolMatches'
<1>1. ASSUME NEW q \in Procs PROVE PoolAgrees(q)'
  <2>1. CASE state'[q] = state[q] /\ pool'[q] = pool[q] /\ msg_buf'[q] = msg_buf[q]
    BY <2>1 DEF PoolMatches, PoolAgrees, Blocked, Terminated
  <2> QED
    BY <2>1
<1> QED
  BY <1>1 DEF PoolMatches, PoolAgrees

(* The waiters of the stream keep their place when the stream stands still. *)
LEMMA WaitersStep ==
  ASSUME NoMissedRecord, UNCHANGED <<next_seq, ring_waiters, cursor>>,
         \A q \in Procs : \/ state'[q] = state[q]
                          \/ state[q].tag # "EventWait" /\ state'[q].tag # "EventWait"
  PROVE  NoMissedRecord'
  BY DEF NoMissedRecord

(* A send or call that meets a receiver.                                    *)
LEMMA SendToReceiverCore ==
  ASSUME CoreInv, SchedTypeOK', NEW p \in Procs, NEW e \in Endpoints, NEW call \in BOOLEAN,
         state[p] = Running, SendToReceiver(p, e, call), UNCHANGED eventVars
  PROVE  CoreInv'
<1> USE DEF CoreInv, RendezvousInv
<1>0. PICK rx \in Procs : rx = Head(receivers[e])
  BY QueuePop DEF SendToReceiver, SchedTypeOK
<1>1. /\ rx \in Procs /\ InQueue(rx, receivers[e])
      /\ Distinct(Tail(receivers[e])) /\ ~ InQueue(rx, Tail(receivers[e]))
      /\ \A q : InQueue(q, receivers[e]) => q = rx \/ InQueue(q, Tail(receivers[e]))
  BY <1>0, QueuePop, QueuedState DEF SendToReceiver, SchedTypeOK
<1>2. state[rx] = BlockedOn("RecvWait", e) /\ rx # p /\ Blocked(rx)
  BY <1>1, QueuedState, StatesApart DEF Blocked, BlockReasons
<1>3. /\ senders' = senders /\ receivers'[e] = Tail(receivers[e])
      /\ \A f \in Endpoints \ {e} : receivers'[f] = receivers[f]
  BY DEF SendToReceiver, SchedTypeOK
<1>4. \A f \in Endpoints, q \in Procs : InQueue(q, receivers'[f]) => InQueue(q, receivers[f])
  <2>1. \A q : InQueue(q, Tail(receivers[e])) => InQueue(q, receivers[e])
    BY QueuePop DEF SendToReceiver, SchedTypeOK, InQueue
  <2> QED
    BY <1>3, <2>1
<1>5. /\ state'[rx] = Ready
      /\ \A q \in Procs \ {p, rx} : /\ state'[q] = state[q] /\ pool'[q] = pool[q]
                                    /\ msg_buf'[q] = msg_buf[q]
      /\ pool'[rx] = pool[rx] /\ msg_buf'[rx] = msg_buf[rx]
      /\ IF call
           THEN state'[p] = BlockedOn("ReplyWait", e) /\ pool'[p] = "parked"
           ELSE state'[p] = Running /\ pool'[p] = pool[p] /\ msg_buf'[p] = msg_buf[p]
  <2>1. Woken(rx) = [state EXCEPT ![rx] = Ready]
    BY <1>2 DEF Woken
  <2>2. CASE call
    <3>1. block_and_yield([state EXCEPT ![rx] = Ready], p, "ReplyWait", e, GoodBuf)
      BY <1>0, <2>1, <2>2 DEF SendToReceiver
    <3> QED
      BY <2>2, <3>1, <1>1, <1>2 DEF block_and_yield, SchedTypeOK
  <2>3. CASE ~ call
    <3>1. state' = [state EXCEPT ![rx] = Ready] /\ UNCHANGED <<msg_buf, pool>>
      BY <1>0, <2>1, <2>3 DEF SendToReceiver
    <3> QED
      BY <2>3, <3>1, <1>1, <1>2 DEF SchedTypeOK
  <2> QED
    BY <2>2, <2>3
<1>6. QueuedAreBlocked'
  <2>1. \A f \in Endpoints : Distinct(senders'[f]) /\ Distinct(receivers'[f])
    BY <1>1, <1>3, QueuedState
  <2>2. ASSUME NEW f \in Endpoints, NEW q \in Procs, InQueue(q, senders'[f])
        PROVE  InQueue(q, senders[f]) /\ state'[q] = state[q]
    BY <2>2, <1>2, <1>3, <1>5, QueuedState, StatesApart
  <2>3. ASSUME NEW f \in Endpoints, NEW q \in Procs, InQueue(q, receivers'[f])
        PROVE  InQueue(q, receivers[f]) /\ state'[q] = state[q]
    <3>1. InQueue(q, receivers[f]) /\ q # p
      BY <2>3, <1>4, QueuedState, StatesApart
    <3>2. q # rx
      BY <2>3, <3>1, <1>1, <1>2, <1>3, QueuedState, StatesApart
    <3> QED
      BY <3>1, <3>2, <1>5
  <2> QED
    BY <2>1, <2>2, <2>3, QueuesStep
<1>7. ReceiversAreQueued'
  <2> SUFFICES ASSUME NEW q \in Procs, NEW f \in Endpoints, state'[q] = BlockedOn("RecvWait", f)
               PROVE  InQueue(q, receivers'[f])
    BY DEF ReceiversAreQueued
  <2>1. q # rx /\ q # p
    BY <1>5, StatesApart
  <2>2. InQueue(q, receivers[f])
    BY <2>1, <1>5 DEF ReceiversAreQueued
  <2> QED
    BY <2>1, <2>2, <1>1, <1>3
<1>8. NobodyMissed'
  <2>1. senders[e] = <<>>
    BY DEF SendToReceiver, NobodyMissed
  <2> QED
    BY <1>3, <2>1 DEF NobodyMissed
<1>9. PoolMatches'
  <2>1. PoolAgrees(rx)'
    <3>1. pool'[rx] = "parked" /\ state'[rx] = Ready
      BY <1>1, <1>2, <1>5 DEF PoolMatches
    <3> QED
      BY <3>1, StatesApart DEF PoolAgrees, Blocked, BlockReasons, Terminated, Endings
  <2>2. PoolAgrees(p)'
    <3>1. CASE call
      BY <3>1, <1>5, StatesApart DEF PoolAgrees, Blocked, BlockReasons, Terminated, Endings
    <3>2. CASE ~ call
      BY <3>2, <1>5 DEF PoolMatches, PoolAgrees, Blocked, Terminated
    <3> QED
      BY <3>1, <3>2
  <2>3. \A q \in Procs : state'[q] = Running => q = p
    BY <1>5, StatesApart DEF PoolMatches
  <2> QED
    <3>1. ASSUME NEW q \in Procs
          PROVE  \/ state'[q] = state[q] /\ pool'[q] = pool[q] /\ msg_buf'[q] = msg_buf[q]
                 \/ PoolAgrees(q)'
      BY <1>5, <2>1, <2>2
    <3> QED
      BY <2>3, <3>1, PoolStep
<1>10. NoMissedRecord'
  <2>1. state[p].tag # "EventWait" /\ state'[p].tag # "EventWait"
    BY <1>5, StatesApart
  <2>2. state[rx].tag # "EventWait" /\ state'[rx].tag # "EventWait"
    BY <1>2, <1>5, StatesApart
  <2> QED
    BY <1>5, <2>1, <2>2, WaitersStep DEF eventVars
<1> QED
  BY <1>6, <1>7, <1>8, <1>9, <1>10

(* A send or call that finds nobody waiting.                                *)
LEMMA SendQueuedCore ==
  ASSUME CoreInv, SchedTypeOK', NEW p \in Procs, NEW e \in Endpoints, NEW call \in BOOLEAN,
         state[p] = Running, SendQueued(p, e, call), UNCHANGED eventVars
  PROVE  CoreInv'
<1> USE DEF CoreInv, RendezvousInv
<1>1. CASE Len(senders[e]) < QueueCap
  <2> DEFINE waits == IF call THEN "CallWait" ELSE "SendWait"
  <2>1. /\ receivers' = receivers /\ receivers[e] = <<>>
        /\ senders'[e] = Append(senders[e], p)
        /\ \A f \in Endpoints \ {e} : senders'[f] = senders[f]
    BY <1>1 DEF SendQueued, SchedTypeOK
  <2>2. /\ state'[p] = BlockedOn(waits, e) /\ pool'[p] = "parked"
        /\ waits \in {"SendWait", "CallWait"}
        /\ \A q \in Procs \ {p} : /\ state'[q] = state[q] /\ pool'[q] = pool[q]
                                  /\ msg_buf'[q] = msg_buf[q]
    BY <1>1 DEF SendQueued, block_and_yield, SchedTypeOK
  <2> HIDE DEF waits
  <2>3. \A f \in Endpoints : ~ InQueue(p, senders[f]) /\ ~ InQueue(p, receivers[f])
    BY QueuedState, StatesApart
  <2>4. /\ Distinct(Append(senders[e], p))
        /\ \A q : InQueue(q, Append(senders[e], p)) => InQueue(q, senders[e]) \/ q = p
    BY <2>3, QueuePush, QueuedState DEF SchedTypeOK
  <2>5. QueuedAreBlocked'
    <3>1. \A f \in Endpoints : Distinct(senders'[f]) /\ Distinct(receivers'[f])
      BY <2>1, <2>4, QueuedState
    <3>2. ASSUME NEW f \in Endpoints, NEW q \in Procs, InQueue(q, senders'[f])
          PROVE  \/ InQueue(q, senders[f]) /\ state'[q] = state[q]
                 \/ state'[q] \in {BlockedOn("SendWait", f), BlockedOn("CallWait", f)}
      BY <3>2, <2>1, <2>2, <2>3, <2>4
    <3>3. ASSUME NEW f \in Endpoints, NEW q \in Procs, InQueue(q, receivers'[f])
          PROVE  InQueue(q, receivers[f]) /\ state'[q] = state[q]
      BY <3>3, <2>1, <2>2, <2>3
    <3> QED
      BY <3>1, <3>2, <3>3, QueuesStep
  <2>6. ReceiversAreQueued'
    BY <2>1, <2>2, StatesApart DEF ReceiversAreQueued
  <2>7. NobodyMissed'
    BY <2>1 DEF NobodyMissed
  <2>8. PoolMatches'
    <3>1. PoolAgrees(p)'
      BY <2>2, StatesApart DEF PoolAgrees, Blocked, BlockReasons, Terminated, Endings
    <3>2. \A q \in Procs : state'[q] = Running => q = p
      BY <2>2 DEF PoolMatches
    <3> QED
      BY <2>2, <3>1, <3>2, PoolStep
  <2>9. NoMissedRecord'
    <3>1. state[p].tag # "EventWait" /\ state'[p].tag # "EventWait"
      BY <2>2, StatesApart
    <3> QED
      BY <2>2, <3>1, WaitersStep DEF eventVars
  <2> QED
    BY <2>5, <2>6, <2>7, <2>8, <2>9
<1>2. CASE ~ (Len(senders[e]) < QueueCap)
  BY <1>2 DEF SendQueued, eventVars, QueuedAreBlocked, ReceiversAreQueued, NobodyMissed,
              PoolMatches, NoMissedRecord, Blocked, Terminated, InQueue
<1> QED
  BY <1>1, <1>2

(* A receive that takes a waiting sender's message.                         *)
LEMMA RecvFromSenderCore ==
  ASSUME CoreInv, SchedTypeOK', NEW p \in Procs, NEW e \in Endpoints,
         state[p] = Running, RecvFromSender(p, e), UNCHANGED eventVars
  PROVE  CoreInv'
<1> USE DEF CoreInv, RendezvousInv
<1>0. PICK tx \in Procs : tx = Head(senders[e])
  BY QueuePop DEF RecvFromSender, SchedTypeOK
<1>1. /\ tx \in Procs /\ InQueue(tx, senders[e])
      /\ Distinct(Tail(senders[e])) /\ ~ InQueue(tx, Tail(senders[e]))
      /\ \A q : InQueue(q, Tail(senders[e])) => InQueue(q, senders[e])
  BY <1>0, QueuePop, QueuedState, SMTT(30) DEF RecvFromSender, SchedTypeOK, InQueue
<1>2. /\ state[tx] \in {BlockedOn("SendWait", e), BlockedOn("CallWait", e)}
      /\ tx # p /\ Blocked(tx)
  BY <1>1, QueuedState, StatesApart DEF Blocked, BlockReasons
<1>3. /\ receivers' = receivers /\ senders'[e] = Tail(senders[e])
      /\ \A f \in Endpoints \ {e} : senders'[f] = senders[f]
  BY DEF RecvFromSender, SchedTypeOK
<1>4. /\ state'[tx] \in {Ready, BlockedOn("ReplyWait", e)}
      /\ \A q \in Procs \ {tx} : state'[q] = state[q]
      /\ pool' = pool /\ msg_buf' = msg_buf
  <2>1. state[tx].ep = e /\ Woken(tx) = [state EXCEPT ![tx] = Ready]
    BY <1>2, StatesApart DEF Woken
  <2>2. /\ \/ state' = [state EXCEPT ![tx] = BlockedOn("ReplyWait", e)]
           \/ state' = [state EXCEPT ![tx] = Ready]
        /\ UNCHANGED <<pool, msg_buf>>
    BY <1>0, <2>1 DEF RecvFromSender
  <2> QED
    BY <2>2, <1>1 DEF SchedTypeOK
<1>5. QueuedAreBlocked'
  <2>1. \A f \in Endpoints : Distinct(senders'[f]) /\ Distinct(receivers'[f])
    BY <1>1, <1>3, QueuedState
  <2>2. ASSUME NEW f \in Endpoints, NEW q \in Procs, InQueue(q, senders'[f])
        PROVE  InQueue(q, senders[f]) /\ state'[q] = state[q]
    <3>1. InQueue(q, senders[f])
      BY <2>2, <1>1, <1>3
    <3>2. q # tx
      BY <2>2, <3>1, <1>1, <1>2, <1>3, QueuedState, StatesApart
    <3> QED
      BY <3>1, <3>2, <1>4
  <2>3. ASSUME NEW f \in Endpoints, NEW q \in Procs, InQueue(q, receivers'[f])
        PROVE  InQueue(q, receivers[f]) /\ state'[q] = state[q]
    BY <2>3, <1>2, <1>3, <1>4, QueuedState, StatesApart
  <2> QED
    BY <2>1, <2>2, <2>3, QueuesStep
<1>6. ReceiversAreQueued'
  BY <1>3, <1>4, StatesApart DEF ReceiversAreQueued
<1>7. NobodyMissed'
  <2>1. receivers[e] = <<>>
    BY DEF RecvFromSender, NobodyMissed
  <2> QED
    BY <1>3, <2>1 DEF NobodyMissed
<1>8. PoolMatches'
  <2>1. PoolAgrees(tx)'
    <3>1. pool'[tx] = "parked" /\ state'[tx] \in {Ready, BlockedOn("ReplyWait", e)}
      BY <1>1, <1>2, <1>4 DEF PoolMatches
    <3> QED
      BY <3>1, StatesApart DEF PoolAgrees, Blocked, BlockReasons, Terminated, Endings
  <2>2. \A q \in Procs : state'[q] = Running => q = p
    BY <1>4, StatesApart DEF PoolMatches
  <2>3. ASSUME NEW q \in Procs
        PROVE  \/ state'[q] = state[q] /\ pool'[q] = pool[q] /\ msg_buf'[q] = msg_buf[q]
               \/ PoolAgrees(q)'
    BY <1>4, <2>1
  <2> QED
    BY <2>2, <2>3, PoolStep
<1>9. NoMissedRecord'
  <2>1. state[tx].tag # "EventWait" /\ state'[tx].tag # "EventWait"
    BY <1>2, <1>4, StatesApart
  <2> QED
    BY <1>4, <2>1, WaitersStep DEF eventVars
<1> QED
  BY <1>5, <1>6, <1>7, <1>8, <1>9

(* A receive that takes a sender from the queue and then cannot write.      *)
LEMMA RecvUnwritableCore ==
  ASSUME CoreInv, SchedTypeOK', NEW p \in Procs, NEW e \in Endpoints,
         RecvUnwritable(p, e), UNCHANGED eventVars
  PROVE  CoreInv'
<1> USE DEF CoreInv, RendezvousInv
<1>1. /\ Distinct(Tail(senders[e]))
      /\ \A q : InQueue(q, Tail(senders[e])) => InQueue(q, senders[e])
  BY QueuePop, QueuedState DEF RecvUnwritable, SchedTypeOK, InQueue
<1>2. /\ receivers' = receivers /\ senders'[e] = Tail(senders[e])
      /\ \A f \in Endpoints \ {e} : senders'[f] = senders[f]
      /\ state' = state /\ pool' = pool /\ msg_buf' = msg_buf
  BY DEF RecvUnwritable, SchedTypeOK
<1>3. QueuedAreBlocked'
  <2>1. \A f \in Endpoints : Distinct(senders'[f]) /\ Distinct(receivers'[f])
    BY <1>1, <1>2, QueuedState
  <2> QED
    BY <2>1, <1>1, <1>2, QueuesStep
<1>4. ReceiversAreQueued'
  BY <1>2 DEF ReceiversAreQueued
<1>5. NobodyMissed'
  BY <1>2 DEF NobodyMissed, RecvUnwritable
<1>6. PoolMatches'
  BY <1>2 DEF PoolMatches, Blocked, Terminated
<1>7. NoMissedRecord'
  BY <1>2 DEF NoMissedRecord, eventVars
<1> QED
  BY <1>3, <1>4, <1>5, <1>6, <1>7

(* A receive that finds nobody offering.                                    *)
LEMMA RecvQueuedCore ==
  ASSUME CoreInv, SchedTypeOK', NEW p \in Procs, NEW e \in Endpoints, NEW buf,
         state[p] = Running, RecvQueued(p, e, buf), UNCHANGED eventVars
  PROVE  CoreInv'
<1> USE DEF CoreInv, RendezvousInv
<1>1. /\ senders' = senders /\ senders[e] = <<>>
      /\ receivers'[e] = Append(receivers[e], p)
      /\ \A f \in Endpoints \ {e} : receivers'[f] = receivers[f]
  BY DEF RecvQueued, SchedTypeOK
<1>2. /\ state'[p] = BlockedOn("RecvWait", e) /\ pool'[p] = "parked"
      /\ \A q \in Procs \ {p} : /\ state'[q] = state[q] /\ pool'[q] = pool[q]
                                /\ msg_buf'[q] = msg_buf[q]
  BY DEF RecvQueued, block_and_yield, SchedTypeOK
<1>3. \A f \in Endpoints : ~ InQueue(p, senders[f]) /\ ~ InQueue(p, receivers[f])
  BY QueuedState, StatesApart
<1>4. /\ Distinct(Append(receivers[e], p))
      /\ \A q : InQueue(q, Append(receivers[e], p)) <=> InQueue(q, receivers[e]) \/ q = p
  BY <1>3, QueuePush, QueuedState DEF SchedTypeOK
<1>5. QueuedAreBlocked'
  <2>1. \A f \in Endpoints : Distinct(senders'[f]) /\ Distinct(receivers'[f])
    BY <1>1, <1>4, QueuedState
  <2>2. ASSUME NEW f \in Endpoints, NEW q \in Procs, InQueue(q, senders'[f])
        PROVE  InQueue(q, senders[f]) /\ state'[q] = state[q]
    BY <2>2, <1>1, <1>2, <1>3
  <2>3. ASSUME NEW f \in Endpoints, NEW q \in Procs, InQueue(q, receivers'[f])
        PROVE  \/ InQueue(q, receivers[f]) /\ state'[q] = state[q]
               \/ state'[q] = BlockedOn("RecvWait", f)
    BY <2>3, <1>1, <1>2, <1>3, <1>4
  <2> QED
    BY <2>1, <2>2, <2>3, QueuesStep
<1>6. ReceiversAreQueued'
  <2> SUFFICES ASSUME NEW q \in Procs, NEW f \in Endpoints, state'[q] = BlockedOn("RecvWait", f)
               PROVE  InQueue(q, receivers'[f])
    BY DEF ReceiversAreQueued
  <2>1. CASE q = p
    <3>1. f = e
      BY <2>1, <1>2, StatesApart
    <3> QED
      BY <2>1, <3>1, <1>1, <1>4
  <2>2. CASE q # p
    BY <2>2, <1>1, <1>2, <1>4 DEF ReceiversAreQueued
  <2> QED
    BY <2>1, <2>2
<1>7. NobodyMissed'
  BY <1>1 DEF NobodyMissed
<1>8. PoolMatches'
  <2>1. PoolAgrees(p)'
    BY <1>2, StatesApart DEF PoolAgrees, Blocked, BlockReasons, Terminated, Endings
  <2>2. \A q \in Procs : state'[q] = Running => q = p
    BY <1>2 DEF PoolMatches
  <2> QED
    BY <1>2, <2>1, <2>2, PoolStep
<1>9. NoMissedRecord'
  <2>1. state[p].tag # "EventWait" /\ state'[p].tag # "EventWait"
    BY <1>2, StatesApart
  <2> QED
    BY <1>2, <2>1, WaitersStep DEF eventVars
<1> QED
  BY <1>5, <1>6, <1>7, <1>8, <1>9

(* When no queue changes, it is enough that no process that waits in one    *)
(* changes its state, and that nobody starts to wait in one.                *)
LEMMA QueuesStill ==
  ASSUME CoreInv, SchedTypeOK', UNCHANGED <<senders, receivers>>,
         \A q \in Procs : \/ state'[q] = state[q]
                          \/ /\ state[q].tag \notin {"SendWait", "CallWait", "RecvWait"}
                             /\ state'[q].tag # "RecvWait"
  PROVE  QueuedAreBlocked' /\ ReceiversAreQueued' /\ NobodyMissed'
<1> USE DEF CoreInv, RendezvousInv
<1>1. QueuedAreBlocked'
  <2>1. \A f \in Endpoints : Distinct(senders'[f]) /\ Distinct(receivers'[f])
    <3>1. senders' = senders /\ receivers' = receivers
      OBVIOUS
    <3> QED
      BY <3>1 DEF QueuedAreBlocked, Distinct
  <2>2. ASSUME NEW f \in Endpoints, NEW q \in Procs, InQueue(q, senders'[f])
        PROVE  InQueue(q, senders[f]) /\ state'[q] = state[q]
    BY <2>2, QueuedState, StatesApart
  <2>3. ASSUME NEW f \in Endpoints, NEW q \in Procs, InQueue(q, receivers'[f])
        PROVE  InQueue(q, receivers[f]) /\ state'[q] = state[q]
    BY <2>3, QueuedState, StatesApart
  <2> QED
    BY <2>1, <2>2, <2>3, QueuesStep
<1>2. ReceiversAreQueued'
  <2> SUFFICES ASSUME NEW q \in Procs, NEW f \in Endpoints, state'[q] = BlockedOn("RecvWait", f)
               PROVE  InQueue(q, receivers'[f])
    BY DEF ReceiversAreQueued
  <2>1. state'[q] = state[q]
    BY StatesApart
  <2> QED
    BY <2>1 DEF ReceiversAreQueued
<1>3. NobodyMissed'
  BY DEF NobodyMissed
<1> QED
  BY <1>1, <1>2, <1>3

(* A reply.                                                                 *)
LEMMA ReplyCore ==
  ASSUME CoreInv, SchedTypeOK', NEW p \in Procs, NEW e \in Endpoints, ipc_reply(p, e)
  PROVE  CoreInv'
<1> USE DEF CoreInv, RendezvousInv
<1>1. PICK waiter \in Procs : /\ waiter = Lowest(ReplyWaiters(e))
                              /\ state[waiter] = BlockedOn("ReplyWait", e)
  BY LowestIn DEF ipc_reply, ReplyWaiters
<1>2. Blocked(waiter) /\ waiter # p
  BY <1>1, StatesApart DEF Blocked, BlockReasons, ipc_reply
<1>3. /\ state'[waiter] = Ready /\ \A q \in Procs \ {waiter} : state'[q] = state[q]
      /\ pool' = pool /\ msg_buf' = msg_buf /\ UNCHANGED <<senders, receivers, eventVars>>
  BY <1>1, <1>2 DEF ipc_reply, Woken, SchedTypeOK
<1>4. QueuedAreBlocked' /\ ReceiversAreQueued' /\ NobodyMissed'
  <2>1. /\ state[waiter].tag \notin {"SendWait", "CallWait", "RecvWait"}
        /\ state'[waiter].tag # "RecvWait"
    BY <1>1, <1>3, StatesApart
  <2> QED
    BY <1>3, <2>1, QueuesStill
<1>5. PoolMatches'
  <2>1. PoolAgrees(waiter)'
    <3>1. pool'[waiter] = "parked" /\ state'[waiter] = Ready
      BY <1>2, <1>3 DEF PoolMatches
    <3> QED
      BY <3>1, StatesApart DEF PoolAgrees, Blocked, BlockReasons, Terminated, Endings
  <2>2. \A q \in Procs : state'[q] = Running => q = p
    BY <1>3, StatesApart DEF PoolMatches, ipc_reply
  <2>3. ASSUME NEW q \in Procs
        PROVE  \/ state'[q] = state[q] /\ pool'[q] = pool[q] /\ msg_buf'[q] = msg_buf[q]
               \/ PoolAgrees(q)'
    BY <1>3, <2>1
  <2> QED
    BY <2>2, <2>3, PoolStep
<1>6. NoMissedRecord'
  <2>1. state[waiter].tag # "EventWait" /\ state'[waiter].tag # "EventWait"
    BY <1>1, <1>3, StatesApart
  <2> QED
    BY <1>3, <2>1, WaitersStep DEF eventVars
<1> QED
  BY <1>4, <1>5, <1>6

(* The scheduler runs the lowest ready tenant.                              *)
LEMMA RunCore ==
  ASSUME CoreInv, SchedTypeOK', NEW p \in Procs, run(p)
  PROVE  CoreInv'
<1> USE DEF CoreInv, RendezvousInv
<1>1. state[p] = Ready
  <2>1. p \in ReadyProcs
    BY LowestIn DEF run, ReadyProcs
  <2> QED
    BY <2>1 DEF ReadyProcs
<1>2. /\ state'[p] = Running /\ pool'[p] = "entered" /\ msg_buf'[p] = NoBuf
      /\ \A q \in Procs \ {p} : /\ state'[q] = state[q] /\ pool'[q] = pool[q]
                                /\ msg_buf'[q] = msg_buf[q]
      /\ UNCHANGED <<senders, receivers, eventVars>>
  BY DEF run, SchedTypeOK
<1>3. QueuedAreBlocked' /\ ReceiversAreQueued' /\ NobodyMissed'
  <2>1. /\ state[p].tag \notin {"SendWait", "CallWait", "RecvWait"}
        /\ state'[p].tag # "RecvWait"
    BY <1>1, <1>2, StatesApart
  <2> QED
    BY <1>2, <2>1, QueuesStill
<1>4. PoolMatches'
  <2>1. PoolAgrees(p)'
    BY <1>2, StatesApart DEF PoolAgrees, Blocked, BlockReasons, Terminated, Endings
  <2>2. \A q \in Procs : state'[q] = Running => q = p
    BY <1>2 DEF run, Idling
  <2> QED
    BY <1>2, <2>1, <2>2, PoolStep
<1>5. NoMissedRecord'
  <2>1. state[p].tag # "EventWait" /\ state'[p].tag # "EventWait"
    BY <1>1, <1>2, StatesApart
  <2> QED
    BY <1>2, <2>1, WaitersStep DEF eventVars
<1> QED
  BY <1>3, <1>4, <1>5

(* A guard reads a record, or goes to sleep on the stream.                  *)
LEMMA EventReadCore ==
  ASSUME CoreInv, SchedTypeOK', NEW p \in Procs, event_read(p)
  PROVE  CoreInv'
<1> USE DEF CoreInv, RendezvousInv
<1>1. CASE ReadRecord(p)
  <2>1. UNCHANGED <<state, pool, msg_buf, senders, receivers, next_seq, ring_waiters>>
    BY <1>1 DEF event_read, ReadRecord, ipcVars
  <2>2. \A q \in Procs \ {p} : cursor'[q] = cursor[q]
    BY <1>1 DEF ReadRecord, SchedTypeOK
  <2>3. QueuedAreBlocked' /\ ReceiversAreQueued' /\ NobodyMissed'
    BY <2>1, QueuesStill
  <2>4. PoolMatches'
    BY <2>1 DEF PoolMatches, Blocked, Terminated
  <2>5. NoMissedRecord'
    <3>1. state[p].tag # "EventWait"
      BY StatesApart DEF event_read
    <3> QED
      BY <2>1, <2>2, <3>1 DEF NoMissedRecord
  <2> QED
    BY <2>3, <2>4, <2>5
<1>2. CASE block_on_event_ring(p)
  <2>1. /\ state[p] = Running /\ state'[p] = BlockedOn("EventWait", NoEndpoint)
        /\ pool'[p] = "parked" /\ msg_buf' = msg_buf
        /\ \A q \in Procs \ {p} : state'[q] = state[q] /\ pool'[q] = pool[q]
        /\ ring_waiters' = ring_waiters \cup {p} /\ cursor[p] >= next_seq
        /\ UNCHANGED <<senders, receivers, next_seq, cursor>>
    BY <1>2 DEF event_read, block_on_event_ring, UpToDate, ipcVars, SchedTypeOK
  <2>2. QueuedAreBlocked' /\ ReceiversAreQueued' /\ NobodyMissed'
    <3>1. /\ state[p].tag \notin {"SendWait", "CallWait", "RecvWait"}
          /\ state'[p].tag # "RecvWait"
      BY <2>1, StatesApart
    <3> QED
      BY <2>1, <3>1, QueuesStill
  <2>3. PoolMatches'
    <3>1. PoolAgrees(p)'
      <4>1. msg_buf'[p] = NoBuf
        BY <2>1 DEF PoolMatches
      <4> QED
        BY <2>1, <4>1, StatesApart DEF PoolAgrees, Blocked, BlockReasons, Terminated, Endings
    <3>2. \A q \in Procs : state'[q] = Running => q = p
      BY <2>1 DEF PoolMatches
    <3> QED
      BY <2>1, <3>1, <3>2, PoolStep
  <2>4. NoMissedRecord'
    BY <2>1, StatesApart DEF NoMissedRecord
  <2> QED
    BY <2>2, <2>3, <2>4
<1> QED
  BY <1>1, <1>2 DEF event_read

(* The states after a tenant ended: its record wakes the guards that sleep  *)
(* on the stream and nobody else, and at most one unused process id becomes *)
(* ready.                                                                   *)
LEMMA SettleStates ==
  ASSUME SchedTypeOK, NoMissedRecord, NEW p \in Procs, NEW ending \in Endings,
         settle(p, ending)
  PROVE  /\ state[p] = Running /\ state'[p] = Plain(ending)
         /\ \A q \in Procs \ {p} :
              \/ state[q].tag = "EventWait" /\ state'[q] = Ready
              \/ state[q].tag # "EventWait" /\ state'[q] = state[q]
              \/ state[q] = Free /\ state'[q] = Ready /\ q \in DynProcs
<1> DEFINE st == [WakeRingWaiters EXCEPT ![p] = Plain(ending)]
<1>1. /\ st[p] = Plain(ending)
      /\ \A q \in Procs \ {p} : \/ state[q].tag = "EventWait" /\ st[q] = Ready
                                \/ state[q].tag # "EventWait" /\ st[q] = state[q]
  BY DEF WakeRingWaiters, NoMissedRecord, Blocked, BlockReasons
<1>2. st \in [Procs -> States]
  BY DEF WakeRingWaiters, SchedTypeOK, Plain, Ready, States, Endings
<1>3. \/ state' = st
      \/ \E d \in WatchedAs(p) : /\ Restartable(d)
                                 /\ state' = [st EXCEPT ![Lowest(FreePids)] = Ready]
  BY DEF settle, on_tenant_terminated, Restart, GiveUp
<1>4. state[p] = Running
  BY DEF settle
<1> HIDE DEF st
<1>5. CASE state' = st
  BY <1>1, <1>4, <1>5
<1>6. ASSUME NEW d \in WatchedAs(p), Restartable(d),
             state' = [st EXCEPT ![Lowest(FreePids)] = Ready]
      PROVE  /\ state'[p] = Plain(ending)
             /\ \A q \in Procs \ {p} :
                  \/ state[q].tag = "EventWait" /\ state'[q] = Ready
                  \/ state[q].tag # "EventWait" /\ state'[q] = state[q]
                  \/ state[q] = Free /\ state'[q] = Ready /\ q \in DynProcs
  <2>1. PICK new_pid \in DynProcs : new_pid = Lowest(FreePids) /\ state[new_pid] = Free
    BY <1>6, LowestIn, SchedAssumption DEF Restartable, FreePids
  <2>2. new_pid # p /\ new_pid \in Procs
    BY <2>1, <1>4, StatesApart, SchedAssumption
  <2> QED
    BY <1>1, <1>2, <1>6, <2>1, <2>2
<1> QED
  BY <1>3, <1>4, <1>5, <1>6

(* The running tenant ends.                                                 *)
LEMMA SettleCore ==
  ASSUME CoreInv, SchedTypeOK', NEW p \in Procs, NEW ending \in Endings, settle(p, ending)
  PROVE  CoreInv'
<1> USE DEF CoreInv, RendezvousInv
<1>1. /\ state[p] = Running /\ state'[p] = Plain(ending)
      /\ \A q \in Procs \ {p} : \/ state[q].tag = "EventWait" /\ state'[q] = Ready
                                \/ state[q].tag # "EventWait" /\ state'[q] = state[q]
                                \/ state[q] = Free /\ state'[q] = Ready
  BY SettleStates
<1>2. /\ pool'[p] = "none" /\ \A q \in Procs \ {p} : pool'[q] = pool[q]
      /\ msg_buf' = msg_buf /\ ring_waiters' = {} /\ UNCHANGED <<senders, receivers>>
  BY DEF settle, ipcVars, SchedTypeOK
<1>3. QueuedAreBlocked' /\ ReceiversAreQueued' /\ NobodyMissed'
  <2>1. /\ state[p].tag \notin {"SendWait", "CallWait", "RecvWait"}
        /\ state'[p].tag # "RecvWait"
    BY <1>1, StatesApart DEF BlockReasons
  <2>2. ASSUME NEW q \in Procs \ {p}
        PROVE  \/ state'[q] = state[q]
               \/ /\ state[q].tag \notin {"SendWait", "CallWait", "RecvWait"}
                  /\ state'[q].tag # "RecvWait"
    BY <1>1, StatesApart
  <2> QED
    BY <1>2, <2>1, <2>2, QueuesStill
<1>4. PoolMatches'
  <2>1. PoolAgrees(p)'
    <3>1. msg_buf'[p] = NoBuf
      BY <1>1, <1>2 DEF PoolMatches
    <3> QED
      BY <1>1, <1>2, <3>1, StatesApart DEF PoolAgrees, Blocked, BlockReasons, Terminated
  <2>2. ASSUME NEW q \in Procs \ {p}
        PROVE  \/ state'[q] = state[q] /\ pool'[q] = pool[q] /\ msg_buf'[q] = msg_buf[q]
               \/ PoolAgrees(q)'
    <3>1. CASE state[q].tag = "EventWait" /\ state'[q] = Ready
      <4>1. pool'[q] = "parked"
        BY <3>1, <1>2 DEF PoolMatches, Blocked, BlockReasons
      <4> QED
        BY <3>1, <4>1, StatesApart DEF PoolAgrees, Blocked, BlockReasons, Terminated, Endings
    <3>2. CASE state[q] = Free /\ state'[q] = Ready
      <4>1. pool'[q] = "none" /\ msg_buf'[q] = NoBuf
        BY <3>2, <1>2 DEF PoolMatches
      <4> QED
        BY <3>2, <4>1, StatesApart DEF PoolAgrees, Blocked, BlockReasons, Terminated, Endings
    <3> QED
      BY <1>1, <1>2, <3>1, <3>2
  <2>3. \A q \in Procs : state'[q] = Running => q = p
    BY <1>1, StatesApart DEF PoolMatches
  <2> QED
    BY <2>1, <2>2, <2>3, PoolStep
<1>5. NoMissedRecord'
  <2>1. state'[p].tag # "EventWait"
    BY <1>1, StatesApart DEF BlockReasons
  <2>2. \A q \in Procs \ {p} : state'[q].tag # "EventWait"
    BY <1>1, StatesApart
  <2> QED
    BY <1>2, <2>1, <2>2 DEF NoMissedRecord
<1> QED
  BY <1>3, <1>4, <1>5

(* No tenant is queued, parked or asleep when the scheduler starts.         *)
LEMMA InitCore == Init => CoreInv
<1> SUFFICES ASSUME Init PROVE CoreInv
  OBVIOUS
<1>1. SchedTypeOK
  BY InitType
<1>2. \A p \in Procs : state[p] \in {Ready, Free} /\ pool[p] = "none" /\ msg_buf[p] = NoBuf
  BY DEF Init
<1>3. QueuedAreBlocked /\ NobodyMissed
  BY EmptySeq DEF Init, QueuedAreBlocked, NobodyMissed
<1>4. ReceiversAreQueued
  BY <1>2, StatesApart DEF ReceiversAreQueued
<1>5. PoolMatches
  BY <1>2, StatesApart DEF PoolMatches, Blocked, BlockReasons, Terminated, Endings
<1>6. NoMissedRecord
  BY <1>2, StatesApart DEF Init, NoMissedRecord
<1> QED
  BY <1>1, <1>3, <1>4, <1>5, <1>6 DEF CoreInv, RendezvousInv

(* Every step keeps the queues and the stream.                               *)
LEMMA CoreStep == CoreInv /\ [Next]_vars => CoreInv'
<1> SUFFICES ASSUME CoreInv, [Next]_vars PROVE CoreInv'
  OBVIOUS
<1>1. SchedTypeOK'
  BY TypeStep DEF CoreInv, RendezvousInv
<1>2. ASSUME NEW p \in Procs, NEW e \in Endpoints, NEW call \in BOOLEAN,
             do_send_like(p, e, call)
      PROVE  CoreInv'
  BY <1>1, <1>2, SendToReceiverCore, SendQueuedCore DEF do_send_like
<1>3. ASSUME NEW p \in Procs, NEW e \in Endpoints, NEW buf \in {GoodBuf, BadBuf},
             ipc_recv(p, e, buf)
      PROVE  CoreInv'
  BY <1>1, <1>3, RecvFromSenderCore, RecvUnwritableCore, RecvQueuedCore DEF ipc_recv
<1>4. CASE UNCHANGED vars
  BY <1>1, <1>4 DEF CoreInv, RendezvousInv, QueuedAreBlocked, ReceiversAreQueued, NobodyMissed,
                    PoolMatches, NoMissedRecord, Blocked, Terminated, InQueue,
                    vars, ipcVars, eventVars
<1> QED
  BY <1>1, <1>2, <1>3, <1>4, RunCore, SettleCore, EventReadCore, ReplyCore
  DEF Next, ipc_send, ipc_call


-----------------------------------------------------------------------------
(* The registry and the stream it writes.                                   *)

(* A process that is neither unused nor ended.                              *)
Active(q) == state[q] # Free /\ ~ Terminated(q)

(* The registry's part of the invariant.  A module's process id is in use   *)
(* even after the module was given up, so a restart never hands it to       *)
(* another module; what is watched has a budget.                            *)
RegistryInv ==
  /\ DaemonsAlive
  /\ \A d \in Modules : /\ state[slots[d].proc_id] # Free
                        /\ slots[d].daemon => Budget[d] > 0

(* No step but the end of a tenant makes a process, or ends one.            *)
LEMMA ActiveStep ==
  ASSUME SchedTypeOK, NEW p \in Procs, NEW e,
         \/ run(p)
         \/ event_read(p)
         \/ e \in Endpoints /\ \E call \in BOOLEAN : do_send_like(p, e, call)
         \/ e \in Endpoints /\ \E buf \in {GoodBuf, BadBuf} : ipc_recv(p, e, buf)
         \/ e \in Endpoints /\ ipc_reply(p, e)
  PROVE  /\ UNCHANGED <<slots, next_seq, ring>>
         /\ \A q \in Procs : state'[q] = state[q] \/ (Active(q) /\ Active(q)')
<1> USE DEF SchedTypeOK
<1>1. \A r \in BlockReasons \cup {"Ready", "Running"} : r # "Free" /\ r \notin Endings
  BY DEF BlockReasons, Endings
<1>2. \A q \in Procs : Blocked(q) \/ state[q] \in {Ready, Running} => Active(q)
  BY <1>1, StatesApart DEF Blocked, Active, Terminated
<1>3. \A q \in Procs : state'[q] \in {Ready, Running}
                       \/ (\E r \in BlockReasons : \E f : state'[q] = BlockedOn(r, f))
                       => Active(q)'
  BY <1>1, StatesApart DEF Active, Terminated
<1>4. CASE run(p)
  <2>1. state[p] = Ready
    BY <1>4, LowestIn DEF run, ReadyProcs
  <2> QED
    BY <1>4, <2>1, <1>2, <1>3 DEF run, eventVars
<1>5. CASE event_read(p)
  BY <1>5, <1>2, <1>3 DEF event_read, ReadRecord, block_on_event_ring, BlockReasons
<1>6. ASSUME e \in Endpoints, NEW call \in BOOLEAN, do_send_like(p, e, call)
      PROVE  \A q \in Procs : state'[q] = state[q] \/ (Active(q) /\ Active(q)')
  <2>1. state[p] = Running
    BY <1>6 DEF do_send_like
  <2>2. CASE SendToReceiver(p, e, call)
    <3>1. PICK rx \in Procs : rx = Head(receivers[e])
      BY <1>6, <2>2, QueuePop DEF SendToReceiver
    <3>2. \/ state' = Woken(rx)
          \/ state' = [Woken(rx) EXCEPT ![p] = BlockedOn("ReplyWait", e)]
      BY <2>2, <3>1 DEF SendToReceiver, block_and_yield
    <3> QED
      BY <2>1, <3>1, <3>2, <1>2, <1>3 DEF Woken, BlockReasons
  <2>3. CASE SendQueued(p, e, call)
    BY <2>1, <2>3, <1>2, <1>3 DEF SendQueued, block_and_yield, BlockReasons
  <2> QED
    BY <1>6, <2>2, <2>3 DEF do_send_like
<1>7. ASSUME e \in Endpoints, NEW buf \in {GoodBuf, BadBuf}, ipc_recv(p, e, buf)
      PROVE  \A q \in Procs : state'[q] = state[q] \/ (Active(q) /\ Active(q)')
  <2>1. state[p] = Running
    BY <1>7 DEF ipc_recv
  <2>2. CASE RecvFromSender(p, e)
    <3>1. PICK tx \in Procs : tx = Head(senders[e])
      BY <1>7, <2>2, QueuePop DEF RecvFromSender
    <3>2. \/ state' = Woken(tx)
          \/ /\ Blocked(tx)
             /\ state' = [state EXCEPT ![tx] = BlockedOn("ReplyWait", state[tx].ep)]
      BY <2>2, <3>1 DEF RecvFromSender, Blocked, BlockReasons
    <3> QED
      BY <3>1, <3>2, <1>2, <1>3 DEF Woken, BlockReasons
  <2>3. CASE RecvUnwritable(p, e)
    BY <2>3 DEF RecvUnwritable
  <2>4. CASE RecvQueued(p, e, buf)
    BY <2>1, <2>4, <1>2, <1>3 DEF RecvQueued, block_and_yield, BlockReasons
  <2> QED
    BY <1>7, <2>2, <2>3, <2>4 DEF ipc_recv
<1>8. CASE ipc_reply(p, e)
  BY <1>8, <1>2, <1>3 DEF ipc_reply, Woken, eventVars
<1> QED
  BY <1>4, <1>5, <1>6, <1>7, <1>8 DEF do_send_like, ipc_recv, ipc_reply, event_read, run, eventVars

(* The registry's answer to the end of a tenant: none, a restart of the     *)
(* module as a process that was unused, or the module is given up.  In any  *)
(* case the end itself is recorded first.                                   *)
LEMMA SettleOutcome ==
  ASSUME SchedTypeOK, NoMissedRecord, NEW p \in Procs, NEW ending \in Endings,
         settle(p, ending)
  PROVE  \/ /\ WatchedAs(p) = {} /\ UNCHANGED slots
            /\ \A q \in Procs : state[q] = Free <=> state'[q] = Free
            /\ next_seq' = next_seq + 1
            /\ ring' = Emitted(ring, next_seq, ending, p)
         \/ \E d \in WatchedAs(p), new_pid \in DynProcs :
              /\ state[new_pid] = Free /\ slots[d].restarts_left > 0
              /\ \A q \in Procs : state'[q] = Free <=> state[q] = Free /\ q # new_pid
              /\ \A x \in Modules \ {d} : slots'[x] = slots[x]
              /\ slots'[d] = [proc_id |-> new_pid, daemon |-> slots[d].daemon,
                              restarts_left |-> slots[d].restarts_left - 1]
              /\ next_seq' = next_seq + 1 + 1
              /\ ring' = Emitted(Emitted(ring, next_seq, ending, p), next_seq + 1,
                                 "DaemonRestarted", new_pid)
         \/ \E d \in WatchedAs(p) :
              /\ \A q \in Procs : state[q] = Free <=> state'[q] = Free
              /\ \A x \in Modules \ {d} : slots'[x] = slots[x]
              /\ slots'[d] = [proc_id |-> slots[d].proc_id, daemon |-> FALSE,
                              restarts_left |-> 0]
              /\ next_seq' = next_seq + 1 + 1
              /\ ring' = Emitted(Emitted(ring, next_seq, ending, p), next_seq + 1,
                                 "DaemonGaveUp", slots[d].proc_id)
<1> DEFINE st == [WakeRingWaiters EXCEPT ![p] = Plain(ending)]
           r == Emitted(ring, next_seq, ending, p)
<1>1. state[p] = Running /\ on_tenant_terminated(p, st, r, next_seq + 1)
  BY DEF settle
<1>2. st \in [Procs -> States]
  BY DEF WakeRingWaiters, SchedTypeOK, Plain, Ready, States, Endings
<1>3. \A q \in Procs : st[q] = Free <=> state[q] = Free
  BY <1>1, StatesApart DEF WakeRingWaiters, Blocked, SchedTypeOK
<1> HIDE DEF st
<1>4. CASE WatchedAs(p) = {}
  BY <1>1, <1>3, <1>4 DEF on_tenant_terminated
<1>5. ASSUME NEW d \in WatchedAs(p), Restartable(d), Restart(d, st, r, next_seq + 1)
      PROVE  \E new_pid \in DynProcs :
              /\ state[new_pid] = Free /\ slots[d].restarts_left > 0
              /\ \A q \in Procs : state'[q] = Free <=> state[q] = Free /\ q # new_pid
              /\ \A x \in Modules \ {d} : slots'[x] = slots[x]
              /\ slots'[d] = [proc_id |-> new_pid, daemon |-> slots[d].daemon,
                              restarts_left |-> slots[d].restarts_left - 1]
              /\ next_seq' = next_seq + 1 + 1
              /\ ring' = Emitted(r, next_seq + 1, "DaemonRestarted", new_pid)
  <2>1. PICK new_pid \in DynProcs : new_pid = Lowest(FreePids) /\ state[new_pid] = Free
    BY <1>5, LowestIn, SchedAssumption DEF Restartable, FreePids
  <2>2. \A q \in Procs : state'[q] = Free <=> state[q] = Free /\ q # new_pid
    BY <1>2, <1>3, <1>5, <2>1, StatesApart DEF Restart
  <2>3. /\ \A x \in Modules \ {d} : slots'[x] = slots[x]
        /\ slots'[d] = [proc_id |-> new_pid, daemon |-> slots[d].daemon,
                        restarts_left |-> slots[d].restarts_left - 1]
    BY <1>5, <2>1, RestartSlots DEF WatchedAs
  <2>4. /\ next_seq' = next_seq + 1 + 1 /\ slots[d].restarts_left > 0
        /\ ring' = Emitted(r, next_seq + 1, "DaemonRestarted", new_pid)
    BY <1>5, <2>1 DEF Restart, Restartable
  <2> QED
    BY <2>1, <2>2, <2>3, <2>4
<1>6. ASSUME NEW d \in WatchedAs(p), GiveUp(d, st, r, next_seq + 1)
      PROVE  /\ \A q \in Procs : state[q] = Free <=> state'[q] = Free
             /\ \A x \in Modules \ {d} : slots'[x] = slots[x]
             /\ slots'[d] = [proc_id |-> slots[d].proc_id, daemon |-> FALSE,
                             restarts_left |-> 0]
             /\ next_seq' = next_seq + 1 + 1
             /\ ring' = Emitted(r, next_seq + 1, "DaemonGaveUp", slots[d].proc_id)
  <2>1. /\ \A x \in Modules \ {d} : slots'[x] = slots[x]
        /\ slots'[d] = [proc_id |-> slots[d].proc_id, daemon |-> FALSE,
                        restarts_left |-> 0]
    BY <1>6, GiveUpSlots DEF WatchedAs
  <2> QED
    BY <1>3, <1>6, <2>1 DEF GiveUp
<1>7. \/ WatchedAs(p) = {}
      \/ \E d \in WatchedAs(p) : Restartable(d) /\ Restart(d, st, r, next_seq + 1)
      \/ \E d \in WatchedAs(p) : GiveUp(d, st, r, next_seq + 1)
  BY <1>1 DEF on_tenant_terminated
<1>8. CASE \E d \in WatchedAs(p) : Restartable(d) /\ Restart(d, st, r, next_seq + 1)
  BY <1>5, <1>8
<1>9. CASE \E d \in WatchedAs(p) : GiveUp(d, st, r, next_seq + 1)
  BY <1>6, <1>9
<1> QED
  BY <1>4, <1>7, <1>8, <1>9

(* At boot, daemons are in place and within their budgets.                   *)
LEMMA InitRegistry == Init => RegistryInv
<1> SUFFICES ASSUME Init PROVE RegistryInv
  OBVIOUS
<1>1. ASSUME NEW d \in Modules
      PROVE  /\ slots[d].proc_id = ModuleProc[d] /\ slots[d].restarts_left = Budget[d]
             /\ slots[d].daemon <=> Budget[d] > 0
             /\ ModuleProc[d] \in BootProcs /\ Budget[d] \in Nat
             /\ state[ModuleProc[d]] = Ready
  <2>1. ModuleProc[d] \in BootProcs /\ Budget[d] \in Nat /\ BootProcs \subseteq Procs
    BY SchedAssumption
  <2> QED
    BY <2>1 DEF Init
<1>2. \A d \in Modules : state[slots[d].proc_id] # Free /\ ~ Terminated(slots[d].proc_id)
  BY <1>1, StatesApart DEF Terminated, Endings
<1>3. \A d1, d2 \in Modules : slots[d1].proc_id = slots[d2].proc_id => d1 = d2
  BY <1>1, SchedAssumption
<1>4. \A d \in Modules : slots[d].restarts_left <= Budget[d]
  BY <1>1
<1> QED
  BY <1>1, <1>2, <1>3, <1>4 DEF RegistryInv, DaemonsAlive

(* A step that makes and ends no process leaves the registry correct.       *)
LEMMA RegistryStill ==
  ASSUME SchedTypeOK, RegistryInv, UNCHANGED slots,
         \A q \in Procs : state'[q] = state[q] \/ (Active(q) /\ Active(q)')
  PROVE  RegistryInv'
<1>1. \A d \in Modules : slots[d].proc_id \in Procs
  BY DEF SchedTypeOK
<1>2. \A d \in Modules : /\ slots[d].daemon => ~ Terminated(slots[d].proc_id)
                         /\ state[slots[d].proc_id] # Free
  BY DEF RegistryInv, DaemonsAlive
<1>3. ASSUME NEW d \in Modules
      PROVE  /\ slots'[d].daemon => ~ Terminated(slots[d].proc_id)'
             /\ state'[slots[d].proc_id] # Free
  BY <1>1, <1>2 DEF Active, Terminated
<1> QED
  BY <1>3 DEF RegistryInv, DaemonsAlive, Terminated

(* A process that has not ended and is in use does not end when another does.*)
LEMMA RegistrySettle ==
  ASSUME CoreInv, RegistryInv, NEW p \in Procs, NEW ending \in Endings, settle(p, ending)
  PROVE  RegistryInv'
<1> USE DEF CoreInv, RendezvousInv
<1>1. \A d \in Modules : /\ slots[d].proc_id \in Procs /\ slots[d].restarts_left \in Nat
                         /\ Budget[d] \in Nat
  BY SchedAssumption DEF SchedTypeOK
<1>2. \A d \in Modules : /\ slots[d].daemon => ~ Terminated(slots[d].proc_id)
                         /\ state[slots[d].proc_id] # Free
                         /\ slots[d].restarts_left <= Budget[d]
                         /\ slots[d].daemon => Budget[d] > 0
  BY DEF RegistryInv, DaemonsAlive
<1>3. \A d1, d2 \in Modules : slots[d1].proc_id = slots[d2].proc_id => d1 = d2
  BY DEF RegistryInv, DaemonsAlive
<1>4. ASSUME NEW q \in Procs \ {p}, ~ Terminated(q) \/ state[q] = Free
      PROVE  state'[q].tag \notin Endings
  <2>1. state[q].tag \notin Endings
    BY <1>4, StatesApart DEF Terminated, Endings
  <2> QED
    BY <2>1, SettleStates, StatesApart DEF Endings
<1>5. \A d \in WatchedAs(p) : \A x \in Modules \ {d} : slots[x].proc_id # p
  BY <1>3 DEF WatchedAs
<1>6. CASE /\ WatchedAs(p) = {} /\ UNCHANGED slots
           /\ \A q \in Procs : state[q] = Free <=> state'[q] = Free
  <2>1. \A d \in Modules : slots[d].daemon => slots[d].proc_id # p
    BY <1>6 DEF WatchedAs
  <2>2. ASSUME NEW d \in Modules
        PROVE  /\ slots'[d].daemon => state'[slots'[d].proc_id].tag \notin Endings
               /\ state'[slots'[d].proc_id] # Free
    BY <1>1, <1>2, <1>4, <1>6, <2>1
  <2> QED
    BY <1>2, <1>3, <1>6, <2>2 DEF RegistryInv, DaemonsAlive, Terminated
<1>7. ASSUME NEW d \in WatchedAs(p), NEW new_pid \in DynProcs,
             state[new_pid] = Free, slots[d].restarts_left > 0,
             \A q \in Procs : state'[q] = Free <=> state[q] = Free /\ q # new_pid,
             \A x \in Modules \ {d} : slots'[x] = slots[x],
             slots'[d] = [proc_id |-> new_pid, daemon |-> slots[d].daemon,
                          restarts_left |-> slots[d].restarts_left - 1]
      PROVE  RegistryInv'
  <2>1. d \in Modules /\ slots[d].daemon /\ slots[d].proc_id = p
    BY DEF WatchedAs
  <2>2. new_pid \in Procs /\ new_pid # p /\ state'[new_pid] # Free
    BY <1>7, SchedAssumption, StatesApart DEF settle
  <2>3. state'[new_pid].tag \notin Endings
    BY <1>4, <1>7, <2>2
  <2>4. \A x \in Modules : slots[x].proc_id # new_pid
    BY <1>2, <1>7
  <2>5. ASSUME NEW x \in Modules
        PROVE  /\ slots'[x].daemon => state'[slots'[x].proc_id].tag \notin Endings
               /\ state'[slots'[x].proc_id] # Free
               /\ slots'[x].restarts_left <= Budget[x]
               /\ slots'[x].daemon => Budget[x] > 0
    <3>1. CASE x = d
      BY <3>1, <1>1, <1>2, <1>7, <2>1, <2>2, <2>3
    <3>2. CASE x # d
      <4>1. slots'[x] = slots[x] /\ slots[x].proc_id # p
        BY <3>2, <1>5, <1>7
      <4> QED
        BY <4>1, <1>1, <1>2, <1>4, <1>7, <2>4
    <3> QED
      BY <3>1, <3>2
  <2>6. ASSUME NEW d1 \in Modules, NEW d2 \in Modules,
               slots'[d1].proc_id = slots'[d2].proc_id
        PROVE  d1 = d2
    BY <1>3, <1>7, <2>1, <2>4, <2>6
  <2> QED
    BY <2>5, <2>6 DEF RegistryInv, DaemonsAlive, Terminated
<1>8. ASSUME NEW d \in WatchedAs(p),
             \A q \in Procs : state[q] = Free <=> state'[q] = Free,
             \A x \in Modules \ {d} : slots'[x] = slots[x],
             slots'[d] = [proc_id |-> slots[d].proc_id, daemon |-> FALSE,
                          restarts_left |-> 0]
      PROVE  RegistryInv'
  <2>1. d \in Modules
    BY DEF WatchedAs
  <2>2. ASSUME NEW x \in Modules
        PROVE  /\ slots'[x].daemon => state'[slots'[x].proc_id].tag \notin Endings
               /\ state'[slots'[x].proc_id] # Free
               /\ slots'[x].restarts_left <= Budget[x]
               /\ slots'[x].daemon => Budget[x] > 0
    <3>1. CASE x = d
      BY <3>1, <1>1, <1>2, <1>8
    <3>2. CASE x # d
      <4>1. slots'[x] = slots[x] /\ slots[x].proc_id # p
        BY <3>2, <1>5, <1>8
      <4> QED
        BY <4>1, <1>1, <1>2, <1>4, <1>8
    <3> QED
      BY <3>1, <3>2
  <2>3. \A x \in Modules : slots'[x].proc_id = slots[x].proc_id
    BY <1>8
  <2>4. \A d1, d2 \in Modules : slots'[d1].proc_id = slots'[d2].proc_id => d1 = d2
    BY <1>3, <2>3
  <2> QED
    BY <2>2, <2>4 DEF RegistryInv, DaemonsAlive, Terminated
<1> QED
  BY <1>6, <1>7, <1>8, SettleOutcome, ZenonT(60)

(* Every record the ring should still hold is at its place.                 *)
Holds(r, n) == \A s \in Oldest(n) .. n - 1 : r[SlotOf(s)].seq = s

RingHolds == Holds(ring, next_seq)

(* An emit overwrites only the record that drops out of the ring.           *)
LEMMA EmitHolds ==
  ASSUME NEW r \in [RingSlots -> Records], NEW n \in Nat, Holds(r, n), NEW kind, NEW a
  PROVE  Holds(Emitted(r, n, kind, a), n + 1)
<1> SUFFICES ASSUME NEW s \in Oldest(n + 1) .. (n + 1) - 1
             PROVE  Emitted(r, n, kind, a)[SlotOf(s)].seq = s
  BY DEF Holds
<1>1. s \in Nat /\ s <= n /\ n < s + RingCapacity
  BY RingAssumption DEF Oldest
<1>2. SlotOf(s) \in RingSlots /\ SlotOf(n) \in RingSlots
  BY <1>1, SlotOfType
<1>3. CASE s = n
  BY <1>2, <1>3 DEF Emitted, Record
<1>4. CASE s < n
  <2>1. SlotOf(s) # SlotOf(n)
    BY <1>1, <1>4, SlotOfApart
  <2>2. s \in Oldest(n) .. n - 1
    BY <1>1, <1>4, RingAssumption DEF Oldest
  <2> QED
    BY <1>2, <2>1, <2>2 DEF Emitted, Holds
<1> QED
  BY <1>1, <1>3, <1>4

(* The ring is complete at boot.                                             *)
LEMMA InitRing == Init => RingHolds
<1> SUFFICES ASSUME Init, NEW s \in Oldest(BootEvents) .. BootEvents - 1
             PROVE  BootRing[SlotOf(s)].seq = s
  BY DEF RingHolds, Holds, Init
<1> DEFINE held == {t \in Oldest(BootEvents) .. BootEvents - 1 : SlotOf(t) = SlotOf(s)}
<1>1. s \in Nat /\ s < BootEvents /\ BootEvents <= s + RingCapacity
  BY SchedAssumption, RingAssumption DEF Oldest
<1>2. ASSUME NEW t \in held PROVE t = s
  <2>1. t \in Nat /\ t < BootEvents /\ BootEvents <= t + RingCapacity /\ SlotOf(t) = SlotOf(s)
    BY SchedAssumption, RingAssumption DEF Oldest
  <2>2. RingCapacity \in Nat /\ BootEvents \in Nat
    BY RingAssumption, SchedAssumption
  <2>3. ~ (t < s)
    <3>1. s < t + RingCapacity
      BY <1>1, <2>1, <2>2
    <3> QED
      BY <3>1, <1>1, <2>1, SlotOfApart
  <2>4. ~ (s < t)
    <3>1. t < s + RingCapacity
      BY <1>1, <2>1, <2>2
    <3> QED
      BY <3>1, <1>1, <2>1, SlotOfApart
  <2> QED
    BY <1>1, <2>1, <2>3, <2>4
<1>3. s \in held
  BY <1>1
<1>4. (CHOOSE t \in held : TRUE) = s /\ held # {}
  BY <1>2, <1>3
<1>5. BootRing[SlotOf(s)] = IF held = {} THEN NoRecord
                            ELSE Record(CHOOSE t \in held : TRUE, "Boot", NoProc)
  BY <1>1, SlotOfType DEF BootRing
<1> QED
  BY <1>4, <1>5 DEF Record

(* The end of a tenant puts one record or two into the ring.                 *)
LEMMA RingSettle ==
  ASSUME CoreInv, RingHolds, NEW p \in Procs, NEW ending \in Endings, settle(p, ending)
  PROVE  RingHolds'
<1> DEFINE r == Emitted(ring, next_seq, ending, p)
<1>1. ring \in [RingSlots -> Records] /\ next_seq \in Nat /\ SchedTypeOK /\ NoMissedRecord
  BY DEF CoreInv, RendezvousInv, SchedTypeOK
<1>2. r \in [RingSlots -> Records] /\ Holds(r, next_seq + 1)
  BY <1>1, EmittedType, EmitHolds DEF RingHolds
<1>3. \A kind, a : Holds(Emitted(r, next_seq + 1, kind, a), next_seq + 1 + 1)
  <2>1. next_seq + 1 \in Nat
    BY <1>1
  <2> HIDE DEF r
  <2> QED
    BY <1>2, <2>1, EmitHolds
<1> HIDE DEF r
<1>4. CASE ring' = r /\ next_seq' = next_seq + 1
  BY <1>2, <1>4 DEF RingHolds
<1>5. ASSUME NEW kind, NEW a, ring' = Emitted(r, next_seq + 1, kind, a),
             next_seq' = next_seq + 1 + 1
      PROVE  RingHolds'
  BY <1>3, <1>5 DEF RingHolds
<1>6. \/ ring' = r /\ next_seq' = next_seq + 1
      \/ \E new_pid \in DynProcs : /\ next_seq' = next_seq + 1 + 1
                                   /\ ring' = Emitted(r, next_seq + 1, "DaemonRestarted", new_pid)
      \/ \E d \in WatchedAs(p) :
           /\ next_seq' = next_seq + 1 + 1
           /\ ring' = Emitted(r, next_seq + 1, "DaemonGaveUp", slots[d].proc_id)
  BY <1>1, SettleOutcome DEF r
<1>7. CASE \E new_pid \in DynProcs :
             /\ next_seq' = next_seq + 1 + 1
             /\ ring' = Emitted(r, next_seq + 1, "DaemonRestarted", new_pid)
  BY <1>5, <1>7
<1>8. CASE \E d \in WatchedAs(p) :
             /\ next_seq' = next_seq + 1 + 1
             /\ ring' = Emitted(r, next_seq + 1, "DaemonGaveUp", slots[d].proc_id)
  BY <1>5, <1>8
<1> QED
  BY <1>4, <1>6, <1>7, <1>8

(* The registry's modules are finitely many: each has a process of its own. *)
LEMMA ModulesFinite == IsFiniteSet(Modules)
<1>1. ModuleProc \in Injection(Modules, BootProcs)
  BY SchedAssumption DEF Injection, IsInjective
<1>2. IsFiniteSet(BootProcs)
  BY SchedAssumption, FS_Subset
<1> QED
  BY <1>1, <1>2, FS_Injection

(* What the stream counts is finite.                                         *)
LEMMA CountsFinite ==
  IsFiniteSet(Ended) /\ IsFiniteSet(Restarted) /\ IsFiniteSet(GivenUp)
<1>1. Ended \subseteq Procs /\ Restarted \subseteq Procs /\ GivenUp \subseteq Modules
  BY SchedAssumption DEF Ended, Restarted, GivenUp
<1> QED
  BY <1>1, ModulesFinite, FS_Subset, SchedAssumption

(* The boot records are the first.                                           *)
LEMMA InitStream == Init => StreamComplete
<1> SUFFICES ASSUME Init PROVE StreamComplete
  OBVIOUS
<1>1. Ended = {}
  BY StatesApart DEF Init, Ended, Terminated, Endings
<1>2. Restarted = {}
  BY SchedAssumption DEF Init, Restarted
<1>3. GivenUp = {}
  BY DEF Init, GivenUp
<1> QED
  BY <1>1, <1>2, <1>3, FS_EmptySet, SchedAssumption DEF StreamComplete, Init

(* A step that ends and restarts nobody emits nothing.                       *)
LEMMA StreamStill ==
  ASSUME SchedTypeOK, StreamComplete, UNCHANGED <<slots, next_seq>>,
         \A q \in Procs : state'[q] = state[q] \/ (Active(q) /\ Active(q)')
  PROVE  StreamComplete'
<1>1. Ended' = Ended
  BY DEF Ended, Active, Terminated
<1>2. Restarted' = Restarted
  BY SchedAssumption DEF Restarted, Active
<1>3. GivenUp' = GivenUp
  BY DEF GivenUp
<1> QED
  BY <1>1, <1>2, <1>3 DEF StreamComplete

(* The end of a tenant is counted, and what the registry made of it.         *)
LEMMA StreamSettle ==
  ASSUME CoreInv, RegistryInv, StreamComplete,
         NEW p \in Procs, NEW ending \in Endings, settle(p, ending)
  PROVE  StreamComplete'
<1>1. SchedTypeOK /\ NoMissedRecord
  BY DEF CoreInv, RendezvousInv
<1>2. Ended' = Ended \cup {p} /\ p \notin Ended
  <2>1. state'[p].tag \in Endings /\ state[p].tag \notin Endings
    BY <1>1, SettleStates, StatesApart DEF Endings
  <2>2. \A q \in Procs \ {p} : state'[q].tag \in Endings <=> state[q].tag \in Endings
    BY <1>1, SettleStates, StatesApart DEF Endings
  <2> QED
    BY <2>1, <2>2 DEF Ended, Terminated
<1>3. /\ Cardinality(Ended') = Cardinality(Ended) + 1
      /\ Cardinality(Ended) \in Nat /\ Cardinality(Restarted) \in Nat
      /\ Cardinality(GivenUp) \in Nat
  BY <1>2, CountsFinite, FS_AddElement, FS_CardinalityType
<1>4. CASE /\ WatchedAs(p) = {} /\ UNCHANGED slots
           /\ \A q \in Procs : state[q] = Free <=> state'[q] = Free
           /\ next_seq' = next_seq + 1
  <2>1. Restarted' = Restarted /\ GivenUp' = GivenUp
    BY <1>4, SchedAssumption DEF Restarted, GivenUp
  <2> QED
    BY <1>3, <1>4, <2>1, SchedAssumption DEF StreamComplete
<1>5. ASSUME NEW d \in WatchedAs(p), NEW new_pid \in DynProcs,
             state[new_pid] = Free,
             \A q \in Procs : state'[q] = Free <=> state[q] = Free /\ q # new_pid,
             \A x \in Modules \ {d} : slots'[x] = slots[x],
             slots'[d] = [proc_id |-> new_pid, daemon |-> slots[d].daemon,
                          restarts_left |-> slots[d].restarts_left - 1],
             next_seq' = next_seq + 1 + 1
      PROVE  StreamComplete'
  <2>1. Restarted' = Restarted \cup {new_pid} /\ new_pid \notin Restarted
    BY <1>5, SchedAssumption DEF Restarted
  <2>2. GivenUp' = GivenUp
    <3>1. \A x \in Modules : slots'[x].daemon = slots[x].daemon
      BY <1>5
    <3> QED
      BY <3>1 DEF GivenUp
  <2>3. Cardinality(Restarted') = Cardinality(Restarted) + 1
    BY <2>1, CountsFinite, FS_AddElement
  <2> QED
    BY <1>3, <1>5, <2>2, <2>3, SchedAssumption DEF StreamComplete
<1>6. ASSUME NEW d \in WatchedAs(p),
             \A q \in Procs : state[q] = Free <=> state'[q] = Free,
             \A x \in Modules \ {d} : slots'[x] = slots[x],
             slots'[d] = [proc_id |-> slots[d].proc_id, daemon |-> FALSE,
                          restarts_left |-> 0],
             next_seq' = next_seq + 1 + 1
      PROVE  StreamComplete'
  <2>1. d \in Modules /\ slots[d].daemon /\ Budget[d] > 0
    BY DEF WatchedAs, RegistryInv
  <2>2. GivenUp' = GivenUp \cup {d} /\ d \notin GivenUp
    BY <1>6, <2>1 DEF GivenUp
  <2>3. Restarted' = Restarted
    BY <1>6, SchedAssumption DEF Restarted
  <2>4. Cardinality(GivenUp') = Cardinality(GivenUp) + 1
    BY <2>2, CountsFinite, FS_AddElement
  <2> QED
    BY <1>3, <1>6, <2>3, <2>4, SchedAssumption DEF StreamComplete
<1> QED
  BY <1>1, <1>4, <1>5, <1>6, SettleOutcome, ZenonT(60)

-----------------------------------------------------------------------------
(* The theorems.                                                            *)

(* The inductive invariant of the whole module.                             *)
SchedInv == CoreInv /\ RegistryInv /\ RingHolds /\ StreamComplete

(* Every step keeps all of it.                                               *)
LEMMA SchedStep == SchedInv /\ [Next]_vars => SchedInv'
<1> SUFFICES ASSUME SchedInv, [Next]_vars PROVE SchedInv'
  OBVIOUS
<1>1. CoreInv' /\ SchedTypeOK
  BY CoreStep DEF SchedInv, CoreInv, RendezvousInv
<1>2. ASSUME UNCHANGED <<slots, next_seq, ring>>,
             \A q \in Procs : state'[q] = state[q] \/ (Active(q) /\ Active(q)')
      PROVE  SchedInv'
  BY <1>1, <1>2, RegistryStill, StreamStill DEF SchedInv, RingHolds
<1>3. ASSUME NEW p \in Procs, NEW ending \in Endings, settle(p, ending) PROVE SchedInv'
  BY <1>1, <1>3, RegistrySettle, RingSettle, StreamSettle DEF SchedInv
<1>4. CASE UNCHANGED vars
  BY <1>2, <1>4 DEF vars, eventVars
<1>5. ASSUME NEW p \in Procs, run(p) \/ event_read(p) PROVE SchedInv'
  BY <1>1, <1>2, <1>5, ActiveStep
<1>6. ASSUME NEW p \in Procs, NEW e \in Endpoints,
             \/ \E call \in BOOLEAN : do_send_like(p, e, call)
             \/ \E buf \in {GoodBuf, BadBuf} : ipc_recv(p, e, buf)
             \/ ipc_reply(p, e)
      PROVE  SchedInv'
  BY <1>1, <1>2, <1>6, ActiveStep
<1> QED
  BY <1>3, <1>4, <1>5, <1>6 DEF Next, ipc_send, ipc_call

(* A read moves the cursor behind the record at it, or behind the oldest    *)
(* one left when that was overwritten: the ring holds what the cursor asks  *)
(* for.                                                                     *)
LEMMA ReadStep ==
  ASSUME SchedInv, NEW p \in Procs, NEW q \in Procs, event_read(p), cursor'[q] # cursor[q]
  PROVE  cursor'[q] = (IF cursor[q] < Oldest(next_seq) THEN Oldest(next_seq)
                                                       ELSE cursor[q]) + 1
<1> DEFINE at == ReadSeq(cursor[p], next_seq)
<1>1. SchedTypeOK /\ Holds(ring, next_seq)
  BY DEF SchedInv, CoreInv, RendezvousInv, RingHolds
<1>2. /\ ~ UpToDate(cursor[p], next_seq)
      /\ cursor' = [cursor EXCEPT ![p] = ring[SlotOf(at)].seq + 1]
  BY DEF event_read, ReadRecord, block_on_event_ring
<1>3. q = p
  BY <1>1, <1>2 DEF SchedTypeOK
<1>4. cursor[p] \in Nat /\ next_seq \in Nat /\ cursor[p] < next_seq
  BY <1>1, <1>2 DEF SchedTypeOK, UpToDate
<1>5. at \in Oldest(next_seq) .. next_seq - 1
  BY <1>4, RingAssumption DEF ReadSeq, Oldest
<1>6. ring[SlotOf(at)].seq = at
  BY <1>1, <1>5 DEF Holds
<1>7. cursor'[p] = at + 1
  BY <1>1, <1>2, <1>6 DEF SchedTypeOK
<1> QED
  BY <1>3, <1>7 DEF ReadSeq

(* A cursor moves by one, from where the ring begins at the earliest.        *)
LEMMA ReadsStep ==
  ASSUME SchedInv, [Next]_vars, NEW q \in Procs, cursor'[q] # cursor[q]
  PROVE  cursor'[q] = (IF cursor[q] < Oldest(next_seq) THEN Oldest(next_seq)
                                                       ELSE cursor[q]) + 1
<1>1. ASSUME NEW p \in Procs, NEW e \in Endpoints, NEW call \in BOOLEAN,
             do_send_like(p, e, call)
      PROVE  UNCHANGED cursor
  BY <1>1 DEF do_send_like, eventVars
<1>2. ASSUME NEW p \in Procs, NEW e \in Endpoints, NEW buf, ipc_recv(p, e, buf)
      PROVE  UNCHANGED cursor
  BY <1>2 DEF ipc_recv, eventVars
<1>3. ASSUME NEW p \in Procs, NEW e \in Endpoints, ipc_reply(p, e)
      PROVE  UNCHANGED cursor
  BY <1>3 DEF ipc_reply, eventVars
<1>4. ASSUME NEW p \in Procs, run(p) PROVE UNCHANGED cursor
  BY <1>4 DEF run, eventVars
<1>5. ASSUME NEW p \in Procs, NEW ending \in Endings, settle(p, ending)
      PROVE  UNCHANGED cursor
  BY <1>5 DEF settle
<1>6. \E p \in Procs : event_read(p)
  BY <1>1, <1>2, <1>3, <1>4, <1>5 DEF Next, ipc_send, ipc_call, vars, eventVars
<1> QED
  BY <1>6, ReadStep

(* The invariants together hold in every behaviour.                          *)
LEMMA SchedInvariant == Spec => []SchedInv
<1>1. Init => SchedInv
  BY InitCore, InitRegistry, InitRing, InitStream DEF SchedInv
<1> QED
  BY <1>1, SchedStep, PTL DEF Spec

(* The queues, the process table and the instance pool always agree: who is *)
(* queued is blocked there and once, who waits to receive is queued, nobody *)
(* is missed on an endpoint and no instance is resumed or started wrongly.  *)
THEOREM RendezvousCorrect == Spec => []RendezvousInv
<1>1. SchedInv => RendezvousInv
  BY DEF SchedInv, CoreInv
<1> QED
  BY <1>1, SchedInvariant, PTL

(* A guard that sleeps on the audit stream has seen every record.           *)
THEOREM NothingMissed == Spec => []NoMissedRecord
<1>1. SchedInv => NoMissedRecord
  BY DEF SchedInv, CoreInv
<1> QED
  BY <1>1, SchedInvariant, PTL

(* A module the registry watches is alive, within its budget and the only   *)
(* one with its process.                                                    *)
THEOREM WatchedAlive == Spec => []DaemonsAlive
<1>1. SchedInv => DaemonsAlive
  BY DEF SchedInv, RegistryInv
<1> QED
  BY <1>1, SchedInvariant, PTL

(* The audit stream has one record for every tenant that ended, every       *)
(* restart and every daemon given up, and nothing else.                     *)
THEOREM StreamCounts == Spec => []StreamComplete
<1>1. SchedInv => StreamComplete
  BY DEF SchedInv
<1> QED
  BY <1>1, SchedInvariant, PTL

(* No guard reads a record twice, and one is skipped only when it was       *)
(* overwritten (wasi.rs, event_read_impl).                                   *)
THEOREM ReadsAreExact == Spec => ReadsExact
<1>1. SchedInv /\ [Next]_vars =>
        [\A p \in Procs : cursor'[p] # cursor[p] =>
           cursor'[p] = (IF cursor[p] < Oldest(next_seq) THEN Oldest(next_seq)
                                                         ELSE cursor[p]) + 1]_vars
  BY ReadsStep
<1> QED
  BY <1>1, SchedInvariant, PTL DEF Spec, ReadsExact

-----------------------------------------------------------------------------
(***************************************************************************)
(* TenantSched implements Rendezvous: the queues, the message registers,   *)
(* the buffers to be filled later and the scheduler are how, and a message *)
(* still moves only when one sender and one receiver meet.                 *)
(***************************************************************************)

(* What the refinement needs beyond the invariant of the scheduler.         *)

SendTags == {"SendWait", "CallWait"}

(* A process that waits on an endpoint names it.  What a caller waits for   *)
(* can be written into its buffer; a receiver asked for a buffer; and the   *)
(* message a blocked sender offers is in its memory and in its registers    *)
(* alike, so it does not matter from which of the two it is taken.          *)
WaitsWell(p) ==
  /\ state[p].tag \in SendTags \cup {"RecvWait", "ReplyWait"} => state[p].ep \in Endpoints
  /\ state[p].tag \in {"CallWait", "ReplyWait"} => msg_buf[p] = GoodBuf
  /\ state[p].tag = "RecvWait" => msg_buf[p] \in {GoodBuf, BadBuf}
  /\ state[p].tag \in SendTags => mem[p] = msg_regs[p]

WaitInv == \A p \in Procs : WaitsWell(p)

(* Nobody waits at boot, and every step keeps what waiters hold.             *)
LEMMA InitWait == Init => WaitInv
<1> SUFFICES ASSUME Init, NEW p \in Procs PROVE WaitsWell(p)
  BY DEF WaitInv
<1>1. state[p] \in {Ready, Free}
  BY DEF Init
<1> QED
  BY <1>1, StatesApart DEF WaitsWell, SendTags

(* A process that does not wait on an endpoint has nothing to keep.         *)
LEMMA IdleWaitsWell ==
  \A p \in Procs : state[p].tag \notin SendTags \cup {"RecvWait", "ReplyWait"} => WaitsWell(p)
  BY DEF WaitsWell, SendTags

LEMMA WaitStep == CoreInv /\ WaitInv /\ [Next]_vars => WaitInv'
<1> SUFFICES ASSUME CoreInv, WaitInv, [Next]_vars PROVE WaitInv'
  OBVIOUS
<1> DEFINE Same(q) == /\ state'[q] = state[q] /\ msg_buf'[q] = msg_buf[q]
                      /\ mem'[q] = mem[q] /\ msg_regs'[q] = msg_regs[q]
           Idles(q) == state'[q].tag \notin SendTags \cup {"RecvWait", "ReplyWait"}
<1>1. ASSUME \A q \in Procs : Same(q) \/ Idles(q) \/ WaitsWell(q)' PROVE WaitInv'
  <2>1. (\A p \in Procs : state[p].tag \notin SendTags \cup {"RecvWait", "ReplyWait"}
                          => WaitsWell(p))'
    BY IdleWaitsWell, PTL
  <2>2. \A q \in Procs : Same(q) => WaitsWell(q)'
    BY DEF WaitInv, WaitsWell
  <2> QED
    BY <1>1, <2>1, <2>2 DEF WaitInv
<1>2. SchedTypeOK /\ QueuedAreBlocked /\ PoolMatches /\ NoMissedRecord
  BY DEF CoreInv, RendezvousInv
<1>3. ASSUME NEW q \in Procs, \/ state'[q] \in {Ready, Running}
                             \/ state'[q].tag \in Endings \cup {"EventWait"}
      PROVE  Idles(q)
  BY <1>3, StatesApart DEF SendTags, Endings
<1>4. ASSUME NEW p \in Procs, run(p) PROVE WaitInv'
  <2>1. \A q \in Procs : Same(q) \/ state'[q] = Running
    BY <1>2, <1>4 DEF run, SchedTypeOK
  <2> QED
    BY <1>1, <1>3, <2>1
<1>5. ASSUME NEW p \in Procs, NEW ending \in Endings, settle(p, ending) PROVE WaitInv'
  <2>1. \A q \in Procs : \/ state'[q] = state[q] \/ state'[q] = Ready
                         \/ state'[q].tag \in Endings
    BY <1>2, <1>5, SettleStates, StatesApart
  <2>2. UNCHANGED <<msg_buf, mem, msg_regs>>
    BY <1>5 DEF settle, ipcVars
  <2> QED
    BY <1>1, <1>3, <2>1, <2>2
<1>6. ASSUME NEW p \in Procs, event_read(p) PROVE WaitInv'
  <2>1. \A q \in Procs : Same(q) \/ state'[q].tag = "EventWait"
    BY <1>2, <1>6, StatesApart
    DEF event_read, ReadRecord, block_on_event_ring, ipcVars, SchedTypeOK
  <2> QED
    BY <1>1, <1>3, <2>1
<1>7. ASSUME NEW p \in Procs, NEW e \in Endpoints, NEW call \in BOOLEAN,
             do_send_like(p, e, call)
      PROVE  WaitInv'
  <2>1. state[p] = Running /\ mem' = [mem EXCEPT ![p] = NextMsg(p)]
    BY <1>7 DEF do_send_like
  <2>2. CASE SendToReceiver(p, e, call)
    <3>1. PICK rx \in Procs : rx = Head(receivers[e]) /\ state[rx] = BlockedOn("RecvWait", e)
      BY <1>2, <2>2, QueuePop, QueuedState DEF SendToReceiver, SchedTypeOK
    <3>2. Woken(rx) = [state EXCEPT ![rx] = Ready] /\ rx # p
      <4>1. Blocked(rx) /\ rx # p
        BY <2>1, <3>1, StatesApart DEF Blocked, BlockReasons
      <4> QED
        BY <4>1 DEF Woken
    <3>3. /\ \/ state' = [state EXCEPT ![rx] = Ready] /\ UNCHANGED msg_buf
             \/ /\ state' = [[state EXCEPT ![rx] = Ready] EXCEPT ![p] = BlockedOn("ReplyWait", e)]
                /\ msg_buf' = [msg_buf EXCEPT ![p] = GoodBuf]
          /\ msg_regs' = [msg_regs EXCEPT ![p] = NextMsg(p), ![rx] = NextMsg(p)]
      BY <2>2, <3>1, <3>2 DEF SendToReceiver, block_and_yield
    <3>4. \A q \in Procs \ {p, rx} : Same(q)
      BY <1>2, <2>1, <3>3 DEF SchedTypeOK
    <3>5. state'[rx] = Ready
      BY <1>2, <3>2, <3>3 DEF SchedTypeOK
    <3>6. \/ state'[p] = Running
          \/ state'[p] = BlockedOn("ReplyWait", e) /\ msg_buf'[p] = GoodBuf
      BY <1>2, <2>1, <3>2, <3>3 DEF SchedTypeOK
    <3>7. state'[p] = Running \/ WaitsWell(p)'
      BY <3>6, StatesApart DEF WaitsWell, SendTags
    <3> QED
      BY <1>1, <1>3, <3>4, <3>5, <3>7
  <2>3. CASE SendQueued(p, e, call)
    <3>1. msg_regs' = [msg_regs EXCEPT ![p] = NextMsg(p)]
      BY <2>3 DEF SendQueued
    <3>2. \/ UNCHANGED <<state, msg_buf>>
          \/ \E reason \in SendTags : /\ state' = [state EXCEPT ![p] = BlockedOn(reason, e)]
                                      /\ msg_buf' = [msg_buf EXCEPT ![p] = GoodBuf]
      BY <2>3 DEF SendQueued, block_and_yield, SendTags
    <3>3. \A q \in Procs \ {p} : Same(q)
      BY <1>2, <2>1, <3>1, <3>2 DEF SchedTypeOK
    <3>4. mem'[p] = msg_regs'[p]
      BY <1>2, <2>1, <3>1 DEF SchedTypeOK
    <3>5. \/ state'[p] = Running
          \/ \E reason \in SendTags : state'[p] = BlockedOn(reason, e) /\ msg_buf'[p] = GoodBuf
      BY <1>2, <2>1, <3>2 DEF SchedTypeOK
    <3>6. state'[p] = Running \/ WaitsWell(p)'
      BY <3>4, <3>5, StatesApart DEF WaitsWell, SendTags
    <3> QED
      BY <1>1, <1>3, <3>3, <3>6
  <2> QED
    BY <1>7, <2>2, <2>3 DEF do_send_like
<1>8. ASSUME NEW p \in Procs, NEW e \in Endpoints, NEW buf \in {GoodBuf, BadBuf},
             ipc_recv(p, e, buf)
      PROVE  WaitInv'
  <2>1. state[p] = Running /\ UNCHANGED msg_regs
    BY <1>8 DEF ipc_recv
  <2>2. CASE RecvFromSender(p, e)
    <3>1. PICK tx \in Procs : /\ tx = Head(senders[e])
                             /\ state[tx] \in {BlockedOn("SendWait", e), BlockedOn("CallWait", e)}
      BY <1>2, <2>2, QueuePop, QueuedState DEF RecvFromSender, SchedTypeOK
    <3>2. /\ \/ state' = [state EXCEPT ![tx] = Ready]
             \/ /\ state[tx] = BlockedOn("CallWait", e)
                /\ state' = [state EXCEPT ![tx] = BlockedOn("ReplyWait", e)]
          /\ UNCHANGED msg_buf /\ mem' = [mem EXCEPT ![p] = msg_regs[tx]]
      <4>0. Blocked(tx) /\ state[tx].ep = e
        BY <3>1, StatesApart DEF Blocked, BlockReasons
      <4>1. state[tx].ep = e /\ Woken(tx) = [state EXCEPT ![tx] = Ready]
        BY <4>0 DEF Woken
      <4>2. state[tx].tag = "CallWait" => state[tx] = BlockedOn("CallWait", e)
        BY <3>1, StatesApart
      <4> QED
        BY <2>2, <3>1, <4>1, <4>2 DEF RecvFromSender
    <3>3. tx # p
      BY <2>1, <3>1, StatesApart
    <3>4. \A q \in Procs \ {p, tx} : Same(q)
      BY <1>2, <2>1, <3>2 DEF SchedTypeOK
    <3>5. state'[p] = Running
      BY <1>2, <2>1, <3>2, <3>3 DEF SchedTypeOK
    <3>6. \/ state'[tx] = Ready
          \/ state[tx] = BlockedOn("CallWait", e) /\ state'[tx] = BlockedOn("ReplyWait", e)
      BY <1>2, <3>2 DEF SchedTypeOK
    <3>7. state'[tx] = Ready \/ WaitsWell(tx)'
      BY <3>2, <3>6, StatesApart DEF WaitInv, WaitsWell, SendTags
    <3> QED
      BY <1>1, <1>3, <3>4, <3>5, <3>7
  <2>3. CASE RecvUnwritable(p, e)
    BY <1>1, <2>1, <2>3 DEF RecvUnwritable
  <2>4. CASE RecvQueued(p, e, buf)
    <3>1. /\ state' = [state EXCEPT ![p] = BlockedOn("RecvWait", e)]
          /\ msg_buf' = [msg_buf EXCEPT ![p] = buf] /\ UNCHANGED mem
      BY <2>4 DEF RecvQueued, block_and_yield
    <3>2. \A q \in Procs \ {p} : Same(q)
      BY <1>2, <2>1, <3>1 DEF SchedTypeOK
    <3>3. state'[p] = BlockedOn("RecvWait", e) /\ msg_buf'[p] = buf
      BY <1>2, <3>1 DEF SchedTypeOK
    <3>4. WaitsWell(p)'
      BY <3>3, StatesApart DEF WaitsWell, SendTags
    <3> QED
      BY <1>1, <3>2, <3>4
  <2> QED
    BY <1>8, <2>2, <2>3, <2>4 DEF ipc_recv
<1>9. ASSUME NEW p \in Procs, NEW e \in Endpoints, ipc_reply(p, e) PROVE WaitInv'
  <2>1. PICK waiter \in Procs : /\ waiter = Lowest(ReplyWaiters(e))
                               /\ state[waiter] = BlockedOn("ReplyWait", e)
    BY <1>9, LowestIn DEF ipc_reply, ReplyWaiters
  <2>2. /\ state[p] = Running /\ state' = [state EXCEPT ![waiter] = Ready]
        /\ mem' = [mem EXCEPT ![p] = NextMsg(p)]
        /\ msg_regs' = [msg_regs EXCEPT ![waiter] = NextMsg(p)]
        /\ UNCHANGED msg_buf
    <3>1. Blocked(waiter)
      BY <2>1, StatesApart DEF Blocked, BlockReasons
    <3>2. Woken(waiter) = [state EXCEPT ![waiter] = Ready]
      BY <3>1 DEF Woken
    <3> QED
      BY <1>9, <2>1, <3>2 DEF ipc_reply
  <2>3. /\ \A q \in Procs \ {p, waiter} : Same(q)
        /\ state'[p] \in {Ready, Running} /\ state'[waiter] = Ready
    BY <1>2, <2>2 DEF SchedTypeOK
  <2> QED
    BY <1>1, <1>3, <2>3
<1>10. CASE UNCHANGED vars
  BY <1>1, <1>10 DEF vars, ipcVars
<1> QED
  BY <1>4, <1>5, <1>6, <1>7, <1>8, <1>9, <1>10 DEF Next, ipc_send, ipc_call

(* What a process is doing in the abstract, from its state and its queue.   *)
LEMMA AtIs ==
  \A p \in Procs :
    /\ state[p].tag \in SendTags =>
         At[p] = IF InQueue(p, senders[state[p].ep])
                   THEN Abstract!Offering(state[p].ep, state[p].tag = "CallWait")
                   ELSE Abstract!Stranded
    /\ state[p].tag = "RecvWait" =>
         At[p] = Abstract!Waiting(state[p].ep, msg_buf[p] = BadBuf)
    /\ state[p].tag = "ReplyWait" => At[p] = Abstract!Owed(state[p].ep)
    /\ state[p].tag \notin SendTags \cup {"RecvWait", "ReplyWait"} => At[p] = Abstract!Idle
  BY DEF At, SendTags, Abstract!Offering, Abstract!Stranded, Abstract!Waiting,
         Abstract!Owed, Abstract!Idle

(* The same of the next state.                                               *)
LEMMA AtIsNext ==
  \A p \in Procs :
    /\ state'[p].tag \in SendTags =>
         At'[p] = IF InQueue(p, senders'[state'[p].ep])
                    THEN Abstract!Offering(state'[p].ep, state'[p].tag = "CallWait")
                    ELSE Abstract!Stranded
    /\ state'[p].tag = "RecvWait" =>
         At'[p] = Abstract!Waiting(state'[p].ep, msg_buf'[p] = BadBuf)
    /\ state'[p].tag = "ReplyWait" => At'[p] = Abstract!Owed(state'[p].ep)
    /\ state'[p].tag \notin SendTags \cup {"RecvWait", "ReplyWait"} => At'[p] = Abstract!Idle
  BY DEF At, SendTags, InQueue, Abstract!Offering, Abstract!Stranded, Abstract!Waiting,
         Abstract!Owed, Abstract!Idle

(* Both mappings are functions on the processes.                            *)
LEMMA MapsAre ==
  /\ At = [p \in Procs |-> At[p]] /\ Box = [p \in Procs |-> Box[p]]
  /\ At' = [p \in Procs |-> At'[p]] /\ Box' = [p \in Procs |-> Box'[p]]
<1>1. At = [p \in Procs |-> At[p]] /\ At' = [p \in Procs |-> At'[p]]
  BY DEF At
<1>2. Box = [p \in Procs |-> Box[p]] /\ Box' = [p \in Procs |-> Box'[p]]
  BY DEF Box
<1> QED
  BY <1>1, <1>2

(* Kinds of doing are told apart.                                           *)
LEMMA DoingApart ==
  /\ Abstract!Idle.doing = "idle" /\ Abstract!Stranded.doing = "stranded"
  /\ \A e, b : /\ Abstract!Offering(e, b).doing = "offering" /\ Abstract!Offering(e, b).ep = e
               /\ Abstract!Offering(e, b).call = b
               /\ Abstract!Waiting(e, b).doing = "waiting" /\ Abstract!Waiting(e, b).ep = e
               /\ Abstract!Waiting(e, b).deaf = b
  /\ \A e : Abstract!Owed(e).doing = "owed" /\ Abstract!Owed(e).ep = e
  BY DEF Abstract!Idle, Abstract!Stranded, Abstract!Offering, Abstract!Waiting, Abstract!Owed

(* A process does the same as before when its state, its buffer and its     *)
(* place in a queue of senders are as before.                               *)
LEMMA AtSame ==
  ASSUME NEW q \in Procs, state'[q] = state[q],
         state[q].tag = "RecvWait" => msg_buf'[q] = msg_buf[q],
         state[q].tag \in SendTags =>
           (InQueue(q, senders'[state[q].ep]) <=> InQueue(q, senders[state[q].ep]))
  PROVE  At'[q] = At[q]
<1>1. CASE state[q].tag \in SendTags
  BY <1>1, AtIs, AtIsNext
<1>2. CASE state[q].tag = "RecvWait"
  BY <1>2, AtIs, AtIsNext
<1>3. CASE state[q].tag = "ReplyWait"
  BY <1>3, AtIs, AtIsNext
<1>4. CASE state[q].tag \notin SendTags \cup {"RecvWait", "ReplyWait"}
  BY <1>4, AtIs, AtIsNext
<1> QED
  BY <1>1, <1>2, <1>3, <1>4

(* A process that waits on no endpoint is idle in the abstract.             *)
LEMMA AtIdle ==
  /\ \A q \in Procs : \A e : state[q] \in {Running, Ready, Free, BlockedOn("EventWait", e)}
                         => At[q] = Abstract!Idle
  /\ \A q \in Procs : state[q].tag \in Endings \cup {"EventWait"} => At[q] = Abstract!Idle
  /\ \A q \in Procs : \A e : state'[q] \in {Running, Ready, Free, BlockedOn("EventWait", e)}
                         => At'[q] = Abstract!Idle
  /\ \A q \in Procs : state'[q].tag \in Endings \cup {"EventWait"} => At'[q] = Abstract!Idle
  BY AtIs, AtIsNext, StatesApart DEF SendTags, Endings

(* What is in a process's box, before and after a step.                     *)
LEMMA BoxIs ==
  \A q \in Procs :
    /\ state[q] # Ready \/ msg_buf[q] # GoodBuf => Box[q] = mem[q]
    /\ state[q] = Ready /\ msg_buf[q] = GoodBuf => Box[q] = msg_regs[q]
    /\ state'[q] # Ready \/ msg_buf'[q] # GoodBuf => Box'[q] = mem'[q]
    /\ state'[q] = Ready /\ msg_buf'[q] = GoodBuf => Box'[q] = msg_regs'[q]
  BY DEF Box

(* The abstract module counts with a copy of Cardinality of its own: the     *)
(* two count alike.                                                         *)
LEMMA CountsAlike == \A S : Abstract!Cardinality(S) = Cardinality(S)
  BY DEF Abstract!Cardinality, Cardinality, Abstract!IsFiniteSet, IsFiniteSet

(* A queue without repetitions is as long as it has processes.              *)
LEMMA QueueCount ==
  ASSUME NEW q \in Seq(Procs), Distinct(q)
  PROVE  Cardinality({p \in Procs : InQueue(p, q)}) = Len(q)
<1> DEFINE S == {p \in Procs : InQueue(p, q)}
<1>1. Len(q) \in Nat /\ q \in [1 .. Len(q) -> Procs] /\ DOMAIN q = 1 .. Len(q)
  BY LenProperties
<1>2. q \in [1 .. Len(q) -> S]
  BY <1>1 DEF InQueue
<1>3. \A p \in S : \E i \in 1 .. Len(q) : q[i] = p
  BY <1>1 DEF InQueue
<1>4. q \in Bijection(1 .. Len(q), S)
  BY <1>1, <1>2, <1>3 DEF Bijection, Injection, Surjection, IsInjective, Distinct
<1>5. ExistsBijection(1 .. Len(q), S)
  BY <1>4 DEF ExistsBijection
<1> QED
  BY <1>1, <1>5, FS_CountingElements

(* Who offers on an endpoint is who is in its queue of senders.             *)
LEMMA OfferingIs ==
  ASSUME CoreInv, NEW e \in Endpoints
  PROVE  /\ Abstract!AtEndpoint("offering", e) = {q \in Procs : InQueue(q, senders[e])}
         /\ Cardinality(Abstract!AtEndpoint("offering", e)) = Len(senders[e])
<1> USE DEF CoreInv, RendezvousInv
<1>1. ASSUME NEW q \in Procs, InQueue(q, senders[e])
      PROVE  At[q].doing = "offering" /\ At[q].ep = e
  <2>1. state[q].tag \in SendTags /\ state[q].ep = e
    BY <1>1, QueuedState, StatesApart DEF SendTags
  <2> QED
    BY <1>1, <2>1, AtIs, DoingApart
<1>2. ASSUME NEW q \in Procs, At[q].doing = "offering", At[q].ep = e
      PROVE  InQueue(q, senders[e])
  <2>1. state[q].tag \in SendTags /\ InQueue(q, senders[state[q].ep])
    BY <1>2, AtIs, DoingApart
  <2>2. state[q].ep = e
    BY <1>2, <2>1, AtIs, DoingApart
  <2> QED
    BY <2>1, <2>2
<1>3. Abstract!AtEndpoint("offering", e) = {q \in Procs : InQueue(q, senders[e])}
  BY <1>1, <1>2 DEF Abstract!AtEndpoint
<1>4. senders[e] \in Seq(Procs) /\ Distinct(senders[e])
  BY DEF SchedTypeOK, QueuedAreBlocked, Distinct
<1> QED
  BY <1>3, <1>4, QueueCount

(* Who waits on an endpoint is who is in its queue of receivers.            *)
LEMMA WaitingIs ==
  ASSUME CoreInv, NEW e \in Endpoints
  PROVE  /\ Abstract!AtEndpoint("waiting", e) = {q \in Procs : InQueue(q, receivers[e])}
         /\ Cardinality(Abstract!AtEndpoint("waiting", e)) = Len(receivers[e])
<1> USE DEF CoreInv, RendezvousInv
<1>1. ASSUME NEW q \in Procs, InQueue(q, receivers[e])
      PROVE  At[q].doing = "waiting" /\ At[q].ep = e
  <2>1. state[q].tag = "RecvWait" /\ state[q].ep = e
    BY <1>1, QueuedState, StatesApart
  <2> QED
    BY <2>1, AtIs, DoingApart
<1>2. ASSUME NEW q \in Procs, At[q].doing = "waiting", At[q].ep = e
      PROVE  InQueue(q, receivers[e])
  <2>1. state[q].tag = "RecvWait"
    BY <1>2, AtIs, DoingApart
  <2>2. state[q].ep = e
    BY <1>2, <2>1, AtIs, DoingApart
  <2>3. state[q] = BlockedOn("RecvWait", e)
    BY <2>1, <2>2 DEF SchedTypeOK, States, BlockedOn
  <2> QED
    BY <2>3 DEF ReceiversAreQueued
<1>3. Abstract!AtEndpoint("waiting", e) = {q \in Procs : InQueue(q, receivers[e])}
  BY <1>1, <1>2 DEF Abstract!AtEndpoint
<1>4. receivers[e] \in Seq(Procs) /\ Distinct(receivers[e])
  BY DEF SchedTypeOK, QueuedAreBlocked, Distinct
<1> QED
  BY <1>3, <1>4, QueueCount

-----------------------------------------------------------------------------
(* Every step is a step of the rendezvous, or none.                         *)

(* The scheduler's choice moves no message: what the process finds in its   *)
(* buffer when it runs is what the abstract box already held.               *)
LEMMA RunAbstract ==
  ASSUME CoreInv, NEW p \in Procs, run(p)
  PROVE  At' = At /\ Box' = Box
<1> USE DEF CoreInv, RendezvousInv
<1>1. state[p] = Ready
  BY LowestIn DEF run, ReadyProcs
<1>2. /\ state'[p] = Running /\ msg_buf'[p] = NoBuf
      /\ \A q \in Procs \ {p} : /\ state'[q] = state[q] /\ msg_buf'[q] = msg_buf[q]
                                /\ mem'[q] = mem[q]
      /\ UNCHANGED <<senders, msg_regs>>
  BY DEF run, SchedTypeOK
<1>3. mem'[p] = IF msg_buf[p] = GoodBuf THEN msg_regs[p] ELSE mem[p]
  <2>1. msg_buf[p] = GoodBuf => pool[p] = "parked"
    BY DEF PoolMatches, GoodBuf, NoBuf
  <2> QED
    BY <2>1 DEF run, SchedTypeOK
<1>4. ASSUME NEW q \in Procs PROVE At'[q] = At[q]
  <2>1. CASE q = p
    BY <2>1, <1>1, <1>2, AtIdle
  <2>2. CASE q # p
    BY <2>2, <1>2, AtSame
  <2> QED
    BY <2>1, <2>2
<1>5. ASSUME NEW q \in Procs PROVE Box'[q] = Box[q]
  <2>1. CASE q = p
    BY <2>1, <1>1, <1>2, <1>3, BoxIs, StatesApart
  <2>2. CASE q # p
    BY <2>2, <1>2, BoxIs
  <2> QED
    BY <2>1, <2>2
<1> QED
  BY <1>4, <1>5, MapsAre

(* Neither does the end of a tenant, nor what it makes the registry do.     *)
LEMMA SettleAbstract ==
  ASSUME CoreInv, NEW p \in Procs, NEW ending \in Endings, settle(p, ending)
  PROVE  At' = At /\ Box' = Box
<1> USE DEF CoreInv, RendezvousInv
<1>1. UNCHANGED <<senders, msg_regs, msg_buf, mem>>
  BY DEF settle, ipcVars
<1>2. /\ state[p] = Running /\ state'[p] = Plain(ending)
      /\ \A q \in Procs \ {p} : \/ state[q].tag = "EventWait" /\ state'[q] = Ready
                                \/ state'[q] = state[q]
                                \/ state[q] = Free /\ state'[q] = Ready
  BY SettleStates
<1>3. ASSUME NEW q \in Procs
      PROVE  At'[q] = At[q] /\ Box'[q] = Box[q]
  <2>1. CASE q = p
    <3>1. state'[q].tag \in Endings /\ state[q] # Ready /\ state'[q] # Ready
      BY <1>2, <2>1, StatesApart DEF Endings
    <3> QED
      BY <1>1, <1>2, <2>1, <3>1, AtIdle, BoxIs
  <2>2. CASE state'[q] = state[q]
    BY <1>1, <2>2, AtSame, BoxIs
  <2>3. CASE state[q].tag = "EventWait" /\ state'[q] = Ready
    <3>1. msg_buf[q] = NoBuf /\ NoBuf # GoodBuf
      BY <2>3 DEF PoolMatches, NoBuf, GoodBuf
    <3> QED
      BY <1>1, <2>3, <3>1, AtIdle, BoxIs
  <2>4. CASE state[q] = Free /\ state'[q] = Ready
    <3>1. msg_buf[q] = NoBuf /\ NoBuf # GoodBuf
      BY <2>4 DEF PoolMatches, NoBuf, GoodBuf
    <3> QED
      BY <1>1, <2>4, <3>1, AtIdle, BoxIs
  <2> QED
    BY <1>2, <2>1, <2>2, <2>3, <2>4
<1> QED
  BY <1>3, MapsAre

(* Nor a guard's reading of the audit stream.                               *)
LEMMA EventReadAbstract ==
  ASSUME CoreInv, NEW p \in Procs, event_read(p)
  PROVE  At' = At /\ Box' = Box
<1> USE DEF CoreInv, RendezvousInv
<1>1. UNCHANGED <<senders, msg_regs, msg_buf, mem>> /\ state[p] = Running
  BY DEF event_read, ipcVars
<1>2. /\ state'[p] \in {Running, BlockedOn("EventWait", NoEndpoint)}
      /\ \A q \in Procs \ {p} : state'[q] = state[q]
  BY <1>1 DEF event_read, ReadRecord, block_on_event_ring, SchedTypeOK
<1>3. ASSUME NEW q \in Procs
      PROVE  At'[q] = At[q] /\ Box'[q] = Box[q]
  <2>1. CASE q = p
    <3>1. state[q] # Ready /\ state'[q] # Ready
      BY <1>1, <1>2, <2>1, StatesApart
    <3> QED
      BY <1>1, <1>2, <2>1, <3>1, AtIdle, BoxIs
  <2>2. CASE q # p
    BY <1>1, <1>2, <2>2, AtSame, BoxIs
  <2> QED
    BY <2>1, <2>2
<1> QED
  BY <1>3, MapsAre

(* A send or call that meets a receiver delivers to it.                     *)
LEMMA SendToReceiverAbstract ==
  ASSUME CoreInv, WaitInv, NEW p \in Procs, NEW e \in Endpoints, NEW call \in BOOLEAN,
         do_send_like(p, e, call), SendToReceiver(p, e, call)
  PROVE  \E r \in Procs : Abstract!Deliver(p, e, call, NextMsg(p), r)
<1> USE DEF CoreInv, RendezvousInv
<1> DEFINE m == NextMsg(p)
<1>1. /\ state[p] = Running /\ mem' = [mem EXCEPT ![p] = m]
      /\ msg_regs' = [msg_regs EXCEPT ![p] = m, ![Head(receivers[e])] = m]
      /\ senders' = senders
  BY DEF do_send_like, SendToReceiver
<1> HIDE DEF m
<1>2. PICK rx \in Procs : /\ rx = Head(receivers[e]) /\ InQueue(rx, receivers[e])
                          /\ state[rx] = BlockedOn("RecvWait", e)
  BY QueuePop, QueuedState DEF SendToReceiver, SchedTypeOK
<1>3. Woken(rx) = [state EXCEPT ![rx] = Ready] /\ rx # p
  <2>1. Blocked(rx) /\ rx # p
    BY <1>1, <1>2, StatesApart DEF Blocked, BlockReasons
  <2> QED
    BY <2>1 DEF Woken
<1>4. IF call THEN /\ state' = [[state EXCEPT ![rx] = Ready] EXCEPT ![p] = BlockedOn("ReplyWait", e)]
                   /\ msg_buf' = [msg_buf EXCEPT ![p] = GoodBuf]
              ELSE state' = [state EXCEPT ![rx] = Ready] /\ UNCHANGED msg_buf
  BY <1>2, <1>3 DEF SendToReceiver, block_and_yield
<1>5. /\ \A q \in Procs \ {p, rx} : state'[q] = state[q] /\ msg_buf'[q] = msg_buf[q]
      /\ state'[rx] = Ready /\ msg_buf'[rx] = msg_buf[rx]
      /\ state'[p] = IF call THEN BlockedOn("ReplyWait", e) ELSE Running
  <2>1. CASE call
    BY <1>1, <1>3, <1>4, <2>1 DEF SchedTypeOK
  <2>2. CASE ~ call
    BY <1>1, <1>3, <1>4, <2>2 DEF SchedTypeOK
  <2> QED
    BY <2>1, <2>2
<1>6. At[p] = Abstract!Idle /\ rx \in Abstract!AtEndpoint("waiting", e)
  BY <1>1, <1>2, AtIdle, WaitingIs
<1>7. At' = [At EXCEPT ![rx] = Abstract!Idle,
                       ![p] = IF call THEN Abstract!Owed(e) ELSE Abstract!Idle]
  <2>1. At'[rx] = Abstract!Idle
    BY <1>5, AtIdle
  <2>2. At'[p] = IF call THEN Abstract!Owed(e) ELSE Abstract!Idle
    <3>1. CASE call
      BY <3>1, <1>5, AtIsNext, StatesApart
    <3>2. CASE ~ call
      BY <3>2, <1>5, AtIdle
    <3> QED
      BY <3>1, <3>2
  <2>3. \A q \in Procs \ {p, rx} : At'[q] = At[q]
    BY <1>1, <1>5, AtSame
  <2> QED
    BY <2>1, <2>2, <2>3, <1>3, MapsAre
<1>8. ASSUME NEW q \in Procs
      PROVE  Box'[q] = IF q = p \/ (q = rx /\ ~ At[rx].deaf) THEN m ELSE Box[q]
  <2>1. CASE q = p
    <3>1. state'[p] # Ready /\ mem'[p] = m
      BY <1>1, <1>5, StatesApart DEF SchedTypeOK
    <3> QED
      BY <2>1, <3>1, BoxIs
  <2>2. CASE q = rx
    <3>1. At[rx].deaf = (msg_buf[rx] = BadBuf)
      BY <1>2, AtIs, DoingApart, StatesApart
    <3>2. msg_buf[rx] \in {GoodBuf, BadBuf} /\ GoodBuf # BadBuf
      BY <1>2, StatesApart DEF WaitInv, WaitsWell, GoodBuf, BadBuf
    <3>3. state[rx] # Ready /\ msg_regs'[rx] = m /\ mem'[rx] = mem[rx]
      BY <1>1, <1>2, <1>3, StatesApart DEF SchedTypeOK
    <3> QED
      BY <2>2, <1>3, <1>5, <3>1, <3>2, <3>3, BoxIs
  <2>3. CASE q # p /\ q # rx
    <3>1. msg_regs'[q] = msg_regs[q] /\ mem'[q] = mem[q]
      BY <1>1, <1>2, <2>3 DEF SchedTypeOK
    <3> QED
      BY <2>3, <1>5, <3>1, BoxIs
  <2> QED
    BY <2>1, <2>2, <2>3
<1>9. Box' = [q \in Procs |-> IF q = p \/ (q = rx /\ ~ At[rx].deaf) THEN m ELSE Box[q]]
  BY <1>8, MapsAre
<1>10. Abstract!Deliver(p, e, call, m, rx)
  BY <1>6, <1>7, <1>9 DEF Abstract!Deliver
<1> QED
  BY <1>10 DEF m

(* One that meets nobody offers its message, or is refused.                 *)
LEMMA SendQueuedAbstract ==
  ASSUME CoreInv, WaitInv, NEW p \in Procs, NEW e \in Endpoints, NEW call \in BOOLEAN,
         do_send_like(p, e, call), SendQueued(p, e, call)
  PROVE  Abstract!Offer(p, e, call, NextMsg(p)) \/ Abstract!Refuse(p, e, NextMsg(p))
<1> USE DEF CoreInv, RendezvousInv
<1> DEFINE m == NextMsg(p)
<1>1. /\ state[p] = Running /\ mem' = [mem EXCEPT ![p] = m]
      /\ msg_regs' = [msg_regs EXCEPT ![p] = m] /\ receivers[e] = <<>>
  BY DEF do_send_like, SendQueued
<1> HIDE DEF m
<1>2. At[p] = Abstract!Idle
  BY <1>1, AtIdle
<1>3. Box' = [Box EXCEPT ![p] = m]
  <2>1. \A q \in Procs \ {p} : /\ state'[q] = state[q] /\ msg_buf'[q] = msg_buf[q]
                               /\ mem'[q] = mem[q] /\ msg_regs'[q] = msg_regs[q]
    BY <1>1 DEF SendQueued, block_and_yield, SchedTypeOK
  <2>2. state'[p] # Ready /\ mem'[p] = m
    BY <1>1, StatesApart DEF SendQueued, block_and_yield, SchedTypeOK
  <2>3. \A q \in Procs : Box'[q] = IF q = p THEN m ELSE Box[q]
    BY <2>1, <2>2, BoxIs
  <2> QED
    BY <2>3, MapsAre
<1>4. CASE Len(senders[e]) < QueueCap
  <2> DEFINE waits == IF call THEN "CallWait" ELSE "SendWait"
  <2>1. /\ senders'[e] = Append(senders[e], p)
        /\ \A f \in Endpoints \ {e} : senders'[f] = senders[f]
    BY <1>4 DEF SendQueued, SchedTypeOK
  <2>2. /\ state'[p] = BlockedOn(waits, e) /\ waits \in SendTags
        /\ waits = "CallWait" <=> call
        /\ \A q \in Procs \ {p} : state'[q] = state[q] /\ msg_buf'[q] = msg_buf[q]
    BY <1>4 DEF SendQueued, block_and_yield, SchedTypeOK, SendTags
  <2> HIDE DEF waits
  <2>3. At'[p] = Abstract!Offering(e, call)
    <3>1. InQueue(p, senders'[e])
      BY <2>1, QueuePush DEF SchedTypeOK
    <3> QED
      BY <2>2, <3>1, AtIsNext, StatesApart
  <2>4. ASSUME NEW q \in Procs \ {p} PROVE At'[q] = At[q]
    <3>1. \A r : InQueue(r, Append(senders[e], p)) <=> InQueue(r, senders[e]) \/ r = p
      BY QueuePush DEF SchedTypeOK
    <3>2. CASE state[q].tag \in SendTags
      <4>1. state[q].ep \in Endpoints
        BY <3>2 DEF WaitInv, WaitsWell
      <4> QED
        BY <2>1, <2>2, <3>1, <4>1, AtSame
    <3>3. CASE state[q].tag \notin SendTags
      BY <2>2, <3>3, AtSame
    <3> QED
      BY <3>2, <3>3
  <2>5. At' = [At EXCEPT ![p] = Abstract!Offering(e, call)]
    BY <2>3, <2>4, MapsAre
  <2>6. Abstract!AtEndpoint("waiting", e) = {}
    BY <1>1, WaitingIs, EmptySeq DEF InQueue
  <2>7. Abstract!Cardinality(Abstract!AtEndpoint("offering", e)) < QueueCap
    BY <1>4, OfferingIs, CountsAlike
  <2>8. Abstract!Offer(p, e, call, m)
    BY <1>2, <1>3, <2>5, <2>6, <2>7 DEF Abstract!Offer
  <2> QED
    BY <2>8 DEF m
<1>5. CASE ~ (Len(senders[e]) < QueueCap)
  <2>1. Len(senders[e]) = QueueCap
    BY <1>5, LenProperties, SchedAssumption DEF SchedTypeOK
  <2>2. UNCHANGED <<state, senders, msg_buf>>
    BY <1>5 DEF SendQueued
  <2>3. At' = At
    BY <2>2, AtSame, MapsAre
  <2>4. Abstract!Cardinality(Abstract!AtEndpoint("offering", e)) = QueueCap
    BY <2>1, OfferingIs, CountsAlike
  <2>5. Abstract!Refuse(p, e, m)
    BY <1>2, <1>3, <2>3, <2>4 DEF Abstract!Refuse
  <2> QED
    BY <2>5 DEF m
<1> QED
  BY <1>4, <1>5

(* What a pop of a queue of senders changes of what the others are doing:   *)
(* nothing.                                                                 *)
LEMMA PopAtSame ==
  ASSUME CoreInv, WaitInv, NEW e \in Endpoints, senders[e] # <<>>,
         senders' = [senders EXCEPT ![e] = Tail(@)],
         NEW q \in Procs, q # Head(senders[e]),
         state'[q] = state[q], msg_buf'[q] = msg_buf[q]
  PROVE  At'[q] = At[q]
<1> USE DEF CoreInv, RendezvousInv
<1>1. InQueue(q, Tail(senders[e])) <=> InQueue(q, senders[e])
  <2>1. InQueue(q, senders[e]) => InQueue(q, Tail(senders[e]))
    BY QueuePop DEF SchedTypeOK
  <2>2. InQueue(q, Tail(senders[e])) => InQueue(q, senders[e])
    BY QueuePop DEF SchedTypeOK, InQueue
  <2> QED
    BY <2>1, <2>2
<1>2. CASE state[q].tag \in SendTags
  <2>1. state[q].ep \in Endpoints
    BY <1>2 DEF WaitInv, WaitsWell
  <2>2. InQueue(q, senders'[state[q].ep]) <=> InQueue(q, senders[state[q].ep])
    BY <1>1, <2>1 DEF SchedTypeOK
  <2> QED
    BY <2>2, AtSame
<1>3. CASE state[q].tag \notin SendTags
  BY <1>3, AtSame
<1> QED
  BY <1>2, <1>3

(* A receive that meets a sender takes its offer.                           *)
LEMMA RecvFromSenderAbstract ==
  ASSUME CoreInv, WaitInv, NEW p \in Procs, NEW e \in Endpoints, NEW buf,
         ipc_recv(p, e, buf), RecvFromSender(p, e)
  PROVE  \E s \in Procs : Abstract!Take(p, e, s)
<1> USE DEF CoreInv, RendezvousInv
<1>1. PICK tx \in Procs : /\ tx = Head(senders[e]) /\ InQueue(tx, senders[e])
                          /\ state[tx] \in {BlockedOn("SendWait", e), BlockedOn("CallWait", e)}
  BY QueuePop, QueuedState DEF RecvFromSender, SchedTypeOK
<1>2. /\ state[p] = Running /\ tx # p /\ senders[e] # <<>>
      /\ senders' = [senders EXCEPT ![e] = Tail(@)]
      /\ mem' = [mem EXCEPT ![p] = msg_regs[tx]]
      /\ UNCHANGED <<msg_buf, msg_regs>>
  BY <1>1, StatesApart DEF ipc_recv, RecvFromSender
<1>3. /\ state[tx].tag \in SendTags /\ state[tx].ep = e /\ state[tx] # Ready
      /\ Woken(tx) = [state EXCEPT ![tx] = Ready]
  <2>1. Blocked(tx)
    BY <1>1, StatesApart DEF Blocked, BlockReasons
  <2> QED
    BY <1>1, <2>1, StatesApart DEF SendTags, Woken
<1>4. /\ state'[tx] = IF state[tx].tag = "CallWait" THEN BlockedOn("ReplyWait", e) ELSE Ready
      /\ \A q \in Procs \ {tx} : state'[q] = state[q]
  BY <1>1, <1>3 DEF RecvFromSender, SchedTypeOK
<1>5. /\ At[p] = Abstract!Idle /\ tx \in Abstract!AtEndpoint("offering", e)
      /\ At[tx].call = (state[tx].tag = "CallWait")
  <2>1. At[p] = Abstract!Idle
    BY <1>2, AtIdle, StatesApart
  <2>2. tx \in Abstract!AtEndpoint("offering", e)
    BY <1>1, <1>3, OfferingIs
  <2>3. At[tx].call = (state[tx].tag = "CallWait")
    BY <1>1, <1>3, AtIs, DoingApart
  <2> QED
    BY <2>1, <2>2, <2>3
<1>6. At' = [At EXCEPT ![tx] = IF At[tx].call THEN Abstract!Owed(e) ELSE Abstract!Idle]
  <2>1. At'[tx] = IF At[tx].call THEN Abstract!Owed(e) ELSE Abstract!Idle
    <3>1. CASE state[tx].tag = "CallWait"
      <4>1. state'[tx].tag = "ReplyWait" /\ state'[tx].ep = e
        BY <3>1, <1>4, StatesApart
      <4>2. At'[tx] = Abstract!Owed(e)
        BY <4>1, AtIsNext
      <4> QED
        BY <3>1, <4>2, <1>5
    <3>2. CASE state[tx].tag # "CallWait"
      BY <3>2, <1>4, <1>5, AtIdle
    <3> QED
      BY <3>1, <3>2
  <2>2. \A q \in Procs \ {tx} : At'[q] = At[q]
    BY <1>1, <1>2, <1>4, PopAtSame
  <2> QED
    BY <2>1, <2>2, MapsAre
<1>7. mem[tx] = msg_regs[tx] /\ Box[tx] = mem[tx]
  BY <1>3, BoxIs DEF WaitInv, WaitsWell
<1>8. ASSUME NEW q \in Procs
      PROVE  Box'[q] = IF q = p THEN Box[tx] ELSE Box[q]
  <2>1. CASE q = p
    <3>1. state'[p] # Ready /\ mem'[p] = msg_regs[tx]
      BY <1>2, <1>4, StatesApart DEF SchedTypeOK
    <3> QED
      BY <2>1, <3>1, <1>7, BoxIs
  <2>2. CASE q = tx
    <3>1. mem'[tx] = mem[tx] /\ msg_regs'[tx] = msg_regs[tx]
      BY <1>2 DEF SchedTypeOK
    <3>2. Box'[tx] \in {mem'[tx], msg_regs'[tx]}
      BY BoxIs
    <3> QED
      BY <1>2, <2>2, <3>1, <3>2, <1>7
  <2>3. CASE q # p /\ q # tx
    <3>1. mem'[q] = mem[q]
      BY <1>2, <2>3 DEF SchedTypeOK
    <3> QED
      BY <1>2, <1>4, <2>3, <3>1, BoxIs
  <2> QED
    BY <2>1, <2>2, <2>3
<1>9. Box' = [Box EXCEPT ![p] = Box[tx]]
  BY <1>8, MapsAre
<1> QED
  BY <1>5, <1>6, <1>9 DEF Abstract!Take

(* One that cannot write drops the offer, and strands who made it.          *)
LEMMA RecvUnwritableAbstract ==
  ASSUME CoreInv, WaitInv, NEW p \in Procs, NEW e \in Endpoints, NEW buf,
         ipc_recv(p, e, buf), RecvUnwritable(p, e)
  PROVE  \E s \in Procs : Abstract!Drop(p, e, s)
<1> USE DEF CoreInv, RendezvousInv
<1>1. PICK tx \in Procs : /\ tx = Head(senders[e]) /\ InQueue(tx, senders[e])
                          /\ ~ InQueue(tx, Tail(senders[e]))
                          /\ state[tx] \in {BlockedOn("SendWait", e), BlockedOn("CallWait", e)}
  BY QueuePop, QueuedState DEF RecvUnwritable, SchedTypeOK
<1>2. /\ state[p] = Running /\ senders[e] # <<>>
      /\ senders' = [senders EXCEPT ![e] = Tail(@)]
      /\ UNCHANGED <<state, msg_buf, msg_regs, mem>>
  BY DEF ipc_recv, RecvUnwritable
<1>3. state[tx].tag \in SendTags /\ state[tx].ep = e
  BY <1>1, StatesApart DEF SendTags
<1>4. At[p] = Abstract!Idle /\ tx \in Abstract!AtEndpoint("offering", e)
  <2>1. At[p] = Abstract!Idle
    BY <1>2, AtIdle, StatesApart
  <2>2. tx \in Abstract!AtEndpoint("offering", e)
    BY <1>1, <1>3, OfferingIs
  <2> QED
    BY <2>1, <2>2
<1>5. At' = [At EXCEPT ![tx] = Abstract!Stranded]
  <2>1. At'[tx] = Abstract!Stranded
    <3>1. senders'[e] = Tail(senders[e]) /\ state' = state
      BY <1>2 DEF SchedTypeOK
    <3> QED
      BY <1>1, <1>3, <3>1, AtIsNext
  <2>2. \A q \in Procs \ {tx} : At'[q] = At[q]
    BY <1>1, <1>2, PopAtSame
  <2> QED
    BY <2>1, <2>2, MapsAre
<1>6. Box' = Box
  BY <1>2, BoxIs, MapsAre
<1> QED
  BY <1>4, <1>5, <1>6 DEF Abstract!Drop

(* A receive that meets nobody waits.                                       *)
LEMMA RecvQueuedAbstract ==
  ASSUME CoreInv, NEW p \in Procs, NEW e \in Endpoints, NEW buf \in {GoodBuf, BadBuf},
         ipc_recv(p, e, buf), RecvQueued(p, e, buf)
  PROVE  Abstract!Wait(p, e, buf = BadBuf)
<1> USE DEF CoreInv, RendezvousInv
<1>1. /\ state[p] = Running /\ senders[e] = <<>> /\ Len(receivers[e]) < QueueCap
      /\ UNCHANGED <<senders, msg_regs, mem>>
      /\ state' = [state EXCEPT ![p] = BlockedOn("RecvWait", e)]
      /\ msg_buf' = [msg_buf EXCEPT ![p] = buf]
  BY DEF ipc_recv, RecvQueued, block_and_yield
<1>2. /\ state'[p] = BlockedOn("RecvWait", e) /\ msg_buf'[p] = buf
      /\ \A q \in Procs \ {p} : state'[q] = state[q] /\ msg_buf'[q] = msg_buf[q]
  BY <1>1 DEF SchedTypeOK
<1>3. At[p] = Abstract!Idle /\ Abstract!AtEndpoint("offering", e) = {}
  BY <1>1, AtIdle, OfferingIs, EmptySeq DEF InQueue
<1>4. Abstract!Cardinality(Abstract!AtEndpoint("waiting", e)) < QueueCap
  BY <1>1, WaitingIs, CountsAlike
<1>5. At' = [At EXCEPT ![p] = Abstract!Waiting(e, buf = BadBuf)]
  <2>1. At'[p] = Abstract!Waiting(e, buf = BadBuf)
    BY <1>2, AtIsNext, StatesApart
  <2>2. \A q \in Procs \ {p} : At'[q] = At[q]
    BY <1>1, <1>2, AtSame
  <2> QED
    BY <2>1, <2>2, MapsAre
<1>6. ASSUME NEW q \in Procs PROVE Box'[q] = Box[q]
  <2>1. CASE q = p
    <3>1. state[p] # Ready /\ state'[p] # Ready
      BY <1>1, <1>2, StatesApart
    <3> QED
      BY <1>1, <2>1, <3>1, BoxIs
  <2>2. CASE q # p
    BY <1>1, <1>2, <2>2, BoxIs
  <2> QED
    BY <2>1, <2>2
<1> QED
  BY <1>3, <1>4, <1>5, <1>6, MapsAre DEF Abstract!Wait

(* A reply answers a process that is owed one.                              *)
LEMMA ReplyAbstract ==
  ASSUME CoreInv, WaitInv, NEW p \in Procs, NEW e \in Endpoints, ipc_reply(p, e)
  PROVE  \E c \in Procs : Abstract!Answer(p, e, NextMsg(p), c)
<1> USE DEF CoreInv, RendezvousInv
<1> DEFINE m == NextMsg(p)
<1>1. PICK c \in Procs : c = Lowest(ReplyWaiters(e)) /\ state[c] = BlockedOn("ReplyWait", e)
  BY LowestIn DEF ipc_reply, ReplyWaiters
<1>2. /\ state[p] = Running /\ mem' = [mem EXCEPT ![p] = m]
      /\ msg_regs' = [msg_regs EXCEPT ![c] = m] /\ state' = Woken(c)
      /\ UNCHANGED <<senders, msg_buf>>
  BY <1>1 DEF ipc_reply
<1> HIDE DEF m
<1>3. Woken(c) = [state EXCEPT ![c] = Ready] /\ c # p
  <2>1. Blocked(c) /\ c # p
    BY <1>1, <1>2, StatesApart DEF Blocked, BlockReasons
  <2> QED
    BY <2>1 DEF Woken
<1>4. state'[c] = Ready /\ \A q \in Procs \ {c} : state'[q] = state[q]
  BY <1>2, <1>3 DEF SchedTypeOK
<1>5. At[p] = Abstract!Idle /\ c \in Abstract!AtEndpoint("owed", e)
  <2>1. At[c] = Abstract!Owed(e)
    BY <1>1, AtIs, StatesApart
  <2> QED
    BY <1>2, <2>1, AtIdle, DoingApart DEF Abstract!AtEndpoint
<1>6. At' = [At EXCEPT ![c] = Abstract!Idle]
  <2>1. At'[c] = Abstract!Idle
    BY <1>4, AtIdle
  <2>2. \A q \in Procs \ {c} : At'[q] = At[q]
    BY <1>2, <1>4, AtSame
  <2> QED
    BY <2>1, <2>2, MapsAre
<1>7. ASSUME NEW q \in Procs
      PROVE  Box'[q] = IF q = p \/ q = c THEN m ELSE Box[q]
  <2>1. CASE q = p
    <3>1. state'[p] # Ready /\ mem'[p] = m
      BY <1>2, <1>3, <1>4, StatesApart DEF SchedTypeOK
    <3> QED
      BY <2>1, <3>1, BoxIs
  <2>2. CASE q = c
    <3>1. msg_buf[c] = GoodBuf
      BY <1>1, StatesApart DEF WaitInv, WaitsWell
    <3>2. msg_buf'[c] = GoodBuf /\ msg_regs'[c] = m
      BY <1>2, <3>1 DEF SchedTypeOK
    <3> QED
      BY <1>4, <2>2, <3>2, BoxIs
  <2>3. CASE q # p /\ q # c
    <3>1. mem'[q] = mem[q] /\ msg_regs'[q] = msg_regs[q]
      BY <1>2, <2>3 DEF SchedTypeOK
    <3> QED
      BY <1>2, <1>4, <2>3, <3>1, BoxIs
  <2> QED
    BY <2>1, <2>2, <2>3
<1>8. Box' = [Box EXCEPT ![p] = m, ![c] = m]
  BY <1>7, MapsAre
<1>9. Abstract!Answer(p, e, m, c)
  BY <1>5, <1>6, <1>8 DEF Abstract!Answer
<1> QED
  BY <1>9 DEF m

(* Boot is idle, and every step is one of the rendezvous, or none.           *)
LEMMA InitAbstract == Init => Abstract!RInit
<1> SUFFICES ASSUME Init PROVE Abstract!RInit
  OBVIOUS
<1>1. \A p \in Procs : At[p] = Abstract!Idle
  BY AtIdle DEF Init
<1>2. \A p \in Procs : Box[p] = NoMsg
  BY BoxIs DEF Init, NoBuf, GoodBuf
<1> QED
  BY <1>1, <1>2, MapsAre DEF Abstract!RInit

(* The messages a process composes are messages of the abstract.            *)
LEMMA NextMsgType ==
  ASSUME SchedTypeOK, NEW p \in Procs, Compose(p)
  PROVE  NextMsg(p) \in Msgs
  BY SchedAssumption DEF SchedTypeOK, Compose, NextMsg, Msgs

LEMMA StepAbstract ==
  CoreInv /\ WaitInv /\ [Next]_vars => [Abstract!RNext]_<<At, Box>>
<1> SUFFICES ASSUME CoreInv, WaitInv, [Next]_vars
             PROVE  Abstract!RNext \/ (At' = At /\ Box' = Box)
  OBVIOUS
<1>1. ASSUME NEW p \in Procs, run(p) \/ event_read(p)
      PROVE  At' = At /\ Box' = Box
  BY <1>1, RunAbstract, EventReadAbstract
<1>2. ASSUME NEW p \in Procs, NEW ending \in Endings, settle(p, ending)
      PROVE  At' = At /\ Box' = Box
  BY <1>2, SettleAbstract
<1>3. ASSUME NEW p \in Procs, NEW e \in Endpoints, NEW call \in BOOLEAN,
             do_send_like(p, e, call)
      PROVE  Abstract!RNext
  <2>1. NextMsg(p) \in Msgs
    BY <1>3, NextMsgType DEF do_send_like, CoreInv, RendezvousInv
  <2>2. CASE SendToReceiver(p, e, call)
    BY <1>3, <2>1, <2>2, SendToReceiverAbstract DEF Abstract!RNext
  <2>3. CASE SendQueued(p, e, call)
    BY <1>3, <2>1, <2>3, SendQueuedAbstract DEF Abstract!RNext
  <2> QED
    BY <1>3, <2>2, <2>3 DEF do_send_like
<1>4. ASSUME NEW p \in Procs, NEW e \in Endpoints, NEW buf \in {GoodBuf, BadBuf},
             ipc_recv(p, e, buf)
      PROVE  Abstract!RNext
  <2>1. CASE RecvFromSender(p, e)
    BY <1>4, <2>1, RecvFromSenderAbstract DEF Abstract!RNext
  <2>2. CASE RecvUnwritable(p, e)
    BY <1>4, <2>2, RecvUnwritableAbstract DEF Abstract!RNext
  <2>3. CASE RecvQueued(p, e, buf)
    <3>1. PICK deaf \in BOOLEAN : deaf = (buf = BadBuf)
      OBVIOUS
    <3>2. Abstract!Wait(p, e, deaf)
      BY <1>4, <2>3, <3>1, RecvQueuedAbstract
    <3> QED
      BY <3>2 DEF Abstract!RNext
  <2> QED
    BY <1>4, <2>1, <2>2, <2>3 DEF ipc_recv
<1>5. ASSUME NEW p \in Procs, NEW e \in Endpoints, ipc_reply(p, e)
      PROVE  Abstract!RNext
  <2>1. NextMsg(p) \in Msgs
    BY <1>5, NextMsgType DEF ipc_reply, CoreInv, RendezvousInv
  <2> QED
    BY <1>5, <2>1, ReplyAbstract DEF Abstract!RNext
<1>6. CASE UNCHANGED vars
  BY <1>6, AtSame, BoxIs, MapsAre DEF vars, ipcVars
<1> QED
  BY <1>1, <1>2, <1>3, <1>4, <1>5, <1>6 DEF Next, ipc_send, ipc_call

(* The scheduler, the queues and the registers implement the rendezvous: a  *)
(* message moves only when one sender and one receiver meet, a meeting      *)
(* takes exactly one offer away, and nobody is left offering where somebody *)
(* waits.                                                                   *)
THEOREM RendezvousImplemented == Spec => ImplementsRendezvous
<1>1. Init => CoreInv /\ WaitInv
  BY InitCore, InitWait
<1>2. CoreInv /\ WaitInv /\ [Next]_vars => (CoreInv /\ WaitInv)'
  BY CoreStep, WaitStep
<1> QED
  BY <1>1, <1>2, InitAbstract, StepAbstract, PTL
  DEF Spec, ImplementsRendezvous, Abstract!RSpec, Abstract!absvars

=============================================================================
