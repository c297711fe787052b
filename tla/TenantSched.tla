----------------------------- MODULE TenantSched -----------------------------
(* The tenants' life on the single hart: the scheduler's loop, synchronous   *)
(* IPC over endpoints, the audit stream guards block on, and the daemons the *)
(* registry restarts.  There is no preemption: a tenant runs host functions  *)
(* one after the other until one of them suspends it or it ends, so a host   *)
(* function is one step.  What concurrency there is comes from the order in  *)
(* which tenants block, are woken and run again.                             *)
EXTENDS EventRing, FiniteSets, Sequences

CONSTANTS
  Procs,             (* Process ids, in the order the scheduler scans them.  *)
  BootProcs,         (* Tenants registered at boot.                          *)
  DynProcs,          (* Process ids the registry may still hand out.         *)
  Endpoints,         (* Allocated endpoints.                                 *)
  CanWrite, CanRead, (* <<process, endpoint>>: a cap with that right.        *)
  QueueCap,          (* Places in an endpoint's queue: 8 in the kernel.      *)
  Modules,           (* Live slots of the module registry.                   *)
  ModuleProc,        (* The process each module was spawned as.              *)
  Budget,            (* How often each is restarted: 0 for a plain tenant.   *)
  GuardModules,      (* Modules granted the audit stream.                    *)
  BootEvents,        (* Records emitted before the scheduler starts.         *)
  MsgMax,            (* Bound: messages each process composes.               *)
  NoProc, NoEndpoint, NoMsg

ASSUME SchedAssumption ==
  /\ Procs \subseteq Nat /\ IsFiniteSet(Procs)
  /\ BootProcs \subseteq Procs /\ DynProcs \subseteq Procs \ BootProcs
  /\ CanWrite \subseteq Procs \X Endpoints /\ CanRead \subseteq Procs \X Endpoints
  /\ ModuleProc \in [Modules -> BootProcs] /\ Budget \in [Modules -> Nat]
  /\ \A d1, d2 \in Modules : ModuleProc[d1] = ModuleProc[d2] => d1 = d2
  /\ GuardModules \subseteq Modules
  /\ QueueCap \in Nat \ {0} /\ MsgMax \in Nat /\ BootEvents \in Nat
  /\ NoProc \notin Procs /\ NoEndpoint \notin Endpoints

(* A message is known by who composed it and which of its messages it is.    *)
Msgs == Procs \X (1 .. MsgMax)

ASSUME MessageAssumption == NoMsg \notin Msgs

BlockReasons == {"SendWait", "RecvWait", "ReplyWait", "CallWait", "EventWait"}
Endings == {"Exited", "Faulted"}

(* A process state: a tag and, for a blocked process, what it waits on.      *)
Plain(tag) == [tag |-> tag, ep |-> NoEndpoint]
BlockedOn(reason, e) == [tag |-> reason, ep |-> e]

Free == Plain("Free")
Ready == Plain("Ready")
Running == Plain("Running")

(* The buffer a blocked process wants a message in: none, one in its memory, *)
(* or an offset outside it.                                                  *)
NoBuf == "none"
GoodBuf == "good"
BadBuf == "bad"

VARIABLES
  state,         (* The scheduler state of each process.                     *)
  senders,       (* Each endpoint's queue of senders,                        *)
  receivers,     (* and of receivers.                                        *)
  msg_regs,      (* The kernel's copy of each process's message.             *)
  msg_buf,       (* Where the message goes when the process resumes.         *)
  mem,           (* The contents of that buffer in the tenant's memory.      *)
  pool,          (* Its instance: none, entered, or a parked invocation.     *)
  composed,      (* How many messages each process has composed.             *)
  next_seq,      (* The writer's next sequence number,                       *)
  ring,          (* the records in the ring,                                 *)
  ring_waiters,  (* and the processes blocked on the stream.                 *)
  cursor,        (* Each process's own position in the stream.               *)
  slots          (* The registry's record of each live module.               *)

ipcVars == <<senders, receivers, msg_regs, msg_buf, mem, composed>>
eventVars == <<next_seq, ring, ring_waiters, cursor, slots>>
vars == <<state, pool, ipcVars, eventVars>>

Blocked(p) == state[p].tag \in BlockReasons

----------------------------------------------------------------------------
(* The audit stream.                                                         *)

Record(seq, kind, a) == [seq |-> seq, kind |-> kind, a |-> a]
NoRecord == Record(0, "Empty", NoProc)

(* The ring after one more record.                                           *)
Emitted(r, seq, kind, a) == [r EXCEPT ![SlotOf(seq)] = Record(seq, kind, a)]

(* An emit drains the set of waiters and wakes each that is blocked.         *)
WakeRingWaiters_first ==
  [q \in Procs |-> IF q \in ring_waiters /\ \A r \in ring_waiters : q <= r
                     THEN Ready ELSE state[q]]

WakeRingWaiters ==
  [q \in Procs |-> IF q \in ring_waiters /\ Blocked(q) THEN Ready ELSE state[q]]

(* A guard reads the record at its cursor, or the oldest one left, and moves *)
(* past it; when there is nothing new it registers and blocks.               *)
CanObserve(p) == \E d \in GuardModules : slots[d].proc_id = p

ReadRecord_next(p) ==
  /\ ~UpToDate(cursor[p], next_seq)
  /\ cursor' = [cursor EXCEPT ![p] = @ + 1]
  /\ UNCHANGED <<state, pool, ring_waiters>>

ReadRecord(p) ==
  /\ ~UpToDate(cursor[p], next_seq)
  /\ LET e == ring[SlotOf(ReadSeq(cursor[p], next_seq))] IN
       cursor' = [cursor EXCEPT ![p] = e.seq + 1]
  /\ UNCHANGED <<state, pool, ring_waiters>>

block_on_event_ring(p) ==
  /\ UpToDate(cursor[p], next_seq)
  /\ ring_waiters' = ring_waiters \cup {p}
  /\ state' = [state EXCEPT ![p] = BlockedOn("EventWait", NoEndpoint)]
  /\ pool' = [pool EXCEPT ![p] = "parked"]
  /\ UNCHANGED cursor

event_read(p) ==
  /\ state[p] = Running
  /\ CanObserve(p)
  /\ ReadRecord(p) \/ block_on_event_ring(p)
  /\ UNCHANGED <<ipcVars, next_seq, ring, slots>>

----------------------------------------------------------------------------
(* Synchronous IPC.                                                          *)

(* The next message of a process, put into its buffer for the call.          *)
NextMsg(p) == <<p, composed[p] + 1>>

Compose(p) ==
  /\ composed[p] < MsgMax
  /\ composed' = [composed EXCEPT ![p] = @ + 1]

(* The caller blocks on the endpoint, and its invocation is parked.          *)
block_and_yield(st, p, reason, e, buf) ==
  /\ state' = [st EXCEPT ![p] = BlockedOn(reason, e)]
  /\ msg_buf' = [msg_buf EXCEPT ![p] = buf]
  /\ pool' = [pool EXCEPT ![p] = "parked"]

(* The process states after the peer was woken, if it was blocked.           *)
Woken(peer) == [state EXCEPT ![peer] = IF Blocked(peer) THEN Ready ELSE @]

(* A receiver waits: it gets the message in its registers and wakes.  After  *)
(* a send the caller goes on, after a call it waits for the reply.           *)
SendToReceiver(p, e, call) ==
  LET rx == Head(receivers[e]) IN
  /\ receivers[e] # <<>>
  /\ receivers' = [receivers EXCEPT ![e] = Tail(@)]
  /\ msg_regs' = [msg_regs EXCEPT ![p] = NextMsg(p), ![rx] = NextMsg(p)]
  /\ IF call THEN block_and_yield(Woken(rx), p, "ReplyWait", e, GoodBuf)
             ELSE state' = Woken(rx) /\ UNCHANGED <<msg_buf, pool>>
  /\ UNCHANGED senders

(* Nobody waits: the caller queues and blocks, or is told to try again when  *)
(* the queue is full.  Its message stays in its registers either way.        *)
SendQueued_unstashed(p, e, call) ==
  /\ receivers[e] = <<>>
  /\ IF Len(senders[e]) < QueueCap
       THEN /\ senders' = [senders EXCEPT ![e] = Append(@, p)]
            /\ block_and_yield(state, p, IF call THEN "CallWait" ELSE "SendWait",
                               e, GoodBuf)
       ELSE UNCHANGED <<senders, state, msg_buf, pool>>
  /\ UNCHANGED <<receivers, msg_regs>>

SendQueued(p, e, call) ==
  /\ receivers[e] = <<>>
  /\ msg_regs' = [msg_regs EXCEPT ![p] = NextMsg(p)]
  /\ IF Len(senders[e]) < QueueCap
       THEN /\ senders' = [senders EXCEPT ![e] = Append(@, p)]
            /\ block_and_yield(state, p, IF call THEN "CallWait" ELSE "SendWait",
                               e, GoodBuf)
       ELSE UNCHANGED <<senders, state, msg_buf, pool>>
  /\ UNCHANGED receivers

do_send_like(p, e, call) ==
  /\ state[p] = Running
  /\ <<p, e>> \in CanWrite
  /\ Compose(p)
  /\ mem' = [mem EXCEPT ![p] = NextMsg(p)]
  /\ SendToReceiver(p, e, call) \/ SendQueued(p, e, call)
  /\ UNCHANGED eventVars

ipc_send(p, e) == do_send_like(p, e, FALSE)
ipc_call(p, e) == do_send_like(p, e, TRUE)

(* A sender waits and the caller's buffer takes its message: a caller now    *)
(* waits for the reply, a plain sender is done.                              *)
RecvFromSender_all_woken(p, e) ==
  LET tx == Head(senders[e]) IN
  /\ senders[e] # <<>>
  /\ senders' = [senders EXCEPT ![e] = Tail(@)]
  /\ mem' = [mem EXCEPT ![p] = msg_regs[tx]]
  /\ state' = [q \in Procs |-> IF \E i \in DOMAIN senders[e] : senders[e][i] = q
                                THEN Ready ELSE state[q]]
  /\ UNCHANGED <<msg_buf, pool, receivers>>

RecvFromSender(p, e) ==
  LET tx == Head(senders[e]) IN
  /\ senders[e] # <<>>
  /\ senders' = [senders EXCEPT ![e] = Tail(@)]
  /\ mem' = [mem EXCEPT ![p] = msg_regs[tx]]
  /\ state' = IF state[tx].tag = "CallWait"
                THEN [state EXCEPT ![tx] = BlockedOn("ReplyWait", @.ep)]
                ELSE Woken(tx)
  /\ UNCHANGED <<msg_buf, pool, receivers>>

(* The sender is taken from the queue before the caller's buffer is found    *)
(* not to be writable: the call fails and the sender stays blocked.          *)
RecvUnwritable(p, e) ==
  /\ senders[e] # <<>>
  /\ senders' = [senders EXCEPT ![e] = Tail(@)]
  /\ UNCHANGED <<mem, state, msg_buf, pool, receivers>>

RecvQueued(p, e, buf) ==
  /\ senders[e] = <<>>
  /\ Len(receivers[e]) < QueueCap
  /\ receivers' = [receivers EXCEPT ![e] = Append(@, p)]
  /\ block_and_yield(state, p, "RecvWait", e, buf)
  /\ UNCHANGED <<mem, senders>>

ipc_recv(p, e, buf) ==
  /\ state[p] = Running
  /\ <<p, e>> \in CanRead
  /\ \/ buf = GoodBuf /\ RecvFromSender(p, e)
     \/ buf = BadBuf /\ RecvUnwritable(p, e)
     \/ RecvQueued(p, e, buf)
  /\ UNCHANGED <<msg_regs, composed, eventVars>>

(* The lowest process that waits for a reply on the endpoint gets the        *)
(* message, whoever replies.                                                 *)
ReplyWaiters(e) == {c \in Procs : state[c] = BlockedOn("ReplyWait", e)}
Lowest(S) == CHOOSE p \in S : \A q \in S : p <= q

ipc_reply(p, e) ==
  LET waiter == Lowest(ReplyWaiters(e)) IN
  /\ state[p] = Running
  /\ <<p, e>> \in CanWrite
  /\ ReplyWaiters(e) # {}
  /\ Compose(p)
  /\ mem' = [mem EXCEPT ![p] = NextMsg(p)]
  /\ msg_regs' = [msg_regs EXCEPT ![waiter] = NextMsg(p)]
  /\ state' = Woken(waiter)
  /\ UNCHANGED <<pool, senders, receivers, msg_buf, eventVars>>

----------------------------------------------------------------------------
(* The scheduler.                                                            *)

ReadyProcs_in_order ==
  {p \in Procs : state[p] = Ready /\ \A q \in Procs : q < p => ~Blocked(q)}

ReadyProcs == {p \in Procs : state[p] = Ready}
Idling == \A p \in Procs : state[p] # Running

(* The lowest ready tenant runs.  One that was parked first gets the message *)
(* its registers hold written where it asked for it, if that can be written. *)
run(p) ==
  /\ Idling
  /\ ReadyProcs # {} /\ p = Lowest(ReadyProcs)
  /\ state' = [state EXCEPT ![p] = Running]
  /\ pool' = [pool EXCEPT ![p] = "entered"]
  /\ mem' = IF pool[p] = "parked" /\ msg_buf[p] = GoodBuf
              THEN [mem EXCEPT ![p] = msg_regs[p]] ELSE mem
  /\ msg_buf' = [msg_buf EXCEPT ![p] = NoBuf]
  /\ UNCHANGED <<senders, receivers, msg_regs, composed, eventVars>>

(* A module whose process ended is started again as the lowest unused        *)
(* process id, with the same grants, while its budget lasts; else it is      *)
(* given up.                                                                 *)
FreePids == {q \in DynProcs : state[q] = Free}
Restartable(d) == slots[d].restarts_left > 0 /\ FreePids # {}

Restart(d, st, r, seq) ==
  LET new_pid == Lowest(FreePids) IN
  /\ state' = [st EXCEPT ![new_pid] = Ready]
  /\ slots' = [slots EXCEPT ![d].proc_id = new_pid, ![d].restarts_left = @ - 1]
  /\ next_seq' = seq + 1
  /\ ring' = Emitted(r, seq, "DaemonRestarted", new_pid)

GiveUp_silent(d, st, r, seq) ==
  /\ state' = st
  /\ slots' = [slots EXCEPT ![d].daemon = FALSE, ![d].restarts_left = 0]
  /\ next_seq' = seq
  /\ ring' = r

GiveUp_armed(d, st, r, seq) ==
  /\ state' = st
  /\ UNCHANGED slots
  /\ next_seq' = seq + 1
  /\ ring' = Emitted(r, seq, "DaemonGaveUp", slots[d].proc_id)

GiveUp(d, st, r, seq) ==
  /\ state' = st
  /\ slots' = [slots EXCEPT ![d].daemon = FALSE, ![d].restarts_left = 0]
  /\ next_seq' = seq + 1
  /\ ring' = Emitted(r, seq, "DaemonGaveUp", slots[d].proc_id)

WatchedAs(p) == {d \in Modules : slots[d].daemon /\ slots[d].proc_id = p}

on_tenant_terminated(p, st, r, seq) ==
  \/ /\ WatchedAs(p) = {}
     /\ state' = st /\ next_seq' = seq /\ ring' = r /\ UNCHANGED slots
  \/ \E d \in WatchedAs(p) :
       IF Restartable(d) THEN Restart(d, st, r, seq) ELSE GiveUp(d, st, r, seq)

(* The running tenant exits or faults: the record wakes every guard that is  *)
(* blocked on the stream, and a daemon is restarted.                         *)
settle(p, ending) ==
  /\ state[p] = Running
  /\ pool' = [pool EXCEPT ![p] = "none"]
  /\ ring_waiters' = {}
  /\ on_tenant_terminated(p, [WakeRingWaiters EXCEPT ![p] = Plain(ending)],
       Emitted(ring, next_seq, ending, p), next_seq + 1)
  /\ UNCHANGED <<ipcVars, cursor>>

----------------------------------------------------------------------------

(* What the ring holds when the scheduler starts.                            *)
BootRing ==
  [i \in RingSlots |->
     LET held == {s \in Oldest(BootEvents) .. BootEvents - 1 : SlotOf(s) = i} IN
     IF held = {} THEN NoRecord ELSE Record(CHOOSE s \in held : TRUE, "Boot", NoProc)]

Init ==
  /\ state = [p \in Procs |-> IF p \in BootProcs THEN Ready ELSE Free]
  /\ senders = [e \in Endpoints |-> <<>>]
  /\ receivers = [e \in Endpoints |-> <<>>]
  /\ msg_regs = [p \in Procs |-> NoMsg]
  /\ msg_buf = [p \in Procs |-> NoBuf]
  /\ mem = [p \in Procs |-> NoMsg]
  /\ pool = [p \in Procs |-> "none"]
  /\ composed = [p \in Procs |-> 0]
  /\ next_seq = BootEvents
  /\ ring = BootRing
  /\ ring_waiters = {}
  /\ cursor = [p \in Procs |-> 0]
  /\ slots = [d \in Modules |-> [proc_id |-> ModuleProc[d], daemon |-> Budget[d] > 0,
                                 restarts_left |-> Budget[d]]]

Next ==
  \E p \in Procs :
    \/ run(p)
    \/ \E ending \in Endings : settle(p, ending)
    \/ event_read(p)
    \/ \E e \in Endpoints :
         \/ ipc_send(p, e)
         \/ ipc_call(p, e)
         \/ \E buf \in {GoodBuf, BadBuf} : ipc_recv(p, e, buf)
         \/ ipc_reply(p, e)

(* The hart keeps running: the scheduler picks a tenant when one is ready,   *)
(* and the tenant that runs goes on to its next host call or to its end.     *)
Spec == Init /\ [][Next]_vars /\ WF_vars(Next)
----------------------------------------------------------------------------
(* Properties.                                                               *)

Terminated(p) == state[p].tag \in Endings
InQueue(p, q) == \E i \in DOMAIN q : q[i] = p

(* Every variable has its type.                                              *)
States == [tag : {"Free", "Ready", "Running"} \cup Endings \cup BlockReasons,
           ep : Endpoints \cup {NoEndpoint}]
Records == [seq : Nat, a : Procs \cup {NoProc},
            kind : {"Empty", "Boot", "DaemonRestarted", "DaemonGaveUp"} \cup Endings]

SchedTypeOK ==
  /\ state \in [Procs -> States]
  /\ senders \in [Endpoints -> Seq(Procs)] /\ receivers \in [Endpoints -> Seq(Procs)]
  /\ \A e \in Endpoints : Len(senders[e]) <= QueueCap /\ Len(receivers[e]) <= QueueCap
  /\ msg_regs \in [Procs -> Msgs \cup {NoMsg}] /\ mem \in [Procs -> Msgs \cup {NoMsg}]
  /\ msg_buf \in [Procs -> {NoBuf, GoodBuf, BadBuf}]
  /\ pool \in [Procs -> {"none", "entered", "parked"}]
  /\ composed \in [Procs -> 0 .. MsgMax]
  /\ next_seq \in Nat /\ cursor \in [Procs -> Nat]
  /\ ring \in [RingSlots -> Records]
  /\ ring_waiters \subseteq Procs
  /\ slots \in [Modules -> [proc_id : Procs, daemon : BOOLEAN, restarts_left : Nat]]

(* An entry of a queue is a process blocked on that endpoint for that reason,*)
(* at most once: a pop always finds a process it can wake.                   *)
QueuedAreBlocked ==
  \A e \in Endpoints :
    /\ \A i \in DOMAIN senders[e] :
         state[senders[e][i]] \in {BlockedOn("SendWait", e), BlockedOn("CallWait", e)}
    /\ \A i \in DOMAIN receivers[e] :
         state[receivers[e][i]] = BlockedOn("RecvWait", e)
    /\ \A i, j \in DOMAIN senders[e] : senders[e][i] = senders[e][j] => i = j
    /\ \A i, j \in DOMAIN receivers[e] : receivers[e][i] = receivers[e][j] => i = j

(* A receiver that is blocked is in its endpoint's queue, so the next sender *)
(* finds it.                                                                 *)
ReceiversAreQueued ==
  \A p \in Procs : \A e \in Endpoints :
    state[p] = BlockedOn("RecvWait", e) => InQueue(p, receivers[e])

(* A sender and a receiver never both wait on one endpoint: whichever comes  *)
(* second meets the first.                                                   *)
NobodyMissed ==
  \A e \in Endpoints : senders[e] = <<>> \/ receivers[e] = <<>>

(* The instance pool and the process table agree: the one running process    *)
(* has entered its instance, a blocked one has parked its invocation, and a  *)
(* ready one is either fresh or parked.  So the scheduler never resumes an   *)
(* instance that has no parked invocation, nor starts one that is live.      *)
PoolMatches ==
  /\ \A p, q \in Procs : state[p] = Running /\ state[q] = Running => p = q
  /\ \A p \in Procs :
       /\ state[p] = Running <=> pool[p] = "entered"
       /\ Blocked(p) => pool[p] = "parked"
       /\ state[p] = Free \/ Terminated(p) => pool[p] = "none"
       /\ pool[p] # "parked" => msg_buf[p] = NoBuf
       /\ state[p].tag = "EventWait" => msg_buf[p] = NoBuf

RendezvousInv ==
  SchedTypeOK /\ QueuedAreBlocked /\ ReceiversAreQueued /\ NobodyMissed /\ PoolMatches

(* A guard that sleeps has seen every record and is in the waiter set, and   *)
(* nobody else is: no wakeup is lost between the read and the block, and an  *)
(* emit wakes nobody out of an IPC wait.                                     *)
NoMissedRecord ==
  \A p \in Procs :
    /\ state[p].tag = "EventWait" => p \in ring_waiters /\ cursor[p] >= next_seq
    /\ p \in ring_waiters => state[p].tag = "EventWait"

(* A read takes the record at the cursor, or skips exactly the records that  *)
(* were overwritten: loss is never silent and never more than it must be.    *)
ReadsExact ==
  [][\A p \in Procs : cursor'[p] # cursor[p] =>
       cursor'[p] = (IF cursor[p] < Oldest(next_seq) THEN Oldest(next_seq)
                                                     ELSE cursor[p]) + 1]_vars

(* The module a process belongs to, and how often each was restarted.        *)
Restarts(d) == Budget[d] - slots[d].restarts_left
Ended == {p \in Procs : Terminated(p)}
Restarted == {p \in DynProcs : state[p] # Free}
GivenUp == {d \in Modules : Budget[d] > 0 /\ ~slots[d].daemon}

(* The stream is complete: it counts one record for every tenant that ended, *)
(* every restart and every daemon given up.                                  *)
StreamComplete ==
  next_seq = BootEvents + Cardinality(Ended) + Cardinality(Restarted)
               + Cardinality(GivenUp)

(* A daemon the registry still watches is alive, its budget covers the       *)
(* restarts it had, and no two modules share a process.                      *)
DaemonsAlive ==
  /\ \A d \in Modules : slots[d].daemon => ~Terminated(slots[d].proc_id)
                                          /\ state[slots[d].proc_id] # Free
  /\ \A d1, d2 \in Modules : slots[d1].proc_id = slots[d2].proc_id => d1 = d2
  /\ \A d \in Modules : slots[d].restarts_left <= Budget[d]

(* A tenant that is ready is run.                                            *)
EveryWakeRuns ==
  \A p \in Procs : state[p] = Ready ~> state[p] # Ready

(* The scheduler's loop returns: in the end nobody is ready and nobody runs. *)
RunReturns == <>[](\A p \in Procs : state[p] \notin {Ready, Running})

(* Every step of this module is a step of the abstract rendezvous, or none.  *)
At ==
  [p \in Procs |->
     LET e == state[p].ep IN
     CASE state[p].tag \in {"SendWait", "CallWait"} ->
            IF InQueue(p, senders[e])
              THEN [doing |-> "offering", ep |-> e, call |-> state[p].tag = "CallWait"]
              ELSE [doing |-> "stranded"]
       [] state[p].tag = "RecvWait" ->
            [doing |-> "waiting", ep |-> e, deaf |-> msg_buf[p] = BadBuf]
       [] state[p].tag = "ReplyWait" -> [doing |-> "owed", ep |-> e]
       [] OTHER -> [doing |-> "idle"]]

(* A message delivered to a parked process is in its registers until it runs.*)
Box ==
  [p \in Procs |->
     IF state[p] = Ready /\ msg_buf[p] = GoodBuf THEN msg_regs[p] ELSE mem[p]]

Abstract == INSTANCE Rendezvous WITH at <- At, box <- Box
ImplementsRendezvous == Abstract!RSpec

(* docs/ipc-design.md, section 7: no message is lost.  A process blocked in  *)
(* send or call is still offering its message.                               *)
NoSenderLost ==
  \A p \in Procs : \A e \in Endpoints :
    state[p].ep = e /\ state[p].tag \in {"SendWait", "CallWait"} =>
      InQueue(p, senders[e])
=============================================================================
