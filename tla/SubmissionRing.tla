----------------------------- MODULE SubmissionRing -----------------------------
(***************************************************************************)
(* The submission ring (kernel/src/cap/ring_drain.rs, abi-shared ring): a module *)
(* puts entries and the place for their completions anywhere in its own linear   *)
(* memory, the two regions across each other if it likes, and one call drains     *)
(* them in order while interrupts go on signalling.  What a registered handle is   *)
(* worth is RegHandles' matter: here each one is in one of the states its check    *)
(* tells apart.                                                                *)
(*                                                                         *)
(* Memory is counted in cells of 8 bytes, each a number: an entry starts with its  *)
(* operation and its handle in one cell.  Arguments and flags are not used.        *)
(***************************************************************************)
LOCAL INSTANCE Integers
LOCAL INSTANCE Sequences

CONSTANTS
  RingMemories, (* Contents linear memory may have, as sequences of cells.      *)
  HandleTables, (* What the registered handles may be: functions from 0 on.     *)
  RingPlaces,   (* Bound: where the regions are put.                           *)
  MaxRing       (* MAX_RING_ENTRIES.                                          *)

ASSUME RingAssumption ==
  /\ MaxRing \in Nat \ {0} /\ RingPlaces \subseteq Nat
  /\ RingMemories \subseteq Seq(Nat)

VARIABLES
  lin_mem,
  ring_desc,    (* RingDesc of the caller.                                     *)
  handles,      (* "empty", "stale", "other" (kind), "blind" (no READ), "good".  *)
  signals,      (* Of the notification behind the good handles.                 *)
  drain,        (* ring_submit under way: [start, count, processed, running].    *)
  decided       (* Of this call, by entry: what was read of it, and its result.   *)

ringVars == <<lin_mem, ring_desc, handles, signals, drain, decided>>

SQE_SIZE == 5
CQE_SIZE == 2

NoRingDesc == [sq_ptr |-> 0, cq_ptr |-> 0, entries |-> 0, active |-> FALSE]
NotDraining == [start |-> << >>, count |-> 0, processed |-> 0, running |-> FALSE]

(* Results, as no operation is numbered.                                        *)
E_INVAL == 3
E_PERM  == 7
E_AGAIN == 11

-----------------------------------------------------------------------------
(* The fields of the entry in a copy of it.                                      *)
Op(sqe)        == sqe[1] % 4
RegIdx(sqe)    == sqe[1] \div 4
user_data(sqe) == sqe[3]

RING_OP_NOTIFY_WAIT == 1
RING_OP_NOTIFY_ACK  == 2
is_known_op(op) == op \in RING_OP_NOTIFY_WAIT .. RING_OP_NOTIFY_ACK

InMemory(off, len) == off + len <= Len(lin_mem)

decode_sqe(off) == SubSeq(lin_mem, off + 1, off + SQE_SIZE)

encode_cqe(off, user, result) ==
  [lin_mem EXCEPT ![off + 1] = user, ![off + 2] = result]

(* Mutant: the definition that follows with a slip in it.                        *)
UsableHandle_any_generation(i) == i \in DOMAIN handles /\ handles[i] \in {"good", "stale"}

UsableHandle(i) == i \in DOMAIN handles /\ handles[i] = "good"

(* dispatch, with notification_wait and notification_ack behind it: the result,    *)
(* and whether a signal is left.                                               *)
dispatch(sqe) ==
  LET i == RegIdx(sqe)
  IN  IF ~is_known_op(Op(sqe)) \/ i \notin DOMAIN handles
      THEN [result |-> E_INVAL, signals |-> signals]
      ELSE IF UsableHandle(i)
      THEN IF Op(sqe) = RING_OP_NOTIFY_ACK THEN [result |-> 0, signals |-> FALSE]
           ELSE [result |-> IF signals THEN 0 ELSE E_AGAIN, signals |-> signals]
      ELSE [result |-> IF handles[i] \in {"other", "blind"} THEN E_PERM ELSE E_INVAL,
            signals |-> signals]

-----------------------------------------------------------------------------
ring_setup(sq_ptr, cq_ptr, entries) ==
  /\ ~drain.running
  /\ entries # 0 /\ entries <= MaxRing
  /\ ring_desc' = [sq_ptr |-> sq_ptr, cq_ptr |-> cq_ptr, entries |-> entries, active |-> TRUE]
  /\ drain' = NotDraining /\ decided' = << >>
  /\ UNCHANGED <<lin_mem, handles, signals>>

ring_submit(n) ==
  /\ ~drain.running /\ ring_desc.active
  /\ drain' = [start |-> lin_mem, processed |-> 0, running |-> TRUE,
               count |-> IF n < ring_desc.entries THEN n ELSE ring_desc.entries]
  /\ decided' = << >>
  /\ UNCHANGED <<lin_mem, ring_desc, handles, signals>>

(* One turn of the loop.  The operation has run when its completion finds no room.  *)
DrainEntry ==
  LET i   == drain.processed
      off == ring_desc.sq_ptr + i * SQE_SIZE
      sqe == decode_sqe(off)
      out == dispatch(sqe)
      cq  == ring_desc.cq_ptr + i * CQE_SIZE
  IN  /\ drain.running /\ i < drain.count /\ InMemory(off, SQE_SIZE)
      /\ signals' = out.signals
      /\ decided' = Append(decided, [sqe |-> sqe, result |-> out.result])
      /\ IF InMemory(cq, CQE_SIZE)
         THEN /\ lin_mem' = encode_cqe(cq, user_data(sqe), out.result)
              /\ drain' = [drain EXCEPT !.processed = i + 1]
         ELSE /\ drain' = [drain EXCEPT !.running = FALSE]
              /\ UNCHANGED lin_mem
      /\ UNCHANGED <<ring_desc, handles>>

DrainEnds ==
  LET i == drain.processed
  IN  /\ drain.running
      /\ i = drain.count \/ ~InMemory(ring_desc.sq_ptr + i * SQE_SIZE, SQE_SIZE)
      /\ drain' = [drain EXCEPT !.running = FALSE]
      /\ UNCHANGED <<lin_mem, ring_desc, handles, signals, decided>>

(* The trap handler, between any two steps.                                      *)
SignalArrives ==
  /\ drain.running /\ ~signals
  /\ signals' = TRUE
  /\ UNCHANGED <<lin_mem, ring_desc, handles, drain, decided>>

RingInit ==
  /\ lin_mem \in RingMemories /\ handles \in HandleTables
  /\ ring_desc = NoRingDesc /\ signals \in BOOLEAN
  /\ drain = NotDraining /\ decided = << >>

(* Bound: one submission for each ring that was set up.                            *)
RingNext ==
  \/ \E sq_ptr, cq_ptr \in RingPlaces, entries \in 0 .. MaxRing + 1 :
       ~ring_desc.active /\ ring_setup(sq_ptr, cq_ptr, entries)
  \/ \E n \in 0 .. MaxRing + 1 : drain = NotDraining /\ ring_submit(n)
  \/ DrainEntry \/ DrainEnds \/ SignalArrives

-----------------------------------------------------------------------------
Completion(i) == {ring_desc.cq_ptr + i * CQE_SIZE + 1, ring_desc.cq_ptr + i * CQE_SIZE + 2}
Submission(i) == {ring_desc.sq_ptr + i * SQE_SIZE + c : c \in 1 .. SQE_SIZE}

(* The completions a drain may have written before it reads entry i.               *)
Overwritten(i) == UNION {Completion(j) : j \in 0 .. i - 1}

Requested(i) == SubSeq(drain.start, ring_desc.sq_ptr + i * SQE_SIZE + 1,
                       ring_desc.sq_ptr + (i + 1) * SQE_SIZE)

(* What a module may rely on when it batches (INV-alpha, INV-beta, INV-gamma): the   *)
(* count returned is the number of completions, one for each entry in its order,     *)
(* with the token and the outcome of the very bytes the decision was taken on,       *)
(* which are those submitted unless the module had put completions over them; only   *)
(* a handle that passes every check does anything; nothing else in memory changes;    *)
(* and of all that ran, at most the last lacks a completion.                        *)
RingAnswers ==
  /\ drain.processed <= drain.count /\ drain.count <= ring_desc.entries
  /\ Len(decided) - drain.processed \in {0, 1}
  /\ Len(decided) > drain.processed => ~drain.running
  /\ \A i \in 0 .. Len(decided) - 1 :
       LET d == decided[i + 1]
       IN  /\ Submission(i) \cap Overwritten(i) = {} => d.sqe = Requested(i)
           /\ d.result \in {0, E_AGAIN} =>
                is_known_op(Op(d.sqe)) /\ handles[RegIdx(d.sqe)] = "good"
           /\ i < drain.processed =>
                /\ lin_mem[ring_desc.cq_ptr + i * CQE_SIZE + 1] = user_data(d.sqe)
                /\ lin_mem[ring_desc.cq_ptr + i * CQE_SIZE + 2] = d.result
  /\ drain # NotDraining =>
       \A c \in DOMAIN lin_mem \ Overwritten(drain.processed) : lin_mem[c] = drain.start[c]

=================================================================================
