------------------------------ MODULE RegHandles ------------------------------
(***************************************************************************)
(* The registered-capability fast path over CapSystem: a handle caches what *)
(* a cap named when cap_register resolved it (kernel/src/cap/reg.rs,         *)
(* syscall.rs), and each use of the handle only compares generations         *)
(* (abi-shared reg::validate_handle, called by ring_drain.rs).  No           *)
(* operation on a CSpace knows of the tables of handles.                     *)
(***************************************************************************)
EXTENDS CapSystem

CONSTANT RegSlots    (* Indices of a RegTable (0..63 in the kernel).         *)

ASSUME RegSlotsAssumption == RegSlots \subseteq Nat

VARIABLE reg         (* RegTable.slots of every process.                     *)

regVars == <<vars, reg>>

NoEntry  == [obj |-> NoObject, rights |-> {}, slot |-> SlotNet, gen |-> 0]
RegEntry == [obj : Objects, rights : SUBSET Rights, slot : Slots, gen : 0 .. GenMax]

Registered(p, i) == reg[p][i].obj # NoObject

Origin(p, i) == <<p, reg[p][i].slot>>

(* Mutants, here and below: the definition that follows with a slip in it.   *)
validate_handle_skips_generation(p, i) == Registered(p, i)

(* The clauses of validate_handle that do not look at the operation.         *)
validate_handle(p, i) ==
  Registered(p, i) /\ reg[p][i].gen = gen[Origin(p, i)]

-----------------------------------------------------------------------------
cap_register(p, s, i) ==
  /\ status[p] = "live"
  /\ Occupied(<<p, s>>)
  /\ FirstFree(i, {j \in RegSlots : Registered(p, j)}, RegSlots)
  /\ reg' = [reg EXCEPT ![p][i] =
               [obj |-> caps[<<p, s>>].obj, rights |-> caps[<<p, s>>].rights,
                slot |-> s, gen |-> gen[<<p, s>>]]]
  /\ UNCHANGED vars

cap_unregister(p, i) ==
  /\ status[p] = "live"
  /\ reg' = [reg EXCEPT ![p][i] = NoEntry]
  /\ UNCHANGED vars

RegInit == Init /\ reg = [p \in Procs |-> [i \in RegSlots |-> NoEntry]]

RegNext ==
  \/ Next /\ UNCHANGED reg
  \/ \E p \in Procs, i \in RegSlots :
       (\E s \in Slots : cap_register(p, s, i)) \/ cap_unregister(p, i)

RegSpec == RegInit /\ [][RegNext]_regVars

-----------------------------------------------------------------------------
RegTypeOK == TypeOK /\ reg \in [Procs -> [RegSlots -> RegEntry \cup {NoEntry}]]

(* INV-alpha: a handle that passes the check names a cap the caller holds     *)
(* now, the very object with the very rights that were cached (reg.rs), after *)
(* any sequence of revokes, deletes and refills of the slot it came from.     *)
HandleSound ==
  \A p \in Procs, i \in RegSlots :
    validate_handle(p, i) /\ Origin(p, i) \notin worn =>
      /\ caps[Origin(p, i)].obj = reg[p][i].obj
      /\ caps[Origin(p, i)].rights = reg[p][i].rights

(* What makes HandleSound inductive: a handle is never ahead of its slot, and *)
(* a process has none before it has its CSpace.                               *)
HandlesReached ==
  \A p \in Procs, i \in RegSlots :
    Registered(p, i) =>
      /\ status[p] # "unused"
      /\ Origin(p, i) \notin worn => reg[p][i].gen <= gen[Origin(p, i)]

HandleInv == RegTypeOK /\ HandlesReached /\ HandleSound

(* INV-gamma: "any revoke/delete/reuse (which bumps the generation, INV-17)   *)
(* invalidates this entry automatically" (reg.rs).  Whatever is put in the     *)
(* slot next, an entry that failed the check never passes it again.           *)
StaleForever ==
  [][\A p \in Procs, i \in RegSlots :
       /\ Registered(p, i) /\ ~validate_handle(p, i)
       /\ reg'[p][i] = reg[p][i] /\ Origin(p, i) \notin worn'
       => ~validate_handle(p, i)']_regVars
=============================================================================
