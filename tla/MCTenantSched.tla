---------------------------- MODULE MCTenantSched ----------------------------
(* Instances of TenantSched for model checking.                              *)
EXTENDS TenantSched

CONSTANTS ep1, ep2,      (* Endpoints.                                       *)
          guard, daemon  (* Modules.                                         *)

(* Every tenant may send, receive and reply on every endpoint.               *)
AllRights == BootProcs \X Endpoints

(* The tenant sends to the guard.                                            *)
TenantWrites == {5} \X Endpoints
GuardReads == {3} \X Endpoints

(* Tenants without modules.                                                  *)
NoModules == [d \in {} |-> 0]

(* A guard as process 3 and a daemon as process 4, each with a budget.       *)
Spawned == [d \in {guard, daemon} |-> IF d = guard THEN 3 ELSE 4]
Budgets == [d \in {guard, daemon} |-> IF d = guard THEN 1 ELSE 2]
=============================================================================
