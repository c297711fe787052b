----------------------------- MODULE MCRegHandles -----------------------------
(* The instance of RegHandles that TLC explores: a boot tenant and a module    *)
(* loaded at run time, as in MCCapSystem.                                      *)
EXTENDS RegHandles, MCCapSystem

(* Handles of two processes never meet: one at a time has any.                 *)
OneRegistrar ==
  \A p, q \in Procs, i, j \in RegSlots : Registered(p, i) /\ Registered(q, j) => p = q

Bounded == Unworn /\ OneRegistrar
=============================================================================
