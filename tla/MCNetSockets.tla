----------------------------- MODULE MCNetSockets -----------------------------
(* The instance of NetSockets that TLC explores: tenants with a Net cap each,  *)
(* the driver, and a driver slot that they hand on to one another.  With one   *)
(* pool entry the pool runs out while a copy outlives its socket, and with a    *)
(* second slot there is one to give back then.                               *)
EXTENDS NetSockets, MCCapSystem

(* Rights are reg_handles' business: here every cap a tenant makes keeps them.  *)
FullRights == \A c \in Cell : Occupied(c) => caps[c].rights = {rd, wr}

(* The second slot is only held: slots are served independently.                *)
OneServed == bound \subseteq {0} /\ \A h \in Handles \ {0} : window[h] = NoWindow

Bounded == Unworn /\ FullRights /\ OneServed
=============================================================================
