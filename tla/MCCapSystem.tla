----------------------------- MODULE MCCapSystem -----------------------------
(* The instances of CapSystem that TLC explores: small CSpaces, and boot      *)
(* layouts cut down from the one init_root_caps builds.                       *)
EXTENDS CapSystem

CONSTANTS rd, wr,         (* The READ and WRITE bits.                          *)
          ep, net,       (* An endpoint, and the NIC's Net object.            *)
          t1, t2, drv    (* Two tenants and the Tier-2 net driver.            *)

RW(o) == [obj |-> o, rights |-> {rd, wr}]

Nothing == [s \in {} |-> RW(ep)]

(* One tenant that holds one endpoint with both rights.                       *)
OneCap == [c \in {<<t1, 0>>} |-> RW(ep)]

(* Two tenants with a Net cap each, and the driver with its own.              *)
TenantsAndDriver == [c \in {t1, t2, drv} \X {0} |-> RW(net)]

(* A boot tenant; runtime-loaded modules get the endpoint with WRITE only and  *)
(* may be granted the event ring with READ.                                   *)
ModuleBaseline == [s \in {0} |-> [obj |-> ep, rights |-> {wr}]]
ModuleEventLog == [s \in {1} |-> [obj |-> EventLog, rights |-> {rd}]]

(* No cell is cleared more than GenMax times: each slot is refilled after a   *)
(* clear, but counters that run out are the revocation run's business.       *)
Unworn == worn = {}
=============================================================================
