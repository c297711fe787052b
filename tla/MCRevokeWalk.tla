---------------------------- MODULE MCRevokeWalk -----------------------------
(* One tenant whose CSpace has three slots, walked in slot order.    *)
EXTENDS RevokeWalk

CONSTANTS rd, wr,         (* The READ and WRITE bits.                         *)
          ep,            (* An endpoint.                                     *)
          t1             (* A tenant.                                        *)

OneCap == [c \in {<<t1, 0>>} |-> [obj |-> ep, rights |-> {wr}]]

Nothing == [s \in {} |-> [obj |-> ep, rights |-> {rd}]]

SlotOrder == [i \in 1 .. Cardinality(Slots) |-> <<t1, i - 1>>]
=============================================================================
