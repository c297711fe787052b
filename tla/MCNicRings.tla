------------------------------ MODULE MCNicRings ------------------------------
(* The two network drivers as TLC explores them: a build has the one or the      *)
(* other, so the other one's variables stay at their initial values.             *)
EXTENDS VirtioRings, GmacRings

VARIABLE board

NicInit ==
  /\ board \in {"qemu", "vf2"}
  /\ VirtioInit /\ GmacInit

QemuStep == board = "qemu" /\ VirtioNext /\ UNCHANGED <<board, gmacVars>>
Vf2Step  == board = "vf2" /\ GmacNext /\ UNCHANGED <<board, virtioVars>>

(* kmain polls the driver for ever once the tenants are gone and bring-up is one      *)
(* call; of the DMA engines and of the VirtIO device nothing is assumed.              *)
NicSpec ==
  /\ NicInit /\ [][QemuStep \/ Vf2Step]_<<board, virtioVars, gmacVars>>
  /\ WF_<<board, virtioVars, gmacVars>>(board = "vf2" /\ (BringUp \/ Poll)
                                          /\ UNCHANGED <<board, virtioVars>>)
=============================================================================
