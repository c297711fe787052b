------------------------------ MODULE GmacRings ------------------------------
(***************************************************************************)
(* The DWMAC4 driver of the VisionFive 2 (drivers/net, vf2_phy): two rings of  *)
(* descriptors whose OWN bit passes them between driver and DMA engine, the    *)
(* receive walk, the transmit tokens, and the watchdog of an engine that has   *)
(* suspended or stopped; before that the bring-up of driver_start.             *)
(*                                                                         *)
(* The engine runs beside the interpreted driver, so the walk reads one        *)
(* descriptor per step, and a doorbell is a step of its own.                   *)
(***************************************************************************)
EXTENDS Integers, FiniteSets, Sequences

CONSTANTS Ring,        (* Descriptors of a ring (16).                         *)
          StatusEvery, (* Empty polls between two looks at the DMA status.     *)
          SnapEvery,   (* Of those looks, one in so many takes a snapshot.     *)
          FrozenSnaps, (* MRXF_FROZEN_SNAPS.                                  *)
          Cooldown,    (* RECOVER_COOLDOWN after a recovery.                  *)
          MaxTries,    (* Reads of a register that a wait makes, at most.      *)
          MaxFrames, MaxTx, MaxWedges  (* Bounds: frames each way, wedges.     *)

ASSUME GmacAssumption ==
  /\ {Ring, StatusEvery, SnapEvery, FrozenSnaps} \subseteq Nat \ {0}
  /\ {Cooldown, MaxTries, MaxFrames, MaxTx, MaxWedges} \subseteq Nat
  /\ Ring > 2

VARIABLES
  stage, tries,   (* How far driver_start has come; reads in the loop it is at. *)
  relink,         (* The PHY's delays changed: needs_relink.                   *)
  swr,            (* DMA_BUS_MODE.SWR: the DMA engine is in reset.              *)
  rxDesc,         (* A descriptor's OWN bit, or the frame written back to it.  *)
  RX_NEXT,
  pc,             (* What the driver is doing.                                *)
  polls, snaps,   (* EMPTY_POLLS and STALL_SNAPS, modulo their periods.        *)
  MRXF_STALL_STREAK, LAST_MRXF, RECOVER_COOLDOWN,
  cur, engine,    (* The receive engine: its descriptor, and whether it runs.  *)
  rbu,            (* DMA_CH0_STATUS.RBU, sticky.                              *)
  mrxf,           (* The MAC's count of frames.                               *)
  wedges,
  txDesc, TX_NEXT,
  txCur, txTail,  (* The transmit engine's descriptor, and the tail register.  *)
  txSent

watchVars == <<polls, snaps, MRXF_STALL_STREAK, LAST_MRXF, RECOVER_COOLDOWN>>
engineVars == <<cur, engine, rbu, mrxf, wedges>>
gmacTx == <<txDesc, TX_NEXT, txCur, txTail, txSent>>
bringUp == <<stage, tries, relink, swr>>
gmacVars == <<bringUp, rxDesc, RX_NEXT, pc, watchVars, engineVars, gmacTx>>

Descs == 0 .. Ring - 1
Next1(i) == (i + 1) % Ring

Own  == 0           (* The DMA engine owns the descriptor.                     *)
Bad  == -1          (* A writeback that is no whole, error-free frame.         *)
Good == 1 .. MaxFrames
Free == 0           (* A transmit descriptor that the engine has released.     *)
NoIdx == -1         (* usize::MAX in a token that was consumed.                *)

-----------------------------------------------------------------------------
(* receive: the walk.                                                         *)
begin_receive ==
  /\ stage = "up" /\ pc = <<"idle">>
  /\ pc' = <<"scan", RX_NEXT, 0>>
  /\ UNCHANGED <<rxDesc, RX_NEXT, watchVars, engineVars, gmacTx, bringUp>>

(* One descriptor: owned by the engine, to be rejected and recycled, or the     *)
(* frame to give to smoltcp.                                                   *)
scan ==
  /\ pc[1] = "scan"
  /\ LET start == pc[2]  n == pc[3]  i == (start + n) % Ring
     IN  CASE rxDesc[i] = Own ->
                /\ pc' = IF n + 1 < Ring THEN <<"scan", start, n + 1>> ELSE <<"empty">>
                /\ UNCHANGED <<rxDesc, RX_NEXT, RECOVER_COOLDOWN>>
           [] rxDesc[i] = Bad ->
                /\ RX_NEXT' = Next1(i)
                /\ rxDesc' = [rxDesc EXCEPT ![i] = Own]
                /\ pc' = <<"kick", start, n + 1>>
                /\ UNCHANGED RECOVER_COOLDOWN
           [] OTHER ->
                /\ RX_NEXT' = Next1(i)
                /\ RECOVER_COOLDOWN' = 0
                /\ pc' = <<"token", i>>
                /\ UNCHANGED rxDesc
  /\ UNCHANGED <<polls, snaps, MRXF_STALL_STREAK, LAST_MRXF, engineVars, gmacTx, bringUp>>

(* Clear RBU and ring the doorbell: a suspended engine goes on.                *)
Resume ==
  /\ rbu' = FALSE
  /\ engine' = IF engine = "suspended" THEN "run" ELSE engine
  /\ UNCHANGED <<cur, mrxf, wedges>>

(* The second half of vf2_rx_rearm, in the walk and after a token.              *)
kick ==
  /\ \/ /\ pc[1] = "kick"
        /\ pc' = IF pc[3] < Ring THEN <<"scan", pc[2], pc[3]>> ELSE <<"empty">>
     \/ /\ pc[1] = "rearmed"
        /\ pc' = <<"drop", pc[2]>>
  /\ Resume
  /\ UNCHANGED <<rxDesc, RX_NEXT, watchVars, gmacTx, bringUp>>

token_consume_keeps_idx ==
  /\ pc[1] = "token"
  /\ rxDesc' = [rxDesc EXCEPT ![pc[2]] = Own]
  /\ pc' = <<"rearmed", pc[2]>>
  /\ UNCHANGED <<RX_NEXT, watchVars, engineVars, gmacTx, bringUp>>

(* Vf2NicRxToken::consume, once smoltcp has read the frame: re-arm, and mark    *)
(* the token as consumed.                                                      *)
token_consume ==
  /\ pc[1] = "token"
  /\ rxDesc' = [rxDesc EXCEPT ![pc[2]] = Own]
  /\ pc' = <<"rearmed", NoIdx>>
  /\ UNCHANGED <<RX_NEXT, watchVars, engineVars, gmacTx, bringUp>>

(* Vf2NicRxToken::drop re-arms a token that was not consumed.                   *)
token_drop ==
  /\ pc[1] = "drop"
  /\ IF pc[2] = NoIdx
     THEN UNCHANGED <<rxDesc, rbu, engine>>
     ELSE /\ rxDesc' = [rxDesc EXCEPT ![pc[2]] = Own]
          /\ rbu' = FALSE
          /\ engine' = IF engine = "suspended" THEN "run" ELSE engine
  /\ pc' = <<"idle">>
  /\ UNCHANGED <<RX_NEXT, watchVars, cur, mrxf, wedges, gmacTx, bringUp>>

-----------------------------------------------------------------------------
(* The watchdog of an empty poll.                                             *)
AfterLook(st) == IF st THEN <<"doorbell">> ELSE <<"idle">>

watch ==
  /\ pc = <<"empty">>
  /\ polls' = (polls + 1) % StatusEvery
  /\ IF polls' # 0
     THEN pc' = <<"idle">> /\ UNCHANGED snaps
     ELSE /\ snaps' = (snaps + 1) % SnapEvery
          /\ pc' = IF snaps' = 0 THEN <<"look", rbu>> ELSE AfterLook(rbu)
  /\ UNCHANGED <<rxDesc, RX_NEXT, MRXF_STALL_STREAK, LAST_MRXF, RECOVER_COOLDOWN,
                 engineVars, gmacTx, bringUp>>

(* Snapshots in a row over which the MAC counted nothing.                       *)
Streak(rx_frames) ==
  IF rx_frames # 0 /\ rx_frames = LAST_MRXF
  THEN IF MRXF_STALL_STREAK < FrozenSnaps THEN MRXF_STALL_STREAK + 1
                                          ELSE FrozenSnaps
  ELSE 0

(* It reads the MAC's count and goes on to other registers before it decides.    *)
snapshot ==
  /\ pc[1] = "look"
  /\ pc' = <<"decide", pc[2], mrxf>>
  /\ UNCHANGED <<rxDesc, RX_NEXT, watchVars, engineVars, gmacTx, bringUp>>

(* The start of vf2_rx_channel_recover is to halt the engine.                   *)
decide ==
  /\ pc[1] = "decide"
  /\ LET st == pc[2]  rx_frames == pc[3]
     IN  /\ LAST_MRXF' = rx_frames
         /\ IF Streak(rx_frames) >= FrozenSnaps /\ ~st /\ RECOVER_COOLDOWN = 0
            THEN /\ MRXF_STALL_STREAK' = 0
                 /\ RECOVER_COOLDOWN' = Cooldown
                 /\ engine' = "halted"
                 /\ pc' = <<"halted", st, rx_frames>>
            ELSE /\ MRXF_STALL_STREAK' = Streak(rx_frames)
                 /\ RECOVER_COOLDOWN' = IF RECOVER_COOLDOWN = 0 THEN 0
                                        ELSE RECOVER_COOLDOWN - 1
                 /\ UNCHANGED engine
                 /\ pc' = AfterLook(st)
  /\ UNCHANGED <<rxDesc, RX_NEXT, polls, snaps, cur, rbu, mrxf, wedges, gmacTx, bringUp>>

(* The rest: the whole ring is armed anew and the engine restarted at its base.  *)
vf2_rx_channel_recover ==
  /\ pc[1] = "halted"
  /\ rxDesc' = [i \in Descs |-> Own]
  /\ RX_NEXT' = 0 /\ cur' = 0
  /\ rbu' = FALSE /\ engine' = "run"
  /\ pc' = AfterLook(pc[2])
  /\ UNCHANGED <<watchVars, mrxf, wedges, gmacTx, bringUp>>

doorbell_tail_only ==
  /\ pc = <<"doorbell">> /\ pc' = <<"idle">>
  /\ UNCHANGED <<rxDesc, RX_NEXT, watchVars, engineVars, gmacTx, bringUp>>

doorbell ==
  /\ pc = <<"doorbell">> /\ pc' = <<"idle">>
  /\ Resume
  /\ UNCHANGED <<rxDesc, RX_NEXT, watchVars, gmacTx, bringUp>>

-----------------------------------------------------------------------------
(* transmit, and Vf2NicTxToken::consume.  A token that came with a frame was   *)
(* minted without a look at the ring; one of transmit found TX_NEXT free.  With   *)
(* the whole ring in flight the frame goes to VF2_TX_SCRATCH, and nowhere.        *)
MayTransmit ==
  pc[1] = "token" \/ (stage = "up" /\ pc = <<"idle">> /\ txDesc[TX_NEXT] = Free)

FirstFree(i) ==
  /\ txDesc[i] = Free
  /\ \A n \in 0 .. Ring - 1 :
       LET j == (TX_NEXT + n) % Ring
       IN  txDesc[j] = Free => n >= (i - TX_NEXT) % Ring

Publish(i) ==
  /\ txSent' = txSent + 1
  /\ txDesc' = [txDesc EXCEPT ![i] = txSent']
  /\ TX_NEXT' = Next1(i)
  /\ txTail' = Next1(i)
  /\ UNCHANGED <<rxDesc, RX_NEXT, pc, watchVars, engineVars, txCur, bringUp>>

transmit_as_minted ==
  /\ MayTransmit /\ txSent < MaxTx
  /\ Publish(TX_NEXT)

transmit ==
  /\ MayTransmit /\ txSent < MaxTx
  /\ \E i \in Descs : FirstFree(i) /\ Publish(i)

-----------------------------------------------------------------------------
(* The engines.  "DWMAC processes descriptors while CURR < TAIL": a transmit     *)
(* engine stops at the tail, and at a descriptor it does not own.                *)
Receives ==
  /\ engine = "run" /\ mrxf < MaxFrames
  /\ mrxf' = mrxf + 1
  /\ IF rxDesc[cur] = Own
     THEN /\ rxDesc' \in {[rxDesc EXCEPT ![cur] = f] : f \in {mrxf', Bad}}
          /\ cur' = Next1(cur)
          /\ UNCHANGED <<engine, rbu>>
     ELSE /\ engine' = "suspended" /\ rbu' = TRUE
          /\ UNCHANGED <<rxDesc, cur>>
  /\ UNCHANGED <<RX_NEXT, pc, watchVars, wedges, gmacTx, bringUp>>

(* The faults of docs/rx-stall-investigation.md: it suspends on a stale read of    *)
(* a descriptor, or stops with RBU clear.                                         *)
Wedges ==
  /\ engine = "run" /\ wedges < MaxWedges
  /\ wedges' = wedges + 1
  /\ \/ engine' = "stopped" /\ UNCHANGED rbu
     \/ engine' = "suspended" /\ rbu' = TRUE
  /\ UNCHANGED <<rxDesc, RX_NEXT, pc, watchVars, cur, mrxf, gmacTx, bringUp>>

Transmits ==
  /\ txCur # txTail /\ txDesc[txCur] # Free
  /\ txDesc' = [txDesc EXCEPT ![txCur] = Free]
  /\ txCur' = Next1(txCur)
  /\ UNCHANGED <<rxDesc, RX_NEXT, pc, watchVars, engineVars, TX_NEXT, txTail, txSent,
                 bringUp>>

-----------------------------------------------------------------------------
(* driver_start, up to the rings: clocks, PHY, link and the reset of the DMA       *)
(* engine.  A loop reads its register up to a limit and then goes on, whatever     *)
(* the hardware says.                                                          *)
dataPath == <<rxDesc, RX_NEXT, pc, watchVars, engineVars, gmacTx>>

Goes(from, to) == stage = from /\ stage' = to /\ tries' = 0

read_again_wraps == tries' = (tries + 1) % (MaxTries + 1) /\ UNCHANGED stage

read_again == tries < MaxTries /\ tries' = tries + 1 /\ UNCHANGED stage

enable_bus_clocks == Goes("clocks", "phy") /\ UNCHANGED <<relink, swr, dataPath>>

(* The delays of the PHY are set; did they differ from what it had?                *)
configure_phy ==
  Goes("phy", "link") /\ relink' \in BOOLEAN /\ UNCHANGED <<swr, dataPath>>

(* A link that is up is left alone, unless the delays changed; relink is local.     *)
look_at_link ==
  /\ Goes("link", "negotiating") \/ (~relink /\ Goes("link", "reset"))
  /\ relink' = FALSE
  /\ UNCHANGED <<swr, dataPath>>

(* Auto-negotiation ends, or the limit is reached.                                *)
negotiate ==
  /\ \/ Goes("negotiating", "reset")
     \/ stage = "negotiating" /\ read_again
  /\ UNCHANGED <<relink, swr, dataPath>>

(* At the limit the reset bit is cleared by force, which may or may not work.       *)
soft_reset ==
  /\ \/ ~swr /\ Goes("reset", "upstream") /\ UNCHANGED swr
     \/ tries = MaxTries /\ Goes("reset", "upstream") /\ swr' \in {swr, FALSE}
     \/ stage = "reset" /\ swr /\ read_again /\ UNCHANGED swr
  /\ UNCHANGED <<relink, dataPath>>

enable_upstream_clocks ==
  Goes("upstream", "interface") /\ UNCHANGED <<relink, swr, dataPath>>

select_phy_interface ==
  Goes("interface", "datapath") /\ UNCHANGED <<relink, swr, dataPath>>

enable_datapath_clocks ==
  Goes("datapath", "retry") /\ UNCHANGED <<relink, swr, dataPath>>

(* Now that the clocks run; at the limit a fresh reset is triggered ...             *)
reset_retry ==
  /\ \/ ~swr /\ Goes("retry", "linear")
     \/ swr /\ tries = MaxTries /\ Goes("retry", "again")
     \/ stage = "retry" /\ swr /\ read_again
  /\ UNCHANGED <<relink, swr, dataPath>>

(* ... and waited for, and the bring-up goes on even if it never ends.              *)
reset_again ==
  /\ \/ (~swr \/ tries = MaxTries) /\ Goes("again", "linear")
     \/ stage = "again" /\ swr /\ read_again
  /\ UNCHANGED <<relink, swr, dataPath>>

(* The hardware, if it does.                                                     *)
ResetEnds ==
  /\ stage \in {"reset", "upstream", "interface", "datapath", "retry", "again"}
  /\ swr /\ swr' = FALSE
  /\ UNCHANGED <<stage, tries, relink, dataPath>>

-----------------------------------------------------------------------------
(* The rings.  Without a linear-memory base from the kernel the driver stays down.   *)
(* An engine still in reset now is left out: it would move no frame, ever.           *)
lin_mem_base ==
  /\ Goes("linear", "rings") \/ Goes("linear", "failed")
  /\ swr' = FALSE
  /\ UNCHANGED <<relink, dataPath>>

program_rings == Goes("rings", "engines") /\ UNCHANGED <<relink, swr, dataPath>>

(* The first packet, and both engines started, before the receive ring is armed.    *)
start_engines ==
  /\ Goes("engines", "arming")
  /\ txDesc' = [txDesc EXCEPT ![0] = 1]
  /\ txTail' = 1 /\ txSent' = 1
  /\ engine' = "run"
  /\ UNCHANGED <<relink, swr, rxDesc, RX_NEXT, pc, watchVars, cur, rbu, mrxf, wedges,
                 TX_NEXT, txCur>>

(* A write of the tail, or of the control register, may leave an engine suspended    *)
(* while RBU is asserted.                                                        *)
MayResume == engine' \in IF engine = "suspended" THEN {"run", "suspended"} ELSE {engine}

arm_receive ==
  /\ Goes("arming", "status")
  /\ rxDesc' = [i \in Descs |-> Own]
  /\ MayResume
  /\ UNCHANGED <<relink, swr, RX_NEXT, pc, watchVars, cur, rbu, mrxf, wedges, gmacTx>>

(* The status bits are cleared, by this and the next two ...                        *)
ClearStatus ==
  /\ rbu' = FALSE
  /\ UNCHANGED <<relink, swr, rxDesc, RX_NEXT, pc, watchVars, cur, engine, mrxf, wedges,
                 gmacTx>>

clear_status == Goes("status", "filter") /\ ClearStatus

address_filter == Goes("filter", "queues") /\ ClearStatus

mtl_queues == Goes("queues", "second") /\ ClearStatus

(* ... and once more after a second packet, through descriptor 1; TX_NEXT stays 0.    *)
second_packet ==
  /\ Goes("second", "settle")
  /\ txDesc' = [txDesc EXCEPT ![1] = 2]
  /\ txTail' = 2 /\ txSent' = 2
  /\ MayResume
  /\ UNCHANGED <<relink, swr, rxDesc, RX_NEXT, pc, watchVars, cur, rbu, mrxf, wedges,
                 TX_NEXT, txCur>>

settle == Goes("settle", "smoltcp") /\ ClearStatus

(* nic_iface::init, and nic_set_mac tells the kernel.                              *)
smoltcp_up ==
  /\ Goes("smoltcp", "up") \/ Goes("smoltcp", "failed")
  /\ UNCHANGED <<relink, swr, dataPath>>

-----------------------------------------------------------------------------
GmacInit ==
  /\ stage = "clocks" /\ tries = 0 /\ relink = FALSE /\ swr = TRUE
  /\ rxDesc = [i \in Descs |-> Bad] /\ RX_NEXT = 0
  /\ pc = <<"idle">>
  /\ polls = 0 /\ snaps = 0
  /\ MRXF_STALL_STREAK = 0 /\ LAST_MRXF = 0 /\ RECOVER_COOLDOWN = 0
  /\ cur = 0 /\ engine = "off" /\ rbu = FALSE /\ mrxf = 0 /\ wedges = 0
  /\ txCur = 0 /\ txDesc = [i \in Descs |-> Free]
  /\ TX_NEXT = 0 /\ txTail = 0 /\ txSent = 0

BringUp ==
  \/ enable_bus_clocks \/ configure_phy \/ look_at_link \/ negotiate \/ soft_reset
  \/ enable_upstream_clocks \/ select_phy_interface \/ enable_datapath_clocks
  \/ reset_retry \/ reset_again
  \/ lin_mem_base \/ program_rings \/ start_engines \/ arm_receive \/ clear_status
  \/ address_filter \/ mtl_queues \/ second_packet \/ settle \/ smoltcp_up

Poll ==
  \/ begin_receive \/ scan \/ kick \/ token_consume \/ token_drop
  \/ watch \/ snapshot \/ decide \/ vf2_rx_channel_recover \/ doorbell

GmacNext ==
  BringUp \/ Poll \/ transmit \/ ResetEnds \/ Receives \/ Wedges \/ Transmits

-----------------------------------------------------------------------------
(* A frame that the engine delivered stays in its descriptor until smoltcp has    *)
(* read it: no re-arm overwrites one ("its descriptor overwritten with OWN=1 and   *)
(* silently discarded", drivers/net, of the build that re-armed twice).  The        *)
(* recovery re-arms a ring that the walk found empty, while frames go on coming:   *)
(* it may lose only those the MAC counted after the snapshot it decided by.        *)
FramesKept ==
  [][\A i \in Descs :
       rxDesc[i] \in Good /\ rxDesc'[i] # rxDesc[i] =>
         \/ pc = <<"token", i>>
         \/ pc[1] = "halted" /\ rxDesc[i] > pc[3]]_gmacVars

(* An engine that suspended (RBU) or stopped (RBU clear) runs again, once the     *)
(* MAC has counted a frame: "a suspended channel cannot recover through the       *)
(* re-arm path" (drivers/net, RX watchdog).                                       *)
EngineRecovers == (stage = "up" /\ engine # "run" /\ mrxf # 0) ~> engine = "run"

(* A PHY without a link, a reset that never ends: the boot goes on.               *)
BringUpEnds == stage # "clocks" ~> stage \in {"up", "failed"}

(* A frame on its way out is never overwritten, though tokens that come with a     *)
(* received frame are minted without looking at the ring.                          *)
InFlightKept ==
  [][\A i \in Descs :
       txDesc[i] # Free /\ txDesc'[i] # txDesc[i] => i = txCur /\ txDesc'[i] = Free]_gmacVars
=============================================================================
