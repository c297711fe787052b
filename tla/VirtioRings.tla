----------------------------- MODULE VirtioRings -----------------------------
(***************************************************************************)
(* The VirtIO-net driver of the QEMU board (drivers/net): the bring-up       *)
(* handshake, the receive virtqueue it shares with the device, and its       *)
(* transmit queue of one buffer.  The driver is interpreted code in linear   *)
(* memory; the device reads and writes the rings while it runs, so each      *)
(* store the device can see is a step of its own.                            *)
(*                                                                         *)
(* Frames are numbered in the order they come, modulo FrameMod, so that loss,  *)
(* repetition and reordering all show.                                       *)
(***************************************************************************)
EXTENDS Integers, FiniteSets, Sequences

CONSTANTS QueueSize,   (* QUEUE_SIZE, and RX_BUF_COUNT.                      *)
          IdxMod,      (* 2^16, the range of ring indices.                   *)
          MaxSends     (* Bound: frames the driver sends.                    *)

ASSUME VirtioAssumption ==
  /\ QueueSize \in Nat \ {0} /\ IdxMod \in Nat
  /\ IdxMod % QueueSize = 0 /\ IdxMod > QueueSize
  /\ MaxSends \in Nat

VARIABLES
  status,                  (* How far init_virtio and driver_start have come. *)
  initialized,             (* Net.initialized, set by nic_set_mac.            *)
  avail, availIdx,         (* RX_AVAIL: ring and idx.                         *)
  used, usedIdx,           (* RX_USED: ring and idx.                          *)
  buf,                     (* Frame in each RX buffer.                        *)
  RX_AVAIL_NEXT, RX_USED_SEEN,
  rx,                      (* What the driver does with a received buffer.    *)
  devAvail,                (* Device: available entries it has taken.         *)
  writing,                 (* Device: an entry written but not yet published. *)
  arrived, passed,         (* Frames put in a buffer; given to smoltcp.        *)
  txAvail, txAvailIdx,     (* TX_AVAIL.                                       *)
  txBuf,                   (* Frame in TX_BUF.                                *)
  txDev, sent, wire        (* Device: entries taken; frames sent; transmitted. *)

rxVars == <<avail, availIdx, used, usedIdx, buf, RX_AVAIL_NEXT, RX_USED_SEEN,
            rx, devAvail, writing, arrived, passed>>
txVars == <<txAvail, txAvailIdx, txBuf, txDev, sent, wire>>
virtioVars == <<status, initialized, rxVars, txVars>>

Entries  == 0 .. QueueSize - 1
FrameMod == 2 * QueueSize
NoFrame  == FrameMod
Bump(i)  == (i + 1) % IdxMod

-----------------------------------------------------------------------------
(* Bring-up.                                                                 *)

(* init_virtio: reset, ACKNOWLEDGE, DRIVER, the features, both queues, the    *)
(* self-check of the DMA host function.  A device that is absent, too old or  *)
(* refuses a feature or a queue size ends it.                                 *)
Stages == <<"reset", "acknowledge", "driver", "features_ok", "rx_attached",
            "attached", "checked">>

Handshake ==
  /\ \E k \in 1 .. Len(Stages) - 1 :
       status = Stages[k] /\ status' \in {Stages[k + 1], "failed"}
  /\ UNCHANGED <<initialized, rxVars, txVars>>

populate_rx_short ==
  /\ status = "checked" /\ status' = "populated"
  /\ avail' = [i \in Entries |-> i]
  /\ availIdx' = QueueSize
  /\ RX_AVAIL_NEXT' = QueueSize - 1
  /\ UNCHANGED <<initialized, used, usedIdx, buf, RX_USED_SEEN, rx, devAvail,
                 writing, arrived, passed, txVars>>

(* All buffers are offered, the index last.                                   *)
populate_rx ==
  /\ status = "checked" /\ status' = "populated"
  /\ avail' = [i \in Entries |-> i]
  /\ availIdx' = QueueSize
  /\ RX_AVAIL_NEXT' = QueueSize
  /\ UNCHANGED <<initialized, used, usedIdx, buf, RX_USED_SEEN, rx, devAvail,
                 writing, arrived, passed, txVars>>

driver_ok ==
  /\ status = "populated" /\ status' = "driver_ok"
  /\ UNCHANGED <<initialized, rxVars, txVars>>

(* driver_start: the MAC address was read; the kernel may install the driver. *)
nic_set_mac ==
  /\ status = "driver_ok" /\ status' = "up"
  /\ initialized' = TRUE
  /\ UNCHANGED <<rxVars, txVars>>

-----------------------------------------------------------------------------
(* Receive, driver side.  rx is <<"idle">>, <<"token", d>> while smoltcp reads *)
(* buffer d, <<"append", d>> once its descriptor is rewritten.                 *)
rx_pop_late_index ==
  /\ status = "up" /\ rx = <<"idle">>
  /\ usedIdx # RX_USED_SEEN
  /\ rx' = <<"token", used[Bump(RX_USED_SEEN) % QueueSize]>>
  /\ RX_USED_SEEN' = Bump(RX_USED_SEEN)
  /\ UNCHANGED <<status, initialized, avail, availIdx, used, usedIdx, buf,
                 RX_AVAIL_NEXT, devAvail, writing, arrived, passed, txVars>>

rx_pop ==
  /\ status = "up" /\ rx = <<"idle">>
  /\ usedIdx # RX_USED_SEEN
  /\ rx' = <<"token", used[RX_USED_SEEN % QueueSize]>>
  /\ RX_USED_SEEN' = Bump(RX_USED_SEEN)
  /\ UNCHANGED <<status, initialized, avail, availIdx, used, usedIdx, buf,
                 RX_AVAIL_NEXT, devAvail, writing, arrived, passed, txVars>>

(* NicRxToken::consume: smoltcp has read the frame; rx_recycle begins.         *)
consume ==
  /\ rx[1] = "token"
  /\ passed' = (passed + 1) % FrameMod
  /\ avail' = [avail EXCEPT ![RX_AVAIL_NEXT % QueueSize] = rx[2]]
  /\ rx' = <<"append", rx[2]>>
  /\ UNCHANGED <<status, initialized, availIdx, used, usedIdx, buf,
                 RX_AVAIL_NEXT, RX_USED_SEEN, devAvail, writing, arrived, txVars>>

rx_recycle ==
  /\ rx[1] = "append"
  /\ RX_AVAIL_NEXT' = Bump(RX_AVAIL_NEXT)
  /\ availIdx' = RX_AVAIL_NEXT'
  /\ rx' = <<"idle">>
  /\ UNCHANGED <<status, initialized, avail, used, usedIdx, buf, RX_USED_SEEN,
                 devAvail, writing, arrived, passed, txVars>>

-----------------------------------------------------------------------------
(* Receive, device side (VirtIO 1.2, 2.7): a frame goes to the next buffer     *)
(* offered, its used entry is written, then the used index.                    *)
DeviceWrites ==
  /\ status \in {"driver_ok", "up"}
  /\ ~writing /\ devAvail # availIdx
  /\ LET d == avail[devAvail % QueueSize]
     IN  /\ buf' = [buf EXCEPT ![d] = arrived]
         /\ used' = [used EXCEPT ![usedIdx % QueueSize] = d]
  /\ devAvail' = Bump(devAvail)
  /\ arrived' = (arrived + 1) % FrameMod
  /\ writing' = TRUE
  /\ UNCHANGED <<status, initialized, avail, availIdx, usedIdx, RX_AVAIL_NEXT,
                 RX_USED_SEEN, rx, passed, txVars>>

DevicePublishes ==
  /\ writing /\ writing' = FALSE
  /\ usedIdx' = Bump(usedIdx)
  /\ UNCHANGED <<status, initialized, avail, availIdx, used, buf,
                 RX_AVAIL_NEXT, RX_USED_SEEN, rx, devAvail, arrived, passed, txVars>>

-----------------------------------------------------------------------------
(* Transmit: descriptor 0 and TX_BUF each time, from a poll or from within      *)
(* the handling of a received frame.  TX_USED_SEEN is never written.            *)
TX_USED_SEEN == 0

tx_send ==
  /\ status = "up" /\ rx[1] \in {"idle", "token"}
  /\ sent < MaxSends
  /\ sent' = sent + 1
  /\ txBuf' = sent'
  /\ LET new_idx == (TX_USED_SEEN + 1) % QueueSize
     IN  /\ txAvail' = [txAvail EXCEPT ![new_idx % QueueSize] = 0]
         /\ txAvailIdx' = Bump(new_idx)
  /\ UNCHANGED <<status, initialized, rxVars, txDev, wire>>

(* The device transmits what the next available entry names.                   *)
DeviceSends ==
  /\ txDev # txAvailIdx
  /\ wire' = Append(wire, txBuf)
  /\ txDev' = Bump(txDev)
  /\ UNCHANGED <<status, initialized, rxVars, txAvail, txAvailIdx, txBuf, sent>>

-----------------------------------------------------------------------------
VirtioInit ==
  /\ status = "reset" /\ initialized = FALSE
  /\ avail = [i \in Entries |-> 0] /\ availIdx = 0
  /\ used = [i \in Entries |-> 0] /\ usedIdx = 0
  /\ buf = [i \in Entries |-> NoFrame]
  /\ RX_AVAIL_NEXT = 0 /\ RX_USED_SEEN = 0
  /\ rx = <<"idle">>
  /\ devAvail = 0 /\ writing = FALSE
  /\ arrived = 0 /\ passed = 0
  /\ txAvail = [i \in Entries |-> 0] /\ txAvailIdx = 0
  /\ txBuf = 0 /\ txDev = 0 /\ sent = 0 /\ wire = <<>>

VirtioNext ==
  \/ Handshake \/ populate_rx \/ driver_ok \/ nic_set_mac
  \/ rx_pop \/ consume \/ rx_recycle \/ tx_send
  \/ DeviceWrites \/ DevicePublishes \/ DeviceSends

-----------------------------------------------------------------------------
(* Entries of a ring between two of its indices.                                *)
Between(ring, from, to) ==
  [k \in 1 .. (to - from) % IdxMod |-> ring[(from + k - 1) % QueueSize]]

WithDevice == Between(avail, devAvail, availIdx)
Delivered  == Between(used, RX_USED_SEEN,
                      IF writing THEN Bump(usedIdx) ELSE usedIdx)
Held       == IF rx = <<"idle">> THEN <<>> ELSE <<rx[2]>>

(* A buffer that the driver hands to smoltcp "remains owned by the driver until *)
(* rx_recycle is called" (drivers/net, driver_rx_pop): from DRIVER_OK on each    *)
(* buffer is offered to the device, or filled, or in the driver's hands, never   *)
(* two of them, and none gets lost, also when the indices wrap.                  *)
BufferInOnePlace ==
  status \in {"driver_ok", "up"} =>
    LET all == WithDevice \o Delivered \o Held
    IN  /\ Len(all) = QueueSize
        /\ {all[k] : k \in 1 .. Len(all)} = Entries

(* smoltcp is given every frame the device took, once and in order.              *)
FramesInOrder == rx[1] = "token" => buf[rx[2]] = passed

(* "Available ring: bump idx to publish the descriptor", then 0 for success      *)
(* (drivers/net, driver_tx_send): once the device has taken all that the driver  *)
(* published, each frame sent went out once.                                     *)
SentOnWire == txDev = txAvailIdx => wire = [k \in 1 .. sent |-> k]
=============================================================================
