------------------------------ MODULE Interrupts ------------------------------
(***************************************************************************)
(* External interrupts: the PLIC's claim and complete cycle as the trap     *)
(* handler runs it (kernel/src/mmio/plic.rs, trap.rs), the two guards that   *)
(* keep an interrupt storm from wedging the hart, and the console: Ctrl-R    *)
(* read in trap context, or by the idle loop (main.rs).                      *)
(*                                                                         *)
(* Lines are level triggered.  A trap preempts everything else, and is one   *)
(* step because S-mode interrupts are masked while the handler runs.         *)
(***************************************************************************)
EXTENDS Naturals, Sequences

CONSTANTS
  UartIrq, NicIrq,  (* UART0, and the NIC: the source bound to a Notification. *)
  SameIrqLimit,     (* SAME_IRQ_LIMIT, 10_000.                               *)
  SpuriousLimit,    (* SPURIOUS_LIMIT, 1000.                                 *)
  FifoSize,         (* Bytes the UART holds; it loses the ones that follow.   *)
  MaxKeys           (* How often a key is struck.                            *)

Sources == {UartIrq, NicIrq}
Keys    == {"Ctrl-R", "other"}

ASSUME SourcesAssumption ==
  /\ UartIrq \in Nat \ {0} /\ NicIrq \in Nat \ {0} /\ UartIrq # NicIrq

ASSUME LimitsAssumption ==
  /\ SameIrqLimit \in Nat \ {0} /\ SpuriousLimit \in Nat \ {0}
  /\ FifoSize \in Nat \ {0} /\ MaxKeys \in Nat

VARIABLES
  rx,           (* The UART's receive FIFO.                                  *)
  busyDetect,   (* The DesignWare latch that only a read of USR clears.      *)
  nicLine,      (* The NIC asserts its line; no driver ever acknowledges it.  *)
  stray,        (* An external interrupt is pending that cannot be claimed.   *)
  enabled,      (* Sources with a priority above the threshold.              *)
  seie,         (* sie.SEIE.                                                 *)
  SPURIOUS_RUN, LAST_IRQ, LAST_IRQ_RUN,
  signalled,    (* The NIC's Notification has a signal bit set.               *)
  up,           (* system_reset has not been called.                         *)
  idle,         (* Every tenant has exited; the idle loop runs.               *)
  struck,       (* How many keys have been struck.                           *)
  calm          (* History: sources whose line was low at some point of       *)
                (* their current run of claims.                              *)

guards  == <<SPURIOUS_RUN, LAST_IRQ, LAST_IRQ_RUN>>
devices == <<rx, busyDetect, nicLine, stray>>
vars == <<devices, enabled, seie, guards, signalled, up, idle, struck, calm>>

Asserted(irq) ==
  IF irq = UartIrq THEN rx # << >> \/ busyDetect ELSE nicLine

(* The claim register: the lowest number of equal priority, or 0.            *)
Claimable == {irq \in enabled : Asserted(irq)}

Claims(irq) == irq \in Claimable /\ \A other \in Claimable : irq <= other

TrapPending == up /\ seie /\ (Claimable # {} \/ stray)

(* A line that is low is noted before anything may raise it.                 *)
NoteCalm == calm' = calm \cup {irq \in Sources : ~Asserted(irq)}

-----------------------------------------------------------------------------
(* plic::dispatch, one claim per trap.                                      *)

(* Mutants, here and below: the definition that follows with a slip in it.   *)
(* A claim of 0: nothing can be completed, so after SPURIOUS_LIMIT of them    *)
(* in a row the hart stops listening.                                        *)
dispatch_spurious ==
  /\ TrapPending /\ Claimable = {}
  /\ SPURIOUS_RUN' = SPURIOUS_RUN + 1
  /\ seie' = (SPURIOUS_RUN + 1 < SpuriousLimit)
  /\ UNCHANGED <<devices, enabled, LAST_IRQ, LAST_IRQ_RUN, signalled, up, idle, struck, calm>>

Run_wraps(irq) ==
  IF irq = LAST_IRQ /\ LAST_IRQ_RUN + 1 < SameIrqLimit THEN LAST_IRQ_RUN + 1 ELSE 1

Run(irq) == IF irq = LAST_IRQ THEN LAST_IRQ_RUN + 1 ELSE 1

Claim(irq) ==
  /\ TrapPending /\ Claims(irq)
  /\ SPURIOUS_RUN' = 0
  /\ LAST_IRQ' = irq
  /\ LAST_IRQ_RUN' = Run(irq)
  /\ calm' = IF irq = LAST_IRQ THEN calm ELSE calm \ {irq}
  /\ UNCHANGED <<nicLine, stray, seie, idle, struck>>

(* The stuck-source guard gives the source up instead of handling it.        *)
dispatch_stuck(irq) ==
  /\ Claim(irq)
  /\ Run(irq) = SameIrqLimit
  /\ enabled' = enabled \ {irq}
  /\ UNCHANGED <<rx, busyDetect, signalled, up>>

dispatch_uart_drains_only ==
  /\ Claim(UartIrq)
  /\ Run(UartIrq) # SameIrqLimit
  /\ busyDetect' = FALSE /\ rx' = << >>
  /\ UNCHANGED <<enabled, signalled, up>>

(* Clears the latch and reads the FIFO up to a Ctrl-R, which resets.         *)
dispatch_uart ==
  /\ Claim(UartIrq)
  /\ Run(UartIrq) # SameIrqLimit
  /\ busyDetect' = FALSE /\ rx' = << >>
  /\ up' = \A i \in DOMAIN rx : rx[i] # "Ctrl-R"
  /\ UNCHANGED <<enabled, signalled>>

(* Signals the bound notification; the line stays as it is.                  *)
dispatch_bound ==
  /\ Claim(NicIrq)
  /\ Run(NicIrq) # SameIrqLimit
  /\ signalled' = TRUE
  /\ UNCHANGED <<rx, busyDetect, enabled, up>>

dispatch ==
  \/ dispatch_spurious
  \/ \E irq \in Sources : dispatch_stuck(irq)
  \/ dispatch_uart
  \/ dispatch_bound

-----------------------------------------------------------------------------
(* The rest of the kernel and the world, when no trap is pending.            *)

(* One turn of the idle loop that finds a byte.                              *)
idle_poll ==
  /\ up /\ idle /\ ~TrapPending /\ rx # << >>
  /\ rx' = Tail(rx)
  /\ up' = (Head(rx) # "Ctrl-R")
  /\ UNCHANGED <<busyDetect, nicLine, stray, enabled, seie, guards, signalled, idle, struck, calm>>

TenantsExit ==
  /\ up /\ ~idle /\ ~TrapPending
  /\ idle' = TRUE
  /\ UNCHANGED <<devices, enabled, seie, guards, signalled, up, struck, calm>>

Strike(key) ==
  /\ up /\ struck < MaxKeys
  /\ struck' = struck + 1
  /\ rx' = IF Len(rx) < FifoSize THEN Append(rx, key) ELSE rx
  /\ NoteCalm
  /\ UNCHANGED <<busyDetect, nicLine, stray, enabled, seie, guards, signalled, up, idle>>

PacketArrives ==
  /\ up /\ ~nicLine
  /\ nicLine' = TRUE
  /\ NoteCalm
  /\ UNCHANGED <<rx, busyDetect, stray, enabled, seie, guards, signalled, up, idle, struck>>

(* Delivery is unmasked last in boot.  QEMU enables both sources; the VF2     *)
(* only its UART, whose latch init itself may have set.  A key may have been  *)
(* struck, and a packet may have come, before.                               *)
Init ==
  /\ \/ enabled = Sources /\ busyDetect = FALSE
     \/ enabled = {UartIrq} /\ busyDetect \in BOOLEAN
  /\ rx \in {<< >>} \cup {<<key>> : key \in Keys}
  /\ nicLine \in BOOLEAN /\ stray \in BOOLEAN
  /\ seie = TRUE
  /\ SPURIOUS_RUN = 0 /\ LAST_IRQ = 0 /\ LAST_IRQ_RUN = 0
  /\ signalled = FALSE /\ up = TRUE /\ idle = FALSE
  /\ struck = 0 /\ calm = {}

Next ==
  \/ dispatch
  \/ idle_poll
  \/ TenantsExit
  \/ \E key \in Keys : Strike(key)
  \/ PacketArrives

(* A trap is taken as long as it is pending, and the idle loop goes round.   *)
Spec == Init /\ [][Next]_vars /\ WF_vars(dispatch) /\ WF_vars(idle_poll)

-----------------------------------------------------------------------------
(* No storm wedges the hart: with stuck sources, unclaimable interrupts, or   *)
(* both at once, execution gets back out of the trap handler again and again  *)
(* (plic.rs, the two guards).                                                *)
StormEnds == []<>(~TrapPending)

(* A Ctrl-R that reached the UART resets the board whatever the scheduler is  *)
(* doing (main.rs), until a guard has given the console's interrupt up.  Then  *)
(* "Console reboot falls back to idle polling" (plic.rs): the key in the FIFO  *)
(* is found once the tenants are gone.                                       *)
ConsoleListens == UartIrq \in enabled /\ seie

ReceivedCtrlR == \E i \in DOMAIN rx : rx[i] = "Ctrl-R"

KeyReboots ==
  /\ (ReceivedCtrlR /\ ConsoleListens) ~> (~up \/ ~ConsoleListens)
  /\ (ReceivedCtrlR /\ idle) ~> ~up

(* SAME_IRQ_LIMIT: "Repeats of one IRQ before we conclude the source is stuck *)
(* asserted and disable it. Real traffic never repeats this many times        *)
(* without the handler making the source go quiet at least once."  So a        *)
(* source that went quiet during its run of claims is not disabled.          *)
OnlyStuckDisabled == [][\A irq \in enabled \ enabled' : irq \notin calm]_vars
=============================================================================
