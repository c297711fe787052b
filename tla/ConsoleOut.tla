------------------------------- MODULE ConsoleOut -------------------------------
(***************************************************************************)
(* What a tenant prints, from fd_write (kernel/src/runtime/wasi.rs) through the   *)
(* UART driver's instance (runtime/tier2_uart.rs, drivers/uart) and the gate on    *)
(* its registers (runtime/host_fns.rs) to the FIFO of the UART, which a trap       *)
(* handler that reports something prints into as well (mmio/uart_ns16550.rs).      *)
(*                                                                         *)
(* A step is one call of a host function, one byte the handler writes, or one the  *)
(* UART shifts out.  The bytes of tenants are positive, those of the kernel 0.     *)
(***************************************************************************)
LOCAL INSTANCE Integers
LOCAL INSTANCE Sequences

CONSTANTS
  UART_MMIO_LEN,
  FD_WRITE_MAX,
  FifoDepth,    (* Bytes the UART's transmit FIFO holds.                       *)
  Calls,        (* What tenants ask for: [fd, iovs, iov_ok, buf_ok, out_ok, bytes], *)
                (* three of them about addresses inside linear memory.           *)
  MaxTexts,     (* Bound: calls, and lines the handler prints.                  *)
  MaxLine       (* Bound: bytes of a line of the handler.                       *)

ASSUME ConsoleAssumption ==
  /\ UART_MMIO_LEN \in Nat /\ UART_MMIO_LEN > 5    (* The status register is in.  *)
  /\ FD_WRITE_MAX \in Nat /\ MaxTexts \in Nat /\ MaxLine \in Nat
  /\ FifoDepth \in Nat /\ FifoDepth > 1             (* The FIFO is switched on.    *)
  /\ \A c \in Calls : c.bytes \in Seq(Nat \ {0})

VARIABLES
  UART_REG_STRIDE, (* 1 on QEMU, 4 on the VF2.                                  *)
  stdout,       (* Slot 0 of the tenant has the UART endpoint with WRITE.        *)
  receives,     (* Slot 0 of the driver has it with READ.                       *)
  left,         (* What the driver has still to put of the call under way.       *)
  polled,       (* put_byte has seen THRE and is about to write.                *)
  call, answer, (* The call under way or done, and what it returned.            *)
  line,         (* What the handler has still to print.                        *)
  uart,         (* [fifo, wire, lost].                                        *)
  handed        (* History: [tenant, kernel], all that was to be printed.        *)

consoleVars == <<UART_REG_STRIDE, stdout, receives, left, polled, call, answer,
                 line, uart, handed>>
authority == <<UART_REG_STRIDE, stdout, receives>>

NoCall == [fd |-> 0, bytes |-> << >>]
Going  == [errno |-> "none", nwritten |-> 0]
Quiet  == [fifo |-> << >>, wire |-> << >>, lost |-> << >>]

UART_THR_REG == 0
UART_LSR_REG == 5

(* Registers are addressed from UART_BASE on, which every board has at one place.   *)
reg_addr(reg) == reg * UART_REG_STRIDE
is_uart_mmio_addr(addr) == addr < UART_MMIO_LEN

Returned(errno, n) == [errno |-> errno, nwritten |-> n]

(* A byte into the transmit register: an overrun when there is no room.             *)
Transmit(byte) ==
  IF Len(uart.fifo) < FifoDepth THEN [uart EXCEPT !.fifo = Append(@, byte)]
                                ELSE [uart EXCEPT !.lost = Append(@, byte)]

-----------------------------------------------------------------------------
Gate(reg) == receives /\ is_uart_mmio_addr(reg_addr(reg))

(* A refused read returns all ones, which a driver takes for a register's value.    *)
host_mmio_read8_THRE == Gate(UART_LSR_REG) => uart.fifo = << >>

write_nwritten(c, n) == IF c.out_ok THEN Returned("ESUCCESS", n) ELSE Returned("EFAULT", 0)

AtMost(a, b) == IF a < b THEN a ELSE b

(* Up to the driver's export, or to the first thing that is wrong.                 *)
host_fd_write(c) ==
  LET refused(errno) == answer' = Returned(errno, 0) /\ UNCHANGED <<left, handed>>
      push == SubSeq(c.bytes, 1, AtMost(Len(c.bytes), FD_WRITE_MAX))
  IN  /\ line = 0 /\ answer # Going
      /\ call' = c
      /\ IF ~stdout THEN refused("EPERM")
         ELSE IF c.fd # 1 THEN refused("EBADF")
         ELSE IF c.iovs = 0 THEN answer' = write_nwritten(c, 0) /\ UNCHANGED <<left, handed>>
         ELSE IF ~c.iov_ok \/ ~c.buf_ok THEN refused("EFAULT")
         ELSE /\ left' = push /\ answer' = Going
              /\ handed' = [handed EXCEPT !.tenant = @ \o push]
      /\ UNCHANGED <<authority, polled, line, uart>>

(* One turn of the driver's loop on the line status register.                      *)
poll ==
  /\ line = 0 /\ answer = Going /\ left # << >> /\ ~polled
  /\ host_mmio_read8_THRE
  /\ polled' = TRUE
  /\ UNCHANGED <<authority, left, call, answer, line, uart, handed>>

(* Mutant: the definition that follows with a slip in it.                         *)
put_byte_polled_once ==
  /\ line = 0 /\ answer = Going /\ polled
  /\ polled' = (receives /\ Len(left) > 1)
  /\ left' = IF receives THEN Tail(left) ELSE << >>
  /\ uart' = IF receives THEN Transmit(Head(left)) ELSE uart
  /\ answer' = IF receives THEN Going ELSE Returned("EIO", 0)
  /\ UNCHANGED <<authority, call, line, handed>>

put_byte ==
  LET ok == Gate(UART_THR_REG)
  IN  /\ line = 0 /\ answer = Going /\ polled
      /\ polled' = FALSE
      /\ left' = IF ok THEN Tail(left) ELSE << >>
      /\ uart' = IF ok THEN Transmit(Head(left)) ELSE uart
      /\ answer' = IF ok THEN Going ELSE Returned("EIO", 0)
      /\ UNCHANGED <<authority, call, line, handed>>

(* The driver returns the length it was given, and fd_write passes it on.           *)
fd_write_returns ==
  /\ line = 0 /\ answer = Going /\ left = << >>
  /\ answer' = write_nwritten(call, AtMost(Len(call.bytes), FD_WRITE_MAX))
  /\ UNCHANGED <<authority, left, polled, call, line, uart, handed>>

-----------------------------------------------------------------------------
(* A trap between any two host calls, or inside one, prints a line, byte by byte.    *)
Trap ==
  /\ line = 0 /\ handed.kernel < MaxTexts * MaxLine
  /\ line' = MaxLine /\ handed' = [handed EXCEPT !.kernel = @ + MaxLine]
  /\ UNCHANGED <<authority, left, polled, call, answer, uart>>

(* The handler reads the status register by its own address and no gate.            *)
putc ==
  /\ line > 0 /\ uart.fifo = << >>
  /\ uart' = Transmit(0) /\ line' = line - 1
  /\ UNCHANGED <<authority, left, polled, call, answer, handed>>

ShiftOut ==
  /\ uart.fifo # << >>
  /\ uart' = [uart EXCEPT !.fifo = Tail(@), !.wire = Append(@, Head(uart.fifo))]
  /\ UNCHANGED <<authority, left, polled, call, answer, line, handed>>

ConsoleInit ==
  /\ UART_REG_STRIDE \in {1, 4} /\ stdout \in BOOLEAN /\ receives \in BOOLEAN
  /\ left = << >> /\ polled = FALSE /\ call = NoCall /\ answer = Returned("none yet", 0)
  /\ line = 0 /\ uart = Quiet /\ handed = [tenant |-> << >>, kernel |-> 0]

ConsoleNext ==
  \/ \E c \in Calls : Len(handed.tenant) <= (MaxTexts - 1) * FD_WRITE_MAX /\ host_fd_write(c)
  \/ poll \/ put_byte \/ fd_write_returns
  \/ Trap \/ putc \/ ShiftOut

-----------------------------------------------------------------------------
Printed == uart.wire \o uart.fifo

(* The bytes of tenants among the first so many of what was printed.                 *)
Kept(s) ==
  LET kept[n \in 0 .. Len(s)] ==
        IF n = 0 THEN << >>
        ELSE IF s[n] # 0 THEN Append(kept[n - 1], s[n]) ELSE kept[n - 1]
  IN  kept
OfTenants(s) == Kept(s)[Len(s)]

(* Every byte that fd_write accepted goes out once, in order, whatever the kernel     *)
(* prints in between, whose own bytes all go out too; the count a tenant is told is   *)
(* that of the bytes that did; and without the caps on both sides not one does.       *)
(* The VF2 is excepted from the first: its status register lies at offset 20, beyond  *)
(* the 8 bytes the gate passes, so the driver never waits and the FIFO overruns.      *)
ConsoleWhole ==
  /\ UART_REG_STRIDE = 1 /\ receives =>
       /\ OfTenants(Printed) \o left = handed.tenant
       /\ Len(Printed) - Len(OfTenants(Printed)) = handed.kernel - line
       /\ uart.lost = << >>
  /\ answer.errno = "ESUCCESS" =>
       answer.nwritten = IF call.iovs = 0 THEN 0 ELSE AtMost(Len(call.bytes), FD_WRITE_MAX)
  /\ ~(stdout /\ receives) => OfTenants(Printed \o uart.lost) = << >>

=============================================================================
