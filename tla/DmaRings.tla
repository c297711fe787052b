-------------------------------- MODULE DmaRings --------------------------------
(***************************************************************************)
(* What the kernel checks between a Tier-2 network driver and its device           *)
(* (kernel/src/cap/dma.rs, runtime/host_fns.rs, wari-validate).  The driver names     *)
(* rings and buffers by offsets in its own linear memory, which the kernel turns      *)
(* into the addresses the device follows, and it reads and writes device registers    *)
(* inside the windows its board licenses, among them registers that take an           *)
(* address.  It holds the Net cap with any rights or not at all, and calls with any    *)
(* arguments in any order.                                                     *)
(*                                                                         *)
(* Not every address passes a check.  The driver stores into its own memory, the        *)
(* descriptors in it included, as it likes, and on the VF2 it writes the engine's      *)
(* list and tail registers itself (INV-20 gap 3; INV-25 Status, "GMAC (VF2): not       *)
(* yet").  Both are steps here, with any value, and nothing is claimed of them.        *)
(*                                                                         *)
(* Linear memory is counted in cells of 8 bytes, the size of the address field         *)
(* that a descriptor of two cells starts with, and a physical address by its           *)
(* distance from the memory's first cell; registers in bytes.                      *)
(***************************************************************************)
LOCAL INSTANCE Integers

CONSTANTS
  U32,          (* 2^32, in cells.                                            *)
  MaxQueue,     (* Queue size nic_attach_queue takes at most: 256.             *)
  MaxEntries,   (* MAX_RING_ENTRIES.                                         *)
  MemLens,      (* Sizes the linear memory may have; 0 when none is exported.   *)
  Rings,        (* Of 0 (receive) and 1 (transmit).                           *)
  Places,       (* Bound: the cells tried for the available and the used ring,   *)
                (* and for what the driver writes and stores itself.           *)
  Authorities   (* Bound: the rights of the Net cap a driver may have at slot 0. *)

ASSUME DmaAssumption ==
  /\ U32 \in Nat /\ MaxQueue \in Nat /\ MaxEntries \in Nat
  /\ MemLens \subseteq 0 .. U32 - 1 /\ Rings \subseteq {0, 1}
  /\ Places \subseteq 0 .. U32 - 1
  /\ Authorities \subseteq SUBSET {"READ", "WRITE"}

VARIABLES
  board,
  held,         (* Of Authorities; none for no Net cap.                         *)
  mem_len,
  dma_rings,    (* What the kernel recorded of each ring.                      *)
  device,       (* What the address registers of each queue point at, and the   *)
                (* size nic_attach_queue gave it.                             *)
  store,        (* The last address stored, by whom: [by, at, off, len].         *)
  access        (* The last access to a register: [addr, width, write].         *)

dmaVars == <<board, held, mem_len, dma_rings, device, store, access>>

Offsets == 0 .. U32 - 1
Sizes   == 0 .. MaxQueue + 1
NoRing  == [desc_off |-> 0, entries |-> 0]
NoQueue == [table |-> -1, avail |-> -1, used |-> -1, size |-> 0]
NoStore == [by |-> "nobody", at |-> -1, off |-> 0, len |-> 0]
NoAccess == [addr |-> 0, width |-> 0, write |-> FALSE]

DESC_SIZE == 2
PowerOfTwo(n) == n \in {1, 2, 4, 8, 16, 32, 64, 128, 256}
Span(bytes)   == (bytes + 7) \div 8

-----------------------------------------------------------------------------
(* The windows of each board: the registers a network driver may touch, the        *)
(* regions the kernel maps, and the registers that take a DMA address.            *)
Window(base, len) == [base |-> base, len |-> len]

QemuWindows ==
  [net      |-> {Window(\h10008000, \h200)},
   regions  |-> {Window(\h10001000, \h8000)},
   dma_regs |-> {Window(\h10008080, 8), Window(\h10008090, 8), Window(\h100080a0, 8)}]

Vf2Net ==
  {Window(\h16030000, \h20000), Window(\h10230000, \h10000), Window(\h13020000, \h10000),
   Window(\h13030000, \h1000), Window(\h17000000, \h10000), Window(\h17010000, \h1000)}

(* The same windows, written out a second time (MMIO_REGIONS).                    *)
Vf2Regions ==
  {Window(\h16030000, \h20000), Window(\h10230000, \h10000), Window(\h13020000, \h10000),
   Window(\h13030000, \h1000), Window(\h17000000, \h10000), Window(\h17010000, \h1000)}

(* The third board, the R2S, halts before it loads a driver.                       *)
BOARD == [qemu |-> QemuWindows,
          vf2  |-> [net |-> Vf2Net, regions |-> Vf2Regions, dma_regs |-> {}]]

allows(w, addr, width) ==
  /\ width # 0 /\ addr % width = 0
  /\ addr >= w.base /\ addr + width <= w.base + w.len

access_in_windows(addr, width, windows) == \E w \in windows : allows(w, addr, width)

(* The registers that do take an address, low and high half alike.  A DMA engine of   *)
(* the VF2 has a list address and a tail pointer, the bound it runs up to.            *)
AddressRegisters ==
  [qemu |-> [table |-> {\h10008080, \h10008084}, avail |-> {\h10008090, \h10008094},
             used  |-> {\h100080a0, \h100080a4}],
   vf2  |-> [table |-> {\h16031110, \h16031114, \h16031118, \h1603111c,
                        \h16041110, \h16041114, \h16041118, \h1604111c},
             avail |-> {\h16031120, \h16031128, \h16041120, \h16041128},
             used  |-> {}]]

STATUS == \h10008070

(* The device after a write to one of its registers: a VirtIO device whose status is   *)
(* cleared forgets its queues, an address register points where val says.             *)
Obeyed(addr, val) ==
  LET taken == {f \in {"table", "avail", "used"} : addr \in AddressRegisters[board][f]}
  IN  IF board = "qemu" /\ addr = STATUS /\ val = 0 THEN {[r \in Rings |-> NoQueue]}
      ELSE IF taken = {} THEN {device}
      ELSE {[device EXCEPT ![r] = [f \in DOMAIN @ |-> IF f \in taken THEN val ELSE @[f]]] :
             r \in Rings}

(* Mutants, here and below: the definition that follows with a slip in it.         *)
host_net_mmio_write32_unlisted(addr, val) ==
  /\ "WRITE" \in held
  /\ access_in_windows(addr, 4, BOARD[board].net)
  /\ access' = [addr |-> addr, width |-> 4, write |-> TRUE]
  /\ device' \in Obeyed(addr, val)
  /\ store' = NoStore
  /\ UNCHANGED <<board, held, mem_len, dma_rings>>

(* The register is checked, the value is not.                                     *)
host_net_mmio_write32(addr, val) ==
  /\ "WRITE" \in held
  /\ access_in_windows(addr, 4, BOARD[board].net)
  /\ ~access_in_windows(addr, 4, BOARD[board].dma_regs)
  /\ access' = [addr |-> addr, width |-> 4, write |-> TRUE]
  /\ device' \in Obeyed(addr, val)
  /\ store' = NoStore
  /\ UNCHANGED <<board, held, mem_len, dma_rings>>

host_net_mmio_read32(addr) ==
  /\ "READ" \in held
  /\ access_in_windows(addr, 4, BOARD[board].net)
  /\ access' = [addr |-> addr, width |-> 4, write |-> FALSE]
  /\ store' = NoStore
  /\ UNCHANGED <<board, held, mem_len, dma_rings, device>>

(* The doorbell of a queue, which only the VirtIO device has.                    *)
nic_queue_notify(queue) ==
  /\ "WRITE" \in held /\ queue <= 1
  /\ board = "qemu"
  /\ access' = [addr |-> \h10008050, width |-> 4, write |-> TRUE]
  /\ store' = NoStore
  /\ UNCHANGED <<board, held, mem_len, dma_rings, device>>

-----------------------------------------------------------------------------
span_in_linmem_wraps(off, len) == len # 0 /\ (off + len) % U32 <= mem_len

span_in_linmem(off, len) == len # 0 /\ off + len < U32 /\ off + len <= mem_len

(* desc_addr_offset: -1 for None.                                              *)
desc_addr_offset(ring, idx) ==
  IF ring.entries = 0 \/ idx >= ring.entries \/ ring.entries > MaxEntries
     \/ ring.desc_off + idx * DESC_SIZE >= U32
  THEN -1
  ELSE ring.desc_off + idx * DESC_SIZE

ring_fits(desc_off, entries) ==
  /\ entries # 0 /\ entries <= MaxEntries
  /\ desc_off % DESC_SIZE = 0
  /\ span_in_linmem(desc_off, entries * DESC_SIZE)

(* The checks of nic_attach_queue before it records anything.                   *)
QueueArguments(desc_off, avail_off, used_off, size) ==
  /\ size # 0 /\ size <= MaxQueue /\ PowerOfTwo(size)
  /\ desc_off % DESC_SIZE = 0
  /\ desc_off + Span(16 * size) <= mem_len
  /\ avail_off + Span(4 + 2 * size) <= mem_len
  /\ used_off + Span(4 + 8 * size) <= mem_len

record_ring(ring, desc_off, entries) ==
  /\ ring_fits(desc_off, entries)
  /\ dma_rings' = [dma_rings EXCEPT ![ring] = [desc_off |-> desc_off, entries |-> entries]]

(* The ring is on record before the device says whether its queue may be so large,  *)
(* and before a board without such a device refuses.                             *)
nic_attach_queue(ring, desc_off, avail_off, used_off, size, taken) ==
  /\ "WRITE" \in held /\ mem_len # 0
  /\ QueueArguments(desc_off, avail_off, used_off, size)
  /\ record_ring(ring, desc_off, size)
  /\ taken => board = "qemu"
  /\ device' = IF taken
               THEN [device EXCEPT ![ring] = [table |-> desc_off, avail |-> avail_off,
                                              used |-> used_off, size |-> size]]
               ELSE device
  /\ store' = NoStore /\ access' = NoAccess
  /\ UNCHANGED <<board, held, mem_len>>

nic_dma_set_buf(ring, idx, buf_off, len) ==
  LET at == desc_addr_offset(dma_rings[ring], idx)
  IN  /\ "WRITE" \in held /\ mem_len # 0
      /\ at # -1
      /\ span_in_linmem(buf_off, len) /\ span_in_linmem(at, 1)
      /\ store' = [by |-> "kernel", at |-> at, off |-> buf_off, len |-> len]
      /\ access' = NoAccess
      /\ UNCHANGED <<board, held, mem_len, dma_rings, device>>

(* The driver's own store, into a descriptor or wherever it is: no call, no check.     *)
desc_wr(at, off) ==
  /\ at < mem_len
  /\ store' = [by |-> "driver", at |-> at, off |-> off, len |-> 1]
  /\ access' = NoAccess
  /\ UNCHANGED <<board, held, mem_len, dma_rings, device>>

-----------------------------------------------------------------------------
DmaInit ==
  /\ board \in DOMAIN BOARD /\ held \in Authorities /\ mem_len \in MemLens
  /\ dma_rings = [r \in Rings |-> NoRing]
  /\ device = [r \in Rings |-> NoQueue]
  /\ store = NoStore /\ access = NoAccess

(* Addresses at, across, and on either side of the bounds of each window, and the     *)
(* registers that the device looks at.                                           *)
Probed ==
  LET tables == BOARD[board]
      takes  == AddressRegisters[board]
  IN  {STATUS} \cup takes.table \cup takes.avail \cup takes.used \cup
      UNION {{w.base - 4, w.base - 2, w.base, w.base + w.len - 4, w.base + w.len - 2,
              w.base + w.len - 1, w.base + w.len} :
               w \in tables.net \cup tables.regions \cup tables.dma_regs}

DmaNext ==
  \/ \E addr \in Probed :
       host_net_mmio_read32(addr) \/ \E val \in Places : host_net_mmio_write32(addr, val)
  \/ \E queue \in 0 .. 2 : nic_queue_notify(queue)
  \/ \E ring \in Rings, off \in Offsets :
       \/ \E avail, used \in Places, size \in Sizes, taken \in BOOLEAN :
            nic_attach_queue(ring, off, avail, used, size, taken)
       \/ \E idx, len \in Offsets : nic_dma_set_buf(ring, idx, off, len)
  \/ \E at \in Offsets, off \in Places : desc_wr(at, off)

-----------------------------------------------------------------------------
Cells(off, len) == off .. off + len - 1
Table(ring)     == Cells(ring.desc_off, ring.entries * DESC_SIZE)

QueueCells(q) ==
  Cells(q.table, Span(16 * q.size)) \cup Cells(q.avail, Span(4 + 2 * q.size))
    \cup Cells(q.used, Span(4 + 8 * q.size))

(* "Every physical address handed to a DMA engine lies inside the driver's own linear  *)
(* memory" (INV-25), of the addresses that the kernel forms: the tables on record, the  *)
(* three rings each VirtIO queue was given, for the size it was given and whatever was   *)
(* written to registers since, and the buffers that nic_dma_set_buf stored, which it     *)
(* stored in the address field of a descriptor on record; whatever was attached before  *)
(* and whichever attaching failed.                                              *)
FormedInside ==
  /\ \A r \in Rings : Table(dma_rings[r]) \subseteq 0 .. mem_len - 1
  /\ board = "qemu" =>
       \A r \in Rings : device[r] = NoQueue \/ QueueCells(device[r]) \subseteq 0 .. mem_len - 1
  /\ store.by = "kernel" =>
       /\ Cells(store.off, store.len) \subseteq 0 .. mem_len - 1
       /\ \E r \in Rings, i \in Offsets :
            i < dma_rings[r].entries /\ store.at = dma_rings[r].desc_off + i * DESC_SIZE

Touched == access.addr .. access.addr + access.width - 1
Bytes(windows) == {b \in Touched : \E w \in windows : b \in w.base .. w.base + w.len - 1}

(* "Narrowed to the exact register set the driver is licensed to touch" (INV-20):    *)
(* every byte of an access is licensed to who makes it and mapped, so that it cannot   *)
(* fault, and, when written, none of a register that DMA_ADDR_REGS lists.             *)
RegistersInside ==
  access # NoAccess =>
    /\ Bytes(BOARD[board].net) \cap Bytes(BOARD[board].regions) = Touched
    /\ access.write => "WRITE" \in held /\ Bytes(BOARD[board].dma_regs) = {}

(* Both: the DMA host calls hand out the driver's own memory only, and no register     *)
(* access leaves its windows or rewrites a listed address register, so that a VirtIO    *)
(* queue stays where the kernel put it.  Nothing is said of what the driver stores       *)
(* itself, of the length or readiness of a queue, or of the VF2's list and tail          *)
(* registers, which its empty table leaves to the driver.                         *)
CallsConfined == FormedInside /\ RegistersInside

=============================================================================
