-------------------------- MODULE LinearMemoryProofs --------------------------
(* What is put into linear memory, and read from it, on behalf of a module    *)
(* stays where the module may have it: the rings and buffers that a driver     *)
(* names to the kernel (DmaRings), and the entries and completions of a submission *)
(* ring (SubmissionRing).  What a module prints out of it arrives whole         *)
(* (ConsoleOut), and the sections of a native module come from inside it       *)
(* (NativeModule).  A driver's manifest is the one its module was written with   *)
(* (DriverManifest).                                                        *)
EXTENDS Integers, Sequences, DmaRings, SubmissionRing, ConsoleOut, NativeModule,
        DriverManifest, SequenceTheorems, WellFoundedInduction, TLAPS

-----------------------------------------------------------------------------
(* DmaRings.                                                                *)

(* A table of descriptors, or none, that lies in linear memory.               *)
TableFits(ring) ==
  /\ ring \in [desc_off : Nat, entries : Nat]
  /\ ring.entries = 0 \/ ring.desc_off + 2 * ring.entries <= mem_len

(* What a queue was given, for the size it was given, or nothing.             *)
QueueFits(q) ==
  \/ q = NoQueue
  \/ /\ q \in [table : Nat, avail : Nat, used : Nat, size : Nat]
     /\ q.table + Span(16 * q.size) <= mem_len
     /\ q.avail + Span(4 + 2 * q.size) <= mem_len
     /\ q.used + Span(4 + 8 * q.size) <= mem_len

(* The last store, where the kernel made it.                                  *)
StoreFits ==
  store.by = "kernel" =>
    /\ store \in [by : {"kernel"}, at : Nat, off : Nat, len : Nat]
    /\ store.off + store.len <= mem_len
    /\ \E r \in Rings, i \in Offsets :
         i < dma_rings[r].entries /\ store.at = dma_rings[r].desc_off + i * DESC_SIZE

DmaInv ==
  /\ board \in {"qemu", "vf2"} /\ mem_len \in Nat
  /\ DOMAIN dma_rings = Rings /\ DOMAIN device = Rings
  /\ \A r \in Rings : TableFits(dma_rings[r])
  /\ board = "qemu" => \A r \in Rings : QueueFits(device[r])
  /\ StoreFits
  /\ RegistersInside

(* The descriptor table of n entries takes two cells an entry.                *)
LEMMA TableSpan == \A n \in Nat : Span(16 * n) = 2 * n
  BY DEF Span

(* A table that fits has all its cells in linear memory.                     *)
LEMMA TableInside ==
  ASSUME mem_len \in Nat, NEW ring, TableFits(ring)
  PROVE  Table(ring) \subseteq 0 .. mem_len - 1
<1>1. ring.desc_off \in Nat /\ ring.entries \in Nat
  BY DEF TableFits
<1>2. CASE ring.entries = 0
  BY <1>1, <1>2 DEF Table, Cells, DESC_SIZE
<1>3. CASE ring.desc_off + 2 * ring.entries <= mem_len
  BY <1>1, <1>3 DEF Table, Cells, DESC_SIZE
<1> QED
  BY <1>2, <1>3 DEF TableFits

(* So has a queue that fits.                                                 *)
LEMMA QueueInside ==
  ASSUME mem_len \in Nat, NEW q, QueueFits(q)
  PROVE  q = NoQueue \/ QueueCells(q) \subseteq 0 .. mem_len - 1
<1> SUFFICES ASSUME q # NoQueue PROVE QueueCells(q) \subseteq 0 .. mem_len - 1
  OBVIOUS
<1>1. q.table \in Nat /\ q.avail \in Nat /\ q.used \in Nat /\ q.size \in Nat
  BY DEF QueueFits
<1>2. \A off, n \in Nat : off + n <= mem_len => Cells(off, n) \subseteq 0 .. mem_len - 1
  BY DEF Cells
<1>3. Span(16 * q.size) \in Nat /\ Span(4 + 2 * q.size) \in Nat /\ Span(4 + 8 * q.size) \in Nat
  BY <1>1 DEF Span
<1>4. /\ q.table + Span(16 * q.size) <= mem_len
      /\ q.avail + Span(4 + 2 * q.size) <= mem_len
      /\ q.used + Span(4 + 8 * q.size) <= mem_len
  BY DEF QueueFits
<1>5. /\ Cells(q.table, Span(16 * q.size)) \subseteq 0 .. mem_len - 1
      /\ Cells(q.avail, Span(4 + 2 * q.size)) \subseteq 0 .. mem_len - 1
      /\ Cells(q.used, Span(4 + 8 * q.size)) \subseteq 0 .. mem_len - 1
  <2> HIDE DEF QueueFits, Span, Cells
  <2> QED
    BY <1>1, <1>2, <1>3, <1>4
<1> QED
  BY <1>5 DEF QueueCells

(* The invariant is what FormedInside asks, said by bounds instead of cells.  *)
LEMMA DmaInvConfines == DmaInv => CallsConfined
<1> SUFFICES ASSUME DmaInv PROVE FormedInside
  BY DEF CallsConfined, DmaInv
<1>1. \A r \in Rings : Table(dma_rings[r]) \subseteq 0 .. mem_len - 1
  BY TableInside DEF DmaInv
<1>2. ASSUME board = "qemu", NEW r \in Rings
      PROVE  device[r] = NoQueue \/ QueueCells(device[r]) \subseteq 0 .. mem_len - 1
  BY <1>2, QueueInside DEF DmaInv
<1>3. ASSUME store.by = "kernel"
      PROVE  Cells(store.off, store.len) \subseteq 0 .. mem_len - 1
  BY <1>3 DEF DmaInv, StoreFits, Cells
<1> QED
  BY <1>1, <1>2, <1>3 DEF FormedInside, DmaInv, StoreFits

(* An aligned access inside a window has each of its four bytes there.        *)
LEMMA WindowHolds ==
  ASSUME NEW w, w.base \in Nat, w.len \in Nat, NEW addr \in Int, allows(w, addr, 4)
  PROVE  /\ addr % 4 = 0
         /\ addr .. addr + 3 \subseteq w.base .. w.base + w.len - 1
  BY DEF allows

(* What a network driver may touch is mapped, on each board.                 *)
LEMMA LicensedIsMapped ==
  ASSUME NEW b \in {"qemu", "vf2"}, NEW w \in BOARD[b].net
  PROVE  /\ w.base \in Nat /\ w.len \in Nat
         /\ \E v \in BOARD[b].regions :
              /\ v.base \in Nat /\ v.len \in Nat
              /\ v.base <= w.base /\ w.base + w.len <= v.base + v.len
<1>1. CASE b = "qemu"
  <2>1. w = [base |-> 268468224, len |-> 512]
    BY <1>1, SMT DEF BOARD, QemuWindows, Window
  <2>2. [base |-> 268439552, len |-> 32768] \in BOARD[b].regions
    BY <1>1, SMT DEF BOARD, QemuWindows, Window
  <2> QED
    BY <2>1, <2>2, SMT
<1>2. CASE b = "vf2"
  <2>1. w \in Vf2Net /\ BOARD[b].regions = Vf2Regions
    BY <1>2, SMT DEF BOARD
  <2>2. w \in BOARD[b].regions
    BY <2>1, SMT DEF Vf2Net, Vf2Regions
  <2>3. w.base \in Nat /\ w.len \in Nat
    BY <2>1, SMT DEF Vf2Net, Window
  <2> QED
    BY <2>2, <2>3
<1> QED
  BY <1>1, <1>2

(* The bytes of a licensed access are licensed and mapped.                    *)
LEMMA LicensedBytes ==
  ASSUME NEW b \in {"qemu", "vf2"}, NEW addr \in Int,
         access_in_windows(addr, 4, BOARD[b].net), NEW byte \in addr .. addr + 3
  PROVE  /\ \E w \in BOARD[b].net : byte \in w.base .. w.base + w.len - 1
         /\ \E w \in BOARD[b].regions : byte \in w.base .. w.base + w.len - 1
<1>1. PICK w \in BOARD[b].net : allows(w, addr, 4)
  BY DEF access_in_windows
<1>2. byte \in w.base .. w.base + w.len - 1
  BY <1>1, LicensedIsMapped, WindowHolds
<1>3. PICK v \in BOARD[b].regions :
        /\ v.base \in Nat /\ v.len \in Nat /\ w.base \in Nat /\ w.len \in Nat
        /\ v.base <= w.base /\ w.base + w.len <= v.base + v.len
  BY LicensedIsMapped
<1>4. byte \in v.base .. v.base + v.len - 1
  BY <1>2, <1>3
<1> QED
  BY <1>2, <1>4

(* An aligned access of four bytes that is not wholly one of the registers   *)
(* that take an address has none of their bytes.                             *)
LEMMA AddressRegistersApart ==
  ASSUME NEW b \in {"qemu", "vf2"}, NEW addr \in Int, addr % 4 = 0,
         ~access_in_windows(addr, 4, BOARD[b].dma_regs),
         NEW byte \in addr .. addr + 3, NEW w \in BOARD[b].dma_regs
  PROVE  byte \notin w.base .. w.base + w.len - 1
<1>1. b = "qemu" /\ w.len = 8 /\ w.base \in {268468352, 268468368, 268468384}
  BY SMT DEF BOARD, QemuWindows, Window
<1>2. addr < w.base \/ addr + 4 > w.base + 8
  BY <1>1, SMT DEF access_in_windows, allows
<1>3. addr + 4 <= w.base \/ addr >= w.base + 8
  BY <1>1, <1>2, SMT
<1> QED
  BY <1>1, <1>3, SMT

(* The doorbell is one of the registers of the device, and takes no address.  *)
LEMMA DoorbellLicensed ==
  /\ access_in_windows(\h10008050, 4, BOARD["qemu"].net)
  /\ ~access_in_windows(\h10008050, 4, BOARD["qemu"].dma_regs)
<1>1. [base |-> 268468224, len |-> 512] \in BOARD["qemu"].net
  BY SMT DEF BOARD, QemuWindows, Window
<1>2. allows([base |-> 268468224, len |-> 512], 268468304, 4)
  BY SMT DEF allows
<1>3. \A w \in BOARD["qemu"].dma_regs : w.base \in {268468352, 268468368, 268468384}
  BY SMT DEF BOARD, QemuWindows, Window
<1>4. \A w \in BOARD["qemu"].dma_regs : ~allows(w, 268468304, 4)
  BY <1>3, SMT DEF allows
<1> QED
  BY <1>1, <1>2, <1>4, SMT DEF access_in_windows

(* An access through the gates stays inside (INV-20).                        *)
LEMMA GatedAccess ==
  ASSUME board \in {"qemu", "vf2"}, NEW addr \in Int, NEW write \in BOOLEAN,
         access_in_windows(addr, 4, BOARD[board].net),
         write => "WRITE" \in held /\ ~access_in_windows(addr, 4, BOARD[board].dma_regs),
         access' = [addr |-> addr, width |-> 4, write |-> write],
         UNCHANGED <<board, held>>
  PROVE  RegistersInside'
<1>1. Touched' = addr .. addr + 3
  BY DEF Touched
<1>2. addr % 4 = 0
  BY LicensedIsMapped, WindowHolds DEF access_in_windows
<1>3. Bytes(BOARD[board].net)' \cap Bytes(BOARD[board].regions)' = Touched'
  BY <1>1, LicensedBytes DEF Bytes
<1>4. ASSUME write PROVE Bytes(BOARD[board].dma_regs)' = {}
  BY <1>1, <1>2, <1>4, AddressRegistersApart DEF Bytes
<1> QED
  BY <1>3, <1>4 DEF RegistersInside

(* Each register that a VirtIO device takes an address from is listed.         *)
LEMMA AddressRegistersListed ==
  ASSUME NEW addr, NEW f \in {"table", "avail", "used"}, addr \in AddressRegisters["qemu"][f]
  PROVE  access_in_windows(addr, 4, BOARD["qemu"].dma_regs)
<1>1. /\ [base |-> 268468352, len |-> 8] \in BOARD["qemu"].dma_regs
      /\ [base |-> 268468368, len |-> 8] \in BOARD["qemu"].dma_regs
      /\ [base |-> 268468384, len |-> 8] \in BOARD["qemu"].dma_regs
  BY SMT DEF BOARD, QemuWindows, Window
<1>2. addr \in {268468352, 268468356, 268468368, 268468372, 268468384, 268468388}
  BY SMT DEF AddressRegisters
<1>3. \/ allows([base |-> 268468352, len |-> 8], addr, 4)
      \/ allows([base |-> 268468368, len |-> 8], addr, 4)
      \/ allows([base |-> 268468384, len |-> 8], addr, 4)
  BY <1>2, SMT DEF allows
<1> QED
  BY <1>1, <1>3 DEF access_in_windows

(* What a write that passes the gate does to the device: on the VirtIO device   *)
(* the queues stay where they are or are forgotten, whatever the value.        *)
LEMMA GatedWriteObeyed ==
  ASSUME DmaInv, NEW addr \in Int, NEW val, device' \in Obeyed(addr, val),
         ~access_in_windows(addr, 4, BOARD[board].dma_regs)
  PROVE  /\ DOMAIN device' = Rings
         /\ board = "qemu" => device' \in {device, [r \in Rings |-> NoQueue]}
<1> DEFINE taken == {f \in {"table", "avail", "used"} : addr \in AddressRegisters[board][f]}
           moved == {[device EXCEPT ![r] = [f \in DOMAIN @ |-> IF f \in taken THEN val ELSE @[f]]] :
                      r \in Rings}
<1>1. /\ Obeyed(addr, val) = IF board = "qemu" /\ addr = STATUS /\ val = 0
                             THEN {[r \in Rings |-> NoQueue]}
                             ELSE IF taken = {} THEN {device} ELSE moved
      /\ DOMAIN device = Rings
  BY DEF Obeyed, DmaInv
<1>2. \A d \in moved : DOMAIN d = DOMAIN device
  OBVIOUS
<1>3. ASSUME board = "qemu" PROVE taken = {}
  BY <1>3, AddressRegistersListed
<1> DEFINE reset == board = "qemu" /\ addr = STATUS /\ val = 0
<1>4. Obeyed(addr, val) = IF reset THEN {[r \in Rings |-> NoQueue]}
                          ELSE IF taken = {} THEN {device} ELSE moved
  BY <1>1
<1> HIDE DEF taken, moved, reset
<1>5. CASE reset
  <2>1. device' = [r \in Rings |-> NoQueue]
    BY <1>4, <1>5
  <2> QED
    BY <2>1
<1>6. CASE ~reset /\ taken = {}
  <2>1. device' = device
    BY <1>4, <1>6
  <2> QED
    BY <1>1, <2>1
<1>7. CASE ~reset /\ taken # {}
  <2>1. device' \in moved
    BY <1>4, <1>7
  <2> QED
    BY <1>1, <1>2, <1>3, <1>7, <2>1
<1> QED
  BY <1>5, <1>6, <1>7

(* A register access, or a doorbell, moves no ring on record and no memory.    *)
LEMMA DmaRegisterStep ==
  ASSUME DmaInv,
         \/ \E addr \in Probed :
              host_net_mmio_read32(addr) \/ \E val \in Places : host_net_mmio_write32(addr, val)
         \/ \E queue \in 0 .. 2 : nic_queue_notify(queue)
  PROVE  DmaInv'
<1>1. store' = NoStore /\ UNCHANGED <<board, held, mem_len, dma_rings>>
  BY DEF host_net_mmio_write32, host_net_mmio_read32, nic_queue_notify
<1>2. Probed \subseteq Int
  <2>1. \A w \in BOARD[board].net \cup BOARD[board].regions \cup BOARD[board].dma_regs :
          w.base \in Int /\ w.len \in Int
    BY SMT DEF DmaInv, BOARD, QemuWindows, Vf2Net, Vf2Regions, Window
  <2>2. /\ STATUS \in Int
        /\ \A b \in {"qemu", "vf2"} :
             /\ AddressRegisters[b].table \subseteq Int
             /\ AddressRegisters[b].avail \subseteq Int
             /\ AddressRegisters[b].used \subseteq Int
    BY SMT DEF STATUS, AddressRegisters
  <2> QED
    BY <2>1, <2>2 DEF Probed, DmaInv
<1>3. RegistersInside' /\ DOMAIN device' = Rings
      /\ (board = "qemu" => device' \in {device, [r \in Rings |-> NoQueue]})
  <2>1. ASSUME NEW addr \in Probed, NEW val, host_net_mmio_write32(addr, val)
        PROVE  RegistersInside' /\ DOMAIN device' = Rings
               /\ (board = "qemu" => device' \in {device, [r \in Rings |-> NoQueue]})
    <3>1. RegistersInside'
      BY <1>2, <2>1, GatedAccess DEF host_net_mmio_write32, DmaInv
    <3>2. device' \in Obeyed(addr, val) /\ ~access_in_windows(addr, 4, BOARD[board].dma_regs)
      BY <2>1 DEF host_net_mmio_write32
    <3> QED
      BY <1>2, <3>1, <3>2, GatedWriteObeyed
  <2>2. ASSUME NEW addr \in Probed, host_net_mmio_read32(addr)
        PROVE  RegistersInside' /\ DOMAIN device' = Rings
               /\ (board = "qemu" => device' \in {device, [r \in Rings |-> NoQueue]})
    <3>1. RegistersInside'
      BY <1>2, <2>2, GatedAccess DEF host_net_mmio_read32, DmaInv
    <3> QED
      BY <2>2, <3>1 DEF host_net_mmio_read32, DmaInv
  <2>3. ASSUME NEW queue \in 0 .. 2, nic_queue_notify(queue)
        PROVE  RegistersInside' /\ DOMAIN device' = Rings
               /\ (board = "qemu" => device' \in {device, [r \in Rings |-> NoQueue]})
    <3>1. /\ board = "qemu" /\ "WRITE" \in held
          /\ access' = [addr |-> \h10008050, width |-> 4, write |-> TRUE]
      BY <2>3, SMT DEF nic_queue_notify
    <3>2. PICK addr \in Int : addr = \h10008050
      BY SMT
    <3>3. /\ "WRITE" \in held
          /\ access' = [addr |-> addr, width |-> 4, write |-> TRUE]
          /\ access_in_windows(addr, 4, BOARD[board].net)
          /\ ~access_in_windows(addr, 4, BOARD[board].dma_regs)
      BY <3>1, <3>2, DoorbellLicensed, SMT
    <3>4. RegistersInside'
      BY <1>1, <3>3, GatedAccess DEF DmaInv
    <3> QED
      BY <2>3, <3>4 DEF nic_queue_notify, DmaInv
  <2> QED
    BY <2>1, <2>2, <2>3
<1>4. ASSUME board = "qemu", NEW r \in Rings PROVE QueueFits(device[r])'
  <2>1. device'[r] = device[r] \/ device'[r] = NoQueue
    BY <1>3, <1>4
  <2>2. QueueFits(device[r])
    BY <1>4 DEF DmaInv
  <2> QED
    BY <1>1, <2>1, <2>2 DEF QueueFits
<1>5. StoreFits'
  BY <1>1 DEF StoreFits, NoStore
<1> QED
  BY <1>1, <1>3, <1>4, <1>5 DEF DmaInv, TableFits

(* A queue is attached, or only put on record: its table lies in the memory   *)
(* the driver has.                                                         *)
LEMMA DmaAttachStep ==
  ASSUME DmaInv, NEW ring \in Rings, NEW off \in Offsets, NEW avail \in Places, NEW used \in Places,
         NEW size \in Sizes, NEW taken \in BOOLEAN,
         nic_attach_queue(ring, off, avail, used, size, taken)
  PROVE  DmaInv'
<1> DEFINE table == [desc_off |-> off, entries |-> size]
           queue == [table |-> off, avail |-> avail, used |-> used, size |-> size]
<1>1. /\ dma_rings' = [dma_rings EXCEPT ![ring] = table]
      /\ device' \in {device, [device EXCEPT ![ring] = queue]}
      /\ store' = NoStore /\ access' = NoAccess /\ UNCHANGED <<board, held, mem_len>>
  BY DEF nic_attach_queue, record_ring
<1>2. off \in Nat /\ size \in Nat /\ avail \in Nat /\ used \in Nat
  BY DmaAssumption DEF Offsets, Sizes
<1>3. off + 2 * size <= mem_len
  <2>1. off + Span(16 * size) <= mem_len
    BY DEF nic_attach_queue, QueueArguments
  <2> QED
    BY <1>2, <2>1, TableSpan
<1>4. TableFits(table)'
  BY <1>1, <1>2, <1>3 DEF TableFits
<1>5. \A r \in Rings : TableFits(dma_rings[r])'
  BY <1>1, <1>4 DEF DmaInv, TableFits
<1>6. DOMAIN dma_rings' = Rings /\ DOMAIN device' = Rings
  BY <1>1 DEF DmaInv
<1>7. QueueFits(queue)
  <2>1. QueueArguments(off, avail, used, size)
    BY DEF nic_attach_queue
  <2> QED
    BY <1>2, <2>1 DEF QueueArguments, QueueFits
<1>8. ASSUME board = "qemu", NEW r \in Rings PROVE QueueFits(device[r])'
  <2> HIDE DEF queue
  <2>1. device'[r] = device[r] \/ device'[r] = queue
    BY <1>1 DEF DmaInv
  <2>2. QueueFits(device[r])
    BY <1>8 DEF DmaInv
  <2> QED
    BY <1>1, <1>7, <2>1, <2>2 DEF QueueFits
<1>9. StoreFits' /\ RegistersInside'
  BY <1>1 DEF StoreFits, NoStore, RegistersInside
<1> QED
  BY <1>1, <1>5, <1>6, <1>8, <1>9 DEF DmaInv

(* A buffer is put into a descriptor on record, and it is the driver's.       *)
LEMMA DmaStoreStep ==
  ASSUME DmaInv, NEW ring \in Rings, NEW idx \in Offsets, NEW off \in Offsets,
         NEW len \in Offsets, nic_dma_set_buf(ring, idx, off, len)
  PROVE  DmaInv'
<1> DEFINE at == desc_addr_offset(dma_rings[ring], idx)
<1>1. /\ at # -1 /\ span_in_linmem(off, len)
      /\ store' = [by |-> "kernel", at |-> at, off |-> off, len |-> len] /\ access' = NoAccess
      /\ UNCHANGED <<board, held, mem_len, dma_rings, device>>
  BY DEF nic_dma_set_buf
<1>2. off \in Nat /\ idx \in Nat /\ len \in Nat
  BY DmaAssumption DEF Offsets
<1>3. dma_rings[ring].desc_off \in Nat /\ dma_rings[ring].entries \in Nat
  BY DEF DmaInv, TableFits
<1>4. at = dma_rings[ring].desc_off + idx * DESC_SIZE /\ idx < dma_rings[ring].entries
  BY <1>1, <1>2, <1>3 DEF desc_addr_offset
<1>5. at \in Nat
  BY <1>2, <1>3, <1>4 DEF DESC_SIZE
<1>6. off + len <= mem_len
  BY <1>1 DEF span_in_linmem
<1>7. StoreFits'
  BY <1>1, <1>2, <1>4, <1>5, <1>6 DEF StoreFits
<1> QED
  BY <1>1, <1>7 DEF DmaInv, TableFits, QueueFits, RegistersInside

(* The driver stores what it likes, and that is not what the claim is about.   *)
LEMMA DriverStoreStep ==
  ASSUME DmaInv, NEW at \in Offsets, NEW off \in Places, desc_wr(at, off)
  PROVE  DmaInv'
<1>1. /\ store' = [by |-> "driver", at |-> at, off |-> off, len |-> 1] /\ access' = NoAccess
      /\ UNCHANGED <<board, held, mem_len, dma_rings, device>>
  BY DEF desc_wr
<1>2. StoreFits' /\ RegistersInside'
  BY <1>1 DEF StoreFits, RegistersInside
<1> QED
  BY <1>1, <1>2 DEF DmaInv, TableFits, QueueFits

(* No ring is attached at first.                                             *)
LEMMA DmaInitInv == DmaInit => DmaInv
<1> SUFFICES ASSUME DmaInit PROVE DmaInv
  OBVIOUS
<1>1. DOMAIN BOARD = {"qemu", "vf2"}
  BY DEF BOARD
<1>2. mem_len \in Nat
  BY DmaAssumption DEF DmaInit
<1> QED
  BY <1>1, <1>2 DEF DmaInit, DmaInv, TableFits, QueueFits, NoRing, NoStore, StoreFits,
     RegistersInside

(* Every call, every register access and every store keeps the invariant.      *)
LEMMA DmaStep == DmaInv /\ [DmaNext]_dmaVars => DmaInv'
<1> SUFFICES ASSUME DmaInv, [DmaNext]_dmaVars PROVE DmaInv'
  OBVIOUS
<1>1. CASE DmaNext
  BY <1>1, DmaRegisterStep, DmaAttachStep, DmaStoreStep, DriverStoreStep DEF DmaNext
<1>2. CASE UNCHANGED dmaVars
  BY <1>2 DEF dmaVars, DmaInv, TableFits, QueueFits, StoreFits, RegistersInside, Bytes, Touched
<1> QED
  BY <1>1, <1>2

(* What the DMA host calls form for the device is the driver's own memory, and no  *)
(* register access leaves its windows or rewrites a listed address register, in     *)
(* whatever order the calls come, whichever attaching failed, and whatever values    *)
(* the driver writes and stores itself (INV-20, INV-25; not its gap 3, and not the    *)
(* VF2's list and tail registers, which are not listed).                         *)
THEOREM CallsStayConfined == DmaInit /\ [][DmaNext]_dmaVars => []CallsConfined
  BY DmaInitInv, DmaStep, DmaInvConfines, PTL

-----------------------------------------------------------------------------
(* SubmissionRing.                                                          *)

Results   == {0, E_INVAL, E_PERM, E_AGAIN}
Decisions == [sqe : Seq(Nat), result : Results]

RingTypeOK ==
  /\ lin_mem \in Seq(Nat)
  /\ ring_desc \in [sq_ptr : Nat, cq_ptr : Nat, entries : Nat, active : BOOLEAN]
  /\ drain \in [start : Seq(Nat), count : Nat, processed : Nat, running : BOOLEAN]
  /\ decided \in Seq(Decisions)

(* Where the drain stands: a completion for each entry, of all that ran but   *)
(* the last, which ended it.                                                *)
DrainCounts ==
  /\ drain.processed <= drain.count /\ drain.count <= ring_desc.entries
  /\ Len(decided) \in {drain.processed, drain.processed + 1}
  /\ Len(decided) > drain.processed => ~drain.running
  /\ drain.running => ring_desc.active
  /\ ~ring_desc.active => drain = NotDraining

(* What was decided of entry i, on which bytes.                              *)
DecidedWell(i) ==
  LET d == decided[i + 1]
  IN  /\ Submission(i) \cap Overwritten(i) = {} => d.sqe = Requested(i)
      /\ Len(d.sqe) = SQE_SIZE
      /\ d.result \in {0, E_AGAIN} =>
           is_known_op(Op(d.sqe)) /\ handles[RegIdx(d.sqe)] = "good"

(* The completion of entry i is in memory.                                   *)
CompletedWell(i) ==
  /\ ring_desc.cq_ptr + i * CQE_SIZE + 2 <= Len(lin_mem)
  /\ lin_mem[ring_desc.cq_ptr + i * CQE_SIZE + 1] = user_data(decided[i + 1].sqe)
  /\ lin_mem[ring_desc.cq_ptr + i * CQE_SIZE + 2] = decided[i + 1].result

(* Outside the completions memory is what it was.                            *)
MemoryKept ==
  drain # NotDraining =>
    /\ Len(drain.start) = Len(lin_mem)
    /\ \A c \in DOMAIN lin_mem \ Overwritten(drain.processed) : lin_mem[c] = drain.start[c]

RingInv ==
  /\ RingTypeOK
  /\ DrainCounts
  /\ \A i \in 0 .. Len(decided) - 1 : DecidedWell(i)
  /\ \A i \in 0 .. drain.processed - 1 : CompletedWell(i)
  /\ MemoryKept

(* The invariant gives the property.                                         *)
LEMMA RingInvAnswers == RingInv => RingAnswers
<1> SUFFICES ASSUME RingInv PROVE RingAnswers
  OBVIOUS
<1> USE DEF RingInv
<1>1. Len(decided) \in Nat /\ drain.processed \in Nat
  BY DEF RingTypeOK
<1>2. ASSUME NEW i \in 0 .. Len(decided) - 1, i < drain.processed
      PROVE  CompletedWell(i)
  BY <1>1, <1>2
<1>3. /\ drain.processed <= drain.count /\ drain.count <= ring_desc.entries
      /\ Len(decided) - drain.processed \in {0, 1}
      /\ Len(decided) > drain.processed => ~drain.running
  BY <1>1 DEF DrainCounts
<1>4. \A i \in 0 .. Len(decided) - 1 : DecidedWell(i)
  OBVIOUS
<1>5. drain # NotDraining =>
        \A c \in DOMAIN lin_mem \ Overwritten(drain.processed) : lin_mem[c] = drain.start[c]
  BY DEF MemoryKept
<1> QED
  BY <1>2, <1>3, <1>4, <1>5 DEF RingAnswers, DecidedWell, CompletedWell

(* What the completions before entry i + 1 cover: those before i and its own. *)
LEMMA OverwrittenNext ==
  \A i \in Nat : Overwritten(i + 1) = Overwritten(i) \cup Completion(i)
  BY DEF Overwritten

(* A completion is written over its own two cells and no others.             *)
LEMMA EncodedCells ==
  ASSUME NEW m \in Seq(Nat), NEW off \in Nat, off + 2 <= Len(m),
         NEW user \in Nat, NEW result \in Nat
  PROVE  LET new == [m EXCEPT ![off + 1] = user, ![off + 2] = result]
         IN  /\ new \in Seq(Nat) /\ Len(new) = Len(m) /\ DOMAIN new = DOMAIN m
             /\ new[off + 1] = user /\ new[off + 2] = result
             /\ \A c \in DOMAIN m \ {off + 1, off + 2} : new[c] = m[c]
<1> DEFINE mid == [m EXCEPT ![off + 1] = user]
           new == [mid EXCEPT ![off + 2] = result]
<1>0. Len(m) \in Nat /\ DOMAIN m = 1 .. Len(m)
  BY LenProperties
<1>1. off + 1 \in 1 .. Len(m) /\ off + 2 \in 1 .. Len(m)
  BY <1>0
<1>2. /\ mid \in Seq(Nat) /\ Len(mid) = Len(m)
      /\ \A c \in 1 .. Len(m) : mid[c] = IF c = off + 1 THEN user ELSE m[c]
  BY <1>1, ExceptSeq
<1> HIDE DEF mid
<1>3. /\ new \in Seq(Nat) /\ Len(new) = Len(m)
      /\ \A c \in 1 .. Len(m) : new[c] = IF c = off + 2 THEN result ELSE mid[c]
  BY <1>1, <1>2, ExceptSeq
<1>4. DOMAIN new = 1 .. Len(m)
  BY <1>3, LenProperties
<1> HIDE DEF new
<1>5. new[off + 1] = user /\ new[off + 2] = result
  <2>1. new[off + 1] = mid[off + 1] /\ new[off + 2] = result
    BY <1>1, <1>3
  <2>2. mid[off + 1] = user
    BY <1>1, <1>2
  <2> QED
    BY <2>1, <2>2
<1>6. \A c \in 1 .. Len(m) : c \notin {off + 1, off + 2} => new[c] = m[c]
  BY <1>2, <1>3
<1>7. /\ new \in Seq(Nat) /\ Len(new) = Len(m) /\ DOMAIN new = DOMAIN m
      /\ \A c \in DOMAIN m \ {off + 1, off + 2} : new[c] = m[c]
  BY <1>0, <1>3, <1>4, <1>6
<1> QED
  BY <1>5, <1>7 DEF new, mid

(* Five cells of a memory, from any offset that leaves room for them.        *)
LEMMA FiveCells ==
  ASSUME NEW cells \in Seq(Nat), NEW off \in Nat, off + 5 <= Len(cells)
  PROVE  /\ SubSeq(cells, off + 1, off + 5) \in Seq(Nat)
         /\ Len(SubSeq(cells, off + 1, off + 5)) = 5
         /\ \A c \in 1 .. 5 : SubSeq(cells, off + 1, off + 5)[c] = cells[off + c]
<1>1. PICK m \in Int, n \in Int : m = off + 1 /\ n = off + 5
  OBVIOUS
<1>2. \A c \in m .. n : cells[c] \in Nat
  <2> SUFFICES ASSUME NEW c \in m .. n PROVE cells[c] \in Nat
    OBVIOUS
  <2>1. c \in 1 .. Len(cells)
    BY <1>1, LenProperties
  <2> QED
    BY <2>1, ElementOfSeq
<1>3. /\ SubSeq(cells, m, n) \in Seq(Nat)
      /\ Len(SubSeq(cells, m, n)) = IF m <= n THEN n - m + 1 ELSE 0
      /\ \A c \in 1 .. n - m + 1 : SubSeq(cells, m, n)[c] = cells[m + c - 1]
  BY ONLY <1>1, <1>2, SubSeqProperties, SMTT(20)
<1>4. m <= n /\ n - m + 1 = 5 /\ \A c \in 1 .. 5 : m + c - 1 = off + c
  BY <1>1
<1> QED
  BY <1>1, <1>3, <1>4

(* The entry that was read: five cells of memory.                            *)
LEMMA DecodedCells ==
  ASSUME RingTypeOK, NEW off \in Nat, InMemory(off, SQE_SIZE)
  PROVE  /\ decode_sqe(off) \in Seq(Nat) /\ Len(decode_sqe(off)) = SQE_SIZE
         /\ \A c \in 1 .. SQE_SIZE : decode_sqe(off)[c] = lin_mem[off + c]
         /\ user_data(decode_sqe(off)) \in Nat
<1>1. off + 5 <= Len(lin_mem) /\ Len(lin_mem) \in Nat
  BY LenProperties DEF RingTypeOK, InMemory, SQE_SIZE
<1>2. /\ decode_sqe(off) \in Seq(Nat) /\ Len(decode_sqe(off)) = 5
      /\ \A c \in 1 .. 5 : decode_sqe(off)[c] = lin_mem[off + c]
  <2>1. decode_sqe(off) = SubSeq(lin_mem, off + 1, off + 5)
    BY DEF decode_sqe, SQE_SIZE
  <2>2. lin_mem \in Seq(Nat)
    BY DEF RingTypeOK
  <2>3. /\ SubSeq(lin_mem, off + 1, off + 5) \in Seq(Nat)
        /\ Len(SubSeq(lin_mem, off + 1, off + 5)) = 5
        /\ \A c \in 1 .. 5 : SubSeq(lin_mem, off + 1, off + 5)[c] = lin_mem[off + c]
    BY <1>1, <2>2, FiveCells, Zenon
  <2> QED
    BY ONLY <2>1, <2>3
<1>3. lin_mem[off + 3] \in Nat
  BY <1>1, ElementOfSeq DEF RingTypeOK
<1> QED
  BY <1>2, <1>3 DEF SQE_SIZE, user_data

(* An entry no completion lies over is read as it was submitted.             *)
LEMMA ReadAsRequested ==
  ASSUME RingTypeOK, MemoryKept, drain # NotDraining, NEW i \in Nat, i = drain.processed,
         NEW off \in Nat, off = ring_desc.sq_ptr + i * SQE_SIZE, InMemory(off, SQE_SIZE),
         Submission(i) \cap Overwritten(i) = {}
  PROVE  decode_sqe(off) = Requested(i)
<1>1. /\ lin_mem \in Seq(Nat) /\ drain.start \in Seq(Nat)
      /\ off + 5 <= Len(lin_mem) /\ Len(lin_mem) \in Nat /\ Len(drain.start) = Len(lin_mem)
      /\ DOMAIN lin_mem = 1 .. Len(lin_mem)
  BY LenProperties DEF RingTypeOK, InMemory, SQE_SIZE, MemoryKept
<1>2. \A c \in 1 .. 5 : off + c \in Submission(i) /\ off + c \in DOMAIN lin_mem
  <2> SUFFICES ASSUME NEW c \in 1 .. 5
               PROVE  off + c \in Submission(i) /\ off + c \in 1 .. Len(lin_mem)
    BY <1>1
  <2>1. off + c \in 1 .. Len(lin_mem)
    <3>1. off + 5 <= Len(lin_mem) /\ Len(lin_mem) \in Nat /\ off \in Nat /\ c \in 1 .. 5
      BY <1>1
    <3> QED
      BY ONLY <3>1
  <2>2. off + c = ring_desc.sq_ptr + i * SQE_SIZE + c
    OBVIOUS
  <2> QED
    BY <2>1, <2>2 DEF Submission, SQE_SIZE
<1>3. \A c \in 1 .. 5 : lin_mem[off + c] = drain.start[off + c]
  BY <1>2 DEF MemoryKept
<1>4. Requested(i) = SubSeq(drain.start, off + 1, off + 5)
  <2>1. ring_desc.sq_ptr + (i + 1) * SQE_SIZE = off + 5
    BY DEF SQE_SIZE, RingTypeOK
  <2> QED
    BY <2>1 DEF Requested
<1>5. /\ Requested(i) \in Seq(Nat) /\ Len(Requested(i)) = 5
      /\ \A c \in 1 .. 5 : Requested(i)[c] = drain.start[off + c]
  <2>1. drain.start \in Seq(Nat) /\ off + 5 <= Len(drain.start)
    BY <1>1
  <2>2. /\ SubSeq(drain.start, off + 1, off + 5) \in Seq(Nat)
        /\ Len(SubSeq(drain.start, off + 1, off + 5)) = 5
        /\ \A c \in 1 .. 5 : SubSeq(drain.start, off + 1, off + 5)[c] = drain.start[off + c]
    BY <2>1, FiveCells, Zenon
  <2> QED
    BY <1>4, <2>1, <2>2
<1>6. /\ decode_sqe(off) \in Seq(Nat) /\ Len(decode_sqe(off)) = 5
      /\ \A c \in 1 .. 5 : decode_sqe(off)[c] = lin_mem[off + c]
  BY DecodedCells DEF SQE_SIZE
<1>7. \A c \in 1 .. 5 : decode_sqe(off)[c] = Requested(i)[c]
  BY <1>3, <1>5, <1>6
<1> QED
  BY <1>5, <1>6, <1>7, SeqEqual

(* Only a handle that passes every check does anything.                      *)
LEMMA DispatchSound ==
  ASSUME NEW sqe
  PROVE  /\ dispatch(sqe).result \in Results
         /\ dispatch(sqe).result \in {0, E_AGAIN} =>
              is_known_op(Op(sqe)) /\ handles[RegIdx(sqe)] = "good"
  BY DEF dispatch, Results, UsableHandle, E_INVAL, E_PERM, E_AGAIN

(* What was decided earlier stays as it was: the ring, the handles and what   *)
(* was submitted do not change during a drain.                              *)
LEMMA DecisionsStay ==
  ASSUME RingInv, UNCHANGED <<ring_desc, handles, drain.start>>,
         NEW i \in 0 .. Len(decided) - 1, decided'[i + 1] = decided[i + 1]
  PROVE  DecidedWell(i)'
  BY DEF RingInv, DecidedWell, Submission, Overwritten, Completion, Requested,
         Op, RegIdx, is_known_op

(* An entry is decided on the bytes that were submitted, unless completions   *)
(* were put over them, and only on the strength of a good handle.            *)
LEMMA EntryDecided ==
  ASSUME RingInv, DrainEntry
  PROVE  /\ decided' \in Seq(Decisions) /\ Len(decided') = Len(decided) + 1
         /\ \A i \in 0 .. Len(decided') - 1 : DecidedWell(i)'
<1> USE DEF RingInv
<1> PICK n \in Nat : n = drain.processed
  BY DEF RingTypeOK
<1> DEFINE sqe == decode_sqe(ring_desc.sq_ptr + n * SQE_SIZE)
           d == [sqe |-> sqe, result |-> dispatch(sqe).result]
<1>1. /\ drain.running /\ decided' = Append(decided, d)
      /\ InMemory(ring_desc.sq_ptr + n * SQE_SIZE, SQE_SIZE)
      /\ UNCHANGED <<ring_desc, handles, drain.start>>
  BY DEF DrainEntry, RingTypeOK
<1>2. /\ Len(decided) = n /\ n \in Nat /\ drain # NotDraining
  BY <1>1 DEF RingTypeOK, DrainCounts, NotDraining
<1>3. PICK off \in Nat : off = ring_desc.sq_ptr + n * SQE_SIZE
  BY <1>2 DEF RingTypeOK, SQE_SIZE
<1>4. sqe \in Seq(Nat) /\ Len(sqe) = SQE_SIZE
  BY <1>1, <1>3, DecodedCells
<1>5. d \in Decisions
  BY <1>4, DispatchSound DEF Decisions
<1>6. /\ decided' \in Seq(Decisions) /\ Len(decided') = Len(decided) + 1
      /\ decided'[n + 1] = d
      /\ \A i \in 1 .. n : decided'[i] = decided[i]
  BY <1>1, <1>2, <1>5, AppendProperties DEF RingTypeOK
<1>7. DecidedWell(n)'
  <2>1. Submission(n) \cap Overwritten(n) = {} => d.sqe = Requested(n)
    BY <1>1, <1>2, <1>3, ReadAsRequested
  <2>2. d.result \in {0, E_AGAIN} => is_known_op(Op(d.sqe)) /\ handles[RegIdx(d.sqe)] = "good"
    BY DispatchSound
  <2>3. /\ Submission(n)' = Submission(n) /\ Overwritten(n)' = Overwritten(n)
        /\ Requested(n)' = Requested(n)
    BY <1>1 DEF Submission, Overwritten, Completion, Requested
  <2>4. PICK e \in Decisions : e = d
    BY <1>5
  <2>5. decided'[n + 1] = e /\ Len(e.sqe) = SQE_SIZE
    BY <1>4, <1>6, <2>4
  <2>6. /\ (Submission(n) \cap Overwritten(n) = {})' => e.sqe = Requested(n)'
        /\ e.result \in {0, E_AGAIN} =>
             is_known_op(Op(e.sqe)) /\ handles'[RegIdx(e.sqe)] = "good"
    BY <1>1, <2>1, <2>2, <2>3, <2>4
  <2> QED
    BY <2>4, <2>5, <2>6 DEF DecidedWell
<1>8. \A i \in 0 .. n - 1 : DecidedWell(i)'
  <2> SUFFICES ASSUME NEW i \in 0 .. n - 1 PROVE DecidedWell(i)'
    OBVIOUS
  <2>1. decided'[i + 1] = decided[i + 1] /\ i \in 0 .. Len(decided) - 1
    BY <1>2, <1>6
  <2> QED
    BY <1>1, <2>1, DecisionsStay
<1>9. \A i \in 0 .. Len(decided') - 1 : i \in 0 .. n - 1 \/ i = n
  BY <1>2, <1>6
<1> QED
  BY <1>6, <1>7, <1>8, <1>9

(* A completion that finds room goes over its own cells; those of earlier     *)
(* entries, and all the rest of memory, stay.                               *)
LEMMA EntryCompleted ==
  ASSUME RingInv, DrainEntry,
         InMemory(ring_desc.cq_ptr + drain.processed * CQE_SIZE, CQE_SIZE)
  PROVE  RingInv'
<1> USE DEF RingInv
<1> PICK n \in Nat : n = drain.processed
  BY DEF RingTypeOK
<1> PICK base \in Nat : base = ring_desc.cq_ptr
  BY DEF RingTypeOK
<1>1. PICK cq \in Nat : cq = base + n * 2 /\ cq = ring_desc.cq_ptr + n * CQE_SIZE
  BY DEF CQE_SIZE
<1>2. PICK sqe : sqe = decode_sqe(ring_desc.sq_ptr + n * SQE_SIZE)
  OBVIOUS
<1>3. PICK result : result = dispatch(sqe).result
  OBVIOUS
<1>4. /\ drain.running /\ n < drain.count
      /\ decided' = Append(decided, [sqe |-> sqe, result |-> result])
      /\ lin_mem' = encode_cqe(cq, user_data(sqe), result)
      /\ drain' = [drain EXCEPT !.processed = n + 1]
      /\ UNCHANGED <<ring_desc, handles>>
  BY <1>1, <1>2, <1>3 DEF DrainEntry
<1>5. user_data(sqe) \in Nat /\ result \in Results
  <2>1. PICK off \in Nat : off = ring_desc.sq_ptr + n * SQE_SIZE
    BY DEF RingTypeOK, SQE_SIZE
  <2>2. InMemory(off, SQE_SIZE)
    BY <2>1 DEF DrainEntry
  <2> QED
    BY <2>1, <2>2, <1>2, <1>3, DecodedCells, DispatchSound
<1>6. /\ lin_mem' \in Seq(Nat) /\ Len(lin_mem') = Len(lin_mem)
      /\ lin_mem'[cq + 1] = user_data(sqe) /\ lin_mem'[cq + 2] = result
      /\ \A c \in DOMAIN lin_mem \ {cq + 1, cq + 2} : lin_mem'[c] = lin_mem[c]
      /\ cq + 2 <= Len(lin_mem) /\ Len(lin_mem) \in Nat
  <2>1. cq + CQE_SIZE <= Len(lin_mem) /\ Len(lin_mem) \in Nat
    BY <1>1, LenProperties DEF InMemory, RingTypeOK
  <2>2. result \in Nat
    BY <1>5 DEF Results, E_INVAL, E_PERM, E_AGAIN
  <2>3. cq + 2 <= Len(lin_mem)
    BY <2>1 DEF CQE_SIZE
  <2>4. PICK user \in Nat : user = user_data(sqe)
    BY <1>5
  <2>5. lin_mem' = encode_cqe(cq, user, result)
    BY <1>4, <2>4
  <2>6. /\ lin_mem' \in Seq(Nat) /\ Len(lin_mem') = Len(lin_mem)
        /\ lin_mem'[cq + 1] = user /\ lin_mem'[cq + 2] = result
        /\ \A c \in DOMAIN lin_mem \ {cq + 1, cq + 2} : lin_mem'[c] = lin_mem[c]
    <3>1. cq \in Nat /\ user \in Nat
      BY <1>1, <2>4
    <3>2. lin_mem \in Seq(Nat)
      BY DEF RingTypeOK
    <3> QED
      BY <3>1, <3>2, <2>2, <2>3, <2>5, EncodedCells DEF encode_cqe
  <2> QED
    BY <2>1, <2>3, <2>4, <2>6
<1>7. /\ Len(decided) = n /\ decided' \in Seq(Decisions) /\ Len(decided') = n + 1
      /\ \A i \in 0 .. n : DecidedWell(i)'
  <2>1. Len(decided) = n
    BY <1>4 DEF RingTypeOK, DrainCounts
  <2> QED
    BY <2>1, EntryDecided
<1>8. /\ drain'.processed = n + 1 /\ drain'.count = drain.count /\ drain'.start = drain.start
      /\ drain'.running /\ drain # NotDraining /\ drain' # NotDraining
  BY <1>4 DEF RingTypeOK, NotDraining
<1>9. RingTypeOK' /\ DrainCounts'
  <2>1. n + 1 <= drain.count /\ n + 1 \in Nat
    BY <1>4 DEF RingTypeOK
  <2>2. RingTypeOK'
    BY <1>4, <1>6, <1>7, <2>1 DEF RingTypeOK
  <2>3. ring_desc'.entries = ring_desc.entries /\ ring_desc'.active = ring_desc.active
    BY <1>4
  <2>4. DrainCounts'
    BY <1>4, <1>7, <1>8, <2>1, <2>3 DEF DrainCounts
  <2> QED
    BY <2>2, <2>4
<1>10. ASSUME NEW i \in 0 .. n PROVE CompletedWell(i)'
  <2>1. CASE i = n
    <3>1. decided'[n + 1] = [sqe |-> sqe, result |-> result]
      BY <1>4, <1>7, AppendProperties DEF RingTypeOK
    <3>2. decided'[i + 1].sqe = sqe /\ decided'[i + 1].result = result
      BY <2>1, <3>1
    <3>3. ring_desc'.cq_ptr + i * CQE_SIZE = cq
      BY <1>1, <1>4, <2>1
    <3>4. /\ cq \in Nat /\ cq + 2 <= Len(lin_mem')
          /\ lin_mem'[cq + 1] = user_data(sqe) /\ lin_mem'[cq + 2] = result
      BY <1>6
    <3> QED
      BY <3>2, <3>3, <3>4 DEF CompletedWell, user_data
  <2>2. CASE i \in 0 .. n - 1
    <3>1. PICK at \in Nat : at = base + i * 2 /\ at = ring_desc.cq_ptr + i * CQE_SIZE
      BY DEF CQE_SIZE
    <3>2. at + 2 <= cq
      <4>1. /\ at \in Nat /\ base \in Nat /\ n \in Nat /\ i \in Int /\ i + 1 <= n
            /\ at = base + i * 2 /\ cq = base + n * 2
        BY <1>1, <2>2, <3>1
      <4> QED
        BY ONLY <4>1
    <3>3. decided'[i + 1] = decided[i + 1]
      BY <1>4, <1>7, <2>2, AppendProperties DEF RingTypeOK
    <3>4. CompletedWell(i) /\ at + 2 <= Len(lin_mem)
      BY <2>2, <3>1 DEF CompletedWell
    <3>5. lin_mem'[at + 1] = lin_mem[at + 1] /\ lin_mem'[at + 2] = lin_mem[at + 2]
      <4>1. DOMAIN lin_mem = 1 .. Len(lin_mem)
        BY LenProperties DEF RingTypeOK
      <4>2. at + 1 \in 1 .. Len(lin_mem) /\ at + 2 \in 1 .. Len(lin_mem)
        BY ONLY <1>6, <3>4
      <4>3. at + 1 \notin {cq + 1, cq + 2} /\ at + 2 \notin {cq + 1, cq + 2}
        BY <3>2
      <4> QED
        BY <1>6, <4>1, <4>2, <4>3
    <3>6. ring_desc'.cq_ptr + i * CQE_SIZE = at /\ at + 2 <= Len(lin_mem')
      BY <1>4, <1>6, <3>1, <3>4
    <3> QED
      BY <3>1, <3>3, <3>4, <3>5, <3>6 DEF CompletedWell, user_data
  <2> QED
    BY <2>1, <2>2
<1>11. MemoryKept'
  <2>1. Completion(n) = {cq + 1, cq + 2}
    BY <1>1 DEF Completion
  <2>2. Overwritten(n + 1)' = Overwritten(n) \cup {cq + 1, cq + 2}
    <3>1. Overwritten(n + 1)' = Overwritten(n + 1)
      BY <1>4 DEF Overwritten, Completion
    <3> QED
      BY <2>1, <3>1, OverwrittenNext
  <2>3. DOMAIN lin_mem' = DOMAIN lin_mem
    BY <1>6, LenProperties DEF RingTypeOK
  <2>4. Overwritten(drain.processed)' = Overwritten(n + 1)'
    BY <1>4, <1>8 DEF Overwritten, Completion
  <2> QED
    BY <1>6, <1>8, <2>2, <2>3, <2>4 DEF MemoryKept
<1>12. /\ \A i \in 0 .. Len(decided') - 1 : i \in 0 .. n
       /\ \A i \in 0 .. drain'.processed - 1 : i \in 0 .. n
  BY <1>7, <1>8
<1> QED
  BY <1>7, <1>9, <1>10, <1>11, <1>12

(* A completion that finds no room ends the drain: all that ran but the last  *)
(* have theirs.                                                            *)
LEMMA EntryLeftOver ==
  ASSUME RingInv, DrainEntry,
         ~InMemory(ring_desc.cq_ptr + drain.processed * CQE_SIZE, CQE_SIZE)
  PROVE  RingInv'
<1> USE DEF RingInv
<1>1. /\ drain.running /\ drain' = [drain EXCEPT !.running = FALSE]
      /\ UNCHANGED <<lin_mem, ring_desc, handles>>
  BY DEF DrainEntry
<1>2. /\ decided' \in Seq(Decisions) /\ Len(decided') = Len(decided) + 1
      /\ \A i \in 0 .. Len(decided') - 1 : DecidedWell(i)'
  BY EntryDecided
<1>3. /\ drain'.processed = drain.processed /\ drain'.count = drain.count
      /\ drain'.start = drain.start /\ ~drain'.running /\ drain # NotDraining
  BY <1>1 DEF RingTypeOK, NotDraining
<1>4. Len(decided) = drain.processed /\ drain.processed \in Nat
  BY <1>1 DEF RingTypeOK, DrainCounts
<1>5. RingTypeOK' /\ DrainCounts'
  BY <1>1, <1>2, <1>3, <1>4 DEF RingTypeOK, DrainCounts
<1>6. ASSUME NEW i \in 0 .. drain.processed - 1 PROVE CompletedWell(i)'
  <2>1. decided'[i + 1] = decided[i + 1]
    <3>1. PICK d \in Decisions : decided' = Append(decided, d)
      <4>1. PICK d : decided' = Append(decided, d)
        BY DEF DrainEntry
      <4>2. d = decided'[Len(decided) + 1]
        BY <4>1 DEF RingTypeOK
      <4> QED
        BY <1>2, <1>4, <4>1, <4>2, ElementOfSeq
    <3> QED
      BY <1>4, <3>1, AppendProperties DEF RingTypeOK
  <2> QED
    BY <1>1, <2>1 DEF CompletedWell, user_data
<1>7. MemoryKept'
  BY <1>1, <1>3 DEF MemoryKept, Overwritten, Completion
<1> QED
  BY <1>2, <1>3, <1>5, <1>6, <1>7

(* At first nothing is drained, and every step keeps the invariant.          *)
LEMMA RingInitInv == RingInit => RingInv
<1> SUFFICES ASSUME RingInit PROVE RingInv
  OBVIOUS
<1>1. decided = <<>> /\ drain = NotDraining /\ ring_desc = NoRingDesc
  BY DEF RingInit
<1>2. Len(decided) = 0 /\ decided \in Seq(Decisions) /\ <<>> \in Seq(Nat)
  BY <1>1, EmptySeq
<1>3. RingTypeOK
  BY <1>1, <1>2, RingAssumption DEF RingInit, RingTypeOK, NotDraining, NoRingDesc
<1>4. DrainCounts
  BY <1>1, <1>2 DEF DrainCounts, NotDraining, NoRingDesc
<1> QED
  BY <1>1, <1>2, <1>3, <1>4 DEF RingInv, MemoryKept, NotDraining

(* With nothing decided and nothing processed only the counts are at stake.   *)
LEMMA NothingDecided ==
  ASSUME RingTypeOK', decided' = <<>>, drain'.processed = 0, DrainCounts', MemoryKept'
  PROVE  RingInv'
<1>1. Len(decided') = 0
  BY EmptySeq
<1> QED
  BY <1>1 DEF RingInv

(* A ring is set up, or a submission begins.                                 *)
LEMMA RingBegins ==
  ASSUME RingInv,
         \/ \E sq_ptr, cq_ptr \in RingPlaces, entries \in 0 .. MaxRing + 1 :
              ring_setup(sq_ptr, cq_ptr, entries)
         \/ \E n \in 0 .. MaxRing + 1 : ring_submit(n)
  PROVE  RingInv'
<1> USE DEF RingInv
<1>1. decided' = <<>> /\ lin_mem' = lin_mem /\ decided' \in Seq(Decisions) /\ Len(decided') = 0
  BY EmptySeq DEF ring_setup, ring_submit
<1>2. ASSUME NEW sq_ptr \in RingPlaces, NEW cq_ptr \in RingPlaces,
             NEW entries \in 0 .. MaxRing + 1, ring_setup(sq_ptr, cq_ptr, entries)
      PROVE  RingInv'
  <2>1. /\ ring_desc' = [sq_ptr |-> sq_ptr, cq_ptr |-> cq_ptr, entries |-> entries, active |-> TRUE]
        /\ drain' = NotDraining /\ entries \in Nat
    BY <1>2, RingAssumption DEF ring_setup
  <2>2. RingTypeOK'
    BY <1>1, <2>1, RingAssumption, EmptySeq DEF RingTypeOK, NotDraining
  <2>3. DrainCounts' /\ MemoryKept' /\ drain'.processed = 0
    BY <1>1, <2>1 DEF DrainCounts, MemoryKept, NotDraining
  <2> QED
    BY <1>1, <2>2, <2>3, NothingDecided
<1>3. ASSUME NEW n \in 0 .. MaxRing + 1, ring_submit(n)
      PROVE  RingInv'
  <2>1. PICK count \in Nat : count = IF n < ring_desc.entries THEN n ELSE ring_desc.entries
    BY DEF RingTypeOK
  <2>2. /\ drain' = [start |-> lin_mem, processed |-> 0, running |-> TRUE, count |-> count]
        /\ ring_desc.active /\ UNCHANGED ring_desc
    BY <1>3, <2>1 DEF ring_submit
  <2>3. RingTypeOK'
    BY <1>1, <2>2 DEF RingTypeOK
  <2>4. count <= ring_desc.entries
    BY <2>1 DEF RingTypeOK
  <2>5. DrainCounts'
    BY <1>1, <2>2, <2>4 DEF DrainCounts
  <2>6. MemoryKept' /\ drain'.processed = 0
    BY <1>1, <2>2 DEF MemoryKept
  <2> QED
    BY <1>1, <2>3, <2>5, <2>6, NothingDecided
<1> QED
  BY <1>2, <1>3

(* The loop ends, or a signal comes in between.                              *)
LEMMA RingOtherwise ==
  ASSUME RingInv, DrainEnds \/ SignalArrives
  PROVE  RingInv'
<1> USE DEF RingInv
<1>1. /\ UNCHANGED <<lin_mem, ring_desc, handles, decided>>
      /\ drain' \in {drain, [drain EXCEPT !.running = FALSE]} /\ drain.running
  BY DEF DrainEnds, SignalArrives
<1>2. /\ drain'.processed = drain.processed /\ drain'.count = drain.count
      /\ drain'.start = drain.start /\ drain # NotDraining
  BY <1>1 DEF RingTypeOK, NotDraining
<1>3. RingTypeOK' /\ DrainCounts'
  BY <1>1, <1>2 DEF RingTypeOK, DrainCounts
<1>4. ASSUME NEW i \in 0 .. Len(decided) - 1 PROVE DecidedWell(i)'
  BY <1>1, <1>2, DecisionsStay
<1>5. ASSUME NEW i \in 0 .. drain.processed - 1 PROVE CompletedWell(i)'
  BY <1>1 DEF CompletedWell, user_data
<1>6. MemoryKept'
  BY <1>1, <1>2 DEF MemoryKept, Overwritten, Completion
<1> QED
  BY <1>1, <1>2, <1>3, <1>4, <1>5, <1>6

LEMMA RingStep == RingInv /\ [RingNext]_ringVars => RingInv'
<1> SUFFICES ASSUME RingInv, [RingNext]_ringVars PROVE RingInv'
  OBVIOUS
<1>1. CASE RingNext
  BY <1>1, RingBegins, EntryCompleted, EntryLeftOver, RingOtherwise DEF RingNext
<1>2. CASE UNCHANGED ringVars
  <2>1. UNCHANGED <<lin_mem, ring_desc, handles, drain, decided>>
    BY <1>2 DEF ringVars
  <2>2. RingTypeOK' /\ DrainCounts' /\ MemoryKept'
    BY <2>1 DEF RingInv, RingTypeOK, DrainCounts, MemoryKept, Overwritten, Completion
  <2>3. ASSUME NEW i \in 0 .. Len(decided) - 1 PROVE DecidedWell(i)'
    BY <2>1, DecisionsStay
  <2>4. ASSUME NEW i \in 0 .. drain.processed - 1 PROVE CompletedWell(i)'
    BY <2>1 DEF RingInv, CompletedWell, user_data
  <2> QED
    BY <2>1, <2>2, <2>3, <2>4 DEF RingInv
<1> QED
  BY <1>1, <1>2

(* What a module may rely on when it batches (INV-alpha, INV-beta, INV-gamma),  *)
(* however it lays the two regions across each other and whatever they hold:   *)
(* the count returned, the order, the tokens, the outcomes decided on the       *)
(* bytes submitted, and the rest of its memory untouched.                      *)
THEOREM RingsAnswer == RingInit /\ [][RingNext]_ringVars => []RingAnswers
  BY RingInitInv, RingStep, RingInvAnswers, PTL

-----------------------------------------------------------------------------
(* ConsoleOut.  What OfTenants computes is proved by induction, over the set of   *)
(* the positions where it holds: for that no theorem with a predicate for a       *)
(* parameter is needed.                                                      *)

(* A set of numbers has its least one.                                         *)
LEMMA LeastOf ==
  ASSUME NEW S \in SUBSET Nat, S # {}
  PROVE  \E m \in S : \A k \in S : m <= k
<1> DEFINE Less == {p \in Nat \X Nat : p[1] < p[2]}
<1>1. IsWellFoundedOn(Less, Nat)
  BY NatLessThanWellFounded DEF OpToRel
<1>2. \E m \in S : \A k \in S : ~(<<k, m>> \in Less)
  BY <1>1, WFMin
<1>3. \A a, b \in Nat : <<a, b>> \in Less <=> a < b
  OBVIOUS
<1> HIDE DEF Less
<1>4. PICK m \in S : \A k \in S : ~(<<k, m>> \in Less)
  BY <1>2
<1>5. ASSUME NEW k \in S PROVE m <= k
  <2>1. m \in Nat /\ k \in Nat
    BY <1>4
  <2>2. ~(k < m)
    BY <1>3, <1>4, <1>5, <2>1
  <2> QED
    BY <2>1, <2>2
<1> QED
  BY <1>4, <1>5

(* Induction up to n, over a set.                                              *)
LEMMA UpTo ==
  ASSUME NEW n \in Nat, NEW S, 0 \in S, \A i \in 0 .. n - 1 : i \in S => i + 1 \in S
  PROVE  0 .. n \subseteq S
<1> SUFFICES ASSUME ~(0 .. n \subseteq S) PROVE FALSE
  OBVIOUS
<1> DEFINE Rest == {i \in 0 .. n : i \notin S}
<1>1. Rest \in SUBSET Nat /\ Rest # {}
  OBVIOUS
<1>2. PICK m \in Rest : \A k \in Rest : m <= k
  BY <1>1, LeastOf
<1>3. m \in 0 .. n /\ m \notin S /\ m # 0
  BY <1>2
<1>4. m - 1 \in 0 .. n - 1 /\ m - 1 \notin Rest
  BY <1>1, <1>2, <1>3
<1>5. m - 1 \in S
  BY <1>4
<1>6. (m - 1) + 1 \in S
  BY <1>4, <1>5
<1> QED
  BY <1>3, <1>6

(* One turn of Kept.                                                          *)
Turn(s, before, n) == IF s[n] # 0 THEN Append(before, s[n]) ELSE before

Keeps(f, s, n) ==
  f = [i \in 0 .. n |-> IF i = 0 THEN << >> ELSE Turn(s, f[i - 1], i)]

LEMMA KeepsExists ==
  ASSUME NEW s, NEW n \in Nat
  PROVE  \E f : Keeps(f, s, n)
<1> DEFINE S == {k \in 0 .. n : \E f : Keeps(f, s, k)}
<1>1. 0 \in S
  <2> DEFINE f == [i \in 0 .. 0 |-> << >>]
  <2>1. Keeps(f, s, 0)
    BY DEF Keeps
  <2> QED
    BY <2>1
<1>2. ASSUME NEW k \in 0 .. n - 1, k \in S
      PROVE  k + 1 \in S
  <2>1. PICK f : Keeps(f, s, k)
    BY <1>2
  <2> DEFINE g == [i \in 0 .. k + 1 |-> IF i = k + 1 THEN Turn(s, f[k], k + 1) ELSE f[i]]
  <2>2. \A i \in 0 .. k : f[i] = IF i = 0 THEN << >> ELSE Turn(s, f[i - 1], i)
    BY <2>1 DEF Keeps
  <2>3. ASSUME NEW i \in 0 .. k + 1
        PROVE  g[i] = IF i = 0 THEN << >> ELSE Turn(s, g[i - 1], i)
    <3>1. CASE i = k + 1
      <4>1. g[i - 1] = f[k] /\ i # 0 /\ g[i] = Turn(s, f[k], k + 1)
        BY <3>1
      <4> QED
        BY <3>1, <4>1
    <3>2. CASE i \in 0 .. k
      <4>1. g[i] = f[i] /\ (i # 0 => g[i - 1] = f[i - 1])
        BY <3>2
      <4> QED
        BY <2>2, <3>2, <4>1
    <3> QED
      BY <3>1, <3>2
  <2>4. Keeps(g, s, k + 1)
    <3>1. g = [i \in 0 .. k + 1 |-> g[i]]
      OBVIOUS
    <3> HIDE DEF g
    <3> QED
      BY <2>3, <3>1 DEF Keeps
  <2>5. k + 1 \in 0 .. n
    OBVIOUS
  <2> QED
    BY <2>4, <2>5
<1> HIDE DEF S
<1>3. 0 .. n \subseteq S
  BY <1>1, <1>2, UpTo
<1> QED
  BY <1>3 DEF S

LEMMA KeptKeeps ==
  ASSUME NEW s, Len(s) \in Nat
  PROVE  /\ Keeps(Kept(s), s, Len(s))
         /\ Kept(s)[0] = << >>
         /\ \A i \in 1 .. Len(s) : Kept(s)[i] = Turn(s, Kept(s)[i - 1], i)
<1>1. Kept(s) = CHOOSE f : Keeps(f, s, Len(s))
  BY DEF Kept, Keeps, Turn
<1>2. Keeps(Kept(s), s, Len(s))
  BY <1>1, KeepsExists
<1> HIDE DEF Kept
<1>3. \A i \in 0 .. Len(s) : Kept(s)[i] = IF i = 0 THEN << >> ELSE Turn(s, Kept(s)[i - 1], i)
  BY <1>2 DEF Keeps
<1> QED
  BY <1>2, <1>3

LEMMA OfTenantsNil == OfTenants(<< >>) = << >>
<1>1. Len(<< >>) = 0
  OBVIOUS
<1> QED
  BY <1>1, KeptKeeps DEF OfTenants

LEMMA OfTenantsAppend ==
  ASSUME NEW s \in Seq(Nat), NEW b \in Nat
  PROVE  OfTenants(Append(s, b)) =
           IF b # 0 THEN Append(OfTenants(s), b) ELSE OfTenants(s)
<1> DEFINE t == Append(s, b)
           n == Len(s)
<1>1. n \in Nat /\ Len(t) = n + 1 /\ t[n + 1] = b /\ \A i \in 1 .. n : t[i] = s[i]
  OBVIOUS
<1> HIDE DEF t, n
<1>2. /\ Kept(s)[0] = << >> /\ \A i \in 1 .. n : Kept(s)[i] = Turn(s, Kept(s)[i - 1], i)
      /\ Kept(t)[0] = << >> /\ \A i \in 1 .. n + 1 : Kept(t)[i] = Turn(t, Kept(t)[i - 1], i)
  BY <1>1, KeptKeeps DEF n
<1> DEFINE S == {i \in 0 .. n : Kept(t)[i] = Kept(s)[i]}
<1>3. 0 \in S
  BY <1>1, <1>2
<1>4. ASSUME NEW i \in 0 .. n - 1, i \in S
      PROVE  i + 1 \in S
  <2>1. i + 1 \in 1 .. n /\ i + 1 \in 1 .. n + 1 /\ (i + 1) - 1 = i
    BY <1>1
  <2>2. Kept(t)[i + 1] = Turn(t, Kept(t)[i], i + 1) /\ Kept(s)[i + 1] = Turn(s, Kept(s)[i], i + 1)
    BY <1>2, <2>1
  <2>3. Kept(t)[i] = Kept(s)[i] /\ t[i + 1] = s[i + 1]
    BY <1>1, <1>4, <2>1
  <2> QED
    BY <2>1, <2>2, <2>3 DEF Turn
<1> HIDE DEF S
<1>5. 0 .. n \subseteq S
  BY <1>1, <1>3, <1>4, UpTo
<1>6. Kept(t)[n] = Kept(s)[n]
  BY <1>1, <1>5 DEF S
<1>7. Kept(t)[n + 1] = Turn(t, Kept(t)[n], n + 1)
  <2>1. n + 1 \in 1 .. n + 1 /\ (n + 1) - 1 = n
    BY <1>1
  <2> QED
    BY <1>2, <2>1
<1> QED
  BY <1>1, <1>6, <1>7 DEF OfTenants, Turn, t, n

LEMMA OfTenantsType ==
  ASSUME NEW s \in Seq(Nat)
  PROVE  OfTenants(s) \in Seq(Nat \ {0})
<1> DEFINE n == Len(s)
           D == Seq(Nat \ {0})
           S == {i \in 0 .. n : Kept(s)[i] \in D}
<1>1. n \in Nat /\ \A i \in 1 .. n : s[i] \in Nat
  OBVIOUS
<1> HIDE DEF n
<1>2. Kept(s)[0] = << >> /\ \A i \in 1 .. n : Kept(s)[i] = Turn(s, Kept(s)[i - 1], i)
  BY <1>1, KeptKeeps DEF n
<1>3. 0 \in S
  <2>1. << >> \in D
    OBVIOUS
  <2> HIDE DEF D
  <2> QED
    BY <1>1, <1>2, <2>1
<1>4. ASSUME NEW i \in 0 .. n - 1, i \in S
      PROVE  i + 1 \in S
  <2>1. i + 1 \in 1 .. n /\ (i + 1) - 1 = i
    BY <1>1
  <2>2. Kept(s)[i + 1] = Turn(s, Kept(s)[i], i + 1)
    BY <1>2, <2>1
  <2>3. Kept(s)[i + 1] \in Seq(Nat \ {0})
    BY <1>1, <1>4, <2>1, <2>2 DEF Turn
  <2> QED
    BY <1>1, <2>1, <2>3
<1> HIDE DEF S
<1>5. 0 .. n \subseteq S
  BY <1>1, <1>3, <1>4, UpTo
<1> QED
  BY <1>1, <1>5 DEF OfTenants, S, n

LEMMA OfTenantsNone ==
  ASSUME NEW s \in Seq(Nat), \A i \in 1 .. Len(s) : s[i] = 0
  PROVE  OfTenants(s) = << >>
<1> DEFINE n == Len(s)
           S == {i \in 0 .. n : Kept(s)[i] = << >>}
<1>1. n \in Nat /\ \A i \in 1 .. n : s[i] = 0
  OBVIOUS
<1> HIDE DEF n
<1>2. Kept(s)[0] = << >> /\ \A i \in 1 .. n : Kept(s)[i] = Turn(s, Kept(s)[i - 1], i)
  BY <1>1, KeptKeeps DEF n
<1>3. 0 \in S
  BY <1>1, <1>2
<1>4. ASSUME NEW i \in 0 .. n - 1, i \in S
      PROVE  i + 1 \in S
  <2>1. i + 1 \in 1 .. n /\ (i + 1) - 1 = i
    BY <1>1
  <2>2. Kept(s)[i + 1] = Turn(s, Kept(s)[i], i + 1)
    BY <1>2, <2>1
  <2> QED
    BY <1>1, <1>4, <2>1, <2>2 DEF Turn
<1> HIDE DEF S
<1>5. 0 .. n \subseteq S
  BY <1>1, <1>3, <1>4, UpTo
<1> QED
  BY <1>1, <1>5 DEF OfTenants, S, n

-----------------------------------------------------------------------------
(* Sequences.                                                                *)
LEMMA MoveHead ==
  ASSUME NEW D, NEW s \in Seq(D), NEW t \in Seq(D), t # << >>
  PROVE  /\ Append(s, Head(t)) \o Tail(t) = s \o t
         /\ Append(s, Head(t)) \in Seq(D) /\ Tail(t) \in Seq(D)
<1>1. Head(t) \in D /\ Tail(t) \in Seq(D) /\ <<Head(t)>> \in Seq(D)
  OBVIOUS
<1>2. <<Head(t)>> \o Tail(t) = t
  OBVIOUS
<1>3. Append(s, Head(t)) = s \o <<Head(t)>> /\ Append(s, Head(t)) \in Seq(D)
  BY <1>1, AppendIsConcat, AppendProperties
<1>4. (s \o <<Head(t)>>) \o Tail(t) = s \o (<<Head(t)>> \o Tail(t))
  BY <1>1, ConcatAssociative
<1> QED
  BY <1>1, <1>2, <1>3, <1>4, Zenon

LEMMA ConcatAppend ==
  ASSUME NEW D, NEW s \in Seq(D), NEW t \in Seq(D), NEW b \in D
  PROVE  s \o Append(t, b) = Append(s \o t, b)
<1>1. <<b>> \in Seq(D) /\ s \o t \in Seq(D)
  BY ConcatProperties
<1>2. Append(t, b) = t \o <<b>> /\ Append(s \o t, b) = (s \o t) \o <<b>>
  BY <1>1, AppendIsConcat, Zenon
<1>3. (s \o t) \o <<b>> = s \o (t \o <<b>>)
  BY <1>1, ConcatAssociative
<1> QED
  BY <1>2, <1>3, Zenon

-----------------------------------------------------------------------------
Byte  == Nat \ {0}
Zeros(s) == \A i \in 1 .. Len(s) : s[i] = 0

(* The driver polls a status register that it can see.                        *)
Waits == UART_REG_STRIDE = 1 /\ receives

ConsoleTypes ==
  /\ UART_REG_STRIDE \in {1, 4} /\ stdout \in BOOLEAN /\ receives \in BOOLEAN
  /\ left \in Seq(Byte) /\ handed.tenant \in Seq(Byte)
  /\ handed = [tenant |-> handed.tenant, kernel |-> handed.kernel]
  /\ handed.kernel \in Nat /\ line \in Nat
  /\ uart \in [fifo : Seq(Nat), wire : Seq(Nat), lost : Seq(Nat)]

(* The call under way.                                                        *)
CallOK ==
  /\ polled => answer = Going /\ left # << >>
  /\ left # << >> => answer = Going
  /\ answer = Going => stdout /\ call.iovs # 0
  /\ answer.errno = "ESUCCESS" =>
       answer.nwritten = IF call.iovs = 0 THEN 0 ELSE AtMost(Len(call.bytes), FD_WRITE_MAX)

(* A driver that waits finds room: it saw the FIFO empty, and a handler that    *)
(* cut in has put at most one byte there before it waits itself.              *)
WholeOK ==
  Waits => /\ OfTenants(Printed) \o left = handed.tenant
           /\ Len(Printed) - Len(OfTenants(Printed)) = handed.kernel - line
           /\ uart.lost = << >>
           /\ polled => Len(uart.fifo) <= 1

NoneOK ==
  ~(stdout /\ receives) => Zeros(uart.wire) /\ Zeros(uart.fifo) /\ Zeros(uart.lost)

ConsoleInv == ConsoleTypes /\ CallOK /\ WholeOK /\ NoneOK

LEMMA ConsoleInvInit == ConsoleInit => ConsoleInv
<1> SUFFICES ASSUME ConsoleInit PROVE ConsoleInv
  OBVIOUS
<1>1. /\ left = << >> /\ handed.tenant = << >> /\ handed.kernel = 0 /\ line = 0
      /\ uart.wire = << >> /\ uart.fifo = << >> /\ uart.lost = << >> /\ polled = FALSE
      /\ answer.errno = "none yet" /\ answer # Going
  BY DEF ConsoleInit, Quiet, Returned, Going
<1>2. ConsoleTypes
  <2>1. << >> \in Seq(Nat) /\ << >> \in Seq(Byte) /\ 0 \in Nat
    OBVIOUS
  <2>2. uart \in [fifo : Seq(Nat), wire : Seq(Nat), lost : Seq(Nat)]
    BY <2>1 DEF ConsoleInit, Quiet
  <2>3. handed = [tenant |-> handed.tenant, kernel |-> handed.kernel]
    BY DEF ConsoleInit
  <2> QED
    BY <1>1, <2>1, <2>2, <2>3 DEF ConsoleInit, ConsoleTypes
<1>3. WholeOK
  <2>1. << >> \o << >> = << >> /\ Len(<< >>) = 0
    OBVIOUS
  <2>2. Printed = << >>
    BY <1>1, <2>1, Zenon DEF Printed
  <2>3. OfTenants(Printed) = << >>
    BY <2>2, OfTenantsNil
  <2>4. OfTenants(Printed) \o left = handed.tenant
    BY <1>1, <2>1, <2>3, Zenon
  <2>5. Len(Printed) = 0 /\ Len(OfTenants(Printed)) = 0
    BY <2>1, <2>2, <2>3, Zenon
  <2> QED
    BY <1>1, <2>4, <2>5 DEF WholeOK
<1>4. Zeros(<< >>)
  BY DEF Zeros
<1> QED
  BY <1>1, <1>2, <1>3, <1>4 DEF ConsoleInv, CallOK, NoneOK

LEMMA PrintedType ==
  ASSUME ConsoleTypes
  PROVE  /\ Printed \in Seq(Nat) /\ OfTenants(Printed) \in Seq(Byte)
         /\ Len(Printed) \in Nat /\ Len(OfTenants(Printed)) \in Nat
<1>1. Printed \in Seq(Nat)
  BY DEF ConsoleTypes, Printed
<1> QED
  BY <1>1, OfTenantsType DEF Byte

(* What a byte put into the transmit register does.                           *)
LEMMA Transmits ==
  ASSUME ConsoleTypes, NEW b \in Nat, uart' = Transmit(b)
  PROVE  /\ uart' \in [fifo : Seq(Nat), wire : Seq(Nat), lost : Seq(Nat)]
         /\ Len(uart.fifo) < FifoDepth =>
              /\ Printed' = Append(Printed, b) /\ uart'.lost = uart.lost
              /\ uart'.fifo = Append(uart.fifo, b)
         /\ b = 0 /\ Zeros(uart.wire) /\ Zeros(uart.fifo) /\ Zeros(uart.lost) =>
              Zeros(uart'.wire) /\ Zeros(uart'.fifo) /\ Zeros(uart'.lost)
<1>1. uart.fifo \in Seq(Nat) /\ uart.wire \in Seq(Nat) /\ uart.lost \in Seq(Nat)
  BY DEF ConsoleTypes
<1>2. CASE Len(uart.fifo) < FifoDepth
  <2>1. /\ uart' = [uart EXCEPT !.fifo = Append(uart.fifo, b)]
        /\ Append(uart.fifo, b) \in Seq(Nat)
    BY <1>1, <1>2 DEF Transmit
  <2>2. /\ uart'.fifo = Append(uart.fifo, b) /\ uart'.wire = uart.wire /\ uart'.lost = uart.lost
        /\ uart' \in [fifo : Seq(Nat), wire : Seq(Nat), lost : Seq(Nat)]
    BY <2>1 DEF ConsoleTypes
  <2>3. Printed' = Append(Printed, b)
    <3>1. uart.wire \o Append(uart.fifo, b) = Append(uart.wire \o uart.fifo, b)
      <4>1. ASSUME NEW s \in Seq(Nat), NEW t \in Seq(Nat)
            PROVE  s \o Append(t, b) = Append(s \o t, b)
        BY ConcatAppend
      <4> QED
        BY <1>1, <4>1, Zenon
    <3> QED
      BY <2>2, <3>1, Zenon DEF Printed
  <2>4. b = 0 /\ Zeros(uart.fifo) => Zeros(uart'.fifo)
    BY <1>1, <2>2 DEF Zeros
  <2> QED
    BY <1>2, <2>2, <2>3, <2>4
<1>3. CASE ~(Len(uart.fifo) < FifoDepth)
  <2>1. /\ uart' = [uart EXCEPT !.lost = Append(uart.lost, b)]
        /\ Append(uart.lost, b) \in Seq(Nat)
    BY <1>1, <1>3 DEF Transmit
  <2>2. /\ uart'.lost = Append(uart.lost, b) /\ uart'.wire = uart.wire /\ uart'.fifo = uart.fifo
        /\ uart' \in [fifo : Seq(Nat), wire : Seq(Nat), lost : Seq(Nat)]
    BY <2>1 DEF ConsoleTypes
  <2>3. b = 0 /\ Zeros(uart.lost) => Zeros(uart'.lost)
    BY <1>1, <2>2 DEF Zeros
  <2> QED
    BY <1>3, <2>2, <2>3
<1> QED
  BY <1>2, <1>3

LEMMA StillPrinted ==
  ASSUME UNCHANGED uart
  PROVE  Printed' = Printed /\ OfTenants(Printed)' = OfTenants(Printed)
BY DEF Printed

LEMMA FdWriteKeeps ==
  ASSUME ConsoleInv, NEW c \in Calls, host_fd_write(c)
  PROVE  ConsoleInv'
<1> DEFINE push == SubSeq(c.bytes, 1, AtMost(Len(c.bytes), FD_WRITE_MAX))
<1>1. /\ UNCHANGED <<authority, polled, line, uart>> /\ call' = c /\ answer # Going
      /\ left = << >> /\ polled = FALSE
  BY DEF ConsoleInv, ConsoleTypes, CallOK, host_fd_write
<1>2. push \in Seq(Byte)
  <2>1. c.bytes \in Seq(Byte) /\ FD_WRITE_MAX \in Nat
    BY ConsoleAssumption DEF Byte
  <2>2. AtMost(Len(c.bytes), FD_WRITE_MAX) \in Int
        /\ \A i \in 1 .. AtMost(Len(c.bytes), FD_WRITE_MAX) : c.bytes[i] \in Byte
    BY <2>1 DEF AtMost
  <2> QED
    BY <2>2, SubSeqProperties
<1> HIDE DEF push
<1>3. ASSUME NEW errno, errno # "none", NEW n \in Nat, answer' = Returned(errno, n),
             errno = "ESUCCESS" => n = 0 /\ c.iovs = 0, UNCHANGED <<left, handed>>
      PROVE  ConsoleInv'
  <2>1. answer' # Going /\ answer'.errno = errno /\ answer'.nwritten = n
    BY <1>3 DEF Returned, Going
  <2>2. CallOK'
    BY <1>1, <1>3, <2>1 DEF CallOK
  <2>3. ConsoleTypes' /\ WholeOK' /\ NoneOK'
    BY <1>1, <1>3, StillPrinted
       DEF ConsoleInv, ConsoleTypes, WholeOK, NoneOK, Waits, authority
  <2> QED
    BY <2>2, <2>3 DEF ConsoleInv
<1>4. ASSUME stdout, c.iovs # 0, left' = push, answer' = Going,
             handed' = [handed EXCEPT !.tenant = handed.tenant \o push]
      PROVE  ConsoleInv'
  <2>1. /\ handed.tenant \in Seq(Byte) /\ handed.tenant \o push \in Seq(Byte)
        /\ handed = [tenant |-> handed.tenant, kernel |-> handed.kernel]
    BY <1>2, ConcatProperties DEF ConsoleInv, ConsoleTypes
  <2>2. /\ handed'.tenant = handed.tenant \o push /\ handed'.kernel = handed.kernel
        /\ handed' = [tenant |-> handed'.tenant, kernel |-> handed'.kernel]
    BY <1>4, <2>1
  <2>3. ConsoleTypes'
    BY <1>1, <1>2, <1>4, <2>1, <2>2 DEF ConsoleInv, ConsoleTypes, authority
  <2>4. CallOK'
    <3>1. answer'.errno # "ESUCCESS"
      BY <1>4 DEF Going
    <3> QED
      BY <1>1, <1>4, <3>1 DEF CallOK, authority
  <2>5. WholeOK'
    <3> SUFFICES ASSUME Waits'
                 PROVE  /\ OfTenants(Printed) \o push = handed.tenant \o push
                        /\ Len(Printed) - Len(OfTenants(Printed)) = handed.kernel - line
                        /\ uart.lost = << >>
      BY <1>1, <1>4, <2>2, StillPrinted DEF WholeOK
    <3>1. /\ OfTenants(Printed) \o << >> = handed.tenant
          /\ Len(Printed) - Len(OfTenants(Printed)) = handed.kernel - line
          /\ uart.lost = << >>
      BY <1>1 DEF ConsoleInv, WholeOK, Waits, authority
    <3>2. OfTenants(Printed) \o << >> = OfTenants(Printed)
      BY PrintedType, ConcatEmptySeq DEF ConsoleInv
    <3> QED
      BY <3>1, <3>2
  <2>6. NoneOK'
    BY <1>1 DEF ConsoleInv, NoneOK, authority
  <2> QED
    BY <2>3, <2>4, <2>5, <2>6 DEF ConsoleInv
<1>5. \/ /\ UNCHANGED <<left, handed>>
         /\ \/ answer' \in {Returned("EPERM", 0), Returned("EBADF", 0), Returned("EFAULT", 0)}
            \/ answer' = Returned("ESUCCESS", 0) /\ c.iovs = 0
      \/ /\ stdout /\ c.iovs # 0 /\ left' = push /\ answer' = Going
         /\ handed' = [handed EXCEPT !.tenant = handed.tenant \o push]
  BY DEF host_fd_write, write_nwritten, push
<1> QED
  BY <1>3, <1>4, <1>5

LEMMA PollKeeps ==
  ASSUME ConsoleInv, poll
  PROVE  ConsoleInv'
<1>1. /\ answer = Going /\ left # << >> /\ host_mmio_read8_THRE /\ polled' = TRUE
      /\ UNCHANGED <<UART_REG_STRIDE, stdout, receives, left, call, answer, line, uart, handed>>
  BY DEF poll, authority
<1>2. Waits => uart.fifo = << >>
  <2>1. Waits => reg_addr(UART_LSR_REG) < UART_MMIO_LEN
    BY ConsoleAssumption DEF Waits, reg_addr, UART_LSR_REG
  <2> QED
    BY <1>1, <2>1 DEF host_mmio_read8_THRE, Gate, is_uart_mmio_addr, Waits
<1>3. Waits => Len(uart.fifo) <= 1
  BY <1>2
<1> QED
  BY <1>1, <1>3, StillPrinted DEF ConsoleInv, ConsoleTypes, CallOK, WholeOK, NoneOK, Waits

LEMMA PutByteKeeps ==
  ASSUME ConsoleInv, put_byte
  PROVE  ConsoleInv'
<1>1. /\ answer = Going /\ left # << >> /\ left \in Seq(Byte) /\ polled' = FALSE /\ stdout
      /\ call.iovs # 0
      /\ UNCHANGED <<UART_REG_STRIDE, stdout, receives, call, line, handed>>
  BY DEF put_byte, ConsoleInv, CallOK, ConsoleTypes, authority
<1>2. CASE ~Gate(UART_THR_REG)
  <2>1. left' = << >> /\ uart' = uart /\ answer' = Returned("EIO", 0)
    BY <1>2 DEF put_byte
  <2>2. answer' # Going /\ answer'.errno # "ESUCCESS"
    BY <2>1 DEF Returned, Going
  <2>3. ~Waits
    BY <1>2, ConsoleAssumption
       DEF Gate, Waits, is_uart_mmio_addr, reg_addr, UART_THR_REG, ConsoleInv, ConsoleTypes
  <2>4. << >> \in Seq(Byte)
    OBVIOUS
  <2> QED
    BY <1>1, <2>1, <2>2, <2>3, <2>4
       DEF ConsoleInv, ConsoleTypes, CallOK, WholeOK, NoneOK, Waits
<1>3. CASE Gate(UART_THR_REG)
  <2>1. left' = Tail(left) /\ uart' = Transmit(Head(left)) /\ answer' = Going /\ receives
    BY <1>3 DEF put_byte, Gate
  <2>2. Head(left) \in Byte /\ Head(left) \in Nat /\ Head(left) # 0 /\ Tail(left) \in Seq(Byte)
    BY <1>1, HeadTailProperties DEF Byte
  <2>3. /\ uart' \in [fifo : Seq(Nat), wire : Seq(Nat), lost : Seq(Nat)]
        /\ Len(uart.fifo) < FifoDepth =>
             Printed' = Append(Printed, Head(left)) /\ uart'.lost = uart.lost
    BY <2>1, <2>2, Transmits DEF ConsoleInv
  <2>4. ConsoleTypes'
    BY <1>1, <2>1, <2>2, <2>3 DEF ConsoleInv, ConsoleTypes
  <2>5. CallOK'
    <3>1. Going.errno # "ESUCCESS"
      BY DEF Going
    <3> QED
      BY <1>1, <2>1, <3>1 DEF CallOK
  <2>6. NoneOK'
    BY <1>1, <2>1 DEF NoneOK
  <2>7. WholeOK'
    <3> SUFFICES ASSUME Waits
                 PROVE  /\ OfTenants(Printed') \o Tail(left) = handed.tenant
                        /\ Len(Printed') - Len(OfTenants(Printed')) = handed.kernel - line
                        /\ uart'.lost = << >>
      BY <1>1, <2>1 DEF WholeOK, Waits
    <3>1. /\ OfTenants(Printed) \o left = handed.tenant
          /\ Len(Printed) - Len(OfTenants(Printed)) = handed.kernel - line
          /\ uart.lost = << >> /\ Len(uart.fifo) <= 1
      BY DEF ConsoleInv, WholeOK, put_byte
    <3>2. Len(uart.fifo) \in Nat /\ Len(uart.fifo) < FifoDepth
      BY <3>1, ConsoleAssumption DEF ConsoleInv, ConsoleTypes
    <3>3. /\ Printed \in Seq(Nat) /\ OfTenants(Printed) \in Seq(Byte)
          /\ Len(Printed) \in Nat /\ Len(OfTenants(Printed)) \in Nat
      BY PrintedType DEF ConsoleInv
    <3>4. Printed' = Append(Printed, Head(left)) /\ uart'.lost = << >>
      BY <2>3, <3>1, <3>2
    <3>5. OfTenants(Printed') = Append(OfTenants(Printed), Head(left))
      BY <2>2, <3>3, <3>4, OfTenantsAppend
    <3>6. Append(OfTenants(Printed), Head(left)) \o Tail(left) = OfTenants(Printed) \o left
      BY <1>1, <3>3, MoveHead
    <3>7. Len(Printed') = Len(Printed) + 1 /\ Len(OfTenants(Printed')) = Len(OfTenants(Printed)) + 1
      BY <2>2, <3>3, <3>4, <3>5, AppendProperties
    <3>8. OfTenants(Printed') \o Tail(left) = handed.tenant
      BY <3>1, <3>5, <3>6, Zenon
    <3>9. Len(Printed') - Len(OfTenants(Printed')) = Len(Printed) - Len(OfTenants(Printed))
      BY ONLY <3>3, <3>7
    <3> QED
      BY <3>1, <3>4, <3>8, <3>9
  <2> QED
    BY <2>4, <2>5, <2>6, <2>7 DEF ConsoleInv
<1> QED
  BY <1>2, <1>3

LEMMA FdWriteReturnsKeeps ==
  ASSUME ConsoleInv, fd_write_returns
  PROVE  ConsoleInv'
<1>1. /\ answer = Going /\ left = << >> /\ polled = FALSE /\ call.iovs # 0
      /\ answer' = write_nwritten(call, AtMost(Len(call.bytes), FD_WRITE_MAX))
      /\ UNCHANGED <<UART_REG_STRIDE, stdout, receives, left, polled, call, line, uart, handed>>
  BY DEF fd_write_returns, ConsoleInv, ConsoleTypes, CallOK, authority
<1>2. /\ answer' # Going
      /\ answer'.errno = "ESUCCESS" =>
           answer'.nwritten = AtMost(Len(call.bytes), FD_WRITE_MAX)
  BY <1>1 DEF write_nwritten, Returned, Going
<1> QED
  BY <1>1, <1>2, StillPrinted DEF ConsoleInv, ConsoleTypes, CallOK, WholeOK, NoneOK, Waits

LEMMA TrapKeeps ==
  ASSUME ConsoleInv, Trap
  PROVE  ConsoleInv'
<1>1. /\ line = 0 /\ line' = MaxLine /\ MaxLine \in Nat
      /\ handed' = [handed EXCEPT !.kernel = handed.kernel + MaxLine]
      /\ UNCHANGED <<UART_REG_STRIDE, stdout, receives, left, polled, call, answer, uart>>
  BY ConsoleAssumption DEF Trap, authority
<1>2. /\ handed'.tenant = handed.tenant /\ handed'.kernel = handed.kernel + MaxLine
      /\ handed' = [tenant |-> handed'.tenant, kernel |-> handed'.kernel]
      /\ handed.kernel \in Nat
  BY <1>1 DEF ConsoleInv, ConsoleTypes
<1>3. ConsoleTypes' /\ CallOK' /\ NoneOK'
  BY <1>1, <1>2 DEF ConsoleInv, ConsoleTypes, CallOK, NoneOK
<1>4. WholeOK'
  BY <1>1, <1>2, StillPrinted, PrintedType DEF ConsoleInv, WholeOK, Waits
<1> QED
  BY <1>3, <1>4 DEF ConsoleInv

LEMMA PutcKeeps ==
  ASSUME ConsoleInv, putc
  PROVE  ConsoleInv'
<1>1. /\ line > 0 /\ line \in Nat /\ uart.fifo = << >> /\ uart' = Transmit(0)
      /\ line' = line - 1
      /\ UNCHANGED <<UART_REG_STRIDE, stdout, receives, left, polled, call, answer, handed>>
  BY DEF putc, authority, ConsoleInv, ConsoleTypes
<1>2. Len(uart.fifo) = 0 /\ Len(uart.fifo) < FifoDepth
  BY <1>1, ConsoleAssumption
<1>3. /\ uart' \in [fifo : Seq(Nat), wire : Seq(Nat), lost : Seq(Nat)]
      /\ Printed' = Append(Printed, 0) /\ uart'.lost = uart.lost
      /\ uart'.fifo = Append(uart.fifo, 0)
      /\ Zeros(uart.wire) /\ Zeros(uart.fifo) /\ Zeros(uart.lost) =>
           Zeros(uart'.wire) /\ Zeros(uart'.fifo) /\ Zeros(uart'.lost)
  BY <1>1, <1>2, Transmits DEF ConsoleInv
<1>4. ConsoleTypes' /\ CallOK' /\ NoneOK'
  BY <1>1, <1>3 DEF ConsoleInv, ConsoleTypes, CallOK, NoneOK
<1>5. WholeOK'
  <2>1. /\ Printed \in Seq(Nat) /\ Len(Printed) \in Nat /\ Len(OfTenants(Printed)) \in Nat
    BY PrintedType DEF ConsoleInv
  <2>2. OfTenants(Printed') = OfTenants(Printed) /\ Len(Printed') = Len(Printed) + 1
    BY <1>3, <2>1, OfTenantsAppend, AppendProperties
  <2>3. Len(uart'.fifo) <= 1
    <3>1. Len(Append(<< >>, 0)) <= 1
      OBVIOUS
    <3> QED
      BY <1>1, <1>3, <3>1
  <2>4. handed.kernel \in Nat
    BY DEF ConsoleInv, ConsoleTypes
  <2> SUFFICES ASSUME Waits
               PROVE  /\ OfTenants(Printed') \o left = handed.tenant
                      /\ Len(Printed') - Len(OfTenants(Printed')) = handed.kernel - line'
                      /\ uart'.lost = << >> /\ Len(uart'.fifo) <= 1
    BY <1>1 DEF WholeOK, Waits
  <2>5. /\ OfTenants(Printed) \o left = handed.tenant
        /\ Len(Printed) - Len(OfTenants(Printed)) = handed.kernel - line
        /\ uart.lost = << >>
    BY DEF ConsoleInv, WholeOK
  <2>6. OfTenants(Printed') \o left = handed.tenant
    BY <2>2, <2>5, Zenon
  <2>7. Len(Printed') - Len(OfTenants(Printed')) = handed.kernel - line'
    <3>1. Len(OfTenants(Printed')) = Len(OfTenants(Printed))
      BY <2>2
    <3> QED
      BY ONLY <1>1, <2>1, <2>2, <2>4, <2>5, <3>1
  <2> QED
    BY <1>3, <2>3, <2>5, <2>6, <2>7
<1> QED
  BY <1>4, <1>5 DEF ConsoleInv

LEMMA ShiftOutKeeps ==
  ASSUME ConsoleInv, ShiftOut
  PROVE  ConsoleInv'
<1>1. /\ uart.fifo # << >> /\ uart.fifo \in Seq(Nat) /\ uart.wire \in Seq(Nat)
      /\ uart' = [uart EXCEPT !.fifo = Tail(uart.fifo),
                              !.wire = Append(uart.wire, Head(uart.fifo))]
      /\ UNCHANGED <<UART_REG_STRIDE, stdout, receives, left, polled, call, answer, line, handed>>
  BY DEF ShiftOut, authority, ConsoleInv, ConsoleTypes
<1>2. /\ Append(uart.wire, Head(uart.fifo)) \o Tail(uart.fifo) = uart.wire \o uart.fifo
      /\ Append(uart.wire, Head(uart.fifo)) \in Seq(Nat) /\ Tail(uart.fifo) \in Seq(Nat)
  BY <1>1, MoveHead
<1>3. /\ uart'.fifo = Tail(uart.fifo) /\ uart'.wire = Append(uart.wire, Head(uart.fifo))
      /\ uart'.lost = uart.lost
      /\ uart' \in [fifo : Seq(Nat), wire : Seq(Nat), lost : Seq(Nat)]
  BY <1>1, <1>2 DEF ConsoleInv, ConsoleTypes
<1>4. Printed' = Printed
  BY <1>2, <1>3, Zenon DEF Printed
<1>5. /\ Len(Tail(uart.fifo)) <= Len(uart.fifo)
      /\ Zeros(uart.fifo) => Zeros(Tail(uart.fifo)) /\ Head(uart.fifo) = 0
  <2>1. ASSUME NEW s \in Seq(Nat), s # << >>
        PROVE  Len(Tail(s)) <= Len(s) /\ (Zeros(s) => Zeros(Tail(s)) /\ Head(s) = 0)
    <3>1. /\ Len(s) \in Nat \ {0} /\ Len(Tail(s)) = Len(s) - 1 /\ Head(s) = s[1]
          /\ \A i \in 1 .. Len(s) - 1 : Tail(s)[i] = s[i + 1]
      BY <2>1
    <3> QED
      BY <3>1 DEF Zeros
  <2> QED
    BY <1>1, <2>1, Zenon
<1>6. Zeros(uart.fifo) /\ Zeros(uart.wire) => Zeros(Append(uart.wire, Head(uart.fifo)))
  BY <1>1, <1>5 DEF Zeros
<1>7. ConsoleTypes' /\ CallOK' /\ NoneOK'
  BY <1>1, <1>3, <1>5, <1>6 DEF ConsoleInv, ConsoleTypes, CallOK, NoneOK
<1>8. WholeOK'
  <2>1. Len(Tail(uart.fifo)) \in Nat /\ Len(uart.fifo) \in Nat
    BY <1>1, <1>2
  <2> QED
    BY <1>1, <1>3, <1>4, <1>5, <2>1 DEF ConsoleInv, WholeOK, Waits
<1> QED
  BY <1>7, <1>8 DEF ConsoleInv

LEMMA ConsoleInvStep == ConsoleInv /\ [ConsoleNext]_consoleVars => ConsoleInv'
<1> SUFFICES ASSUME ConsoleInv, [ConsoleNext]_consoleVars PROVE ConsoleInv'
  OBVIOUS
<1>1. CASE UNCHANGED consoleVars
  BY <1>1, StillPrinted
     DEF consoleVars, ConsoleInv, ConsoleTypes, CallOK, WholeOK, NoneOK, Waits
<1> QED
  BY <1>1, FdWriteKeeps, PollKeeps, PutByteKeeps, FdWriteReturnsKeeps, TrapKeeps, PutcKeeps,
     ShiftOutKeeps DEF ConsoleNext

LEMMA ConsoleInvWhole == ConsoleInv => ConsoleWhole
<1> SUFFICES ASSUME ConsoleInv, ~(stdout /\ receives)
             PROVE  OfTenants(Printed \o uart.lost) = << >>
  BY DEF ConsoleWhole, ConsoleInv, WholeOK, CallOK, Waits
<1>1. /\ uart.fifo \in Seq(Nat) /\ uart.wire \in Seq(Nat) /\ uart.lost \in Seq(Nat)
      /\ Zeros(uart.wire) /\ Zeros(uart.fifo) /\ Zeros(uart.lost)
  BY DEF ConsoleInv, ConsoleTypes, NoneOK
<1>2. ASSUME NEW s \in Seq(Nat), NEW t \in Seq(Nat), Zeros(s), Zeros(t)
      PROVE  s \o t \in Seq(Nat) /\ Zeros(s \o t)
  BY <1>2 DEF Zeros
<1>3. Printed \in Seq(Nat) /\ Zeros(Printed)
  BY <1>1, <1>2, Zenon DEF Printed
<1>4. Printed \o uart.lost \in Seq(Nat) /\ Zeros(Printed \o uart.lost)
  BY <1>1, <1>2, <1>3, Zenon
<1> QED
  BY <1>4, OfTenantsNone DEF Zeros

(* What fd_write accepted goes out once, in order and wholly, and what it tells the  *)
(* tenant is true: for every depth of the FIFO but one, every line a trap prints in   *)
(* between and every limit of a call (wasi.rs, host_fd_write; drivers/uart, put_byte). *)
THEOREM ConsoleStaysWhole == ConsoleInit /\ [][ConsoleNext]_consoleVars => []ConsoleWhole
  BY ConsoleInvInit, ConsoleInvStep, ConsoleInvWhole, PTL

-----------------------------------------------------------------------------
(* NativeModule.                                                            *)

(* One turn of the loop over the section table.                                 *)
AfterEntry(n, t, i) ==
  IF t.check # "Ok" THEN t
  ELSE [check |-> check_entry(n, t.seen, n.table[i]), seen |-> t.seen \cup {n.table[i].kind}]

Start == [check |-> "Ok", seen |-> {}]

(* f is the loop over n, up to its turn m.                                        *)
Walks(f, n, m) == f = [i \in 0 .. m |-> IF i = 0 THEN Start ELSE AfterEntry(n, f[i - 1], i)]

(* There is such a function, whatever the loop makes of the entries.                *)
LEMMA WalkExists ==
  ASSUME NEW n, NEW m \in Nat
  PROVE  \E f : Walks(f, n, m)
<1> DEFINE S == {k \in 0 .. m : \E f : Walks(f, n, k)}
<1>1. 0 \in S
  <2> DEFINE f == [i \in 0 .. 0 |-> Start]
  <2>1. Walks(f, n, 0)
    BY DEF Walks
  <2> QED
    BY <2>1
<1>2. ASSUME NEW k \in 0 .. m - 1, k \in S
      PROVE  k + 1 \in S
  <2>1. PICK f : Walks(f, n, k)
    BY <1>2
  <2> DEFINE g == [i \in 0 .. k + 1 |-> IF i = k + 1 THEN AfterEntry(n, f[k], k + 1) ELSE f[i]]
  <2>2. \A i \in 0 .. k : f[i] = IF i = 0 THEN Start ELSE AfterEntry(n, f[i - 1], i)
    BY <2>1 DEF Walks
  <2>3. ASSUME NEW i \in 0 .. k + 1
        PROVE  g[i] = IF i = 0 THEN Start ELSE AfterEntry(n, g[i - 1], i)
    <3>1. CASE i = k + 1
      <4>1. g[i - 1] = f[k] /\ i # 0 /\ g[i] = AfterEntry(n, f[k], k + 1)
        BY <3>1
      <4> QED
        BY <3>1, <4>1
    <3>2. CASE i \in 0 .. k
      <4>1. g[i] = f[i] /\ (i # 0 => g[i - 1] = f[i - 1])
        BY <3>2
      <4> QED
        BY <2>2, <3>2, <4>1
    <3> QED
      BY <3>1, <3>2
  <2>4. Walks(g, n, k + 1)
    <3>1. g = [i \in 0 .. k + 1 |-> g[i]]
      OBVIOUS
    <3> HIDE DEF g
    <3> QED
      BY <2>3, <3>1 DEF Walks
  <2>5. k + 1 \in 0 .. m
    OBVIOUS
  <2> QED
    BY <2>4, <2>5
<1> HIDE DEF S
<1>3. 0 .. m \subseteq S
  BY <1>1, <1>2, UpTo
<1> QED
  BY <1>3 DEF S

(* So the loop does what its turns say.                                           *)
LEMMA TurnsWalk ==
  ASSUME NEW n, Len(n.table) \in Nat
  PROVE  /\ Turns(n)[0] = Start
         /\ \A i \in 1 .. Len(n.table) : Turns(n)[i] = AfterEntry(n, Turns(n)[i - 1], i)
<1>1. Turns(n) = CHOOSE f : Walks(f, n, Len(n.table))
  BY DEF Turns, Walks, AfterEntry, Start
<1>2. Walks(Turns(n), n, Len(n.table))
  BY <1>1, WalkExists
<1> HIDE DEF Turns
<1>3. \A i \in 0 .. Len(n.table) :
        Turns(n)[i] = IF i = 0 THEN Start ELSE AfterEntry(n, Turns(n)[i - 1], i)
  BY <1>2 DEF Walks
<1> QED
  BY <1>3

(* What the loop has established after i turns without an error.                *)
EntryOK(n, e) == e.kind \in Kinds /\ e.offset >= TableEnd(n) /\ e.offset + e.len <= n.total

TableOK(n, i) ==
  /\ \A j \in 1 .. i : EntryOK(n, n.table[j])
  /\ \A j, k \in 1 .. i : n.table[j].kind = n.table[k].kind => j = k

KindsUpTo(n, i) == {n.table[j].kind : j \in 1 .. i}

Established(n, i) ==
  /\ Turns(n)[i].check = "Ok" <=> TableOK(n, i)
  /\ Turns(n)[i].check = "Ok" => Turns(n)[i].seen = KindsUpTo(n, i)

(* By induction over the turns: at the end the whole table is checked.               *)
LEMMA TableChecked ==
  ASSUME NEW n \in Natives
  PROVE  Established(n, Len(n.table))
<1> DEFINE m == Len(n.table)
           S == {i \in 0 .. m : Established(n, i)}
<1>1. /\ m \in Nat /\ n.count \in Nat /\ n.total \in Nat /\ TableEnd(n) \in Nat
      /\ \A i \in 1 .. m : n.table[i] \in [kind : Nat, offset : Nat, len : Nat]
  <2>1. n.table \in Seq([kind : Nat, offset : Nat, len : Nat]) /\ n.count \in Nat /\ n.total \in Nat
    BY NativeAssumption
  <2>2. TableEnd(n) \in Nat
    <3>1. HEADER_LEN \in Nat /\ ENTRY_LEN \in Nat
      BY NativeAssumption
    <3>2. n.count * ENTRY_LEN \in Nat
      BY ONLY <2>1, <3>1
    <3> QED
      BY <3>1, <3>2 DEF TableEnd
  <2> DEFINE E == [kind : Nat, offset : Nat, len : Nat]
  <2> HIDE DEF E
  <2>3. n.table \in Seq(E)
    BY <2>1 DEF E
  <2>4. m \in Nat /\ \A i \in 1 .. m : n.table[i] \in E
    BY <2>3
  <2> QED
    BY <2>1, <2>2, <2>4 DEF E
<1> HIDE DEF m
<1>2. Turns(n)[0] = Start /\ \A i \in 1 .. m : Turns(n)[i] = AfterEntry(n, Turns(n)[i - 1], i)
  BY <1>1, TurnsWalk DEF m
<1>3. 0 \in S
  BY <1>1, <1>2 DEF Established, TableOK, KindsUpTo, Start
<1>4. ASSUME NEW i \in 0 .. m - 1, i \in S
      PROVE  i + 1 \in S
  <2> DEFINE before == Turns(n)[i]
             after  == Turns(n)[i + 1]
             e      == n.table[i + 1]
  <2>1. i + 1 \in 1 .. m /\ (i + 1) - 1 = i /\ i \in Nat
    BY <1>1
  <2>2. after = AfterEntry(n, before, i + 1) /\ Established(n, i)
    BY <1>2, <1>4, <2>1
  <2>3. e.kind \in Nat /\ e.offset \in Nat /\ e.len \in Nat
    BY <1>1, <2>1
  <2>4. TableOK(n, i + 1) <=> /\ TableOK(n, i) /\ EntryOK(n, e)
                              /\ e.kind \notin KindsUpTo(n, i)
    <3>1. 1 .. i + 1 = (1 .. i) \cup {i + 1} /\ i + 1 \notin 1 .. i
      BY <2>1
    <3> QED
      BY <3>1 DEF TableOK, KindsUpTo
  <2>5. KindsUpTo(n, i + 1) = KindsUpTo(n, i) \cup {e.kind}
    <3>1. 1 .. i + 1 = (1 .. i) \cup {i + 1}
      BY <2>1
    <3> QED
      BY <3>1 DEF KindsUpTo
  <2> HIDE DEF before, after, e
  <2>6. CASE before.check # "Ok"
    <3>1. after = before
      BY <2>2, <2>6 DEF AfterEntry
    <3> QED
      BY <1>1, <2>1, <2>2, <2>4, <2>6, <3>1 DEF Established, before, after
  <2>7. CASE before.check = "Ok"
    <3>1. /\ after.check = check_entry(n, before.seen, e)
          /\ after.seen = before.seen \cup {e.kind}
      BY <2>2, <2>7 DEF AfterEntry, e
    <3>2. before.seen = KindsUpTo(n, i) /\ TableOK(n, i)
      BY <2>2, <2>7 DEF Established, before
    <3>3. check_entry(n, before.seen, e) = "Ok" <=> EntryOK(n, e) /\ e.kind \notin before.seen
      BY <1>1, <2>3 DEF check_entry, EntryOK
    <3>4. /\ after.check = "Ok" <=> TableOK(n, i + 1)
          /\ after.seen = KindsUpTo(n, i + 1)
      BY <2>4, <2>5, <3>1, <3>2, <3>3
    <3>5. Established(n, i + 1)
      BY <3>4 DEF Established, after
    <3> QED
      BY <1>1, <2>1, <3>5
  <2> QED
    BY <2>6, <2>7
<1> HIDE DEF S
<1>5. 0 .. m \subseteq S
  BY <1>1, <1>3, <1>4, UpTo
<1> QED
  BY <1>1, <1>5 DEF S, m

(* The header and the table are sound.                                          *)
Sound(n) ==
  /\ n.magic = "WNM" /\ n.version = 1 /\ n.count <= MAX_SECTIONS
  /\ TableEnd(n) <= n.total /\ n.total <= n.size
  /\ Required \subseteq KindsUpTo(n, Len(n.table)) /\ TableOK(n, Len(n.table))

(* The sizes of a native module, and its table as a sequence.                       *)
LEMMA TableSizes ==
  ASSUME NEW n \in Natives
  PROVE  /\ TableEnd(n) \in Nat /\ HEADER_LEN \in Nat /\ HEADER_LEN <= TableEnd(n)
         /\ n.size \in Nat /\ n.total \in Nat /\ Len(n.table) \in Nat
         /\ DOMAIN n.table = 1 .. Len(n.table)
         /\ \A i \in 1 .. Len(n.table) : n.table[i] \in [kind : Nat, offset : Nat, len : Nat]
<1> DEFINE E == [kind : Nat, offset : Nat, len : Nat]
<1>1. /\ n.table \in Seq(E) /\ n.count \in Nat /\ n.total \in Nat /\ n.size \in Nat
      /\ HEADER_LEN \in Nat /\ ENTRY_LEN \in Nat
  BY NativeAssumption
<1>2. n.count * ENTRY_LEN \in Nat
  BY ONLY <1>1
<1> HIDE DEF E
<1>3. /\ Len(n.table) \in Nat /\ DOMAIN n.table = 1 .. Len(n.table)
      /\ \A i \in 1 .. Len(n.table) : n.table[i] \in E
  BY <1>1
<1> QED
  BY <1>1, <1>2, <1>3 DEF TableEnd, E

(* The header check passes exactly what is sound, in whatever order it looks.        *)
LEMMA HeaderChecked ==
  ASSUME NEW n \in Natives
  PROVE  validate_header(n) = "Ok" <=> Sound(n)
<1>1. /\ check_table(n).check = "Ok" <=> TableOK(n, Len(n.table))
      /\ check_table(n).check = "Ok" => check_table(n).seen = KindsUpTo(n, Len(n.table))
  BY TableChecked DEF Established, check_table
<1>2. TableEnd(n) <= n.total => HEADER_LEN <= n.total
  BY TableSizes
<1>3. HEADER_LEN <= n.total /\ n.total <= n.size => HEADER_LEN <= n.size
  BY TableSizes
<1>4. /\ n.size < HEADER_LEN <=> ~(HEADER_LEN <= n.size)
      /\ n.total < HEADER_LEN <=> ~(HEADER_LEN <= n.total)
      /\ n.total > n.size <=> ~(n.total <= n.size)
      /\ TableEnd(n) > n.total <=> ~(TableEnd(n) <= n.total)
      /\ n.count > MAX_SECTIONS <=> ~(n.count <= MAX_SECTIONS)
  BY TableSizes, NativeAssumption
<1> HIDE DEF check_table
<1> QED
  BY <1>1, <1>2, <1>3, <1>4 DEF validate_header, Sound

(* The plan, once made, is the one load_plan makes of what is loaded.               *)
NativeInv == native \in Natives /\ (plan = Unplanned \/ plan = load_plan(native))

(* Such a plan is sound: of each kind there is one entry, so the last is the one.     *)
LEMMA NativeInvSound == NativeInv => PlanSound
<1> SUFFICES ASSUME NativeInv, plan # Unplanned PROVE PlanSound
  BY DEF PlanSound
<1> DEFINE n       == native
           entries == {n.table[i] : i \in DOMAIN n.table}
           at(k)   == {i \in DOMAIN n.table : n.table[i].kind = k}
           last(k) == n.table[CHOOSE i \in at(k) : \A j \in at(k) : j <= i]
           sound   ==
             /\ n.magic = "WNM" /\ n.version = 1 /\ n.count <= MAX_SECTIONS
             /\ TableEnd(n) <= n.total /\ n.total <= n.size
             /\ \A k \in Required : \E e \in entries : e.kind = k
             /\ \A e \in entries : e.kind \in Kinds
             /\ \A i, j \in DOMAIN n.table : n.table[i].kind = n.table[j].kind => i = j
             /\ \A e \in entries :
                  e.offset .. e.offset + e.len - 1 \subseteq TableEnd(n) .. n.total - 1
             /\ \A e \in entries : e.offset >= TableEnd(n) /\ e.offset + e.len <= n.total
<1>1. n \in Natives /\ plan = load_plan(n)
  BY DEF NativeInv
<1>2. /\ DOMAIN n.table = 1 .. Len(n.table) /\ Len(n.table) \in Nat /\ TableEnd(n) \in Nat
      /\ n.total \in Nat
      /\ \A i \in 1 .. Len(n.table) : n.table[i] \in [kind : Nat, offset : Nat, len : Nat]
  BY <1>1, TableSizes
<1>3. Sound(n) <=> sound
  <2>1. TableOK(n, Len(n.table)) <=>
          /\ \A e \in entries : EntryOK(n, e)
          /\ \A i, j \in DOMAIN n.table : n.table[i].kind = n.table[j].kind => i = j
    <3>1. (\A e \in entries : EntryOK(n, e)) <=>
            \A i \in 1 .. Len(n.table) : EntryOK(n, n.table[i])
      BY <1>2
    <3> HIDE DEF n, entries
    <3> QED
      BY <1>2, <3>1 DEF TableOK
  <2>2. Required \subseteq KindsUpTo(n, Len(n.table)) <=>
          \A k \in Required : \E e \in entries : e.kind = k
    BY <1>2 DEF KindsUpTo
  <2>3. ASSUME NEW e \in entries, EntryOK(n, e)
        PROVE  e.offset .. e.offset + e.len - 1 \subseteq TableEnd(n) .. n.total - 1
    <3>1. e.offset \in Nat /\ e.len \in Nat
      BY <1>2, <2>3
    <3> QED
      BY <1>2, <2>3, <3>1 DEF EntryOK
  <2> HIDE DEF n, entries
  <2>4. (\A e \in entries : EntryOK(n, e)) <=>
          /\ \A e \in entries : e.kind \in Kinds
          /\ \A e \in entries : e.offset >= TableEnd(n) /\ e.offset + e.len <= n.total
    BY DEF EntryOK
  <2> QED
    BY <2>1, <2>2, <2>3, <2>4 DEF Sound
<1>4. plan.answer = "Ok" <=> Sound(n)
  <2>1. plan = IF validate_header(n) # "Ok" THEN Rejected(validate_header(n))
               ELSE Planned([k \in {k \in Kinds : at(k) # {}} |-> <<last(k).offset, last(k).len>>])
    BY <1>1 DEF load_plan
  <2>2. validate_header(n) = "Ok" <=> Sound(n)
    BY <1>1, HeaderChecked
  <2> DEFINE ranges == [k \in {k \in Kinds : at(k) # {}} |-> <<last(k).offset, last(k).len>>]
  <2>3. plan = IF validate_header(n) # "Ok" THEN Rejected(validate_header(n)) ELSE Planned(ranges)
    BY <2>1
  <2> HIDE DEF n, ranges
  <2> QED
    BY <2>2, <2>3 DEF Rejected, Planned
<1>5. ASSUME Sound(n)
      PROVE  {<<e.kind, e.offset, e.len>> : e \in entries}
               = {<<k, plan.ranges[k][1], plan.ranges[k][2]>> : k \in DOMAIN plan.ranges}
  <2>1. plan.ranges = [k \in {k \in Kinds : at(k) # {}} |-> <<last(k).offset, last(k).len>>]
    BY <1>1, <1>5, HeaderChecked DEF load_plan, Planned
  <2>2. /\ \A i \in DOMAIN n.table : n.table[i].kind \in Kinds
        /\ \A i, j \in DOMAIN n.table : n.table[i].kind = n.table[j].kind => i = j
    BY <1>2, <1>5 DEF Sound, TableOK, EntryOK
  <2>3. ASSUME NEW i \in DOMAIN n.table
        PROVE  last(n.table[i].kind) = n.table[i]
    <3>1. at(n.table[i].kind) = {i}
      BY <2>2, <2>3
    <3>2. i <= i
      BY <1>2, <2>3
    <3> QED
      BY <3>1, <3>2
  <2> DEFINE R == plan.ranges
  <2>4. ASSUME NEW i \in DOMAIN n.table
        PROVE  /\ n.table[i].kind \in DOMAIN R
               /\ R[n.table[i].kind] = <<n.table[i].offset, n.table[i].len>>
    <3>1. at(n.table[i].kind) # {} /\ n.table[i].kind \in Kinds
      BY <2>2, <2>4
    <3> HIDE DEF at, last
    <3> QED
      BY <2>1, <2>3, <3>1
  <2>5. ASSUME NEW k \in DOMAIN R
        PROVE  \E i \in DOMAIN n.table : n.table[i].kind = k
    BY <2>1, <2>5
  <2> HIDE DEF R, n
  <2> QED
    BY <2>4, <2>5 DEF R
<1> QED
  BY <1>3, <1>4, <1>5 DEF PlanSound

(* A native module is accepted exactly when header and table are sound, and the plan *)
(* then names its sections' ranges: for every header, table and limit of sections     *)
(* (wari-wnm, validate_header and load_plan).                                     *)
THEOREM PlansSound == NativeInit /\ [][NativeNext]_nativeVars => []PlanSound
<1>1. NativeInit => NativeInv
  BY DEF NativeInit, NativeInv
<1>2. NativeInv /\ [NativeNext]_nativeVars => NativeInv'
  BY DEF NativeInv, NativeNext, Resolve, nativeVars
<1> QED
  BY <1>1, <1>2, NativeInvSound, PTL

-----------------------------------------------------------------------------
(* DriverManifest.                                                          *)

(* f is the function that is x at 0, and at i what F makes of its value before i.      *)
Recurs(f, m, S, x, F) ==
  f \in [0 .. m -> S] /\ f[0] = x /\ \A i \in 1 .. m : f[i] = F[<<i, f[i - 1]>>]

(* There is one.                                                              *)
LEMMA Recursion ==
  ASSUME NEW m \in Nat, NEW S, NEW x \in S, NEW F \in [(1 .. m) \X S -> S]
  PROVE  \E f : Recurs(f, m, S, x, F)
<1> DEFINE T == {k \in 0 .. m : \E f : Recurs(f, k, S, x, F)}
<1>1. 0 \in T
  <2> DEFINE f == [i \in 0 .. 0 |-> x]
  <2>1. f \in [0 .. 0 -> S] /\ f[0] = x /\ 1 .. 0 = {}
    OBVIOUS
  <2> HIDE DEF f
  <2>2. Recurs(f, 0, S, x, F)
    BY <2>1 DEF Recurs
  <2> QED
    BY <2>2
<1>2. ASSUME NEW k \in 0 .. m - 1, k \in T
      PROVE  k + 1 \in T
  <2>1. PICK f : Recurs(f, k, S, x, F)
    BY <1>2
  <2> DEFINE g == [i \in 0 .. k + 1 |-> IF i = k + 1 THEN F[<<k + 1, f[k]>>] ELSE f[i]]
  <2>2. /\ f \in [0 .. k -> S] /\ f[0] = x /\ \A i \in 1 .. k : f[i] = F[<<i, f[i - 1]>>]
        /\ k + 1 \in 1 .. m /\ f[k] \in S
    BY <2>1 DEF Recurs
  <2>3. F[<<k + 1, f[k]>>] \in S
    BY <2>2
  <2>4. g \in [0 .. k + 1 -> S] /\ g[0] = x
    BY <2>2, <2>3
  <2>5. ASSUME NEW i \in 1 .. k + 1
        PROVE  g[i] = F[<<i, g[i - 1]>>]
    <3>1. CASE i = k + 1
      <4>1. g[i] = F[<<k + 1, f[k]>>] /\ g[i - 1] = f[k]
        BY <3>1
      <4> QED
        BY <3>1, <4>1
    <3>2. CASE i \in 1 .. k
      <4>1. g[i] = f[i] /\ g[i - 1] = f[i - 1]
        BY <3>2
      <4> QED
        BY <2>2, <3>2, <4>1
    <3> QED
      BY <3>1, <3>2
  <2> HIDE DEF g
  <2>6. Recurs(g, k + 1, S, x, F)
    BY <2>4, <2>5 DEF Recurs
  <2> QED
    BY <2>2, <2>6
<1> HIDE DEF T
<1>3. 0 .. m \subseteq T
  BY <1>1, <1>2, UpTo
<1>4. m \in T
  BY <1>3
<1> QED
  BY <1>4 DEF T

(* The function that divides by 8 again and again is there and does so.     *)
LEMMA EighthsOf ==
  ASSUME NEW n \in Nat
  PROVE  /\ Eighths(n) \in [0 .. n -> Nat] /\ Eighths(n)[0] = n
         /\ \A k \in 1 .. n : Eighths(n)[k] = Eighths(n)[k - 1] \div 8
<1> DEFINE F == [p \in (1 .. n) \X Nat |-> p[2] \div 8]
           IsEighths(q) == q = [k \in 0 .. n |-> IF k = 0 THEN n ELSE q[k - 1] \div 8]
<1>1. F \in [(1 .. n) \X Nat -> Nat]
  OBVIOUS
<1>2. \A k \in 1 .. n, v \in Nat : F[<<k, v>>] = v \div 8
  OBVIOUS
<1> HIDE DEF F
<1>3. PICK f : Recurs(f, n, Nat, n, F)
  BY <1>1, Recursion, Zenon
<1>4. IsEighths(f)
  <2>1. f \in [0 .. n -> Nat] /\ f[0] = n
    BY <1>3 DEF Recurs
  <2>2. \A k \in 1 .. n : f[k - 1] \in Nat /\ f[k] = F[<<k, f[k - 1]>>]
    BY <1>3 DEF Recurs
  <2>3. \A k \in 1 .. n : f[k] = f[k - 1] \div 8
    BY ONLY <1>2, <2>2, Zenon
  <2> QED
    BY <2>1, <2>3
<1>5. Eighths(n) = CHOOSE q : IsEighths(q)
  BY DEF Eighths
<1>6. IsEighths(Eighths(n))
  BY <1>4, <1>5
<1> DEFINE q == Eighths(n)
<1>7. q[0] = n /\ \A k \in 1 .. n : q[k] = q[k - 1] \div 8
  BY <1>6
<1>8. DOMAIN q = 0 .. n /\ q = [k \in 0 .. n |-> q[k]]
  BY <1>6
<1> HIDE DEF q, IsEighths
<1> DEFINE T == {k \in 0 .. n : q[k] \in Nat}
<1>9. 0 \in T /\ \A k \in 0 .. n - 1 : k \in T => k + 1 \in T
  BY <1>7
<1>10. 0 .. n \subseteq T
  BY <1>9, UpTo
<1>11. q \in [0 .. n -> Nat]
  BY <1>8, <1>10
<1> QED
  BY <1>7, <1>11 DEF q

(* s is the encoding of n, whose eighths are q.                                     *)
Encodes(s, n, q) ==
  /\ s \in Seq(Nat) /\ s # << >>
  /\ \A k \in 0 .. Len(s) - 1 : q[k] \in Nat
  /\ q[0] = n /\ \A k \in 1 .. Len(s) - 1 : q[k] = q[k - 1] \div 8
  /\ \A k \in 1 .. Len(s) - 1 : s[k] = 8 + (q[k - 1] % 8)
  /\ s[Len(s)] = q[Len(s) - 1] /\ q[Len(s) - 1] < 8

(* An encoding is one: by induction the eighths of n get below 8.           *)
LEMMA LebEncodes ==
  ASSUME NEW n \in Nat
  PROVE  Encodes(Leb(n), n, Eighths(n))
<1> DEFINE q == Eighths(n)
           small == {k \in 0 .. n : q[k] < 8}
           T == {k \in 0 .. n : q[k] < 8 \/ q[k] + k <= n}
           last == CHOOSE k \in 0 .. n : q[k] < 8 /\ \A j \in 0 .. k - 1 : q[j] >= 8
<1>1. /\ q \in [0 .. n -> Nat] /\ q[0] = n
      /\ \A k \in 1 .. n : q[k] = q[k - 1] \div 8
  BY EighthsOf
<1> HIDE DEF q
<1>2. 0 \in T
  BY <1>1
<1>3. ASSUME NEW k \in 0 .. n - 1, k \in T
      PROVE  k + 1 \in T
  BY <1>1, <1>3
<1>4. 0 .. n \subseteq T
  BY <1>2, <1>3, UpTo
<1>5. small \in SUBSET Nat /\ n \in small
  BY <1>1, <1>4
<1>6. PICK k \in small : \A j \in small : k <= j
  BY <1>5, LeastOf
<1>7. k \in 0 .. n /\ q[k] < 8 /\ \A j \in 0 .. k - 1 : q[j] >= 8
  BY <1>1, <1>6
<1>8. last \in 0 .. n /\ q[last] < 8
  BY <1>7
<1> DEFINE s == [j \in 1 .. last + 1 |-> IF j <= last THEN 8 + (q[j - 1] % 8) ELSE q[last]]
<1>9. s = Leb(n)
  BY DEF Leb, q
<1> HIDE DEF last
<1>10. s \in [1 .. last + 1 -> Nat]
  <2>1. ASSUME NEW j \in 1 .. last + 1
        PROVE  (IF j <= last THEN 8 + (q[j - 1] % 8) ELSE q[last]) \in Nat
    <3>1. j - 1 \in 0 .. n /\ last \in 0 .. n
      BY <1>8
    <3>2. q[j - 1] \in Nat /\ q[last] \in Nat
      BY <1>1, <3>1
    <3>3. \A v \in Nat : 8 + (v % 8) \in Nat
      OBVIOUS
    <3> QED
      BY <3>2, <3>3
  <2> QED
    BY <2>1
<1>11. s \in Seq(Nat) /\ Len(s) = last + 1
  BY <1>8, <1>10
<1>12. \A j \in 1 .. last : s[j] = 8 + (q[j - 1] % 8)
  BY <1>8
<1>13. s[last + 1] = q[last]
  BY <1>8
<1> HIDE DEF s
<1>14. Encodes(s, n, q)
  BY <1>1, <1>8, <1>11, <1>12, <1>13 DEF Encodes
<1> QED
  BY <1>9, <1>14 DEF q

(* w holds s from off on, as far as it goes.                                        *)
Holds(w, off, s) == \A j \in 1 .. Len(s) : off + j - 1 <= Len(w) => w[off + j - 1] = s[j]

(* The bytes of an encoding give its number back.                                    *)
LEMMA ValueOf ==
  ASSUME NEW w \in Seq(Nat), NEW off \in Nat \ {0}, NEW n \in 0 .. LebMod - 1, NEW q,
         NEW s, Encodes(s, n, q), Holds(w, off, s), off + Len(s) - 1 <= Len(w)
  PROVE  leb_value(w, off, Len(s)) = n
<1> DEFINE L == Len(s)
           F == [p \in (1 .. L) \X Nat |-> (w[off + L - p[1]] % 8) + 8 * p[2]]
           IsLast(f) == f = [k \in 0 .. L |-> IF k = 0 THEN 0
                                              ELSE (w[off + L - k] % 8) + 8 * f[k - 1]]
           last == CHOOSE f : IsLast(f)
<1>1. s \in Seq(Nat) /\ L \in Nat /\ L # 0
  BY DEF Encodes
<1>2. \A j \in 1 .. L : s[j] \in Nat /\ w[off + j - 1] = s[j]
  BY <1>1 DEF Holds
<1> HIDE DEF L
<1>3. ASSUME NEW k \in 1 .. L
      PROVE  w[off + L - k] = s[L - k + 1] /\ s[L - k + 1] \in Nat
  <2>1. L - k + 1 \in 1 .. L /\ off + (L - k + 1) - 1 = off + L - k
    BY <1>1
  <2> QED
    BY <1>2, <2>1
<1>4. F \in [(1 .. L) \X Nat -> Nat]
  <2>1. ASSUME NEW p \in (1 .. L) \X Nat
        PROVE  (w[off + L - p[1]] % 8) + 8 * p[2] \in Nat
    <3>1. p[1] \in 1 .. L /\ p[2] \in Nat
      OBVIOUS
    <3>2. w[off + L - p[1]] \in Nat
      BY <1>3, <3>1
    <3>3. \A u, v \in Nat : (u % 8) + 8 * v \in Nat
      OBVIOUS
    <3> QED
      BY <3>1, <3>2, <3>3
  <2> QED
    BY <2>1
<1>5. \A k \in 1 .. L, v \in Nat : F[<<k, v>>] = (w[off + L - k] % 8) + 8 * v
  OBVIOUS
<1>6. 0 \in Nat
  OBVIOUS
<1> HIDE DEF F
<1>7. PICK f : Recurs(f, L, Nat, 0, F)
  BY <1>1, <1>4, <1>6, Recursion, Zenon
<1>8. IsLast(f)
  <2>1. f \in [0 .. L -> Nat] /\ f[0] = 0
    BY <1>7 DEF Recurs
  <2>2. \A k \in 1 .. L : f[k - 1] \in Nat
    BY <1>1, <2>1
  <2>3. \A k \in 1 .. L : f[k] = F[<<k, f[k - 1]>>]
    BY <1>7, Zenon DEF Recurs
  <2>4. \A k \in 1 .. L : f[k] = (w[off + L - k] % 8) + 8 * f[k - 1]
    BY ONLY <1>5, <2>2, <2>3, Zenon
  <2> QED
    BY <2>1, <2>4
<1>9. IsLast(last)
  BY <1>8
<1>10. leb_value(w, off, L) = last[L] % LebMod
  BY DEF leb_value
<1> HIDE DEF last
<1>11. last[0] = 0 /\ \A k \in 1 .. L : last[k] = (w[off + L - k] % 8) + 8 * last[k - 1]
  BY <1>1, <1>9
<1> HIDE DEF IsLast
<1> DEFINE T == {k \in 0 .. L : k # 0 => last[k] = q[L - k]}
<1>12. /\ \A k \in 0 .. L - 1 : q[k] \in Nat
       /\ \A k \in 1 .. L - 1 : q[k] = q[k - 1] \div 8 /\ s[k] = 8 + (q[k - 1] % 8)
       /\ s[L] = q[L - 1] /\ q[L - 1] < 8 /\ q[0] = n
  BY DEF Encodes, L
<1>13. 0 \in T
  BY <1>1
<1>14. ASSUME NEW k \in 0 .. L - 1, k \in T
       PROVE  k + 1 \in T
  <2>1. last[k + 1] = (s[L - k] % 8) + 8 * last[k]
    <3>1. k + 1 \in 1 .. L /\ (k + 1) - 1 = k /\ L - (k + 1) + 1 = L - k
      BY <1>1
    <3> QED
      BY <1>3, <1>11, <3>1
  <2>2. L - (k + 1) = L - k - 1 /\ k + 1 # 0 /\ k + 1 \in 0 .. L
    BY <1>1
  <2>3. CASE k = 0
    <3>1. last[k + 1] = q[L - 1] % 8 /\ q[L - 1] \in Nat
      BY <1>1, <1>11, <1>12, <2>1, <2>3
    <3>2. \A v \in Nat : v < 8 => v % 8 = v
      OBVIOUS
    <3>3. last[k + 1] = q[L - 1]
      BY <1>12, <3>1, <3>2
    <3> QED
      BY <2>2, <2>3, <3>3
  <2>4. CASE k # 0
    <3>1. L - k \in 1 .. L - 1 /\ L - k - 1 \in 0 .. L - 1
      BY <1>1, <2>4
    <3>2. /\ last[k] = q[L - k - 1] \div 8 /\ q[L - k - 1] \in Nat
          /\ s[L - k] = 8 + (q[L - k - 1] % 8)
      BY <1>12, <1>14, <2>4, <3>1
    <3>3. \A v \in Nat : ((8 + (v % 8)) % 8) + 8 * (v \div 8) = v
      OBVIOUS
    <3>4. last[k + 1] = q[L - k - 1]
      BY <2>1, <3>2, <3>3
    <3> QED
      BY <2>2, <3>4
  <2> QED
    BY <2>3, <2>4
<1> HIDE DEF T
<1>15. 0 .. L \subseteq T
  BY <1>1, <1>13, <1>14, UpTo
<1>16. last[L] = n
  <2>1. L \in T /\ L - L = 0
    BY <1>1, <1>15
  <2> QED
    BY <1>1, <1>12, <2>1 DEF T
<1>17. n % LebMod = n
  <2>1. LebMod \in Nat
    BY ManifestAssumption
  <2> QED
    BY ONLY <2>1, n \in 0 .. LebMod - 1
<1> QED
  BY <1>10, <1>16, <1>17 DEF L

(* An encoding that is all there is read back; it has no end before its own. *)
LEMMA ReadWhole ==
  ASSUME NEW w \in Seq(Nat), NEW off \in Nat \ {0}, NEW n \in 0 .. LebMod - 1,
         Holds(w, off, Leb(n)), off + Len(Leb(n)) - 1 <= Len(w)
  PROVE  read_leb128(w, off) = [value |-> n, end |-> off + Len(Leb(n))]
<1> DEFINE s == Leb(n)
           L == Len(s)
           q == Eighths(n)
           ends == {k \in 1 .. LebMax : off + k - 1 <= Len(w) /\ w[off + k - 1] < 8}
           end  == CHOOSE k \in ends : \A other \in ends : k <= other
<1>1. Encodes(s, n, q)
  BY LebEncodes
<1>2. L <= LebMax /\ LebMax \in Nat
  BY ManifestAssumption
<1> HIDE DEF s, q
<1>3. s \in Seq(Nat) /\ L \in Nat /\ L # 0 /\ Len(w) \in Nat
  BY <1>1 DEF Encodes
<1>4. \A j \in 1 .. L : w[off + j - 1] = s[j]
  <2>1. \A j \in 1 .. L : off + j - 1 <= off + L - 1
    BY <1>3
  <2> QED
    BY <1>3, <2>1 DEF Holds, s
<1>5. s[L] < 8 /\ \A j \in 1 .. L - 1 : ~(s[j] < 8)
  <2>1. s[L] < 8
    BY <1>1 DEF Encodes
  <2>2. \A k \in 0 .. L - 1 : q[k] \in Nat
    BY <1>1 DEF Encodes
  <2>3. \A k \in 1 .. L - 1 : s[k] = 8 + (q[k - 1] % 8)
    BY <1>1 DEF Encodes
  <2>4. \A k \in 1 .. L - 1 : q[k - 1] \in Nat
    BY <1>3, <2>2
  <2>a. \A v \in Nat : ~(8 + (v % 8) < 8)
    OBVIOUS
  <2>5. \A k \in 1 .. L - 1 : ~(s[k] < 8)
    BY <2>3, <2>4, <2>a
  <2> QED
    BY <2>1, <2>5
<1>6. L \in ends
  <2>1. L \in 1 .. L /\ L \in 1 .. LebMax /\ off + L - 1 <= Len(w)
    BY <1>2, <1>3 DEF s
  <2>2. w[off + L - 1] < 8
    BY <1>4, <1>5, <2>1
  <2> QED
    BY <2>1, <2>2
<1>7. ASSUME NEW k \in ends PROVE L <= k
  <2>1. k \in Nat /\ 1 <= k /\ w[off + k - 1] < 8
    BY <1>2
  <2>2. CASE k < L
    <3>1. k \in 1 .. L - 1 /\ k \in 1 .. L
      BY ONLY <1>3, <2>1, <2>2
    <3> QED
      BY <1>4, <1>5, <2>1, <3>1
  <2> QED
    BY <1>3, <2>1, <2>2
<1>8. end = L
  <2>1. ends \subseteq Nat
    BY <1>2
  <2> HIDE DEF ends
  <2>2. end \in ends /\ \A other \in ends : end <= other
    BY <1>6, <1>7
  <2> HIDE DEF end, L
  <2>3. end <= L /\ L <= end /\ end \in Nat
    BY <1>6, <1>7, <2>1, <2>2
  <2> QED
    BY <1>3, <2>3
<1>9. read_leb128(w, off) = [value |-> leb_value(w, off, end), end |-> off + end]
  BY <1>6 DEF read_leb128
<1>10. leb_value(w, off, L) = n
  BY <1>1, ValueOf DEF s
<1> QED
  BY <1>8, <1>9, <1>10 DEF s

(* Of one that is cut short there is no end.                                *)
LEMMA ReadCut ==
  ASSUME NEW w \in Seq(Nat), NEW off \in Nat \ {0}, NEW n \in 0 .. LebMod - 1,
         Holds(w, off, Leb(n)), Len(w) < off + Len(Leb(n)) - 1
  PROVE  read_leb128(w, off).value = -1
<1> DEFINE s == Leb(n)
           L == Len(s)
           q == Eighths(n)
           ends == {k \in 1 .. LebMax : off + k - 1 <= Len(w) /\ w[off + k - 1] < 8}
<1>1. Encodes(s, n, q)
  BY LebEncodes
<1>2. LebMax \in Nat
  BY ManifestAssumption
<1> HIDE DEF s, q
<1>3. s \in Seq(Nat) /\ L \in Nat /\ L # 0 /\ Len(w) \in Nat
  BY <1>1 DEF Encodes
<1>4. \A j \in 1 .. L - 1 : ~(s[j] < 8)
  <2>1. /\ \A k \in 0 .. L - 1 : q[k] \in Nat
        /\ \A k \in 1 .. L - 1 : s[k] = 8 + (q[k - 1] % 8)
    BY <1>1 DEF Encodes
  <2>2. \A k \in 1 .. L - 1 : q[k - 1] \in Nat
    BY <1>3, <2>1
  <2>3. \A v \in Nat : ~(8 + (v % 8) < 8)
    OBVIOUS
  <2> QED
    BY <2>1, <2>2, <2>3
<1>5. ASSUME NEW k \in ends PROVE FALSE
  <2>1. k \in Nat /\ 1 <= k /\ off + k - 1 <= Len(w) /\ w[off + k - 1] < 8
    BY <1>2
  <2>2. k \in 1 .. L - 1
    BY <1>3, <2>1 DEF s
  <2>3. w[off + k - 1] = s[k]
    BY <1>3, <2>1, <2>2 DEF Holds, s
  <2> QED
    BY <1>4, <2>1, <2>2, <2>3
<1>6. ends = {}
  BY <1>5
<1> QED
  BY <1>6 DEF read_leb128

(* What holds a and then b holds a, and b after it.                         *)
LEMMA HoldsBoth ==
  ASSUME NEW w \in Seq(Nat), NEW off \in Nat \ {0}, NEW a \in Seq(Nat), NEW b \in Seq(Nat),
         Holds(w, off, a \o b)
  PROVE  Holds(w, off, a) /\ Holds(w, off + Len(a), b)
<1>1. Len(a) \in Nat /\ Len(b) \in Nat /\ Len(w) \in Nat
  OBVIOUS
<1>2. /\ Len(a \o b) = Len(a) + Len(b)
      /\ \A i \in 1 .. Len(a) + Len(b) : (a \o b)[i] = IF i <= Len(a) THEN a[i] ELSE b[i - Len(a)]
  BY ConcatProperties
<1> DEFINE c == a \o b
<1>3. \A j \in 1 .. Len(a) + Len(b) : off + j - 1 <= Len(w) => w[off + j - 1] = c[j]
  BY <1>2 DEF Holds
<1> HIDE DEF c
<1>4. ASSUME NEW j \in 1 .. Len(a), off + j - 1 <= Len(w)
      PROVE  w[off + j - 1] = a[j]
  <2>1. j \in 1 .. Len(a) + Len(b) /\ j <= Len(a)
    BY <1>1
  <2> QED
    BY <1>2, <1>3, <1>4, <2>1 DEF c
<1>5. ASSUME NEW j \in 1 .. Len(b), (off + Len(a)) + j - 1 <= Len(w)
      PROVE  w[(off + Len(a)) + j - 1] = b[j]
  <2>1. /\ Len(a) + j \in 1 .. Len(a) + Len(b) /\ ~(Len(a) + j <= Len(a))
        /\ off + (Len(a) + j) - 1 = (off + Len(a)) + j - 1 /\ (Len(a) + j) - Len(a) = j
    BY <1>1
  <2>2. c[Len(a) + j] = b[j]
    BY <1>2, <2>1 DEF c
  <2>3. w[off + (Len(a) + j) - 1] = c[Len(a) + j]
    BY <1>3, <1>5, <2>1
  <2> QED
    BY <2>1, <2>2, <2>3
<1> QED
  BY <1>4, <1>5 DEF Holds

(* What is all there can be cut out.                                        *)
LEMMA HoldsSlice ==
  ASSUME NEW w \in Seq(Nat), NEW off \in Nat \ {0}, NEW a \in Seq(Nat),
         Holds(w, off, a), off + Len(a) - 1 <= Len(w)
  PROVE  SubSeq(w, off, off + Len(a) - 1) = a
<1> DEFINE n == off + Len(a) - 1
           t == SubSeq(w, off, n)
<1>1. Len(a) \in Nat /\ Len(w) \in Nat /\ off \in Int /\ n \in Int /\ n <= Len(w)
  OBVIOUS
<1>2. \A i \in off .. n : w[i] \in Nat
  BY <1>1, ElementOfSeq
<1>3. t \in Seq(Nat) /\ Len(t) = (IF off <= n THEN n - off + 1 ELSE 0)
      /\ \A i \in 1 .. n - off + 1 : t[i] = w[off + i - 1]
  BY <1>1, <1>2, SubSeqProperties
<1>4. Len(t) = Len(a) /\ n - off + 1 = Len(a)
  BY <1>1, <1>3
<1>5. \A i \in 1 .. Len(a) : w[off + i - 1] = a[i]
  <2>1. \A i \in 1 .. Len(a) : off + i - 1 <= n
    BY <1>1
  <2> QED
    BY <1>1, <2>1 DEF Holds
<1> HIDE DEF t, n
<1>6. \A i \in 1 .. Len(t) : t[i] = a[i]
  BY <1>3, <1>4, <1>5
<1>7. t = a
  BY <1>3, <1>4, <1>6, SeqEqual
<1> QED
  BY <1>7 DEF t, n

(* A section of a module.                                                   *)
Section == [id : Nat, name : Seq(Nat), payload : Seq(Nat)]

(* An encoding takes a byte at least.                                       *)
LEMMA LebSeq ==
  ASSUME NEW n \in Nat
  PROVE  Leb(n) \in Seq(Nat) /\ Len(Leb(n)) \in Nat /\ 1 <= Len(Leb(n))
<1>1. Leb(n) \in Seq(Nat) /\ Leb(n) # << >>
  BY LebEncodes DEF Encodes
<1> DEFINE s == Leb(n)
<1> HIDE DEF s
<1>2. s \in Seq(Nat) /\ s # << >> => Len(s) \in Nat /\ 1 <= Len(s)
  OBVIOUS
<1> QED
  BY <1>1, <1>2 DEF s

(* The bytes of its contents.                                               *)
LEMMA ContentsOf ==
  ASSUME NEW s \in Section
  PROVE  /\ Contents(s) \in Seq(Nat) /\ Len(Contents(s)) \in Nat
         /\ s.id = Custom => /\ Contents(s) = (Leb(Len(s.name)) \o s.name) \o s.payload
                             /\ Leb(Len(s.name)) \o s.name \in Seq(Nat)
                             /\ Len(Leb(Len(s.name)) \o s.name) = Len(Leb(Len(s.name))) + Len(s.name)
                             /\ Len(Contents(s)) = Len(Leb(Len(s.name))) + Len(s.name) + Len(s.payload)
<1>1. s.name \in Seq(Nat) /\ s.payload \in Seq(Nat)
  BY DEF Section
<1>2. Len(s.name) \in Nat /\ Len(s.payload) \in Nat
  BY <1>1
<1> DEFINE l == Leb(Len(s.name))
<1>3. l \in Seq(Nat) /\ Len(l) \in Nat
  BY <1>2, LebSeq
<1> HIDE DEF l
<1>4. l \o s.name \in Seq(Nat) /\ Len(l \o s.name) = Len(l) + Len(s.name)
  BY <1>1, <1>3, ConcatProperties
<1>5. /\ (l \o s.name) \o s.payload \in Seq(Nat)
      /\ Len((l \o s.name) \o s.payload) = Len(l) + Len(s.name) + Len(s.payload)
  BY <1>1, <1>4, ConcatProperties
<1>6. Contents(s) = IF s.id = Custom THEN (l \o s.name) \o s.payload ELSE s.payload
  BY DEF Contents, l
<1>7. Contents(s) \in Seq(Nat)
  BY <1>1, <1>5, <1>6
<1>8. Len(Contents(s)) \in Nat
  BY <1>7
<1> QED
  BY <1>4, <1>5, <1>6, <1>7, <1>8 DEF l

(* The bytes of a section: two at least.                                    *)
LEMMA EncodedOf ==
  ASSUME NEW s \in Section
  PROVE  /\ Encoded(s) = (<<s.id>> \o Leb(Len(Contents(s)))) \o Contents(s)
         /\ <<s.id>> \in Seq(Nat) /\ <<s.id>> \o Leb(Len(Contents(s))) \in Seq(Nat)
         /\ Len(<<s.id>> \o Leb(Len(Contents(s)))) = 1 + Len(Leb(Len(Contents(s))))
         /\ Encoded(s) \in Seq(Nat) /\ Len(Encoded(s)) \in Nat /\ 2 <= Len(Encoded(s))
         /\ Len(Encoded(s)) = 1 + Len(Leb(Len(Contents(s)))) + Len(Contents(s))
<1> DEFINE b == Contents(s)
           l == Leb(Len(b))
           h == <<s.id>>
<1>1. b \in Seq(Nat) /\ Len(b) \in Nat
  BY ContentsOf
<1>2. l \in Seq(Nat) /\ Len(l) \in Nat /\ 1 <= Len(l)
  BY <1>1, LebSeq
<1>3. h \in Seq(Nat) /\ Len(h) = 1
  BY DEF Section
<1>4. Encoded(s) = (h \o l) \o b
  BY DEF Encoded
<1> HIDE DEF b, l, h
<1>5. h \o l \in Seq(Nat) /\ Len(h \o l) = 1 + Len(l)
  BY <1>2, <1>3, ConcatProperties
<1>6. (h \o l) \o b \in Seq(Nat) /\ Len((h \o l) \o b) = 1 + Len(l) + Len(b)
  BY <1>1, <1>5, ConcatProperties
<1>7. Len((h \o l) \o b) \in Nat /\ 2 <= Len((h \o l) \o b)
  BY <1>1, <1>2, <1>6
<1> QED
  BY <1>3, <1>4, <1>5, <1>6, <1>7 DEF b, l, h

(* A turn of the walk at a section.                                               *)
LEMMA LookAtSection ==
  ASSUME NEW w \in Seq(Nat), NEW i \in Nat \ {0}, i <= Len(w), NEW s \in Section,
         Len(Contents(s)) < LebMod, Holds(w, i, Encoded(s))
  PROVE  look_at(w, i) =
           IF i + Len(Encoded(s)) - 1 > Len(w) THEN Deny("Truncated")
           ELSE IF s.id = Custom /\ s.name = SECTION_NAME THEN Got(s.payload)
           ELSE GoOn(i + Len(Encoded(s)))
<1> DEFINE b    == Contents(s)
           l    == Leb(Len(b))
           e    == Encoded(s)
           size == read_leb128(w, i + 1)
           end  == size.end + size.value
           name == read_leb128(w, size.end)
           from == name.end + name.value
<1>1. /\ b \in Seq(Nat) /\ Len(b) \in 0 .. LebMod - 1 /\ l \in Seq(Nat) /\ Len(l) \in Nat
      /\ LebMod \in Nat
  <2>1. b \in Seq(Nat) /\ Len(b) \in Nat
    BY ContentsOf
  <2>2. LebMod \in Nat
    BY ManifestAssumption
  <2> QED
    BY <2>1, <2>2, LebSeq
<1>2. Len(e) = 1 + Len(l) + Len(b) /\ Len(w) \in Nat /\ i + 1 \in Nat \ {0}
  <2>1. Len(e) = 1 + Len(l) + Len(b)
    BY EncodedOf
  <2> QED
    BY <2>1
<1>3. w[i] = s.id /\ Holds(w, i + 1, l) /\ Holds(w, i + 1 + Len(l), b)
  <2>1. e = (<<s.id>> \o l) \o b /\ <<s.id>> \in Seq(Nat) /\ <<s.id>> \o l \in Seq(Nat)
        /\ Len(<<s.id>> \o l) = 1 + Len(l)
    BY EncodedOf
  <2>2. Holds(w, i, <<s.id>> \o l) /\ Holds(w, i + (1 + Len(l)), b)
    BY <1>1, <2>1, HoldsBoth
  <2>3. Len(<<s.id>>) = 1 /\ <<s.id>>[1] = s.id
    OBVIOUS
  <2>4. Holds(w, i, <<s.id>>) /\ Holds(w, i + 1, l)
    BY <1>1, <2>1, <2>2, <2>3, HoldsBoth
  <2>5. w[i] = s.id
    BY <2>3, <2>4 DEF Holds
  <2>6. i + (1 + Len(l)) = i + 1 + Len(l)
    BY <1>1
  <2> QED
    BY <2>2, <2>4, <2>5, <2>6
<1> DEFINE Answer ==
             IF i > Len(w) THEN Deny("Missing")
             ELSE IF size.value = -1 \/ end > Len(w) + 1 THEN Deny("Truncated")
             ELSE IF w[i] # Custom THEN GoOn(end)
             ELSE IF name.value = -1 \/ from > end THEN Deny("Truncated")
             ELSE IF SubSeq(w, name.end, from - 1) = SECTION_NAME
                  THEN Got(SubSeq(w, from, end - 1))
             ELSE GoOn(end)
<1>a. look_at(w, i) = Answer
  BY DEF look_at
<1>b. Len(w) < (i + 1) + Len(l) - 1 => size.value = -1
  BY <1>1, <1>2, <1>3, ReadCut, Zenon
<1>c. (i + 1) + Len(l) - 1 <= Len(w) => size = [value |-> Len(b), end |-> (i + 1) + Len(l)]
  BY <1>1, <1>2, <1>3, ReadWhole, Zenon
<1> HIDE DEF size
<1>4. CASE Len(w) < (i + 1) + Len(l) - 1
  <2>1. size.value = -1
    BY <1>4, <1>b
  <2>2. i + Len(e) - 1 > Len(w)
    BY <1>1, <1>2, <1>4
  <2> QED
    BY <1>a, <2>1, <2>2
<1>5. CASE (i + 1) + Len(l) - 1 <= Len(w)
  <2>1. size = [value |-> Len(b), end |-> (i + 1) + Len(l)]
    BY <1>5, <1>c
  <2>2. size.value = Len(b) /\ size.end = i + 1 + Len(l)
    BY <2>1
  <2> HIDE DEF b, l, e
  <2>c. size.value # -1 /\ end = i + Len(e)
    BY <1>1, <1>2, <2>2
  <2>3. CASE i + Len(e) - 1 > Len(w)
    <3>1. end > Len(w) + 1
      BY <1>1, <1>2, <2>c, <2>3
    <3> QED
      BY <1>2, <1>a, <2>3, <3>1 DEF e
  <2>4. CASE ~(i + Len(e) - 1 > Len(w)) /\ s.id # Custom
    <3>1. ~(end > Len(w) + 1)
      BY <1>1, <1>2, <2>c, <2>4
    <3>2. ~(i > Len(w))
      BY <1>1, <1>2
    <3>3. look_at(w, i) = GoOn(end)
      BY <1>3, <1>a, <2>c, <2>4, <3>1, <3>2
    <3> QED
      BY <2>c, <2>4, <3>3 DEF e
  <2>5. CASE ~(i + Len(e) - 1 > Len(w)) /\ s.id = Custom
    <3> DEFINE nl == Leb(Len(s.name))
               ln == Len(s.name)
               lp == Len(s.payload)
    <3>1. ~(end > Len(w) + 1) /\ ~(i > Len(w))
      BY <1>1, <1>2, <2>c, <2>5
    <3>2. /\ s.name \in Seq(Nat) /\ s.payload \in Seq(Nat)
          /\ Len(s.name) \in Nat /\ Len(s.payload) \in Nat
      BY DEF Section
    <3>3. nl \in Seq(Nat) /\ Len(nl) \in Nat /\ b = (nl \o s.name) \o s.payload
          /\ nl \o s.name \in Seq(Nat) /\ Len(nl \o s.name) = Len(nl) + Len(s.name)
          /\ Len(b) = Len(nl) + Len(s.name) + Len(s.payload)
      BY <2>5, <3>2, ContentsOf, LebSeq DEF b
    <3> DEFINE at == i + 1 + Len(l)
    <3> HIDE DEF nl
    <3>4. at \in Nat \ {0}
      BY <1>1
    <3>5. Holds(w, at, nl) /\ Holds(w, at + Len(nl), s.name)
          /\ Holds(w, at + (Len(nl) + Len(s.name)), s.payload)
      <4>1. Holds(w, at, nl \o s.name) /\ Holds(w, at + (Len(nl) + Len(s.name)), s.payload)
        BY <1>3, <3>2, <3>3, <3>4, HoldsBoth
      <4> QED
        BY <3>2, <3>3, <3>4, <4>1, HoldsBoth
    <3> HIDE DEF ln, lp, end
    <3>a. /\ ln \in Nat /\ lp \in Nat /\ Len(nl) \in Nat
          /\ Len(l) \in Nat /\ Len(w) \in Nat /\ Len(b) \in Nat /\ LebMod \in Nat
          /\ Len(b) = Len(nl) + ln + lp /\ Len(b) <= LebMod - 1
          /\ i \in Nat \ {0} /\ end = i + Len(e) /\ Len(e) = 1 + Len(l) + Len(b)
          /\ ~(i + Len(e) - 1 > Len(w))
      <4>1. ln \in Nat /\ lp \in Nat /\ Len(nl) \in Nat /\ Len(b) = Len(nl) + ln + lp
        BY <3>2, <3>3 DEF ln, lp
      <4>2. /\ Len(l) \in Nat /\ Len(w) \in Nat /\ Len(b) \in Nat /\ LebMod \in Nat
            /\ Len(b) <= LebMod - 1 /\ Len(e) = 1 + Len(l) + Len(b)
        BY ONLY <1>1, <1>2
      <4> QED
        BY <2>c, <2>5, <4>1, <4>2, Zenon
    <3>6. /\ at + Len(nl) - 1 <= Len(w) /\ ln \in 0 .. LebMod - 1
          /\ (at + Len(nl)) + ln - 1 <= Len(w)
          /\ (at + (Len(nl) + ln)) + lp - 1 <= Len(w)
          /\ at + Len(nl) \in Nat \ {0} /\ at + (Len(nl) + ln) \in Nat \ {0}
      <4>1. at + (Len(nl) + ln) + lp = i + Len(e) /\ i + Len(e) - 1 <= Len(w)
        BY ONLY <3>a
      <4>2. ln \in 0 .. LebMod - 1
        BY ONLY <3>a
      <4>3. ln \in Nat /\ lp \in Nat /\ Len(nl) \in Nat /\ Len(w) \in Nat
        BY ONLY <3>a
      <4> DEFINE ends == i + Len(e)
      <4>4. at + (Len(nl) + ln) + lp = ends /\ ends - 1 <= Len(w)
        BY ONLY <4>1
      <4> HIDE DEF at, ends
      <4> QED
        BY ONLY <3>4, <4>2, <4>3, <4>4
    <3>7. name = [value |-> Len(s.name), end |-> at + Len(nl)]
      <4>1. size.end = at
        BY <2>2
      <4>2. read_leb128(w, at) = [value |-> Len(s.name), end |-> at + Len(nl)]
        BY <3>4, <3>5, <3>6, ReadWhole, Zenon DEF nl, ln
      <4> QED
        BY <4>1, <4>2
    <3>8. name.value = ln /\ name.end = at + Len(nl)
      BY <3>7 DEF ln
    <3> HIDE DEF name
    <3>c. /\ name.value # -1 /\ from = at + (Len(nl) + ln)
          /\ from - 1 = (at + Len(nl)) + ln - 1 /\ ~(from > end)
          /\ end - 1 = (at + (Len(nl) + ln)) + lp - 1
      BY ONLY <3>a, <3>8
    <3>9. SubSeq(w, name.end, from - 1) = s.name
      <4>1. SubSeq(w, at + Len(nl), (at + Len(nl)) + Len(s.name) - 1) = s.name
        BY <3>2, <3>5, <3>6, HoldsSlice, Zenon DEF ln, lp
      <4> QED
        BY <3>8, <3>c, <4>1, Zenon DEF ln
    <3>10. SubSeq(w, from, end - 1) = s.payload
      <4>1. SubSeq(w, at + (Len(nl) + Len(s.name)),
                   (at + (Len(nl) + Len(s.name))) + Len(s.payload) - 1) = s.payload
        BY <3>2, <3>5, <3>6, HoldsSlice, Zenon DEF ln, lp
      <4> QED
        BY <3>c, <4>1, Zenon DEF ln, lp
    <3>11. look_at(w, i) = IF s.name = SECTION_NAME THEN Got(s.payload) ELSE GoOn(end)
      BY <1>3, <1>a, <2>c, <2>5, <3>1, <3>c, <3>9, <3>10
    <3> QED
      BY <2>c, <2>5, <3>11 DEF e
  <2> QED
    BY <2>3, <2>4, <2>5
<1> QED
  BY <1>1, <1>2, <1>4, <1>5

(* The sections are written one after the other.                            *)
LEMMA WrittenOf ==
  ASSUME NEW doc \in Seq(Section)
  PROVE  /\ Written(doc) \in [0 .. Len(doc) -> Seq(Nat)] /\ Written(doc)[0] = Preamble
         /\ \A k \in 1 .. Len(doc) : Written(doc)[k] = Written(doc)[k - 1] \o Encoded(doc[k])
<1> DEFINE m == Len(doc)
           ByteSeqs == Seq(Nat)
           F == [p \in (1 .. m) \X ByteSeqs |-> p[2] \o Encoded(doc[p[1]])]
           IsWritten(f) == f = [k \in 0 .. m |-> IF k = 0 THEN Preamble
                                                 ELSE f[k - 1] \o Encoded(doc[k])]
<1>1. m \in Nat /\ Preamble \in ByteSeqs
  BY DEF Preamble
<1>2. \A k \in 1 .. m : Encoded(doc[k]) \in ByteSeqs
  BY EncodedOf, ElementOfSeq
<1>3. \A s, t \in ByteSeqs : s \o t \in ByteSeqs
  OBVIOUS
<1>4. Written(doc) = CHOOSE f : IsWritten(f)
  BY DEF Written
<1> HIDE DEF ByteSeqs, m
<1>5. F \in [(1 .. m) \X ByteSeqs -> ByteSeqs]
  BY <1>2, <1>3
<1>6. \A k \in 1 .. m, v \in ByteSeqs : F[<<k, v>>] = v \o Encoded(doc[k])
  OBVIOUS
<1> HIDE DEF F
<1>7. PICK f : Recurs(f, m, ByteSeqs, Preamble, F)
  BY <1>1, <1>5, Recursion, Zenon
<1>8. IsWritten(f)
  <2>1. f \in [0 .. m -> ByteSeqs] /\ f[0] = Preamble
    BY <1>7 DEF Recurs
  <2>2. \A k \in 1 .. m : f[k - 1] \in ByteSeqs
    BY <1>1, <2>1
  <2>3. \A k \in 1 .. m : f[k] = F[<<k, f[k - 1]>>]
    BY <1>7, Zenon DEF Recurs
  <2>4. \A k \in 1 .. m : f[k] = f[k - 1] \o Encoded(doc[k])
    BY ONLY <1>6, <2>2, <2>3, Zenon
  <2>5. \A k \in 0 .. m : f[k] = IF k = 0 THEN Preamble ELSE f[k - 1] \o Encoded(doc[k])
    BY ONLY <1>1, <2>1, <2>4
  <2>6. f = [k \in 0 .. m |-> f[k]]
    BY <2>1
  <2> QED
    BY ONLY <2>5, <2>6
<1> DEFINE g == Written(doc)
<1>9. IsWritten(g)
  BY <1>4, <1>8
<1> HIDE DEF g
<1>10. g[0] = Preamble /\ \A k \in 1 .. m : g[k] = g[k - 1] \o Encoded(doc[k])
  BY <1>1, <1>9
<1>11. g = [k \in 0 .. m |-> g[k]]
  BY <1>9
<1> HIDE DEF IsWritten
<1> DEFINE T == {k \in 0 .. m : g[k] \in ByteSeqs}
<1>12. 0 \in T
  BY <1>1, <1>10
<1>13. ASSUME NEW k \in 0 .. m - 1, k \in T
       PROVE  k + 1 \in T
  <2>1. k + 1 \in 1 .. m /\ (k + 1) - 1 = k /\ k + 1 \in 0 .. m
    BY <1>1
  <2>2. g[k + 1] = g[k] \o Encoded(doc[k + 1])
    BY <1>10, <2>1
  <2> QED
    BY <1>2, <1>3, <1>13, <2>1, <2>2
<1>14. 0 .. m \subseteq T
  BY <1>1, <1>12, <1>13, UpTo
<1>15. g \in [0 .. m -> ByteSeqs]
  BY <1>11, <1>14
<1> QED
  BY <1>10, <1>15 DEF g, m, ByteSeqs

(* Where section k ends.                                                         *)
End(doc, k) == Len(Written(doc)[k])

(* Each section ends after the last one, by two bytes or more.              *)
LEMMA EndsGrow ==
  ASSUME NEW doc \in Seq(Section)
  PROVE  /\ End(doc, 0) = 1
         /\ \A k \in 0 .. Len(doc) : End(doc, k) \in Nat /\ 2 * k + 1 <= End(doc, k)
         /\ \A k \in 1 .. Len(doc) : End(doc, k) = End(doc, k - 1) + Len(Encoded(doc[k]))
         /\ \A k \in 0 .. Len(doc) : \A j \in 0 .. k - 1 : End(doc, j) < End(doc, k)
<1> DEFINE m == Len(doc)
           e(k) == End(doc, k)
<1>1. m \in Nat /\ e(0) = 1
  <2>1. Written(doc)[0] = <<14>>
    BY WrittenOf DEF Preamble
  <2> QED
    BY <2>1 DEF End
<1>2. \A k \in 0 .. m : Written(doc)[k] \in Seq(Nat)
  BY WrittenOf
<1>3. \A k \in 0 .. m : e(k) \in Nat
  BY <1>2 DEF End
<1>4. ASSUME NEW k \in 1 .. m
      PROVE  e(k) = e(k - 1) + Len(Encoded(doc[k])) /\ e(k) >= e(k - 1) + 2
  <2>1. doc[k] \in Section
    BY ElementOfSeq
  <2>2. Encoded(doc[k]) \in Seq(Nat) /\ Len(Encoded(doc[k])) \in Nat /\ 2 <= Len(Encoded(doc[k]))
    BY <2>1, EncodedOf
  <2>3. k - 1 \in 0 .. m
    BY <1>1
  <2>4. Written(doc)[k - 1] \in Seq(Nat) /\ Written(doc)[k] = Written(doc)[k - 1] \o Encoded(doc[k])
    BY <1>2, <2>3, WrittenOf
  <2>5. e(k) = e(k - 1) + Len(Encoded(doc[k]))
    BY <2>2, <2>4, ConcatProperties DEF End
  <2>6. e(k - 1) \in Nat
    BY <1>3, <2>3
  <2> HIDE DEF e
  <2> QED
    BY <2>2, <2>5, <2>6
<1> HIDE DEF e, m
<1> DEFINE T == {k \in 0 .. m : 2 * k + 1 <= e(k) /\ \A j \in 0 .. k - 1 : e(j) < e(k)}
<1>5. 0 \in T
  BY <1>1
<1>6. ASSUME NEW k \in 0 .. m - 1, k \in T
      PROVE  k + 1 \in T
  <2>1. k + 1 \in 1 .. m /\ (k + 1) - 1 = k /\ k \in 0 .. m /\ k + 1 \in 0 .. m
    BY <1>1
  <2>2. e(k + 1) >= e(k) + 2 /\ e(k + 1) \in Nat /\ e(k) \in Nat
    BY <1>3, <1>4, <2>1
  <2>3. 2 * k + 1 <= e(k) /\ \A j \in 0 .. k - 1 : e(j) < e(k)
    BY <1>6
  <2>c. \A j \in 0 .. k - 1 : e(j) \in Nat
    BY <1>1, <1>3
  <2>4. \A j \in 0 .. (k + 1) - 1 : j = k \/ j \in 0 .. k - 1
    BY <2>1
  <2>5. \A j \in 0 .. (k + 1) - 1 : e(j) < e(k + 1)
    BY <2>2, <2>3, <2>4, <2>c
  <2> QED
    BY <2>1, <2>2, <2>3, <2>5
<1>7. 0 .. m \subseteq T
  BY <1>1, <1>5, <1>6, UpTo
<1> QED
  BY <1>1, <1>3, <1>4, <1>7 DEF e, m

(* Appending is associative.                                                *)
LEMMA Regroup == \A a, b, u \in Seq(Nat) : (a \o b) \o u = a \o (b \o u)
<1> DEFINE S == Nat
<1> HIDE DEF S
<1>1. \A a, b, u \in Seq(S) : (a \o b) \o u = a \o (b \o u)
  BY ConcatAssociative
<1> QED
  BY <1>1 DEF S

(* The first k sections are how the module begins.                          *)
LEMMA WrittenPrefix ==
  ASSUME NEW doc \in Seq(Section), NEW k \in 0 .. Len(doc)
  PROVE  \E t \in Seq(Nat) : Encoding(doc) = Written(doc)[k] \o t
<1> DEFINE W == Written(doc)
           n == Len(doc) - k
           T == {d \in 0 .. n : \E t \in Seq(Nat) : W[k + d] = W[k] \o t}
<1>1. Len(doc) \in Nat /\ n \in Nat
  OBVIOUS
<1>2. \A j \in 0 .. Len(doc) : W[j] \in Seq(Nat)
  BY WrittenOf
<1>3. 0 \in T
  <2>1. << >> \in Seq(Nat) /\ k + 0 = k /\ 0 \in 0 .. n
    BY <1>1
  <2>2. W[k] \o << >> = W[k]
    BY <1>2, ConcatEmptySeq
  <2> HIDE DEF W
  <2>3. W[k + 0] = W[k] \o << >>
    BY ONLY <2>1, <2>2
  <2> QED
    BY <2>1, <2>3, Zenon
<1>4. ASSUME NEW d \in 0 .. n - 1, d \in T
      PROVE  d + 1 \in T
  <2>1. PICK t \in Seq(Nat) : W[k + d] = W[k] \o t
    BY <1>4
  <2> DEFINE e == Encoded(doc[k + (d + 1)])
  <2>2. k + (d + 1) \in 1 .. Len(doc) /\ (k + (d + 1)) - 1 = k + d /\ d + 1 \in 0 .. n
    BY <1>1
  <2>3. e \in Seq(Nat)
    BY <2>2, EncodedOf, ElementOfSeq
  <2>4. W[k + (d + 1)] = W[k + d] \o e
    BY <2>2, WrittenOf
  <2> HIDE DEF W, e
  <2>5. W[k] \in Seq(Nat)
    BY <1>2
  <2>6. (W[k] \o t) \o e = W[k] \o (t \o e) /\ t \o e \in Seq(Nat)
    <3>1. t \in Seq(Nat)
      OBVIOUS
    <3>2. (W[k] \o t) \o e = W[k] \o (t \o e)
      BY ONLY <2>3, <2>5, <3>1, Regroup, Zenon
    <3>3. t \o e \in Seq(Nat)
      BY <2>3, <3>1, ConcatProperties
    <3> QED
      BY <3>2, <3>3
  <2>7. W[k + (d + 1)] = W[k] \o (t \o e)
    BY <2>1, <2>4, <2>6, Zenon
  <2> QED
    BY <2>2, <2>6, <2>7, Zenon
<1> HIDE DEF T
<1>5. 0 .. n \subseteq T
  BY <1>1, <1>3, <1>4, UpTo
<1>6. n \in T /\ k + n = Len(doc)
  BY <1>1, <1>5
<1> QED
  BY <1>6 DEF T, Encoding

(* What there is of a module.                                                    *)
Cut(f) == SubSeq(Encoding(f.doc), 1, f.cut)

(* It is the start of the encoding.                                               *)
LEMMA CutOf ==
  ASSUME NEW f \in Wasms
  PROVE  /\ f.doc \in Seq(Section) /\ Len(f.doc) \in Nat
         /\ f.cut \in Nat /\ f.cut <= End(f.doc, Len(f.doc))
         /\ Cut(f) \in Seq(Nat) /\ Len(Cut(f)) = f.cut
         /\ Encoding(f.doc) \in Seq(Nat) /\ Holds(Cut(f), 1, Encoding(f.doc))
<1> DEFINE E == Encoding(f.doc)
           w == Cut(f)
<1>1. f.doc \in Seq(Section) /\ f.cut \in 0 .. Len(E)
  BY ManifestAssumption DEF Section
<1>2. Len(f.doc) \in Nat
  BY <1>1
<1>3. E \in Seq(Nat) /\ Len(E) = End(f.doc, Len(f.doc))
  <2>1. Written(f.doc)[Len(f.doc)] \in Seq(Nat)
    <3>1. Len(f.doc) \in 0 .. Len(f.doc)
      BY <1>2
    <3>2. Written(f.doc) \in [0 .. Len(f.doc) -> Seq(Nat)]
      BY <1>1, WrittenOf
    <3> QED
      BY <3>1, <3>2
  <2> QED
    BY <2>1 DEF Encoding, End
<1>4. w = SubSeq(E, 1, f.cut)
  BY DEF Cut
<1> HIDE DEF E, w
<1>5. Len(E) \in Nat /\ \A i \in 1 .. f.cut : E[i] \in Nat
  BY <1>1, <1>3, ElementOfSeq
<1>6. w \in Seq(Nat) /\ Len(w) = (IF 1 <= f.cut THEN f.cut - 1 + 1 ELSE 0)
      /\ \A i \in 1 .. f.cut - 1 + 1 : w[i] = E[1 + i - 1]
  BY <1>1, <1>3, <1>4, <1>5, SubSeqProperties
<1>7. f.cut \in Nat /\ Len(w) = f.cut /\ f.cut <= Len(E)
  BY <1>1, <1>5, <1>6
<1>8. Holds(w, 1, E)
  BY <1>5, <1>6, <1>7 DEF Holds
<1> QED
  BY <1>1, <1>2, <1>3, <1>6, <1>7, <1>8 DEF E, w

(* It starts with the preamble, and each section is where the last one ended.         *)
LEMMA CutHolds ==
  ASSUME NEW f \in Wasms
  PROVE  /\ f.cut >= 1 => SubSeq(Cut(f), 1, Len(Preamble)) = Preamble
         /\ \A k \in 1 .. Len(f.doc) : Holds(Cut(f), End(f.doc, k - 1) + 1, Encoded(f.doc[k]))
<1> DEFINE doc == f.doc
           w   == Cut(f)
           W   == Written(doc)
<1>1. /\ doc \in Seq(Section) /\ Len(doc) \in Nat /\ f.cut \in Nat
      /\ w \in Seq(Nat) /\ Len(w) = f.cut /\ Holds(w, 1, Encoding(doc))
  BY CutOf
<1>2. \A k \in 0 .. Len(doc) : W[k] \in Seq(Nat)
  BY <1>1, WrittenOf
<1> HIDE DEF doc, w, W
<1>3. ASSUME NEW k \in 0 .. Len(doc)
      PROVE  Holds(w, 1, W[k])
  <2>1. PICK t \in Seq(Nat) : Encoding(doc) = W[k] \o t
    BY <1>1, WrittenPrefix DEF W
  <2>2. W[k] \in Seq(Nat) /\ 1 \in Nat \ {0}
    BY <1>2
  <2>3. Holds(w, 1, W[k] \o t)
    BY <1>1, <2>1
  <2> QED
    BY <1>1, <2>2, <2>3, HoldsBoth
<1>4. ASSUME f.cut >= 1 PROVE SubSeq(w, 1, Len(Preamble)) = Preamble
  <2>1. W[0] = Preamble /\ 0 \in 0 .. Len(doc)
    <3>1. Written(doc)[0] = Preamble
      BY <1>1, WrittenOf
    <3> QED
      BY <1>1, <3>1 DEF W
  <2>2. Preamble \in Seq(Nat) /\ Len(Preamble) = 1 /\ 1 \in Nat \ {0} /\ 1 + Len(Preamble) - 1 = Len(Preamble)
    BY DEF Preamble
  <2>3. Holds(w, 1, Preamble)
    BY <1>3, <2>1
  <2>4. 1 + Len(Preamble) - 1 <= Len(w)
    BY <1>1, <1>4, <2>2
  <2>5. SubSeq(w, 1, 1 + Len(Preamble) - 1) = Preamble
    BY <1>1, <2>2, <2>3, <2>4, HoldsSlice
  <2> QED
    BY <2>2, <2>5
<1>5. ASSUME NEW k \in 1 .. Len(doc)
      PROVE  Holds(w, End(doc, k - 1) + 1, Encoded(doc[k]))
  <2> DEFINE e == Encoded(doc[k])
  <2>1. k \in 0 .. Len(doc) /\ k - 1 \in 0 .. Len(doc)
    BY <1>1
  <2>2. W[k] = W[k - 1] \o e
    BY <1>1, WrittenOf DEF W
  <2>3. e \in Seq(Nat)
    BY <1>1, EncodedOf, ElementOfSeq
  <2> HIDE DEF e
  <2>4. W[k - 1] \in Seq(Nat) /\ 1 \in Nat \ {0}
    BY <1>2, <2>1
  <2>5. Holds(w, 1, W[k - 1] \o e)
    BY <1>3, <2>1, <2>2
  <2>6. Holds(w, 1 + Len(W[k - 1]), e)
    BY <1>1, <2>3, <2>4, <2>5, HoldsBoth
  <2>7. 1 + Len(W[k - 1]) = End(doc, k - 1) + 1
    BY <2>4 DEF End, W
  <2> QED
    BY <2>6, <2>7 DEF e
<1> QED
  BY <1>4, <1>5 DEF doc, w

(* The section a loader looks for.                                          *)
Named(s) == s.id = Custom /\ s.name = SECTION_NAME

(* A turn of the walk where section k begins.                                      *)
LEMMA LookAt ==
  ASSUME NEW f \in Wasms, NEW k \in 1 .. Len(f.doc), End(f.doc, k - 1) < f.cut
  PROVE  look_at(Cut(f), End(f.doc, k - 1) + 1) =
           IF End(f.doc, k) > f.cut THEN Deny("Truncated")
           ELSE IF Named(f.doc[k]) THEN Got(f.doc[k].payload)
           ELSE GoOn(End(f.doc, k) + 1)
<1> DEFINE s == f.doc[k]
           w == Cut(f)
           i == End(f.doc, k - 1) + 1
<1>1. /\ f.doc \in Seq(Section) /\ Len(f.doc) \in Nat /\ f.cut \in Nat
      /\ w \in Seq(Nat) /\ Len(w) = f.cut
  BY CutOf
<1>2. s \in Section /\ Len(Contents(s)) < LebMod
  <2>1. s \in Section
    BY <1>1, ElementOfSeq
  <2>2. k \in DOMAIN f.doc
    BY <1>1
  <2> QED
    BY <2>1, <2>2, ManifestAssumption
<1>3. Holds(w, i, Encoded(s))
  BY CutHolds
<1>4. /\ End(f.doc, k - 1) \in Nat /\ End(f.doc, k) \in Nat
      /\ End(f.doc, k) = End(f.doc, k - 1) + Len(Encoded(s))
  <2>1. k - 1 \in 0 .. Len(f.doc) /\ k \in 0 .. Len(f.doc)
    BY <1>1
  <2> QED
    BY <1>1, <2>1, EndsGrow
<1>5. Len(Encoded(s)) \in Nat
  BY <1>2, EncodedOf
<1>6. i \in Nat \ {0} /\ i <= Len(w) /\ i + Len(Encoded(s)) - 1 = End(f.doc, k)
      /\ i + Len(Encoded(s)) = End(f.doc, k) + 1
  <2> DEFINE a == End(f.doc, k - 1)
             c == Len(Encoded(s))
  <2>1. a \in Nat /\ c \in Nat /\ End(f.doc, k) = a + c /\ a < f.cut /\ f.cut \in Nat
    BY <1>1, <1>4, <1>5
  <2>2. i = a + 1 /\ Len(w) = f.cut
    BY <1>1
  <2> HIDE DEF a, c, i, w
  <2>3. i \in Nat \ {0} /\ i <= Len(w) /\ i + c - 1 = End(f.doc, k) /\ i + c = End(f.doc, k) + 1
    BY ONLY <2>1, <2>2
  <2> QED
    BY <2>3 DEF c
<1> HIDE DEF s, w, i
<1>7. look_at(w, i) =
        IF i + Len(Encoded(s)) - 1 > Len(w) THEN Deny("Truncated")
        ELSE IF s.id = Custom /\ s.name = SECTION_NAME THEN Got(s.payload)
        ELSE GoOn(i + Len(Encoded(s)))
  BY <1>1, <1>2, <1>3, <1>6, LookAtSection
<1> QED
  BY <1>1, <1>6, <1>7 DEF s, w, i, Named

(* The loop's state after one more turn, and m turns of it.                           *)
AfterLook(w, r) == IF r.answer = "go on" THEN look_at(w, r.got) ELSE r

IsWalk(f, w, m) ==
  f = [k \in 0 .. m |-> IF k = 0 THEN GoOn(Len(Preamble) + 1) ELSE AfterLook(w, f[k - 1])]

(* There is such a walk.                                                    *)
LEMMA SomeWalk ==
  ASSUME NEW w, NEW m \in Nat
  PROVE  \E f : IsWalk(f, w, m)
<1> DEFINE T == {k \in 0 .. m : \E f : IsWalk(f, w, k)}
           First == GoOn(Len(Preamble) + 1)
<1>1. 0 \in T
  <2> DEFINE f == [k \in 0 .. 0 |-> First]
  <2>1. IsWalk(f, w, 0)
    BY DEF IsWalk
  <2> QED
    BY <2>1
<1> HIDE DEF First
<1>2. ASSUME NEW k \in 0 .. m - 1, k \in T
      PROVE  k + 1 \in T
  <2>1. PICK f : IsWalk(f, w, k)
    BY <1>2
  <2> DEFINE g == [i \in 0 .. k + 1 |-> IF i = k + 1 THEN AfterLook(w, f[k]) ELSE f[i]]
  <2>2. \A i \in 0 .. k : f[i] = IF i = 0 THEN First ELSE AfterLook(w, f[i - 1])
    BY <2>1 DEF IsWalk, First
  <2>3. ASSUME NEW i \in 0 .. k + 1
        PROVE  g[i] = IF i = 0 THEN First ELSE AfterLook(w, g[i - 1])
    <3>1. CASE i = k + 1
      <4>1. g[i - 1] = f[k] /\ i # 0 /\ g[i] = AfterLook(w, f[k])
        BY <3>1
      <4> QED
        BY <3>1, <4>1
    <3>2. CASE i \in 0 .. k
      <4>1. g[i] = f[i] /\ (i # 0 => g[i - 1] = f[i - 1])
        BY <3>2
      <4> QED
        BY <2>2, <3>2, <4>1
    <3> QED
      BY <3>1, <3>2
  <2>4. IsWalk(g, w, k + 1)
    <3>1. g = [i \in 0 .. k + 1 |-> g[i]]
      OBVIOUS
    <3> HIDE DEF g
    <3> QED
      BY <2>3, <3>1 DEF IsWalk, First
  <2>5. k + 1 \in 0 .. m
    OBVIOUS
  <2> QED
    BY <2>4, <2>5
<1> HIDE DEF T
<1>3. 0 .. m \subseteq T
  BY <1>1, <1>2, UpTo
<1>4. m \in T
  BY <1>3
<1> QED
  BY <1>4 DEF T

(* And the loop takes it.                                                   *)
LEMMA WalkOf ==
  ASSUME NEW w, Len(w) \in Nat
  PROVE  /\ Walk(w)[0] = GoOn(2)
         /\ \A k \in 1 .. Len(w) : Walk(w)[k] = AfterLook(w, Walk(w)[k - 1])
<1>1. Walk(w) = CHOOSE f : IsWalk(f, w, Len(w))
  BY DEF Walk, IsWalk, AfterLook
<1>2. IsWalk(Walk(w), w, Len(w))
  BY <1>1, SomeWalk
<1> HIDE DEF Walk
<1>3. \A k \in 0 .. Len(w) :
        Walk(w)[k] = IF k = 0 THEN GoOn(Len(Preamble) + 1) ELSE AfterLook(w, Walk(w)[k - 1])
  BY <1>2 DEF IsWalk
<1>4. Len(Preamble) + 1 = 2
  BY DEF Preamble
<1> QED
  BY <1>3, <1>4

(* An answer is the answer.                                                      *)
LEMMA WalkStays ==
  ASSUME NEW w, Len(w) \in Nat, NEW k \in 0 .. Len(w), Walk(w)[k].answer # "go on"
  PROVE  find_section(w) = Walk(w)[k]
<1> DEFINE m == Len(w)
           n == m - k
           T == {d \in 0 .. n : Walk(w)[k + d] = Walk(w)[k]}
<1>a. m \in Nat /\ k \in 0 .. m
  OBVIOUS
<1> HIDE DEF m
<1>1. n \in Nat /\ k + 0 = k /\ k + n = m
  BY ONLY <1>a
<1>b. 0 \in T
  <2>1. 0 \in 0 .. n
    BY ONLY <1>1
  <2> QED
    BY <1>1, <2>1
<1>2. ASSUME NEW d \in 0 .. n - 1, d \in T
      PROVE  d + 1 \in T
  <2>1. k + (d + 1) \in 1 .. m /\ (k + (d + 1)) - 1 = k + d /\ d + 1 \in 0 .. n
    BY ONLY <1>a, d \in 0 .. n - 1
  <2>2. Walk(w)[k + (d + 1)] = AfterLook(w, Walk(w)[k + d])
    BY <2>1, WalkOf DEF m
  <2>3. Walk(w)[k + d] = Walk(w)[k]
    BY <1>2
  <2> QED
    BY <2>1, <2>2, <2>3 DEF AfterLook
<1> HIDE DEF T
<1>3. 0 .. n \subseteq T
  BY <1>1, <1>b, <1>2, UpTo
<1>4. n \in T
  <2>1. n \in 0 .. n
    BY ONLY <1>1
  <2> QED
    BY <1>3, <2>1
<1>5. Walk(w)[m] = Walk(w)[k]
  BY <1>1, <1>4 DEF T
<1> QED
  BY <1>5 DEF m, find_section

(* By induction over the sections that came whole and are not the manifest.             *)
LEMMA WalkTo ==
  ASSUME NEW f \in Wasms, NEW k \in 0 .. Len(f.doc), End(f.doc, k) <= f.cut,
         \A j \in 1 .. k : ~Named(f.doc[j])
  PROVE  k < f.cut /\ Walk(Cut(f))[k] = GoOn(End(f.doc, k) + 1)
<1> DEFINE w == Cut(f)
           e(j) == End(f.doc, j)
           T == {j \in 0 .. k : Walk(w)[j] = GoOn(e(j) + 1)}
<1>1. Len(f.doc) \in Nat /\ f.cut \in Nat /\ Len(w) = f.cut /\ f.doc \in Seq(Section)
  BY CutOf
<1>2. /\ e(0) = 1
      /\ \A j \in 0 .. Len(f.doc) : e(j) \in Nat
      /\ \A j \in 0 .. Len(f.doc) : 2 * j + 1 <= e(j)
      /\ \A j \in 0 .. k - 1 : e(j) < e(k)
  BY <1>1, EndsGrow
<1>3. 0 \in T
  <2>1. Walk(w)[0] = GoOn(2)
    BY <1>1, WalkOf
  <2> QED
    BY <1>2, <2>1
<1>4. k < f.cut
  <2> HIDE DEF e, w
  <2> QED
    BY <1>1, <1>2 DEF e
<1>5. ASSUME NEW j \in 0 .. k - 1, j \in T
      PROVE  j + 1 \in T
  <2>1. /\ j + 1 \in 1 .. Len(f.doc) /\ (j + 1) - 1 = j /\ j + 1 \in 0 .. k /\ j + 1 \in 1 .. k
        /\ j + 1 \in 1 .. Len(w)
    BY <1>1, <1>4
  <2>2. e(j) < f.cut /\ ~(e(j + 1) > f.cut)
    <3>1. j \in 0 .. Len(f.doc) /\ j + 1 \in 0 .. Len(f.doc) /\ k \in 0 .. Len(f.doc)
          /\ (j + 1 = k \/ j + 1 \in 0 .. k - 1)
      BY <1>1
    <3> HIDE DEF e
    <3>2. e(j) < e(k) /\ e(j + 1) <= e(k) /\ e(j) \in Nat /\ e(j + 1) \in Nat /\ e(k) \in Nat
      BY <1>2, <3>1
    <3>3. e(k) <= f.cut
      BY DEF e
    <3> QED
      BY <1>1, <3>2, <3>3
  <2>3. Walk(w)[j + 1] = AfterLook(w, Walk(w)[j])
    BY <1>1, <2>1, WalkOf
  <2>4. Walk(w)[j] = GoOn(e(j) + 1)
    BY <1>5
  <2>5. Walk(w)[j + 1] = look_at(w, e(j) + 1)
    <3>1. \A i : AfterLook(w, GoOn(i)) = look_at(w, i)
      BY DEF AfterLook, GoOn
    <3> QED
      BY <2>3, <2>4, <3>1, Zenon
  <2>6. look_at(w, e(j) + 1) = GoOn(e(j + 1) + 1)
    BY <2>1, <2>2, LookAt
  <2> QED
    BY <2>1, <2>5, <2>6
<1> HIDE DEF T
<1>a. k \in Nat
  BY <1>1
<1>6. 0 .. k \subseteq T
  BY <1>3, <1>5, <1>a, UpTo
<1>7. k \in T
  BY <1>6
<1> QED
  BY <1>4, <1>7 DEF T

(* The manifests among the sections that came whole.                                *)
NamedIn(f) == {k \in DOMAIN f.doc : End(f.doc, k) <= f.cut /\ Named(f.doc[k])}

(* The first of them is found.                                                    *)
LEMMA FirstFound ==
  ASSUME NEW f \in Wasms, NEW k \in NamedIn(f), \A other \in NamedIn(f) : k <= other
  PROVE  find_section(Cut(f)) = Got(f.doc[k].payload)
<1> DEFINE w == Cut(f)
           e(j) == End(f.doc, j)
<1>1. Len(f.doc) \in Nat /\ f.cut \in Nat /\ Len(w) = f.cut /\ f.doc \in Seq(Section)
  BY CutOf
<1>2. k \in 1 .. Len(f.doc) /\ e(k) <= f.cut /\ Named(f.doc[k])
  BY <1>1 DEF NamedIn
<1>3. /\ k - 1 \in 0 .. Len(f.doc) /\ k \in 0 .. Len(f.doc) /\ k - 1 \in 0 .. k - 1
      /\ DOMAIN f.doc = 1 .. Len(f.doc)
  BY <1>1, <1>2
<1>4. /\ e(k) \in Nat /\ 2 * k + 1 <= e(k)
      /\ \A j \in 0 .. k - 1 : e(j) < e(k)
      /\ \A j \in 0 .. k - 1 : e(j) \in Nat
  <2>1. \A j \in 0 .. k - 1 : j \in 0 .. Len(f.doc)
    BY <1>1, <1>2
  <2> QED
    BY <1>1, <1>3, <2>1, EndsGrow
<1> HIDE DEF e
<1>5. e(k - 1) < f.cut /\ ~(e(k) > f.cut) /\ k \in 1 .. Len(w)
  BY <1>1, <1>2, <1>3, <1>4
<1>6. ASSUME NEW j \in 1 .. k - 1 PROVE ~Named(f.doc[j])
  <2>1. j \in DOMAIN f.doc /\ ~(k <= j) /\ j \in 0 .. k - 1
    BY <1>1, <1>2, <1>3
  <2>2. j \notin NamedIn(f)
    BY <2>1
  <2>3. e(j) <= f.cut
    BY <1>1, <1>2, <1>4, <2>1
  <2> QED
    BY <2>1, <2>2, <2>3 DEF NamedIn, e
<1>7. Walk(w)[k - 1] = GoOn(e(k - 1) + 1)
  <2>1. End(f.doc, k - 1) <= f.cut
    BY <1>1, <1>3, <1>4, <1>5 DEF e
  <2> QED
    BY <1>3, <1>6, <2>1, WalkTo DEF e
<1>8. look_at(w, e(k - 1) + 1) = Got(f.doc[k].payload)
  BY <1>2, <1>5, LookAt DEF e
<1>9. Walk(w)[k] = Got(f.doc[k].payload)
  <2>1. Walk(w)[k] = AfterLook(w, Walk(w)[k - 1])
    BY <1>1, <1>5, WalkOf
  <2>2. \A i : AfterLook(w, GoOn(i)) = look_at(w, i)
    BY DEF AfterLook, GoOn
  <2> QED
    BY <1>7, <1>8, <2>1, <2>2, Zenon
<1>10. Walk(w)[k].answer # "go on"
  BY <1>9 DEF Got
<1> QED
  <2>1. k \in 0 .. Len(w)
    BY <1>5
  <2>2. find_section(w) = Walk(w)[k]
    BY <1>1, <1>10, <2>1, WalkStays
  <2> QED
    BY <1>9, <2>2

(* Without one the walk ends with the sections, or in the one that was cut.              *)
LEMMA NoneFound ==
  ASSUME NEW f \in Wasms, NamedIn(f) = {}, f.cut >= 1
  PROVE  find_section(Cut(f)) =
           Deny(IF \E k \in 0 .. Len(f.doc) : End(f.doc, k) = f.cut THEN "Missing" ELSE "Truncated")
<1> DEFINE w == Cut(f)
           n == Len(f.doc)
           e(j) == End(f.doc, j)
           Past == {k \in 0 .. n : e(k) > f.cut}
<1>1. n \in Nat /\ f.cut \in Nat /\ Len(w) = f.cut /\ f.doc \in Seq(Section) /\ f.cut <= e(n)
      /\ DOMAIN f.doc = 1 .. n
  BY CutOf
<1>2. e(0) = 1
  BY <1>1, EndsGrow
<1>3. \A k \in 0 .. n : e(k) \in Nat
  BY <1>1, EndsGrow
<1>4. \A k \in 0 .. n : \A j \in 0 .. k - 1 : e(j) < e(k)
  BY <1>1, EndsGrow
<1> HIDE DEF e, n
<1>5. PICK m \in 0 .. n : e(m) <= f.cut /\ (m = n \/ e(m + 1) > f.cut)
  <2>1. CASE Past = {}
    <3>1. n \in 0 .. n /\ e(n) \in Nat /\ ~(e(n) > f.cut)
      BY <1>1, <1>3, <2>1
    <3>2. e(n) <= f.cut
      BY <1>1, <3>1
    <3> QED
      BY <3>1, <3>2
  <2>2. CASE Past # {}
    <3>1. Past \in SUBSET Nat
      OBVIOUS
    <3>2. PICK p \in Past : \A q \in Past : p <= q
      BY <2>2, <3>1, LeastOf
    <3>3. p \in 0 .. n /\ e(p) > f.cut
      OBVIOUS
    <3>4. p # 0
      BY <1>1, <1>2, <3>3
    <3>5. p - 1 \in 0 .. n /\ (p - 1) + 1 = p /\ ~(p <= p - 1)
      BY <1>1, <3>3, <3>4
    <3>6. p - 1 \notin Past /\ e(p - 1) \in Nat
      BY <1>3, <3>2, <3>5
    <3>7. e(p - 1) <= f.cut
      BY <1>1, <3>5, <3>6
    <3> QED
      BY <3>3, <3>5, <3>7
  <2> QED
    BY <2>1, <2>2
<1>6. e(m) \in Nat /\ \A j \in 0 .. m - 1 : e(j) < e(m) /\ e(j) \in Nat
  <2>1. \A j \in 0 .. m - 1 : j \in 0 .. n
    BY <1>1
  <2> QED
    BY <1>3, <1>4, <2>1
<1>7. ASSUME NEW j \in 1 .. m PROVE ~Named(f.doc[j])
  <2>1. j \in DOMAIN f.doc /\ (j = m \/ j \in 0 .. m - 1)
    BY <1>1
  <2>2. e(j) <= f.cut
    BY <1>1, <1>5, <1>6, <2>1
  <2> QED
    BY <2>1, <2>2 DEF NamedIn, e
<1>8. m < f.cut /\ Walk(w)[m] = GoOn(e(m) + 1)
  BY <1>5, <1>7, WalkTo DEF e, n
<1>9. m + 1 \in 1 .. Len(w) /\ (m + 1) - 1 = m
  BY <1>1, <1>8
<1>10. Walk(w)[m + 1] = look_at(w, e(m) + 1)
  <2>1. Walk(w)[m + 1] = AfterLook(w, Walk(w)[m])
    BY <1>1, <1>9, WalkOf
  <2>2. \A i : AfterLook(w, GoOn(i)) = look_at(w, i)
    BY DEF AfterLook, GoOn
  <2> QED
    BY <1>8, <2>1, <2>2, Zenon
<1>11. Deny("Missing").answer # "go on" /\ Deny("Truncated").answer # "go on"
  BY DEF Deny
<1>12. CASE e(m) = f.cut
  <2>1. e(m) + 1 > Len(w)
    BY <1>1, <1>12
  <2>2. look_at(w, e(m) + 1) = Deny("Missing")
    BY <2>1 DEF look_at
  <2>3. Walk(w)[m + 1].answer # "go on"
    BY <1>10, <1>11, <2>2
  <2>4. find_section(w) = Deny("Missing")
    <3>1. m + 1 \in 0 .. Len(w)
      BY <1>9
    <3> QED
      BY <1>1, <1>10, <2>2, <2>3, <3>1, WalkStays
  <2>5. \E k \in 0 .. n : e(k) = f.cut
    BY <1>12
  <2> QED
    BY <2>4, <2>5 DEF e, n
<1>13. CASE e(m) # f.cut
  <2>1. m # n /\ e(m) < f.cut
    BY <1>1, <1>5, <1>6, <1>13
  <2>2. m + 1 \in 1 .. n /\ m + 1 \in 0 .. n /\ e(m + 1) > f.cut
    BY <1>1, <1>5, <2>1
  <2>3. look_at(w, e(m) + 1) = Deny("Truncated")
    <3>1. End(f.doc, (m + 1) - 1) < f.cut /\ End(f.doc, m + 1) > f.cut /\ m + 1 \in 1 .. Len(f.doc)
      BY <1>9, <2>1, <2>2 DEF e, n
    <3>2. look_at(w, End(f.doc, (m + 1) - 1) + 1) = Deny("Truncated")
      BY <3>1, LookAt
    <3> QED
      BY <1>9, <3>2 DEF e
  <2>4. Walk(w)[m + 1].answer # "go on"
    BY <1>10, <1>11, <2>3
  <2>5. find_section(w) = Deny("Truncated")
    <3>1. m + 1 \in 0 .. Len(w)
      BY <1>9
    <3> QED
      BY <1>1, <1>10, <2>3, <2>4, <3>1, WalkStays
  <2>6. ASSUME NEW k \in 0 .. n PROVE e(k) # f.cut
    <3>1. e(k) \in Nat /\ e(m + 1) \in Nat
      BY <1>3, <2>2
    <3>2. CASE k = m
      BY <1>13, <3>2
    <3>3. CASE k \in 0 .. m - 1
      BY <1>1, <1>6, <2>1, <3>1, <3>3
    <3>4. CASE k = m + 1
      BY <1>1, <2>2, <3>1, <3>4
    <3>5. CASE m + 1 \in 0 .. k - 1
      <4>1. e(m + 1) < e(k)
        BY <1>4, <3>5
      <4> QED
        BY <1>1, <2>2, <3>1, <4>1
    <3> QED
      BY <1>1, <3>2, <3>3, <3>4, <3>5
  <2> QED
    BY <2>5, <2>6 DEF e, n
<1> QED
  BY <1>12, <1>13

(* What is loaded is among the modules, and what came of it what the parser says.           *)
LoadedIs == /\ file \in Wasms
            /\ loaded # NotYet => loaded = parse_from_wasm(Cut(file))

(* That is inductive.                                                            *)
LEMMA LoadedIsInductive ==
  ManifestInit /\ [][ManifestNext]_fileVars => []LoadedIs
<1>1. ManifestInit => LoadedIs
  BY DEF ManifestInit, LoadedIs
<1>2. LoadedIs /\ [ManifestNext]_fileVars => LoadedIs'
  BY DEF LoadedIs, ManifestNext, Load, fileVars, Cut
<1> QED
  BY <1>1, <1>2, PTL

(* The walk decides what the parser answers.                                       *)
LEMMA LoadedFound ==
  LoadedIs => ManifestFound
<1> SUFFICES ASSUME LoadedIs, loaded # NotYet PROVE ManifestFound
  BY DEF ManifestFound
<1> DEFINE w    == Cut(file)
           doc  == file.doc
           end  == [k \in 0 .. Len(doc) |-> Len(Written(doc)[k])]
           named == {k \in DOMAIN doc : /\ end[k] <= file.cut
                                        /\ doc[k].id = Custom /\ doc[k].name = SECTION_NAME}
           least == CHOOSE k \in named : \A other \in named : k <= other
           whole == \E k \in 0 .. Len(doc) : end[k] = file.cut
<1>1. file \in Wasms /\ loaded = parse_from_wasm(w)
  BY DEF LoadedIs
<1>2. Len(doc) \in Nat /\ file.cut \in Nat /\ Len(w) = file.cut /\ DOMAIN doc = 1 .. Len(doc)
      /\ doc \in Seq(Section)
  BY <1>1, CutOf
<1>3. \A k \in 0 .. Len(doc) : end[k] = End(doc, k)
  BY DEF End
<1>4. named = NamedIn(file)
  <2>1. \A k \in DOMAIN doc : end[k] = End(doc, k)
    <3>1. \A k \in DOMAIN doc : k \in 0 .. Len(doc)
      BY <1>2
    <3> HIDE DEF end, doc
    <3> QED
      BY <1>3, <3>1
  <2> HIDE DEF end
  <2> QED
    BY <2>1 DEF NamedIn, Named
<1>5. whole <=> \E k \in 0 .. Len(doc) : End(doc, k) = file.cut
  BY <1>3
<1>6. ManifestFound <=> IF named # {} THEN loaded = parse_payload(doc[least].payload)
                        ELSE loaded.answer = IF whole THEN "Missing" ELSE "Truncated"
  BY DEF ManifestFound
<1> HIDE DEF w, doc, end, named, whole, least
<1>7. CASE file.cut = 0
  <2>1. \A k \in 0 .. Len(doc) : End(doc, k) > 0
    <3>1. \A k \in 0 .. Len(doc) : End(doc, k) \in Nat /\ 2 * k + 1 <= End(doc, k)
      BY <1>2, EndsGrow
    <3> QED
      BY <3>1
  <2>2. NamedIn(file) = {}
    <3>1. \A k \in DOMAIN doc : ~(End(doc, k) <= file.cut)
      BY <1>2, <1>7, <2>1, EndsGrow
    <3> QED
      BY <3>1 DEF NamedIn, doc
  <2>3. ~whole
    BY <1>5, <1>7, <2>1
  <2>4. Len(w) < Len(Preamble)
    BY <1>2, <1>7 DEF Preamble
  <2>5. loaded = Deny("Truncated")
    BY <1>1, <2>4 DEF parse_from_wasm
  <2> QED
    BY <1>4, <1>6, <2>2, <2>3, <2>5 DEF Deny
<1>8. CASE file.cut # 0
  <2>1. file.cut >= 1
    BY <1>2, <1>8
  <2>2. ~(Len(w) < Len(Preamble))
    BY <1>2, <2>1 DEF Preamble
  <2>3. SubSeq(w, 1, Len(Preamble)) = Preamble
    BY <1>1, <2>1, CutHolds DEF w
  <2>4. loaded = IF find_section(w).answer # "Ok" THEN find_section(w)
                 ELSE parse_payload(find_section(w).got)
    BY <1>1, <2>2, <2>3 DEF parse_from_wasm
  <2>5. CASE named # {}
    <3>1. named \in SUBSET Nat
      BY <1>2, <1>4 DEF NamedIn, doc
    <3>2. \E k \in named : \A other \in named : k <= other
      BY <2>5, <3>1, LeastOf
    <3>3. least \in named /\ \A other \in named : least <= other
      BY <3>2 DEF least
    <3>4. find_section(w) = Got(doc[least].payload)
      BY <1>1, <1>4, <3>3, FirstFound DEF w, doc
    <3>5. loaded = parse_payload(doc[least].payload)
      BY <2>4, <3>4 DEF Got
    <3> QED
      BY <1>6, <2>5, <3>5
  <2>6. CASE named = {}
    <3>1. find_section(w) = Deny(IF whole THEN "Missing" ELSE "Truncated")
      BY <1>1, <1>4, <1>5, <2>1, <2>6, NoneFound DEF w, doc
    <3>2. find_section(w).answer = IF whole THEN "Missing" ELSE "Truncated"
      BY <3>1 DEF Deny
    <3>3. find_section(w).answer # "Ok"
      BY <3>2
    <3> QED
      BY <1>6, <2>4, <2>6, <3>2, <3>3
  <2> QED
    BY <2>5, <2>6
<1> QED
  BY <1>7, <1>8

(* A driver manifest is the payload of the first section of its name that came whole,   *)
(* whatever bytes the other sections hold; without one the module lacks it when it       *)
(* ends with a section, and is truncated otherwise: for every list of sections, every     *)
(* cut and every width of the lengths (driver-iface, find_section_payload).            *)
THEOREM ManifestsFound == ManifestInit /\ [][ManifestNext]_fileVars => []ManifestFound
<1> QED
  BY LoadedIsInductive, LoadedFound, PTL

=============================================================================
