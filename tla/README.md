# Wari in TLA+

Wari is a WASM-native microkernel for RISC-V: tenants and drivers are signed
WebAssembly modules, the kernel runs on one hart without preemption between
tenants (INV-1 in `docs/invariants.md`), and every authority a tenant has is a
capability in its CSpace. This directory models the kernel and its drivers in TLA+,
checks the models with TLC and proves most of their safety properties with TLAPS. `PROJECT.json` lists the components, the runs, the source lines behind
each definition, the hazards the properties are for and the theorems.

    tlc -workers 2 -config MCTenantIpc.cfg MCTenantSched.tla       # a run
    tlapm CapSystemProofs.tla                                      # some proofs

## 1. Inventory

| component | state it keeps | operations | hard behaviour |
|---|---|---|---|
| capability tables (`wari-cap`, `kernel/src/cap`) | per-process CSpaces of 256 caps and 256 generations; object pools with reference counts | `cap_mint`, `cap_copy`, `cap_delete`, `cap_revoke`, `net_socket_create/close`, boot and spawn grants | derivation trees named by 16-bit generations, cascades, sharing, counters at their limit |
| revocation walk (`wari-cap/src/revoke.rs`) | a bitmap of cells, a loop of passes | `discover`, `clear` | children before parents; termination; equivalence with one atomic step |
| registered handles (`cap/reg.rs`) | per-process handle tables | `cap_register`, `cap_unregister`, `validate_handle` | handles that went stale since they were registered |
| submission ring (`cap/ring_drain.rs`, `abi-shared`) | per-process ring descriptors, entries in linear memory | `ring_setup`, `ring_submit`, `dispatch`, `notification_wait/ack` | regions across each other or past the end, signals in the middle of a drain |
| sockets (`cap/syscall.rs`, `runtime/tier2_net.rs`, `drivers/net`) | Socket pool, driver handle table, smoltcp states, accept windows | `net_socket_create/bind/listen/accept/send_canned/close`, `poll` | handles reused, deadlines kept apart from sockets, a caller that polls for ever |
| network drivers (`drivers/net`) | virtqueues; DWMAC4 descriptor rings, watchdog counters, bring-up | `driver_start`, `poll`, receive and transmit tokens, recovery | a device that runs beside the driver, indices that wrap, an engine that wedges, resets that do not end |
| DMA and register gates (`cap/dma.rs`, `runtime/host_fns.rs`, `wari-validate`) | rings on record, window tables of each board | `nic_attach_queue`, `nic_dma_set_buf`, `nic_queue_notify`, register reads and writes | sums that wrap, accesses that straddle a window, calls that fail half-way |
| console output (`runtime/wasi.rs`, `tier2_uart.rs`, `drivers/uart`, `uart_ns16550.rs`) | the UART's FIFO, shared by driver and kernel | `fd_write`, `put_byte`, `putc` | a trap that prints between the driver's look and its write |
| synchronous IPC (`kernel/src/ipc.rs`, `wari-ipc`) | endpoint queues, per-process message registers and buffers | `ipc_send`, `ipc_call`, `ipc_recv`, `ipc_reply` | who waits for whom, order of wake and block, failing writes |
| scheduler (`kernel/src/sched`, `wari-sched`) | process table | `run`, `wake`, `block`, termination | no preemption, lowest pid first, all blocked |
| instance pool (`runtime/tier1_pool.rs`) | one live or parked instance per process | `start`, `resume`, `flush_msg_to_linmem`, `release` | agreement with the process table |
| audit stream (`wari-events`, `runtime/events.rs`) | ring of 128 records, next sequence number, waiters | `emit`, `read_at`, `wake_ring_waiters`, `event_read` | lost wakeups, readers that are lapped |
| module registry (`runtime/modreg.rs`) | four slots: free, staged, live; stored bytes | `stage`, `spawn*`, `payload`, `on_tenant_terminated` | crash and restart, budgets, process ids that run out, code run without a second check |
| interrupts (`mmio/plic.rs`, `trap.rs`) | notification bits, stuck-source counters | `dispatch` | storms, keys that arrive while nobody can take them |
| pages and page tables (`wari-mem`, `mem/kvm.rs`) | bitmap, Sv39 tables | allocate, map, switch `satp` | dirty frames, a pool that runs out, a stack in the same region |
| boot (`main.rs`, `runtime/loader.rs`, `sign.rs`, `manifest.rs`) | how far `kmain` has come, what is installed | load, verify, instantiate, register | images that are not what they should be, keys in the middle |
| HTTP, MCP, native modules, driver manifests (`wari-http`, `wari-mcp`, `wari-wnm`, `driver-iface`) | none | parse, validate, plan | streams cut anywhere, look-alikes, ranges at a boundary |
| guard policy, offline tools (`wari-policy`, `tools`) | strike counts; none | verdict per record; translate, sign | not in the running kernel's paths |

Components interact only through host functions (a call from a tenant into the
kernel, which returns or suspends the tenant), through the shared tables above,
through calls into a driver's instance, through the rings and registers the drivers
share with their devices, and through records in the audit stream. A host function
is not interrupted by another tenant, so it is one step of the models; concurrency
is the order in which tenants make calls, block, are woken and end. Where something
does run beside a host function - the passes of `cap_revoke`, a drain of a ring under
interrupts, a DMA engine beside its driver, a trap that prints - the model has the
finer steps.

What makes each correct, in a sentence: caps never gain authority and always know
their ancestors; counts equal caps; revocation removes exactly the descendants;
no socket is shared; no tenant keeps the hart by polling; a message moves exactly
when two parties meet; a process waits in exactly the place where it will be found;
a sleeping guard has read everything; a daemon is alive until it is given up, and its
end is on record; a frame is neither lost nor repeated nor overwritten; the kernel
hands a device nothing but its driver's memory, and a driver touches its own registers
only (what it tells its device by itself is another matter, see *Drivers* in section 3);
what is printed comes out whole; paging maps what was asked; only signed drivers and
verified modules run; a parser's answer does not depend on how its input was cut.

## 2. Modules

### Capabilities

* `CapSystem` - the tables and host functions. `caps` and `gen` are
  `CSpace.slots` and `CSpace.generations` by cell `<<process, slot>>`; `refs` is the
  `refcount` of each pool entry (0: not allocated); `handle` is
  `Socket.smoltcp_handle`; `open` is the driver's table of taken handles; `status`
  says whether a process id is unused, live or terminated; `worn` is a history
  variable: cells cleared while their generation was already at its maximum. There
  is one action per host function (`cap_mint`, `cap_copy`, `cap_revoke`,
  `cap_delete`, `net_socket_create`, `net_socket_close`), one for the grants of a
  spawned module (`install_tier1_grants`) and one for the end of a tenant
  (`Terminate`, which, as in the code, leaves the CSpace alone). Error returns
  change nothing, so a call is enabled exactly when it succeeds; the two that do
  change state, a driver that refuses to close and a Socket pool that is full after
  the driver made a socket, are in the actions (`released`) or cancel out
  (the rollback).
* `CapForest` - what the tables promise, without generations: caps form a forest,
  removing a cap makes orphans of its children for good, revoking removes a tree.
  `CapSystem!ForestSpec` is the refinement; it promises nothing once a counter has
  run out (`wornOut`).
* `RevokeWalk` - `cap_revoke` as `revoke.rs` runs it: one step per visited cell,
  passes until nothing changes, then a clearing pass. `before` remembers the tables
  as the call found them; `ImplementsAtomicRevoke` maps a running walk to the state
  before it and its last step to `cap_revoke` of `CapSystem`.
* `RegHandles` - the registered-capability fast path over `CapSystem`: `reg` is the
  table of handles of each process, `cap_register` and `cap_unregister` are its two
  operations, and `validate_handle` is the check with which `ring_drain` starts each
  use of a handle. No operation on a CSpace touches `reg`, so everything rests on
  the generations.
* `SubmissionRing` - `ring_setup` and the drain of `ring_submit`, an entry per step:
  copy, check, operation, completion. `lin_mem` is the module's memory in cells of
  eight bytes; a handle is in one of the states its check tells apart (`RegHandles`
  says how it gets there). The notification may be signalled between any two steps.
  `decided` is a history variable.

### Network

* `NetSockets` - the socket calls over `CapSystem`, whose actions it extends with the
  smoltcp state of each driver slot (`tcp`), the bound ports, and the accept windows
  of `tier2_net` (`window`, `logged`), which are kept by driver handle. A tenant in
  an accept loop (`poller`) keeps the hart: while it polls only time passes and
  segments arrive (`Arrival`, external).
* `VirtioRings` - the QEMU board's driver: handshake, receive queue, transmit queue,
  each store the device can see a step of its own; the device takes, writes and
  publishes entries beside it.
* `GmacRings` - the VisionFive 2's driver: bring-up call by call with its retries,
  the receive walk one descriptor per step, tokens with `consume` and `drop`, the
  watchdog (`watch`, `snapshot`, `decide`), the recovery and the doorbell, the
  transmit tokens; the two DMA engines run beside it and the receive engine may
  suspend or wedge.
* `DmaRings` - what the kernel checks between a network driver and its device: attach a
  queue, put a buffer in a descriptor, notify, read and write registers, with the
  window tables of both boards as they are in `wari-validate`. The driver calls
  with any arguments in any order, with any rights or none, and between calls stores
  anything anywhere in its memory (`desc_wr`). `device` is what the address registers of
  each queue hold: a register write goes there with its value (`Obeyed`), so that a
  driver may point a VF2 engine wherever it likes.

### Console, interrupts, boot

* `Interrupts` - `plic::dispatch` as the trap handler runs it, one claim per step:
  the claim of 0 and its guard (`SPURIOUS_RUN`, masking `seie`), the stuck-source
  guard (`LAST_IRQ_RUN`, taking a source out of `enabled`), the UART handler that
  looks for Ctrl-R, and the signal of the NIC's notification; the idle loop that
  polls the UART; and the devices: keys, packets, the DesignWare latch, a line
  nobody can claim. `nicLine` never falls, because the VirtIO driver never writes
  the device's interrupt acknowledge register. `calm` is a history variable.
* `ConsoleOut` - `fd_write` down to the UART's FIFO: the checks of the host function,
  the driver byte by byte with its gate, and a trap handler that prints a line into
  the same FIFO at any moment.
* `PageTables` - `kvm::init`: the bitmap allocator, frames that hold anything, tables
  of three levels built page by page, the switch of `satp`. `frame` is memory read as
  tables, so that a stale entry is an entry.
* `Boot` - `kmain` over `PageTables`: one step per call, the gates of the two driver
  loaders, the registry and its self-test, the scheduler at the grain of start, block
  and end, restarts, the idle loop, and a key that may be struck at any time. `ran`
  and `vetted` are history variables.

### Tenants

* `EventRing` - the arithmetic of the audit stream: slot of a sequence number,
  oldest record, read plan.
* `TenantSched` - the process table, endpoint queues, message registers, the
  instance pool, the audit stream with its waiters, and the daemons. `run(p)` is one
  turn of the scheduler's loop up to the entry into the tenant (start, or flush and
  resume); the running tenant then makes any host call its caps allow
  (`ipc_send`, `ipc_call`, `ipc_recv`, `ipc_reply`, `event_read`) until one suspends it,
  or it ends (`settle`, which emits the record, wakes the waiters and lets the
  registry restart a daemon, in the code's order). A message is known by who
  composed it and how many that process composed before; `mem` is the buffer in a
  tenant's memory. A receiver may pass a buffer outside its memory (`BadBuf`).
  Calls that return `E_AGAIN` or an error without a change are not steps, except
  the send into a full queue, which overwrites the sender's message registers.
* `Rendezvous` - what IPC promises: offers, waits, meetings, refusals and answers,
  without queues, registers or a scheduler. It has one action the design does not
  want, `Drop`, because the code does it (finding `ipc_lost_sender`).

### Formats

* `Http` - `wari_http::parse`, called on a buffer that grows by segments of any size,
  and a caller that serves what completes and drops what was consumed. `read_first` is the
  parser before its loop over the header lines, `read_line` a turn of the loop, which the
  function `Lines` repeats; `header` is one line, `Body` what follows the loop.
* `Mcp` - the span reader, `obj_get_raw`, `parse_request` and the id that the response
  echoes. The recursion of `value_len` on its depth is the function `Ends`, level by level;
  `element` and `member` are turns of the loops over what a value holds. Every text is paired
  with the tree of its values (`GoodMessage`), which the reader never sees.
* `NativeModule` - `validate_header` and `load_plan` of native modules.
* `DriverManifest` - the section walk over a wasm module to the driver manifest in it, and
  its payload, over modules cut anywhere.

A symbol of these stands for a byte, or for a run of bytes that the code treats alike.

`MC*` modules give the constants their values for TLC. `MCNicRings` and `MCFormats`
put several machines side by side, of which a behaviour runs one.

## 3. Runs

| run | instance | shows |
|---|---|---|
| `reg_handles` | a boot tenant and a module loaded later, 2 slots, a table of one handle | across a spawn, with and without the audit-stream grant: counts are exact, no right grows (`RefcountExact`, `AuthorityNeverGrows`), a handle names its cap until that cap goes (`HandleInv`), then nothing for ever (`StaleForever`) |
| `net_sockets` | two tenants and the driver, 2 slots, one Socket entry, a driver slot that is served and a second one | `NoSharedSocket`, `StaysHome`; a driver slot and the pool entry that names it part only where a cap that names the slot is cleared, and not when the pool is full (`SlotsAccounted`); an expired accept window stays until a close (`ExpiredUntilClosed`); every accept loop ends (`AcceptEnds`) |
| `irq_storm` | both boards, guards at 3 and 2, a FIFO of 2, 4 keys | `StormEnds`, `KeyReboots`: no storm wedges the hart, and Ctrl-R works while the console listens, or once the tenants are gone |
| `revoke_walk` | one tenant, 3 slots, a root cap with WRITE, generations to 1 | from every table the tenant can build, past the point where counters run out: `DiscoverExact`, `ImplementsAtomicRevoke`, `WalkReturns`; `DerivationInv` and the refinement of the forest |
| `ipc_rendezvous` | three tenants, one endpoint, queue of 2, two messages each | `RendezvousInv` (queued means blocked there, a receiver that waits is queued, never a sender and a receiver both waiting, pool and table agree), `ImplementsRendezvous`, `EveryWakeRuns` |
| `audit_stream` | a guard, a daemon and a tenant, two spare process ids, ring of 2, 3 boot records | `NoMissedRecord`, `ReadsExact`, `StreamComplete`, `DaemonsAlive`, `RunReturns` |
| `nic_rings` | VirtIO rings of 2 with indices modulo 4; DWMAC4 rings of 3, four frames in, three out, one wedge | `BufferInOnePlace`, `FramesInOrder`, `FramesKept`, `InFlightKept`: no frame is lost, repeated or overwritten; `EngineRecovers`, `BringUpEnds` |
| `boot` | six memory layouts, twelve sets of images, two sizes of process pool | `MapsExactly`, `StackClear`, `RunsVerified`, `EarlyKeyReboots` |
| `formats` | each parser, gate or ring over its own bounded inputs | `HttpServed`, `McpRoundTrip`, `ContainersRead` (`PlanSound` of native modules, `ManifestFound` of drivers), `CallsConfined`, `RingAnswers`, `ConsoleWhole` |

Three more runs end in a violation, each of something the repository says:

| run | what the sources say | what the code does |
|---|---|---|
| `ipc_lost_sender` | no lost message (`ipc-design.md:125`) | `recv` pops the sender before it finds its own buffer unwritable |
| `irq_healthy` | a source is disabled when it "repeats without pause" (`plic.rs:389`) | claims are counted, pauses are not: the console is disabled after its 10000th key |
| `virtio_sends` | "bump idx to publish the descriptor" (`drivers/net/src/lib.rs:824`) | the index is computed from a counter nobody advances: the first frame goes out twice, the second never, and both calls return 0 |

Other disagreements met on the way and not given a run.

*Capabilities.* The walk skips orphans for ever, where `types.rs:121` and INV-17 say it
clears them. A spawn installs endpoint caps uncounted (`boot.rs:391`), where
`objects.rs:85` calls the refcount the number of caps; `RefcountExact` says what holds
instead. After a close through one cap, a copy of it keeps the pool entry and with it a
driver handle that is reused (`syscall.rs:1072`), and whose accept window the copy's
holder can end; `SlotsAccounted` counts that close among the steps after which slot and
entry may disagree, and no property says that a slot serves one entry. INV-17 calls ABA
structurally impossible (`invariants.md:264`) because mint refuses a slot whose counter
is saturated (line 269, `cspace.rs:151`), and `cap_mint_impl` does not look at the
counter (`syscall.rs:265`): once a slot has been cleared at the last generation, a child
of its old cap hangs below the next one, although it may have rights that one has not.
The properties of `CapSystem` except such cells (`worn`), so none of them speaks of it.
A CSpace is not torn down at exit although comments in `cspace.rs:62` and
`syscall.rs:368` speak of it as if it were (marked Phase 2 in `sched/mod.rs:46`); INV-19
keeps Net caps from Tier 1, `boot.rs:467` grants them to the boot tenants; a Socket cap
gets READ and WRITE from a Net cap that need only have WRITE (INV-10); deleting or
revoking the last cap of a socket frees its entry without telling the driver
(`syscall.rs:369`), whose socket stays open.

*IPC and modules.* `ipc-design.md:82` gives the receiver of a call a one-shot reply
right, but any holder of WRITE answers the lowest waiter. An endpoint freed by the
last `cap_delete` may have waiters queued in it. A slot of the registry whose spawn
finds no process id stays staged (`modreg.rs:260`). The baked-in tenants are not
signed, by decision (Q4). The design names an error for a driver without a manifest
(`driver-interface-design.md:491`), and the loader of the NIC driver takes one
(`loader.rs:217`, "pre-DI-4 binary, soft-allow", until the driver has been migrated):
`RunsVerified` asks of that driver that it is signed and, where it declares a kind, that
it is the right one.

*Drivers.* On the VF2 the UART's status register is at offset 20, and the gate passes
8 bytes (`wari-validate/src/lib.rs:45`): the driver's read is refused with all
ones, which it takes for "ready", so it writes without waiting, where
`drivers/uart/src/lib.rs:106` promises to spin; `ConsoleWhole` excepts that board.
`nic_attach_queue` puts the ring on record before the device accepts the queue
(`syscall.rs:532`). A driver may tell its device other addresses than the kernel forms. It
stores into its own descriptors, on both boards, and on the VF2 it writes the list and
tail registers of the engines itself: the value of a register write is not validated
(INV-20, gap 3), and INV-25 is partly enforced by its own Status ("GMAC (VF2): not yet").
`CallsConfined` is therefore about what the kernel forms (the tables on record, a VirtIO
queue, the buffers of `nic_dma_set_buf`), about where register accesses go, and about the
listed address registers; of the other addresses, of the length of a queue and of its
being ready it says nothing. `ring_submit` runs an entry's operation before it finds no room for
the completion, and does not count it. The VF2's table of DMA address registers
is empty, on purpose (`wari-validate/src/lib.rs:375`), so that its last clause speaks of
the QEMU board only. The R2S halts before its drivers.
The boot stack and the page pool are one region (`linker.ld:57`), and nothing checks that
they do not meet.

*Formats.* An HTTP line of maximal length that is cut between CR and LF is refused
as too long, though the LF would have completed it. The LEB128 reader drops the high
bits of a fifth byte and takes overlong encodings, which its comment says it
refuses. The JSON reader takes trailing commas and scalars of any form, does not take
the least i64, does not find members behind a key with an escape, and answers a
request without an id with a null one. The loader of native modules never looks at the
three reserved bytes of a section entry, which "must be 0" (`wari-wnm/src/lib.rs:31`), and
`NativeModule` has an entry without them.

### Bounds, and why they are enough

* Three slots hold a cap, a child and a grandchild in any order, which is what a
  cascade of more than one pass needs; a cascade stays in one CSpace (`StaysHome`,
  proved for any number).
* `GenMax` (65535 in the kernel) is 1: every cell can be refilled, and in
  `revoke_walk` run out. `Unworn`, a state constraint of the socket and handle
  runs, stops where a counter has run out, which `revoke_walk` explores.
* `OneRegistrar` lets one process at a time hold a handle: two tables of handles are
  never read together. One handle is enough, since entries of a table are
  independent; the full table is then the usual case.
* `net_sockets` has one pool entry and one driver slot that is served, so each is handed on
  from tenant to tenant at once and the pool runs out while a copy outlives its socket.
  A second driver slot is there to be given back then; it is neither bound nor polled
  (`OneServed`), as the driver serves slots independently.
  `FullRights` leaves attenuation to `reg_handles`. `Deadline` 2: a window can be
  fresh, half-way and expired.
* `SameIrqLimit` (10000) and `SpuriousLimit` (1000) are 3 and 2, so both guards trip,
  alone and together, before, after and in between keys. `MaxKeys` exceeds the first.
* Two rights, one or two objects: rights are only ever compared by inclusion.
* `QueueCap` (8) is 2 with three processes, so a full queue, a refusal and a
  queue whose order matters all happen. `MsgMax` bounds how many messages a process
  composes; it also excludes endless ping-pong (below).
* `RingCapacity` (128) is 2, so readers are lapped; `BootEvents` 3 means that the ring
  has wrapped before the first tenant runs.
* `Procs`, `DynProcs` and `Budget`: one daemon's budget exceeds the spare process
  ids, so both ways to give up happen.
* VirtIO rings (8) are 2 and indices run modulo 4, so both wrap several times;
  frames are numbered modulo twice the ring, more than can be in it. DWMAC4 rings
  (16) are 3: an engine, a walk and a re-arm can be at three different descriptors, and
  four frames lap the ring. The periods and thresholds of the watchdog are 2, so that
  each counter is seen below, at and behind its limit; one wedge, since the
  recovery starts from any state of the ring.
* `PtEntries` (512) is 4: 64 pages, tables on all three levels, subtrees that share a
  table and some that do not. The pool is as large as tables and stack need, or too
  small, or missing, or larger than the bitmap (`MaxPages`, 32768, is 12).
* The builds of `boot` are a good one and each single fault that a gate looks for. Pools of
  three and five process ids run out before, and after, the restart budgets.
* HTTP caps are met exactly and exceeded by one; streams are two requests of seven
  kinds, or one with any symbol replaced. `MAX_DEPTH` 2, `IntDigits` 2 and `MaxInt` 11 are
  reached or crossed by members of the documents, which have two to four members of fifteen
  kinds.
* A byte of a wasm module has 3 bits and a mark, with lengths of one and two bytes;
  native modules try every range at, one before and one behind a boundary.
* `U32` is 8 cells, so that offsets and lengths reach every sum that wraps. Register
  accesses are tried around both ends of each window, at their real addresses, and at
  each register that takes an address; `Places`, the values written and stored, has one
  cell inside the memory, one near its end and one outside.
* Submission rings of two entries are laid at five places, over, before and behind
  their completions and at the end of memory. The console's FIFO holds 2 bytes, a
  text up to one more than a call takes.

### Fairness

`TenantSched!Spec` assumes `WF_vars(Next)`: the hart keeps running. The scheduler
picks a ready tenant whenever there is one, and a tenant that runs goes on to its
next host call or to its end; fuel-free endless computation inside a tenant is a
behaviour of that tenant that the kernel does not stop (no preemption), and is
excluded. There is no fairness between tenants: `EveryWakeRuns` does not hold
without `MsgMax`, since two low tenants that call each other for ever starve a higher one;
with bounded messages it says that a low tenant can only delay a higher one while
it has something left to do. `RevokeWalk` assumes weak fairness of the walk's own
steps: a host function that started runs on. `Interrupts` assumes that a pending
trap is taken and that the idle loop goes round when no trap is pending; nothing
is assumed of tenants, which need never exit. `NetSockets` assumes that the clock
ticks and that a tenant in an accept loop goes on polling (otherwise it does not
keep the hart); nothing of the network. `MCNicRings` assumes that `driver_start`, one
call, runs on, and that `kmain` goes on polling; nothing of the devices: a link may
never come up, a reset never end, an engine never move. `Boot` assumes that the hart
executes `kmain` and takes an interrupt that is delivered; a tenant may run for ever.

## 4. Proofs

Eight modules hold the proofs. Each theorem is for every value of the constants that
satisfies the assumptions named in the modules: any finite set of processes and
slots, rings, queues and counters of any size.

| theorem | states | run |
|---|---|---|
| **`CapSystemProofs`** | | |
| `TypeCorrect` | `Spec => []TypeOK` | |
| `DerivationInvariant` | `Spec => []DerivationInv` | `revoke_walk` |
| `DerivationCorrect` | `Spec => []DerivationSound` | |
| `Isolation` | `Spec => StaysHome` | `net_sockets` |
| `AuthorityConfined` | `Spec => AuthorityNeverGrows` | `reg_handles` |
| `RefcountCorrect` | `Spec => []RefcountExact` | `reg_handles` |
| `SocketsPrivate` | `Spec => []NoSharedSocket` | `net_sockets` |
| `SocketNeedsNet` | `Spec => []SocketImpliesNet` | |
| `ForestImplemented` | `Spec => ForestSpec` | `revoke_walk` |
| **`CapClientsProofs`** | | |
| `HandleInvariant` | `RegSpec => []HandleInv` | `reg_handles` |
| `HandlesCorrect` | `RegSpec => []HandleSound` | |
| `StaleHandlesDead` | `RegSpec => StaleForever` | `reg_handles` |
| `SocketServiceIsClient` | `NetSpec => Spec` of `CapSystem` | |
| `HandlesAreClients` | `RegSpec => Spec` of `CapSystem` | |
| `SocketsStayPrivate` | `NetSpec => []NoSharedSocket /\ StaysHome` | `net_sockets` |
| `HandlesCountAndConfine` | `RegSpec => []RefcountExact /\ AuthorityNeverGrows` | `reg_handles` |
| `ExpiryPersists` | `NetSpec => ExpiredUntilClosed` | `net_sockets` |
| `SlotsStayAccounted` | `NetSpec => SlotsAccounted` | `net_sockets` |
| `DiscoveryExact` | `WalkSpec => []DiscoverExact` | `revoke_walk` |
| `WalkDerivation` | `WalkSpec => []DerivationInv` | `revoke_walk` |
| `WalkImplementsRevoke` | `WalkSpec => ImplementsAtomicRevoke` | `revoke_walk` |
| **`TenantSchedProofs`** | | |
| `RendezvousCorrect` | `Spec => []RendezvousInv` | `ipc_rendezvous` |
| `NothingMissed` | `Spec => []NoMissedRecord` | `audit_stream` |
| `WatchedAlive` | `Spec => []DaemonsAlive` | `audit_stream` |
| `StreamCounts` | `Spec => []StreamComplete` | `audit_stream` |
| `ReadsAreExact` | `Spec => ReadsExact` | `audit_stream` |
| `RendezvousImplemented` | `Spec => ImplementsRendezvous` | `ipc_rendezvous` |
| **`NicRingsProofs`** | | |
| `BuffersAccounted` | `BufferInOnePlace` is an invariant of the VirtIO machine | `nic_rings` |
| `FramesOrdered` | `FramesInOrder`, likewise | `nic_rings` |
| `DeliveredFramesKept` | `FramesKept`, of the DWMAC4 machine | `nic_rings` |
| `OutgoingFramesKept` | `InFlightKept`, likewise | `nic_rings` |
| **`LinearMemoryProofs`** | | |
| `CallsStayConfined` | `DmaInit /\ [][DmaNext]_dmaVars => []CallsConfined` | `formats` |
| `RingsAnswer` | `RingAnswers` is an invariant of the submission ring | `formats` |
| `ConsoleStaysWhole` | `ConsoleWhole` is an invariant of the console | `formats` |
| `PlansSound` | `PlanSound` is an invariant of the native loader | `formats` |
| `ManifestsFound` | `ManifestFound` is an invariant of the driver loader | `formats` |
| **`HttpProofs`** | | |
| `RequestsServed` | `HttpServed` is an invariant of a stream that is cut anywhere | `formats` |
| **`McpProofs`** | | |
| `RequestsRoundTrip` | `McpRoundTrip` is an invariant of a request and its response | `formats` |
| **`BootProofs`** | | |
| `OnlyVettedRuns` | `Spec => []RunsVerified` | `boot` |
| `TablesMapExactly` | `Spec => []MapsExactly` | `boot` |
| `TablesOffTheStack` | `Spec => []StackClear` | `boot` |

The proofs are of safety, so they use of each specification only its initial states and
its steps; no fairness is assumed in them, nor any of the bounds of section 3 that are
state constraints. `MaxFrames`, `MsgMax` and the other bounds that are guards are
constants, and the proofs hold for each of their values.

### The arguments

*Derivations.* `DerivationSound` says that a cap whose recorded parent generation is
still current hangs below a cap of the same object (or its Net) with at least its
rights. It is not inductive: filling a cell could make an old child's record
current again. `DerivationInv` adds that a parent is in the same CSpace, that a
recorded generation is never ahead of the cell's, that an unused process holds
nothing, and typing. A clear then moves the generation past every record, unless
the counter is at its end, which is exactly when the cell enters `worn`; so every
cap that is linked to an empty cell has left the claim, and a fill adopts no old
child. Isolation follows because
parents are in the same CSpace, so a cascade stays in one. Counting rests on a
lemma per shape of step (fill one cell, clear a set of cells, endow a CSpace) about
the cardinality of the holders. A socket is private because a fresh entry has a
count of 0, hence, by `RefcountExact`, no holder anywhere.

*The forest.* `CapForest` knows no counters: an edge names a parent, and removing a cap
cuts the edges of its children. While no counter has run out, an edge of the forest is a
link of the tables (`ChildIsLinked`), so what is below a cap is the same set in both,
and the set that `cap_revoke` clears is the tree. A clear moves the counter past every
record, which is what cutting an edge is; a fill finds no record that agrees. Once a
counter has run out the forest promises nothing, as the code does.

*Handles.* One lemma about cells, `NextCellStep`: a step of `CapSystem` lets
an occupied cell and its counter be, or moves the counter up by one, or wears it
out, or endows a process that had no CSpace. `HandleInv` adds to `HandleSound` that
no handle is ahead of its slot's counter, so a counter that moves leaves a handle
behind, and a handle that is behind stays so.

*Clients of the tables.* The runs check `NoSharedSocket` and `RefcountExact` of the tables
together with a service that uses them. Each call of a service is a call of `CapSystem`
or leaves the tables alone (`SocketStepIsStep`, `RegisteredStepIsStep`), so both services
imply `Spec`, and every theorem of `CapSystemProofs` carries over. A step of the socket
service opens or forgets a window only when it has not expired or its slot is
free, or it closes a cap that names the slot (`WindowStep`); time only expires more.
A creation that is rolled back closes a slot too, but one that
no cap has named yet. That slot and entry stay together (`SlotStep`) is a matter of the
tables alone: a clear that names no slot takes no entry from it (`ClearKeepsNames`), and a
creation adds to both sides at once.

*The walk.* `WalkInv` says that during the passes the bitmap holds the target and
otherwise descendants of it, and that while the pass is quiet every child of a cap in the
bitmap that this pass went by is in the bitmap itself. A pass that ends quietly therefore
leaves a set that is closed under children, and the least such set is `RevokeSet`. For the
refinement, `AtomicInv` says what the clearing pass has made of the tables that the call
found: cells gone by and visited are empty, each of their counters is one further
(unless at its end), each object has lost as many references as caps. With all cells gone
by that is `cap_revoke` of the atomic module, which before sees the tables of the call.

*Scheduler and queues.* `RendezvousInv` is not inductive alone, and why says something
about the code: `wake_ring_waiters` wakes every process in the waiter list that is
blocked, on whatever it is blocked. If a process in that list could be blocked on an
endpoint, an emit would make it ready and leave it queued. It is `NoMissedRecord` that
excludes it (only who sleeps on the stream is in the list), so `CoreInv` is their
conjunction. `RegistryInv` adds to `DaemonsAlive` that a module's process id stays in use
even when the module was given up, so that a restart never hands it to another module,
and that what is watched has a budget. `StreamComplete` needs both; `RingHolds` says that
the record of each sequence number that should be left is at its place in the ring.

*Rendezvous.* The refinement mapping reads what a process does from its state and
the queue it is in, and the box from memory or registers, depending on whether it is
blocked. `WaitInv` makes that well defined: the message a blocked sender offers is in its
memory and in its registers alike, and who waits for a reply has a buffer that can be
written. Then each action of the scheduler is one step of `Rendezvous` or none.

*VirtIO.* The indices in the rings wrap; `VirtioInv` is about four counters that do not:
how many buffers the driver has offered, and of these how many the device has taken, has
published and the driver has seen. Never more than a ring lies between the first and the
last, so an index tells its counter. The buffers of the last `QueueSize` places,
read from the available ring, the used ring or the driver's hand, all differ: each place
that is reused takes the buffer that has just been given back. Frames are
numbered modulo twice the ring, which tells any two in it apart.

*DWMAC4.* The claim is about steps, and the recovery is the one that could break it: it
re-arms all descriptors. `GmacInv` says that whatever the walk has gone by is empty or holds
a frame counted after the last snapshot of the counter (`WalkedInv`), that a token is
consumed once, and that bring-up leaves descriptors alone before it arms them
(`ArmingOrder`). A walk of `Ring` steps comes by all of them wherever it starts
(`WalkCovers`, in arithmetic modulo `Ring`).

*Memory.* `DmaInv` says of `CallsConfined` in arithmetic, with no sum wrapped, what the claim
says of sets: each table on record, each ring of a VirtIO queue and the last store of the
kernel fit. It rests on the driver having no licence to write a register of the
VirtIO device that takes an address (`AddressRegistersListed`, over the window tables
as they are), so that a queue is where it was attached or forgotten; on the VF2
the device's registers are left open. `RingInv` has four
parts: counts, decisions, completions and untouched memory. Each entry decided is judged
by the bytes at the start of the drain, which are still there unless a completion of an
earlier entry lies over them.

*Console.* `ConsoleInv` says where the bytes of an accepted text are: sent, in the FIFO, or
left to write, in that order; and that a driver that has seen the transmitter empty
finds room: a handler that cuts in before its write puts at most one byte there before
it waits itself, and the FIFO takes more than one.

*Native modules.* The loop of `validate_header` is a function of its turns. After i turns
without an error the first i entries are in bounds and of different kinds, and
`seen` is the set of their kinds (`Established`); so at the end of the loop the checks are
the claim, and the second walk of `load_plan` finds one entry of each kind.

*Driver manifests.* The claim relates what the parser answers to the sections that the
module was written from. An encoded length is read back as it was (`ReadWhole`: the bytes
carry the eighths of the number, and the value is rebuilt from the last to the first), and
one that is cut has no end (`ReadCut`). One turn of the walk at the first byte of a
written section goes to the end of it, or answers (`LookAtSection`): nothing inside a
section is ever taken for the start of one. By induction over the sections the walk stands
after each that came whole and is not the manifest (`WalkTo`), and an answer stays.

*HTTP.* `HttpInv` says that the caller stands where the walk over the whole stream stands
after some number of turns: what it has served is what that walk has served by then, what it
keeps is what was received since, and, if it has refused, the parser refuses there. It is
inductive because the parser can be restarted: a text that goes on is answered as the
shorter one was unless that was `Partial` (`ParseStays`), but for a line at its cap whose CR
has come and whose LF has not (`CutAtLimit`). So a turn of the caller over what has come
is a turn of the walk over the stream (`SameTurn`, `Lockstep`), and `OneAnswer` compares two
points of one walk. For `ServesAll` the grammar is written out: `Render` is what a client
sends, and it is read back line by line, the first line (`FirstLineReads`), each header
(`HeaderReads`, whose name, value and padding a split and a trim take apart again), and the
body, of which no byte is looked at (`RequestReads`). The walk over all that is sent is
therefore at the end of request k after k turns (`WalkServes`).

*MCP.* Two inductions, over the levels that are left and over the turns of a loop.
`Reads` says of a level n that it ends each value of the tree that nests at most n deep where
the value ends, and any other with `TooDeep`. One turn at an item therefore goes to the next
item, to the end, or stops at the first one that is too deep (`ElementRead`, `LoopStops`,
`ElementsRead`), which makes the next level (`LevelReads`, `ValueEnds`). A turn of
`obj_get_raw` over a member whose value is not too deep goes to the next member, so the
loop ends at the first of the name, or none (`MembersRead`, `FieldRead`): what is nested or
quoted is stepped over as a whole. Digits are read back as they were put, and are no more
than were sent (`PutWrites`, `PutShort`, `NumberBack`); leading zeros and "-0" come back in
another form, which is why the property asks of a number only that it reads the same.

*Page tables.* `KvmInv` has three parts. The tables reachable from the root are a tree, in
which no frame is the target of two entries (`Tree`); so a store into one table changes the
translation of one page, and frames are zeroed before they are linked in, so that
nothing a frame held before is ever read as an entry. The bitmap is a prefix of the pool
(`Packed`): the allocator takes the lowest free frame. And the frames taken are the root and
one per slot of a table that was needed (`Grown`), counted by slots rather than by
frames, so they are at most `TablesNeeded`. What is mapped after k pages of a range is
what was asked for up to there; `StackClear` is the second and the third part together.

*Boot.* `BootInv`: the payload of a live slot does not change, is verified, and is what
the slot's process was vetted with; a process id is never handed out twice. A restart
reads the stored bytes again without a check, and these are the bytes that were checked.

### Assumptions on the constants

`DriverAssumption` is used by `SocketNeedsNet` alone: each Net object is held from
boot by a process whose linker has no `cap_*` functions, the Tier-2 driver. The
assumptions on grants say that boot grants every fixed object to somebody and that
a spawned module's grants name no Net object. `SentinelAssumption` says that the marks
for "no parent" and "no handle" are not slots, `RingAssumption` of `SubmissionRing`
that memory is a sequence of numbers. `ConsoleAssumption` says that the UART's status
register lies in its window on the board with a stride of 1, and that its FIFO is
deeper than one byte, as it is once `uart::init` has switched it on. `ManifestAssumption`
says that modules come from a writer whose lengths fit the `u32` of the format, and that
every such number takes at most `LebMax` bytes, as it does with 5 of 7 bits each.
`McpAssumption` says of each message that it is an object with the tree of its values, its
keys without a quote inside, white space where JSON allows it, and scalars of any form, but
no trailing comma; the name "end" for the end of a text is not a symbol of one.
`HttpAssumption` says that a stream is made of symbols, those that the grammar names among
them, that the caps are numbers, and that a stream marked as a client's is the rendering of
requests that keep to the grammar and the caps; any other stream may be anything. The
layouts of `PageTables` are sequences of ranges of whole pages inside the three levels. TLC evaluates all of them on the instances of section 3.

### Only model-checked

* Liveness (`WalkReturns`, `EveryWakeRuns`, `RunReturns`, `StormEnds`, `KeyReboots`,
  `EarlyKeyReboots`, `AcceptEnds`, `EngineRecovers`, `BringUpEnds`): leads-to under
  fairness needs `ENABLED`, which is out of the prover's reach.

Every invariant and every action property that a run checks is the statement of a theorem.
Where a proof needs induction over data (the loops of `wari_http::parse`, `validate_header`,
`find_section_payload`, `kvm::init` and the span reader, the bytes of the console), the model
has a recursive function, since the library's induction theorems take a predicate for a
parameter, which the prover cannot instantiate; the induction is over the set of the numbers
at which the claim holds, whose least counterexample contradicts itself (`LeastOf`, `UpTo`).

## 5. Not modelled

wasmi, ed25519 and smoltcp are libraries: a module instantiates or not, a signature
holds or not, a TCP socket moves among the states the kernel looks at. Packet
contents, DHCP and the diagnostics of the network driver, the response writers of
HTTP and MCP beyond the id, the clock and the WASI stubs that answer a constant,
`cap_lookup` and console banners change no state that another part reads. `free`,
`mark_allocated` and the counters of the page allocator, and the guard policy
(`wari-policy`), have no caller in the kernel. The macros that build a driver
manifest run at compile time. The offline tools are outside the running system.

Two modules that would be interesting together are not composed: capability tables
with the scheduler (an endpoint freed under its waiters), and the socket table
with IPC. Their products exceed what TLC explores in minutes.

## 6. Plan

1. Done: capability tables, revocation walk, forest; tenants, IPC, audit stream,
   daemons; registered handles; the PLIC dispatch with its guards.
2. Done: sockets with accept deadlines; both network drivers with their devices; DMA and
   register gates; paging and boot; registry and restarts; parsers and containers;
   the submission ring; console output.
3. Done: proofs of the safety properties of the above; the three refinements.
4. Done: paging (`MapsExactly`, `StackClear`), the console, the native loader, the
   driver manifest, HTTP and MCP.
5. To come: typing of `Interrupts`, and a safety consequence of its guards (a source
   that is masked was counted to its limit); the response writers of HTTP.
