---------------------------------- MODULE Boot ----------------------------------
(***************************************************************************)
(* kmain, from OpenSBI's jump to the idle loop (kernel/src/main.rs): paging   *)
(* (PageTables), traps and the PLIC, the root capabilities, the two Tier-2     *)
(* drivers with their signature, manifest and linking gates (runtime/loader,   *)
(* manifest, sign), interrupt delivery, the module registry and its self-test  *)
(* (runtime/modreg.rs), and the scheduler that runs what was registered.       *)
(*                                                                         *)
(* A step is one call of kmain, a stage or a spawn of the registry, or one     *)
(* turn of the scheduler.  A key may be struck between any two of them.        *)
(***************************************************************************)
EXTENDS PageTables

CONSTANTS
  Builds,       (* The images a kernel is built with: for each of uart, net,   *)
                (* hello and guard an envelope.                               *)
  Tampered,     (* The envelope self_test_spawn makes of hello.                *)
  DynSlots,     (* DYN_SLOTS.                                                *)
  PidPools      (* For PROC_ID_DYN_BASE .. MAX_PROCS - 1: sets of one size    *)
                (* or another.                                               *)

Slots == 0 .. DynSlots - 1

PROC_ID_TIER2_UART == 1
Tenants            == {2, 3}       (* PROC_ID_TIER1_HELLO and _B.             *)
PROC_ID_TIER2_NET  == 4

ASSUME BootAssumption ==
  /\ DynSlots \in Nat \ {0}
  /\ \A pool \in PidPools : pool \subseteq Nat \ 0 .. 4 /\ IsFiniteSet(pool)
  /\ ~Tampered.signed
  /\ \A b \in Builds : DOMAIN b = {"uart", "net", "hello", "guard"}

VARIABLES
  at,           (* Where kmain is; "halted" is one of its wfi loops, "reset"   *)
                (* the end of this boot.                                      *)
  build,        (* The images of this kernel.                                 *)
  routed,       (* The PLIC passes the console's interrupt on.                *)
  unmasked,     (* sstatus.SIE.                                              *)
  rx,           (* A Ctrl-R waits in the UART.                               *)
  eps,          (* BOOT_TIER1_EPS is set.                                    *)
  net,          (* The NIC driver: "none", "installed", "dropped".            *)
  step,         (* How far self_test_spawn has come.                         *)
  STORE, SLOTS, (* The registry: what is staged, and the slots' states.       *)
  procs,        (* The process table, of tenants.                            *)
  ran,          (* History: the code instantiated so far, and as what.        *)
  vetted        (* History: for each dynamic process, what was verified when  *)
                (* it, or the process it restarts, was spawned.               *)

registry == <<STORE, SLOTS>>
console  == <<routed, unmasked, rx>>
history  == <<ran, vetted>>
vars == <<kvmVars, at, build, console, eps, net, step, registry, procs, history>>

-----------------------------------------------------------------------------
(* Envelopes: whether the signature holds, the kind in the manifest ("bad":   *)
(* malformed), whether every import links, and which exports resolve.          *)
NoBytes == [image |-> "nothing", signed |-> FALSE, manifest |-> "missing",
            links |-> FALSE, exports |-> "none"]

verify(envelope) == envelope.signed

(* load_tier2 and load_tier2_net up to instantiate: what may run at all.       *)
Instantiates(envelope, kinds) ==
  verify(envelope) /\ envelope.manifest \in kinds /\ envelope.links

(* load_tier2_net takes a driver without a manifest, and the kernel then only  *)
(* finds out what it exports when it wants to call it.                        *)
UartLoads(envelope) ==
  Instantiates(envelope, {"uart"}) /\ envelope.exports = "all"
NetKinds == {"net", "missing"}
NetLoads(envelope) ==
  /\ Instantiates(envelope, NetKinds)
  /\ envelope.manifest = "missing" \/ envelope.exports = "all"

Free   == [state |-> "Free"]
Staged == [state |-> "Staged"]
Live(pid, daemon, left) ==
  [state |-> "Live", proc_id |-> pid, daemon |-> daemon, restarts_left |-> left]

NoProc == [state |-> "none", slot |-> -1]
Ready(slot) == [state |-> "Ready", slot |-> slot]

-----------------------------------------------------------------------------
(* kmain, call by call.                                                      *)

(* uart_ns16550::init: what was typed before is flushed.                      *)
uart_init ==
  /\ at = "uart_init" /\ at' = "kvm"
  /\ rx' = FALSE
  /\ UNCHANGED <<kvmVars, build, routed, unmasked, eps, net, step, registry, procs, history>>

kvm_init ==
  /\ at = "kvm" /\ KvmNext
  /\ at' = CASE kvm' = "failed" -> "halted"
             [] kvm' = "on"     -> IF layout.board = "r2s" THEN "halted" ELSE "plic"
             [] OTHER           -> "kvm"
  /\ UNCHANGED <<build, console, eps, net, step, registry, procs, history>>

plic_init_unrouted ==
  /\ at = "plic" /\ at' = "root_caps"
  /\ UNCHANGED <<kvmVars, build, console, eps, net, step, registry, procs, history>>

(* trap::install and plic::init: the console is routed, nothing delivered.     *)
plic_init ==
  /\ at = "plic" /\ at' = "root_caps"
  /\ routed' = TRUE
  /\ UNCHANGED <<kvmVars, build, unmasked, rx, eps, net, step, registry, procs, history>>

init_root_caps ==
  /\ at = "root_caps" /\ at' = "tier2_uart"
  /\ eps' = TRUE
  /\ UNCHANGED <<kvmVars, build, console, net, step, registry, procs, history>>

run_tier2_uart ==
  /\ at = "tier2_uart"
  /\ at' = IF UartLoads(build.uart) THEN "tier2_net" ELSE "halted"
  /\ ran' = ran \cup IF Instantiates(build.uart, {"uart"})
                     THEN {[as |-> PROC_ID_TIER2_UART, bytes |-> build.uart]} ELSE {}
  /\ UNCHANGED <<kvmVars, build, console, eps, net, step, registry, procs, vetted>>

(* _start runs, whether it traps or not; the NIC came up or it did not.  Only  *)
(* when it did are the exports of a driver without manifest missed, and the     *)
(* self-test's socket is closed again.                                        *)
run_tier2_net ==
  /\ at = "tier2_net"
  /\ \E initialized \in BOOLEAN :
       LET starts == NetLoads(build.net) /\ build.net.exports # "none"
       IN  IF starts /\ (initialized => build.net.exports = "all")
           THEN /\ net' = IF initialized THEN "installed" ELSE "dropped"
                /\ at' = "unmask"
           ELSE net' = net /\ at' = "halted"
  /\ ran' = ran \cup IF Instantiates(build.net, NetKinds)
                     THEN {[as |-> PROC_ID_TIER2_NET, bytes |-> build.net]} ELSE {}
  /\ UNCHANGED <<kvmVars, build, console, eps, step, registry, procs, vetted>>

enable_supervisor_interrupts ==
  /\ at = "unmask" /\ at' = "register"
  /\ unmasked' = TRUE
  /\ UNCHANGED <<kvmVars, build, routed, rx, eps, net, step, registry, procs, history>>

(* The two libraries, which never run, and the two baked tenants.             *)
register ==
  /\ at = "register" /\ at' = "stage"
  /\ procs' = [p \in Tenants \cup DOMAIN procs |->
                 IF p \in Tenants THEN Ready(-1) ELSE procs[p]]
  /\ UNCHANGED <<kvmVars, build, console, eps, net, step, registry, history>>

-----------------------------------------------------------------------------
(* self_test_spawn: what it stages, and with what restart budget.  Only the     *)
(* first is meant to be refused, and its refusal does not end the script.       *)
Script == << [image |-> "tampered", budget |-> 0], [image |-> "guard", budget |-> 0],
             [image |-> "hello", budget |-> 0],    [image |-> "hello", budget |-> 0],
             [image |-> "hello", budget |-> 2] >>

Upload == IF Script[step].image = "tampered" THEN Tampered
          ELSE build[Script[step].image]

(* stage: into the first free slot; without one, the script ends.             *)
stage ==
  LET free == {s \in Slots : SLOTS[s].state = "Free"} IN
  /\ at = "stage"
  /\ IF free = {}
     THEN at' = "sched" /\ UNCHANGED registry
     ELSE /\ STORE' = [STORE EXCEPT ![Min(free)] = Upload]
          /\ SLOTS' = [SLOTS EXCEPT ![Min(free)] = Staged]
          /\ at' = "spawn"
  /\ UNCHANGED <<kvmVars, build, console, eps, net, step, procs, history>>

FreePids == {p \in DOMAIN procs : procs[p] = NoProc}

NextUpload == IF step < Len(Script) THEN "stage" ELSE "sched"

(* spawn_inner, in its order.  The signature is refused and the slot freed...   *)
spawn_rejected ==
  \E s \in Slots :
    /\ at = "spawn" /\ SLOTS[s] = Staged
    /\ ~verify(STORE[s])
    /\ SLOTS' = [SLOTS EXCEPT ![s] = Free]
    /\ at' = IF Script[step].image = "tampered" THEN NextUpload ELSE "sched"
    /\ step' = step + 1
    /\ UNCHANGED <<kvmVars, build, console, eps, net, STORE, procs, history>>

(* ... or no process is left for it, and it stays Staged...                    *)
spawn_no_process ==
  \E s \in Slots :
    /\ at = "spawn" /\ SLOTS[s] = Staged
    /\ verify(STORE[s])
    /\ FreePids = {} \/ ~eps
    /\ at' = "sched"
    /\ UNCHANGED <<kvmVars, build, console, eps, net, step, registry, procs, history>>

(* ... or it becomes a process of the registry.                               *)
spawn_verified ==
  \E s \in Slots :
    LET pid == Min(FreePids) IN
    /\ at = "spawn" /\ SLOTS[s] = Staged
    /\ verify(STORE[s])
    /\ FreePids # {} /\ eps
    /\ procs' = [procs EXCEPT ![pid] = Ready(s)]
    /\ SLOTS' = [SLOTS EXCEPT ![s] =
                   Live(pid, Script[step].budget > 0, Script[step].budget)]
    /\ vetted' = [vetted EXCEPT ![pid] = STORE[s]]
    /\ at' = NextUpload
    /\ step' = step + 1
    /\ UNCHANGED <<kvmVars, build, console, eps, net, STORE, ran>>

-----------------------------------------------------------------------------
(* sched::run.                                                               *)

Running == {p \in DOMAIN procs : procs[p].state = "Running"}

ReadyProcs == {p \in DOMAIN procs : procs[p].state = "Ready"}

(* blob_for: a tenant's baked image, or the payload of a Live slot.            *)
payload(slot) == IF SLOTS[slot].state = "Live" THEN STORE[slot] ELSE NoBytes
blob_for(p)   == IF p \in Tenants THEN build.hello ELSE payload(procs[p].slot)

(* pick_next_tenant: the lowest that is Ready.                                  *)
start_tenant(p) ==
  /\ at = "sched" /\ Running = {}
  /\ p \in ReadyProcs /\ \A q \in ReadyProcs : p <= q
  /\ procs' = [procs EXCEPT ![p].state = "Running"]
  /\ ran' = ran \cup {[as |-> p, bytes |-> blob_for(p)]}
  /\ UNCHANGED <<kvmVars, at, build, console, eps, net, step, registry, vetted>>

(* It waits for something nobody will send.                                    *)
tenant_blocks(p) ==
  /\ at = "sched" /\ p \in Running
  /\ procs' = [procs EXCEPT ![p].state = "Blocked"]
  /\ UNCHANGED <<kvmVars, at, build, console, eps, net, step, registry, history>>

Daemon(s, p) == SLOTS[s].state = "Live" /\ SLOTS[s].proc_id = p /\ SLOTS[s].daemon

restart_any_slot(s, p) ==
  LET pid == Min(FreePids) IN
  /\ SLOTS[s].restarts_left > 0 /\ FreePids # {}
  /\ procs' = [procs EXCEPT ![p].state = "Ended", ![pid] = Ready(0)]
  /\ SLOTS' = [SLOTS EXCEPT ![s] = Live(pid, TRUE, SLOTS[s].restarts_left - 1)]
  /\ vetted' = [vetted EXCEPT ![pid] = vetted[p]]

(* on_tenant_terminated: a daemon restarts as a fresh process without a new     *)
(* verification ...                                                          *)
restart(s, p) ==
  LET pid == Min(FreePids) IN
  /\ SLOTS[s].restarts_left > 0 /\ FreePids # {}
  /\ procs' = [procs EXCEPT ![p].state = "Ended", ![pid] = Ready(s)]
  /\ SLOTS' = [SLOTS EXCEPT ![s] = Live(pid, TRUE, SLOTS[s].restarts_left - 1)]
  /\ vetted' = [vetted EXCEPT ![pid] = vetted[p]]

(* ... or gives up.                                                          *)
give_up(s, p) ==
  /\ SLOTS[s].restarts_left = 0 \/ FreePids = {}
  /\ procs' = [procs EXCEPT ![p].state = "Ended"]
  /\ SLOTS' = [SLOTS EXCEPT ![s] = Live(p, FALSE, 0)]
  /\ UNCHANGED vetted

tenant_ends(p) ==
  /\ at = "sched" /\ p \in Running
  /\ \/ /\ \A s \in Slots : ~Daemon(s, p)
        /\ procs' = [procs EXCEPT ![p].state = "Ended"]
        /\ UNCHANGED <<SLOTS, vetted>>
     \/ \E s \in Slots : Daemon(s, p) /\ (restart(s, p) \/ give_up(s, p))
  /\ UNCHANGED <<kvmVars, at, build, console, eps, net, step, STORE, ran>>

(* Nothing is runnable: the idle loop, which reads the console itself.          *)
sched_returns ==
  /\ at = "sched" /\ Running = {} /\ ReadyProcs = {}
  /\ at' = "idle"
  /\ UNCHANGED <<kvmVars, build, console, eps, net, step, registry, procs, history>>

idle_poll ==
  /\ at = "idle" /\ rx
  /\ at' = "reset"
  /\ UNCHANGED <<kvmVars, build, console, eps, net, step, registry, procs, history>>

-----------------------------------------------------------------------------
kmain ==
  \/ uart_init \/ kvm_init \/ plic_init \/ init_root_caps
  \/ run_tier2_uart \/ run_tier2_net \/ enable_supervisor_interrupts
  \/ register \/ stage \/ spawn_rejected \/ spawn_no_process \/ spawn_verified
  \/ (\E p \in DOMAIN procs : start_tenant(p))
  \/ sched_returns \/ idle_poll

(* plic::dispatch finds the Ctrl-R, from whatever kmain was doing.              *)
console_interrupt ==
  /\ at # "reset" /\ unmasked /\ routed /\ rx
  /\ at' = "reset"
  /\ UNCHANGED <<kvmVars, build, console, eps, net, step, registry, procs, history>>

Strike ==
  /\ at # "reset" /\ ~rx
  /\ rx' = TRUE
  /\ UNCHANGED <<kvmVars, at, build, routed, unmasked, eps, net, step, registry, procs, history>>

(* A tenant does what it likes, for ever if it likes: it is not preempted.       *)
tenant ==
  \E p \in DOMAIN procs : tenant_blocks(p) \/ tenant_ends(p)

Init ==
  /\ KvmInit
  /\ at = "uart_init" /\ build \in Builds
  /\ routed = FALSE /\ unmasked = FALSE /\ rx \in BOOLEAN
  /\ eps = FALSE /\ net = "none" /\ step = 1
  /\ STORE = [s \in Slots |-> NoBytes] /\ SLOTS = [s \in Slots |-> Free]
  /\ \E pool \in PidPools : /\ procs = [p \in pool |-> NoProc]
                             /\ vetted = [p \in pool |-> NoBytes]
  /\ ran = {}

Next == kmain \/ console_interrupt \/ Strike \/ tenant

(* The hart keeps executing kmain, and takes an interrupt it is delivered.       *)
Spec == Init /\ [][Next]_vars /\ WF_vars(kmain) /\ WF_vars(console_interrupt)

-----------------------------------------------------------------------------
(* Only vetted code runs: the UART driver is signed and declares that it is one,  *)
(* the NIC driver is signed and declares that it is one or declares nothing        *)
(* (loader.rs, "pre-DI-4 binary, soft-allow"; the design has no such exception),   *)
(* and a process of the registry, restarted or not, runs what was verified when     *)
(* it was spawned (INV-13; modreg.rs, "no signature re-check").                   *)
RunsVerified ==
  \A c \in ran :
    CASE c.as = PROC_ID_TIER2_UART -> c.bytes.signed /\ c.bytes.manifest = "uart"
      [] c.as = PROC_ID_TIER2_NET -> c.bytes.signed /\ c.bytes.manifest \in NetKinds
      [] c.as \in DOMAIN vetted -> c.bytes.signed /\ c.bytes = vetted[c.as]
      [] OTHER            -> TRUE

(* A Ctrl-R struck at any moment after the UART's set-up reboots the board, be    *)
(* it in the middle of boot or while a tenant runs for ever; only a boot that      *)
(* halts before interrupts are delivered does not answer (main.rs).              *)
EarlyKeyReboots ==
  (rx /\ at # "uart_init") ~> (at = "reset" \/ (at = "halted" /\ ~unmasked))

=============================================================================
