------------------------------- MODULE BootProofs -------------------------------
(* What boots (Boot): only vetted code is ever instantiated, for every set of    *)
(* images, number of registry slots and pool of process ids; and paging comes on  *)
(* with the tables the memory layout asks for, for every layout and table size.   *)
EXTENDS Boot, FiniteSetTheorems, WellFoundedInduction, TLAPS

-----------------------------------------------------------------------------
(* A set of numbers has its least one.                                         *)
LEMMA LeastNat ==
  ASSUME NEW S \in SUBSET Nat, S # {}
  PROVE  Min(S) \in S /\ \A k \in S : Min(S) <= k
<1> DEFINE Less == {p \in Nat \X Nat : p[1] < p[2]}
<1>1. IsWellFoundedOn(Less, Nat)
  BY NatLessThanWellFounded DEF OpToRel
<1>2. \E m \in S : \A k \in S : ~(<<k, m>> \in Less)
  BY <1>1, WFMin
<1>3. \A a, b \in Nat : <<a, b>> \in Less <=> a < b
  OBVIOUS
<1> HIDE DEF Less
<1>4. PICK m \in S : \A k \in S : ~(<<k, m>> \in Less)
  BY <1>2
<1>5. ASSUME NEW k \in S PROVE m <= k
  <2>1. m \in Nat /\ k \in Nat
    BY <1>4
  <2>2. ~(k < m)
    BY <1>3, <1>4, <1>5, <2>1
  <2> QED
    BY <2>1, <2>2
<1> QED
  BY <1>4, <1>5 DEF Min

-----------------------------------------------------------------------------
(* Only vetted code runs.                                                      *)

Process == [state : {"none", "Ready", "Running", "Blocked", "Ended"},
            slot  : Slots \cup {-1}]

IsLive(s) == SLOTS[s].state = "Live"

Spawned(p) == p \in DOMAIN procs /\ procs[p].state # "none"

(* The ids of the process table, and of those the registry hands out.           *)
PidsOK ==
  /\ DOMAIN vetted \subseteq Nat \ 0 .. 4
  /\ vetted = [p \in DOMAIN vetted |-> vetted[p]]
  /\ DOMAIN procs \subseteq DOMAIN vetted \cup Tenants
  /\ procs \in [DOMAIN procs -> Process]
  /\ \A p \in Tenants \cap DOMAIN procs : Spawned(p)

(* A Live slot still holds what was verified for its process.                   *)
LiveOK ==
  /\ DOMAIN STORE = Slots /\ DOMAIN SLOTS = Slots
  /\ \A s \in Slots : IsLive(s) =>
       /\ SLOTS[s].proc_id \in DOMAIN vetted /\ Spawned(SLOTS[s].proc_id)
       /\ verify(STORE[s]) /\ STORE[s] = vetted[SLOTS[s].proc_id]

(* A process of the registry that may start runs a Live slot's payload.          *)
ReadyOK ==
  \A p \in DOMAIN procs \cap DOMAIN vetted : procs[p].state = "Ready" =>
    /\ procs[p].slot \in Slots /\ IsLive(procs[p].slot)
    /\ STORE[procs[p].slot] = vetted[p]

(* What has run, and that its process id is not handed out again.                *)
RanOK ==
  \A c \in ran :
    /\ c.as = PROC_ID_TIER2_UART => verify(c.bytes) /\ c.bytes.manifest = "uart"
    /\ c.as = PROC_ID_TIER2_NET => verify(c.bytes) /\ c.bytes.manifest \in NetKinds
    /\ c.as \in DOMAIN vetted => /\ verify(c.bytes) /\ c.bytes = vetted[c.as]
                                 /\ Spawned(c.as)

BootInv == PidsOK /\ LiveOK /\ ReadyOK /\ RanOK

(* The positions of the boot processes differ.                               *)
LEMMA Positions == PROC_ID_TIER2_UART = 1 /\ PROC_ID_TIER2_NET = 4 /\ Tenants = {2, 3}
  BY DEF PROC_ID_TIER2_UART, PROC_ID_TIER2_NET, Tenants

(* What ran is told by its position.                                           *)
LEMMA BootInvVerified == BootInv => RunsVerified
<1> SUFFICES ASSUME BootInv, NEW c \in ran
             PROVE  CASE c.as = PROC_ID_TIER2_UART ->
                            c.bytes.signed /\ c.bytes.manifest = "uart"
                      [] c.as = PROC_ID_TIER2_NET ->
                            c.bytes.signed /\ c.bytes.manifest \in NetKinds
                      [] c.as \in DOMAIN vetted -> c.bytes.signed /\ c.bytes = vetted[c.as]
                      [] OTHER -> TRUE
  BY DEF RunsVerified
<1>1. DOMAIN vetted \subseteq Nat \ 0 .. 4
  BY DEF BootInv, PidsOK
<1>2. PROC_ID_TIER2_UART \notin DOMAIN vetted /\ PROC_ID_TIER2_NET \notin DOMAIN vetted
  BY <1>1, Positions
<1> QED
  BY <1>2, Positions DEF BootInv, RanOK, verify

(* Nothing runs yet.                                                         *)
LEMMA BootInvInit == Init => BootInv
<1> SUFFICES ASSUME Init PROVE BootInv
  OBVIOUS
<1>1. PICK pool \in PidPools : procs = [p \in pool |-> NoProc] /\ vetted = [p \in pool |-> NoBytes]
  BY DEF Init
<1>2. pool \subseteq Nat \ 0 .. 4
  BY BootAssumption
<1>3. PidsOK
  <2>1. Tenants \cap pool = {}
    BY <1>2, Positions
  <2>2. NoProc \in Process
    BY DEF NoProc, Process
  <2> QED
    BY <1>1, <1>2, <2>1, <2>2 DEF PidsOK
<1>4. LiveOK /\ RanOK
  BY DEF Init, LiveOK, RanOK, IsLive, Free
<1>5. ReadyOK
  BY <1>1 DEF ReadyOK, NoProc
<1> QED
  BY <1>3, <1>4, <1>5 DEF BootInv

(* Nothing of the invariant moves.                                             *)
LEMMA BootStill ==
  ASSUME BootInv, UNCHANGED <<STORE, SLOTS, procs, ran, vetted>>
  PROVE  BootInv'
<1>1. PidsOK'
  BY DEF BootInv, PidsOK, Spawned
<1>2. LiveOK'
  BY DEF BootInv, LiveOK, IsLive, Spawned
<1>3. ReadyOK'
  BY DEF BootInv, ReadyOK, IsLive
<1>4. RanOK'
  BY DEF BootInv, RanOK, Spawned
<1> QED
  BY <1>1, <1>2, <1>3, <1>4 DEF BootInv

(* A process changes its state, and no spawned one is forgotten.                *)
LEMMA ProcMoves ==
  ASSUME BootInv, NEW p \in DOMAIN procs, NEW st \in {"Running", "Blocked", "Ended"},
         procs' = [procs EXCEPT ![p].state = st], UNCHANGED <<STORE, SLOTS, vetted>>
  PROVE  /\ PidsOK' /\ LiveOK' /\ ReadyOK'
         /\ \A q : Spawned(q) => Spawned(q)'
         /\ Spawned(p)'
<1>1. /\ DOMAIN procs' = DOMAIN procs /\ procs' \in [DOMAIN procs -> Process]
      /\ procs'[p].state = st
      /\ \A q \in DOMAIN procs : q # p => procs'[q] = procs[q]
  BY DEF BootInv, PidsOK, Process
<1>2. (\A q : Spawned(q) => Spawned(q)') /\ Spawned(p)'
  BY <1>1 DEF Spawned
<1>3. PidsOK'
  BY <1>1, <1>2 DEF BootInv, PidsOK
<1>4. LiveOK'
  BY <1>2 DEF BootInv, LiveOK, IsLive
<1>5. ReadyOK'
  BY <1>1 DEF BootInv, ReadyOK, IsLive
<1> QED
  BY <1>2, <1>3, <1>4, <1>5

(* What has run stays accounted for.                                         *)
LEMMA RanKept ==
  ASSUME BootInv, UNCHANGED <<ran, vetted>>, \A q : Spawned(q) => Spawned(q)'
  PROVE  RanOK'
  BY DEF BootInv, RanOK

(* What a driver's load adds to what ran.                                       *)
LEMMA DriverRuns ==
  ASSUME BootInv, UNCHANGED <<STORE, SLOTS, procs, vetted>>, NEW c,
         c.as \in {PROC_ID_TIER2_UART, PROC_ID_TIER2_NET},
         c.as = PROC_ID_TIER2_UART => Instantiates(c.bytes, {"uart"}),
         c.as = PROC_ID_TIER2_NET => Instantiates(c.bytes, NetKinds),
         ran' = ran \/ ran' = ran \cup {c}
  PROVE  BootInv'
<1>1. PidsOK' /\ LiveOK' /\ ReadyOK'
  BY DEF BootInv, PidsOK, LiveOK, ReadyOK, Spawned, IsLive
<1>2. c.as \notin DOMAIN vetted
  <2>1. DOMAIN vetted \subseteq Nat \ 0 .. 4
    BY DEF BootInv, PidsOK
  <2> QED
    BY <2>1, Positions
<1>3. RanOK'
  BY <1>2 DEF BootInv, RanOK, Spawned, Instantiates
<1> QED
  BY <1>1, <1>3 DEF BootInv

-----------------------------------------------------------------------------
(* Step by step.                                                              *)

(* The boot tenants are registered under ids of their own.                   *)
LEMMA RegisterKeeps ==
  ASSUME BootInv, register
  PROVE  BootInv'
<1>1. /\ UNCHANGED <<STORE, SLOTS, ran, vetted>>
      /\ procs' = [p \in Tenants \cup DOMAIN procs |->
                    IF p \in Tenants THEN Ready(-1) ELSE procs[p]]
  BY DEF register, registry, history
<1>2. /\ DOMAIN procs' = Tenants \cup DOMAIN procs
      /\ \A p \in Tenants : procs'[p] = Ready(-1)
      /\ \A p \in DOMAIN procs \ Tenants : procs'[p] = procs[p]
      /\ procs' = [p \in DOMAIN procs' |-> procs'[p]]
  BY <1>1
<1>3. Ready(-1) \in Process /\ Ready(-1).state = "Ready"
  BY DEF Ready, Process
<1>4. \A q : Spawned(q) => Spawned(q)'
  BY <1>2, <1>3 DEF Spawned
<1>5. Tenants \cap DOMAIN vetted = {}
  <2>1. DOMAIN vetted \subseteq Nat \ 0 .. 4
    BY DEF BootInv, PidsOK
  <2> QED
    BY <2>1, Positions
<1>6. PidsOK'
  <2>1. \A p \in DOMAIN procs' : procs'[p] \in Process
    BY <1>2, <1>3 DEF BootInv, PidsOK
  <2>2. procs' \in [DOMAIN procs' -> Process]
    BY <1>2, <2>1
  <2> QED
    BY <1>1, <1>2, <1>3, <2>2 DEF BootInv, PidsOK, Spawned
<1>7. LiveOK'
  BY <1>1, <1>4 DEF BootInv, LiveOK, IsLive
<1>8. ReadyOK'
  BY <1>1, <1>2, <1>5 DEF BootInv, ReadyOK, IsLive
<1>9. RanOK'
  BY <1>1, <1>4, RanKept
<1> QED
  BY <1>6, <1>7, <1>8, <1>9 DEF BootInv

(* Only a slot that is not Live changes, and what it becomes is not Live.        *)
LEMMA SlotKeeps ==
  ASSUME BootInv, UNCHANGED <<procs, ran, vetted>>, NEW s \in Slots, ~IsLive(s),
         NEW b, STORE' = STORE \/ STORE' = [STORE EXCEPT ![s] = b],
         NEW st \in {Free, Staged}, SLOTS' = [SLOTS EXCEPT ![s] = st]
  PROVE  BootInv'
<1>1. /\ DOMAIN STORE' = Slots /\ DOMAIN SLOTS' = Slots
      /\ \A t \in Slots : IsLive(t)' => /\ IsLive(t) /\ t # s
      /\ \A t \in Slots : t # s => SLOTS'[t] = SLOTS[t] /\ STORE'[t] = STORE[t]
  BY DEF BootInv, LiveOK, IsLive, Free, Staged
<1>2. \A t \in Slots : IsLive(t) => IsLive(t)' /\ STORE'[t] = STORE[t]
  BY <1>1 DEF IsLive
<1>3. LiveOK'
  BY <1>1 DEF BootInv, LiveOK, Spawned
<1>4. ReadyOK'
  BY <1>2 DEF BootInv, ReadyOK
<1>5. PidsOK' /\ RanOK'
  BY DEF BootInv, PidsOK, RanOK, Spawned
<1> QED
  BY <1>3, <1>4, <1>5 DEF BootInv

(* A staged payload is in a slot that was free.                              *)
LEMMA StageKeeps ==
  ASSUME BootInv, stage
  PROVE  BootInv'
<1> DEFINE free == {s \in Slots : SLOTS[s].state = "Free"}
<1>1. UNCHANGED <<procs, ran, vetted>>
  BY DEF stage, history
<1>2. CASE free = {}
  BY <1>1, <1>2, BootStill DEF stage, registry
<1>3. CASE free # {}
  <2>1. Min(free) \in free
    BY <1>3, LeastNat DEF Slots
  <2>2. PICK s \in Slots : s = Min(free) /\ ~IsLive(s)
    BY <2>1 DEF IsLive
  <2>3. STORE' = [STORE EXCEPT ![s] = Upload] /\ SLOTS' = [SLOTS EXCEPT ![s] = Staged]
    BY <1>3, <2>2 DEF stage
  <2> QED
    BY <1>1, <2>2, <2>3, SlotKeeps
<1> QED
  BY <1>2, <1>3

(* A refused payload leaves a free slot.                                     *)
LEMMA RejectedKeeps ==
  ASSUME BootInv, spawn_rejected
  PROVE  BootInv'
<1>1. PICK s \in Slots :
        /\ SLOTS[s] = Staged /\ SLOTS' = [SLOTS EXCEPT ![s] = Free]
        /\ UNCHANGED <<STORE, procs, ran, vetted>>
  BY DEF spawn_rejected, history
<1>2. ~IsLive(s)
  BY <1>1 DEF IsLive, Staged
<1> QED
  BY <1>1, <1>2, SlotKeeps

(* The process id that is handed out is one of the registry's, and was not in    *)
(* use.                                                                       *)
LEMMA FreePid ==
  ASSUME BootInv, FreePids # {}
  PROVE  /\ Min(FreePids) \in DOMAIN procs \cap DOMAIN vetted
         /\ ~Spawned(Min(FreePids))
<1>1. ASSUME NEW p \in FreePids
      PROVE  p \in DOMAIN procs \cap DOMAIN vetted /\ ~Spawned(p) /\ p \in Nat
  <2>1. p \in DOMAIN procs /\ ~Spawned(p)
    BY DEF FreePids, Spawned, NoProc
  <2> QED
    BY <2>1 DEF BootInv, PidsOK
<1>2. Min(FreePids) \in FreePids
  BY <1>1, LeastNat
<1> QED
  BY <1>1, <1>2

(* A process id is given to a slot whose payload has been verified: at its        *)
(* first spawn, or earlier for a restart.                                       *)
LEMMA NewProcess ==
  ASSUME BootInv, NEW pid \in DOMAIN procs \cap DOMAIN vetted, ~Spawned(pid),
         NEW s \in Slots, NEW d, NEW n,
         SLOTS' = [SLOTS EXCEPT ![s] = Live(pid, d, n)],
         verify(STORE[s]),
         vetted' = [vetted EXCEPT ![pid] = STORE[s]],
         procs'[pid] = Ready(s), procs' \in [DOMAIN procs -> Process],
         \A q \in DOMAIN procs : procs'[q].state = "Ready" /\ q # pid => procs'[q] = procs[q],
         \A q : Spawned(q) => Spawned(q)',
         UNCHANGED <<STORE, ran>>
  PROVE  BootInv'
<1>1. /\ DOMAIN vetted' = DOMAIN vetted /\ vetted'[pid] = STORE[s]
      /\ \A q \in DOMAIN vetted : q # pid => vetted'[q] = vetted[q]
      /\ vetted' = [p \in DOMAIN vetted |-> vetted'[p]]
      /\ DOMAIN procs' = DOMAIN procs
  BY DEF BootInv, PidsOK
<1>2. /\ DOMAIN SLOTS' = Slots /\ DOMAIN STORE' = Slots
      /\ SLOTS'[s] = Live(pid, d, n) /\ SLOTS'[s].proc_id = pid /\ IsLive(s)'
      /\ \A t \in Slots : t # s => SLOTS'[t] = SLOTS[t]
  BY DEF BootInv, LiveOK, IsLive, Live
<1>3. Spawned(pid)'
  BY <1>1 DEF Spawned, Ready
<1>4. PidsOK'
  BY <1>1 DEF BootInv, PidsOK
<1>5. LiveOK'
  <2>1. ASSUME NEW t \in Slots, t # s, IsLive(t)'
        PROVE  /\ SLOTS'[t].proc_id \in DOMAIN vetted /\ Spawned(SLOTS[t].proc_id)'
               /\ SLOTS'[t].proc_id # pid
               /\ verify(STORE[t]) /\ STORE[t] = vetted[SLOTS'[t].proc_id]
    <3>1. SLOTS'[t] = SLOTS[t] /\ IsLive(t)
      BY <1>2, <2>1 DEF IsLive
    <3>2. PICK q : q = SLOTS[t].proc_id
      OBVIOUS
    <3>3. q \in DOMAIN vetted /\ Spawned(q) /\ verify(STORE[t]) /\ STORE[t] = vetted[q]
      BY <3>1, <3>2 DEF BootInv, LiveOK
    <3>4. Spawned(q)' /\ q # pid
      BY <3>3
    <3> QED
      BY <3>1, <3>2, <3>3, <3>4 DEF Spawned
  <2>2. ASSUME NEW t \in Slots, IsLive(t)'
        PROVE  /\ SLOTS'[t].proc_id \in DOMAIN vetted' /\ Spawned(SLOTS[t].proc_id)'
               /\ verify(STORE'[t]) /\ STORE'[t] = vetted'[SLOTS'[t].proc_id]
    <3>1. CASE t = s
      BY <1>1, <1>2, <1>3, <3>1 DEF Spawned
    <3>2. CASE t # s
      BY <1>1, <2>1, <2>2, <3>2
    <3> QED
      BY <3>1, <3>2
  <2> QED
    BY <1>2, <2>2 DEF LiveOK, verify
<1>6. ReadyOK'
  <2>1. \A t \in Slots : IsLive(t) => IsLive(t)'
    BY <1>2 DEF IsLive
  <2>2. ASSUME NEW p \in DOMAIN procs \cap DOMAIN vetted, procs'[p].state = "Ready", p # pid
        PROVE  /\ procs'[p].slot \in Slots /\ IsLive(procs[p].slot)'
               /\ STORE[procs'[p].slot] = vetted'[p]
    <3>1. procs'[p] = procs[p] /\ vetted'[p] = vetted[p]
      BY <1>1, <2>2
    <3>2. procs[p].slot \in Slots /\ IsLive(procs[p].slot) /\ STORE[procs[p].slot] = vetted[p]
      BY <2>2, <3>1 DEF BootInv, ReadyOK
    <3>3. IsLive(procs[p].slot)'
      BY <2>1, <3>1, <3>2 DEF IsLive
    <3> QED
      BY <3>1, <3>2, <3>3
  <2>3. procs'[pid].slot = s
    BY DEF Ready
  <2> QED
    BY <1>1, <1>2, <2>2, <2>3 DEF ReadyOK
<1>7. RanOK'
  BY <1>1 DEF BootInv, RanOK
<1> QED
  BY <1>4, <1>5, <1>6, <1>7 DEF BootInv

(* A payload is spawned once its signature and manifest hold.                *)
LEMMA SpawnKeeps ==
  ASSUME BootInv, spawn_verified
  PROVE  BootInv'
<1>1. PICK s \in Slots :
        /\ verify(STORE[s]) /\ FreePids # {}
        /\ procs' = [procs EXCEPT ![Min(FreePids)] = Ready(s)]
        /\ SLOTS' = [SLOTS EXCEPT ![s] = Live(Min(FreePids), Script[step].budget > 0,
                                             Script[step].budget)]
        /\ vetted' = [vetted EXCEPT ![Min(FreePids)] = STORE[s]]
        /\ UNCHANGED <<STORE, ran>>
  BY DEF spawn_verified
<1>2. PICK pid \in DOMAIN procs \cap DOMAIN vetted : pid = Min(FreePids) /\ ~Spawned(pid)
  BY <1>1, FreePid
<1>3. PICK d, n : SLOTS' = [SLOTS EXCEPT ![s] = Live(pid, d, n)]
  BY <1>1, <1>2
<1>4. Ready(s) \in Process
  BY DEF Ready, Process
<1>5. /\ procs' = [procs EXCEPT ![pid] = Ready(s)] /\ procs'[pid] = Ready(s)
      /\ \A q \in DOMAIN procs : q # pid => procs'[q] = procs[q]
      /\ DOMAIN procs' = DOMAIN procs
      /\ procs' \in [DOMAIN procs -> Process]
  BY <1>1, <1>2, <1>4 DEF BootInv, PidsOK
<1>6. \A q : Spawned(q) => Spawned(q)'
  BY <1>2, <1>5 DEF Spawned
<1>7. /\ SLOTS' = [SLOTS EXCEPT ![s] = Live(pid, d, n)] /\ verify(STORE[s])
      /\ vetted' = [vetted EXCEPT ![pid] = STORE[s]] /\ UNCHANGED <<STORE, ran>>
  BY <1>1, <1>2, <1>3
<1> QED
  BY <1>2, <1>5, <1>6, <1>7, NewProcess

(* What starts is what was vetted.                                           *)
LEMMA StartKeeps ==
  ASSUME BootInv, NEW p \in DOMAIN procs, start_tenant(p)
  PROVE  BootInv'
<1>1. /\ procs[p].state = "Ready" /\ procs' = [procs EXCEPT ![p].state = "Running"]
      /\ ran' = ran \cup {[as |-> p, bytes |-> blob_for(p)]}
      /\ UNCHANGED <<STORE, SLOTS, vetted>>
  BY DEF start_tenant, ReadyProcs, registry
<1>2. PidsOK' /\ LiveOK' /\ ReadyOK' /\ (\A q : Spawned(q) => Spawned(q)') /\ Spawned(p)'
  BY <1>1, ProcMoves
<1>3. p \in DOMAIN vetted \/ p \in Tenants
  BY DEF BootInv, PidsOK
<1>4. DOMAIN vetted \subseteq Nat \ 0 .. 4
  BY DEF BootInv, PidsOK
<1>5. p # PROC_ID_TIER2_UART /\ p # PROC_ID_TIER2_NET /\ (p \in Tenants => p \notin DOMAIN vetted)
  BY <1>3, <1>4, Positions
<1>6. p \in DOMAIN vetted => verify(blob_for(p)) /\ blob_for(p) = vetted[p]
  <2> SUFFICES ASSUME p \in DOMAIN vetted PROVE verify(blob_for(p)) /\ blob_for(p) = vetted[p]
    OBVIOUS
  <2>1. PICK s \in Slots : s = procs[p].slot /\ IsLive(s) /\ STORE[s] = vetted[p]
    BY <1>1 DEF BootInv, ReadyOK
  <2>2. verify(STORE[s])
    BY <2>1 DEF BootInv, LiveOK
  <2>3. blob_for(p) = STORE[s]
    BY <1>5, <2>1 DEF blob_for, payload, IsLive
  <2> QED
    BY <2>1, <2>2, <2>3
<1>7. RanOK'
  BY <1>1, <1>2, <1>5, <1>6 DEF BootInv, RanOK
<1> QED
  BY <1>2, <1>7 DEF BootInv

(* A restart keeps the payload of its slot.                                  *)
LEMMA EndsKeeps ==
  ASSUME BootInv, NEW p \in DOMAIN procs, tenant_ends(p)
  PROVE  BootInv'
<1>1. p \in Running /\ Spawned(p) /\ UNCHANGED <<STORE, ran>>
  BY DEF tenant_ends, Running, Spawned
<1>2. CASE /\ \A s \in Slots : ~Daemon(s, p)
           /\ procs' = [procs EXCEPT ![p].state = "Ended"]
           /\ UNCHANGED <<SLOTS, vetted>>
  BY <1>1, <1>2, ProcMoves, RanKept DEF BootInv
<1>3. ASSUME NEW s \in Slots, Daemon(s, p), restart(s, p)
      PROVE  BootInv'
  <2>1. PICK pid \in DOMAIN procs \cap DOMAIN vetted : pid = Min(FreePids) /\ ~Spawned(pid)
    BY <1>3, FreePid DEF restart
  <2>2. /\ procs' = [procs EXCEPT ![p].state = "Ended", ![pid] = Ready(s)]
        /\ vetted' = [vetted EXCEPT ![pid] = vetted[p]]
    BY <1>3, <2>1 DEF restart
  <2>3. PICK d, n : SLOTS' = [SLOTS EXCEPT ![s] = Live(pid, d, n)]
    BY <1>3, <2>1 DEF restart
  <2>4. verify(STORE[s]) /\ STORE[s] = vetted[p]
    BY <1>3 DEF Daemon, BootInv, LiveOK, IsLive
  <2>5. Ready(s) \in Process /\ p # pid
    BY <1>1, <2>1 DEF Ready, Process
  <2>6. /\ DOMAIN procs' = DOMAIN procs /\ procs'[pid] = Ready(s)
        /\ procs'[p].state = "Ended"
        /\ \A q \in DOMAIN procs : q # p /\ q # pid => procs'[q] = procs[q]
        /\ procs' \in [DOMAIN procs -> Process]
    BY <2>2, <2>5 DEF BootInv, PidsOK, Process
  <2>7. \A q : Spawned(q) => Spawned(q)'
    BY <2>1, <2>6 DEF Spawned
  <2>8. \A q \in DOMAIN procs : procs'[q].state = "Ready" /\ q # pid => procs'[q] = procs[q]
    BY <2>6
  <2> QED
    BY <1>1, <2>1, <2>2, <2>3, <2>4, <2>6, <2>7, <2>8, NewProcess
<1>4. ASSUME NEW s \in Slots, Daemon(s, p), give_up(s, p)
      PROVE  BootInv'
  <2>1. /\ procs' = [procs EXCEPT ![p].state = "Ended"]
        /\ SLOTS' = [SLOTS EXCEPT ![s] = Live(p, FALSE, 0)] /\ UNCHANGED vetted
    BY <1>4 DEF give_up
  <2>2. /\ DOMAIN procs' = DOMAIN procs /\ procs' \in [DOMAIN procs -> Process]
        /\ procs'[p].state = "Ended"
        /\ \A q \in DOMAIN procs : q # p => procs'[q] = procs[q]
    BY <2>1 DEF BootInv, PidsOK, Process
  <2>3. \A q : Spawned(q) => Spawned(q)'
    BY <2>2 DEF Spawned
  <2>4. /\ DOMAIN SLOTS' = Slots
        /\ \A t \in Slots : IsLive(t)' <=> IsLive(t)
        /\ \A t \in Slots : IsLive(t) => SLOTS'[t].proc_id = SLOTS[t].proc_id
    BY <1>4, <2>1 DEF BootInv, LiveOK, IsLive, Daemon, Live
  <2>5. LiveOK'
    <3>1. ASSUME NEW t \in Slots, IsLive(t)'
          PROVE  /\ SLOTS'[t].proc_id \in DOMAIN vetted /\ Spawned(SLOTS[t].proc_id)'
                 /\ verify(STORE[t]) /\ STORE[t] = vetted[SLOTS'[t].proc_id]
      <4>1. PICK q : q = SLOTS[t].proc_id
        OBVIOUS
      <4>2. q \in DOMAIN vetted /\ Spawned(q) /\ verify(STORE[t]) /\ STORE[t] = vetted[q]
        BY <2>4, <3>1, <4>1 DEF BootInv, LiveOK
      <4>3. Spawned(q)' /\ SLOTS'[t].proc_id = q
        BY <2>3, <2>4, <3>1, <4>1, <4>2
      <4> QED
        BY <4>2, <4>3 DEF Spawned
    <3>2. DOMAIN STORE' = Slots /\ STORE' = STORE /\ vetted' = vetted
      BY <1>1, <2>1 DEF BootInv, LiveOK
    <3>3. ASSUME NEW t \in Slots, IsLive(t)'
          PROVE  /\ SLOTS'[t].proc_id \in DOMAIN vetted' /\ Spawned(SLOTS[t].proc_id)'
                 /\ verify(STORE'[t]) /\ STORE'[t] = vetted'[SLOTS'[t].proc_id]
      BY <3>1, <3>2, <3>3
    <3>4. DOMAIN STORE' = Slots /\ DOMAIN SLOTS' = Slots
      BY <2>4, <3>2
    <3> QED
      BY <3>3, <3>4 DEF LiveOK, Spawned, IsLive
  <2>6. ReadyOK'
    <3>1. ASSUME NEW q \in DOMAIN procs \cap DOMAIN vetted, procs'[q].state = "Ready"
          PROVE  /\ procs'[q].slot \in Slots /\ IsLive(procs[q].slot)'
                 /\ procs'[q] = procs[q] /\ STORE[procs'[q].slot] = vetted[q]
      <4>1. procs'[q] = procs[q]
        BY <2>2, <3>1
      <4>2. procs[q].slot \in Slots /\ IsLive(procs[q].slot) /\ STORE[procs[q].slot] = vetted[q]
        BY <3>1, <4>1 DEF BootInv, ReadyOK
      <4>3. IsLive(procs[q].slot)'
        BY <2>4, <4>1, <4>2 DEF IsLive
      <4> QED
        BY <4>1, <4>2, <4>3
    <3>2. STORE' = STORE /\ vetted' = vetted /\ DOMAIN procs' = DOMAIN procs
      BY <1>1, <2>1, <2>2
    <3> QED
      BY <3>1, <3>2 DEF ReadyOK, IsLive
  <2>7. PidsOK'
    BY <2>1, <2>2, <2>3 DEF BootInv, PidsOK
  <2>8. RanOK'
    BY <1>1, <2>1, <2>3, RanKept
  <2> QED
    BY <2>5, <2>6, <2>7, <2>8 DEF BootInv
<1> QED
  BY <1>2, <1>3, <1>4 DEF tenant_ends

(* Every step keeps the invariant.                                           *)
LEMMA BootInvStep == BootInv /\ [Next]_vars => BootInv'
<1> SUFFICES ASSUME BootInv, [Next]_vars PROVE BootInv'
  OBVIOUS
<1>1. CASE run_tier2_uart
  <2>1. PICK c : c = [as |-> PROC_ID_TIER2_UART, bytes |-> build.uart]
    OBVIOUS
  <2>2. /\ c.as = PROC_ID_TIER2_UART /\ c.bytes = build.uart
        /\ PROC_ID_TIER2_UART # PROC_ID_TIER2_NET
        /\ UNCHANGED <<STORE, SLOTS, procs, vetted>>
        /\ ran' = ran \cup IF Instantiates(c.bytes, {"uart"}) THEN {c} ELSE {}
    BY <1>1, <2>1, Positions DEF run_tier2_uart, registry
  <2>3. ran' = ran \/ (Instantiates(c.bytes, {"uart"}) /\ ran' = ran \cup {c})
    BY <2>2
  <2>4. CASE ran' = ran
    BY <2>2, <2>4, BootStill
  <2>5. CASE Instantiates(c.bytes, {"uart"}) /\ ran' = ran \cup {c}
    BY <2>2, <2>5, DriverRuns
  <2> QED
    BY <2>3, <2>4, <2>5
<1>2. CASE run_tier2_net
  <2>1. PICK c : c = [as |-> PROC_ID_TIER2_NET, bytes |-> build.net]
    OBVIOUS
  <2>2. /\ c.as = PROC_ID_TIER2_NET /\ c.bytes = build.net
        /\ PROC_ID_TIER2_NET # PROC_ID_TIER2_UART
        /\ UNCHANGED <<STORE, SLOTS, procs, vetted>>
        /\ ran' = ran \cup IF Instantiates(c.bytes, NetKinds) THEN {c} ELSE {}
    BY <1>2, <2>1, Positions DEF run_tier2_net, registry
  <2>3. ran' = ran \/ (Instantiates(c.bytes, NetKinds) /\ ran' = ran \cup {c})
    BY <2>2
  <2>4. CASE ran' = ran
    BY <2>2, <2>4, BootStill
  <2>5. CASE Instantiates(c.bytes, NetKinds) /\ ran' = ran \cup {c}
    BY <2>2, <2>5, DriverRuns
  <2> QED
    BY <2>3, <2>4, <2>5
<1>3. CASE register
  BY <1>3, RegisterKeeps
<1>4. CASE stage
  BY <1>4, StageKeeps
<1>5. CASE spawn_rejected
  BY <1>5, RejectedKeeps
<1>6. CASE spawn_verified
  BY <1>6, SpawnKeeps
<1>7. CASE \E p \in DOMAIN procs : start_tenant(p)
  BY <1>7, StartKeeps
<1>8. CASE tenant
  <2>1. ASSUME NEW p \in DOMAIN procs, tenant_blocks(p)
        PROVE  BootInv'
    BY <2>1, ProcMoves, RanKept DEF tenant_blocks, registry, history, BootInv
  <2> QED
    BY <1>8, <2>1, EndsKeeps DEF tenant
<1>9. CASE \/ uart_init \/ kvm_init \/ plic_init \/ init_root_caps
           \/ enable_supervisor_interrupts \/ spawn_no_process \/ sched_returns \/ idle_poll
           \/ console_interrupt \/ Strike \/ UNCHANGED vars
  <2>1. UNCHANGED <<STORE, SLOTS, procs, ran, vetted>>
    BY <1>9 DEF uart_init, kvm_init, plic_init, init_root_caps, enable_supervisor_interrupts,
                spawn_no_process, sched_returns, idle_poll, console_interrupt, Strike, vars,
                registry, history
  <2> QED
    BY <2>1, BootStill
<1> QED
  BY <1>1, <1>2, <1>3, <1>4, <1>5, <1>6, <1>7, <1>8, <1>9 DEF Next, kmain

(* Whatever the images, the staged uploads and the restarts: what is              *)
(* instantiated was signed, as a UART driver only with that manifest and as a NIC  *)
(* driver with its own or with none, and a restart runs what its slot's first spawn *)
(* verified (loader.rs, INV-13; modreg.rs, spawn_inner and on_tenant_terminated). *)
THEOREM OnlyVettedRuns == Spec => []RunsVerified
  BY BootInvInit, BootInvStep, BootInvVerified, PTL DEF Spec

-----------------------------------------------------------------------------
(* The page tables.                                                          *)

LayoutOK == layout.heap.first \in Nat /\ layout.heap.end \in Nat

Idx   == 0 .. PtEntries - 1
Entry == [valid : BOOLEAN, flags : Access, page : Int]

(* A memory f of frames read as a tree of tables from its root r on: the table *)
(* below slot i of the root, and the one below slot j of that.                *)
Mid(f, r, i)       == f[r][i].page
HasMid(f, r, i)    == f[r][i].valid
Low(f, r, i, j)    == f[Mid(f, r, i)][j].page
HasLow(f, r, i, j) == HasMid(f, r, i) /\ f[Mid(f, r, i)][j].valid

(* Each slot of the upper two levels is empty or leads to a table of its own,  *)
(* and the lowest level holds leaves.                                        *)
BranchOrNone(b, r, e) == e = Invalid \/ (e = Branch(e.page) /\ e.page \in b \ {r})

MidsDiffer(f, r) ==
  \A i, k \in Idx : HasMid(f, r, i) /\ HasMid(f, r, k) /\ Mid(f, r, i) = Mid(f, r, k)
                       => i = k

LevelsDiffer(f, r) ==
  \A k, l, i \in Idx : HasMid(f, r, i) /\ HasLow(f, r, k, l)
                          => Mid(f, r, i) # Low(f, r, k, l)

LowsDiffer(f, r) ==
  \A i, j, k, l \in Idx : /\ HasLow(f, r, i, j) /\ HasLow(f, r, k, l)
                           /\ Low(f, r, i, j) = Low(f, r, k, l)
                             => i = k /\ j = l

LeavesLast(f, r) ==
  \A i, j, n \in Idx : HasLow(f, r, i, j) =>
    f[Low(f, r, i, j)][n] = Invalid \/ IsLeaf(f[Low(f, r, i, j)][n])

Tree(b, f, r) ==
  /\ b \subseteq Pool /\ f \in [Pool -> [Idx -> Entry]] /\ r \in b
  /\ \A i \in Idx : BranchOrNone(b, r, f[r][i])
  /\ \A i, j \in Idx : HasMid(f, r, i) => BranchOrNone(b, r, f[Mid(f, r, i)][j])
  /\ MidsDiffer(f, r) /\ LevelsDiffer(f, r) /\ LowsDiffer(f, r) /\ LeavesLast(f, r)

(* What the walk over that tree ends at.                                     *)
LookUp(f, r, i, j, n) ==
  IF HasLow(f, r, i, j) THEN f[Low(f, r, i, j)][n] ELSE Invalid

LEMMA Entries ==
  /\ Invalid \in Entry /\ Invalid.valid = FALSE
  /\ \A t \in Int : Branch(t) \in Entry /\ Branch(t).valid /\ Branch(t).page = t
                    /\ Branch(t) # Invalid
  /\ \A p \in Int, flags \in Access \ {{}} :
       /\ Pte(p, flags) \in Entry /\ Pte(p, flags).valid /\ IsLeaf(Pte(p, flags))
       /\ Pte(p, flags) # Invalid
  /\ Zeroed \in [Idx -> Entry] /\ \A i \in Idx : Zeroed[i] = Invalid
BY DEF Entry, Invalid, Branch, Pte, IsLeaf, Access, Zeroed, Idx

(* The tables below the root are frames handed out, and no two of them are one. *)
LEMMA MidTables ==
  ASSUME NEW b, NEW f, NEW r, Tree(b, f, r), NEW i \in Idx, HasMid(f, r, i)
  PROVE  /\ Mid(f, r, i) \in b /\ Mid(f, r, i) # r
         /\ b \subseteq Pool
         /\ \A k \in Idx : HasMid(f, r, k) /\ Mid(f, r, i) = Mid(f, r, k) => i = k
         /\ \A k, l \in Idx : HasLow(f, r, k, l) => Mid(f, r, i) # Low(f, r, k, l)
         /\ \A j \in Idx : BranchOrNone(b, r, f[Mid(f, r, i)][j])
BY Entries DEF Tree, BranchOrNone, HasMid, Mid, MidsDiffer, LevelsDiffer

LEMMA LowTables ==
  ASSUME NEW b, NEW f, NEW r, Tree(b, f, r), NEW i \in Idx, NEW j \in Idx,
         HasLow(f, r, i, j)
  PROVE  /\ Low(f, r, i, j) \in b /\ Low(f, r, i, j) # r
         /\ b \subseteq Pool /\ HasMid(f, r, i)
         /\ \A k, l \in Idx : HasLow(f, r, k, l) /\ Low(f, r, i, j) = Low(f, r, k, l)
                               => i = k /\ j = l
         /\ \A n \in Idx : \/ f[Low(f, r, i, j)][n] = Invalid
                            \/ IsLeaf(f[Low(f, r, i, j)][n])
<1>1. HasMid(f, r, i)
  BY DEF HasLow
<1>2. Low(f, r, i, j) \in b /\ Low(f, r, i, j) # r
  BY <1>1, MidTables, Entries DEF BranchOrNone, HasLow, Low
<1> QED
  BY <1>1, <1>2 DEF Tree, LowsDiffer, LeavesLast

(* g is f with one entry written; or with a fresh table hung below an entry.    *)
Wrote(f, g, t, i, e) ==
  /\ g \in [Pool -> [Idx -> Entry]]
  /\ \A u \in Pool \ {t} : g[u] = f[u]
  /\ g[t][i] = e
  /\ \A l \in Idx \ {i} : g[t][l] = f[t][l]

Hung(f, g, t, i, new) ==
  /\ g \in [Pool -> [Idx -> Entry]]
  /\ g[new] = Zeroed
  /\ \A u \in Pool \ {t, new} : g[u] = f[u]
  /\ g[t][i] = Branch(new)
  /\ \A l \in Idx \ {i} : g[t][l] = f[t][l]

SameLookUps(f, g, r) ==
  \A k, l, n \in Idx : LookUp(g, r, k, l, n) = LookUp(f, r, k, l, n)

(* What is then different: one table, and what it hangs below.                *)
MidMade(b, f, g, r, i, new) ==
  /\ Tree(b, g, r) /\ SameLookUps(f, g, r)
  /\ HasMid(g, r, i) /\ Mid(g, r, i) = new
  /\ \A k \in Idx : k # i => (HasMid(g, r, k) <=> HasMid(f, r, k))
  /\ \A k, l \in Idx : HasLow(g, r, k, l) <=> HasLow(f, r, k, l)

LowMade(b, f, g, r, i, j, new) ==
  /\ Tree(b, g, r) /\ SameLookUps(f, g, r)
  /\ HasLow(g, r, i, j) /\ Low(g, r, i, j) = new
  /\ \A k \in Idx : HasMid(g, r, k) <=> HasMid(f, r, k)
  /\ \A k, l \in Idx : ~(k = i /\ l = j) => (HasLow(g, r, k, l) <=> HasLow(f, r, k, l))

LEMMA Writes ==
  ASSUME NEW f \in [Pool -> [Idx -> Entry]], NEW t \in Pool, NEW i \in Idx, NEW e \in Entry
  PROVE  Wrote(f, [f EXCEPT ![t][i] = e], t, i, e)
BY DEF Wrote

LEMMA Hangs ==
  ASSUME layout.heap.first \in Int, layout.heap.end \in Int,
         NEW f \in [Pool -> [Idx -> Entry]], NEW t \in Pool, NEW i \in Idx,
         NEW new \in Pool, new # t
  PROVE  Hung(f, [[f EXCEPT ![new] = Zeroed] EXCEPT ![t][i] = Branch(new)], t, i, new)
<1>1. Zeroed \in [Idx -> Entry] /\ Branch(new) \in Entry
  BY Entries DEF Pool
<1> QED
  BY <1>1 DEF Hung

(* A new table below an empty slot of the root.                              *)
LEMMA MakeMid ==
  ASSUME LayoutOK, NEW b, NEW f, NEW r, Tree(b, f, r), NEW i \in Idx, ~HasMid(f, r, i),
         NEW new \in Pool, new \notin b, NEW g, Hung(f, g, r, i, new)
  PROVE  MidMade(b \cup {new}, f, g, r, i, new)
<1>1. new \in Int /\ r \in Pool /\ r # new /\ b \subseteq Pool
  BY DEF LayoutOK, Pool, Tree
<1>2. /\ f \in [Pool -> [Idx -> Entry]] /\ g \in [Pool -> [Idx -> Entry]]
      /\ g[new] = Zeroed
      /\ \A t \in Pool \ {r, new} : g[t] = f[t]
      /\ g[r][i] = Branch(new)
      /\ \A k \in Idx \ {i} : g[r][k] = f[r][k]
  BY DEF Tree, Hung
<1>3. \A k \in Idx : k # i => HasMid(g, r, k) = HasMid(f, r, k) /\ Mid(g, r, k) = Mid(f, r, k)
  BY <1>2 DEF HasMid, Mid
<1>4. HasMid(g, r, i) /\ Mid(g, r, i) = new
  BY <1>1, <1>2, Entries DEF HasMid, Mid
<1>5. ASSUME NEW k \in Idx, HasMid(f, r, k)
      PROVE  /\ Mid(f, r, k) \in b /\ Mid(f, r, k) # r /\ Mid(f, r, k) # new
             /\ g[Mid(f, r, k)] = f[Mid(f, r, k)]
  <2>1. Mid(f, r, k) \in b /\ Mid(f, r, k) # r
    BY <1>5, MidTables
  <2> QED
    BY <1>1, <1>2, <2>1
<1>6. \A l \in Idx : ~HasLow(g, r, i, l)
  BY <1>4, <1>2, Entries DEF HasLow
<1>7. \A k, l \in Idx : /\ HasLow(g, r, k, l) <=> HasLow(f, r, k, l)
                        /\ HasLow(f, r, k, l) => k # i /\ Low(g, r, k, l) = Low(f, r, k, l)
  BY <1>3, <1>5, <1>6 DEF HasLow, Low
<1>8. ASSUME NEW k \in Idx, NEW l \in Idx, HasLow(f, r, k, l)
      PROVE  /\ Low(f, r, k, l) \in b /\ Low(f, r, k, l) # r /\ Low(f, r, k, l) # new
             /\ g[Low(f, r, k, l)] = f[Low(f, r, k, l)]
  <2>1. Low(f, r, k, l) \in b /\ Low(f, r, k, l) # r
    BY <1>8, LowTables
  <2> QED
    BY <1>1, <1>2, <2>1
<1>9. Tree(b \cup {new}, g, r)
  <2>1. b \cup {new} \subseteq Pool /\ g \in [Pool -> [Idx -> Entry]] /\ r \in b \cup {new}
    BY <1>1, <1>2 DEF Tree
  <2>2. \A k \in Idx : BranchOrNone(b \cup {new}, r, g[r][k])
    BY <1>1, <1>2, Entries DEF Tree, BranchOrNone
  <2>3. \A k, l \in Idx : HasMid(g, r, k) => BranchOrNone(b \cup {new}, r, g[Mid(g, r, k)][l])
    <3>1. ASSUME NEW l \in Idx PROVE g[Mid(g, r, i)][l] = Invalid
      BY <1>2, <1>4, Entries
    <3>2. ASSUME NEW k \in Idx, NEW l \in Idx, HasMid(f, r, k), k # i
          PROVE  BranchOrNone(b \cup {new}, r, g[Mid(g, r, k)][l])
      <4>1. g[Mid(g, r, k)][l] = f[Mid(f, r, k)][l]
        BY <1>3, <1>5, <3>2
      <4>2. BranchOrNone(b, r, f[Mid(f, r, k)][l])
        BY <3>2 DEF Tree
      <4> QED
        BY <4>1, <4>2 DEF BranchOrNone
    <3>3. ASSUME NEW l \in Idx PROVE BranchOrNone(b \cup {new}, r, g[Mid(g, r, i)][l])
      BY ONLY <3>1, <3>3 DEF BranchOrNone
    <3> QED
      BY <1>3, <3>2, <3>3
  <2>4. MidsDiffer(g, r)
    BY <1>3, <1>4, <1>5, MidTables DEF MidsDiffer
  <2>5. LevelsDiffer(g, r)
    <3> SUFFICES ASSUME NEW k \in Idx, NEW l \in Idx, NEW n \in Idx,
                        HasMid(g, r, n), HasLow(g, r, k, l)
                 PROVE  Mid(g, r, n) # Low(g, r, k, l)
      BY DEF LevelsDiffer
    <3> QED
      BY <1>3, <1>4, <1>7, <1>8, MidTables
  <2>6. LowsDiffer(g, r)
    <3> SUFFICES ASSUME NEW c \in Idx, NEW d \in Idx, NEW k \in Idx, NEW l \in Idx,
                        HasLow(g, r, c, d), HasLow(g, r, k, l),
                        Low(g, r, c, d) = Low(g, r, k, l)
                 PROVE  c = k /\ d = l
      BY DEF LowsDiffer
    <3> QED
      BY <1>7, LowTables
  <2>7. LeavesLast(g, r)
    <3> SUFFICES ASSUME NEW k \in Idx, NEW l \in Idx, NEW n \in Idx, HasLow(g, r, k, l)
                 PROVE  g[Low(g, r, k, l)][n] = Invalid \/ IsLeaf(g[Low(g, r, k, l)][n])
      BY DEF LeavesLast
    <3> QED
      BY <1>7, <1>8, LowTables
  <2> QED
    BY ONLY <2>1, <2>2, <2>3, <2>4, <2>5, <2>6, <2>7 DEF Tree
<1>10. ASSUME NEW k \in Idx, NEW l \in Idx, NEW n \in Idx
       PROVE  LookUp(g, r, k, l, n) = LookUp(f, r, k, l, n)
  <2>1. CASE HasLow(f, r, k, l)
    BY <1>7, <1>8, <2>1 DEF LookUp
  <2>2. CASE ~HasLow(f, r, k, l)
    BY <1>7, <2>2 DEF LookUp
  <2> QED
    BY <2>1, <2>2
<1> QED
  BY <1>3, <1>4, <1>7, <1>9, <1>10 DEF MidMade, SameLookUps

(* A new table below an empty slot of a table of the middle level.             *)
LEMMA MakeLow ==
  ASSUME LayoutOK, NEW b, NEW f, NEW r, Tree(b, f, r), NEW i \in Idx, NEW j \in Idx,
         HasMid(f, r, i), ~HasLow(f, r, i, j),
         NEW new \in Pool, new \notin b, NEW g, Hung(f, g, Mid(f, r, i), j, new)
  PROVE  LowMade(b \cup {new}, f, g, r, i, j, new)
<1> DEFINE t == Mid(f, r, i)
<1>1. /\ new \in Int /\ r \in Pool /\ r # new /\ b \subseteq Pool
      /\ t \in Pool /\ t # new /\ t # r
  <2>1. b \subseteq Pool /\ r \in b
    BY DEF Tree
  <2> QED
    BY <2>1, MidTables DEF LayoutOK, Pool
<1>2. /\ f \in [Pool -> [Idx -> Entry]] /\ g \in [Pool -> [Idx -> Entry]]
      /\ g[new] = Zeroed
      /\ \A u \in Pool \ {t, new} : g[u] = f[u]
      /\ g[t][j] = Branch(new)
      /\ \A l \in Idx \ {j} : g[t][l] = f[t][l]
  BY DEF Tree, Hung
<1>3. \A k \in Idx : HasMid(g, r, k) = HasMid(f, r, k) /\ Mid(g, r, k) = Mid(f, r, k)
  BY <1>1, <1>2 DEF HasMid, Mid
<1>4. ASSUME NEW k \in Idx, k # i, HasMid(f, r, k)
      PROVE  /\ Mid(f, r, k) \in b /\ Mid(f, r, k) # r /\ Mid(f, r, k) # new
             /\ Mid(f, r, k) # t /\ g[Mid(f, r, k)] = f[Mid(f, r, k)]
  <2>1. Mid(f, r, k) \in b /\ Mid(f, r, k) # r /\ Mid(f, r, k) # t
    BY <1>4, MidTables
  <2> QED
    BY <1>1, <1>2, <2>1
<1>5. HasLow(g, r, i, j) /\ Low(g, r, i, j) = new
  BY <1>1, <1>2, <1>3, Entries DEF HasLow, Low
<1>6. \A k, l \in Idx : ~(k = i /\ l = j) =>
        /\ HasLow(g, r, k, l) <=> HasLow(f, r, k, l)
        /\ HasLow(f, r, k, l) => Low(g, r, k, l) = Low(f, r, k, l)
  <2>1. \A l \in Idx : l # j => /\ HasLow(g, r, i, l) <=> HasLow(f, r, i, l)
                                /\ Low(g, r, i, l) = Low(f, r, i, l)
    BY <1>1, <1>2, <1>3 DEF HasLow, Low
  <2>2. \A k, l \in Idx : k # i => /\ HasLow(g, r, k, l) <=> HasLow(f, r, k, l)
                                   /\ HasLow(f, r, k, l) => Low(g, r, k, l) = Low(f, r, k, l)
    BY <1>3, <1>4 DEF HasLow, Low
  <2> QED
    BY <2>1, <2>2
<1>7. ASSUME NEW k \in Idx, NEW l \in Idx, HasLow(f, r, k, l)
      PROVE  /\ Low(f, r, k, l) \in b /\ Low(f, r, k, l) # r /\ Low(f, r, k, l) # new
             /\ Low(f, r, k, l) # t /\ g[Low(f, r, k, l)] = f[Low(f, r, k, l)]
  <2>1. Low(f, r, k, l) \in b /\ Low(f, r, k, l) # r
    BY <1>7, LowTables
  <2>2. Low(f, r, k, l) # t
    BY <1>7, MidTables
  <2> QED
    BY <1>1, <1>2, <2>1, <2>2
<1>8. Tree(b \cup {new}, g, r)
  <2>1. b \cup {new} \subseteq Pool /\ g \in [Pool -> [Idx -> Entry]] /\ r \in b \cup {new}
    BY <1>1, <1>2 DEF Tree
  <2>2. \A k \in Idx : BranchOrNone(b \cup {new}, r, g[r][k])
    BY <1>1, <1>2 DEF Tree, BranchOrNone
  <2>3. \A k, l \in Idx : HasMid(g, r, k) => BranchOrNone(b \cup {new}, r, g[Mid(g, r, k)][l])
    <3>1. BranchOrNone(b \cup {new}, r, g[t][j])
      BY <1>1, <1>2, Entries DEF BranchOrNone
    <3>2. ASSUME NEW l \in Idx, l # j PROVE BranchOrNone(b \cup {new}, r, g[t][l])
      BY <1>2, <3>2, MidTables DEF BranchOrNone
    <3>3. ASSUME NEW k \in Idx, NEW l \in Idx, HasMid(f, r, k), k # i
          PROVE  BranchOrNone(b \cup {new}, r, g[Mid(f, r, k)][l])
      BY <1>4, <3>3, MidTables DEF BranchOrNone
    <3> QED
      BY <1>3, <3>1, <3>2, <3>3
  <2>4. MidsDiffer(g, r)
    BY <1>3, MidTables DEF MidsDiffer
  <2>5. LevelsDiffer(g, r)
    <3> SUFFICES ASSUME NEW k \in Idx, NEW l \in Idx, NEW n \in Idx,
                        HasMid(g, r, n), HasLow(g, r, k, l)
                 PROVE  Mid(g, r, n) # Low(g, r, k, l)
      BY DEF LevelsDiffer
    <3>1. Mid(g, r, n) # new
      BY <1>1, <1>3, <1>4
    <3> QED
      BY <1>3, <1>5, <1>6, <3>1, MidTables
  <2>6. LowsDiffer(g, r)
    <3> SUFFICES ASSUME NEW c \in Idx, NEW d \in Idx, NEW k \in Idx, NEW l \in Idx,
                        HasLow(g, r, c, d), HasLow(g, r, k, l),
                        Low(g, r, c, d) = Low(g, r, k, l)
                 PROVE  c = k /\ d = l
      BY DEF LowsDiffer
    <3> QED
      BY <1>5, <1>6, <1>7, LowTables
  <2>7. LeavesLast(g, r)
    <3> SUFFICES ASSUME NEW k \in Idx, NEW l \in Idx, NEW n \in Idx, HasLow(g, r, k, l)
                 PROVE  g[Low(g, r, k, l)][n] = Invalid \/ IsLeaf(g[Low(g, r, k, l)][n])
      BY DEF LeavesLast
    <3> QED
      BY <1>2, <1>5, <1>6, <1>7, LowTables, Entries
  <2> QED
    BY ONLY <2>1, <2>2, <2>3, <2>4, <2>5, <2>6, <2>7 DEF Tree
<1>9. ASSUME NEW k \in Idx, NEW l \in Idx, NEW n \in Idx
      PROVE  LookUp(g, r, k, l, n) = LookUp(f, r, k, l, n)
  <2>1. CASE k = i /\ l = j
    BY <1>2, <1>5, <2>1, Entries DEF LookUp
  <2>2. CASE ~(k = i /\ l = j) /\ HasLow(f, r, k, l)
    BY <1>6, <1>7, <2>2 DEF LookUp
  <2>3. CASE ~(k = i /\ l = j) /\ ~HasLow(f, r, k, l)
    BY <1>6, <2>3 DEF LookUp
  <2> QED
    BY <2>1, <2>2, <2>3
<1> QED
  BY <1>3, <1>5, <1>6, <1>8, <1>9 DEF LowMade, SameLookUps

(* A leaf put into a table of the lowest level.                              *)
LEMMA PutLeaf ==
  ASSUME NEW b, NEW f, NEW r, Tree(b, f, r), NEW i \in Idx, NEW j \in Idx, NEW n \in Idx,
         HasLow(f, r, i, j), NEW p \in Int, NEW flags \in Access \ {{}}, NEW g,
         Wrote(f, g, Low(f, r, i, j), n, Pte(p, flags))
  PROVE  /\ Tree(b, g, r)
         /\ \A k \in Idx : HasMid(g, r, k) <=> HasMid(f, r, k)
         /\ \A k, l \in Idx : HasLow(g, r, k, l) <=> HasLow(f, r, k, l)
         /\ LookUp(g, r, i, j, n) = Pte(p, flags)
         /\ \A k, l, q \in Idx : ~(k = i /\ l = j /\ q = n) =>
              LookUp(g, r, k, l, q) = LookUp(f, r, k, l, q)
<1> DEFINE t == Low(f, r, i, j)
<1>1. /\ r \in Pool /\ b \subseteq Pool /\ t \in Pool /\ t # r
      /\ \A k \in Idx : HasMid(f, r, k) => Mid(f, r, k) # t /\ Mid(f, r, k) \in Pool
  <2>1. b \subseteq Pool /\ r \in b
    BY DEF Tree
  <2> QED
    BY <2>1, MidTables, LowTables
<1>2. /\ f \in [Pool -> [Idx -> Entry]] /\ g \in [Pool -> [Idx -> Entry]]
      /\ \A u \in Pool \ {t} : g[u] = f[u]
      /\ g[t][n] = Pte(p, flags)
      /\ \A l \in Idx \ {n} : g[t][l] = f[t][l]
  BY DEF Tree, Wrote
<1>3. \A k \in Idx : HasMid(g, r, k) = HasMid(f, r, k) /\ Mid(g, r, k) = Mid(f, r, k)
  BY <1>1, <1>2 DEF HasMid, Mid
<1>4. \A k \in Idx : HasMid(f, r, k) => g[Mid(f, r, k)] = f[Mid(f, r, k)]
  BY <1>1, <1>2
<1>5. \A k, l \in Idx : /\ HasLow(g, r, k, l) <=> HasLow(f, r, k, l)
                        /\ HasLow(f, r, k, l) => Low(g, r, k, l) = Low(f, r, k, l)
  BY <1>3, <1>4 DEF HasLow, Low
<1>6. ASSUME NEW k \in Idx, NEW l \in Idx, HasLow(f, r, k, l), ~(k = i /\ l = j)
      PROVE  /\ Low(f, r, k, l) \in Pool /\ Low(f, r, k, l) # t
             /\ g[Low(f, r, k, l)] = f[Low(f, r, k, l)]
  BY <1>2, <1>6, LowTables
<1>7. Tree(b, g, r)
  <2>1. b \subseteq Pool /\ g \in [Pool -> [Idx -> Entry]] /\ r \in b
    BY <1>2 DEF Tree
  <2>2. \A k \in Idx : BranchOrNone(b, r, g[r][k])
    BY <1>1, <1>2 DEF Tree
  <2>3. \A k, l \in Idx : HasMid(g, r, k) => BranchOrNone(b, r, g[Mid(g, r, k)][l])
    BY <1>3, <1>4 DEF Tree
  <2>4. MidsDiffer(g, r)
    BY <1>3 DEF Tree, MidsDiffer
  <2>5. LevelsDiffer(g, r)
    <3> SUFFICES ASSUME NEW k \in Idx, NEW l \in Idx, NEW q \in Idx,
                        HasMid(g, r, q), HasLow(g, r, k, l)
                 PROVE  Mid(g, r, q) # Low(g, r, k, l)
      BY DEF LevelsDiffer
    <3> QED
      BY <1>3, <1>5, MidTables
  <2>6. LowsDiffer(g, r)
    <3> SUFFICES ASSUME NEW c \in Idx, NEW d \in Idx, NEW k \in Idx, NEW l \in Idx,
                        HasLow(g, r, c, d), HasLow(g, r, k, l),
                        Low(g, r, c, d) = Low(g, r, k, l)
                 PROVE  c = k /\ d = l
      BY DEF LowsDiffer
    <3> QED
      BY <1>5, LowTables
  <2>7. LeavesLast(g, r)
    <3> SUFFICES ASSUME NEW k \in Idx, NEW l \in Idx, NEW q \in Idx, HasLow(g, r, k, l)
                 PROVE  g[Low(g, r, k, l)][q] = Invalid \/ IsLeaf(g[Low(g, r, k, l)][q])
      BY DEF LeavesLast
    <3>1. \A u \in Idx : g[t][u] = Invalid \/ IsLeaf(g[t][u])
      BY <1>2, Entries, LowTables
    <3>2. CASE k = i /\ l = j
      BY <1>5, <3>1, <3>2
    <3>3. CASE ~(k = i /\ l = j)
      BY <1>5, <1>6, <3>3, LowTables
    <3> QED
      BY <3>2, <3>3
  <2> QED
    BY ONLY <2>1, <2>2, <2>3, <2>4, <2>5, <2>6, <2>7 DEF Tree
<1>8. LookUp(g, r, i, j, n) = Pte(p, flags)
  BY <1>2, <1>5 DEF LookUp
<1>9. ASSUME NEW k \in Idx, NEW l \in Idx, NEW q \in Idx, ~(k = i /\ l = j /\ q = n)
      PROVE  LookUp(g, r, k, l, q) = LookUp(f, r, k, l, q)
  <2>1. CASE k = i /\ l = j
    BY <1>2, <1>5, <1>9, <2>1 DEF LookUp
  <2>2. CASE ~(k = i /\ l = j) /\ HasLow(f, r, k, l)
    BY <1>5, <1>6, <2>2 DEF LookUp
  <2>3. CASE ~HasLow(f, r, k, l)
    BY <1>5, <2>3 DEF LookUp
  <2> QED
    BY <2>1, <2>2, <2>3
<1> QED
  BY <1>3, <1>5, <1>7, <1>8, <1>9
-----------------------------------------------------------------------------
(* The tables so far: a tree of the tables that some range asks for, in the low *)
(* end of the pool and without a gap.                                        *)
Mids(f, r) == {i \in Idx : HasMid(f, r, i)}
Lows(f, r) == {ij \in Idx \X Idx : HasLow(f, r, ij[1], ij[2])}

AskedMids == {va_parts(p)[1] : p \in AllAsked}
AskedLows == {<<va_parts(p)[1], va_parts(p)[2]>> : p \in AllAsked}

Packed(b) == \A p \in b, q \in Pool : q < p => q \in b

Grown(b, f, r) ==
  /\ Tree(b, f, r) /\ Packed(b)
  /\ Cardinality(b) = 1 + Cardinality(Mids(f, r)) + Cardinality(Lows(f, r))
  /\ Mids(f, r) \subseteq AskedMids /\ Lows(f, r) \subseteq AskedLows

Memories == [bitmap : SUBSET Pool, frame : [Pool -> [Idx -> Entry]], at : Int, ok : BOOLEAN]

LEMMA PoolFinite ==
  ASSUME LayoutOK
  PROVE  /\ Pool \subseteq Nat /\ IsFiniteSet(Pool) /\ IsFiniteSet(Idx)
         /\ IsFiniteSet(Idx \X Idx)
         /\ \A f, r : IsFiniteSet(Mids(f, r)) /\ IsFiniteSet(Lows(f, r))
<1>1. Pool \subseteq Nat /\ IsFiniteSet(Pool)
  <2>1. layout.heap.first \in Int /\ layout.heap.end - 1 \in Int
    BY DEF LayoutOK
  <2>2. IsFiniteSet(layout.heap.first .. layout.heap.end - 1)
    BY <2>1, FS_Interval
  <2> QED
    BY <2>1, <2>2 DEF LayoutOK, Pool
<1>2. IsFiniteSet(Idx)
  <2>1. 0 \in Int /\ PtEntries - 1 \in Int
    BY PageTablesAssumption
  <2> QED
    BY <2>1, FS_Interval DEF Idx
<1>3. IsFiniteSet(Idx \X Idx)
  BY <1>2, FS_Product
<1>4. \A f, r : Mids(f, r) \subseteq Idx /\ Lows(f, r) \subseteq Idx \X Idx
  BY DEF Mids, Lows
<1> QED
  BY <1>1, <1>2, <1>3, <1>4, FS_Subset

(* The allocator takes the lowest free frame, so its frames stay packed.         *)
AllocsOne(m, made, new) ==
  /\ new \in Pool /\ new \notin m.bitmap /\ Packed(m.bitmap \cup {new})
  /\ made \in Memories /\ made.ok /\ made.at = new
  /\ made.bitmap = m.bitmap \cup {new}
  /\ made.frame = [m.frame EXCEPT ![new] = Zeroed]

LEMMA AllocPacked ==
  ASSUME LayoutOK, NEW m \in Memories, Packed(m.bitmap), m.ok
  PROVE  \/ alloc_zeroed_page(m) = [m EXCEPT !.ok = FALSE]
         \/ \E new \in Pool : AllocsOne(m, alloc_zeroed_page(m), new)
<1> DEFINE free == Pool \ m.bitmap
           new  == Min(free)
           made == alloc_zeroed_page(m)
<1>1. CASE free = {}
  BY <1>1 DEF alloc_zeroed_page
<1>2. CASE free # {}
  <2>1. free \subseteq Nat /\ Pool \subseteq Nat
    BY PoolFinite
  <2>2. new \in free /\ \A k \in free : new <= k
    BY <1>2, <2>1, LeastNat
  <2>3. made = [m EXCEPT !.bitmap = @ \cup {new}, !.frame[new] = Zeroed, !.at = new]
    BY <1>2 DEF alloc_zeroed_page
  <2> HIDE DEF new, made
  <2>4. Packed(m.bitmap \cup {new})
    BY <2>1, <2>2 DEF Packed
  <2>5. /\ made.bitmap = m.bitmap \cup {new} /\ made.at = new /\ made.ok
        /\ made.frame = [m.frame EXCEPT ![new] = Zeroed]
    BY <2>3 DEF Memories
  <2>6. [m.frame EXCEPT ![new] = Zeroed] \in [Pool -> [Idx -> Entry]]
    BY <2>2, Entries DEF Memories
  <2>7. made \in Memories
    <3>1. new \in Int /\ m.bitmap \cup {new} \subseteq Pool
      BY <2>1, <2>2 DEF Memories
    <3> QED
      BY <2>3, <2>6, <3>1 DEF Memories
  <2> QED
    BY <2>2, <2>4, <2>5, <2>7 DEF AllocsOne, made
<1> QED
  BY <1>1, <1>2

(* Counting one table more.                                                  *)
LEMMA GrowMid ==
  ASSUME LayoutOK, NEW b, NEW f, NEW r, Grown(b, f, r), NEW i \in Idx, i \in AskedMids,
         ~HasMid(f, r, i), NEW new \in Pool, new \notin b, Packed(b \cup {new}),
         NEW g, Hung(f, g, r, i, new)
  PROVE  /\ Grown(b \cup {new}, g, r) /\ SameLookUps(f, g, r)
         /\ HasMid(g, r, i) /\ Mid(g, r, i) = new
<1>1. Tree(b, f, r) /\ b \subseteq Pool
  BY DEF Grown, Tree
<1>2. MidMade(b \cup {new}, f, g, r, i, new)
  BY <1>1, MakeMid
<1>3. Mids(g, r) = Mids(f, r) \cup {i} /\ i \notin Mids(f, r)
  BY <1>2 DEF Mids, MidMade
<1>4. Lows(g, r) = Lows(f, r)
  BY <1>2 DEF Lows, MidMade
<1>5. IsFiniteSet(b) /\ IsFiniteSet(Mids(f, r)) /\ IsFiniteSet(Lows(f, r))
  BY <1>1, PoolFinite, FS_Subset
<1>6. /\ Cardinality(b \cup {new}) = Cardinality(b) + 1
      /\ Cardinality(Mids(g, r)) = Cardinality(Mids(f, r)) + 1
  BY <1>3, <1>5, FS_AddElement
<1>7. /\ Cardinality(b) \in Nat /\ Cardinality(Mids(f, r)) \in Nat
      /\ Cardinality(Lows(f, r)) \in Nat
  BY <1>5, FS_CardinalityType
<1> QED
  BY <1>2, <1>3, <1>4, <1>6, <1>7 DEF Grown, MidMade

LEMMA GrowLow ==
  ASSUME LayoutOK, NEW b, NEW f, NEW r, Grown(b, f, r), NEW i \in Idx, NEW j \in Idx,
         <<i, j>> \in AskedLows, HasMid(f, r, i), ~HasLow(f, r, i, j),
         NEW new \in Pool, new \notin b, Packed(b \cup {new}),
         NEW g, Hung(f, g, Mid(f, r, i), j, new)
  PROVE  /\ Grown(b \cup {new}, g, r) /\ SameLookUps(f, g, r)
         /\ HasLow(g, r, i, j) /\ Low(g, r, i, j) = new
<1>1. Tree(b, f, r) /\ b \subseteq Pool
  BY DEF Grown, Tree
<1>2. LowMade(b \cup {new}, f, g, r, i, j, new)
  BY <1>1, MakeLow
<1>3. Mids(g, r) = Mids(f, r)
  BY <1>2 DEF Mids, LowMade
<1>4. Lows(g, r) = Lows(f, r) \cup {<<i, j>>} /\ <<i, j>> \notin Lows(f, r)
  BY <1>2 DEF Lows, LowMade
<1>5. IsFiniteSet(b) /\ IsFiniteSet(Mids(f, r)) /\ IsFiniteSet(Lows(f, r))
  BY <1>1, PoolFinite, FS_Subset
<1>6. /\ Cardinality(b \cup {new}) = Cardinality(b) + 1
      /\ Cardinality(Lows(g, r)) = Cardinality(Lows(f, r)) + 1
  BY <1>4, <1>5, FS_AddElement
<1>7. /\ Cardinality(b) \in Nat /\ Cardinality(Mids(f, r)) \in Nat
      /\ Cardinality(Lows(f, r)) \in Nat
  BY <1>5, FS_CardinalityType
<1> QED
  BY <1>2, <1>3, <1>4, <1>6, <1>7 DEF Grown, LowMade

LEMMA GrowLeaf ==
  ASSUME NEW b, NEW f, NEW r, Grown(b, f, r), NEW i \in Idx, NEW j \in Idx, NEW n \in Idx,
         HasLow(f, r, i, j), NEW p \in Int, NEW flags \in Access \ {{}}, NEW g,
         Wrote(f, g, Low(f, r, i, j), n, Pte(p, flags))
  PROVE  /\ Grown(b, g, r)
         /\ LookUp(g, r, i, j, n) = Pte(p, flags)
         /\ \A k, l, q \in Idx : ~(k = i /\ l = j /\ q = n) =>
              LookUp(g, r, k, l, q) = LookUp(f, r, k, l, q)
<1>1. Tree(b, f, r)
  BY DEF Grown
<1>2. /\ Tree(b, g, r)
      /\ \A k \in Idx : HasMid(g, r, k) <=> HasMid(f, r, k)
      /\ \A k, l \in Idx : HasLow(g, r, k, l) <=> HasLow(f, r, k, l)
      /\ LookUp(g, r, i, j, n) = Pte(p, flags)
      /\ \A k, l, q \in Idx : ~(k = i /\ l = j /\ q = n) =>
           LookUp(g, r, k, l, q) = LookUp(f, r, k, l, q)
  BY <1>1, PutLeaf
<1>3. Mids(g, r) = Mids(f, r) /\ Lows(g, r) = Lows(f, r)
  BY <1>2 DEF Mids, Lows
<1> QED
  BY <1>2, <1>3 DEF Grown

-----------------------------------------------------------------------------
(* walk_or_create.                                                            *)
LEMMA WalkCases ==
  ASSUME NEW m \in Memories, NEW i \in Idx, m.ok
  PROVE  /\ IsBranch(m.frame[m.at][i]) =>
              walk_or_create(m, i) = [m EXCEPT !.at = m.frame[m.at][i].page]
         /\ m.frame[m.at][i] = Invalid /\ ~alloc_zeroed_page(m).ok =>
              walk_or_create(m, i) = alloc_zeroed_page(m)
         /\ m.frame[m.at][i] = Invalid /\ alloc_zeroed_page(m).ok =>
              walk_or_create(m, i) =
                [alloc_zeroed_page(m) EXCEPT !.frame[m.at][i] = Branch(alloc_zeroed_page(m).at)]
<1> DEFINE e == m.frame[m.at][i]
<1>1. IsBranch(e) => e.valid /\ ~IsLeaf(e)
  BY DEF IsBranch, IsLeaf
<1>2. e = Invalid => ~e.valid /\ ~IsLeaf(e) /\ ~IsBranch(e)
  BY Entries DEF IsBranch, IsLeaf
<1> HIDE DEF e
<1>3. IsBranch(e) => walk_or_create(m, i) = [m EXCEPT !.at = e.page]
  BY <1>1 DEF walk_or_create, e
<1>4. e = Invalid /\ ~alloc_zeroed_page(m).ok => walk_or_create(m, i) = alloc_zeroed_page(m)
  BY <1>2 DEF walk_or_create, e
<1>5. e = Invalid /\ alloc_zeroed_page(m).ok =>
        walk_or_create(m, i) =
          [alloc_zeroed_page(m) EXCEPT !.frame[m.at][i] = Branch(alloc_zeroed_page(m).at)]
  BY <1>2 DEF walk_or_create, e
<1> QED
  BY <1>3, <1>4, <1>5 DEF e

(* What one step down makes of a missing table.                               *)
LEMMA WalkHangs ==
  ASSUME LayoutOK, NEW m \in Memories, m.ok, m.at \in m.bitmap, NEW i \in Idx,
         m.frame[m.at][i] = Invalid,
         NEW new, AllocsOne(m, alloc_zeroed_page(m), new)
  PROVE  /\ walk_or_create(m, i) \in Memories
         /\ walk_or_create(m, i).bitmap = m.bitmap \cup {new}
         /\ walk_or_create(m, i).at = new
         /\ Hung(m.frame, walk_or_create(m, i).frame, m.at, i, new)
<1> DEFINE made == alloc_zeroed_page(m)
           w    == walk_or_create(m, i)
           g    == [[m.frame EXCEPT ![new] = Zeroed] EXCEPT ![m.at][i] = Branch(new)]
<1>1. w = [made EXCEPT !.frame[m.at][i] = Branch(new)]
  BY WalkCases DEF AllocsOne
<1>2. /\ made \in Memories /\ made.frame = [m.frame EXCEPT ![new] = Zeroed]
      /\ made.bitmap = m.bitmap \cup {new} /\ made.at = new /\ new \in Pool /\ new # m.at
  BY DEF AllocsOne
<1>3. m.frame \in [Pool -> [Idx -> Entry]] /\ m.at \in Pool
  BY DEF Memories
<1>4. Hung(m.frame, g, m.at, i, new)
  <2>1. layout.heap.first \in Int /\ layout.heap.end \in Int
    BY DEF LayoutOK
  <2> QED
    BY <1>2, <1>3, <2>1, Hangs
<1>5. g \in [Pool -> [Idx -> Entry]]
  BY <1>4 DEF Hung
<1> HIDE DEF w, made
<1>6. w.frame = g /\ w.bitmap = m.bitmap \cup {new} /\ w.at = new
  BY <1>1, <1>2 DEF Memories
<1>7. w \in Memories
  BY <1>1, <1>2, <1>5 DEF Memories
<1> QED
  BY <1>4, <1>6, <1>7 DEF w

LEMMA WalkMid ==
  ASSUME LayoutOK, NEW m \in Memories, NEW r, Grown(m.bitmap, m.frame, r), m.ok, m.at = r,
         NEW i \in Idx, i \in AskedMids
  PROVE  /\ walk_or_create(m, i) \in Memories
         /\ Grown(walk_or_create(m, i).bitmap, walk_or_create(m, i).frame, r)
         /\ walk_or_create(m, i).ok =>
              /\ HasMid(walk_or_create(m, i).frame, r, i)
              /\ walk_or_create(m, i).at = Mid(walk_or_create(m, i).frame, r, i)
         /\ SameLookUps(m.frame, walk_or_create(m, i).frame, r)
<1> DEFINE e == m.frame[r][i]
           w == walk_or_create(m, i)
<1>1. Tree(m.bitmap, m.frame, r) /\ r \in m.bitmap /\ Packed(m.bitmap)
  BY DEF Grown, Tree
<1>2. BranchOrNone(m.bitmap, r, e)
  BY <1>1 DEF Tree
<1>3. CASE IsBranch(e)
  <2>1. w = [m EXCEPT !.at = e.page]
    BY <1>3, WalkCases
  <2>2. HasMid(m.frame, r, i) /\ e.page = Mid(m.frame, r, i)
    BY <1>3 DEF IsBranch, HasMid, Mid
  <2>3. e.page \in Int
    BY <1>1, <2>2, MidTables, PoolFinite
  <2> HIDE DEF w
  <2>4. w \in Memories /\ w.bitmap = m.bitmap /\ w.frame = m.frame /\ w.at = e.page
    BY <2>1, <2>3 DEF Memories
  <2> QED
    BY <2>2, <2>4 DEF SameLookUps, w
<1>4. CASE e = Invalid
  <2>1. ~HasMid(m.frame, r, i)
    BY <1>4, Entries DEF HasMid
  <2>2. CASE alloc_zeroed_page(m) = [m EXCEPT !.ok = FALSE]
    <3>1. w = [m EXCEPT !.ok = FALSE]
      BY <1>4, <2>2, WalkCases DEF Memories
    <3> HIDE DEF w
    <3>2. w \in Memories /\ w.bitmap = m.bitmap /\ w.frame = m.frame /\ ~w.ok
      BY <3>1 DEF Memories
    <3> QED
      BY <3>2 DEF SameLookUps, w
  <2>3. ASSUME NEW new \in Pool, AllocsOne(m, alloc_zeroed_page(m), new)
        PROVE  /\ w \in Memories /\ Grown(w.bitmap, w.frame, r)
               /\ HasMid(w.frame, r, i) /\ w.at = Mid(w.frame, r, i)
               /\ SameLookUps(m.frame, w.frame, r)
    <3>1. /\ w \in Memories /\ w.bitmap = m.bitmap \cup {new} /\ w.at = new
          /\ Hung(m.frame, w.frame, r, i, new)
      BY <1>1, <1>4, <2>3, WalkHangs
    <3>2. new \notin m.bitmap /\ Packed(m.bitmap \cup {new})
      BY <2>3 DEF AllocsOne
    <3> HIDE DEF w
    <3>3. /\ Grown(m.bitmap \cup {new}, w.frame, r)
          /\ HasMid(w.frame, r, i) /\ Mid(w.frame, r, i) = new
          /\ SameLookUps(m.frame, w.frame, r)
      BY <2>1, <2>3, <3>1, <3>2, GrowMid
    <3> QED
      BY <3>1, <3>3
  <2> QED
    BY <1>1, <2>2, <2>3, AllocPacked
<1>5. IsBranch(e) \/ e = Invalid
  BY <1>2, Entries DEF BranchOrNone, IsBranch, Branch, Pte
<1> QED
  BY <1>3, <1>4, <1>5

LEMMA WalkLow ==
  ASSUME LayoutOK, NEW m \in Memories, NEW r, Grown(m.bitmap, m.frame, r), m.ok,
         NEW i \in Idx, NEW j \in Idx, <<i, j>> \in AskedLows,
         HasMid(m.frame, r, i), m.at = Mid(m.frame, r, i)
  PROVE  /\ walk_or_create(m, j) \in Memories
         /\ Grown(walk_or_create(m, j).bitmap, walk_or_create(m, j).frame, r)
         /\ walk_or_create(m, j).ok =>
              /\ HasLow(walk_or_create(m, j).frame, r, i, j)
              /\ walk_or_create(m, j).at = Low(walk_or_create(m, j).frame, r, i, j)
         /\ SameLookUps(m.frame, walk_or_create(m, j).frame, r)
<1> DEFINE e == m.frame[m.at][j]
           w == walk_or_create(m, j)
<1>1. Tree(m.bitmap, m.frame, r) /\ Packed(m.bitmap)
  BY DEF Grown
<1>2. m.at \in m.bitmap /\ BranchOrNone(m.bitmap, r, e)
  BY <1>1, MidTables
<1>3. CASE IsBranch(e)
  <2>1. w = [m EXCEPT !.at = e.page]
    BY <1>3, WalkCases
  <2>2. HasLow(m.frame, r, i, j) /\ e.page = Low(m.frame, r, i, j)
    BY <1>3 DEF IsBranch, HasLow, Low
  <2>3. e.page \in Int
    BY <1>1, <2>2, LowTables, PoolFinite
  <2> HIDE DEF w
  <2>4. w \in Memories /\ w.bitmap = m.bitmap /\ w.frame = m.frame /\ w.at = e.page
    BY <2>1, <2>3 DEF Memories
  <2> QED
    BY <2>2, <2>4 DEF SameLookUps, w
<1>4. CASE e = Invalid
  <2>1. ~HasLow(m.frame, r, i, j)
    BY <1>4, Entries DEF HasLow
  <2>2. CASE alloc_zeroed_page(m) = [m EXCEPT !.ok = FALSE]
    <3>1. w = [m EXCEPT !.ok = FALSE]
      BY <1>4, <2>2, WalkCases DEF Memories
    <3> HIDE DEF w
    <3>2. w \in Memories /\ w.bitmap = m.bitmap /\ w.frame = m.frame /\ ~w.ok
      BY <3>1 DEF Memories
    <3> QED
      BY <3>2 DEF SameLookUps, w
  <2>3. ASSUME NEW new \in Pool, AllocsOne(m, alloc_zeroed_page(m), new)
        PROVE  /\ w \in Memories /\ Grown(w.bitmap, w.frame, r)
               /\ HasLow(w.frame, r, i, j) /\ w.at = Low(w.frame, r, i, j)
               /\ SameLookUps(m.frame, w.frame, r)
    <3>1. /\ w \in Memories /\ w.bitmap = m.bitmap \cup {new} /\ w.at = new
          /\ Hung(m.frame, w.frame, Mid(m.frame, r, i), j, new)
      BY <1>2, <1>4, <2>3, WalkHangs
    <3>2. new \notin m.bitmap /\ Packed(m.bitmap \cup {new})
      BY <2>3 DEF AllocsOne
    <3> HIDE DEF w
    <3>3. /\ Grown(m.bitmap \cup {new}, w.frame, r)
          /\ HasLow(w.frame, r, i, j) /\ Low(w.frame, r, i, j) = new
          /\ SameLookUps(m.frame, w.frame, r)
      BY <2>1, <2>3, <3>1, <3>2, GrowLow
    <3> QED
      BY <3>1, <3>3
  <2> QED
    BY <1>1, <2>2, <2>3, AllocPacked
<1>5. IsBranch(e) \/ e = Invalid
  BY <1>2, Entries DEF BranchOrNone, IsBranch, Branch, Pte
<1> QED
  BY <1>3, <1>4, <1>5

-----------------------------------------------------------------------------
(* The three indices of a page are slots, and no two pages share all three.     *)
LEMMA DivMod ==
  ASSUME NEW e \in Nat \ {0}, NEW a \in Nat
  PROVE  a \div e \in Nat /\ a % e \in 0 .. e - 1 /\ a = e * (a \div e) + (a % e)
OBVIOUS

LEMMA DivBelow ==
  ASSUME NEW e \in Nat \ {0}, NEW a \in Nat, NEW b \in Nat, a < b * e
  PROVE  a \div e < b
OBVIOUS

LEMMA VaParts ==
  ASSUME NEW p \in Pages
  PROVE  va_parts(p)[1] \in Idx /\ va_parts(p)[2] \in Idx /\ va_parts(p)[3] \in Idx
<1> DEFINE a == p \div PtEntries
<1>1. PtEntries \in Nat \ {0} /\ p \in Nat /\ p < (PtEntries * PtEntries) * PtEntries
  BY PageTablesAssumption DEF Pages
<1>2. PtEntries * PtEntries \in Nat
  BY <1>1
<1>3. a \in Nat /\ p % PtEntries \in 0 .. PtEntries - 1
  BY <1>1, DivMod
<1>4. a < PtEntries * PtEntries
  BY <1>1, <1>2, DivBelow
<1>5. a \div PtEntries \in Nat /\ a % PtEntries \in 0 .. PtEntries - 1
  BY <1>1, <1>3, DivMod
<1>6. a \div PtEntries < PtEntries
  BY <1>1, <1>3, <1>4, DivBelow
<1>7. a \div PtEntries \in 0 .. PtEntries - 1
  BY <1>1, <1>5, <1>6
<1> QED
  BY <1>3, <1>5, <1>7 DEF va_parts, Idx

LEMMA VaPartsDiffer ==
  ASSUME NEW p \in Pages, NEW q \in Pages, p # q
  PROVE  ~( /\ va_parts(p)[1] = va_parts(q)[1] /\ va_parts(p)[2] = va_parts(q)[2]
            /\ va_parts(p)[3] = va_parts(q)[3])
<1> DEFINE a == p \div PtEntries
           b == q \div PtEntries
<1>1. PtEntries \in Nat \ {0} /\ p \in Nat /\ q \in Nat
  BY PageTablesAssumption DEF Pages
<1>2. /\ a \in Nat /\ p = PtEntries * a + (p % PtEntries)
      /\ b \in Nat /\ q = PtEntries * b + (q % PtEntries)
  BY <1>1, DivMod
<1>3. /\ a = PtEntries * (a \div PtEntries) + (a % PtEntries)
      /\ b = PtEntries * (b \div PtEntries) + (b % PtEntries)
  BY <1>1, <1>2, DivMod
<1> HIDE DEF a, b
<1>4. (a \div PtEntries = b \div PtEntries /\ a % PtEntries = b % PtEntries) => a = b
  BY ONLY <1>3
<1>5. (a = b /\ p % PtEntries = q % PtEntries) => p = q
  BY ONLY <1>2
<1> QED
  BY <1>4, <1>5 DEF va_parts, a, b

(* What a page is translated to in a memory of tables.                         *)
Seen(f, r, p) == LookUp(f, r, va_parts(p)[1], va_parts(p)[2], va_parts(p)[3])

LEMMA TranslateSeen ==
  ASSUME NEW p \in Pages, Tree(bitmap, frame, root)
  PROVE  Translate(p) = Seen(frame, root, p)
<1> DEFINE i == va_parts(p)[1]
           j == va_parts(p)[2]
           n == va_parts(p)[3]
           e2 == frame[root][i]
           e1 == frame[e2.page][j]
           e0 == frame[e1.page][n]
<1>1. i \in Idx /\ j \in Idx /\ n \in Idx
  BY VaParts
<1>2. Translate(p) = IF IsBranch(e2) /\ IsBranch(e1) /\ IsLeaf(e0) THEN e0 ELSE Invalid
  BY DEF Translate
<1> HIDE DEF i, j, n
<1>3. BranchOrNone(bitmap, root, e2) /\ (HasMid(frame, root, i) <=> e2.valid)
  BY <1>1 DEF Tree, HasMid
<1>4. e2.valid => BranchOrNone(bitmap, root, e1)
  BY <1>1, <1>3, MidTables DEF Mid
<1>5. HasLow(frame, root, i, j) <=> e2.valid /\ e1.valid
  BY DEF HasLow, HasMid, Mid
<1>6. e2.valid /\ e1.valid => /\ Low(frame, root, i, j) = e1.page
                              /\ (e0 = Invalid \/ IsLeaf(e0))
  <2>1. Low(frame, root, i, j) = e1.page
    BY DEF Low, Mid
  <2> QED
    BY <2>1, <1>1, <1>5, LowTables
<1> HIDE DEF e2, e1, e0
<1>7. (IsBranch(e2) <=> e2.valid) /\ (e2.valid => (IsBranch(e1) <=> e1.valid))
  BY <1>3, <1>4, Entries DEF BranchOrNone, IsBranch, Branch, Pte
<1>8. Seen(frame, root, p) = IF HasLow(frame, root, i, j) THEN frame[Low(frame, root, i, j)][n]
                             ELSE Invalid
  BY DEF Seen, LookUp, i, j, n
<1>9. e2.valid /\ e1.valid => Seen(frame, root, p) = e0
  BY <1>5, <1>6, <1>8 DEF e0
<1>10. ~(e2.valid /\ e1.valid) => Seen(frame, root, p) = Invalid
  BY <1>5, <1>8
<1> QED
  BY <1>2, <1>6, <1>7, <1>9, <1>10

(* Mapping a page changes what that page is translated to, and no other.       *)
Maps(f, g, r, p, flags) ==
  /\ Seen(g, r, p) = Pte(p, flags)
  /\ \A q \in Pages : q # p => Seen(g, r, q) = Seen(f, r, q)

LEMMA MapPage ==
  ASSUME LayoutOK, Grown(bitmap, frame, root), NEW p \in Pages, p \in AllAsked,
         NEW flags \in Access \ {{}}
  PROVE  /\ map_page(p, flags) \in Memories
         /\ Grown(map_page(p, flags).bitmap, map_page(p, flags).frame, root)
         /\ map_page(p, flags).ok => Maps(frame, map_page(p, flags).frame, root, p, flags)
<1> DEFINE i  == va_parts(p)[1]
           j  == va_parts(p)[2]
           n  == va_parts(p)[3]
           m1 == walk_or_create(Memory, i)
           m2 == walk_or_create(m1, j)
           g  == [m2.frame EXCEPT ![m2.at][n] = Pte(p, flags)]
<1>1. i \in Idx /\ j \in Idx /\ n \in Idx /\ i \in AskedMids /\ <<i, j>> \in AskedLows
  BY VaParts DEF AskedMids, AskedLows
<1>2. /\ Memory \in Memories /\ Memory.ok /\ Memory.at = root
      /\ Memory.bitmap = bitmap /\ Memory.frame = frame
  <2>1. bitmap \subseteq Pool /\ frame \in [Pool -> [Idx -> Entry]] /\ root \in Int
    BY PoolFinite DEF Grown, Tree
  <2> QED
    BY <2>1 DEF Memory, Memories
<1>3. map_page(p, flags) = IF m2.ok THEN [m2 EXCEPT !.frame[m2.at][n] = Pte(p, flags)] ELSE m2
  BY DEF map_page
<1> HIDE DEF i, j, n
<1>4. /\ m1 \in Memories /\ Grown(m1.bitmap, m1.frame, root)
      /\ m1.ok => HasMid(m1.frame, root, i) /\ m1.at = Mid(m1.frame, root, i)
      /\ SameLookUps(frame, m1.frame, root)
  BY <1>1, <1>2, WalkMid
<1> HIDE DEF m1
<1>5. /\ m2 \in Memories /\ Grown(m2.bitmap, m2.frame, root)
      /\ m2.ok => HasLow(m2.frame, root, i, j) /\ m2.at = Low(m2.frame, root, i, j)
      /\ SameLookUps(m1.frame, m2.frame, root)
  <2>1. CASE m1.ok
    BY <1>1, <1>4, <2>1, WalkLow
  <2>2. CASE ~m1.ok
    <3>1. m2 = m1
      BY <2>2 DEF walk_or_create
    <3> QED
      BY <1>4, <2>2, <3>1 DEF SameLookUps
  <2> QED
    BY <2>1, <2>2
<1> HIDE DEF m2
<1>6. CASE ~m2.ok
  BY <1>3, <1>5, <1>6
<1>7. CASE m2.ok
  <2>1. m2.at \in Pool /\ m2.frame \in [Pool -> [Idx -> Entry]]
    BY <1>1, <1>5, <1>7, LowTables DEF Grown, Memories
  <2>2. Pte(p, flags) \in Entry /\ p \in Int
    BY Entries DEF Pages
  <2>3. Wrote(m2.frame, g, m2.at, n, Pte(p, flags))
    BY <1>1, <2>1, <2>2, Writes
  <2>4. g \in [Pool -> [Idx -> Entry]]
    BY <2>3 DEF Wrote
  <2> HIDE DEF g
  <2>5. /\ Grown(m2.bitmap, g, root)
        /\ LookUp(g, root, i, j, n) = Pte(p, flags)
        /\ \A k, l, q \in Idx : ~(k = i /\ l = j /\ q = n) =>
             LookUp(g, root, k, l, q) = LookUp(m2.frame, root, k, l, q)
    BY <1>1, <1>5, <1>7, <2>2, <2>3, GrowLeaf
  <2>6. ASSUME NEW q \in Pages, q # p
        PROVE  Seen(g, root, q) = Seen(frame, root, q)
    <3> DEFINE k == va_parts(q)[1]
               l == va_parts(q)[2]
               o == va_parts(q)[3]
    <3>1. k \in Idx /\ l \in Idx /\ o \in Idx /\ ~(k = i /\ l = j /\ o = n)
      BY <2>6, VaParts, VaPartsDiffer DEF i, j, n
    <3>2. LookUp(g, root, k, l, o) = LookUp(m2.frame, root, k, l, o)
      BY <2>5, <3>1
    <3>3. LookUp(m2.frame, root, k, l, o) = LookUp(frame, root, k, l, o)
      BY <1>4, <1>5, <3>1 DEF SameLookUps
    <3> QED
      BY <3>2, <3>3 DEF Seen
  <2>7. Maps(frame, g, root, p, flags)
    BY <2>5, <2>6 DEF Maps, Seen, i, j, n
  <2>8. map_page(p, flags) = [m2 EXCEPT !.frame = g]
    BY <1>3, <1>7 DEF g
  <2>9. /\ map_page(p, flags) \in Memories /\ map_page(p, flags).bitmap = m2.bitmap
        /\ map_page(p, flags).frame = g
    BY <1>5, <2>4, <2>8 DEF Memories
  <2> QED
    BY <2>5, <2>7, <2>9
<1> QED
  BY <1>6, <1>7

-----------------------------------------------------------------------------
(* kvm::init as a whole: while it maps, each page is translated as the ranges   *)
(* done so far say, and the tables are a tree in the low end of the pool.       *)
Covered(p) == {k \in AllRanges : /\ p \in RangePages(k)
                                 /\ k < range \/ (k = range /\ p < page)}

WantedAt(p, S) == IF S = {} THEN Invalid ELSE Pte(p, layout.ranges[Max(S)].flags)

KvmTypes ==
  /\ layout \in Layouts /\ frame \in [Pool -> [Idx -> Entry]]
  /\ kvm \in {"start", "allocator", "mapping", "on", "failed"}

RootOK ==
  /\ kvm \in {"start", "allocator"} => root = -1
  /\ kvm \in {"mapping", "on"} => root # -1
  /\ root = -1 => bitmap = {}
  /\ root # -1 => Grown(bitmap, frame, root)

RangeOK ==
  /\ kvm \in {"mapping", "on"} =>
       /\ range \in Nat \ {0}
       /\ range <= Len(layout.ranges) => page \in Nat /\ layout.ranges[range].first <= page
  /\ kvm = "on" => range > Len(layout.ranges)

MappedSoFar ==
  kvm \in {"mapping", "on"} =>
    \A p \in Pages : Seen(frame, root, p) = WantedAt(p, Covered(p))

KvmInv == KvmTypes /\ RootOK /\ RangeOK /\ MappedSoFar

LEMMA Ranges ==
  ASSUME layout \in Layouts
  PROVE  /\ LayoutOK /\ AllRanges = 1 .. Len(layout.ranges) /\ Len(layout.ranges) \in Nat
         /\ \A k \in AllRanges :
              /\ layout.ranges[k].first \in Nat /\ layout.ranges[k].end \in Nat
              /\ layout.ranges[k].flags \in Access \ {{}}
              /\ RangePages(k) \subseteq Pages
<1> DEFINE R == [first : Pages, end : 0 .. PtEntries * PtEntries * PtEntries,
                 flags : Access \ {{}}]
<1>1. /\ layout.heap.first \in Pages /\ layout.heap.end \in Pages
      /\ layout.ranges \in Seq(R)
  BY PageTablesAssumption
<1>2. PtEntries * PtEntries * PtEntries \in Nat
  BY PageTablesAssumption
<1>3. Pages \subseteq Nat /\ 0 .. PtEntries * PtEntries * PtEntries \subseteq Nat
  BY <1>2 DEF Pages
<1>4. AllRanges = 1 .. Len(layout.ranges) /\ Len(layout.ranges) \in Nat
  BY <1>1 DEF AllRanges
<1>5. ASSUME NEW k \in AllRanges
      PROVE  /\ layout.ranges[k].first \in Pages
             /\ layout.ranges[k].end \in 0 .. PtEntries * PtEntries * PtEntries
             /\ layout.ranges[k].flags \in Access \ {{}}
  <2> HIDE DEF R
  <2>1. layout.ranges[k] \in R
    BY <1>1, <1>4, <1>5
  <2> USE DEF R
  <2> QED
    BY <2>1
<1>6. ASSUME NEW k \in AllRanges
      PROVE  RangePages(k) \subseteq Pages
  BY <1>2, <1>5 DEF RangePages, Pages
<1> QED
  BY <1>1, <1>3, <1>4, <1>5, <1>6 DEF LayoutOK

LEMMA MaxIs ==
  ASSUME NEW S \in SUBSET Nat, NEW r \in S, \A k \in S : k <= r
  PROVE  Max(S) = r
<1>1. \A k \in S : r >= k
  OBVIOUS
<1>2. Max(S) \in S /\ Max(S) >= r
  BY <1>1 DEF Max
<1>3. Max(S) \in Nat /\ r \in Nat /\ Max(S) <= r
  BY <1>2
<1> QED
  BY <1>2, <1>3

LEMMA KvmInvInit == KvmInit => KvmInv
<1> SUFFICES ASSUME KvmInit PROVE KvmInv
  OBVIOUS
<1>1. Garbage \in [Idx -> Entry] /\ Zeroed \in [Idx -> Entry]
  <2>1. Pte(0, {"R", "W", "X"}) \in Entry
    BY DEF Pte, Entry, Access
  <2> QED
    BY <2>1, Entries DEF Garbage, Idx
<1>2. frame \in [Pool -> [Idx -> Entry]]
  BY <1>1 DEF KvmInit
<1> QED
  BY <1>2 DEF KvmInit, KvmInv, KvmTypes, RootOK, RangeOK, MappedSoFar

LEMMA GrownThen ==
  ASSUME layout' = layout, Grown(bitmap', frame', root')
  PROVE  Grown(bitmap, frame, root)'
<1>1. Pool' = Pool /\ AskedMids' = AskedMids /\ AskedLows' = AskedLows
  BY DEF Pool, AskedMids, AskedLows, AllAsked, AllRanges, RangePages
<1>2. Tree(bitmap, frame, root)'
  BY <1>1 DEF Grown, Tree, BranchOrNone, Entry
<1> QED
  BY <1>1, <1>2 DEF Grown, Packed

(* The root table: the first frame of the pool, which maps nothing yet.         *)
LEMMA FirstTable ==
  ASSUME LayoutOK, NEW new \in Pool, Packed({new}), NEW g \in [Pool -> [Idx -> Entry]],
         g[new] = Zeroed
  PROVE  Grown({new}, g, new) /\ \A p \in Pages : Seen(g, new, p) = Invalid
<1>1. \A i \in Idx : g[new][i] = Invalid
  BY Entries
<1>2. \A i, j \in Idx : ~HasMid(g, new, i) /\ ~HasLow(g, new, i, j)
  BY <1>1, Entries DEF HasMid, HasLow
<1>3. Tree({new}, g, new)
  <2>1. {new} \subseteq Pool /\ \A i \in Idx : BranchOrNone({new}, new, g[new][i])
    BY <1>1 DEF BranchOrNone
  <2> QED
    BY <1>1, <1>2, <2>1 DEF Tree, MidsDiffer, LevelsDiffer, LowsDiffer, LeavesLast
<1>4. Mids(g, new) = {} /\ Lows(g, new) = {}
  BY <1>2 DEF Mids, Lows
<1>5. Cardinality({new}) = 1 + Cardinality(Mids(g, new)) + Cardinality(Lows(g, new))
  <2>1. Cardinality(Mids(g, new)) = 0 /\ Cardinality(Lows(g, new)) = 0
    BY <1>4, FS_EmptySet
  <2>2. Cardinality({new}) = 1
    BY FS_Singleton
  <2> QED
    BY <2>1, <2>2
<1>6. Grown({new}, g, new)
  BY <1>3, <1>4, <1>5 DEF Grown
<1>7. \A p \in Pages : Seen(g, new, p) = Invalid
  BY <1>2, VaParts DEF Seen, LookUp
<1> QED
  BY <1>6, <1>7

LEMMA AllocRootKeeps ==
  ASSUME KvmInv, alloc_root
  PROVE  KvmInv'
<1> DEFINE m0   == [Memory EXCEPT !.at = -1]
           made == alloc_zeroed_page(m0)
<1>1. LayoutOK /\ layout' = layout /\ layout \in Layouts
  BY Ranges DEF KvmInv, KvmTypes, alloc_root
<1>2. /\ bitmap = {} /\ root = -1 /\ frame \in [Pool -> [Idx -> Entry]] /\ Pool' = Pool
  BY <1>1 DEF KvmInv, KvmTypes, RootOK, alloc_root, Pool
<1>3. /\ bitmap' = made.bitmap /\ frame' = made.frame /\ root' = made.at
      /\ kvm' = IF made.ok THEN "mapping" ELSE "failed"
      /\ range' = 1 /\ page' = layout.ranges[1].first
  BY DEF alloc_root
<1>4. Memory \in Memories /\ Memory.bitmap = {} /\ Memory.frame = frame /\ Memory.ok
  <2>1. bitmap \subseteq Pool /\ root \in Int
    BY <1>2
  <2> QED
    BY <1>2, <2>1 DEF Memory, Memories
<1>5. m0 \in Memories /\ m0.bitmap = {} /\ m0.frame = frame /\ m0.at = -1 /\ m0.ok
  BY <1>4 DEF Memories
<1>6. Packed({})
  BY DEF Packed
<1> HIDE DEF m0, made
<1>7. CASE made = [m0 EXCEPT !.ok = FALSE]
  <2>1. bitmap' = {} /\ frame' = frame /\ root' = -1 /\ kvm' = "failed"
    BY <1>3, <1>5, <1>7 DEF Memories
  <2> QED
    BY <1>1, <1>2, <2>1 DEF KvmInv, KvmTypes, RootOK, RangeOK, MappedSoFar
<1>8. ASSUME NEW new \in Pool, AllocsOne(m0, made, new)
      PROVE  KvmInv'
  <2>1. /\ Packed({new}) /\ made.ok /\ made.at = new /\ made.bitmap = {new}
        /\ made.frame = [frame EXCEPT ![new] = Zeroed]
    BY <1>5, <1>8 DEF AllocsOne
  <2>2. /\ bitmap' = {new} /\ root' = new /\ kvm' = "mapping"
        /\ frame' = [frame EXCEPT ![new] = Zeroed]
    BY <1>3, <2>1
  <2>3. /\ Grown({new}, frame', new)
        /\ \A p \in Pages : Seen(frame', new, p) = Invalid
    <3>1. frame' \in [Pool -> [Idx -> Entry]] /\ frame'[new] = Zeroed
      BY <1>2, <1>8, <2>2, Entries
    <3> QED
      BY <1>1, <1>8, <2>1, <3>1, FirstTable
  <2>4. new \in Nat /\ frame' \in [Pool -> [Idx -> Entry]]
    BY <1>1, <1>8, <2>3, PoolFinite DEF Grown, Tree
  <2>5. KvmTypes'
    BY <1>1, <1>2, <2>2, <2>4 DEF KvmTypes
  <2>6. RootOK'
    <3>1. Grown(bitmap, frame, root)'
      BY <1>1, <2>2, <2>3, GrownThen
    <3> QED
      BY <2>2, <2>4, <3>1 DEF RootOK
  <2>7. RangeOK'
    BY <1>1, <1>3, <2>2, Ranges DEF RangeOK
  <2>8. \A p \in Pages : Covered(p)' = {}
    <3> SUFFICES ASSUME NEW p \in Pages, NEW k \in Covered(p)' PROVE FALSE
      OBVIOUS
    <3>1. /\ k \in 1 .. Len(layout.ranges) /\ p \in RangePages(k)
          /\ k < 1 \/ (k = 1 /\ p < layout.ranges[1].first)
      BY <1>1, <1>3, Ranges DEF Covered, RangePages, AllRanges
    <3> QED
      BY <1>1, <3>1, Ranges DEF RangePages
  <2>9. MappedSoFar'
    BY <2>2, <2>3, <2>8 DEF MappedSoFar, WantedAt
  <2> QED
    BY <2>5, <2>6, <2>7, <2>9 DEF KvmInv
<1> QED
  BY <1>1, <1>5, <1>6, <1>7, <1>8, AllocPacked DEF made

(* One page more: it is now covered by the range being mapped, the last so far. *)
LEMMA MapRangeKeeps ==
  ASSUME KvmInv, map_range
  PROVE  KvmInv'
<1> DEFINE flags == layout.ranges[range].flags
           m     == map_page(page, flags)
<1>1. /\ LayoutOK /\ layout' = layout /\ layout \in Layouts /\ Pool' = Pool
      /\ kvm = "mapping" /\ range' = range /\ root' = root /\ page' = page + 1
      /\ bitmap' = m.bitmap /\ frame' = m.frame
      /\ kvm' = IF m.ok THEN "mapping" ELSE "failed"
  BY Ranges DEF KvmInv, KvmTypes, map_range, Pool
<1>2. /\ range \in AllRanges /\ range \in Nat \ {0} /\ page \in Nat
      /\ page \in RangePages(range)
      /\ page \in Pages /\ page \in AllAsked /\ flags \in Access \ {{}}
  <2>1. /\ range \in Nat \ {0} /\ range <= Len(layout.ranges) /\ page \in Nat
        /\ layout.ranges[range].first <= page /\ page < layout.ranges[range].end
    BY <1>1 DEF KvmInv, RangeOK, map_range
  <2>2. range \in AllRanges
    BY <1>1, <2>1, Ranges
  <2>3. page \in RangePages(range)
    BY <1>1, <2>1, <2>2, Ranges DEF RangePages
  <2> QED
    BY <1>1, <2>1, <2>2, <2>3, Ranges DEF AllAsked
<1>3. root # -1 /\ Grown(bitmap, frame, root)
  BY <1>1 DEF KvmInv, RootOK
<1>4. /\ m \in Memories /\ Grown(m.bitmap, m.frame, root)
      /\ m.ok => Maps(frame, m.frame, root, page, flags)
  BY <1>1, <1>2, <1>3, MapPage
<1> HIDE DEF m, flags
<1>5. KvmTypes'
  BY <1>1, <1>4 DEF KvmTypes, KvmInv, Memories, Entry, Idx
<1>6. RootOK'
  <2>1. Grown(bitmap', frame', root')
    BY <1>1, <1>4
  <2>2. Grown(bitmap, frame, root)'
    BY <1>1, <2>1, GrownThen
  <2> QED
    BY <1>1, <1>3, <2>2 DEF RootOK
<1>7. RangeOK'
  <2>1. layout.ranges[range].first <= page + 1
    BY <1>1, <1>2, Ranges DEF KvmInv, RangeOK
  <2> QED
    BY <1>1, <1>2, <2>1 DEF RangeOK
<1>8. MappedSoFar'
  <2> SUFFICES ASSUME m.ok, NEW p \in Pages
               PROVE  Seen(m.frame, root, p) = WantedAt(p, Covered(p)')
    <3> SUFFICES ASSUME kvm' \in {"mapping", "on"}, NEW p \in Pages
                 PROVE  (Seen(frame, root, p) = WantedAt(p, Covered(p)))'
      BY DEF MappedSoFar
    <3>1. m.ok
      BY <1>1
    <3>2. Seen(m.frame, root, p) = WantedAt(p, Covered(p)')
      BY <3>1
    <3> QED
      BY <1>1, <3>2 DEF WantedAt, Seen
  <2>1. Covered(p)' = {k \in AllRanges : /\ p \in RangePages(k)
                                         /\ k < range \/ (k = range /\ p < page + 1)}
    BY <1>1 DEF Covered, AllRanges, RangePages
  <2>2. AllRanges \subseteq Nat /\ p \in Nat
    BY <1>1, Ranges DEF Pages
  <2>3. CASE p = page
    <3>1. Covered(p)' \in SUBSET Nat /\ range \in Covered(p)' /\ \A k \in Covered(p)' : k <= range
      <4>1. range \in Covered(p)'
        BY <1>2, <2>1, <2>3
      <4>2. ASSUME NEW k \in Covered(p)' PROVE k \in Nat /\ k <= range
        <5>1. k \in AllRanges /\ (k < range \/ k = range)
          BY <2>1, <4>2
        <5> QED
          BY <1>2, <2>2, <5>1
      <4> QED
        BY <4>1, <4>2
    <3>2. Max(Covered(p)') = range
      BY <3>1, MaxIs
    <3> QED
      BY <1>4, <2>3, <3>1, <3>2 DEF Maps, WantedAt, flags
  <2>4. CASE p # page
    <3>1. Covered(p)' = Covered(p)
      BY <1>2, <2>1, <2>2, <2>4 DEF Covered
    <3>2. Seen(frame, root, p) = WantedAt(p, Covered(p))
      BY <1>1 DEF KvmInv, MappedSoFar
    <3> QED
      BY <1>4, <2>4, <3>1, <3>2 DEF Maps
  <2> QED
    BY <2>3, <2>4
<1> QED
  BY <1>5, <1>6, <1>7, <1>8 DEF KvmInv

(* Between two ranges, and when paging is switched on, nothing is mapped.       *)
LEMMA NextRangeKeeps ==
  ASSUME KvmInv, next_range
  PROVE  KvmInv'
<1>1. /\ LayoutOK /\ layout' = layout /\ layout \in Layouts
      /\ kvm = "mapping" /\ range' = range + 1 /\ range <= Len(layout.ranges)
      /\ page >= layout.ranges[range].end
      /\ page' = IF range < Len(layout.ranges) THEN layout.ranges[range + 1].first ELSE page
      /\ UNCHANGED <<kvm, bitmap, frame, root>>
  BY Ranges DEF KvmInv, KvmTypes, next_range
<1>2. range \in AllRanges /\ range \in Nat /\ page \in Nat
  BY <1>1, Ranges DEF KvmInv, RangeOK
<1>3. KvmTypes'
  BY <1>1 DEF KvmInv, KvmTypes, Pool
<1>4. RootOK'
  <2>1. Grown(bitmap, frame, root) => Grown(bitmap, frame, root)'
    BY <1>1, GrownThen
  <2> QED
    BY <1>1, <2>1 DEF KvmInv, RootOK
<1>5. RangeOK'
  <2>1. ASSUME range + 1 <= Len(layout.ranges)
        PROVE  page' = layout.ranges[range + 1].first /\ page' \in Nat
    BY <1>1, <1>2, <2>1, Ranges
  <2> QED
    BY <1>1, <1>2, <2>1, Ranges DEF RangeOK
<1>6. \A p \in Pages : Covered(p)' = Covered(p)
  <2> SUFFICES ASSUME NEW p \in Pages PROVE Covered(p)' = Covered(p)
    OBVIOUS
  <2>1. Covered(p)' = {k \in AllRanges :
                         /\ p \in RangePages(k)
                         /\ k < range + 1 \/ (k = range + 1 /\ p < page')}
    BY <1>1 DEF Covered, AllRanges, RangePages
  <2>2. ASSUME NEW k \in AllRanges, p \in RangePages(k)
        PROVE  (k < range + 1 \/ (k = range + 1 /\ p < page'))
                 <=> (k < range \/ (k = range /\ p < page))
    <3>1. k \in Nat /\ p \in Nat /\ layout.ranges[k].first <= p /\ p < layout.ranges[k].end
      BY <1>1, <2>2, Ranges DEF RangePages, Pages
    <3>2. k = range => p < page
      BY <1>1, <1>2, <3>1, Ranges
    <3>3. k = range + 1 => ~(p < page')
      BY <1>1, <1>2, <2>2, <3>1, Ranges
    <3> QED
      BY <1>2, <3>1, <3>2, <3>3
  <2> QED
    BY <2>1, <2>2 DEF Covered
<1>7. MappedSoFar'
  <2> SUFFICES ASSUME NEW p \in Pages
               PROVE  (Seen(frame, root, p) = WantedAt(p, Covered(p)))'
    BY DEF MappedSoFar
  <2>1. Seen(frame, root, p) = WantedAt(p, Covered(p)')
    BY <1>1, <1>6 DEF KvmInv, MappedSoFar
  <2> QED
    BY <1>1, <2>1 DEF WantedAt, Seen
<1> QED
  BY <1>3, <1>4, <1>5, <1>7 DEF KvmInv

LEMMA KvmStill ==
  ASSUME KvmInv, UNCHANGED <<layout, bitmap, frame, root, range, page>>,
         kvm' \in {"start", "allocator"} => kvm \in {"start", "allocator"},
         kvm' \in {"mapping", "on"} => kvm \in {"mapping", "on"},
         kvm' = "on" => range > Len(layout.ranges),
         kvm' \in {"start", "allocator", "mapping", "on", "failed"}
  PROVE  KvmInv'
<1>1. KvmTypes'
  BY DEF KvmInv, KvmTypes, Pool
<1>2. RootOK'
  <2>1. Grown(bitmap, frame, root) => Grown(bitmap, frame, root)'
    BY GrownThen
  <2> QED
    BY <2>1 DEF KvmInv, RootOK
<1>3. RangeOK'
  BY DEF KvmInv, RangeOK
<1>4. MappedSoFar'
  <2> SUFFICES ASSUME kvm \in {"mapping", "on"}, NEW p \in Pages
               PROVE  (Seen(frame, root, p) = WantedAt(p, Covered(p)))'
    BY DEF MappedSoFar
  <2>1. Seen(frame, root, p) = WantedAt(p, Covered(p))
    BY DEF KvmInv, MappedSoFar
  <2>2. Covered(p)' = Covered(p)
    BY DEF Covered, AllRanges, RangePages
  <2> QED
    BY <2>1, <2>2 DEF WantedAt, Seen
<1> QED
  BY <1>1, <1>2, <1>3, <1>4 DEF KvmInv

LEMMA KvmInvStep == KvmInv /\ [KvmNext]_kvmVars => KvmInv'
<1> SUFFICES ASSUME KvmInv, [KvmNext]_kvmVars PROVE KvmInv'
  OBVIOUS
<1>1. CASE install_allocator
  BY <1>1, KvmStill DEF install_allocator
<1>2. CASE enable_paging
  BY <1>2, KvmStill DEF enable_paging
<1>3. CASE UNCHANGED kvmVars
  <2>1. kvm' = kvm /\ UNCHANGED <<layout, bitmap, frame, root, range, page>>
    BY <1>3 DEF kvmVars
  <2> QED
    BY <2>1, KvmStill DEF KvmInv, KvmTypes, RangeOK
<1> QED
  BY <1>1, <1>2, <1>3, AllocRootKeeps, MapRangeKeeps, NextRangeKeeps DEF KvmNext

LEMMA KvmInvMapsExactly == KvmInv => MapsExactly
<1> SUFFICES ASSUME KvmInv, kvm = "on", NEW p \in Pages
             PROVE  Translate(p) = IF Asked(p) = {} THEN Invalid
                                   ELSE Pte(p, layout.ranges[Max(Asked(p))].flags)
  BY DEF MapsExactly
<1>1. range > Len(layout.ranges) /\ range \in Nat /\ layout \in Layouts
  BY DEF KvmInv, RangeOK, KvmTypes
<1>2. Covered(p) = Asked(p)
  <2>1. \A k \in AllRanges : k < range
    BY <1>1, Ranges
  <2> QED
    BY <2>1 DEF Covered, Asked
<1>3. Tree(bitmap, frame, root)
  BY DEF KvmInv, RootOK, Grown
<1>4. Translate(p) = Seen(frame, root, p)
  BY <1>3, TranslateSeen
<1>5. Seen(frame, root, p) = WantedAt(p, Covered(p))
  BY DEF KvmInv, MappedSoFar
<1> QED
  BY <1>2, <1>4, <1>5 DEF WantedAt

(* A table in the stack would have every frame below it handed out, which is    *)
(* more tables than the ranges ask for.                                      *)
LEMMA KvmInvStackClear == KvmInv => StackClear
<1> SUFFICES ASSUME KvmInv, TablesNeeded + StackPages <= Cardinality(Pool), NEW p \in bitmap,
                    ~(p < layout.heap.end - StackPages)
             PROVE  FALSE
  BY DEF StackClear
<1> DEFINE first == layout.heap.first
           end   == layout.heap.end
<1>1. LayoutOK /\ first \in Nat /\ end \in Nat /\ StackPages \in Nat
  BY Ranges, PageTablesAssumption DEF KvmInv, KvmTypes, LayoutOK
<1>2. Grown(bitmap, frame, root) /\ bitmap \subseteq Pool
  BY DEF KvmInv, RootOK, Grown, Tree
<1>3. p \in Int /\ first <= p /\ p < end
  BY <1>1, <1>2 DEF Pool
<1>4. first .. p \subseteq bitmap
  BY <1>1, <1>2, <1>3 DEF Grown, Packed, Pool
<1>5. Cardinality(first .. p) = p - first + 1 /\ Cardinality(Pool) = end - first
  <2>1. first \in Int /\ p \in Int /\ end - 1 \in Int
    BY <1>1, <1>3
  <2>2. Cardinality(first .. (end - 1)) = IF first > end - 1 THEN 0 ELSE (end - 1) - first + 1
    BY <2>1, FS_Interval
  <2>3. Cardinality(first .. p) = IF first > p THEN 0 ELSE p - first + 1
    BY <2>1, FS_Interval
  <2> QED
    BY <1>1, <1>3, <2>2, <2>3 DEF Pool
<1>6. IsFiniteSet(bitmap) /\ Cardinality(first .. p) <= Cardinality(bitmap)
  BY <1>1, <1>2, <1>4, PoolFinite, FS_Subset
<1>7. /\ IsFiniteSet(AskedMids) /\ IsFiniteSet(AskedLows)
  <2>1. AllAsked \subseteq Pages
    BY Ranges DEF AllAsked, KvmInv, KvmTypes
  <2>2. AskedMids \subseteq Idx /\ AskedLows \subseteq Idx \X Idx
    BY <2>1, VaParts DEF AskedMids, AskedLows
  <2> QED
    BY <1>1, <2>2, PoolFinite, FS_Subset
<1>8. /\ Cardinality(Mids(frame, root)) <= Cardinality(AskedMids)
      /\ Cardinality(Lows(frame, root)) <= Cardinality(AskedLows)
  BY <1>2, <1>7, FS_Subset DEF Grown
<1>9. Cardinality(bitmap) = 1 + Cardinality(Mids(frame, root)) + Cardinality(Lows(frame, root))
  BY <1>2 DEF Grown
<1>10. TablesNeeded = 1 + Cardinality(AskedMids) + Cardinality(AskedLows)
  BY DEF TablesNeeded, AskedMids, AskedLows
<1>11. /\ Cardinality(AskedMids) \in Nat /\ Cardinality(AskedLows) \in Nat
       /\ Cardinality(Mids(frame, root)) \in Nat /\ Cardinality(Lows(frame, root)) \in Nat
  BY <1>1, <1>7, PoolFinite, FS_CardinalityType
<1> HIDE DEF first, end
<1>12. Cardinality(bitmap) <= TablesNeeded /\ TablesNeeded \in Nat /\ Cardinality(bitmap) \in Nat
  BY <1>8, <1>9, <1>10, <1>11
<1>13. ~(p < end - StackPages)
  BY DEF end
<1> QED
  BY <1>1, <1>3, <1>5, <1>6, <1>12, <1>13

-----------------------------------------------------------------------------
(* Of the calls of kmain, kvm::init alone touches any of this.                 *)
LEMMA BootKvm == [Next]_vars => [KvmNext]_kvmVars
<1> SUFFICES ASSUME [Next]_vars, ~UNCHANGED kvmVars PROVE KvmNext
  OBVIOUS
<1>1. ASSUME NEW p \in DOMAIN procs
      PROVE  ~start_tenant(p) /\ ~tenant_blocks(p) /\ ~tenant_ends(p)
  BY DEF start_tenant, tenant_blocks, tenant_ends
<1>2. /\ ~uart_init /\ ~plic_init /\ ~init_root_caps /\ ~enable_supervisor_interrupts
      /\ ~sched_returns /\ ~idle_poll /\ ~console_interrupt /\ ~Strike /\ ~UNCHANGED vars
  BY DEF uart_init, plic_init, init_root_caps, enable_supervisor_interrupts, sched_returns,
         idle_poll, console_interrupt, Strike, vars
<1>3. ~run_tier2_uart /\ ~run_tier2_net
  BY DEF run_tier2_uart, run_tier2_net
<1>4. ~register /\ ~stage /\ ~spawn_rejected /\ ~spawn_no_process /\ ~spawn_verified
  BY DEF register, stage, spawn_rejected, spawn_no_process, spawn_verified
<1> QED
  BY <1>1, <1>2, <1>3, <1>4 DEF Next, kmain, tenant, kvm_init

(* When paging comes on, every page is translated to itself with the access of   *)
(* the last range that covers it, and no other page is mapped: for every memory   *)
(* layout, entries per table and frames that RAM starts dirty in (kvm.rs,         *)
(* kvm::init; page_table.rs, map_page).                                       *)
THEOREM TablesMapExactly == Spec => []MapsExactly
<1>1. Init => KvmInv
  BY KvmInvInit DEF Init
<1>2. KvmInv /\ [Next]_vars => KvmInv'
  BY BootKvm, KvmInvStep
<1> QED
  BY <1>1, <1>2, KvmInvMapsExactly, PTL DEF Spec

(* With a pool as large as the tables and the stack together, no page table is    *)
(* ever handed out of the boot stack, whatever the layout (linker.ld; kvm.rs,     *)
(* alloc_zeroed_page).                                                        *)
THEOREM TablesOffTheStack == Spec => []StackClear
<1>1. Init => KvmInv
  BY KvmInvInit DEF Init
<1>2. KvmInv /\ [Next]_vars => KvmInv'
  BY BootKvm, KvmInvStep
<1> QED
  BY <1>1, <1>2, KvmInvStackClear, PTL DEF Spec
=============================================================================
