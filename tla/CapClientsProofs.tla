--------------------------- MODULE CapClientsProofs ---------------------------
(***************************************************************************)
(* Proofs about what runs over the capability tables: the two services,     *)
(* RegHandles and NetSockets, and the walk of cap_revoke (RevokeWalk), for  *)
(* every set of processes, slots, rights, handles and sockets and every     *)
(* width of the generation counters.                                       *)
(***************************************************************************)
EXTENDS Integers, RegHandles, NetSockets, RevokeWalk, CapSystemProofs

(* What a step of the tables does to one cell: it lets it be or fills it if *)
(* it is empty, or it clears it and moves its counter, or wears it out; the *)
(* counters of a process without a CSpace alone may be set back.            *)
Untouched(c) == gen'[c] = gen[c] /\ (Occupied(c) => caps'[c] = caps[c])

CellStep(c) ==
  \/ Untouched(c)
  \/ gen'[c] = gen[c] + 1
  \/ c \in worn'
  \/ status[c[1]] = "unused"

(* A clear moves the counters of its slots, and touches no other.            *)
LEMMA ClearCellStep ==
  ASSUME TypeOK, NEW c \in Cell, NEW R \in SUBSET Cell,
         NEW bumped \in [Cell -> 0 .. GenMax],
         \A x \in Cell \ R : bumped[x] = gen[x],
         \A x \in R : gen[x] < GenMax => bumped[x] = gen[x] + 1,
         ClearCells(R, bumped)
  PROVE  CellStep(c)
<1>1. CASE c \notin R
  BY <1>1 DEF ClearCells, CellStep, Untouched
<1>2. CASE c \in R
  <2>1. gen[c] \in 0 .. GenMax /\ GenMax \in Nat
    BY GenAssumption DEF TypeOK
  <2>2. CASE gen[c] = GenMax
    BY <1>2, <2>2 DEF ClearCells, CellStep
  <2>3. CASE gen[c] < GenMax
    BY <1>2, <2>3 DEF ClearCells, CellStep
  <2> QED
    BY <2>1, <2>2, <2>3
<1> QED
  BY <1>1, <1>2

(* Whatever the tables do, they do one of four things to a slot.             *)
LEMMA NextCellStep ==
  ASSUME TypeOK, Next, NEW c \in Cell
  PROVE  CellStep(c)
<1> USE DEF TypeOK
<1>0. GenMax \in Nat
  BY GenAssumption
<1>1. ASSUME NEW p \in Tier1, NEW s \in Slots, NEW t \in Slots,
             NEW r \in SUBSET Rights, cap_mint(p, s, t, r)
      PROVE  CellStep(c)
  BY <1>1 DEF cap_mint, CellStep, Untouched
<1>2. ASSUME NEW p \in Tier1, NEW s \in Slots, NEW t \in Slots, cap_copy(p, s, t)
      PROVE  CellStep(c)
  BY <1>2 DEF cap_copy, CellStep, Untouched
<1>3. ASSUME NEW p \in Tier1, NEW s \in Slots, cap_revoke(p, s)
      PROVE  CellStep(c)
  <2> DEFINE R == RevokeSet(<<p, s>>)
  <2>1. R \in SUBSET Cell
    BY RevokeSetCells, ProcsAssumption DEF Cell
  <2>2. ClearCells(R, SaturatingBump(R))
    BY <1>3 DEF cap_revoke
  <2> HIDE DEF R
  <2> QED
    BY <2>1, <2>2, ClearCellStep, BumpType DEF SaturatingBump
<1>4. ASSUME NEW p \in Tier1, NEW s \in Slots, cap_delete(p, s)
      PROVE  CellStep(c)
  <2> DEFINE R == {<<p, s>>}
  <2>1. R \in SUBSET Cell
    BY ProcsAssumption DEF Cell
  <2>2. ClearCells(R, SaturatingBump(R))
    BY <1>4 DEF cap_delete
  <2> HIDE DEF R
  <2> QED
    BY <2>1, <2>2, ClearCellStep, BumpType DEF SaturatingBump
<1>5. ASSUME NEW p \in Tier1, NEW t \in Slots, NEW h \in Handles,
             NEW i \in SocketIds, net_socket_create(p, t, h, i)
      PROVE  CellStep(c)
  BY <1>5 DEF net_socket_create, CellStep, Untouched
<1>6. ASSUME NEW p \in Tier1, NEW s \in Slots, NEW released \in BOOLEAN,
             net_socket_close(p, s, released)
      PROVE  CellStep(c)
  <2> DEFINE R == {<<p, s>>}
  <2>1. R \in SUBSET Cell
    BY ProcsAssumption DEF Cell
  <2>2. ClearCells(R, WrappingBump(R))
    BY <1>6 DEF net_socket_close
  <2> HIDE DEF R
  <2>3. ASSUME NEW x \in R, gen[x] < GenMax
        PROVE  WrappingBump(R)[x] = gen[x] + 1
    <3>1. gen[x] \in Nat /\ x \in Cell
      BY <2>1
    <3>2. (gen[x] + 1) % (GenMax + 1) = gen[x] + 1
      BY <3>1, <2>3, <1>0
    <3> QED
      BY <3>1, <3>2 DEF WrappingBump
  <2>4. \A x \in Cell \ R : WrappingBump(R)[x] = gen[x]
    BY DEF WrappingBump
  <2> QED
    BY <2>1, <2>2, <2>3, <2>4, ClearCellStep, BumpType
<1>7. ASSUME NEW p \in Tier1, NEW w \in BOOLEAN, install_tier1_grants(p, w)
      PROVE  CellStep(c)
  BY <1>7 DEF install_tier1_grants, EndowCSpace, CellStep, Untouched
<1>8. ASSUME NEW p \in Tier1, Terminate(p)
      PROVE  CellStep(c)
  BY <1>8 DEF Terminate, CellStep, Untouched
<1>9. ASSUME NEW p \in Tier1, TenantStep(p)
      PROVE  CellStep(c)
  BY <1>1, <1>2, <1>3, <1>4, <1>5, <1>6, <1>8, <1>9, ZenonT(30) DEF TenantStep, PlainStep
<1>10. CASE \E p \in Tier1 : TenantStep(p)
  BY <1>9, <1>10
<1>11. CASE \E p \in Tier1 : \E w \in BOOLEAN : install_tier1_grants(p, w)
  BY <1>7, <1>11
<1> QED
  BY <1>10, <1>11 DEF Next

(* A cell stays worn, and a process never becomes unused again.             *)
LEMMA NextMonotone ==
  ASSUME TypeOK, Next
  PROVE  worn \subseteq worn' /\ \A p \in Procs : status[p] # "unused" => status'[p] # "unused"
<1> DEFINE Kept == /\ worn \subseteq worn'
                   /\ \A p \in Procs : status[p] # "unused" => status'[p] # "unused"
<1>1. ASSUME NEW p \in Tier1, NEW s \in Slots, cap_revoke(p, s)
      PROVE  Kept
  BY <1>1 DEF cap_revoke, ClearCells
<1>2. ASSUME NEW p \in Tier1, PlainStep(p)
      PROVE  Kept
  <2>1. CASE Terminate(p)
    BY <2>1 DEF Terminate, TypeOK
  <2>2. CASE \E s \in Slots : cap_delete(p, s)
    BY <2>2 DEF cap_delete, ClearCells
  <2>3. CASE \E s \in Slots : \E released \in BOOLEAN : net_socket_close(p, s, released)
    BY <2>3 DEF net_socket_close, ClearCells
  <2>4. CASE \E t \in Slots : \E h \in Handles : \E i \in SocketIds : net_socket_create(p, t, h, i)
    BY <2>4 DEF net_socket_create
  <2>5. CASE \/ \E s, t \in Slots : \E r \in SUBSET Rights : cap_mint(p, s, t, r)
             \/ \E s, t \in Slots : cap_copy(p, s, t)
    BY <2>5 DEF cap_mint, cap_copy
  <2> QED
    BY <1>2, <2>1, <2>2, <2>3, <2>4, <2>5 DEF PlainStep
<1>3. ASSUME NEW p \in Tier1, NEW w \in BOOLEAN, install_tier1_grants(p, w)
      PROVE  Kept
  BY <1>3 DEF install_tier1_grants, EndowCSpace, TypeOK
<1> HIDE DEF Kept
<1>4. Kept
  BY <1>1, <1>2, <1>3 DEF Next, TenantStep
<1> QED
  BY <1>4 DEF Kept

-----------------------------------------------------------------------------
(* A handle comes from a slot of the process that registered it.             *)
LEMMA OriginCell ==
  ASSUME RegTypeOK, NEW p \in Procs, NEW i \in RegSlots
  PROVE  Origin(p, i) \in Cell /\ Origin(p, i)[1] = p
  BY ProcsAssumption DEF RegTypeOK, RegEntry, NoEntry, Origin, Cell

(* A registered handle is a full entry.                                      *)
LEMMA RegisteredEntry ==
  ASSUME RegTypeOK, NEW p \in Procs, NEW i \in RegSlots, Registered(p, i)
  PROVE  reg[p][i] \in RegEntry
  BY DEF RegTypeOK, Registered, NoEntry

(* The invariant holds at boot, and every step keeps it.                     *)
LEMMA HandleInit == RegInit => HandleInv
<1> SUFFICES ASSUME RegInit PROVE HandleInv
  OBVIOUS
<1>1. RegTypeOK
  BY TypeInit DEF RegInit, RegTypeOK
<1>2. \A p \in Procs, i \in RegSlots : ~Registered(p, i)
  BY DEF RegInit, Registered, NoEntry
<1> QED
  BY <1>1, <1>2 DEF HandleInv, HandlesReached, HandleSound, validate_handle

(* A handle whose slot was not worn out is either as it was, slot and all,  *)
(* or behind its slot.                                                      *)
LEMMA HandleStep ==
  ASSUME HandleInv, Next, UNCHANGED reg,
         NEW p \in Procs, NEW i \in RegSlots, Registered(p, i), Origin(p, i) \notin worn'
  PROVE  LET c == Origin(p, i)
         IN  /\ c \notin worn
             /\ \/ Untouched(c)
                \/ gen'[c] = gen[c] + 1
             /\ reg[p][i].gen <= gen[c]
             /\ reg[p][i].gen \in Nat /\ gen[c] \in Nat
<1> DEFINE c == Origin(p, i)
<1>1. c \in Cell /\ c[1] = p
  BY OriginCell DEF HandleInv
<1>2. c \notin worn
  BY NextMonotone DEF HandleInv, RegTypeOK
<1>3. status[p] # "unused" /\ reg[p][i].gen <= gen[c]
  BY <1>2 DEF HandleInv, HandlesReached
<1>4. CellStep(c)
  BY <1>1, NextCellStep DEF HandleInv, RegTypeOK
<1>5. Untouched(c) \/ gen'[c] = gen[c] + 1
  BY <1>1, <1>3, <1>4 DEF CellStep
<1>6. reg[p][i].gen \in Nat /\ gen[c] \in Nat
  BY <1>1, RegisteredEntry, GenAssumption DEF HandleInv, RegTypeOK, TypeOK, RegEntry
<1> QED
  BY <1>2, <1>3, <1>5, <1>6

LEMMA HandleNext == HandleInv /\ [RegNext]_regVars => HandleInv'
<1> SUFFICES ASSUME HandleInv, [RegNext]_regVars PROVE HandleInv'
  OBVIOUS
<1> USE DEF HandleInv
<1>1. CASE Next /\ UNCHANGED reg
  <2>1. RegTypeOK'
    BY <1>1, TypeStep DEF RegTypeOK
  <2> SUFFICES ASSUME NEW p \in Procs, NEW i \in RegSlots, Registered(p, i)'
               PROVE  /\ status'[p] # "unused"
                      /\ Origin(p, i)' \notin worn' =>
                           /\ reg'[p][i].gen <= gen'[Origin(p, i)']
                           /\ validate_handle(p, i)' =>
                                /\ caps'[Origin(p, i)'].obj = reg'[p][i].obj
                                /\ caps'[Origin(p, i)'].rights = reg'[p][i].rights
    BY <2>1 DEF HandlesReached, HandleSound, validate_handle
  <2> DEFINE c == Origin(p, i)
  <2>2. Registered(p, i) /\ Origin(p, i)' = c
    BY <1>1 DEF Registered, Origin
  <2>3. status'[p] # "unused"
    BY <1>1, <2>2, NextMonotone DEF HandlesReached, RegTypeOK
  <2>4. ASSUME c \notin worn'
        PROVE  /\ c \notin worn
               /\ Untouched(c) \/ gen'[c] = gen[c] + 1
               /\ reg[p][i].gen <= gen[c]
               /\ reg[p][i].gen \in Nat /\ gen[c] \in Nat
    BY <1>1, <2>2, <2>4, HandleStep
  <2>5. ASSUME c \notin worn', validate_handle(p, i)'
        PROVE  caps'[c].obj = reg[p][i].obj /\ caps'[c].rights = reg[p][i].rights
    <3>1. reg[p][i].gen = gen'[c]
      BY <1>1, <2>2, <2>5 DEF validate_handle
    <3>2. Untouched(c)
      BY <2>4, <2>5, <3>1
    <3>3. validate_handle(p, i)
      BY <2>2, <3>1, <3>2 DEF validate_handle, Untouched
    <3>4. caps[c].obj = reg[p][i].obj /\ caps[c].rights = reg[p][i].rights
      BY <3>3, <2>4, <2>5 DEF HandleSound
    <3>5. Occupied(c)
      BY <3>4, <2>2 DEF Registered, Occupied, EmptyCap
    <3> QED
      BY <3>2, <3>4, <3>5 DEF Untouched
  <2>6. c \notin worn' => reg[p][i].gen <= gen'[c]
    BY <2>4 DEF Untouched
  <2> QED
    BY <1>1, <2>2, <2>3, <2>5, <2>6
<1>2. ASSUME NEW p \in Procs, NEW i \in RegSlots, NEW s \in Slots, cap_register(p, s, i)
      PROVE  HandleInv'
  <2> DEFINE e == [obj |-> caps[<<p, s>>].obj, rights |-> caps[<<p, s>>].rights,
                   slot |-> s, gen |-> gen[<<p, s>>]]
  <2>1. <<p, s>> \in Cell
    BY DEF Cell
  <2>2. caps[<<p, s>>] \in Cap /\ TypeOK
    BY <1>2, <2>1, OccupiedIsCap DEF cap_register, RegTypeOK
  <2>3. e \in RegEntry
    BY <2>1, <2>2 DEF Cap, RegEntry, TypeOK
  <2>4. reg' = [reg EXCEPT ![p][i] = e] /\ UNCHANGED vars /\ status[p] = "live"
    BY <1>2 DEF cap_register
  <2> HIDE DEF e
  <2>5. RegTypeOK'
    BY <2>2, <2>3, <2>4 DEF RegTypeOK, vars, TypeOK
  <2>6. e.slot = s /\ e.gen = gen[<<p, s>>] /\ gen[<<p, s>>] \in Nat
        /\ e.obj = caps[<<p, s>>].obj /\ e.rights = caps[<<p, s>>].rights
    BY <2>1, <2>2, GenAssumption DEF e, TypeOK
  <2>7. ASSUME NEW q \in Procs, NEW j \in RegSlots
        PROVE  reg'[q][j] = IF q = p /\ j = i THEN e ELSE reg[q][j]
    BY <2>4 DEF RegTypeOK
  <2>8. ASSUME NEW q \in Procs, NEW j \in RegSlots, Registered(q, j)'
        PROVE  /\ status'[q] # "unused"
               /\ Origin(q, j)' \notin worn' => reg'[q][j].gen <= gen'[Origin(q, j)']
    BY <2>4, <2>6, <2>7, <2>8 DEF HandlesReached, Registered, Origin, vars
  <2>9. ASSUME NEW q \in Procs, NEW j \in RegSlots, validate_handle(q, j)',
               Origin(q, j)' \notin worn'
        PROVE  /\ caps'[Origin(q, j)'].obj = reg'[q][j].obj
               /\ caps'[Origin(q, j)'].rights = reg'[q][j].rights
    BY <2>4, <2>6, <2>7, <2>9
       DEF HandleSound, validate_handle, Registered, Origin, vars
  <2> QED
    BY <2>5, <2>8, <2>9 DEF HandlesReached, HandleSound
<1>3. ASSUME NEW p \in Procs, NEW i \in RegSlots, cap_unregister(p, i)
      PROVE  HandleInv'
  <2>1. RegTypeOK'
    BY <1>3 DEF cap_unregister, RegTypeOK, vars, TypeOK
  <2>2. ASSUME NEW q \in Procs, NEW j \in RegSlots, Registered(q, j)'
        PROVE  reg'[q][j] = reg[q][j] /\ Registered(q, j)
    BY <1>3, <2>2 DEF cap_unregister, Registered, NoEntry, RegTypeOK
  <2>3. UNCHANGED vars
    BY <1>3 DEF cap_unregister
  <2>4. HandlesReached'
    BY <2>2, <2>3 DEF HandlesReached, Origin, vars
  <2>5. HandleSound'
    BY <2>2, <2>3 DEF HandleSound, validate_handle, Origin, vars
  <2> QED
    BY <2>1, <2>4, <2>5
<1>4. CASE UNCHANGED regVars
  BY <1>4 DEF regVars, vars, RegTypeOK, TypeOK, HandlesReached, HandleSound,
     validate_handle, Registered, Origin
<1> QED
  BY <1>1, <1>2, <1>3, <1>4 DEF RegNext

(* No handle that the fast path accepts names anything but the cap the      *)
(* caller holds, whatever happened to the slot since it was registered      *)
(* (reg.rs, ring_drain.rs), short of a counter that ran out.                *)
THEOREM HandlesCorrect == RegSpec => []HandleSound
<1>1. HandleInv => HandleSound
  BY DEF HandleInv
<1> QED
  BY <1>1, HandleInit, HandleNext, PTL DEF RegSpec

(* The inductive invariant itself, the types included.                      *)
THEOREM HandleInvariant == RegSpec => []HandleInv
<1> QED
  BY HandleInit, HandleNext, PTL DEF RegSpec

(* A revoked handle is dead: nothing that happens to its slot lets it pass  *)
(* the check again (reg.rs on reg_generation, INV-17).                      *)
THEOREM StaleHandlesDead == RegSpec => StaleForever
<1> DEFINE Dead ==
      \A p \in Procs, i \in RegSlots :
        /\ Registered(p, i) /\ ~validate_handle(p, i)
        /\ reg'[p][i] = reg[p][i] /\ Origin(p, i) \notin worn'
        => ~validate_handle(p, i)'
<1>1. HandleInv /\ [RegNext]_regVars => [Dead]_regVars
  <2> SUFFICES ASSUME HandleInv, RegNext,
                      NEW p \in Procs, NEW i \in RegSlots,
                      Registered(p, i), ~validate_handle(p, i),
                      reg'[p][i] = reg[p][i], Origin(p, i) \notin worn'
               PROVE  ~validate_handle(p, i)'
    OBVIOUS
  <2>1. CASE Next /\ UNCHANGED reg
    <3> DEFINE c == Origin(p, i)
    <3>1. /\ Untouched(c) \/ gen'[c] = gen[c] + 1
          /\ reg[p][i].gen <= gen[c] /\ reg[p][i].gen \in Nat /\ gen[c] \in Nat
      BY <2>1, HandleStep
    <3>2. reg[p][i].gen # gen[c]
      BY DEF validate_handle
    <3>3. reg[p][i].gen # gen'[c]
      BY <3>1, <3>2 DEF Untouched
    <3> QED
      BY <2>1, <3>3 DEF validate_handle, Origin
  <2>2. CASE UNCHANGED vars
    BY <2>2 DEF validate_handle, Registered, Origin, vars
  <2> QED
    BY <2>1, <2>2 DEF RegNext, cap_register, cap_unregister
<1>2. RegSpec => [][Dead]_regVars
  BY <1>1, HandleInvariant, PTL DEF RegSpec
<1> QED
  BY <1>2 DEF StaleForever

-----------------------------------------------------------------------------
(* Both services are clients of the tables: no call of theirs does to a CSpace,    *)
(* a pool or a count what a call of CapSystem could not do.                         *)

(* A step of the socket service is a step of the tables, or leaves them alone.*)
LEMMA SocketStepIsStep ==
  [NetNext]_<<vars, netVars>> => [Next]_vars
<1> SUFFICES ASSUME [NetNext]_<<vars, netVars>>, ~UNCHANGED vars PROVE Next
  OBVIOUS
<1>1. ASSUME NEW p \in Tier1, CapCall(p) PROVE Next
  BY <1>1 DEF CapCall, Next, TenantStep, PlainStep
<1>2. ASSUME NEW p \in Tier1, SocketCall(p) PROVE Next
  <2>1. CASE \E t \in Slots, h \in Handles, i \in SocketIds : create_socket(p, t, h, i)
    BY <2>1 DEF create_socket, Next, TenantStep, PlainStep
  <2>2. CASE \E s \in Slots, released \in BOOLEAN : close_socket(p, s, released)
    BY <2>2 DEF close_socket, Next, TenantStep, PlainStep
  <2>3. CASE \/ \E t \in Slots, h \in Handles : create_rolled_back(p, t, h)
             \/ \E s \in Slots : \/ socket_bind(p, s) \/ socket_listen(p, s)
                                 \/ AcceptCall(p, s) \/ socket_send_canned(p, s)
    BY <2>3 DEF create_rolled_back, socket_bind, socket_listen, socket_send_canned,
                AcceptCall, AcceptExpired, AcceptReady, AcceptPending, AcceptFails
  <2> QED
    BY <1>2, <2>1, <2>2, <2>3 DEF SocketCall
<1>3. ASSUME IdlePoll \/ Tick PROVE FALSE
  BY <1>3 DEF IdlePoll, Tick
<1> QED
  BY <1>1, <1>2, <1>3 DEF NetNext

(* Whatever is proved of the tables holds beside the socket service: every call *)
(* of it goes through the tables of the capability system or leaves them alone.  *)
THEOREM SocketServiceIsClient == NetSpec => Spec
<1>1. NetInit => Init
  BY DEF NetInit
<1> QED
  BY <1>1, SocketStepIsStep, PTL DEF NetSpec, Spec

(* Registration touches no table: its steps are those of CapSystem or stutter.   *)
LEMMA RegisteredStepIsStep == [RegNext]_regVars => [Next]_vars
  BY DEF RegNext, regVars, cap_register, cap_unregister

(* And beside the registered handles (reg.rs, cap_register and cap_unregister).      *)
THEOREM HandlesAreClients == RegSpec => Spec
<1>1. RegInit => Init
  BY DEF RegInit
<1> QED
  BY <1>1, RegisteredStepIsStep, PTL DEF RegSpec, Spec

(* With sockets that are created, served and closed: no Socket entry is named from  *)
(* two CSpaces, and no call changes two (syscall.rs, net_socket_create_impl).        *)
THEOREM SocketsStayPrivate == NetSpec => [](NoSharedSocket) /\ StaysHome
  BY SocketServiceIsClient, SocketsPrivate, Isolation, PTL

(* With handles registered and dropped: counts are exact and no right grows          *)
(* (reg.rs; objects.rs, inc_refcount and dec_refcount).                              *)
THEOREM HandlesCountAndConfine == RegSpec => []RefcountExact /\ AuthorityNeverGrows
  BY HandlesAreClients, RefcountCorrect, AuthorityConfined, PTL

-----------------------------------------------------------------------------
(* Accept windows.                                                          *)
WindowInv == TypeOK /\ window \in [Handles -> Nat \cup {NoWindow}]

(* What a step does to the windows: nothing; time passes; one that is not    *)
(* expired is opened or forgotten; or a slot is closed or was never given.    *)
LEMMA WindowStep ==
  ASSUME WindowInv, [NetNext]_<<vars, netVars>>
  PROVE  \/ UNCHANGED window
         \/ Tick
         \/ \E h \in Handles : ~Expired(h) /\ (ForgetWindow(h) \/ OpenWindow(h))
         \/ \E h \in Handles : h \notin open /\ ForgetWindow(h)
         \/ \E c \in Cell : /\ IsSocket(caps[c].obj) /\ ForgetWindow(handle[caps[c].obj])
                            /\ ~Occupied(c)'
<1>1. ASSUME NEW p \in Tier1, CapCall(p) PROVE UNCHANGED window
  BY <1>1 DEF CapCall, netVars
<1>2. ASSUME NEW p \in Tier1, NEW t \in Slots, NEW h \in Handles, NEW i \in SocketIds,
             create_socket(p, t, h, i)
      PROVE  UNCHANGED window
  BY <1>2 DEF create_socket
<1>3. ASSUME NEW p \in Tier1, NEW t \in Slots, NEW h \in Handles, create_rolled_back(p, t, h)
      PROVE  h \notin open /\ ForgetWindow(h)
  BY <1>3 DEF create_rolled_back, FirstFree
<1>4. ASSUME NEW p \in Tier1, NEW s \in Slots, NEW released \in BOOLEAN,
             close_socket(p, s, released)
      PROVE  \E c \in Cell : /\ IsSocket(caps[c].obj) /\ ForgetWindow(handle[caps[c].obj])
                             /\ ~Occupied(c)'
  <2>1. <<p, s>> \in Cell /\ IsSocket(caps[<<p, s>>].obj)
        /\ ForgetWindow(handle[caps[<<p, s>>].obj])
    BY <1>4, ProcsAssumption DEF close_socket, net_socket_close, Cell
  <2>2. caps'[<<p, s>>] = EmptyCap
    BY <1>4, <2>1 DEF close_socket, net_socket_close, ClearCells
  <2> QED
    BY <2>1, <2>2 DEF Occupied
<1>5. ASSUME NEW p \in Tier1, NEW s \in Slots, AcceptCall(p, s)
      PROVE  \/ UNCHANGED window
             \/ \E h \in Handles : ~Expired(h) /\ (ForgetWindow(h) \/ OpenWindow(h))
  BY <1>5 DEF AcceptCall, AcceptExpired, AcceptReady, AcceptPending, AcceptFails
<1>6. ASSUME NEW p \in Tier1, NEW s \in Slots,
             socket_bind(p, s) \/ socket_listen(p, s) \/ socket_send_canned(p, s)
      PROVE  UNCHANGED window
  BY <1>6 DEF socket_bind, socket_listen, socket_send_canned
<1>7. ASSUME IdlePoll PROVE UNCHANGED window
  BY <1>7 DEF IdlePoll
<1>8. CASE UNCHANGED <<vars, netVars>>
  BY <1>8 DEF netVars
<1> QED
  BY <1>1, <1>2, <1>3, <1>4, <1>5, <1>6, <1>7, <1>8 DEF NetNext, SocketCall

(* Windows stay times.                                                      *)
LEMMA WindowInvStep == WindowInv /\ [NetNext]_<<vars, netVars>> => WindowInv'
<1> SUFFICES ASSUME WindowInv, [NetNext]_<<vars, netVars>> PROVE WindowInv'
  OBVIOUS
<1>1. TypeOK'
  BY SocketStepIsStep, TypeStep DEF WindowInv
<1>2. window' \in [Handles -> Nat \cup {NoWindow}]
  <2>1. CASE Tick
    BY <2>1, DeadlineAssumption DEF Tick, WindowInv
  <2>2. ASSUME NEW h, ForgetWindow(h) \/ OpenWindow(h)
        PROVE  window' \in [Handles -> Nat \cup {NoWindow}]
    BY <2>2 DEF ForgetWindow, OpenWindow, WindowInv
  <2> QED
    BY <2>1, <2>2, WindowStep DEF WindowInv
<1> QED
  BY <1>1, <1>2 DEF WindowInv

(* A tenant that polled in vain until the deadline goes on being told so, with a    *)
(* connection that comes late or with other sockets opened and closed, until a      *)
(* cap that names the driver slot is closed (tier2_net.rs).                         *)
THEOREM ExpiryPersists == NetSpec => ExpiredUntilClosed
<1> DEFINE Kept == \A h \in open :
                     Expired(h) /\ ~Expired(h)' =>
                       \E c \in Cell : /\ IsSocket(caps[c].obj) /\ handle[caps[c].obj] = h
                                       /\ ~Occupied(c)'
<1>1. NetInit => WindowInv
  BY TypeInit DEF NetInit, WindowInv
<1>2. WindowInv /\ [NetNext]_<<vars, netVars>> => Kept
  <2> SUFFICES ASSUME WindowInv, [NetNext]_<<vars, netVars>>,
                      NEW h \in open, Expired(h), ~Expired(h)'
               PROVE  \E c \in Cell : /\ IsSocket(caps[c].obj) /\ handle[caps[c].obj] = h
                                      /\ ~Occupied(c)'
    OBVIOUS
  <2>1. h \in Handles /\ window \in [Handles -> Nat \cup {NoWindow}]
    BY DEF WindowInv, TypeOK
  <2>2. window[h] \in Nat /\ window[h] # NoWindow /\ window[h] >= Deadline /\ window'[h] # window[h]
    BY <2>1, DeadlineAssumption DEF Expired
  <2>3. CASE Tick
    BY <2>1, <2>2, <2>3, DeadlineAssumption DEF Tick
  <2>4. ASSUME NEW k, ForgetWindow(k) \/ OpenWindow(k)
        PROVE  k = h
    BY <2>1, <2>2, <2>4 DEF ForgetWindow, OpenWindow
  <2> QED
    BY <2>2, <2>3, <2>4, WindowStep
<1>3. WindowInv /\ [NetNext]_<<vars, netVars>> => WindowInv'
  BY WindowInvStep
<1> HIDE DEF Kept
<1>4. NetSpec => [][Kept]_<<vars, netVars>>
  BY <1>1, <1>2, <1>3, PTL DEF NetSpec
<1> QED
  BY <1>4 DEF ExpiredUntilClosed, Kept

-----------------------------------------------------------------------------
(* Driver slots and pool entries.                                            *)

(* Clearing caps none of which names slot h takes no entry from it or to it.   *)
LEMMA ClearKeepsNames ==
  ASSUME TypeOK, NEW R \in SUBSET Cell, NEW bumped, ClearCells(R, bumped), NEW h \in Handles,
         \A c \in R : ~(IsSocket(caps[c].obj) /\ handle[caps[c].obj] = h)
  PROVE  Named(h)' <=> Named(h)
<1> SUFFICES ASSUME NEW i \in SocketIds
             PROVE  (refs'[i] > 0 /\ handle'[i] = h) <=> (refs[i] > 0 /\ handle[i] = h)
  BY DEF Named
<1> DEFINE cleared == {c \in R : caps[c].obj = i}
           n == Cardinality(cleared)
<1>1. i \in Counted /\ refs[i] \in Nat /\ h # NoHandle
  BY ObjectsAssumption DEF TypeOK, Counted
<1>2. /\ refs'[i] = IF refs[i] > n THEN refs[i] - n ELSE 0
      /\ handle'[i] = IF refs'[i] = 0 THEN NoHandle ELSE handle[i]
  BY <1>1 DEF ClearCells, dec_refcount
<1>3. n \in Nat
  BY CellFinite, FS_Subset, FS_CardinalityType
<1>4. CASE handle[i] = h
  <2>1. cleared = {}
    BY <1>4 DEF IsSocket
  <2>2. n = 0
    BY <2>1, FS_EmptySet
  <2> HIDE DEF n
  <2>3. refs'[i] = refs[i]
    BY <1>1, <1>2, <2>2
  <2> QED
    BY <1>1, <1>2, <1>4, <2>3
<1>5. CASE handle[i] # h
  BY <1>1, <1>2, <1>5
<1> QED
  BY <1>4, <1>5

(* What a cap names is cleared with it, or the slot keeps its entries.          *)
LEMMA ClearAccounted ==
  ASSUME TypeOK, NEW R \in SUBSET Cell, NEW bumped, ClearCells(R, bumped), NEW h \in Handles
  PROVE  \/ Named(h)' <=> Named(h)
         \/ \E c \in Cell : /\ IsSocket(caps[c].obj) /\ handle[caps[c].obj] = h
                           /\ ~Occupied(c)'
<1> SUFFICES ASSUME NEW c \in R, IsSocket(caps[c].obj) /\ handle[caps[c].obj] = h
             PROVE  ~Occupied(c)'
  BY ClearKeepsNames
<1> QED
  BY DEF ClearCells, Occupied

(* A new reference goes to an entry that has one.                              *)
LEMMA CountKeepsNames ==
  ASSUME TypeOK, NEW o, refs' = inc_refcount(o), UNCHANGED <<handle, open>>, NEW h \in Handles
  PROVE  Agree(h)' <=> Agree(h)
<1>1. \A i \in SocketIds : refs'[i] > 0 <=> refs[i] > 0
  BY DEF TypeOK, inc_refcount, Counted
<1> QED
  BY <1>1 DEF Agree, Named

(* A step of the tables parts a driver slot from its entries only as it clears   *)
(* a cap that names the slot.                                                *)
LEMMA SlotStep ==
  ASSUME TypeOK, [Next]_vars, NEW h \in Handles, Agree(h), ~Agree(h)'
  PROVE  \E c \in Cell : /\ IsSocket(caps[c].obj) /\ handle[caps[c].obj] = h
                       /\ ~Occupied(c)'
<1>1. ASSUME NEW p \in Tier1, NEW s \in Slots, NEW t \in Slots, NEW r \in SUBSET Rights,
             cap_mint(p, s, t, r) \/ cap_copy(p, s, t)
      PROVE  FALSE
  BY <1>1, CountKeepsNames DEF cap_mint, cap_copy
<1>2. ASSUME NEW R \in SUBSET Cell, NEW bumped, ClearCells(R, bumped), UNCHANGED open
      PROVE  \E c \in Cell : /\ IsSocket(caps[c].obj) /\ handle[caps[c].obj] = h
                           /\ ~Occupied(c)'
  BY <1>2, ClearAccounted DEF Agree
<1>3. ASSUME NEW p \in Tier1, NEW s \in Slots, cap_delete(p, s) \/ cap_revoke(p, s)
      PROVE  \E R \in SUBSET Cell : \E bumped : ClearCells(R, bumped) /\ UNCHANGED open
  <2>1. <<p, s>> \in Cell
    BY ProcsAssumption DEF Cell
  <2>2. {<<p, s>>} \in SUBSET Cell /\ RevokeSet(<<p, s>>) \in SUBSET Cell
    BY <2>1 DEF RevokeSet, Derived
  <2> QED
    BY <1>3, <2>2 DEF cap_delete, cap_revoke
<1>4. ASSUME NEW p \in Tier1, NEW t \in Slots, NEW k \in Handles, NEW i \in SocketIds,
             net_socket_create(p, t, k, i)
      PROVE  FALSE
  <2>1. /\ refs' = [refs EXCEPT ![i] = 1] /\ handle' = [handle EXCEPT ![i] = k]
        /\ open' = open \cup {k} /\ ~(refs[i] > 0)
    BY <1>4 DEF net_socket_create, FirstFree
  <2>2. i \in DOMAIN refs /\ i \in DOMAIN handle
    BY DEF TypeOK, Counted
  <2>3. CASE h = k
    BY <2>1, <2>2, <2>3 DEF Agree, Named
  <2>4. CASE h # k
    BY <2>1, <2>2, <2>4 DEF Agree, Named
  <2> QED
    BY <2>3, <2>4
<1>5. ASSUME NEW p \in Tier1, NEW s \in Slots, NEW released \in BOOLEAN,
             net_socket_close(p, s, released)
      PROVE  \E c \in Cell : /\ IsSocket(caps[c].obj) /\ handle[caps[c].obj] = h
                           /\ ~Occupied(c)'
  <2> DEFINE c == <<p, s>>
  <2>1. c \in Cell
    BY ProcsAssumption DEF Cell
  <2>2. /\ IsSocket(caps[c].obj) /\ ClearCells({c}, WrappingBump({c}))
        /\ open' \in {open, open \ {handle[caps[c].obj]}}
    BY <1>5 DEF net_socket_close
  <2>3. CASE handle[caps[c].obj] = h
    BY <2>1, <2>2, <2>3 DEF ClearCells, Occupied
  <2>4. CASE handle[caps[c].obj] # h
    <3>1. h \in open' <=> h \in open
      BY <2>2, <2>4
    <3> QED
      BY <2>1, <2>2, <3>1, ClearAccounted DEF Agree
  <2> QED
    BY <2>3, <2>4
<1>6. ASSUME UNCHANGED <<refs, handle, open>> PROVE FALSE
  BY <1>6 DEF Agree, Named
<1>7. ASSUME NEW p \in Tier1, Terminate(p) \/ \E w \in BOOLEAN : install_tier1_grants(p, w)
      PROVE  UNCHANGED <<refs, handle, open>>
  BY <1>7 DEF Terminate, install_tier1_grants, EndowCSpace
<1>8. CASE UNCHANGED vars
  BY <1>6, <1>8 DEF vars
<1> QED
  BY <1>1, <1>2, <1>3, <1>4, <1>5, <1>6, <1>7, <1>8 DEF Next, TenantStep, PlainStep

(* The socket service keeps its two tables in step: a taken driver slot and the     *)
(* live pool entry that names it part only when a cap that names the slot is        *)
(* cleared, and not when the pool is full or the driver refuses (syscall.rs).       *)
THEOREM SlotsStayAccounted == NetSpec => SlotsAccounted
<1> DEFINE Kept == \A h \in Handles :
                     Agree(h) /\ ~Agree(h)' =>
                       \E c \in Cell : /\ IsSocket(caps[c].obj) /\ handle[caps[c].obj] = h
                                       /\ ~Occupied(c)'
<1>1. TypeOK /\ [Next]_vars => Kept
  BY SlotStep
<1> HIDE DEF Kept
<1>2. TypeOK /\ [NetNext]_<<vars, netVars>> => Kept
  BY <1>1, SocketStepIsStep
<1>3. NetSpec => [][Kept]_<<vars, netVars>>
  BY <1>2, SocketServiceIsClient, TypeCorrect, PTL DEF NetSpec
<1> QED
  BY <1>3 DEF SlotsAccounted, Kept

-----------------------------------------------------------------------------
(* The walk of cap_revoke (RevokeWalk): its passes find exactly the revoked    *)
(* cap and its descendants, and cell by cell it does what cap_revoke of         *)
(* CapSystem does at once.                                                    *)

(* Discovery.                                                               *)

(* The tables are as the revocation found them.                               *)
AsFound ==
  before = [caps |-> caps, gen |-> gen, refs |-> refs,
            handle |-> handle, worn |-> worn, target |-> before.target]

(* What the passes keep up: the set grows from the target inside what is to    *)
(* be revoked, and in a pass that has added nothing no cell visited so far     *)
(* hangs below the set.                                                     *)
Discovering ==
  /\ AsFound
  /\ before.target \in set
  /\ \A c \in set : c \in RevokeSet(before.target)
  /\ ~changed => \A i \in 1 .. cursor - 1 :
                   (\E c \in set : Linked(Order[i], c)) => Order[i] \in set

WalkInv ==
  /\ phase \in {"idle", "discover", "clear"}
  /\ phase # "idle" => before.target \in Cell /\ cursor \in 1 .. N /\ set \subseteq Cell
  /\ phase = "discover" => Discovering
  /\ phase = "clear" /\ cursor = 1 => AsFound /\ set = RevokeSet(before.target)

(* The walk has a first slot to look at.                                     *)
LEMMA CellsCounted == N \in Nat /\ (Cell # {} => 1 \in 1 .. N)
<1>1. N \in Nat
  BY CellFinite, FS_CardinalityType DEF N
<1>2. Cell # {} => N # 0
  BY CellFinite, FS_EmptySet DEF N
<1> QED
  BY <1>1, <1>2

(* The revoked cap is in its own set.                                        *)
LEMMA TargetRevoked == \A c \in Cell : c \in RevokeSet(c)
  BY DEF RevokeSet

(* A child of what is to be revoked is to be revoked.                         *)
LEMMA ChildRevoked ==
  ASSUME NEW t \in Cell, NEW c \in RevokeSet(t), NEW d \in Cell, Linked(d, c)
  PROVE  d \in RevokeSet(t)
<1>1. d \in Derived
  BY DEF Linked, Derived
<1> QED
  BY <1>1 DEF RevokeSet, Closed

(* A closed set with the revoked cap in it has all there is to revoke.        *)
LEMMA ClosedRevokesAll ==
  ASSUME NEW t \in Cell, NEW S \in SUBSET RevokeSet(t), t \in S, Closed(S)
  PROVE  S = RevokeSet(t)
<1>1. S \subseteq Derived \cup {t}
  BY DEF RevokeSet
<1>2. S = {t} \cup (S \cap Derived)
  BY <1>1
<1>3. S \in {{t} \cup Q : Q \in SUBSET Derived}
  BY <1>2
<1> QED
  BY <1>3 DEF RevokeSet

(* The check of a cell is whether it hangs below the set.                     *)
LEMMA BelongsIsLinked ==
  BelongsToSet <=> Here \notin set /\ \E c \in set : Linked(Here, c)
  BY DEF BelongsToSet, Linked, Occupied, EmptyCap

(* A pass that adds nothing leaves the set closed.                            *)
LEMMA QuietPassClosed ==
  ASSUME Discovering, ~changed, cursor = N, ~BelongsToSet, set \subseteq Cell
  PROVE  Closed(set)
<1> SUFFICES ASSUME NEW d \in Cell, NEW c \in set, Linked(d, c) PROVE d \in set
  BY DEF Closed, Derived
<1>1. PICK i \in 1 .. N : Order[i] = d
  BY OrderAssumption
<1>2. CASE i = N
  BY <1>1, <1>2, BelongsIsLinked DEF Here
<1>3. CASE i # N
  <2>1. i \in 1 .. cursor - 1
    BY <1>3, CellsCounted
  <2> QED
    BY <1>1, <2>1 DEF Discovering
<1> QED
  BY <1>2, <1>3

(* One cell of a discovery pass.                                            *)
LEMMA DiscoverKeeps ==
  ASSUME WalkInv, discover
  PROVE  WalkInv'
<1> DEFINE added == BelongsToSet
<1> PICK t : t = before.target
  OBVIOUS
<1>1. /\ phase = "discover" /\ Discovering /\ before.target \in Cell
      /\ cursor \in 1 .. N /\ set \subseteq Cell
      /\ set' = (IF added THEN set \cup {Here} ELSE set)
      /\ NextPass(added) /\ UNCHANGED <<vars, before>>
  BY DEF WalkInv, discover
<1>2. Here \in Cell
  BY <1>1, OrderAssumption DEF Here
<1>3. /\ UNCHANGED <<caps, gen, refs, handle, worn, before>>
      /\ AsFound' /\ RevokeSet(t)' = RevokeSet(t)
      /\ \A c, d : Linked(c, d)' <=> Linked(c, d)
  BY <1>1 DEF vars, Discovering, AsFound, RevokeSet, Derived, Closed, Linked
<1>4. added => \E c \in set : Linked(Here, c)
  BY BelongsIsLinked
<1>5. /\ before'.target = t /\ t \in set' /\ set' \subseteq Cell
      /\ \A c \in set' : c \in RevokeSet(t)'
  <2>1. t \in Cell /\ t \in set /\ set \subseteq RevokeSet(t)
    BY <1>1 DEF Discovering
  <2>2. added => Here \in RevokeSet(t)
    BY <1>2, <1>4, <2>1, ChildRevoked
  <2> QED
    BY <1>1, <1>2, <1>3, <2>1, <2>2
<1>6. (\A c \in set : c \in RevokeSet(before.target))' /\ (before.target \in set)'
  BY <1>5
<1>7. CASE cursor < N
  <2>1. /\ phase' = "discover" /\ cursor' = cursor + 1 /\ changed' = (changed \/ added)
    BY <1>1, <1>7 DEF NextPass
  <2>2. cursor' \in 1 .. N
    BY <1>1, <1>7, <2>1, CellsCounted
  <2>3. ASSUME ~changed', NEW i \in 1 .. cursor' - 1, NEW c \in set', Linked(Order[i], c)
        PROVE  Order[i] \in set'
    <3>1. ~changed /\ ~added /\ set' = set
      BY <1>1, <2>1, <2>3
    <3>2. CASE i = cursor
      BY <2>3, <3>1, <3>2, BelongsIsLinked DEF Here
    <3>3. CASE i # cursor
      <4>1. i \in 1 .. cursor - 1
        BY <1>1, <2>1, <3>3
      <4> QED
        BY <1>1, <2>3, <3>1, <4>1 DEF Discovering
    <3> QED
      BY <3>2, <3>3
  <2>4. Discovering'
    BY <1>3, <1>6, <2>3 DEF Discovering
  <2> QED
    BY <1>1, <1>5, <2>1, <2>2, <2>4 DEF WalkInv
<1>8. CASE ~(cursor < N)
  <2>1. /\ cursor = N /\ cursor' = 1 /\ changed' = FALSE /\ 1 \in 1 .. N
        /\ phase' = IF changed \/ added THEN "discover" ELSE "clear"
    BY <1>1, <1>2, <1>8, CellsCounted DEF NextPass
  <2>2. CASE changed \/ added
    <3>1. Discovering'
      BY <1>3, <1>6, <2>1 DEF Discovering
    <3> QED
      BY <1>1, <1>5, <2>1, <2>2, <3>1 DEF WalkInv
  <2>3. CASE ~(changed \/ added)
    <3>1. Closed(set)
      BY <1>1, <2>1, <2>3, QuietPassClosed
    <3>2. set = RevokeSet(before.target)
      BY <1>1, <3>1, ClosedRevokesAll DEF Discovering
    <3> QED
      BY <1>1, <1>3, <1>5, <2>1, <2>3, <3>2 DEF WalkInv
  <2> QED
    BY <2>2, <2>3
<1> QED
  BY <1>7, <1>8

(* One cell of the clearing pass.                                            *)
LEMMA ClearWalkKeeps ==
  ASSUME WalkInv, clear
  PROVE  WalkInv'
<1>1. /\ phase = "clear" /\ cursor \in 1 .. N /\ set \subseteq Cell /\ before.target \in Cell
      /\ \/ /\ cursor < N /\ cursor' = cursor + 1 /\ UNCHANGED <<phase, set, before>>
         \/ phase' = "idle"
  BY DEF WalkInv, clear, ClearPass
<1>2. cursor < N => cursor + 1 \in 1 .. N /\ cursor + 1 # 1
  BY <1>1, CellsCounted
<1> QED
  BY <1>1, <1>2 DEF WalkInv

(* The set is seeded with the revoked cap.                                   *)
LEMMA BeginKeeps ==
  ASSUME WalkInv, NEW p \in Tier1, NEW s \in Slots, begin_revoke(p, s)
  PROVE  WalkInv'
<1>1. PICK t \in Cell : t = <<p, s>>
  BY ProcsAssumption DEF Cell
<1>2. /\ phase' = "discover" /\ cursor' = 1 /\ set' = {t} /\ changed' = FALSE
      /\ before' = [caps |-> caps, gen |-> gen, refs |-> refs,
                    handle |-> handle, worn |-> worn, target |-> t]
      /\ UNCHANGED vars
  BY <1>1 DEF begin_revoke
<1>3. before'.target = t /\ 1 \in 1 .. N
  BY <1>1, <1>2, CellsCounted
<1>4. AsFound'
  BY <1>2, <1>3 DEF AsFound, vars
<1>5. t \in RevokeSet(t)'
  BY <1>1 DEF RevokeSet
<1>6. (\A c \in set : c \in RevokeSet(before.target))'
  BY <1>2, <1>3, <1>5
<1>7. Discovering'
  BY <1>2, <1>3, <1>4, <1>6 DEF Discovering
<1> QED
  BY <1>1, <1>2, <1>3, <1>7 DEF WalkInv

(* Every step keeps what the walk knows.                                     *)
LEMMA WalkInvStep == WalkInv /\ [WalkNext]_allVars => WalkInv'
<1> SUFFICES ASSUME WalkInv, [WalkNext]_allVars PROVE WalkInv'
  OBVIOUS
<1>1. CASE Between
  BY <1>1 DEF Between, WalkInv, walkVars
<1>2. ASSUME NEW p \in Tier1, NEW s \in Slots, begin_revoke(p, s)
      PROVE  WalkInv'
  BY <1>2, BeginKeeps
<1>3. CASE discover
  BY <1>3, DiscoverKeeps
<1>4. CASE clear
  BY <1>4, ClearWalkKeeps
<1>5. CASE UNCHANGED allVars
  <2>1. UNCHANGED <<caps, gen, refs, handle, worn, phase, cursor, set, changed, before>>
    BY <1>5 DEF allVars, vars, walkVars
  <2>2. /\ RevokeSet(before.target)' = RevokeSet(before.target)
        /\ \A c, d : Linked(c, d)' <=> Linked(c, d)
    BY <2>1 DEF RevokeSet, Derived, Closed, Linked
  <2> QED
    BY <2>1, <2>2 DEF WalkInv, Discovering, AsFound
<1> QED
  BY <1>1, <1>2, <1>3, <1>4, <1>5 DEF WalkNext

(* It knows nothing at first.                                                *)
LEMMA WalkInvInit == WalkInit => WalkInv
  BY DEF WalkInit, WalkInv

(* However children and parents are placed and in whatever order the cells    *)
(* are visited, the passes stop with exactly the revoked cap and its           *)
(* descendants in the bitmap (revoke.rs, discover).                           *)
THEOREM DiscoveryExact == WalkSpec => []DiscoverExact
<1>1. WalkInv => DiscoverExact
  BY DEF WalkInv, DiscoverExact
<1> QED
  BY <1>1, WalkInvInit, WalkInvStep, PTL DEF WalkSpec

-----------------------------------------------------------------------------
(* Derivation, while cells are cleared one at a time.                         *)

(* Between two steps of the walk, too, derivations hold.                     *)
LEMMA WalkDerivationStep ==
  DerivationInv /\ WalkInv /\ [WalkNext]_allVars => DerivationInv'
<1> SUFFICES ASSUME DerivationInv, WalkInv, [WalkNext]_allVars PROVE DerivationInv'
  OBVIOUS
<1>1. CASE Between
  BY <1>1, DerivationStep DEF Between, Next, TenantStep
<1>2. CASE UNCHANGED vars
  BY <1>2, DerivationStep
<1>3. CASE clear /\ ~UNCHANGED vars
  <2>1. /\ Here \in Cell
        /\ ClearCells({Here}, SaturatingBump({Here})) /\ UNCHANGED <<open, status>>
    BY <1>3, OrderAssumption DEF clear, ClearPass, WalkInv, Here
  <2>2. PICK R \in SUBSET Cell : R = {Here}
    BY <2>1
  <2>3. Rest'
    BY <2>1, <2>2, SaturatingClear
  <2>4. TypeOK'
    BY <2>1, <2>2, ClearType, BumpType DEF DerivationInv, TypeOK
  <2> QED
    BY <2>3, <2>4 DEF DerivationInv, Rest
<1> QED
  BY <1>1, <1>2, <1>3 DEF WalkNext, begin_revoke, discover, allVars

(* In the middle of a revocation, too, every cap that is left descends from   *)
(* the cap its parent's cell holds.                                          *)
THEOREM WalkDerivation == WalkSpec => []DerivationInv
<1>1. WalkInit => DerivationInv
  BY DerivationInit DEF WalkInit
<1> QED
  BY <1>1, WalkInvInit, WalkInvStep, WalkDerivationStep, PTL DEF WalkSpec

-----------------------------------------------------------------------------
(* Refinement: cell by cell, what cap_revoke does at once.                    *)

(* The members of the set that the clearing pass has come by.                 *)
Cleared == set \cap {Order[i] : i \in 1 .. cursor - 1}

Lost(x) == Cardinality({c \in Cleared : before.caps[c].obj = x})

(* The tables in the middle of the clearing pass, from those it found.        *)
Clearing ==
  /\ caps = [c \in Cell |-> IF c \in Cleared THEN EmptyCap ELSE before.caps[c]]
  /\ gen = [c \in Cell |-> IF c \in Cleared /\ before.gen[c] < GenMax
                             THEN before.gen[c] + 1 ELSE before.gen[c]]
  /\ refs = [x \in Counted |->
               IF before.refs[x] > Lost(x) THEN before.refs[x] - Lost(x) ELSE 0]
  /\ handle = [i \in SocketIds |->
                 IF Cleared # {} /\ refs[i] = 0 THEN NoHandle ELSE before.handle[i]]
  /\ worn = before.worn \cup {c \in Cleared : before.gen[c] = GenMax}

(* What a revocation under way was called with, and what it found.            *)
BeforeOK ==
  /\ \E p \in Tier1, s \in Slots :
       /\ before.target = <<p, s>> /\ status[p] = "live"
       /\ before.caps[<<p, s>>] # EmptyCap /\ Write \in before.caps[<<p, s>>].rights
  /\ before.caps \in [Cell -> Cap \cup {EmptyCap}]
  /\ before.gen \in [Cell -> 0 .. GenMax]
  /\ before.refs \in [Counted -> Nat]
  /\ before.handle \in [SocketIds -> Handles \cup {NoHandle}]

AtomicInv ==
  /\ phase # "idle" => BeforeOK
  /\ phase = "discover" => caps = before.caps /\ gen = before.gen
  /\ phase = "clear" => /\ set = Atomic!RevokeSet(before.target)
                        /\ Clearing

(* The abstract module's definitions are its own copies; where it sees the    *)
(* tables as they are, they come to the same.                                *)
LEMMA AtomicCell == Atomic!Cell = Cell
  BY DEF Atomic!Cell, Cell

(* The set to revoke is told from the tables as they were at the call.       *)
LEMMA AtomicRevokeSet ==
  ASSUME Now("caps", caps) = caps, Now("gen", gen) = gen
  PROVE  \A c : Atomic!RevokeSet(c) = RevokeSet(c)
<1>1. \A d, c : Atomic!Linked(d, c) <=> Linked(d, c)
  BY DEF Atomic!Linked, Linked
<1>2. Atomic!Derived = Derived
  BY AtomicCell DEF Atomic!Derived, Derived
<1>3. \A R : Atomic!Closed(R) <=> Closed(R)
  BY <1>1, <1>2 DEF Atomic!Closed, Closed
<1> QED
  BY <1>2, <1>3 DEF Atomic!RevokeSet, RevokeSet

(* In the middle of a revocation the abstract tables do not move.             *)
LEMMA AtomicSetFixed ==
  ASSUME phase # "idle", phase' # "idle", UNCHANGED before
  PROVE  \A c : Atomic!RevokeSet(c)' = Atomic!RevokeSet(c)
<1>1. /\ Now("caps", caps)' = Now("caps", caps)
      /\ Now("gen", gen)' = Now("gen", gen)
  BY DEF Now
<1>2. \A d, c : Atomic!Linked(d, c)' <=> Atomic!Linked(d, c)
  BY <1>1 DEF Atomic!Linked
<1>3. Atomic!Derived' = Atomic!Derived
  BY <1>1 DEF Atomic!Derived, Atomic!Cell
<1>4. \A R : Atomic!Closed(R)' <=> Atomic!Closed(R)
  BY <1>2, <1>3 DEF Atomic!Closed
<1> QED
  BY <1>3, <1>4 DEF Atomic!RevokeSet

(* A walk begins with the tables of its call,                                *)
LEMMA BeginAtomic ==
  ASSUME DerivationInv, NEW p \in Tier1, NEW s \in Slots, begin_revoke(p, s)
  PROVE  AtomicInv'
<1>1. /\ phase' = "discover" /\ UNCHANGED vars
      /\ before' = [caps |-> caps, gen |-> gen, refs |-> refs,
                    handle |-> handle, worn |-> worn, target |-> <<p, s>>]
      /\ status[p] = "live" /\ caps[<<p, s>>] # EmptyCap /\ Write \in caps[<<p, s>>].rights
  BY DEF begin_revoke, MayCall, Occupied
<1>2. /\ before'.target = <<p, s>> /\ before'.caps = caps /\ before'.gen = gen
      /\ before'.refs = refs /\ before'.handle = handle
      /\ UNCHANGED <<caps, gen, status>>
  BY <1>1 DEF vars
<1>3. BeforeOK'
  BY <1>1, <1>2 DEF BeforeOK, DerivationInv, TypeOK
<1> QED
  BY <1>1, <1>2, <1>3 DEF AtomicInv

(* Discovery ends with the set the abstract clears, and nothing cleared yet.  *)
LEMMA DiscoverAtomic ==
  ASSUME DerivationInv, WalkInv, AtomicInv, discover
  PROVE  AtomicInv'
<1>1. /\ phase = "discover" /\ UNCHANGED <<caps, gen, refs, handle, worn, status, before>>
      /\ phase' \in {"discover", "clear"} /\ WalkInv'
      /\ phase' = "clear" => cursor' = 1
  BY DiscoverKeeps DEF discover, NextPass, vars
<1>2. BeforeOK'
  BY <1>1 DEF AtomicInv, BeforeOK
<1>3. /\ before.caps = caps /\ before.gen = gen /\ before.refs = refs
      /\ before.handle = handle /\ before.worn = worn
  BY <1>1 DEF WalkInv, Discovering, AsFound
<1>4. ASSUME phase' = "clear"
      PROVE  set' = Atomic!RevokeSet(before.target)' /\ Clearing'
  <2>1. set' = RevokeSet(before.target)'
    BY <1>1, <1>4 DEF WalkInv
  <2>2. (Now("caps", caps) = caps /\ Now("gen", gen) = gen)'
    BY <1>1, <1>3, <1>4 DEF Now
  <2>3. (\A c : Atomic!RevokeSet(c) = RevokeSet(c))'
    BY <2>2, AtomicRevokeSet, PTL
  <2>4. Cleared' = {}
    BY <1>1, <1>4 DEF Cleared
  <2>5. \A x : Lost(x)' = 0
    BY <2>4, FS_EmptySet DEF Lost
  <2>6. Clearing'
    BY <1>1, <1>3, <2>4, <2>5 DEF Clearing, DerivationInv, TypeOK
  <2> QED
    BY <2>1, <2>3, <2>6
<1> QED
  BY <1>1, <1>2, <1>3, <1>4 DEF AtomicInv

(* What was found of the revoked cells: each held a cap.                      *)
LEMMA MembersHeldCaps ==
  ASSUME WalkInv, AtomicInv, phase = "clear"
  PROVE  \A c \in set : before.caps[c] # EmptyCap
<1>1. /\ set = Atomic!RevokeSet(before.target) /\ before.caps[before.target] # EmptyCap
      /\ Now("caps", caps) = before.caps
  BY DEF AtomicInv, BeforeOK, Now
<1>2. \A c \in set : c = before.target \/ before.caps[c].parent # ROOT
  BY <1>1 DEF Atomic!RevokeSet, Atomic!Derived
<1> QED
  BY <1>1, <1>2 DEF EmptyCap

(* One more cell counts for the object its cap names.                         *)
LEMMA LostOneMore ==
  ASSUME Cleared \subseteq Cell, NEW h \in Cell \ Cleared, NEW x
  PROVE  /\ Lost(x) \in Nat
         /\ Cardinality({c \in Cleared \cup {h} : before.caps[c].obj = x})
              = IF before.caps[h].obj = x THEN Lost(x) + 1 ELSE Lost(x)
<1> DEFINE A == {c \in Cleared : before.caps[c].obj = x}
           B == {c \in Cleared \cup {h} : before.caps[c].obj = x}
<1>1. IsFiniteSet(A) /\ Cardinality(A) \in Nat
  BY CellFinite, FS_Subset, FS_CardinalityType
<1>2. Cardinality(A \cup {h}) = Cardinality(A) + 1
  BY <1>1, FS_AddElement
<1>3. B = IF before.caps[h].obj = x THEN A \cup {h} ELSE A
  OBVIOUS
<1> QED
  BY <1>1, <1>2, <1>3 DEF Lost

(* The cell the clearing pass visits joins those it has come by: the tables   *)
(* lose what a revocation of just these cells would clear.                    *)
Visited == Cleared \cup ({Here} \cap set)

(* a clearing step removes one visited slot,                                 *)
LEMMA ClearTables ==
  ASSUME DerivationInv, WalkInv, AtomicInv, clear
  PROVE  /\ caps' = [c \in Cell |-> IF c \in Visited THEN EmptyCap ELSE before.caps[c]]
         /\ gen' = [c \in Cell |-> IF c \in Visited /\ before.gen[c] < GenMax
                                      THEN before.gen[c] + 1 ELSE before.gen[c]]
         /\ refs' = [x \in Counted |->
              LET n == Cardinality({c \in Visited : before.caps[c].obj = x})
              IN  IF before.refs[x] > n THEN before.refs[x] - n ELSE 0]
         /\ handle' = [i \in SocketIds |->
              IF Visited # {} /\ refs'[i] = 0 THEN NoHandle ELSE before.handle[i]]
         /\ worn' = before.worn \cup {c \in Visited : before.gen[c] = GenMax}
         /\ UNCHANGED <<open, status>>
<1>1. /\ phase = "clear" /\ Clearing /\ BeforeOK /\ Here \in Cell /\ Cleared \subseteq Cell
      /\ \A c \in set : before.caps[c] # EmptyCap
  BY OrderAssumption, MembersHeldCaps DEF AtomicInv, WalkInv, clear, ClearPass, Here, Cleared
<1>2. CASE Here \in set /\ Occupied(Here)
  <2>1. Here \notin Cleared /\ caps[Here] = before.caps[Here] /\ gen[Here] = before.gen[Here]
    BY <1>1, <1>2 DEF Clearing, Occupied
  <2>2. ClearCells({Here}, SaturatingBump({Here})) /\ UNCHANGED <<open, status>>
    BY <1>2 DEF clear, ClearPass
  <2>3. Visited = Cleared \cup {Here}
    BY <1>2 DEF Visited
  <2>4. caps' = [c \in Cell |-> IF c \in Visited THEN EmptyCap ELSE before.caps[c]]
    BY <1>1, <2>2, <2>3 DEF ClearCells, Clearing
  <2>5. gen' = [c \in Cell |-> IF c \in Visited /\ before.gen[c] < GenMax
                                 THEN before.gen[c] + 1 ELSE before.gen[c]]
    BY <1>1, <2>1, <2>2, <2>3 DEF ClearCells, SaturatingBump, Clearing
  <2>6. worn' = before.worn \cup {c \in Visited : before.gen[c] = GenMax}
    BY <1>1, <2>1, <2>2, <2>3 DEF ClearCells, Clearing
  <2>7. refs' = dec_refcount({Here})
    BY <2>2 DEF ClearCells
  <2>8. ASSUME NEW x \in Counted
        PROVE  /\ dec_refcount({Here})[x]
                    = LET n == Cardinality({c \in Visited : before.caps[c].obj = x})
                      IN  IF before.refs[x] > n THEN before.refs[x] - n ELSE 0
               /\ dec_refcount({Here})[x] # 0 => refs[x] # 0
    <3>1. Cardinality({c \in {Here} : caps[c].obj = x})
            = IF before.caps[Here].obj = x THEN 1 ELSE 0
      <4>1. {c \in {Here} : caps[c].obj = x}
              = IF before.caps[Here].obj = x THEN {Here} ELSE {}
        BY <2>1
      <4> QED
        BY <4>1, FS_EmptySet, FS_Singleton
    <3>2. PICK n \in Nat : n = Lost(x)
      BY <1>1, <2>1, LostOneMore
    <3>3. Cardinality({c \in Visited : before.caps[c].obj = x})
            = IF before.caps[Here].obj = x THEN n + 1 ELSE n
      BY <1>1, <2>1, <2>3, <3>2, LostOneMore
    <3>4. PICK b \in Nat : b = before.refs[x]
      BY <1>1 DEF BeforeOK
    <3>5. refs[x] = IF b > n THEN b - n ELSE 0
      BY <1>1, <3>2, <3>4 DEF Clearing
    <3>6. dec_refcount({Here})[x]
            = LET k == Cardinality({c \in {Here} : caps[c].obj = x})
              IN  IF refs[x] > k THEN refs[x] - k ELSE 0
      BY DEF dec_refcount
    <3> QED
      BY <3>1, <3>2, <3>3, <3>4, <3>5, <3>6
  <2>9. refs' = [x \in Counted |->
              LET n == Cardinality({c \in Visited : before.caps[c].obj = x})
              IN  IF before.refs[x] > n THEN before.refs[x] - n ELSE 0]
    BY <2>7, <2>8 DEF dec_refcount
  <2>10. handle' = [i \in SocketIds |->
              IF Visited # {} /\ refs'[i] = 0 THEN NoHandle ELSE before.handle[i]]
    <3>1. handle' = [i \in SocketIds |-> IF refs'[i] = 0 THEN NoHandle ELSE handle[i]]
      BY <2>2 DEF ClearCells
    <3>2. \A i \in SocketIds : refs'[i] # 0 => handle[i] = before.handle[i]
      BY <1>1, <2>7, <2>8 DEF Clearing, Counted
    <3> QED
      BY <2>3, <3>1, <3>2
  <2> QED
    BY <2>2, <2>4, <2>5, <2>6, <2>9, <2>10
<1>3. CASE ~(Here \in set /\ Occupied(Here))
  <2>1. UNCHANGED vars
    BY <1>3 DEF clear, ClearPass
  <2>2. Visited = Cleared
    BY <1>1, <1>3 DEF Visited, Clearing, Occupied
  <2> QED
    BY <1>1, <2>1, <2>2 DEF Clearing, Lost, vars
<1> QED
  BY <1>2, <1>3

(* The abstract module counts as this one does.                               *)
LEMMA CountsAlike == \A S : Atomic!Cardinality(S) = Cardinality(S)
  BY DEF Atomic!Cardinality, Cardinality

(* The last cell of the clearing pass: all of the set has been visited.       *)
LEMMA LastVisit ==
  ASSUME WalkInv, phase = "clear", ~(cursor < N)
  PROVE  Visited = set
<1>1. cursor = N /\ N \in Nat /\ set \subseteq Cell
  BY CellsCounted DEF WalkInv
<1>2. ASSUME NEW c \in set PROVE c \in Visited
  <2>1. PICK i \in 1 .. N : Order[i] = c
    BY <1>1, <1>2, OrderAssumption
  <2>2. CASE i = N
    BY <1>1, <1>2, <2>1, <2>2 DEF Visited, Here
  <2>3. CASE i # N
    <3>1. i \in 1 .. cursor - 1
      BY <1>1, <2>1, <2>3
    <3> QED
      BY <1>2, <2>1, <3>1 DEF Visited, Cleared
  <2> QED
    BY <2>2, <2>3
<1> QED
  BY <1>2 DEF Visited, Cleared

(* and keeps what is known of the tables at the call.                        *)
LEMMA ClearAtomic ==
  ASSUME DerivationInv, WalkInv, AtomicInv, clear
  PROVE  AtomicInv'
<1>1. CASE cursor < N
  <2>1. /\ phase = "clear" /\ cursor' = cursor + 1 /\ UNCHANGED <<phase, set, before, status>>
        /\ cursor \in 1 .. N /\ N \in Nat
    BY <1>1, CellsCounted, ClearTables DEF clear, ClearPass, WalkInv
  <2>2. Cleared' = Visited
    <3>1. \A i : i \in 1 .. (cursor + 1) - 1 <=> i \in 1 .. cursor - 1 \/ i = cursor
      BY <2>1
    <3> QED
      BY <2>1, <3>1 DEF Cleared, Visited, Here
  <2>3. Clearing'
    BY <2>1, <2>2, ClearTables DEF Clearing, Lost
  <2>4. Atomic!RevokeSet(before.target)' = Atomic!RevokeSet(before.target)
    BY <2>1, AtomicSetFixed
  <2>5. BeforeOK'
    BY <2>1 DEF AtomicInv, BeforeOK
  <2> QED
    BY <2>1, <2>3, <2>4, <2>5 DEF AtomicInv
<1>2. CASE ~(cursor < N)
  BY <1>2 DEF clear, ClearPass, AtomicInv
<1> QED
  BY <1>1, <1>2

(* So does every other step.                                                 *)
LEMMA AtomicInvStep ==
  DerivationInv /\ WalkInv /\ AtomicInv /\ [WalkNext]_allVars => AtomicInv'
<1> SUFFICES ASSUME DerivationInv, WalkInv, AtomicInv, [WalkNext]_allVars PROVE AtomicInv'
  OBVIOUS
<1>1. CASE Between
  BY <1>1 DEF Between, AtomicInv, walkVars
<1>2. ASSUME NEW p \in Tier1, NEW s \in Slots, begin_revoke(p, s)
      PROVE  AtomicInv'
  BY <1>2, BeginAtomic
<1>3. CASE discover
  BY <1>3, DiscoverAtomic
<1>4. CASE clear
  BY <1>4, ClearAtomic
<1>5. CASE UNCHANGED allVars
  <2>1. UNCHANGED <<caps, gen, refs, handle, worn, status, phase, cursor, set, before>>
    BY <1>5 DEF allVars, vars, walkVars
  <2>2. BeforeOK' <=> BeforeOK
    BY <2>1 DEF BeforeOK
  <2>3. phase # "idle" => Atomic!RevokeSet(before.target)' = Atomic!RevokeSet(before.target)
    BY <2>1, AtomicSetFixed
  <2>4. Clearing' <=> Clearing
    BY <2>1 DEF Clearing, Cleared, Lost
  <2> QED
    BY <2>1, <2>2, <2>3, <2>4 DEF AtomicInv
<1> QED
  BY <1>1, <1>2, <1>3, <1>4, <1>5 DEF WalkNext

-----------------------------------------------------------------------------
(* The steps, seen by the abstract module.                                    *)

(* Where the abstract module sees the tables as they are.                     *)
Seen ==
  /\ Now("caps", caps) = caps /\ Now("gen", gen) = gen /\ Now("refs", refs) = refs
  /\ Now("handle", handle) = handle /\ Now("worn", worn) = worn

(* No walk under way: the tables are seen as they are.                       *)
LEMMA IdleSeen == phase = "idle" => Seen
  BY DEF Seen, Now

(* Its clearing of cells is then the clearing of cells.                       *)
LEMMA ClearSeen ==
  ASSUME Seen, Seen', NEW R, NEW b, ClearCells(R, b)
  PROVE  Atomic!ClearCells(R, b)
<1>1. Atomic!Cell = Cell /\ Atomic!Counted = Counted
  BY DEF Atomic!Cell, Cell, Atomic!Counted, Counted
<1>2. Atomic!dec_refcount(R) = dec_refcount(R)
  BY <1>1, CountsAlike DEF Seen, Atomic!dec_refcount, dec_refcount
<1> QED
  BY <1>1, <1>2 DEF Seen, ClearCells, Atomic!ClearCells, Atomic!EmptyCap, EmptyCap

(* A step outside a walk is a step of the atomic tables,                     *)
LEMMA BetweenAtomic ==
  ASSUME Between
  PROVE  Atomic!Next
<1>1. phase = "idle" /\ phase' = "idle"
  BY DEF Between, walkVars
<1>2. Seen
  BY <1>1, IdleSeen
<1>3. Seen'
  BY <1>1 DEF Seen, Now
<1>4. /\ Atomic!Cell = Cell /\ Atomic!Counted = Counted
      /\ \A p : Atomic!MayCall(p) <=> MayCall(p)
      /\ \A c : Atomic!Occupied(c) <=> Occupied(c)
      /\ \A o : Atomic!inc_refcount(o) = inc_refcount(o)
  BY <1>2 DEF Seen, Atomic!Cell, Cell, Atomic!Counted, Counted, Atomic!MayCall, MayCall,
              Atomic!Occupied, Occupied, Atomic!EmptyCap, EmptyCap,
              Atomic!inc_refcount, inc_refcount
<1>5. ASSUME NEW p \in Tier1, PlainStep(p)
      PROVE  Atomic!PlainStep(p)
  <2>1. ASSUME NEW s \in Slots, NEW t \in Slots, NEW r \in SUBSET Rights, cap_mint(p, s, t, r)
        PROVE  Atomic!cap_mint(p, s, t, r)
    BY <1>2, <1>3, <1>4, <2>1 DEF Seen, cap_mint, Atomic!cap_mint
  <2>2. ASSUME NEW s \in Slots, NEW t \in Slots, cap_copy(p, s, t)
        PROVE  Atomic!cap_copy(p, s, t)
    BY <1>2, <1>3, <1>4, <2>2 DEF Seen, cap_copy, Atomic!cap_copy
  <2>3. ASSUME NEW s \in Slots, cap_delete(p, s)
        PROVE  Atomic!cap_delete(p, s)
    <3>1. Atomic!SaturatingBump({<<p, s>>}) = SaturatingBump({<<p, s>>})
      BY <1>2, <1>4 DEF Seen, Atomic!SaturatingBump, SaturatingBump
    <3> QED
      BY <1>2, <1>3, <1>4, <2>3, <3>1, ClearSeen DEF cap_delete, Atomic!cap_delete
  <2>4. ASSUME NEW t \in Slots, NEW h \in Handles, NEW i \in SocketIds,
               net_socket_create(p, t, h, i)
        PROVE  Atomic!net_socket_create(p, t, h, i)
    BY <1>2, <1>3, <1>4, <2>4 DEF Seen, net_socket_create, Atomic!net_socket_create,
                                  FirstFree, Atomic!FirstFree
  <2>5. ASSUME NEW s \in Slots, NEW released \in BOOLEAN, net_socket_close(p, s, released)
        PROVE  Atomic!net_socket_close(p, s, released)
    <3>1. Atomic!WrappingBump({<<p, s>>}) = WrappingBump({<<p, s>>})
      BY <1>2, <1>4 DEF Seen, Atomic!WrappingBump, WrappingBump
    <3>2. Atomic!ClearCells({<<p, s>>}, WrappingBump({<<p, s>>}))
      BY <1>2, <1>3, <2>5, ClearSeen DEF net_socket_close
    <3> QED
      BY <1>2, <1>3, <1>4, <2>5, <3>1, <3>2
      DEF Seen, net_socket_close, Atomic!net_socket_close, IsSocket, Atomic!IsSocket
  <2>6. ASSUME Terminate(p)
        PROVE  Atomic!Terminate(p)
    BY <1>2, <1>3, <1>4, <2>6 DEF Seen, Terminate, Atomic!Terminate
  <2> QED
    <3>1. CASE \E s, t \in Slots : \E r \in SUBSET Rights : cap_mint(p, s, t, r)
      BY <2>1, <3>1 DEF Atomic!PlainStep
    <3>2. CASE \E s, t \in Slots : cap_copy(p, s, t)
      BY <2>2, <3>2 DEF Atomic!PlainStep
    <3>3. CASE \E s \in Slots : cap_delete(p, s)
      BY <2>3, <3>3 DEF Atomic!PlainStep
    <3>4. CASE \E t \in Slots : \E h \in Handles : \E i \in SocketIds :
                 net_socket_create(p, t, h, i)
      BY <2>4, <3>4 DEF Atomic!PlainStep
    <3>5. CASE \E s \in Slots : \E released \in BOOLEAN : net_socket_close(p, s, released)
      BY <2>5, <3>5 DEF Atomic!PlainStep
    <3>6. CASE Terminate(p)
      BY <2>6, <3>6 DEF Atomic!PlainStep
    <3> QED
      BY <1>5, <3>1, <3>2, <3>3, <3>4, <3>5, <3>6 DEF PlainStep
<1>6. ASSUME NEW p \in Tier1, NEW w \in BOOLEAN, install_tier1_grants(p, w)
      PROVE  Atomic!install_tier1_grants(p, w)
  <2>1. /\ Atomic!DynGrants(w) = DynGrants(w)
        /\ \A g : Atomic!RootCap(g) = RootCap(g)
        /\ Atomic!EmptyCap = EmptyCap
    BY DEF Atomic!DynGrants, DynGrants, Atomic!RootCap, RootCap, Atomic!EmptyCap, EmptyCap
  <2>2. Atomic!EndowCSpace(p, w)
    BY <1>2, <1>3, <1>4, <1>6, <2>1
    DEF Seen, install_tier1_grants, EndowCSpace, Atomic!EndowCSpace
  <2> QED
    BY <1>6, <2>2 DEF install_tier1_grants, Atomic!install_tier1_grants
<1>7. CASE \E p \in Tier1 : PlainStep(p)
  BY <1>5, <1>7 DEF Atomic!Next, Atomic!TenantStep
<1>8. CASE \E p \in Tier1 : \E w \in BOOLEAN : install_tier1_grants(p, w)
  BY <1>6, <1>8 DEF Atomic!Next
<1> QED
  BY <1>7, <1>8 DEF Between

(* The last cell cleared is where the abstract revokes: at once, what the     *)
(* passes found.                                                            *)
LEMMA ReturnAtomic ==
  ASSUME DerivationInv, WalkInv, AtomicInv, clear, ~(cursor < N)
  PROVE  \E p \in Tier1 : \E s \in Slots : Atomic!cap_revoke(p, s)
<1>1. /\ phase = "clear" /\ phase' = "idle" /\ BeforeOK
      /\ set = Atomic!RevokeSet(before.target) /\ Visited = set
  BY LastVisit DEF clear, ClearPass, AtomicInv
<1>2. Seen'
  BY <1>1 DEF Seen, Now
<1>3. /\ Now("caps", caps) = before.caps /\ Now("gen", gen) = before.gen
      /\ Now("refs", refs) = before.refs /\ Now("handle", handle) = before.handle
      /\ Now("worn", worn) = before.worn
  BY <1>1 DEF Now
<1>4. PICK p \in Tier1, s \in Slots :
        /\ before.target = <<p, s>> /\ status[p] = "live"
        /\ before.caps[<<p, s>>] # EmptyCap /\ Write \in before.caps[<<p, s>>].rights
  BY <1>1 DEF BeforeOK
<1> DEFINE R == Atomic!RevokeSet(<<p, s>>)
<1>5. R = Visited /\ R # {}
  <2>1. <<p, s>> \in R
    BY DEF Atomic!RevokeSet
  <2> QED
    BY <1>1, <1>4, <2>1
<1>6. Atomic!Cell = Cell /\ Atomic!Counted = Counted
  BY DEF Atomic!Cell, Cell, Atomic!Counted, Counted
<1>7. /\ Now("caps", caps)' = [c \in Cell |-> IF c \in R THEN EmptyCap ELSE before.caps[c]]
      /\ Now("gen", gen)' = Atomic!SaturatingBump(R)
      /\ Now("refs", refs)' = Atomic!dec_refcount(R)
      /\ Now("worn", worn)' = before.worn \cup {c \in R : before.gen[c] = GenMax}
  BY <1>2, <1>3, <1>5, <1>6, ClearTables, CountsAlike
  DEF Seen, Atomic!SaturatingBump, Atomic!dec_refcount
<1>8. Now("handle", handle)' = [i \in SocketIds |->
        IF Atomic!dec_refcount(R)[i] = 0 THEN NoHandle ELSE before.handle[i]]
  BY <1>2, <1>5, <1>7, ClearTables DEF Seen
<1>9. Atomic!ClearCells(R, Atomic!SaturatingBump(R))
  BY <1>3, <1>6, <1>7, <1>8 DEF Atomic!ClearCells, Atomic!EmptyCap, EmptyCap
<1>10. Atomic!MayCall(p) /\ Atomic!Occupied(<<p, s>>) /\ UNCHANGED <<open, status>>
  BY <1>3, <1>4, ClearTables DEF Atomic!MayCall, Atomic!Occupied, Atomic!EmptyCap, EmptyCap
<1> QED
  BY <1>3, <1>4, <1>9, <1>10 DEF Atomic!cap_revoke

(* a step of the walk is a stutter, and its last one the whole revoke.       *)
LEMMA WalkStepAtomic ==
  DerivationInv /\ WalkInv /\ AtomicInv /\ [WalkNext]_allVars
    => [Atomic!Next]_(Atomic!vars)
<1> SUFFICES ASSUME DerivationInv, WalkInv, AtomicInv, [WalkNext]_allVars
             PROVE  Atomic!Next \/ UNCHANGED Atomic!vars
  OBVIOUS
<1>1. CASE Between
  BY <1>1, BetweenAtomic
<1>2. ASSUME NEW p \in Tier1, NEW s \in Slots, begin_revoke(p, s)
      PROVE  UNCHANGED Atomic!vars
  BY <1>2 DEF begin_revoke, Atomic!vars, Now, vars
<1>3. CASE discover
  <2>1. /\ phase = "discover" /\ phase' \in {"discover", "clear"}
        /\ UNCHANGED <<before, open, status>>
    BY <1>3 DEF discover, NextPass, vars
  <2> QED
    BY <2>1 DEF Atomic!vars, Now
<1>4. CASE clear /\ cursor < N
  <2>1. phase = "clear" /\ phase' = "clear" /\ UNCHANGED <<before, open, status>>
    BY <1>4, ClearTables DEF clear, ClearPass
  <2> QED
    BY <2>1 DEF Atomic!vars, Now
<1>5. CASE clear /\ ~(cursor < N)
  BY <1>5, ReturnAtomic DEF Atomic!Next, Atomic!TenantStep
<1>6. CASE UNCHANGED allVars
  BY <1>6 DEF allVars, vars, walkVars, Atomic!vars, Now
<1> QED
  BY <1>1, <1>2, <1>3, <1>4, <1>5, <1>6 DEF WalkNext

(* They begin alike.                                                         *)
LEMMA WalkInitAtomic == WalkInit => Atomic!Init
<1> SUFFICES ASSUME WalkInit PROVE Atomic!Init
  OBVIOUS
<1>1. Seen /\ Init
  BY IdleSeen DEF WalkInit
<1>2. /\ Atomic!Cell = Cell /\ Atomic!Counted = Counted /\ Atomic!EmptyCap = EmptyCap
      /\ \A g : Atomic!RootCap(g) = RootCap(g)
  BY DEF Atomic!Cell, Cell, Atomic!Counted, Counted, Atomic!EmptyCap, EmptyCap,
         Atomic!RootCap, RootCap
<1>3. Atomic!init_root_caps
  BY <1>1, <1>2, CountsAlike DEF Seen, Init, init_root_caps, Atomic!init_root_caps
<1> QED
  BY <1>1, <1>2, <1>3 DEF Seen, Init, Atomic!Init

(* Whatever the order of the cells, a revocation that visits them one by one  *)
(* is for everybody else cap_revoke in one step: each generation moves once,  *)
(* each cap gives back one reference (revoke.rs, discover and clear).         *)
THEOREM WalkImplementsRevoke == WalkSpec => ImplementsAtomicRevoke
<1>1. WalkInit => DerivationInv
  BY DerivationInit DEF WalkInit
<1>2. WalkInit => AtomicInv
  BY DEF WalkInit, AtomicInv
<1> QED
  BY <1>1, <1>2, WalkInvInit, WalkInvStep, WalkDerivationStep, AtomicInvStep,
     WalkInitAtomic, WalkStepAtomic, PTL
  DEF WalkSpec, ImplementsAtomicRevoke, Atomic!Spec

===============================================================================
