------------------------------ MODULE CapSystem ------------------------------
(***************************************************************************)
(* The dynamic capability system of the Wari kernel: per-process CSpaces   *)
(* of 16-byte caps (wari-cap/src/{types,cspace}.rs), reference-counted     *)
(* object pools (pool.rs, objects.rs), the revocation cascade (revoke.rs)  *)
(* and the host functions a Tier-1 tenant drives them with                 *)
(* (kernel/src/cap/syscall.rs, kernel/src/cap/boot.rs).                    *)
(*                                                                         *)
(* The kernel is single-hart and a host function is never preempted by     *)
(* another tenant (INV-1), so each host function is one action; tenants    *)
(* interleave between host functions.                                      *)
(***************************************************************************)
EXTENDS Naturals, FiniteSets

CONSTANTS
  Procs,         (* Process ids that occur in the instance.               *)
  Tier1,         (* Those whose linker carries the tenant host functions.  *)
  BootProcs,     (* Those populated by init_root_caps.                     *)
  Slots,         (* Slot numbers of a CSpace (0..255 in the kernel).       *)
  SlotNet,       (* SLOT_NET, the slot net_socket_create looks at.         *)
  Rights,        (* The right bits.                                        *)
  Read, Write,   (* CAP_RIGHT_READ, CAP_RIGHT_WRITE.                       *)
  GenMax,        (* u16::MAX, the largest generation.                      *)
  FixedObjects,  (* Pool objects allocated at boot.                        *)
  NetObjects,    (* Those of kind Net.                                     *)
  EventLog,      (* The singleton event ring: a kind without a pool.       *)
  SocketIds,     (* Indices of the Socket pool.                            *)
  Handles,       (* Slot indices of the net driver's socket table.         *)
  RootGrants,    (* What init_root_caps installs, by cell.                 *)
  DynBaseline,   (* What every runtime-loaded module gets, by slot.        *)
  DynEventLog,   (* The optional EVENTLOG grant, by slot.                  *)
  ROOT,          (* CapId::ROOT.                                           *)
  NoObject,      (* ObjectKind::Empty.                                     *)
  NoHandle       (* A free Socket pool entry records no handle.            *)

Cell    == Procs \X Slots
Counted == FixedObjects \cup SocketIds
Objects == Counted \cup {EventLog}
Grant   == [obj : FixedObjects \cup {EventLog}, rights : SUBSET Rights]

ASSUME ProcsAssumption ==
  /\ IsFiniteSet(Procs) /\ IsFiniteSet(Slots)
  /\ Tier1 \subseteq Procs /\ BootProcs \subseteq Procs
  /\ SlotNet \in Slots

ASSUME RightsAssumption == Read \in Rights /\ Write \in Rights

ASSUME GenAssumption == GenMax \in Nat \ {0}

ASSUME ObjectsAssumption ==
  /\ NetObjects \subseteq FixedObjects
  /\ SocketIds \subseteq Nat /\ Handles \subseteq Nat
  /\ FixedObjects \cap SocketIds = {}
  /\ EventLog \notin Counted
  /\ NoObject \notin Objects
  /\ NoHandle \notin Handles

ASSUME GrantsAssumption ==
  /\ DOMAIN RootGrants \subseteq BootProcs \X Slots
  /\ RootGrants \in [DOMAIN RootGrants -> Grant]
  /\ \A o \in FixedObjects :
       \E c \in DOMAIN RootGrants : RootGrants[c].obj = o
  /\ DOMAIN DynBaseline \subseteq Slots
  /\ DynBaseline \in [DOMAIN DynBaseline -> Grant]
  /\ DOMAIN DynEventLog \subseteq Slots
  /\ DynEventLog \in [DOMAIN DynEventLog -> Grant]
  /\ \A s \in DOMAIN DynBaseline : DynBaseline[s].obj \notin NetObjects
  /\ \A s \in DOMAIN DynEventLog : DynEventLog[s].obj = EventLog

(* The Tier-2 driver holds the NIC and imports none of the cap_* functions.  *)
ASSUME DriverAssumption ==
  \A n \in NetObjects :
    \E c \in DOMAIN RootGrants : c[1] \notin Tier1 /\ RootGrants[c].obj = n

(* A cap's parent is ROOT or names a cell and the generation it had.       *)
CapId == [cell : Cell, gen : 0 .. GenMax]

ASSUME RootAssumption == ROOT \notin CapId

(* Neither sentinel is a place a cap can be in.                              *)
ASSUME SentinelAssumption == {ROOT, NoHandle} \cap Cell = {}

EmptyCap == [obj |-> NoObject, rights |-> {}, parent |-> ROOT]
Cap == [obj : Objects, rights : SUBSET Rights, parent : CapId \cup {ROOT}]

VARIABLES
  caps,     (* CSpace.slots of every process.                               *)
  gen,      (* CSpace.generations of every process.                         *)
  refs,     (* Refcount of each pool object; 0 means not allocated.         *)
  handle,   (* smoltcp_handle of each Socket pool entry.                    *)
  open,     (* Driver side: handles whose SOCKET_HANDLE_FOR_BUF is taken.   *)
  status,   (* Whether a process is unused, live or has terminated.         *)
  worn      (* History: cells cleared while their generation was GenMax,    *)
            (* i.e. whose counter no longer tells occupants apart.          *)

vars == <<caps, gen, refs, handle, open, status, worn>>

Occupied(c) == caps[c] # EmptyCap
Holders(o)  == {c \in Cell : caps[c].obj = o}
IsSocket(o) == o \in SocketIds

-----------------------------------------------------------------------------
(* Helpers of the operations.                                              *)

(* inc_refcount: a freed object's index is a no-op.                         *)
inc_refcount(o) ==
  [x \in Counted |-> IF x = o /\ refs[x] > 0 THEN refs[x] + 1 ELSE refs[x]]

(* Mutants, here and below: the definition that follows with a slip in it.  *)
dec_refcount_frees_at_once(R) ==
  [x \in Counted |-> IF \E c \in R : caps[c].obj = x THEN 0 ELSE refs[x]]

dec_refcount_forgotten(R) == refs

(* dec_refcount of the objects of all the caps in R, saturating at 0, where *)
(* the object goes back to its pool.                                        *)
dec_refcount(R) ==
  [x \in Counted |->
     LET n == Cardinality({c \in R : caps[c].obj = x})
     IN  IF refs[x] > n THEN refs[x] - n ELSE 0]

SaturatingBump_forgotten(R) == gen

(* CSpace generation counters saturate on delete and revoke ...             *)
SaturatingBump(R) ==
  [c \in Cell |-> IF c \in R /\ gen[c] < GenMax THEN gen[c] + 1 ELSE gen[c]]

(* ... and wrap around on net_socket_close.                                 *)
WrappingBump(R) ==
  [c \in Cell |-> IF c \in R THEN (gen[c] + 1) % (GenMax + 1) ELSE gen[c]]

ClearCells(R, bumped) ==
  /\ caps' = [c \in Cell |-> IF c \in R THEN EmptyCap ELSE caps[c]]
  /\ gen' = bumped
  /\ refs' = dec_refcount(R)
  /\ handle' = [i \in SocketIds |->
                  IF dec_refcount(R)[i] = 0 THEN NoHandle ELSE handle[i]]
  /\ worn' = worn \cup {c \in R : gen[c] = GenMax}

Linked_any_process(d, c) ==
  /\ caps[d].parent # ROOT
  /\ caps[d].parent.cell[2] = c[2]
  /\ caps[d].parent.gen = gen[c]

(* discover: d hangs below c while c's generation is the one d recorded.    *)
Linked(d, c) ==
  /\ caps[d].parent # ROOT
  /\ caps[d].parent.cell = c
  /\ caps[d].parent.gen = gen[c]

Derived == {d \in Cell : caps[d].parent # ROOT}

Closed(R) == \A d \in Derived : (\E c \in R : Linked(d, c)) => d \in R

(* The fixpoint of the discovery passes: the least closed set holding c.    *)
RevokeSet(c) ==
  LET closedSets == {R \in {{c} \cup Q : Q \in SUBSET Derived} : Closed(R)}
  IN  {d \in Derived \cup {c} : \A R \in closedSets : d \in R}

(* Pool and driver tables hand out their first free index.                  *)
FirstFree(i, used, all) ==
  /\ i \in all \ used
  /\ \A j \in all \ used : i <= j

MayCall(p) == p \in Tier1 /\ status[p] = "live"

-----------------------------------------------------------------------------
(* The host functions.                                                     *)

cap_mint_any_rights(p, parent, target, r) ==
  /\ MayCall(p)
  /\ Occupied(<<p, parent>>) /\ ~Occupied(<<p, target>>)
  /\ caps' = [caps EXCEPT ![<<p, target>>] =
                [obj    |-> caps[<<p, parent>>].obj,
                 rights |-> r,
                 parent |-> [cell |-> <<p, parent>>, gen |-> gen[<<p, parent>>]]]]
  /\ refs' = inc_refcount(caps[<<p, parent>>].obj)
  /\ UNCHANGED <<gen, handle, open, status, worn>>

cap_mint_child_generation(p, parent, target, r) ==
  /\ MayCall(p)
  /\ Occupied(<<p, parent>>) /\ ~Occupied(<<p, target>>)
  /\ r \subseteq caps[<<p, parent>>].rights
  /\ caps' = [caps EXCEPT ![<<p, target>>] =
                [obj    |-> caps[<<p, parent>>].obj,
                 rights |-> r,
                 parent |-> [cell |-> <<p, parent>>, gen |-> gen[<<p, target>>]]]]
  /\ refs' = inc_refcount(caps[<<p, parent>>].obj)
  /\ UNCHANGED <<gen, handle, open, status, worn>>

cap_mint(p, parent, target, r) ==
  /\ MayCall(p)
  /\ Occupied(<<p, parent>>) /\ ~Occupied(<<p, target>>)
  /\ r \subseteq caps[<<p, parent>>].rights
  /\ caps' = [caps EXCEPT ![<<p, target>>] =
                [obj    |-> caps[<<p, parent>>].obj,
                 rights |-> r,
                 parent |-> [cell |-> <<p, parent>>, gen |-> gen[<<p, parent>>]]]]
  /\ refs' = inc_refcount(caps[<<p, parent>>].obj)
  /\ UNCHANGED <<gen, handle, open, status, worn>>

cap_copy(p, src, target) ==
  /\ MayCall(p)
  /\ Occupied(<<p, src>>) /\ ~Occupied(<<p, target>>)
  /\ caps' = [caps EXCEPT ![<<p, target>>] = caps[<<p, src>>]]
  /\ refs' = inc_refcount(caps[<<p, src>>].obj)
  /\ UNCHANGED <<gen, handle, open, status, worn>>

cap_revoke(p, s) ==
  /\ MayCall(p)
  /\ Occupied(<<p, s>>) /\ Write \in caps[<<p, s>>].rights
  /\ LET R == RevokeSet(<<p, s>>) IN ClearCells(R, SaturatingBump(R))
  /\ UNCHANGED <<open, status>>

cap_delete(p, s) ==
  /\ MayCall(p)
  /\ Occupied(<<p, s>>)
  /\ ClearCells({<<p, s>>}, SaturatingBump({<<p, s>>}))
  /\ UNCHANGED <<open, status>>

(* The driver hands out handle h and the Socket pool index i; the failure   *)
(* returns (no free handle, pool full and rolled back) change nothing.      *)
net_socket_create(p, target, h, i) ==
  /\ MayCall(p)
  /\ caps[<<p, SlotNet>>].obj \in NetObjects
  /\ Write \in caps[<<p, SlotNet>>].rights
  /\ ~Occupied(<<p, target>>)
  /\ FirstFree(h, open, Handles)
  /\ FirstFree(i, {j \in SocketIds : refs[j] > 0}, SocketIds)
  /\ caps' = [caps EXCEPT ![<<p, target>>] =
                [obj    |-> i,
                 rights |-> {Read, Write},
                 parent |-> [cell |-> <<p, SlotNet>>, gen |-> gen[<<p, SlotNet>>]]]]
  /\ refs' = [refs EXCEPT ![i] = 1]
  /\ handle' = [handle EXCEPT ![i] = h]
  /\ open' = open \cup {h}
  /\ UNCHANGED <<gen, status, worn>>

(* The cap goes even when the driver call fails (released = FALSE).         *)
net_socket_close(p, s, released) ==
  /\ MayCall(p)
  /\ IsSocket(caps[<<p, s>>].obj)
  /\ refs[caps[<<p, s>>].obj] > 0
  /\ open' = IF released THEN open \ {handle[caps[<<p, s>>].obj]} ELSE open
  /\ ClearCells({<<p, s>>}, WrappingBump({<<p, s>>}))
  /\ UNCHANGED status

(* install_root_cap                                                         *)
RootCap(g) == [obj |-> g.obj, rights |-> g.rights, parent |-> ROOT]

(* install_tier1_grants clears the CSpace and fills it with root caps; the   *)
(* endpoints' refcounts are not bumped.                                     *)
DynGrants(withEventLog) ==
  [s \in DOMAIN DynBaseline \cup IF withEventLog THEN DOMAIN DynEventLog ELSE {} |->
     IF s \in DOMAIN DynBaseline THEN DynBaseline[s] ELSE DynEventLog[s]]

EndowCSpace(p, withEventLog) ==
  /\ caps' = [c \in Cell |->
                IF c[1] # p THEN caps[c]
                ELSE IF c[2] \in DOMAIN DynGrants(withEventLog)
                THEN RootCap(DynGrants(withEventLog)[c[2]])
                ELSE EmptyCap]
  /\ gen' = [c \in Cell |-> IF c[1] = p THEN 0 ELSE gen[c]]
  /\ status' = [status EXCEPT ![p] = "live"]
  /\ UNCHANGED <<refs, handle, open, worn>>

install_tier1_grants_recycled(p, withEventLog) ==
  status[p] # "live" /\ EndowCSpace(p, withEventLog)

(* modreg spawns a module under a process id it never used before.          *)
install_tier1_grants(p, withEventLog) ==
  status[p] = "unused" /\ EndowCSpace(p, withEventLog)

(* The scheduler retires a tenant; no code walks its CSpace.                *)
Terminate(p) ==
  /\ MayCall(p)
  /\ status' = [status EXCEPT ![p] = "terminated"]
  /\ UNCHANGED <<caps, gen, refs, handle, open, worn>>

-----------------------------------------------------------------------------
init_root_caps ==
  /\ caps = [c \in Cell |->
               IF c \in DOMAIN RootGrants THEN RootCap(RootGrants[c]) ELSE EmptyCap]
  /\ refs = [o \in Counted |->
               Cardinality({c \in DOMAIN RootGrants : RootGrants[c].obj = o})]

Init ==
  /\ init_root_caps
  /\ gen = [c \in Cell |-> 0]
  /\ handle = [i \in SocketIds |-> NoHandle]
  /\ open = {}
  /\ status = [p \in Procs |-> IF p \in BootProcs THEN "live" ELSE "unused"]
  /\ worn = {}

(* Everything a tenant does but cap_revoke.                                  *)
PlainStep(p) ==
  \/ \E s, t \in Slots : \E r \in SUBSET Rights : cap_mint(p, s, t, r)
  \/ \E s, t \in Slots : cap_copy(p, s, t)
  \/ \E s \in Slots : cap_delete(p, s)
  \/ \E t \in Slots : \E h \in Handles : \E i \in SocketIds :
       net_socket_create(p, t, h, i)
  \/ \E s \in Slots : \E released \in BOOLEAN : net_socket_close(p, s, released)
  \/ Terminate(p)

TenantStep(p) == PlainStep(p) \/ \E s \in Slots : cap_revoke(p, s)

Next ==
  \/ \E p \in Tier1 : TenantStep(p)
  \/ \E p \in Tier1 : \E withEventLog \in BOOLEAN :
       install_tier1_grants(p, withEventLog)

Spec == Init /\ [][Next]_vars

-----------------------------------------------------------------------------
(* Types.  TypeOK is the layout the kernel's tables can hold: a cap names an *)
(* object of its kind, and a handle is recorded exactly by the Socket        *)
(* entries in use, as a taken driver slot or one already released.           *)
TypeOK ==
  /\ caps \in [Cell -> Cap \cup {EmptyCap}]
  /\ gen \in [Cell -> 0 .. GenMax]
  /\ refs \in [Counted -> Nat]
  /\ handle \in [SocketIds -> Handles \cup {NoHandle}]
  /\ open \subseteq Handles
  /\ status \in [Procs -> {"unused", "live", "terminated"}]
  /\ worn \subseteq Cell

(* Objects the baseline of a runtime-loaded module names.                    *)
Baseline == {DynBaseline[s].obj : s \in DOMAIN DynBaseline}

(* No pool entry is ever freed late: its count never exceeds the caps that   *)
(* name it, and it equals that number for every object that spawning does    *)
(* not hand out (inc_refcount and dec_refcount paired with each install and  *)
(* each clear, revoke.rs).                                                   *)
RefcountExact ==
  \A o \in Counted :
    /\ refs[o] <= Cardinality(Holders(o))
    /\ o \notin Baseline => refs[o] = Cardinality(Holders(o))

(* What a cap recorded about its parent is true of whatever now sits in the  *)
(* parent's cell: while the generations agree, that cell is occupied by a    *)
(* cap with the same object and all of the child's rights, or by the Net cap *)
(* under which net_socket_create minted it (INV-10, INV-16, INV-17).  A cell *)
(* whose counter has run out is excepted: INV-17 has mint refuse such a slot, *)
(* and cap_mint_impl does not.                                               *)
DescendsFrom(c, d) ==
  \/ /\ caps[c].obj = caps[d].obj
     /\ caps[c].rights \subseteq caps[d].rights
  \/ IsSocket(caps[c].obj) /\ caps[d].obj \in NetObjects

DerivationSound ==
  \A c \in Cell, d \in Cell \ worn : Linked(c, d) => DescendsFrom(c, d)

(* DerivationInv is inductive: parents are cells of the same process, with a *)
(* generation that cell has reached and not yet passed by wrapping, and a    *)
(* process without grants has no caps.                                       *)
ParentsAtHome ==
  \A c \in Cell : caps[c].parent # ROOT => caps[c].parent.cell[1] = c[1]

GenerationsReached ==
  \A c \in Cell :
    caps[c].parent # ROOT /\ caps[c].parent.cell \notin worn
      => caps[c].parent.gen <= gen[caps[c].parent.cell]

UnusedHoldNothing == \A c \in Cell : status[c[1]] = "unused" => caps[c] = EmptyCap

DerivationInv ==
  TypeOK /\ ParentsAtHome /\ GenerationsReached /\ UnusedHoldNothing /\ DerivationSound

(* A socket stays with the tenant that created it: two processes never hold  *)
(* caps for the same Socket pool entry, however entries and slots are        *)
(* reused (objects.rs, "Per-tenant TCP/UDP socket").                         *)
NoSharedSocket ==
  \A c, d \in Cell :
    IsSocket(caps[c].obj) /\ caps[c].obj = caps[d].obj => c[1] = d[1]

(* INV-21: while any Socket cap is held, the Net pool entry is live.         *)
SocketImpliesNet ==
  (\E c \in Cell : IsSocket(caps[c].obj)) => \A n \in NetObjects : refs[n] > 0

(* A call of one tenant changes no other tenant's CSpace, although           *)
(* cap_revoke walks the cells of all of them (revoke.rs, discover).          *)
StaysHome ==
  [][\A c, d \in Cell : caps'[c] # caps[c] /\ caps'[d] # caps[d] => c[1] = d[1]]_vars

(* Once a process has its grants, no sequence of calls gives it authority    *)
(* over a boot object that it does not hold already (INV-10, and the         *)
(* postcondition "No authority outside granted is present" of                *)
(* install_tier1_grants).                                                    *)
HoldsRight(p, o, r) ==
  \E s \in Slots : caps[<<p, s>>].obj = o /\ r \in caps[<<p, s>>].rights

AuthorityNeverGrows ==
  [][\A p \in Procs, o \in Objects \ SocketIds, r \in Rights :
       status[p] # "unused" /\ HoldsRight(p, o, r)' => HoldsRight(p, o, r)]_vars

-----------------------------------------------------------------------------
(* The forest the tables stand for: a cap hangs below its parent's cell      *)
(* while the generations agree, and is an orphan from then on.               *)
ForestParent(c) ==
  IF caps[c].parent = ROOT THEN ROOT
  ELSE IF Linked(c, caps[c].parent.cell) THEN caps[c].parent.cell
  ELSE NoHandle

held ==
  [c \in Cell |->
     IF Occupied(c)
     THEN [obj |-> caps[c].obj, rights |-> caps[c].rights, parent |-> ForestParent(c)]
     ELSE EmptyCap]

Forest == INSTANCE CapForest WITH
  held <- held,
  fresh <- {p \in Procs : status[p] = "unused"},
  wornOut <- worn # {},
  Nets <- NetObjects, Sockets <- SocketIds, Bits <- Rights,
  Root <- ROOT, Orphan <- NoHandle, Empty <- EmptyCap

(* The tables implement the forest: generation checks alone make an orphan   *)
(* of every child of a removed cap, and never adopt it again (INV-17).       *)
ForestSpec == Forest!Spec
=============================================================================
