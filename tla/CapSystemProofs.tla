--------------------------- MODULE CapSystemProofs ---------------------------
(***************************************************************************)
(* Proofs about CapSystem for every set of processes, slots, rights and    *)
(* objects, every boot layout and every width of the generation counters.  *)
(***************************************************************************)
EXTENDS CapSystem, FiniteSetTheorems, TLAPS

-----------------------------------------------------------------------------
(* Types.                                                                   *)

(* There are finitely many slots.                                            *)
LEMMA CellFinite == IsFiniteSet(Cell)
  BY FS_Product, ProcsAssumption DEF Cell

(* The number of references that a clear drops from one object.             *)
LEMMA DroppedNat ==
  ASSUME NEW R \in SUBSET Cell, NEW x
  PROVE  Cardinality({c \in R : caps[c].obj = x}) \in Nat
<1>1. {c \in R : caps[c].obj = x} \subseteq Cell
  OBVIOUS
<1> QED
  BY <1>1, CellFinite, FS_Subset, FS_CardinalityType

(* A revocation cascade stays within the cells.                             *)
LEMMA RevokeSetCells ==
  ASSUME NEW c \in Cell
  PROVE  RevokeSet(c) \in SUBSET Cell
  BY DEF RevokeSet, Derived

(* Counters that are lowered, or raised, are still counters.                 *)
LEMMA DecType ==
  ASSUME TypeOK, NEW R \in SUBSET Cell
  PROVE  dec_refcount(R) \in [Counted -> Nat]
<1> SUFFICES ASSUME NEW x \in Counted
             PROVE  (LET n == Cardinality({c \in R : caps[c].obj = x})
                     IN  IF refs[x] > n THEN refs[x] - n ELSE 0) \in Nat
  BY DEF dec_refcount
<1> DEFINE n == Cardinality({c \in R : caps[c].obj = x})
<1>1. refs[x] \in Nat
  BY DEF TypeOK
<1>2. n \in Nat
  BY DroppedNat
<1> HIDE DEF n
<1>3. (IF refs[x] > n THEN refs[x] - n ELSE 0) \in Nat
  BY <1>1, <1>2
<1> QED
  BY <1>3 DEF n

LEMMA IncType ==
  ASSUME TypeOK, NEW o
  PROVE  inc_refcount(o) \in [Counted -> Nat]
  BY DEF TypeOK, inc_refcount

(* Clearing cells keeps the types, whichever way their counters move.       *)
LEMMA ClearType ==
  ASSUME TypeOK, NEW R \in SUBSET Cell, NEW bumped \in [Cell -> 0 .. GenMax],
         ClearCells(R, bumped)
  PROVE  /\ caps' \in [Cell -> Cap \cup {EmptyCap}]
         /\ gen' \in [Cell -> 0 .. GenMax]
         /\ refs' \in [Counted -> Nat]
         /\ handle' \in [SocketIds -> Handles \cup {NoHandle}]
         /\ worn' \subseteq Cell
<1>1. caps' \in [Cell -> Cap \cup {EmptyCap}]
  BY DEF ClearCells, TypeOK
<1>2. refs' \in [Counted -> Nat]
  BY DecType DEF ClearCells
<1> QED
  BY <1>1, <1>2 DEF ClearCells, TypeOK

(* A bumped counter stays within its width.                                  *)
LEMMA BumpType ==
  ASSUME TypeOK, NEW R \in SUBSET Cell
  PROVE  /\ SaturatingBump(R) \in [Cell -> 0 .. GenMax]
         /\ WrappingBump(R) \in [Cell -> 0 .. GenMax]
<1>1. ASSUME NEW c \in Cell
      PROVE  (gen[c] + 1) % (GenMax + 1) \in 0 .. GenMax
  <2>1. gen[c] \in Nat /\ GenMax \in Nat
    BY GenAssumption DEF TypeOK
  <2> QED
    BY <2>1
<1> QED
  BY <1>1, GenAssumption DEF TypeOK, SaturatingBump, WrappingBump

(* An empty slot is told from every cap.                                     *)
LEMMA EmptyNotCap == EmptyCap \notin Cap
  BY ObjectsAssumption DEF EmptyCap, Cap

(* What is in an occupied slot is a cap.                                     *)
LEMMA OccupiedIsCap ==
  ASSUME TypeOK, NEW c \in Cell, Occupied(c)
  PROVE  caps[c] \in Cap
  BY DEF TypeOK, Occupied

(* The cap in a cell that holds an object is not the empty one.             *)
LEMMA ObjectIsCap ==
  ASSUME TypeOK, NEW c \in Cell, caps[c].obj \in Objects
  PROVE  Occupied(c) /\ caps[c] \in Cap
  BY ObjectsAssumption DEF TypeOK, Occupied, EmptyCap, Cap

-----------------------------------------------------------------------------
(* The cap that mint, copy and net_socket_create install is one.            *)
LEMMA ChildIsCap ==
  ASSUME TypeOK, NEW d \in Cell, NEW o \in Objects, NEW r \in SUBSET Rights
  PROVE  [obj |-> o, rights |-> r, parent |-> [cell |-> d, gen |-> gen[d]]] \in Cap
  BY DEF TypeOK, Cap, CapId

(* What boot and spawn install are caps.                                     *)
LEMMA RootCapIsCap ==
  ASSUME NEW g \in Grant
  PROVE  RootCap(g) \in Cap /\ RootCap(g).parent = ROOT
  BY DEF Grant, RootCap, Cap, Objects, Counted

LEMMA DynGrantIsGrant ==
  ASSUME NEW w \in BOOLEAN, NEW s \in DOMAIN DynGrants(w)
  PROVE  DynGrants(w)[s] \in Grant
  BY GrantsAssumption DEF DynGrants

(* The tables are laid out so at boot, and every step keeps the layout.      *)
LEMMA TypeInit == Init => TypeOK
<1> SUFFICES ASSUME Init PROVE TypeOK
  OBVIOUS
<1>1. caps \in [Cell -> Cap \cup {EmptyCap}]
  <2>1. ASSUME NEW c \in DOMAIN RootGrants
        PROVE  RootCap(RootGrants[c]) \in Cap
    BY RootCapIsCap, GrantsAssumption
  <2> QED
    BY <2>1 DEF Init, init_root_caps
<1>2. refs \in [Counted -> Nat]
  <2>1. ASSUME NEW o \in Counted
        PROVE  Cardinality({c \in DOMAIN RootGrants : RootGrants[c].obj = o}) \in Nat
    <3>1. {c \in DOMAIN RootGrants : RootGrants[c].obj = o} \subseteq Cell
      BY GrantsAssumption, ProcsAssumption DEF Cell
    <3> QED
      BY <3>1, CellFinite, FS_Subset, FS_CardinalityType
  <2> QED
    BY <2>1 DEF Init, init_root_caps
<1> QED
  BY <1>1, <1>2, GenAssumption DEF Init, TypeOK

LEMMA TypeStep == TypeOK /\ [Next]_vars => TypeOK'
<1> SUFFICES ASSUME TypeOK, [Next]_vars PROVE TypeOK'
  OBVIOUS
<1>1. ASSUME NEW p \in Tier1, NEW s \in Slots, NEW t \in Slots,
             NEW r \in SUBSET Rights, cap_mint(p, s, t, r)
      PROVE  TypeOK'
  <2> DEFINE d == <<p, s>>
  <2>1. d \in Cell /\ <<p, t>> \in Cell
    BY ProcsAssumption DEF Cell
  <2>2. caps[d].obj \in Objects
    BY <1>1, <2>1, OccupiedIsCap DEF cap_mint, Cap
  <2>3. caps' \in [Cell -> Cap \cup {EmptyCap}]
    BY <1>1, <2>1, <2>2, ChildIsCap DEF cap_mint, TypeOK
  <2>4. refs' \in [Counted -> Nat]
    BY <1>1, IncType DEF cap_mint
  <2> QED
    BY <1>1, <2>3, <2>4 DEF cap_mint, TypeOK
<1>2. ASSUME NEW p \in Tier1, NEW s \in Slots, NEW t \in Slots, cap_copy(p, s, t)
      PROVE  TypeOK'
  <2>1. <<p, s>> \in Cell /\ <<p, t>> \in Cell
    BY ProcsAssumption DEF Cell
  <2>2. caps' \in [Cell -> Cap \cup {EmptyCap}]
    BY <1>2, <2>1 DEF cap_copy, TypeOK
  <2>3. refs' \in [Counted -> Nat]
    BY <1>2, IncType DEF cap_copy
  <2> QED
    BY <1>2, <2>2, <2>3 DEF cap_copy, TypeOK
<1>3. ASSUME NEW p \in Tier1, NEW s \in Slots, cap_revoke(p, s)
      PROVE  TypeOK'
  <2>1. RevokeSet(<<p, s>>) \in SUBSET Cell
    BY RevokeSetCells, ProcsAssumption DEF Cell
  <2> QED
    BY <1>3, <2>1, ClearType, BumpType DEF cap_revoke, TypeOK
<1>4. ASSUME NEW p \in Tier1, NEW s \in Slots, cap_delete(p, s)
      PROVE  TypeOK'
  <2>1. {<<p, s>>} \in SUBSET Cell
    BY ProcsAssumption DEF Cell
  <2> QED
    BY <1>4, <2>1, ClearType, BumpType DEF cap_delete, TypeOK
<1>5. ASSUME NEW p \in Tier1, NEW t \in Slots, NEW h \in Handles,
             NEW i \in SocketIds, net_socket_create(p, t, h, i)
      PROVE  TypeOK'
  <2> DEFINE d == <<p, SlotNet>>
  <2>1. d \in Cell /\ <<p, t>> \in Cell
    BY ProcsAssumption DEF Cell
  <2>2. i \in Objects /\ i \in Counted /\ {Read, Write} \in SUBSET Rights
    BY RightsAssumption DEF Objects, Counted
  <2>3. caps' \in [Cell -> Cap \cup {EmptyCap}]
    BY <1>5, <2>1, <2>2, ChildIsCap DEF net_socket_create, TypeOK
  <2> QED
    BY <1>5, <2>2, <2>3 DEF net_socket_create, TypeOK
<1>6. ASSUME NEW p \in Tier1, NEW s \in Slots, NEW released \in BOOLEAN,
             net_socket_close(p, s, released)
      PROVE  TypeOK'
  <2>1. {<<p, s>>} \in SUBSET Cell
    BY ProcsAssumption DEF Cell
  <2>2. open' \subseteq Handles
    BY <1>6 DEF net_socket_close, TypeOK
  <2> QED
    BY <1>6, <2>1, <2>2, ClearType, BumpType DEF net_socket_close, TypeOK
<1>7. ASSUME NEW p \in Tier1, NEW w \in BOOLEAN, install_tier1_grants(p, w)
      PROVE  TypeOK'
  <2>1. caps' \in [Cell -> Cap \cup {EmptyCap}]
    BY <1>7, RootCapIsCap, DynGrantIsGrant
       DEF install_tier1_grants, EndowCSpace, TypeOK
  <2>2. p \in Procs
    BY ProcsAssumption
  <2> QED
    BY <1>7, <2>1, <2>2, GenAssumption DEF install_tier1_grants, EndowCSpace, TypeOK
<1>8. ASSUME NEW p \in Tier1, Terminate(p)
      PROVE  TypeOK'
  BY <1>8, ProcsAssumption DEF Terminate, TypeOK
<1>9. CASE UNCHANGED vars
  BY <1>9 DEF vars, TypeOK
<1> QED
  BY <1>1, <1>2, <1>3, <1>4, <1>5, <1>6, <1>7, <1>8, <1>9 DEF Next, TenantStep, PlainStep

(* The tables keep their layout: every cap names an object of the system    *)
(* and a parent cell, every counter stays within 16 bits (GenMax), and      *)
(* every pool entry's count and handle are defined (types.rs, cspace.rs,    *)
(* objects.rs).                                                             *)
THEOREM TypeCorrect == Spec => []TypeOK
<1> QED
  BY TypeInit, TypeStep, PTL DEF Spec

-----------------------------------------------------------------------------
(* Derivation: an operation either fills one empty cell, clears a set of    *)
(* cells, or endows the CSpace of a process that has none.                  *)

Rest == ParentsAtHome /\ GenerationsReached /\ UnusedHoldNothing /\ DerivationSound

(* A cap that may be put in an empty cell t: its parent is a cell of the    *)
(* same process, and it descends from that cell's cap if it is linked.      *)
WellDerived(k, t) ==
  k.parent # ROOT =>
    LET d == k.parent.cell
    IN  /\ d[1] = t[1]
        /\ d \notin worn => k.parent.gen <= gen[d]
        /\ d \notin worn /\ k.parent.gen = gen[d] =>
             \/ k.obj = caps[d].obj /\ k.rights \subseteq caps[d].rights
             \/ IsSocket(k.obj) /\ caps[d].obj \in NetObjects

(* In particular such a parent's cell is occupied, hence not t itself.      *)
LEMMA DescendsOccupied ==
  ASSUME TypeOK, NEW c \in Cell, NEW d \in Cell, Occupied(c), DescendsFrom(c, d)
  PROVE  Occupied(d)
<1>1. caps[c].obj \in Objects
  BY OccupiedIsCap DEF Cap
<1>2. caps[d].obj \in Objects
  BY <1>1, ObjectsAssumption DEF DescendsFrom, Objects, Counted
<1> QED
  BY <1>2, ObjectIsCap

(* A cap whose record still holds has its parent in place.                   *)
LEMMA ParentOccupied ==
  ASSUME DerivationInv, NEW c \in Cell, NEW d \in Cell \ worn, Linked(c, d)
  PROVE  Occupied(c) /\ Occupied(d) /\ DescendsFrom(c, d)
<1>1. Occupied(c)
  BY DEF Linked, Occupied, EmptyCap
<1>2. DescendsFrom(c, d)
  BY DEF DerivationInv, DerivationSound
<1> QED
  BY <1>1, <1>2, DescendsOccupied DEF DerivationInv

(* Filling an empty slot with a well-derived cap breaks no derivation.       *)
LEMMA FillKeeps ==
  ASSUME DerivationInv, NEW t \in Cell, NEW k \in Cap,
         ~Occupied(t), WellDerived(k, t), status[t[1]] = "live",
         caps' = [caps EXCEPT ![t] = k], UNCHANGED <<gen, status, worn>>
  PROVE  Rest'
<1> USE DEF DerivationInv
<1>0. caps \in [Cell -> Cap \cup {EmptyCap}]
  BY DEF TypeOK
<1>1. ParentsAtHome'
  BY <1>0 DEF ParentsAtHome, WellDerived
<1>2. GenerationsReached'
  BY <1>0 DEF GenerationsReached, WellDerived
<1>3. UnusedHoldNothing'
  BY <1>0 DEF UnusedHoldNothing
<1>4. DerivationSound'
  <2> SUFFICES ASSUME NEW c \in Cell, NEW d \in Cell \ worn, Linked(c, d)'
               PROVE  DescendsFrom(c, d)'
    BY DEF DerivationSound
  <2>1. CASE c = t
    <3>1. /\ k.parent # ROOT /\ k.parent.cell = d /\ k.parent.gen = gen[d]
      BY <2>1, <1>0 DEF Linked
    <3>2. \/ k.obj = caps[d].obj /\ k.rights \subseteq caps[d].rights
          \/ IsSocket(k.obj) /\ caps[d].obj \in NetObjects
      BY <3>1 DEF WellDerived
    <3>3. caps[d].obj \in Objects
      BY <3>2, ObjectsAssumption DEF Cap, Objects, Counted
    <3>4. d # t
      BY <3>3, ObjectIsCap
    <3> QED
      BY <2>1, <3>2, <3>4, <1>0 DEF DescendsFrom
  <2>2. CASE c # t
    <3>1. Linked(c, d)
      BY <2>2, <1>0 DEF Linked
    <3>2. DescendsFrom(c, d) /\ d # t
      BY <3>1, ParentOccupied
    <3> QED
      BY <2>2, <3>2, <1>0 DEF DescendsFrom
  <2> QED
    BY <2>1, <2>2
<1> QED
  BY <1>1, <1>2, <1>3, <1>4 DEF Rest

(* Every cell that is cleared gets a new generation or counts as worn.      *)
LEMMA ClearKeeps ==
  ASSUME DerivationInv, NEW R \in SUBSET Cell, NEW bumped \in [Cell -> 0 .. GenMax],
         \A c \in Cell \ R : bumped[c] = gen[c],
         \A c \in R : gen[c] < GenMax => bumped[c] = gen[c] + 1,
         ClearCells(R, bumped), UNCHANGED status
  PROVE  Rest'
<1> USE DEF DerivationInv
<1>0. /\ \A c \in Cell : caps'[c] = IF c \in R THEN EmptyCap ELSE caps[c]
      /\ gen' = bumped
      /\ worn' = worn \cup {c \in R : gen[c] = GenMax}
      /\ EmptyCap.parent = ROOT
  BY DEF ClearCells, EmptyCap
<1>1. ParentsAtHome'
  BY <1>0 DEF ParentsAtHome
<1>2. ASSUME NEW d \in Cell, d \notin worn'
      PROVE  gen'[d] = (IF d \in R THEN gen[d] + 1 ELSE gen[d]) /\ gen[d] \in Nat
  <2>1. gen[d] \in 0 .. GenMax /\ GenMax \in Nat
    BY GenAssumption DEF TypeOK
  <2>2. d \in R => gen[d] < GenMax
    BY <2>1, <1>0, <1>2
  <2> QED
    BY <2>1, <2>2, <1>0
<1>3. ASSUME NEW c \in Cell, caps'[c].parent # ROOT
      PROVE  /\ c \notin R /\ caps'[c] = caps[c]
             /\ caps[c].parent.cell \in Cell /\ caps[c].parent.gen \in Nat
  <2>1. c \notin R /\ caps'[c] = caps[c]
    BY <1>0, <1>3
  <2>2. Occupied(c)
    BY <2>1, <1>3 DEF Occupied, EmptyCap
  <2>3. caps[c].parent \in CapId
    BY <2>1, <2>2, <1>3, OccupiedIsCap DEF Cap
  <2> QED
    BY <2>1, <2>3, GenAssumption DEF CapId
<1>4. GenerationsReached'
  <2> SUFFICES ASSUME NEW c \in Cell, caps'[c].parent # ROOT,
                      caps'[c].parent.cell \notin worn'
               PROVE  caps'[c].parent.gen <= gen'[caps'[c].parent.cell]
    BY DEF GenerationsReached
  <2> DEFINE d == caps[c].parent.cell
  <2>1. d \in Cell /\ caps'[c] = caps[c] /\ caps[c].parent.gen \in Nat
    BY <1>3
  <2>2. d \notin worn' /\ d \notin worn
    BY <2>1, <1>0
  <2>3. caps[c].parent.gen <= gen[d]
    BY <2>1, <2>2 DEF GenerationsReached
  <2> QED
    BY <2>1, <2>2, <2>3, <1>2
<1>5. UnusedHoldNothing'
  BY <1>0 DEF UnusedHoldNothing
<1>6. DerivationSound'
  <2> SUFFICES ASSUME NEW c \in Cell, NEW d \in Cell, d \notin worn', Linked(c, d)'
               PROVE  DescendsFrom(c, d)'
    BY DEF DerivationSound
  <2>1. c \notin R /\ caps'[c] = caps[c] /\ caps[c].parent.gen \in Nat
    BY <1>3 DEF Linked
  <2>2. caps[c].parent # ROOT /\ caps[c].parent.cell = d /\ d \notin worn
    BY <2>1, <1>0 DEF Linked
  <2>3. caps[c].parent.gen <= gen[d] /\ caps[c].parent.gen = gen'[d]
    BY <2>1, <2>2 DEF Linked, GenerationsReached
  <2>4. d \notin R /\ gen'[d] = gen[d]
    BY <2>1, <2>3, <1>2
  <2>5. DescendsFrom(c, d)
    BY <2>2, <2>3, <2>4 DEF Linked, DerivationSound
  <2>6. caps'[d] = caps[d]
    BY <2>4, <1>0
  <2> QED
    BY <2>1, <2>5, <2>6 DEF DescendsFrom
<1> QED
  BY <1>1, <1>4, <1>5, <1>6 DEF Rest

(* Neither does a clear, by revoke or delete, nor by a close.                *)
LEMMA SaturatingClear ==
  ASSUME DerivationInv, NEW R \in SUBSET Cell, ClearCells(R, SaturatingBump(R)),
         UNCHANGED status
  PROVE  Rest'
<1>1. SaturatingBump(R) \in [Cell -> 0 .. GenMax]
  BY BumpType DEF DerivationInv
<1>2. /\ \A c \in Cell \ R : SaturatingBump(R)[c] = gen[c]
      /\ \A c \in R : gen[c] < GenMax => SaturatingBump(R)[c] = gen[c] + 1
  BY DEF SaturatingBump
<1> HIDE DEF SaturatingBump
<1> QED
  BY <1>1, <1>2, ClearKeeps

LEMMA WrappingClear ==
  ASSUME DerivationInv, NEW R \in SUBSET Cell, ClearCells(R, WrappingBump(R)),
         UNCHANGED status
  PROVE  Rest'
<1>1. WrappingBump(R) \in [Cell -> 0 .. GenMax]
  BY BumpType DEF DerivationInv
<1>2. /\ \A c \in Cell \ R : WrappingBump(R)[c] = gen[c]
      /\ \A c \in R : gen[c] < GenMax => WrappingBump(R)[c] = gen[c] + 1
  <2>1. ASSUME NEW c \in R, gen[c] < GenMax
        PROVE  (gen[c] + 1) % (GenMax + 1) = gen[c] + 1
    <3>1. gen[c] \in Nat /\ GenMax \in Nat
      BY GenAssumption DEF DerivationInv, TypeOK
    <3> QED
      BY <2>1, <3>1
  <2> QED
    BY <2>1 DEF WrappingBump
<1> QED
  BY <1>1, <1>2, ClearKeeps

(* Nor does a spawn, which gives an unused process its caps.                 *)
LEMMA EndowKeeps ==
  ASSUME DerivationInv, NEW p \in Procs, NEW w \in BOOLEAN,
         install_tier1_grants(p, w)
  PROVE  Rest'
<1> USE DEF DerivationInv
<1>0. /\ \A c \in Cell : c[1] # p => caps'[c] = caps[c] /\ gen'[c] = gen[c]
      /\ \A c \in Cell : c[1] = p => caps'[c].parent = ROOT
      /\ status' = [status EXCEPT ![p] = "live"] /\ worn' = worn
  BY DynGrantIsGrant, RootCapIsCap
     DEF install_tier1_grants, EndowCSpace, EmptyCap
<1>1. ASSUME NEW c \in Cell, caps'[c].parent # ROOT
      PROVE  /\ c[1] # p /\ caps'[c] = caps[c]
             /\ caps[c].parent.cell \in Cell /\ caps[c].parent.cell[1] # p
             /\ gen'[caps[c].parent.cell] = gen[caps[c].parent.cell]
  <2>1. c[1] # p /\ caps'[c] = caps[c]
    BY <1>0, <1>1
  <2>2. Occupied(c)
    BY <2>1, <1>1 DEF Occupied, EmptyCap
  <2>3. caps[c].parent.cell \in Cell
    BY <2>1, <2>2, <1>1, OccupiedIsCap DEF Cap, CapId
  <2>4. caps[c].parent.cell[1] # p
    BY <2>1, <1>1 DEF ParentsAtHome
  <2> QED
    BY <2>1, <2>3, <2>4, <1>0
<1>2. ParentsAtHome'
  BY <1>1 DEF ParentsAtHome
<1>3. GenerationsReached'
  BY <1>0, <1>1 DEF GenerationsReached
<1>4. UnusedHoldNothing'
  <2> SUFFICES ASSUME NEW c \in Cell, status'[c[1]] = "unused"
               PROVE  caps'[c] = EmptyCap
    BY DEF UnusedHoldNothing
  <2>1. c[1] # p /\ status[c[1]] = "unused"
    BY <1>0 DEF TypeOK, Cell
  <2> QED
    BY <2>1, <1>0 DEF UnusedHoldNothing
<1>5. DerivationSound'
  <2> SUFFICES ASSUME NEW c \in Cell, NEW d \in Cell \ worn, Linked(c, d)'
               PROVE  DescendsFrom(c, d)'
    BY <1>0 DEF DerivationSound
  <2>1. /\ caps'[c].parent # ROOT /\ caps'[c].parent.cell = d
        /\ caps'[c].parent.gen = gen'[d]
    BY DEF Linked
  <2>2. /\ caps'[c] = caps[c] /\ d[1] # p /\ gen'[d] = gen[d]
    BY <2>1, <1>1
  <2>3. DescendsFrom(c, d)
    BY <2>1, <2>2 DEF Linked, DerivationSound
  <2> QED
    BY <2>2, <2>3, <1>0 DEF DescendsFrom
<1> QED
  BY <1>2, <1>3, <1>4, <1>5 DEF Rest


(* The derivation invariant holds at boot, and every step keeps it.          *)
LEMMA DerivationInit == Init => DerivationInv
<1> SUFFICES ASSUME Init PROVE DerivationInv
  OBVIOUS
<1>1. \A c \in Cell : caps[c].parent = ROOT
  BY DEF Init, init_root_caps, RootCap, EmptyCap
<1>2. UnusedHoldNothing
  <2> SUFFICES ASSUME NEW c \in Cell, status[c[1]] = "unused"
               PROVE  caps[c] = EmptyCap
    BY DEF UnusedHoldNothing
  <2>1. c \notin DOMAIN RootGrants
    BY GrantsAssumption, ProcsAssumption DEF Init, Cell
  <2> QED
    BY <2>1 DEF Init, init_root_caps
<1> QED
  BY <1>1, <1>2, TypeInit
     DEF DerivationInv, ParentsAtHome, GenerationsReached, DerivationSound, Linked

LEMMA DerivationStep == DerivationInv /\ [Next]_vars => DerivationInv'
<1> SUFFICES ASSUME DerivationInv, [Next]_vars PROVE DerivationInv'
  OBVIOUS
<1>0. TypeOK /\ TypeOK'
  BY TypeStep DEF DerivationInv
<1>a. SUFFICES Rest'
  BY <1>0 DEF DerivationInv, Rest
<1>1. ASSUME NEW p \in Tier1, NEW s \in Slots, NEW t \in Slots,
             NEW r \in SUBSET Rights, cap_mint(p, s, t, r)
      PROVE  Rest'
  <2> DEFINE d == <<p, s>>
             k == [obj |-> caps[d].obj, rights |-> r,
                   parent |-> [cell |-> d, gen |-> gen[d]]]
  <2>1. d \in Cell /\ <<p, t>> \in Cell /\ gen[d] \in Nat
    BY <1>0, ProcsAssumption, GenAssumption DEF Cell, TypeOK
  <2>2. k \in Cap
    BY <1>0, <1>1, <2>1, OccupiedIsCap, ChildIsCap DEF cap_mint, Cap
  <2>3. WellDerived(k, <<p, t>>)
    BY <1>1, <2>1 DEF cap_mint, WellDerived
  <2>4. /\ ~Occupied(<<p, t>>) /\ status[<<p, t>>[1]] = "live"
        /\ caps' = [caps EXCEPT ![<<p, t>>] = k] /\ UNCHANGED <<gen, status, worn>>
    BY <1>1 DEF cap_mint, MayCall
  <2> HIDE DEF k
  <2> QED
    BY <2>1, <2>2, <2>3, <2>4, FillKeeps
<1>2. ASSUME NEW p \in Tier1, NEW s \in Slots, NEW t \in Slots, cap_copy(p, s, t)
      PROVE  Rest'
  <2> DEFINE c == <<p, s>>
  <2>1. c \in Cell /\ <<p, t>> \in Cell /\ caps[c] \in Cap
    BY <1>0, <1>2, OccupiedIsCap, ProcsAssumption DEF Cell, cap_copy
  <2>2. WellDerived(caps[c], <<p, t>>)
    <3> SUFFICES ASSUME caps[c].parent # ROOT
                 PROVE  LET d == caps[c].parent.cell
                        IN  /\ d[1] = p
                            /\ d \notin worn => caps[c].parent.gen <= gen[d]
                            /\ d \notin worn /\ caps[c].parent.gen = gen[d] =>
                                 DescendsFrom(c, d)
      BY DEF WellDerived, DescendsFrom
    <3>1. caps[c].parent.cell \in Cell
      BY <2>1 DEF Cap, CapId
    <3> QED
      BY <2>1, <3>1
         DEF DerivationInv, ParentsAtHome, GenerationsReached, DerivationSound, Linked
  <2>3. /\ ~Occupied(<<p, t>>) /\ status[<<p, t>>[1]] = "live"
        /\ caps' = [caps EXCEPT ![<<p, t>>] = caps[c]]
        /\ UNCHANGED <<gen, status, worn>>
    BY <1>2 DEF cap_copy, MayCall
  <2> QED
    BY <2>1, <2>2, <2>3, FillKeeps
<1>3. ASSUME NEW p \in Tier1, NEW s \in Slots, cap_revoke(p, s)
      PROVE  Rest'
  <2>1. RevokeSet(<<p, s>>) \in SUBSET Cell
    BY RevokeSetCells, ProcsAssumption DEF Cell
  <2> QED
    BY <1>3, <2>1, SaturatingClear DEF cap_revoke
<1>4. ASSUME NEW p \in Tier1, NEW s \in Slots, cap_delete(p, s)
      PROVE  Rest'
  <2>1. {<<p, s>>} \in SUBSET Cell
    BY ProcsAssumption DEF Cell
  <2> QED
    BY <1>4, <2>1, SaturatingClear DEF cap_delete
<1>5. ASSUME NEW p \in Tier1, NEW t \in Slots, NEW h \in Handles,
             NEW i \in SocketIds, net_socket_create(p, t, h, i)
      PROVE  Rest'
  <2> DEFINE d == <<p, SlotNet>>
             k == [obj |-> i, rights |-> {Read, Write},
                   parent |-> [cell |-> d, gen |-> gen[d]]]
  <2>1. d \in Cell /\ <<p, t>> \in Cell /\ gen[d] \in Nat
    BY <1>0, ProcsAssumption, GenAssumption DEF Cell, TypeOK
  <2>2. k \in Cap
    BY <1>0, <2>1, ChildIsCap, RightsAssumption DEF Objects, Counted
  <2>3. WellDerived(k, <<p, t>>)
    BY <1>5, <2>1 DEF net_socket_create, WellDerived, IsSocket
  <2>4. /\ ~Occupied(<<p, t>>) /\ status[<<p, t>>[1]] = "live"
        /\ caps' = [caps EXCEPT ![<<p, t>>] = k] /\ UNCHANGED <<gen, status, worn>>
    BY <1>5 DEF net_socket_create, MayCall
  <2> HIDE DEF k
  <2> QED
    BY <2>1, <2>2, <2>3, <2>4, FillKeeps
<1>6. ASSUME NEW p \in Tier1, NEW s \in Slots, NEW released \in BOOLEAN,
             net_socket_close(p, s, released)
      PROVE  Rest'
  <2>1. {<<p, s>>} \in SUBSET Cell
    BY ProcsAssumption DEF Cell
  <2> QED
    BY <1>6, <2>1, WrappingClear DEF net_socket_close
<1>7. ASSUME NEW p \in Tier1, NEW w \in BOOLEAN, install_tier1_grants(p, w)
      PROVE  Rest'
  BY <1>7, EndowKeeps, ProcsAssumption
<1>8. ASSUME NEW p \in Tier1, Terminate(p)
      PROVE  Rest'
  <2>1. /\ UNCHANGED <<caps, gen, worn>>
        /\ \A q \in Procs : status'[q] = "unused" => status[q] = "unused"
    BY <1>0, <1>8 DEF Terminate, TypeOK
  <2>2. UnusedHoldNothing'
    BY <2>1 DEF DerivationInv, UnusedHoldNothing, Cell
  <2> QED
    BY <2>1, <2>2 DEF Rest, DerivationInv, ParentsAtHome, GenerationsReached,
                      DerivationSound, Linked, DescendsFrom
<1>9. CASE UNCHANGED vars
  BY <1>9 DEF vars, Rest, DerivationInv, ParentsAtHome, GenerationsReached,
              UnusedHoldNothing, DerivationSound, Linked, DescendsFrom
<1> QED
  BY <1>1, <1>2, <1>3, <1>4, <1>5, <1>6, <1>7, <1>8, <1>9 DEF Next, TenantStep, PlainStep

(* Typing, derivation, and where caps are: what every step relies on.        *)
THEOREM DerivationInvariant == Spec => []DerivationInv
<1> QED
  BY DerivationInit, DerivationStep, PTL DEF Spec

(* A child whose parent's generation still agrees descends from the cap now *)
(* in the parent's cell, whatever sequence of mints, copies, deletes,       *)
(* revokes, socket calls and spawns came between, as long as that cell's    *)
(* 16-bit counter has not run out (INV-10, INV-16, INV-17).                 *)
THEOREM DerivationCorrect == Spec => []DerivationSound
<1>1. DerivationInv => DerivationSound
  BY DEF DerivationInv
<1> QED
  BY <1>1, DerivationInvariant, PTL


-----------------------------------------------------------------------------
(* Isolation.                                                               *)

(* The cascade that starts in a process's CSpace never leaves it.           *)
LEMMA CascadeAtHome ==
  ASSUME DerivationInv, NEW c \in Cell, NEW d \in RevokeSet(c)
  PROVE  d[1] = c[1]
<1> DEFINE Home == {c} \cup {e \in Derived : e[1] = c[1]}
<1>1. Home \in {{c} \cup Q : Q \in SUBSET Derived}
  OBVIOUS
<1>2. Closed(Home)
  <2> SUFFICES ASSUME NEW e \in Derived, NEW b \in Home, Linked(e, b)
               PROVE  e[1] = c[1]
    BY DEF Closed
  <2>1. e \in Cell /\ b[1] = c[1]
    BY DEF Derived
  <2> QED
    BY <2>1 DEF Linked, DerivationInv, ParentsAtHome
<1>3. d \in Home
  BY <1>1, <1>2 DEF RevokeSet
<1> QED
  BY <1>3

(* Only the CSpace of one process changes in a step.                        *)
LEMMA StepAtHome ==
  ASSUME DerivationInv, Next
  PROVE  \E p \in Procs : \A c \in Cell : c[1] # p => caps'[c] = caps[c]
<1>1. ASSUME NEW p \in Tier1, TenantStep(p)
      PROVE  \A c \in Cell : c[1] # p => caps'[c] = caps[c]
  <2>0. p \in Procs
    BY ProcsAssumption
  <2>1. ASSUME NEW s \in Slots, NEW t \in Slots, NEW r \in SUBSET Rights,
               cap_mint(p, s, t, r) \/ cap_copy(p, s, t)
        PROVE  \A c \in Cell : c[1] # p => caps'[c] = caps[c]
    BY <2>1 DEF cap_mint, cap_copy, DerivationInv, TypeOK
  <2>2. ASSUME NEW s \in Slots, cap_revoke(p, s)
        PROVE  \A c \in Cell : c[1] # p => caps'[c] = caps[c]
    <3>1. <<p, s>> \in Cell
      BY <2>0 DEF Cell
    <3> QED
      BY <2>2, <3>1, CascadeAtHome DEF cap_revoke, ClearCells
  <2>3. ASSUME NEW s \in Slots, NEW released \in BOOLEAN,
               cap_delete(p, s) \/ net_socket_close(p, s, released)
        PROVE  \A c \in Cell : c[1] # p => caps'[c] = caps[c]
    BY <2>3 DEF cap_delete, net_socket_close, ClearCells
  <2>4. ASSUME NEW t \in Slots, NEW h \in Handles, NEW i \in SocketIds,
               net_socket_create(p, t, h, i)
        PROVE  \A c \in Cell : c[1] # p => caps'[c] = caps[c]
    BY <2>4 DEF net_socket_create, DerivationInv, TypeOK
  <2>5. CASE Terminate(p)
    BY <2>5 DEF Terminate
  <2> QED
    BY <1>1, <2>1, <2>2, <2>3, <2>4, <2>5 DEF TenantStep, PlainStep
<1>2. ASSUME NEW p \in Tier1, NEW w \in BOOLEAN, install_tier1_grants(p, w)
      PROVE  \A c \in Cell : c[1] # p => caps'[c] = caps[c]
  BY <1>2 DEF install_tier1_grants, EndowCSpace
<1> QED
  BY <1>1, <1>2, ProcsAssumption DEF Next

(* A call of one tenant, the cascade of cap_revoke included, changes no     *)
(* other tenant's CSpace (revoke.rs, discover and clear).                   *)
THEOREM Isolation == Spec => StaysHome
<1> DEFINE OneSpace ==
      \A c, d \in Cell : caps'[c] # caps[c] /\ caps'[d] # caps[d] => c[1] = d[1]
<1>1. DerivationInv /\ [Next]_vars => [OneSpace]_vars
  BY StepAtHome
<1> QED
  BY <1>1, DerivationInvariant, PTL DEF Spec, StaysHome

(* No sequence of calls gives a process a right on a boot object that it    *)
(* does not hold (types.rs, Cap::derive; INV-10).                           *)
LEMMA AuthorityStep ==
  ASSUME DerivationInv, Next, NEW p \in Procs, status[p] # "unused",
         NEW o \in Objects \ SocketIds, NEW b \in Rights, HoldsRight(p, o, b)'
  PROVE  HoldsRight(p, o, b)
<1> SUFFICES ASSUME NEW s \in Slots, caps'[<<p, s>>].obj = o, b \in caps'[<<p, s>>].rights
             PROVE  \E x \in Slots : caps[<<p, x>>].obj = o /\ b \in caps[<<p, x>>].rights
  BY DEF HoldsRight
<1> DEFINE e == <<p, s>>
<1>0. /\ e \in Cell /\ caps \in [Cell -> Cap \cup {EmptyCap}]
      /\ o # EmptyCap.obj
  BY ObjectsAssumption DEF Cell, DerivationInv, TypeOK, EmptyCap
<1>a. CASE caps'[e] = caps[e]
  BY <1>a
<1>1. ASSUME NEW q \in Tier1, NEW x \in Slots, NEW t \in Slots, NEW r \in SUBSET Rights,
             cap_mint(q, x, t, r), caps'[e] # caps[e]
      PROVE  caps[<<p, x>>].obj = o /\ b \in caps[<<p, x>>].rights
  <2>1. e = <<q, t>>
    BY <1>0, <1>1 DEF cap_mint
  <2>2. p = q /\ caps'[e].obj = caps[<<q, x>>].obj /\ caps'[e].rights = r
    BY <1>0, <1>1, <2>1 DEF cap_mint
  <2> QED
    BY <1>1, <2>2 DEF cap_mint
<1>2. ASSUME NEW q \in Tier1, NEW x \in Slots, NEW t \in Slots,
             cap_copy(q, x, t), caps'[e] # caps[e]
      PROVE  caps[<<p, x>>].obj = o /\ b \in caps[<<p, x>>].rights
  <2>1. e = <<q, t>>
    BY <1>0, <1>2 DEF cap_copy
  <2> QED
    BY <1>0, <1>2, <2>1 DEF cap_copy
<1>3. ASSUME NEW R, NEW g, ClearCells(R, g)
      PROVE  caps'[e] = caps[e]
  BY <1>0, <1>3 DEF ClearCells
<1>4. ASSUME NEW q \in Tier1, NEW t \in Slots, NEW h \in Handles, NEW i \in SocketIds,
             net_socket_create(q, t, h, i)
      PROVE  caps'[e] = caps[e]
  <2>1. e = <<q, t>> => caps'[e].obj = i
    BY <1>0, <1>4 DEF net_socket_create
  <2> QED
    BY <1>0, <1>4, <2>1 DEF net_socket_create
<1>5. ASSUME NEW q \in Tier1, NEW w \in BOOLEAN, install_tier1_grants(q, w)
      PROVE  caps'[e] = caps[e]
  BY <1>0, <1>5 DEF install_tier1_grants, EndowCSpace
<1>6. ASSUME NEW q \in Tier1, Terminate(q)
      PROVE  caps'[e] = caps[e]
  BY <1>6 DEF Terminate
<1>7. ASSUME NEW q \in Tier1, NEW x \in Slots, NEW released \in BOOLEAN,
             cap_revoke(q, x) \/ cap_delete(q, x) \/ net_socket_close(q, x, released)
      PROVE  caps'[e] = caps[e]
  BY <1>3, <1>7 DEF cap_revoke, cap_delete, net_socket_close
<1> QED
  BY <1>a, <1>1, <1>2, <1>4, <1>5, <1>6, <1>7 DEF Next, TenantStep, PlainStep

(* No step gives a live process a right on a fixed object that it lacks.     *)
THEOREM AuthorityConfined == Spec => AuthorityNeverGrows
<1> DEFINE Shrinks ==
      \A p \in Procs, o \in Objects \ SocketIds, r \in Rights :
        status[p] # "unused" /\ HoldsRight(p, o, r)' => HoldsRight(p, o, r)
<1>1. DerivationInv /\ [Next]_vars => [Shrinks]_vars
  BY AuthorityStep
<1> QED
  BY <1>1, DerivationInvariant, PTL DEF Spec, AuthorityNeverGrows


-----------------------------------------------------------------------------
(* Reference counts.                                                        *)

(* The holders of an object can be counted.                                  *)
LEMMA HoldersFinite ==
  ASSUME NEW o
  PROVE  IsFiniteSet(Holders(o)) /\ Cardinality(Holders(o)) \in Nat
<1>1. Holders(o) \in SUBSET Cell
  BY DEF Holders
<1> QED
  BY <1>1, CellFinite, FS_Subset, FS_CardinalityType

(* A new cap in an empty cell is one more holder of its object.             *)
LEMMA FillHolders ==
  ASSUME TypeOK, NEW t \in Cell, ~Occupied(t), NEW k \in Cap,
         caps' = [caps EXCEPT ![t] = k], NEW o \in Counted
  PROVE  Cardinality(Holders(o))' =
           IF k.obj = o THEN Cardinality(Holders(o)) + 1 ELSE Cardinality(Holders(o))
<1>1. t \notin Holders(o)
  BY ObjectIsCap DEF Holders, Objects
<1>2. Holders(o)' = IF k.obj = o THEN Holders(o) \cup {t} ELSE Holders(o)
  BY <1>1 DEF Holders, TypeOK
<1>3. /\ Cardinality(Holders(o) \cup {t}) = Cardinality(Holders(o)) + 1
      /\ Cardinality(Holders(o))' = Cardinality(Holders(o)')
  BY <1>1, HoldersFinite, FS_AddElement
<1> QED
  BY <1>2, <1>3

(* A clear takes its slots from the holders of each object.                  *)
LEMMA ClearHolders ==
  ASSUME TypeOK, NEW R \in SUBSET Cell, NEW g, ClearCells(R, g), NEW o \in Counted
  PROVE  Cardinality(Holders(o))' =
           Cardinality(Holders(o)) - Cardinality({c \in R : caps[c].obj = o})
<1> DEFINE D == {c \in R : caps[c].obj = o}
<1>1. Holders(o)' = Holders(o) \ D
  BY ObjectsAssumption DEF ClearCells, Holders, EmptyCap, Objects
<1>2. D = Holders(o) \cap D
  BY DEF Holders
<1>3. Cardinality(Holders(o) \ D) = Cardinality(Holders(o)) - Cardinality(Holders(o) \cap D)
  BY HoldersFinite, FS_Difference
<1> QED
  BY <1>1, <1>2, <1>3

(* What inc_refcount and dec_refcount do to a count that is exact.          *)
LEMMA BaselineFixed == Baseline \cap (SocketIds \cup NetObjects) = {}
  BY GrantsAssumption, ObjectsAssumption DEF Baseline, Grant, Counted, Objects

CountOK(o) ==
  /\ refs[o] <= Cardinality(Holders(o))
  /\ o \notin Baseline => refs[o] = Cardinality(Holders(o))

(* Each shape of step keeps the counts: one slot filled from another,        *)
LEMMA MintKeepsCount ==
  ASSUME TypeOK, NEW t \in Cell, ~Occupied(t), NEW k \in Cap,
         caps' = [caps EXCEPT ![t] = k], refs' = inc_refcount(k.obj),
         \E c \in Cell : caps[c].obj = k.obj, NEW o \in Counted, CountOK(o)
  PROVE  CountOK(o)'
<1> DEFINE n == Cardinality(Holders(o))
<1>1. n \in Nat /\ refs[o] \in Nat
  BY HoldersFinite DEF TypeOK
<1>2. k.obj = o => n # 0
  <2> SUFFICES ASSUME k.obj = o PROVE Holders(o) # {}
    BY HoldersFinite, FS_EmptySet
  <2> QED
    BY DEF Holders
<1>3. Cardinality(Holders(o))' = IF k.obj = o THEN n + 1 ELSE n
  BY FillHolders
<1>4. refs'[o] = IF k.obj = o /\ refs[o] > 0 THEN refs[o] + 1 ELSE refs[o]
  BY DEF inc_refcount
<1>5. refs[o] <= n /\ (o \notin Baseline => refs[o] = n)
  BY DEF CountOK
<1> HIDE DEF n
<1>6. /\ refs'[o] <= (IF k.obj = o THEN n + 1 ELSE n)
      /\ o \notin Baseline => refs'[o] = (IF k.obj = o THEN n + 1 ELSE n)
  BY <1>1, <1>2, <1>4, <1>5
<1> QED
  BY <1>3, <1>6 DEF CountOK

(* slots cleared,                                                            *)
LEMMA ClearKeepsCount ==
  ASSUME TypeOK, NEW R \in SUBSET Cell, NEW g, ClearCells(R, g),
         NEW o \in Counted, CountOK(o)
  PROVE  CountOK(o)'
<1> DEFINE n == Cardinality(Holders(o))
           d == Cardinality({c \in R : caps[c].obj = o})
<1>1. n \in Nat /\ refs[o] \in Nat /\ d \in Nat
  BY HoldersFinite, DroppedNat DEF TypeOK
<1>2. Cardinality(Holders(o))' = n - d
  BY ClearHolders
<1>3. Cardinality(Holders(o))' \in Nat
  <2>1. Holders(o)' \in SUBSET Cell
    BY DEF Holders
  <2> QED
    BY <2>1, CellFinite, FS_Subset, FS_CardinalityType
<1>4. refs'[o] = IF refs[o] > d THEN refs[o] - d ELSE 0
  BY DEF ClearCells, dec_refcount
<1>5. refs[o] <= n /\ (o \notin Baseline => refs[o] = n)
  BY DEF CountOK
<1> HIDE DEF n, d
<1>6. refs'[o] <= n - d /\ (o \notin Baseline => refs'[o] = n - d)
  BY <1>1, <1>2, <1>3, <1>4, <1>5
<1> QED
  BY <1>2, <1>6 DEF CountOK

(* a socket created,                                                         *)
LEMMA CreateKeepsCount ==
  ASSUME TypeOK, NEW p \in Tier1, NEW t \in Slots, NEW h \in Handles,
         NEW i \in SocketIds, net_socket_create(p, t, h, i),
         NEW o \in Counted, CountOK(o)
  PROVE  CountOK(o)'
<1> DEFINE d == <<p, SlotNet>>
           k == [obj |-> i, rights |-> {Read, Write},
                 parent |-> [cell |-> d, gen |-> gen[d]]]
           n == Cardinality(Holders(o))
<1>1. d \in Cell /\ <<p, t>> \in Cell
  BY ProcsAssumption DEF Cell
<1>2. k \in Cap
  BY <1>1, ChildIsCap, RightsAssumption DEF Objects, Counted
<1>3. ~Occupied(<<p, t>>) /\ caps' = [caps EXCEPT ![<<p, t>>] = k]
  BY DEF net_socket_create
<1>4. Cardinality(Holders(o))' = IF i = o THEN n + 1 ELSE n
  <2> HIDE DEF k
  <2>1. Cardinality(Holders(o))' = IF k.obj = o THEN n + 1 ELSE n
    BY <1>1, <1>2, <1>3, FillHolders
  <2> QED
    BY <2>1 DEF k
<1>5. /\ refs'[o] = (IF i = o THEN 1 ELSE refs[o])
      /\ ~(refs[i] > 0)
  BY DEF net_socket_create, FirstFree, TypeOK
<1>6. i = o => o \notin Baseline
  BY BaselineFixed
<1>7. n \in Nat /\ refs[o] \in Nat /\ refs[o] <= n /\ (o \notin Baseline => refs[o] = n)
  BY HoldersFinite DEF TypeOK, CountOK
<1> HIDE DEF n
<1>8. /\ refs'[o] <= (IF i = o THEN n + 1 ELSE n)
      /\ o \notin Baseline => refs'[o] = (IF i = o THEN n + 1 ELSE n)
  BY <1>5, <1>6, <1>7
<1> QED
  BY <1>4, <1>8 DEF CountOK

(* and a process endowed, whose boot caps are in the baseline.               *)
LEMMA EndowKeepsCount ==
  ASSUME DerivationInv, NEW p \in Tier1, NEW w \in BOOLEAN,
         install_tier1_grants(p, w), NEW o \in Counted, CountOK(o)
  PROVE  CountOK(o)'
<1>1. /\ refs' = refs
      /\ \A c \in Cell : c[1] # p => caps'[c] = caps[c]
      /\ \A c \in Cell : c[1] = p => caps[c] = EmptyCap
      /\ \A c \in Cell : c[1] = p =>
           \/ caps'[c].obj = NoObject
           \/ caps'[c].obj = EventLog
           \/ caps'[c].obj \in Baseline
  <2>1. ASSUME NEW s \in DOMAIN DynGrants(w)
        PROVE  DynGrants(w)[s].obj = EventLog \/ DynGrants(w)[s].obj \in Baseline
    BY GrantsAssumption DEF DynGrants, Baseline
  <2> QED
    BY <2>1 DEF install_tier1_grants, EndowCSpace, EmptyCap, RootCap,
                DerivationInv, UnusedHoldNothing
<1>2. NoObject # o /\ EventLog # o
  BY ObjectsAssumption DEF Objects
<1>3. Holders(o) \subseteq Holders(o)'
  BY <1>1, <1>2 DEF Holders, EmptyCap
<1>4. o \notin Baseline => Holders(o)' = Holders(o)
  BY <1>1, <1>2, <1>3 DEF Holders
<1>5. Cardinality(Holders(o)) <= Cardinality(Holders(o)')
  <2>1. IsFiniteSet(Holders(o)')
    <3>1. Holders(o)' \in SUBSET Cell
      BY DEF Holders
    <3> QED
      BY <3>1, CellFinite, FS_Subset
  <2> QED
    BY <2>1, <1>3, FS_Subset
<1>6. Cardinality(Holders(o)) \in Nat /\ Cardinality(Holders(o)') \in Nat /\ refs[o] \in Nat
  <2>1. Holders(o)' \in SUBSET Cell
    BY DEF Holders
  <2> QED
    BY <2>1, HoldersFinite, CellFinite, FS_Subset, FS_CardinalityType
       DEF DerivationInv, TypeOK
<1> QED
  BY <1>1, <1>4, <1>5, <1>6 DEF CountOK

(* Counts are exact at boot, and every step keeps them so.                   *)
LEMMA CountInit == Init => RefcountExact
<1> SUFFICES ASSUME Init, NEW o \in Counted
             PROVE  CountOK(o)
  BY DEF RefcountExact, CountOK
<1>1. {c \in DOMAIN RootGrants : RootGrants[c].obj = o} = Holders(o)
  BY GrantsAssumption, ProcsAssumption, ObjectsAssumption
     DEF Init, init_root_caps, Holders, RootCap, EmptyCap, Cell, Objects
<1>2. refs[o] = Cardinality(Holders(o)) /\ Cardinality(Holders(o)) \in Nat
  BY <1>1, HoldersFinite DEF Init, init_root_caps
<1> QED
  BY <1>2 DEF CountOK

LEMMA CountStep == DerivationInv /\ RefcountExact /\ [Next]_vars => RefcountExact'
<1> SUFFICES ASSUME DerivationInv, RefcountExact, [Next]_vars, NEW o \in Counted
             PROVE  CountOK(o)'
  BY DEF RefcountExact, CountOK
<1>0. TypeOK /\ CountOK(o)
  BY DEF DerivationInv, RefcountExact, CountOK
<1>1. ASSUME NEW p \in Tier1, NEW s \in Slots, NEW t \in Slots,
             NEW r \in SUBSET Rights, cap_mint(p, s, t, r)
      PROVE  CountOK(o)'
  <2> DEFINE d == <<p, s>>
             k == [obj |-> caps[d].obj, rights |-> r,
                   parent |-> [cell |-> d, gen |-> gen[d]]]
  <2>1. d \in Cell /\ <<p, t>> \in Cell
    BY ProcsAssumption DEF Cell
  <2>2. k \in Cap
    BY <1>0, <1>1, <2>1, OccupiedIsCap, ChildIsCap DEF cap_mint, Cap
  <2>3. /\ ~Occupied(<<p, t>>) /\ caps' = [caps EXCEPT ![<<p, t>>] = k]
        /\ refs' = inc_refcount(k.obj) /\ caps[d].obj = k.obj
    BY <1>1 DEF cap_mint
  <2> HIDE DEF k
  <2> QED
    BY <1>0, <2>1, <2>2, <2>3, MintKeepsCount
<1>2. ASSUME NEW p \in Tier1, NEW s \in Slots, NEW t \in Slots, cap_copy(p, s, t)
      PROVE  CountOK(o)'
  <2>1. <<p, s>> \in Cell /\ <<p, t>> \in Cell /\ caps[<<p, s>>] \in Cap
    BY <1>0, <1>2, OccupiedIsCap, ProcsAssumption DEF Cell, cap_copy
  <2> QED
    BY <1>0, <1>2, <2>1, MintKeepsCount DEF cap_copy
<1>3. ASSUME NEW p \in Tier1, NEW s \in Slots, NEW released \in BOOLEAN,
             cap_revoke(p, s) \/ cap_delete(p, s) \/ net_socket_close(p, s, released)
      PROVE  CountOK(o)'
  <2>1. <<p, s>> \in Cell
    BY ProcsAssumption DEF Cell
  <2>2. \E R \in SUBSET Cell : \E g : ClearCells(R, g)
    BY <1>3, <2>1, RevokeSetCells DEF cap_revoke, cap_delete, net_socket_close
  <2> QED
    BY <1>0, <2>2, ClearKeepsCount
<1>4. ASSUME NEW p \in Tier1, NEW t \in Slots, NEW h \in Handles,
             NEW i \in SocketIds, net_socket_create(p, t, h, i)
      PROVE  CountOK(o)'
  BY <1>0, <1>4, CreateKeepsCount
<1>5. ASSUME NEW p \in Tier1, NEW w \in BOOLEAN, install_tier1_grants(p, w)
      PROVE  CountOK(o)'
  BY <1>0, <1>5, EndowKeepsCount
<1>6. ASSUME NEW p \in Tier1, Terminate(p)
      PROVE  CountOK(o)'
  BY <1>0, <1>6 DEF Terminate, CountOK, Holders
<1>7. CASE UNCHANGED vars
  BY <1>0, <1>7 DEF vars, CountOK, Holders
<1> QED
  BY <1>1, <1>2, <1>3, <1>4, <1>5, <1>6, <1>7 DEF Next, TenantStep, PlainStep

(* No object is kept longer than the caps that name it, and one that        *)
(* spawning does not hand out is never freed earlier either (revoke.rs,     *)
(* inc_refcount and dec_refcount).                                          *)
THEOREM RefcountCorrect == Spec => []RefcountExact
<1> QED
  BY CountInit, CountStep, DerivationInvariant, PTL DEF Spec


-----------------------------------------------------------------------------
(* Sockets.                                                                 *)

(* A pool entry without references has no holder.                            *)
LEMMA UnreferencedUnheld ==
  ASSUME TypeOK, RefcountExact, NEW i \in SocketIds, ~(refs[i] > 0)
  PROVE  Holders(i) = {}
<1>1. i \in Counted /\ i \notin Baseline
  BY BaselineFixed DEF Counted
<1>2. Cardinality(Holders(i)) = 0
  BY <1>1 DEF RefcountExact, TypeOK
<1> QED
  BY <1>2, HoldersFinite, FS_EmptySet

(* A step that puts in one cell of process p a socket that only p holds, or *)
(* none, and otherwise only clears cells, shares no socket.                 *)
LEMMA NoSharedStep ==
  DerivationInv /\ RefcountExact /\ NoSharedSocket /\ [Next]_vars => NoSharedSocket'
<1> SUFFICES ASSUME DerivationInv, RefcountExact, NoSharedSocket, [Next]_vars,
                    NEW c \in Cell, NEW d \in Cell, IsSocket(caps'[c].obj),
                    caps'[c].obj = caps'[d].obj
             PROVE  c[1] = d[1]
  BY DEF NoSharedSocket, IsSocket
<1> DEFINE Old(e) == \E b \in Cell : b[1] = e[1] /\ caps[b].obj = caps'[e].obj
<1>0. TypeOK
  BY DEF DerivationInv
<1>1. ASSUME Old(c), Old(d) PROVE c[1] = d[1]
  BY <1>1 DEF NoSharedSocket, IsSocket
<1>2. ASSUME NEW p \in Tier1, NEW s \in Slots, NEW t \in Slots, NEW r \in SUBSET Rights,
             cap_mint(p, s, t, r) \/ cap_copy(p, s, t), NEW e \in Cell
      PROVE  Old(e)
  <2>1. <<p, s>> \in Cell /\ <<p, t>> \in Cell
    BY ProcsAssumption DEF Cell
  <2> QED
    BY <1>0, <1>2, <2>1 DEF cap_mint, cap_copy, TypeOK
<1>3. ASSUME NEW R, NEW g, ClearCells(R, g), NEW e \in {c, d}
      PROVE  Old(e)
  <2>1. caps'[e] # EmptyCap
    BY ObjectsAssumption DEF IsSocket, EmptyCap, Objects, Counted
  <2> QED
    BY <1>3, <2>1 DEF ClearCells
<1>4. ASSUME NEW p \in Tier1, NEW t \in Slots, NEW h \in Handles,
             NEW i \in SocketIds, net_socket_create(p, t, h, i)
      PROVE  c[1] = d[1]
  <2>1. ~(refs[i] > 0)
    BY <1>4 DEF net_socket_create, FirstFree
  <2>2. \A e \in Cell : caps[e].obj # i
    BY <1>0, <2>1, UnreferencedUnheld DEF Holders
  <2>3. /\ <<p, t>> \in Cell
        /\ caps'[<<p, t>>].obj = i
        /\ \A e \in Cell : e # <<p, t>> => caps'[e] = caps[e]
    BY <1>0, <1>4, ProcsAssumption DEF net_socket_create, TypeOK, Cell
  <2>4. CASE c = <<p, t>> \/ d = <<p, t>>
    BY <2>2, <2>3, <2>4
  <2>5. CASE c # <<p, t>> /\ d # <<p, t>>
    BY <1>1, <2>3, <2>5
  <2> QED
    BY <2>4, <2>5
<1>5. ASSUME NEW p \in Tier1, NEW w \in BOOLEAN, install_tier1_grants(p, w),
             NEW e \in {c, d}
      PROVE  Old(e)
  <2>1. ASSUME NEW s \in DOMAIN DynGrants(w)
        PROVE  DynGrants(w)[s].obj \notin SocketIds
    BY DynGrantIsGrant, ObjectsAssumption DEF Grant, Counted
  <2>2. NoObject \notin SocketIds
    BY ObjectsAssumption DEF Objects, Counted
  <2>3. e[1] # p
    BY <1>5, <2>1, <2>2
       DEF install_tier1_grants, EndowCSpace, EmptyCap, RootCap, IsSocket
  <2> QED
    BY <1>5, <2>3 DEF install_tier1_grants, EndowCSpace
<1>6. CASE UNCHANGED caps
  BY <1>1, <1>6
<1>7. ASSUME NEW p \in Tier1, NEW s \in Slots, NEW released \in BOOLEAN,
             cap_revoke(p, s) \/ cap_delete(p, s) \/ net_socket_close(p, s, released)
      PROVE  c[1] = d[1]
  <2>1. \E R : \E g : ClearCells(R, g)
    BY <1>7 DEF cap_revoke, cap_delete, net_socket_close
  <2> QED
    BY <1>1, <1>3, <2>1
<1>8. ASSUME NEW p \in Tier1, Terminate(p)
      PROVE  UNCHANGED caps
  BY <1>8 DEF Terminate
<1> HIDE DEF Old
<1> QED
  BY <1>1, <1>2, <1>4, <1>5, <1>6, <1>7, <1>8 DEF Next, TenantStep, PlainStep, vars

(* Two processes never hold the same Socket pool entry, however entries and *)
(* slots are reused (syscall.rs, net_socket_create_impl).                   *)
THEOREM SocketsPrivate == Spec => []NoSharedSocket
<1>1. Init => NoSharedSocket
  <2> SUFFICES ASSUME Init, NEW c \in Cell PROVE ~IsSocket(caps[c].obj)
    BY DEF NoSharedSocket
  <2> QED
    BY GrantsAssumption, ObjectsAssumption
       DEF Init, init_root_caps, RootCap, EmptyCap, IsSocket, Grant, Counted, Objects
<1> QED
  BY <1>1, NoSharedStep, DerivationInvariant, RefcountCorrect, PTL DEF Spec

(* The driver's own Net cap is out of every tenant's reach.                 *)
DriverHoldsNet ==
  \A n \in NetObjects : \E c \in Cell : c[1] \notin Tier1 /\ caps[c].obj = n

(* The driver keeps its Net caps, whatever the tenants do.                   *)
LEMMA DriverStep == DerivationInv /\ DriverHoldsNet /\ [Next]_vars => DriverHoldsNet'
<1> SUFFICES ASSUME DerivationInv, DriverHoldsNet, [Next]_vars,
                    NEW c \in Cell, c[1] \notin Tier1
             PROVE  caps'[c] = caps[c]
  BY DEF DriverHoldsNet
<1>1. ASSUME NEW p \in Tier1, NEW t \in Slots, NEW h \in Handles, NEW i \in SocketIds,
             net_socket_create(p, t, h, i)
      PROVE  caps'[c] = caps[c]
  BY <1>1 DEF net_socket_create, DerivationInv, TypeOK
<1>2. ASSUME NEW p \in Tier1, NEW s \in Slots, NEW released \in BOOLEAN,
             cap_revoke(p, s) \/ cap_delete(p, s) \/ net_socket_close(p, s, released)
      PROVE  caps'[c] = caps[c]
  <2>1. <<p, s>> \in Cell
    BY ProcsAssumption DEF Cell
  <2> QED
    BY <1>2, <2>1, CascadeAtHome DEF cap_revoke, cap_delete, net_socket_close, ClearCells
<1>3. ASSUME NEW p \in Tier1, NEW w \in BOOLEAN,
             install_tier1_grants(p, w) \/ Terminate(p)
      PROVE  caps'[c] = caps[c]
  BY <1>3 DEF install_tier1_grants, EndowCSpace, Terminate
<1>4. ASSUME NEW p \in Tier1, NEW s \in Slots, NEW t \in Slots, NEW r \in SUBSET Rights,
             cap_mint(p, s, t, r) \/ cap_copy(p, s, t)
      PROVE  caps'[c] = caps[c]
  BY <1>4 DEF cap_mint, cap_copy, DerivationInv, TypeOK
<1> QED
  BY <1>1, <1>2, <1>3, <1>4 DEF Next, TenantStep, PlainStep, vars

(* INV-21: a Socket cap is only ever held while the Net pool entry is live. *)
THEOREM SocketNeedsNet == Spec => []SocketImpliesNet
<1>1. Init => DriverHoldsNet
  <2> SUFFICES ASSUME Init, NEW n \in NetObjects
               PROVE  \E c \in Cell : c[1] \notin Tier1 /\ caps[c].obj = n
    BY DEF DriverHoldsNet
  <2>1. PICK c \in DOMAIN RootGrants : c[1] \notin Tier1 /\ RootGrants[c].obj = n
    BY DriverAssumption
  <2>2. c \in Cell /\ caps[c].obj = n
    BY <2>1, GrantsAssumption, ProcsAssumption DEF Init, init_root_caps, RootCap, Cell
  <2> QED
    BY <2>1, <2>2
<1>2. TypeOK /\ RefcountExact /\ DriverHoldsNet => SocketImpliesNet
  <2> SUFFICES ASSUME TypeOK, RefcountExact, DriverHoldsNet, NEW n \in NetObjects
               PROVE  refs[n] > 0
    BY DEF SocketImpliesNet
  <2>1. n \in Counted /\ n \notin Baseline
    BY BaselineFixed, ObjectsAssumption DEF Counted
  <2>2. Holders(n) # {}
    BY DEF DriverHoldsNet, Holders
  <2>3. Cardinality(Holders(n)) # 0
    BY <2>2, HoldersFinite, FS_EmptySet
  <2> QED
    BY <2>1, <2>3, HoldersFinite DEF RefcountExact
<1>3. DerivationInv => TypeOK
  BY DEF DerivationInv
<1> QED
  BY <1>1, <1>2, <1>3, DriverStep, DerivationInvariant, RefcountCorrect, PTL DEF Spec

-----------------------------------------------------------------------------
(* The forest.  While no counter has run out, a cap hangs below a cell in the  *)
(* forest exactly when its record of the parent is current.                    *)
LEMMA ForestCells == Forest!Cells = Cell
  BY DEF Forest!Cells, Cell

(* What the forest holds at a node is the cap of the slot,                   *)
LEMMA HeldIs ==
  ASSUME TypeOK, NEW c \in Cell
  PROVE  /\ Occupied(c) => held[c] = [obj |-> caps[c].obj, rights |-> caps[c].rights,
                                      parent |-> ForestParent(c)]
         /\ ~Occupied(c) => held[c] = EmptyCap
         /\ Occupied(c) => /\ held[c].obj = caps[c].obj /\ held[c].rights = caps[c].rights
                           /\ held[c].parent = ForestParent(c)
         /\ Forest!Taken(c) <=> Occupied(c)
<1>1. Occupied(c) => held[c] = [obj |-> caps[c].obj, rights |-> caps[c].rights,
                                parent |-> ForestParent(c)]
  BY DEF held
<1>2. ~Occupied(c) => held[c] = EmptyCap
  BY DEF held
<1>3. Occupied(c) => held[c] # EmptyCap
  <2>1. Occupied(c) => caps[c].obj # NoObject
    BY OccupiedIsCap, ObjectsAssumption DEF Cap
  <2>2. EmptyCap.obj = NoObject
    BY DEF EmptyCap
  <2> QED
    BY <1>1, <2>1, <2>2
<1>4. Occupied(c) => /\ held[c].obj = caps[c].obj /\ held[c].rights = caps[c].rights
                     /\ held[c].parent = ForestParent(c)
  <2> DEFINE k == [obj |-> caps[c].obj, rights |-> caps[c].rights,
                   parent |-> ForestParent(c)]
  <2>1. /\ k.obj = caps[c].obj /\ k.rights = caps[c].rights
        /\ k.parent = ForestParent(c)
    OBVIOUS
  <2> QED
    BY <1>1, <2>1
<1> QED
  BY <1>1, <1>2, <1>3, <1>4 DEF Forest!Taken

(* its parent the slot that the cap is linked to,                            *)
LEMMA ParentIs ==
  ASSUME DerivationInv, NEW c \in Cell
  PROVE  /\ \A d \in Cell : ForestParent(c) = d <=> Linked(c, d)
         /\ ForestParent(c) \in Cell \cup {ROOT, NoHandle}
<1>1. ASSUME caps[c].parent # ROOT PROVE caps[c].parent.cell \in Cell
  <2>1. Occupied(c)
    BY <1>1 DEF Occupied, EmptyCap
  <2> QED
    BY <1>1, <2>1, OccupiedIsCap DEF DerivationInv, Cap, CapId
<1> QED
  BY <1>1, SentinelAssumption DEF ForestParent, Linked

(* and its edges the links of the tables.                                    *)
LEMMA ChildIsLinked ==
  ASSUME DerivationInv, NEW c \in Cell, NEW d \in Cell
  PROVE  Forest!ChildOf(c, d) <=> Linked(c, d)
<1>1. Linked(c, d) => Occupied(c)
  BY DEF Linked, Occupied, EmptyCap
<1>2. Occupied(c) => (held[c].parent = d <=> Linked(c, d))
  <2>1. Occupied(c) => held[c].parent = ForestParent(c)
    BY HeldIs DEF DerivationInv
  <2> QED
    BY <2>1, ParentIs
<1>3. Forest!Taken(c) <=> Occupied(c)
  BY HeldIs DEF DerivationInv
<1> QED
  BY <1>1, <1>2, <1>3 DEF Forest!ChildOf

(* What a revocation clears is the tree that hangs below the cap.              *)
LEMMA TreeIsRevokeSet ==
  ASSUME DerivationInv, NEW c \in Cell
  PROVE  Forest!Tree(c) = RevokeSet(c)
<1> DEFINE Closing(R) == c \in R /\ \A a \in R, b \in Cell : Linked(b, a) => b \in R
<1>1. Forest!Tree(c) = {d \in Cell : \A R \in SUBSET Cell : Closing(R) => d \in R}
  BY ForestCells, ChildIsLinked DEF Forest!Tree
<1>2. ASSUME NEW Q \in SUBSET Derived, Closed({c} \cup Q)
      PROVE  {c} \cup Q \in SUBSET Cell /\ Closing({c} \cup Q)
  BY <1>2 DEF Closed, Derived, Linked
<1>3. ASSUME NEW R \in SUBSET Cell, Closing(R)
      PROVE  {c} \cup (R \cap Derived) \subseteq R /\ Closed({c} \cup (R \cap Derived))
  BY <1>3 DEF Closed, Derived, Linked
<1>4. ASSUME NEW d \in Cell, \A R \in SUBSET Cell : Closing(R) => d \in R
      PROVE  d \in RevokeSet(c)
  <2>1. Closed({c} \cup Derived)
    BY DEF Closed
  <2>2. d \in Derived \cup {c}
    BY <1>2, <1>4, <2>1
  <2>3. \A R \in {{c} \cup Q : Q \in SUBSET Derived} : Closed(R) => d \in R
    BY <1>2, <1>4
  <2> QED
    BY <2>2, <2>3 DEF RevokeSet
<1>5. ASSUME NEW d \in RevokeSet(c), NEW R \in SUBSET Cell, Closing(R)
      PROVE  d \in R
  <2>1. {c} \cup (R \cap Derived) \in {{c} \cup Q : Q \in SUBSET Derived}
    OBVIOUS
  <2>2. d \in {c} \cup (R \cap Derived)
    BY <1>3, <1>5, <2>1 DEF RevokeSet
  <2> QED
    BY <1>3, <1>5, <2>2
<1>6. RevokeSet(c) \subseteq Cell
  BY RevokeSetCells
<1> HIDE DEF Closing
<1> QED
  BY <1>1, <1>4, <1>5, <1>6

(* Clearing cells removes them and orphans what hung below them: the new        *)
(* generation of a cleared cell agrees with no cap's record.                    *)
LEMMA ClearRemoves ==
  ASSUME DerivationInv, NEW R \in SUBSET Cell, NEW bumped \in [Cell -> 0 .. GenMax],
         \A c \in Cell \ R : bumped[c] = gen[c],
         \A c \in R : gen[c] < GenMax => bumped[c] = gen[c] + 1,
         ClearCells(R, bumped), worn' = {}, TypeOK'
  PROVE  Forest!Remove(R)
<1>0. /\ \A c \in Cell : caps'[c] = IF c \in R THEN EmptyCap ELSE caps[c]
      /\ gen' = bumped /\ worn = {} /\ \A c \in R : gen[c] # GenMax
  BY DEF ClearCells
<1>1. ASSUME NEW c \in Cell, c \notin R, Occupied(c)
      PROVE  ForestParent(c)' = IF ForestParent(c) \in R THEN NoHandle ELSE ForestParent(c)
  <2>1. caps'[c] = caps[c] /\ NoHandle \notin R /\ ROOT \notin R
    BY <1>0, <1>1, SentinelAssumption
  <2>2. CASE caps[c].parent = ROOT
    BY <2>1, <2>2 DEF ForestParent
  <2>3. CASE caps[c].parent # ROOT
    <3>1. PICK d \in Cell : d = caps[c].parent.cell
      BY <1>1, <2>3, OccupiedIsCap DEF DerivationInv, Cap, CapId
    <3>2. caps[c].parent.gen \in Nat /\ gen[d] \in Nat /\ caps[c].parent.gen <= gen[d]
      <4>1. caps[c].parent.gen \in 0 .. GenMax /\ gen[d] \in 0 .. GenMax
        BY <1>1, <2>3, OccupiedIsCap DEF DerivationInv, Cap, CapId, TypeOK
      <4>2. caps[c].parent.gen <= gen[d]
        BY <1>0, <2>3, <3>1 DEF DerivationInv, GenerationsReached
      <4> QED
        BY <4>1, <4>2, GenAssumption
    <3>3. CASE d \in R
      <4>1. gen'[d] = gen[d] + 1
        <5>1. gen[d] < GenMax
          BY <1>0, <3>3, GenAssumption DEF DerivationInv, TypeOK
        <5> QED
          BY <1>0, <3>3, <5>1
      <4>2. ~Linked(c, d)'
        BY <2>1, <3>2, <4>1 DEF Linked
      <4> QED
        BY <2>1, <2>3, <3>1, <3>3, <4>2 DEF ForestParent
    <3>4. CASE d \notin R
      <4>1. Linked(c, d)' <=> Linked(c, d)
        BY <1>0, <2>1, <3>4 DEF Linked
      <4> QED
        BY <2>1, <2>3, <3>1, <3>4, <4>1 DEF ForestParent
    <3> QED
      BY <3>3, <3>4
  <2> QED
    BY <2>2, <2>3
<1>2. ASSUME NEW c \in Cell
      PROVE  held'[c] = IF c \in R THEN EmptyCap
                        ELSE IF Forest!Taken(c) /\ held[c].parent \in R
                        THEN [held[c] EXCEPT !.parent = NoHandle]
                        ELSE held[c]
  <2>1. CASE c \in R
    <3>1. caps'[c] = EmptyCap
      BY <1>0, <2>1
    <3> QED
      BY <2>1, <3>1 DEF held, Occupied
  <2>2. CASE c \notin R /\ ~Occupied(c)
    <3>1. caps'[c] = EmptyCap /\ ~Forest!Taken(c) /\ held[c] = EmptyCap
      BY <1>0, <2>2, HeldIs DEF Occupied, DerivationInv
    <3> QED
      BY <2>2, <3>1 DEF held, Occupied
  <2>3. CASE c \notin R /\ Occupied(c)
    <3>1. /\ caps'[c] = caps[c] /\ Forest!Taken(c)
          /\ held[c] = [obj |-> caps[c].obj, rights |-> caps[c].rights,
                        parent |-> ForestParent(c)]
      BY <1>0, <2>3, HeldIs DEF DerivationInv
    <3>2. held'[c] = [obj |-> caps[c].obj, rights |-> caps[c].rights,
                      parent |-> ForestParent(c)']
      BY <2>3, <3>1 DEF held, Occupied
    <3> QED
      BY <1>1, <2>3, <3>1, <3>2
  <2> QED
    BY <2>1, <2>2, <2>3
<1>3. held' = [c \in Cell |-> held'[c]]
  BY DEF held
<1> QED
  BY <1>2, <1>3, ForestCells DEF Forest!Remove

(* Filling a cell leaves every other cap where it hangs.                         *)
LEMMA FillAdds ==
  ASSUME TypeOK, NEW t \in Cell, NEW k \in Cap, NEW q,
         caps' = [caps EXCEPT ![t] = k], gen' = gen,
         ForestParent(t)' = q
  PROVE  held' = [held EXCEPT ![t] = [obj |-> k.obj, rights |-> k.rights, parent |-> q]]
<1>1. caps \in [Cell -> Cap \cup {EmptyCap}]
  BY DEF TypeOK
<1>2. ASSUME NEW c \in Cell, c # t PROVE held'[c] = held[c]
  <2>1. caps'[c] = caps[c]
    BY <1>1, <1>2
  <2>2. ForestParent(c)' = ForestParent(c)
    BY <2>1 DEF ForestParent, Linked
  <2> QED
    BY <2>1, <2>2 DEF held, Occupied
<1>3. held'[t] = [obj |-> k.obj, rights |-> k.rights, parent |-> q]
  <2>1. caps'[t] = k /\ k # EmptyCap
    BY <1>1, EmptyNotCap
  <2> QED
    BY <2>1 DEF held, Occupied
<1>4. held = [c \in Cell |-> held[c]] /\ held' = [c \in Cell |-> held'[c]]
  BY DEF held
<1> HIDE DEF held
<1> QED
  BY <1>2, <1>3, <1>4

(* A spawned module's caps hang below no cap.                                    *)
LEMMA EndowAdds ==
  ASSUME DerivationInv, TypeOK', NEW p \in Procs, NEW w \in BOOLEAN,
         install_tier1_grants(p, w)
  PROVE  Forest!Endow(p)
<1>0. /\ \A c \in Cell : c[1] # p => caps'[c] = caps[c] /\ gen'[c] = gen[c]
      /\ \A c \in Cell : c[1] = p => caps'[c].parent = ROOT
      /\ status' = [status EXCEPT ![p] = "live"] /\ status[p] = "unused"
  BY DynGrantIsGrant, RootCapIsCap
     DEF install_tier1_grants, EndowCSpace, EmptyCap
<1>1. ASSUME NEW c \in Cell, c[1] = p
      PROVE  held'[c] = EmptyCap \/ held'[c].parent = ROOT
  <2>1. ForestParent(c)' = ROOT
    BY <1>0, <1>1 DEF ForestParent
  <2> QED
    BY <2>1 DEF held
<1>2. ASSUME NEW c \in Cell, c[1] # p PROVE held'[c] = held[c]
  <2>1. caps'[c] = caps[c]
    BY <1>0, <1>2
  <2>2. ForestParent(c)' = ForestParent(c)
    <3>1. CASE caps[c].parent = ROOT
      BY <2>1, <3>1 DEF ForestParent
    <3>2. CASE caps[c].parent # ROOT
      <4>1. Occupied(c)
        BY <3>2 DEF Occupied, EmptyCap
      <4>2. caps[c].parent.cell \in Cell /\ caps[c].parent.cell[1] # p
        BY <1>2, <3>2, <4>1, OccupiedIsCap DEF DerivationInv, ParentsAtHome, Cap, CapId
      <4>3. Linked(c, caps[c].parent.cell)' <=> Linked(c, caps[c].parent.cell)
        BY <1>0, <2>1, <4>2 DEF Linked
      <4> QED
        BY <2>1, <4>3 DEF ForestParent
    <3> QED
      BY <3>1, <3>2
  <2> QED
    BY <2>1, <2>2 DEF held, Occupied
<1>3. held' \in [Cell -> Forest!Held \cup {EmptyCap}]
  <2> SUFFICES ASSUME NEW c \in Cell PROVE held'[c] \in Forest!Held \cup {EmptyCap}
    BY DEF held
  <2>1. CASE caps'[c] = EmptyCap
    BY <2>1 DEF held, Occupied
  <2>2. CASE caps'[c] # EmptyCap
    <3>1. caps'[c] \in Cap
      BY <2>2 DEF TypeOK
    <3>2. ForestParent(c)' \in Cell \cup {ROOT, NoHandle}
      BY <3>1 DEF ForestParent, Linked, Cap, CapId
    <3>3. held'[c] = [obj |-> caps'[c].obj, rights |-> caps'[c].rights,
                      parent |-> ForestParent(c)']
      BY <2>2 DEF held, Occupied
    <3> QED
      BY <3>1, <3>2, <3>3, ForestCells DEF Forest!Held, Cap
  <2> QED
    BY <2>1, <2>2
<1>4. {q \in Procs : status'[q] = "unused"} = {q \in Procs : status[q] = "unused"} \ {p}
  BY <1>0 DEF DerivationInv, TypeOK
<1> QED
  BY <1>0, <1>1, <1>2, <1>3, <1>4, ForestCells DEF Forest!Endow

(* Boot is a forest, and every step of the tables is one of the forest.      *)
LEMMA ForestInit == Init => Forest!Init
<1> SUFFICES ASSUME Init PROVE Forest!Init
  OBVIOUS
<1>1. DerivationInv
  BY DerivationInit
<1>2. ASSUME NEW c \in Cell, Occupied(c)
      PROVE  caps[c].parent = ROOT /\ status[c[1]] = "live"
  <2>1. c \in DOMAIN RootGrants
    BY <1>2 DEF Init, init_root_caps, Occupied
  <2>2. c[1] \in BootProcs /\ c[1] \in Procs
    BY <2>1, GrantsAssumption, ProcsAssumption DEF Cell
  <2> QED
    BY <2>1, <2>2 DEF Init, init_root_caps, RootCap
<1>3. ASSUME NEW c \in Cell
      PROVE  held[c] \in Forest!Held \cup {EmptyCap}
  <2>1. CASE ~Occupied(c)
    BY <2>1 DEF held
  <2>2. CASE Occupied(c)
    <3>1. caps[c] \in Cap /\ ForestParent(c) \in Cell \cup {ROOT, NoHandle}
      BY <1>1, <2>2, OccupiedIsCap, ParentIs DEF DerivationInv
    <3>2. held[c] = [obj |-> caps[c].obj, rights |-> caps[c].rights,
                     parent |-> ForestParent(c)]
      BY <2>2 DEF held
    <3> QED
      BY <3>1, <3>2, ForestCells DEF Forest!Held, Cap
  <2> QED
    BY <2>1, <2>2
<1>4. held \in [Cell -> Forest!Held \cup {EmptyCap}]
  BY <1>3 DEF held
<1>5. ASSUME NEW c \in Cell, Forest!Taken(c)
      PROVE  held[c].parent = ROOT /\ c[1] \notin {p \in Procs : status[p] = "unused"}
  <2>1. Occupied(c)
    BY <1>1, <1>5, HeldIs DEF DerivationInv
  <2>2. held[c].parent = ForestParent(c)
    BY <1>1, <2>1, HeldIs DEF DerivationInv
  <2> QED
    BY <1>2, <2>1, <2>2 DEF ForestParent
<1>6. worn = {}
  BY DEF Init
<1> QED
  BY <1>4, <1>5, <1>6, ForestCells DEF Forest!Init

LEMMA ForestStep ==
  ASSUME DerivationInv, DerivationInv', RefcountExact, [Next]_vars
  PROVE  [Forest!Next]_<<held, {p \in Procs : status[p] = "unused"}, worn # {}>>
<1> DEFINE fresh == {p \in Procs : status[p] = "unused"}
<1>a. CASE worn' # {}
  BY <1>a DEF Forest!Next
<1>b. CASE worn' = {} /\ ~UNCHANGED vars
  <2> SUFFICES \/ UNCHANGED <<held, fresh, worn>>
               \/ \E p \in Procs : Forest!Call(p) /\ UNCHANGED fresh
               \/ \E p \in Procs : Forest!Endow(p)
    BY <1>b DEF Forest!Next
  <2>0. TypeOK /\ TypeOK' /\ Tier1 \subseteq Procs
    BY ProcsAssumption DEF DerivationInv
  <2>1. ASSUME NEW p \in Tier1, NEW s \in Slots, NEW t \in Slots,
               NEW r \in SUBSET Rights, cap_mint(p, s, t, r)
        PROVE  Forest!Derive(<<p, s>>, <<p, t>>, r) /\ UNCHANGED fresh
    <3> DEFINE d == <<p, s>>
               k == [obj |-> caps[d].obj, rights |-> r,
                     parent |-> [cell |-> d, gen |-> gen[d]]]
    <3>1. d \in Cell /\ <<p, t>> \in Cell
      BY <2>0 DEF Cell
    <3>2. k \in Cap
      BY <2>0, <2>1, <3>1, OccupiedIsCap, ChildIsCap DEF cap_mint, Cap
    <3>3. /\ caps' = [caps EXCEPT ![<<p, t>>] = k] /\ gen' = gen /\ status' = status
          /\ Occupied(d) /\ ~Occupied(<<p, t>>) /\ r \subseteq caps[d].rights
      BY <2>1 DEF cap_mint
    <3>4. ForestParent(<<p, t>>)' = d
      <4>1. caps'[<<p, t>>] = k
        BY <2>0, <3>1, <3>3 DEF TypeOK
      <4>2. k.parent # ROOT
        BY <3>1, <2>0, RootAssumption DEF CapId, TypeOK
      <4> QED
        BY <3>3, <4>1, <4>2 DEF ForestParent, Linked
    <3>5. held' = [held EXCEPT ![<<p, t>>] = [obj |-> k.obj, rights |-> k.rights, parent |-> d]]
      <4> HIDE DEF k
      <4> QED
        BY <2>0, <3>1, <3>2, <3>3, <3>4, FillAdds
    <3>6. /\ Forest!Taken(d) /\ ~Forest!Taken(<<p, t>>)
          /\ held[d].obj = caps[d].obj /\ held[d].rights = caps[d].rights
      BY <2>0, <3>1, <3>3, HeldIs
    <3> QED
      BY <3>3, <3>5, <3>6 DEF Forest!Derive
  <2>2. ASSUME NEW p \in Tier1, NEW s \in Slots, NEW t \in Slots, cap_copy(p, s, t)
        PROVE  Forest!Duplicate(<<p, s>>, <<p, t>>) /\ UNCHANGED fresh
    <3> DEFINE d == <<p, s>>
    <3>1. d \in Cell /\ <<p, t>> \in Cell
      BY <2>0 DEF Cell
    <3>2. caps[d] \in Cap
      BY <2>0, <2>2, <3>1, OccupiedIsCap DEF cap_copy
    <3>3. /\ caps' = [caps EXCEPT ![<<p, t>>] = caps[d]] /\ gen' = gen /\ status' = status
          /\ Occupied(d) /\ ~Occupied(<<p, t>>)
      BY <2>2 DEF cap_copy
    <3>4. ForestParent(<<p, t>>)' = ForestParent(d)
      <4>1. caps'[<<p, t>>] = caps[d]
        BY <2>0, <3>1, <3>3 DEF TypeOK
      <4> QED
        BY <3>3, <4>1 DEF ForestParent, Linked
    <3>5. held' = [held EXCEPT ![<<p, t>>] = [obj |-> caps[d].obj, rights |-> caps[d].rights,
                                              parent |-> ForestParent(d)]]
      BY <2>0, <3>1, <3>2, <3>3, <3>4, FillAdds
    <3>6. /\ Forest!Taken(d) /\ ~Forest!Taken(<<p, t>>)
          /\ held[d] = [obj |-> caps[d].obj, rights |-> caps[d].rights,
                        parent |-> ForestParent(d)]
      BY <2>0, <3>1, <3>3, HeldIs
    <3> QED
      BY <3>3, <3>5, <3>6 DEF Forest!Duplicate
  <2>3. ASSUME NEW p \in Tier1, NEW s \in Slots, cap_revoke(p, s)
        PROVE  Forest!Revoke(<<p, s>>) /\ UNCHANGED fresh
    <3> DEFINE d == <<p, s>>
               R == RevokeSet(d)
    <3>1. d \in Cell /\ R \in SUBSET Cell /\ d \in R
      BY <2>0, RevokeSetCells DEF Cell, RevokeSet
    <3>2. Occupied(d) /\ ClearCells(R, SaturatingBump(R)) /\ status' = status
      BY <2>3 DEF cap_revoke
    <3>3. Forest!Remove(R)
      <4>1. SaturatingBump(R) \in [Cell -> 0 .. GenMax]
        BY <2>0, <3>1, BumpType
      <4>2. /\ \A c \in Cell \ R : SaturatingBump(R)[c] = gen[c]
            /\ \A c \in R : gen[c] < GenMax => SaturatingBump(R)[c] = gen[c] + 1
        BY <3>1 DEF SaturatingBump
      <4> HIDE DEF R, SaturatingBump
      <4> QED
        BY <1>b, <2>0, <3>1, <3>2, <4>1, <4>2, ClearRemoves
    <3>4. Forest!Taken(d) /\ Forest!Tree(d) = R
      BY <2>0, <3>1, <3>2, HeldIs, TreeIsRevokeSet
    <3>5. held'[d] = EmptyCap
      BY <3>1, <3>3, ForestCells DEF Forest!Remove
    <3> QED
      BY <3>2, <3>3, <3>4, <3>5 DEF Forest!Revoke
  <2>4. ASSUME NEW p \in Tier1, NEW s \in Slots, cap_delete(p, s)
        PROVE  Forest!Delete(<<p, s>>) /\ UNCHANGED fresh
    <3> DEFINE R == {<<p, s>>}
    <3>1. <<p, s>> \in Cell /\ R \in SUBSET Cell
      BY <2>0 DEF Cell
    <3>2. Occupied(<<p, s>>) /\ ClearCells(R, SaturatingBump(R)) /\ status' = status
      BY <2>4 DEF cap_delete
    <3>3. SaturatingBump(R) \in [Cell -> 0 .. GenMax]
      BY <2>0, <3>1, BumpType
    <3>4. /\ \A c \in Cell \ R : SaturatingBump(R)[c] = gen[c]
          /\ \A c \in R : gen[c] < GenMax => SaturatingBump(R)[c] = gen[c] + 1
      BY <3>1 DEF SaturatingBump
    <3>5. Forest!Remove(R)
      <4> HIDE DEF R, SaturatingBump
      <4> QED
        BY <1>b, <2>0, <3>1, <3>2, <3>3, <3>4, ClearRemoves
    <3>6. Forest!Taken(<<p, s>>)
      BY <2>0, <3>1, <3>2, HeldIs
    <3> QED
      BY <3>2, <3>5, <3>6 DEF Forest!Delete
  <2>5. ASSUME NEW p \in Tier1, NEW t \in Slots, NEW h \in Handles,
               NEW i \in SocketIds, net_socket_create(p, t, h, i)
        PROVE  Forest!Connect(<<p, SlotNet>>, <<p, t>>, i) /\ UNCHANGED fresh
    <3> DEFINE d == <<p, SlotNet>>
               k == [obj |-> i, rights |-> {Read, Write},
                     parent |-> [cell |-> d, gen |-> gen[d]]]
    <3>1. d \in Cell /\ <<p, t>> \in Cell
      BY <2>0, ProcsAssumption DEF Cell
    <3>2. k \in Cap
      BY <2>0, <3>1, ChildIsCap, RightsAssumption DEF Objects, Counted
    <3>3. /\ caps' = [caps EXCEPT ![<<p, t>>] = k] /\ gen' = gen /\ status' = status
          /\ ~Occupied(<<p, t>>) /\ caps[d].obj \in NetObjects
      BY <2>5 DEF net_socket_create
    <3>4. ForestParent(<<p, t>>)' = d
      <4>1. caps'[<<p, t>>] = k
        BY <2>0, <3>1, <3>3 DEF TypeOK
      <4>2. k.parent # ROOT
        BY <3>1, <2>0, RootAssumption DEF CapId, TypeOK
      <4> QED
        BY <3>3, <4>1, <4>2 DEF ForestParent, Linked
    <3>5. held' = [held EXCEPT ![<<p, t>>] = [obj |-> k.obj, rights |-> k.rights, parent |-> d]]
      <4> HIDE DEF k
      <4> QED
        BY <2>0, <3>1, <3>2, <3>3, <3>4, FillAdds
    <3>6. Occupied(d)
      BY <2>0, <3>1, <3>3, ObjectIsCap, ObjectsAssumption DEF Objects, Counted
    <3>7. /\ Forest!Taken(d) /\ ~Forest!Taken(<<p, t>>)
          /\ held[d].obj = caps[d].obj
      BY <2>0, <3>1, <3>3, <3>6, HeldIs
    <3>8. ASSUME NEW c \in Cell, Forest!Taken(c) PROVE held[c].obj # i
      <4>1. ~(refs[i] > 0)
        BY <2>5 DEF net_socket_create, FirstFree
      <4>2. caps[c].obj # i
        BY <2>0, <4>1, UnreferencedUnheld DEF Holders
      <4>3. Occupied(c)
        BY <2>0, <3>8, HeldIs
      <4> QED
        BY <2>0, <4>2, <4>3, HeldIs
    <3>9. {Read, Write} \in SUBSET Rights
      BY RightsAssumption
    <3> QED
      BY <3>3, <3>5, <3>7, <3>8, <3>9, ForestCells DEF Forest!Connect
  <2>6. ASSUME NEW p \in Tier1, NEW s \in Slots, NEW released \in BOOLEAN,
               net_socket_close(p, s, released)
        PROVE  Forest!Delete(<<p, s>>) /\ UNCHANGED fresh
    <3> DEFINE R == {<<p, s>>}
    <3>1. <<p, s>> \in Cell /\ R \in SUBSET Cell
      BY <2>0 DEF Cell
    <3>2. Occupied(<<p, s>>) /\ ClearCells(R, WrappingBump(R)) /\ status' = status
      <4>1. caps[<<p, s>>].obj \in Objects
        BY <2>6 DEF net_socket_close, IsSocket, Objects, Counted
      <4> QED
        BY <2>0, <2>6, <3>1, <4>1, ObjectIsCap DEF net_socket_close
    <3>3. WrappingBump(R) \in [Cell -> 0 .. GenMax]
      BY <2>0, <3>1, BumpType
    <3>4. /\ \A c \in Cell \ R : WrappingBump(R)[c] = gen[c]
          /\ \A c \in R : gen[c] < GenMax => WrappingBump(R)[c] = gen[c] + 1
      <4>1. ASSUME NEW c \in R, gen[c] < GenMax
            PROVE  (gen[c] + 1) % (GenMax + 1) = gen[c] + 1
        <5>1. gen[c] \in Nat /\ GenMax \in Nat
          BY <2>0, <3>1, GenAssumption DEF TypeOK
        <5> QED
          BY <4>1, <5>1
      <4> QED
        BY <3>1, <4>1 DEF WrappingBump
    <3>5. Forest!Remove(R)
      <4> HIDE DEF R, WrappingBump
      <4> QED
        BY <1>b, <2>0, <3>1, <3>2, <3>3, <3>4, ClearRemoves
    <3>6. Forest!Taken(<<p, s>>)
      BY <2>0, <3>1, <3>2, HeldIs
    <3> QED
      BY <3>2, <3>5, <3>6 DEF Forest!Delete
  <2>7. ASSUME NEW p \in Tier1, NEW w \in BOOLEAN, install_tier1_grants(p, w)
        PROVE  Forest!Endow(p)
    BY <2>0, <2>7, EndowAdds
  <2>8. ASSUME NEW p \in Tier1, Terminate(p)
        PROVE  UNCHANGED <<held, fresh, worn>>
    <3>1. caps' = caps /\ gen' = gen /\ worn' = worn
      BY <2>8 DEF Terminate
    <3>2. held' = held
      BY <3>1 DEF held, Occupied, ForestParent, Linked
    <3>3. fresh' = fresh
      BY <2>0, <2>8 DEF Terminate, MayCall, TypeOK
    <3> QED
      BY <3>1, <3>2, <3>3
  <2> HIDE DEF fresh
  <2>9. ASSUME NEW p \in Tier1, PlainStep(p)
        PROVE  UNCHANGED <<held, fresh, worn>> \/ (Forest!Call(p) /\ UNCHANGED fresh)
    BY <2>9, <2>1, <2>2, <2>4, <2>5, <2>6, <2>8, ProcsAssumption DEF PlainStep, Forest!Call
  <2>10. ASSUME NEW p \in Tier1, NEW s \in Slots, cap_revoke(p, s)
         PROVE  Forest!Call(p) /\ UNCHANGED fresh
    BY <2>10, <2>3 DEF Forest!Call
  <2> QED
    BY <1>b, <2>0, <2>7, <2>9, <2>10 DEF Next, TenantStep
<1>c. CASE UNCHANGED vars
  <2>1. caps' = caps /\ gen' = gen /\ worn' = worn /\ status' = status
    BY <1>c DEF vars
  <2>2. held' = held
    BY <2>1 DEF held, Occupied, ForestParent, Linked
  <2> QED
    BY <2>1, <2>2
<1> QED
  BY <1>a, <1>b, <1>c

(* Generation checks alone make an orphan of every child of a removed cap and      *)
(* never adopt it again, whatever is put in the cell later (INV-17, revoke.rs):     *)
(* the tables with their counters implement the forest of parents, and cap_revoke   *)
(* removes the whole tree below a cap, until a counter runs out.                   *)
THEOREM ForestImplemented == Spec => ForestSpec
<1>1. DerivationInv /\ DerivationInv' /\ RefcountExact /\ [Next]_vars
        => [Forest!Next]_<<held, {p \in Procs : status[p] = "unused"}, worn # {}>>
  BY ForestStep
<1> QED
  BY <1>1, ForestInit, DerivationInvariant, RefcountCorrect, PTL DEF Spec, ForestSpec, Forest!Spec
=============================================================================
