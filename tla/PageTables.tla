----------------------------- MODULE PageTables -----------------------------
(***************************************************************************)
(* How the kernel turns paging on: kvm::init installs the bitmap allocator,  *)
(* builds the identity map with Sv39 tables of three levels, and switches     *)
(* satp (kernel/src/mem/kvm.rs over wari-mem).  One hart, interrupts off: a   *)
(* step is one page mapped, with every table that took.                       *)
(*                                                                         *)
(* Addresses are page numbers.  The allocator's pool and the boot stack are    *)
(* one region: frames are handed out from its low end, the stack grows down    *)
(* from its high end.                                                        *)
(***************************************************************************)
EXTENDS Integers, FiniteSets, Sequences, FiniteSetsExt, TLC

CONSTANTS PtEntries,   (* PT_ENTRIES, per table.                            *)
          MaxPages,    (* MAX_PAGES, what the bitmap has bits for.          *)
          Layouts,     (* Memory layouts: the linker symbols of a build, and *)
                       (* the MMIO regions of its board, in mapping order,   *)
                       (* and the frames that RAM starts dirty in.           *)
          StackPages   (* Pages the boot stack is deep at most.              *)

Pages  == 0 .. PtEntries * PtEntries * PtEntries - 1
Access == SUBSET {"R", "W", "X"}

ASSUME PageTablesAssumption ==
  /\ PtEntries \in Nat \ {0} /\ StackPages \in Nat /\ MaxPages \in Nat
  /\ \A l \in Layouts :
       /\ l.heap.first \in Pages /\ l.heap.end \in Pages
       /\ l.ranges \in Seq([first : Pages, end : 0 .. PtEntries * PtEntries * PtEntries,
                          flags : Access \ {{}}])

VARIABLES
  layout,          (* The layout of this build.                               *)
  kvm,             (* How far kvm::init has come.                             *)
  bitmap,          (* ALLOC.bitmap: the frames handed out.                    *)
  frame,           (* What the pool holds, read as tables.                    *)
  root,            (* The root table.                                         *)
  range, page,     (* map_range: the range, and the page of it, to map next.   *)
  satp             (* The table the MMU walks, -1 while it is off.             *)

kvmVars == <<layout, kvm, bitmap, frame, root, range, page, satp>>

-----------------------------------------------------------------------------
(* Page table entries: a leaf has access bits, a branch is valid without any.  *)
Pte(p, flags) == [valid |-> TRUE, flags |-> flags, page |-> p]
Invalid       == [valid |-> FALSE, flags |-> {}, page |-> 0]
Branch(t)     == Pte(t, {})
IsLeaf(e)     == e.valid /\ e.flags # {}
IsBranch(e)   == e.valid /\ e.flags = {}

(* va_parts: the three indices of a page, one shift after the other.           *)
va_parts(p) == << (p \div PtEntries) \div PtEntries, (p \div PtEntries) % PtEntries,
                  p % PtEntries >>

Pool == layout.heap.first .. layout.heap.end - 1

(* What a frame holds before it is written: nothing, or the worst of entries.   *)
Garbage == [i \in 0 .. PtEntries - 1 |-> Pte(0, {"R", "W", "X"})]
Zeroed  == [i \in 0 .. PtEntries - 1 |-> Invalid]

(* walk, and the MMU: what the page is translated to, or Invalid.              *)
Translate(p) ==
  LET v  == va_parts(p)
      e2 == frame[root][v[1]]
      e1 == frame[e2.page][v[2]]
      e0 == frame[e1.page][v[3]]
  IN  IF IsBranch(e2) /\ IsBranch(e1) /\ IsLeaf(e0) THEN e0 ELSE Invalid

-----------------------------------------------------------------------------
(* Memory while a page is being mapped: m.at is the table reached, m.ok FALSE  *)
(* once a step has failed; the tables made before that stay.                   *)
Memory == [bitmap |-> bitmap, frame |-> frame, at |-> root, ok |-> TRUE]

alloc_unzeroed(m) ==
  LET free == Pool \ m.bitmap
      new  == Min(free)
  IN  IF free = {} THEN [m EXCEPT !.ok = FALSE]
      ELSE [m EXCEPT !.bitmap = @ \cup {new}, !.at = new]

alloc_highest(m) ==
  LET free == Pool \ m.bitmap
      new  == Max(free)
  IN  IF free = {} THEN [m EXCEPT !.ok = FALSE]
      ELSE [m EXCEPT !.bitmap = @ \cup {new}, !.frame[new] = Zeroed, !.at = new]

(* alloc_zeroed_page: the first free frame of the pool, zeroed.                *)
alloc_zeroed_page(m) ==
  LET free == Pool \ m.bitmap
      new  == Min(free)
  IN  IF free = {} THEN [m EXCEPT !.ok = FALSE]
      ELSE [m EXCEPT !.bitmap = @ \cup {new}, !.frame[new] = Zeroed, !.at = new]

(* walk_or_create: go down one level, making the table when it is missing.     *)
walk_or_create(m, i) ==
  LET e    == m.frame[m.at][i]
      made == alloc_zeroed_page(m)
  IN  CASE ~m.ok                      -> m
        [] m.ok /\ IsBranch(e)        -> [m EXCEPT !.at = e.page]
        [] m.ok /\ IsLeaf(e)          -> [m EXCEPT !.ok = FALSE]
        [] m.ok /\ ~e.valid /\ ~made.ok -> made
        [] m.ok /\ ~e.valid /\ made.ok  ->
             [made EXCEPT !.frame[m.at][i] = Branch(made.at)]

(* map_page: an entry that is there already is overwritten.                    *)
map_page(p, flags) ==
  LET v == va_parts(p)
      m == walk_or_create(walk_or_create(Memory, v[1]), v[2])
  IN  IF m.ok THEN [m EXCEPT !.frame[m.at][v[3]] = Pte(p, flags)] ELSE m

-----------------------------------------------------------------------------
(* The heap range is checked and the allocator installed over it; one that the  *)
(* bitmap is too short for is a panic, which halts as an error does.  Pages are   *)
(* numbered, so that the range is page-aligned as the check wants it.            *)
install_allocator ==
  /\ kvm = "start"
  /\ kvm' = IF layout.heap.end - layout.heap.first \in 1 .. MaxPages
            THEN "allocator" ELSE "failed"
  /\ UNCHANGED <<layout, bitmap, frame, root, range, page, satp>>

alloc_root ==
  /\ kvm = "allocator"
  /\ LET m == alloc_zeroed_page([Memory EXCEPT !.at = -1])
     IN  /\ bitmap' = m.bitmap /\ frame' = m.frame
         /\ root' = m.at
         /\ kvm' = IF m.ok THEN "mapping" ELSE "failed"
  /\ range' = 1 /\ page' = layout.ranges[1].first
  /\ UNCHANGED <<layout, satp>>

(* One page of a map_range; a failure ends kvm::init with what was built.       *)
map_range ==
  /\ kvm = "mapping" /\ range <= Len(layout.ranges)
  /\ page < layout.ranges[range].end
  /\ LET m == map_page(page, layout.ranges[range].flags)
     IN  /\ bitmap' = m.bitmap /\ frame' = m.frame
         /\ kvm' = IF m.ok THEN "mapping" ELSE "failed"
  /\ page' = page + 1
  /\ UNCHANGED <<layout, root, range, satp>>

next_range ==
  /\ kvm = "mapping" /\ range <= Len(layout.ranges)
  /\ page >= layout.ranges[range].end
  /\ range' = range + 1
  /\ page' = IF range < Len(layout.ranges) THEN layout.ranges[range + 1].first
                                           ELSE page
  /\ UNCHANGED <<layout, kvm, bitmap, frame, root, satp>>

enable_paging ==
  /\ kvm = "mapping" /\ range > Len(layout.ranges)
  /\ satp' = root /\ kvm' = "on"
  /\ UNCHANGED <<layout, bitmap, frame, root, range, page>>

KvmInit ==
  /\ layout \in Layouts
  /\ kvm = "start" /\ bitmap = {} /\ root = -1 /\ range = 0 /\ page = 0
  /\ frame = [p \in Pool |-> IF p \in layout.dirty THEN Garbage ELSE Zeroed]
  /\ satp = -1

KvmNext == install_allocator \/ alloc_root \/ map_range \/ next_range
           \/ enable_paging

-----------------------------------------------------------------------------
(* What the tables should come to, said without walking one.                   *)
RangePages(k) == layout.ranges[k].first .. layout.ranges[k].end - 1
AllRanges     == DOMAIN layout.ranges
Asked(p)      == {k \in AllRanges : p \in RangePages(k)}
AllAsked      == UNION {RangePages(k) : k \in AllRanges}

(* One table per subtree that holds a mapped page, and the root.               *)
TablesNeeded ==
  1 + Cardinality({va_parts(p)[1] : p \in AllAsked})
    + Cardinality({<<va_parts(p)[1], va_parts(p)[2]>> : p \in AllAsked})

(* Once paging is on, every page is translated to itself with the access of    *)
(* the last range that covers it, and a page no range covers is not mapped     *)
(* (kvm::init, "the identity map covers every PA the kernel will touch").       *)
MapsExactly ==
  kvm = "on" => \A p \in Pages :
    Translate(p) = IF Asked(p) = {} THEN Invalid
                   ELSE Pte(p, layout.ranges[Max(Asked(p))].flags)

(* As long as the pool is as large as the tables and the stack together, no    *)
(* table lies in the stack, which shares the pool's region (linker.ld): one     *)
(* table too many and the stack is overwritten, for the allocator does not      *)
(* know of it.                                                               *)
StackClear ==
  TablesNeeded + StackPages <= Cardinality(Pool) =>
    \A p \in bitmap : p < layout.heap.end - StackPages

=============================================================================
