------------------------------ MODULE NativeModule ------------------------------
(***************************************************************************)
(* The container of a native module (wari-wnm), which a loader takes apart before  *)
(* it trusts any of it: header, section table, payloads.                          *)
(***************************************************************************)
LOCAL INSTANCE Integers
LOCAL INSTANCE Sequences

CONSTANTS
  MAX_SECTIONS,   (* WNM_MAX_SECTIONS.                                         *)
  HEADER_LEN,     (* WNM_HEADER_LEN, and the size of a table entry.             *)
  ENTRY_LEN,
  Natives         (* Native modules: [size, magic, version, count, total, table].*)

ASSUME NativeAssumption ==
  /\ MAX_SECTIONS \in Nat /\ HEADER_LEN \in Nat /\ ENTRY_LEN \in Nat
  /\ \A n \in Natives : /\ n.size \in Nat /\ n.count \in Nat /\ n.total \in Nat
                         /\ n.table \in Seq([kind : Nat, offset : Nat, len : Nat])

VARIABLES
  native,         (* What is loaded.                                           *)
  plan            (* What the loader made of it.                                *)

nativeVars == <<native, plan>>

Planned(ranges) == [answer |-> "Ok", ranges |-> ranges]
Rejected(check) == [answer |-> check]
Unplanned       == [answer |-> "unread"]

-----------------------------------------------------------------------------
(* 1 text, 2 relocations, 3 certificate, 4 wasm.                                 *)
Kinds    == 1 .. 4
Required == {1, 3, 4}

TableEnd(n) == HEADER_LEN + n.count * ENTRY_LEN

(* Mutant: the definition that follows with a slip in it.                         *)
check_entry_header_only(n, seen, e) ==
  IF e.kind \notin Kinds THEN "UnknownSection"
  ELSE IF e.offset < HEADER_LEN \/ e.offset + e.len > n.total THEN "SectionOutOfBounds"
  ELSE IF e.kind \in seen THEN "DuplicateSection"
  ELSE "Ok"

(* One turn of the loop of validate_header; seen is its bit set.  The three bytes    *)
(* of an entry that "must be 0" are never looked at, and an entry is without them.  *)
check_entry(n, seen, e) ==
  IF e.kind \notin Kinds THEN "UnknownSection"
  ELSE IF e.offset < TableEnd(n) \/ e.offset + e.len > n.total THEN "SectionOutOfBounds"
  ELSE IF e.kind \in seen THEN "DuplicateSection"
  ELSE "Ok"

(* The loop, up to the first entry that is wrong.                                 *)
Turns(n) ==
  LET turn[i \in 0 .. Len(n.table)] ==
        IF i = 0 THEN [check |-> "Ok", seen |-> {}]
        ELSE IF turn[i - 1].check # "Ok" THEN turn[i - 1]
        ELSE [check |-> check_entry(n, turn[i - 1].seen, n.table[i]),
              seen  |-> turn[i - 1].seen \cup {n.table[i].kind}]
  IN  turn

check_table(n) == Turns(n)[Len(n.table)]

validate_header(n) ==
  IF n.size < HEADER_LEN THEN "Truncated"
  ELSE IF n.magic # "WNM" THEN "BadMagic"
  ELSE IF n.version # 1 THEN "BadVersion"
  ELSE IF n.count > MAX_SECTIONS THEN "TooManySections"
  ELSE IF n.total > n.size \/ n.total < HEADER_LEN THEN "BadTotalLen"
  ELSE IF TableEnd(n) > n.total THEN "SectionTableOverflow"
  ELSE IF check_table(n).check # "Ok" THEN check_table(n).check
  ELSE IF ~(Required \subseteq check_table(n).seen) THEN "MissingRequired"
  ELSE "Ok"

(* The second walk: a later entry of a kind would replace an earlier one.           *)
load_plan(n) ==
  LET at(k)   == {i \in DOMAIN n.table : n.table[i].kind = k}
      last(k) == n.table[CHOOSE i \in at(k) : \A j \in at(k) : j <= i]
  IN  IF validate_header(n) # "Ok" THEN Rejected(validate_header(n))
      ELSE Planned([k \in {k \in Kinds : at(k) # {}} |-> <<last(k).offset, last(k).len>>])

-----------------------------------------------------------------------------
Resolve ==
  /\ plan = Unplanned
  /\ plan' = load_plan(native)
  /\ UNCHANGED native

NativeInit == plan = Unplanned /\ native \in Natives
NativeNext == Resolve

-----------------------------------------------------------------------------
(* A native module is accepted exactly when its sections are a sound plan: the       *)
(* table inside the declared length and that inside the buffer, each kind at most    *)
(* once and the required ones present, every range behind the table and inside the    *)
(* declared length.  The plan then names those ranges (validate_header, load_plan).  *)
PlanSound ==
  LET n == native
      entries == {n.table[i] : i \in DOMAIN n.table}
      sound ==
        /\ n.magic = "WNM" /\ n.version = 1 /\ n.count <= MAX_SECTIONS
        /\ TableEnd(n) <= n.total /\ n.total <= n.size
        /\ \A k \in Required : \E e \in entries : e.kind = k
        /\ \A e \in entries : e.kind \in Kinds
        /\ \A i, j \in DOMAIN n.table : n.table[i].kind = n.table[j].kind => i = j
        /\ \A e \in entries : e.offset .. e.offset + e.len - 1 \subseteq TableEnd(n) .. n.total - 1
        /\ \A e \in entries : e.offset >= TableEnd(n) /\ e.offset + e.len <= n.total
  IN  plan # Unplanned =>
        /\ (plan.answer = "Ok") <=> sound
        /\ sound => {<<e.kind, e.offset, e.len>> : e \in entries}
                      = {<<k, plan.ranges[k][1], plan.ranges[k][2]>> : k \in DOMAIN plan.ranges}

=============================================================================
