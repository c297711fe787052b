------------------------------ MODULE DriverManifest ------------------------------
(***************************************************************************)
(* The driver manifest inside a wasm module (driver-iface), which a loader looks    *)
(* for before it trusts anything: a walk over the sections to a custom section of    *)
(* the right name, then a header and two arrays.                                  *)
(*                                                                         *)
(* A byte has 3 bits and a mark (8 and up) instead of 7 and a mark; sizes are       *)
(* scaled to it.                                                              *)
(***************************************************************************)
LOCAL INSTANCE Integers
LOCAL INSTANCE Sequences

CONSTANTS
  LebMax,         (* Bytes of an encoded length at most: 5, of 7 bits each.      *)
  LebMod,         (* 2^32.                                                     *)
  Wasms           (* [doc, cut]: sections [id, name, payload] and how much of     *)
                  (* their encoding there is.                                  *)

VARIABLES
  file,           (* What is loaded.                                           *)
  loaded          (* What the loader made of it.                                *)

fileVars == <<file, loaded>>

Got(what) == [answer |-> "Ok", got |-> what]
Deny(why) == [answer |-> why]
GoOn(at)  == [answer |-> "go on", got |-> at]
NotYet    == [answer |-> "unread"]

-----------------------------------------------------------------------------
(* Driver manifests, in a wasm module of bytes.                                   *)
Preamble     == <<14>>
Custom       == 0
SECTION_NAME == <<5>>
MAGIC        == 6
ABI_VERSION  == 2
MANIFEST_LEN == 4            (* magic, version, exports, imports.                *)
EXPORT_LEN   == 1            (* The signature.                                  *)
IMPORT_LEN   == 2            (* Module and signature.                           *)
Signatures   == {1, 2}

(* The value of the n bytes from off on, the last first; the shift of the code drops    *)
(* what lies beyond the width of the value.                                       *)
leb_value(w, off, n) ==
  LET last[k \in 0 .. n] == IF k = 0 THEN 0 ELSE (w[off + n - k] % 8) + 8 * last[k - 1]
  IN  last[n] % LebMod

(* read_leb128_u32: the first byte without a mark ends it.  -1: cut short or too long.   *)
read_leb128(w, off) ==
  LET ends == {k \in 1 .. LebMax : off + k - 1 <= Len(w) /\ w[off + k - 1] < 8}
      n    == CHOOSE k \in ends : \A other \in ends : k <= other
  IN  IF ends = {} THEN [value |-> -1, end |-> off]
      ELSE [value |-> leb_value(w, off, n), end |-> off + n]

(* find_section_payload.  One turn of its loop, at the section that starts at i.       *)
look_at(w, i) ==
  LET size == read_leb128(w, i + 1)
      end  == size.end + size.value
      name == read_leb128(w, size.end)
      from == name.end + name.value
  IN  IF i > Len(w) THEN Deny("Missing")
      ELSE IF size.value = -1 \/ end > Len(w) + 1 THEN Deny("Truncated")
      ELSE IF w[i] # Custom THEN GoOn(end)
      ELSE IF name.value = -1 \/ from > end THEN Deny("Truncated")
      ELSE IF SubSeq(w, name.end, from - 1) = SECTION_NAME THEN Got(SubSeq(w, from, end - 1))
      ELSE GoOn(end)

(* Mutant: the definition that follows with a slip in it.                           *)
find_section_by_name(w) ==
  LET at == {j \in 2 .. Len(w) - 3 : w[j] = Custom /\ w[j + 2] = 1 /\ w[j + 3] = SECTION_NAME[1]}
      j    == CHOOSE first \in at : \A other \in at : first <= other
      size == read_leb128(w, j + 1)
  IN  IF at = {} THEN Deny("Missing")
      ELSE IF size.end + size.value > Len(w) + 1 THEN Deny("Truncated")
      ELSE Got(SubSeq(w, j + 4, size.end + size.value - 1))

(* The walk, turn by turn; a section takes two bytes at least.                        *)
Walk(w) ==
  LET turn[k \in 0 .. Len(w)] ==
        IF k = 0 THEN GoOn(Len(Preamble) + 1)
        ELSE LET before == turn[k - 1]
             IN  IF before.answer = "go on" THEN look_at(w, before.got) ELSE before
  IN  turn

find_section(w) == Walk(w)[Len(w)]

parse_payload(p) ==
  LET imports == MANIFEST_LEN + p[3] * EXPORT_LEN
      total   == imports + p[4] * IMPORT_LEN
      view    == [exports |-> [i \in 1 .. p[3] |-> p[MANIFEST_LEN + i]],
                  imports |-> [i \in 1 .. p[4] |-> p[imports + 2 * i]]]
  IN  IF Len(p) < MANIFEST_LEN THEN Deny("Truncated")
      ELSE IF p[1] # MAGIC THEN Deny("BadMagic")
      ELSE IF p[2] # ABI_VERSION THEN Deny("UnsupportedAbiVersion")
      ELSE IF total > Len(p) THEN Deny("Truncated")
      ELSE IF \E sigs \in {view.exports, view.imports} :
                \E i \in DOMAIN sigs : sigs[i] \notin Signatures
           THEN Deny("UnknownSig")
      ELSE Got(view)

parse_from_wasm(w) ==
  IF Len(w) < Len(Preamble) THEN Deny("Truncated")
  ELSE IF SubSeq(w, 1, Len(Preamble)) # Preamble THEN Deny("Missing")
  ELSE LET found == find_section(w)
       IN  IF found.answer # "Ok" THEN found ELSE parse_payload(found.got)

-----------------------------------------------------------------------------
(* What the tools write: wasm sections with their lengths encoded.                *)
Eighths(n) == LET q[k \in 0 .. n] == IF k = 0 THEN n ELSE q[k - 1] \div 8 IN q
Leb(n) ==
  LET q    == Eighths(n)
      last == CHOOSE k \in 0 .. n : q[k] < 8 /\ \A j \in 0 .. k - 1 : q[j] >= 8
  IN  [k \in 1 .. last + 1 |-> IF k <= last THEN 8 + (q[k - 1] % 8) ELSE q[last]]

Contents(s) == IF s.id = Custom THEN Leb(Len(s.name)) \o s.name \o s.payload ELSE s.payload
Encoded(s)  == <<s.id>> \o Leb(Len(Contents(s))) \o Contents(s)

(* The first k sections of a module, and the whole of it.                            *)
Written(doc) ==
  LET wasm[k \in 0 .. Len(doc)] == IF k = 0 THEN Preamble ELSE wasm[k - 1] \o Encoded(doc[k])
  IN  wasm
Encoding(doc) == Written(doc)[Len(doc)]

(* Every length has an encoding that is not too long, and each section its length.    *)
ASSUME ManifestAssumption ==
  /\ LebMax \in Nat /\ LebMod \in Nat
  /\ \A n \in 0 .. LebMod - 1 : Len(Leb(n)) <= LebMax
  /\ \A f \in Wasms :
       /\ f.doc \in Seq([id : Nat, name : Seq(Nat), payload : Seq(Nat)])
       /\ \A k \in DOMAIN f.doc : Len(Contents(f.doc[k])) < LebMod
       /\ f.cut \in 0 .. Len(Encoding(f.doc))

Load ==
  /\ loaded = NotYet
  /\ loaded' = parse_from_wasm(SubSeq(Encoding(file.doc), 1, file.cut))
  /\ UNCHANGED file

ManifestInit == loaded = NotYet /\ file \in Wasms
ManifestNext == Load

-----------------------------------------------------------------------------
(* A driver manifest is the payload of the first section of its name that the         *)
(* module has at its top level, whatever other sections hold, and of a module cut      *)
(* short only if that section came whole: otherwise it is missing or truncated         *)
(* (find_section_payload, parse_payload).                                         *)
ManifestFound ==
  LET doc   == file.doc
      end   == [k \in 0 .. Len(doc) |-> Len(Written(doc)[k])]
      named == {k \in DOMAIN doc : /\ end[k] <= file.cut
                                   /\ doc[k].id = Custom /\ doc[k].name = SECTION_NAME}
      first == doc[CHOOSE k \in named : \A other \in named : k <= other]
  IN  loaded # NotYet =>
        IF named # {} THEN loaded = parse_payload(first.payload)
        ELSE loaded.answer = IF \E k \in 0 .. Len(doc) : end[k] = file.cut
                             THEN "Missing" ELSE "Truncated"

=============================================================================
