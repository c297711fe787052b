------------------------------ MODULE EventRing ------------------------------
(* The arithmetic of the kernel audit stream (wari-events): a ring of        *)
(* RingCapacity records that drops its oldest record, a writer that claims   *)
(* sequence numbers, and readers that hold a cursor of their own.            *)
EXTENDS Naturals

CONSTANT RingCapacity      (* Records the ring holds: 128 in the kernel.     *)

ASSUME RingAssumption == RingCapacity \in Nat \ {0}

RingSlots == 0 .. RingCapacity - 1

(* The ring index of a sequence number.  The code masks with                 *)
(* RING_CAPACITY - 1, which is the remainder for a power of two.             *)
SlotOf(seq) == seq % RingCapacity

(* The oldest sequence number the ring still holds: a saturating subtraction.*)
Oldest(next_seq) ==
  IF next_seq > RingCapacity THEN next_seq - RingCapacity ELSE 0

(* Nothing new, or the record to read: the one at the cursor, or the oldest  *)
(* surviving record when the reader fell behind.                             *)
UpToDate(reader_seq, next_seq) == reader_seq >= next_seq

ReadSeq(reader_seq, next_seq) ==
  IF reader_seq < Oldest(next_seq) THEN Oldest(next_seq) ELSE reader_seq
=============================================================================
