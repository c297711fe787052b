--------------------------------- MODULE MCBoot ---------------------------------
EXTENDS Boot

(* Four entries a table: 64 pages.  RAM low, the devices in subtrees of their  *)
(* own; the pool is exactly what tables and stack need.                        *)
R(first, end, flags) == [first |-> first, end |-> end, flags |-> flags]
RX == {"R", "X"}
RO == {"R"}
RW == {"R", "W"}

Qemu == [board |-> "qemu", heap |-> [first |-> 4, end |-> 14],
         dirty |-> {9, 11},    (* The last tables of a subtree.                 *)
         ranges |-> << R(0, 2, RX), R(2, 3, RO), R(3, 4, RW), R(4, 6, RW),
                       R(4, 14, RW), R(14, 15, RW), R(32, 33, RW) >>]
Vf2  == [board |-> "vf2", heap |-> [first |-> 3, end |-> 15],
         dirty |-> 3 .. 14,
         ranges |-> << R(0, 1, RX), R(1, 3, RW), R(3, 15, RW),
                       R(16, 17, RW), R(40, 42, RW) >>]
R2s  == [Qemu EXCEPT !.board = "r2s"]
Full == [Vf2 EXCEPT !.heap.end = 5]      (* The pool is too small.             *)
None == [Vf2 EXCEPT !.heap.end = 3]      (* There is no pool at all.           *)
Huge == [Vf2 EXCEPT !.heap.end = 16]     (* The bitmap is too short.           *)

MCLayouts == {Qemu, Vf2, R2s, Full, None, Huge}

E(image, signed, manifest, links, exports) ==
  [image |-> image, signed |-> signed, manifest |-> manifest,
   links |-> links, exports |-> exports]

Uart  == E("uart", TRUE, "uart", TRUE, "all")
Net   == E("net", TRUE, "net", TRUE, "all")
Hello == E("hello", TRUE, "missing", TRUE, "all")
Guard == E("guard", TRUE, "missing", TRUE, "all")

MCTampered == [Hello EXCEPT !.signed = FALSE]

Good == [uart |-> Uart, net |-> Net, hello |-> Hello, guard |-> Guard]

(* Builds with one image that is not what it should be.                         *)
MCBuilds ==
  {Good,
   [Good EXCEPT !.uart.signed = FALSE],      [Good EXCEPT !.uart = [Net EXCEPT !.image = "uart"]],
   [Good EXCEPT !.uart.exports = "none"],    [Good EXCEPT !.net.signed = FALSE],
   [Good EXCEPT !.net = [Uart EXCEPT !.image = "net"]],
   [Good EXCEPT !.net.manifest = "missing"], [Good EXCEPT !.net.manifest = "bad"],
   [Good EXCEPT !.net.manifest = "missing", !.net.exports = "start_only"],
   [Good EXCEPT !.net.links = FALSE],        [Good EXCEPT !.hello.signed = FALSE],
   [Good EXCEPT !.guard.signed = FALSE]}

=============================================================================
