------------------------------ MODULE CapForest ------------------------------
(***************************************************************************)
(* What the capability system promises: the caps of all CSpaces form a     *)
(* forest whose edges name parents, not generation numbers.  Removing a    *)
(* cap turns its children into orphans for good, whatever is put in its    *)
(* cell later, and revoking a cap removes it with all its descendants.     *)
(* CapSystem implements this with 16-bit generation counters, as long as   *)
(* none of them runs out.                                                  *)
(***************************************************************************)
CONSTANTS Procs, Slots,  (* A cell is a slot of a process's CSpace.         *)
          Objects,       (* What a cap can name.                            *)
          Nets, Sockets, (* Objects, the latter minted from the former.     *)
          Bits,          (* The right bits.                                 *)
          Root, Orphan,  (* Parents of caps that hang below no cap.         *)
          Empty          (* An unoccupied cell.                             *)

VARIABLES held,          (* What each cell holds, with its parent.          *)
          fresh,         (* Processes that have not been given caps yet.    *)
          wornOut        (* Whether some counter has run out.               *)

Cells == Procs \X Slots

Held == [obj : Objects, rights : SUBSET Bits, parent : Cells \cup {Root, Orphan}]

Taken(c) == held[c] # Empty

ChildOf(d, c) == Taken(d) /\ held[d].parent = c

(* The members of every set that holds c and the children of its members.   *)
Tree(c) ==
  {d \in Cells :
     \A R \in SUBSET Cells :
       c \in R /\ (\A a \in R, b \in Cells : ChildOf(b, a) => b \in R) => d \in R}

Remove(R) ==
  held' = [c \in Cells |->
             IF c \in R THEN Empty
             ELSE IF Taken(c) /\ held[c].parent \in R
             THEN [held[c] EXCEPT !.parent = Orphan]
             ELSE held[c]]

Derive(c, t, r) ==
  /\ Taken(c) /\ ~Taken(t)
  /\ r \subseteq held[c].rights
  /\ held' = [held EXCEPT ![t] =
                [obj |-> held[c].obj, rights |-> r, parent |-> c]]

Duplicate(c, t) ==
  /\ Taken(c) /\ ~Taken(t)
  /\ held' = [held EXCEPT ![t] = held[c]]

(* A socket nobody holds yet is minted under a Net cap.                     *)
Connect(n, t, i) ==
  /\ Taken(n) /\ held[n].obj \in Nets /\ ~Taken(t)
  /\ \A c \in Cells : Taken(c) => held[c].obj # i
  /\ \E r \in SUBSET Bits :
       held' = [held EXCEPT ![t] = [obj |-> i, rights |-> r, parent |-> n]]

Delete(c) == Taken(c) /\ Remove({c})

Revoke(c) == Taken(c) /\ held'[c] = Empty /\ Remove(Tree(c))

(* A new process receives root caps, no other process anything.             *)
Endow(p) ==
  /\ p \in fresh
  /\ fresh' = fresh \ {p}
  /\ \A c \in Cells :
       IF c[1] = p THEN held'[c] = Empty \/ held'[c].parent = Root
                   ELSE held'[c] = held[c]
  /\ held' \in [Cells -> Held \cup {Empty}]

Init ==
  /\ held \in [Cells -> Held \cup {Empty}]
  /\ \A c \in Cells : Taken(c) => held[c].parent = Root /\ c[1] \notin fresh
  /\ fresh \subseteq Procs
  /\ wornOut = FALSE

Call(p) ==
  \/ \E s, t \in Slots : \E r \in SUBSET Bits : Derive(<<p, s>>, <<p, t>>, r)
  \/ \E s, t \in Slots : Duplicate(<<p, s>>, <<p, t>>)
  \/ \E s, t \in Slots : \E i \in Sockets : Connect(<<p, s>>, <<p, t>>, i)
  \/ \E s \in Slots : Delete(<<p, s>>) \/ Revoke(<<p, s>>)

(* Once a counter has run out nothing is promised.                          *)
Next ==
  \/ /\ wornOut' = FALSE
     /\ \/ \E p \in Procs : Call(p) /\ UNCHANGED fresh
        \/ \E p \in Procs : Endow(p)
  \/ wornOut' = TRUE

Spec == Init /\ [][Next]_<<held, fresh, wornOut>>
=============================================================================
