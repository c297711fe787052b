----------------------------- MODULE NicRingsProofs -----------------------------
(* The rings of the two network drivers, for every ring size: no receive buffer   *)
(* is in two places or lost, frames reach smoltcp in order, and no descriptor     *)
(* that holds a frame is taken back.                                            *)
EXTENDS VirtioRings, GmacRings, FiniteSetTheorems, SequenceTheorems, TLAPS

-----------------------------------------------------------------------------
(* Division with remainder.                                                    *)
LEMMA DivMod ==
  ASSUME NEW x \in Int, NEW m \in Nat \ {0}
  PROVE  /\ x \div m \in Int /\ x % m \in 0 .. m - 1
         /\ x = m * (x \div m) + (x % m)
  BY Z3

(* Quotient and remainder are told by their sum.                             *)
LEMMA ModUnique ==
  ASSUME NEW m \in Nat \ {0}, NEW q \in Int, NEW r \in 0 .. m - 1
  PROVE  (m * q + r) % m = r
  BY Z3

(* Every integer has both.                                                   *)
LEMMA Quotient ==
  ASSUME NEW x \in Int, NEW m \in Nat \ {0}
  PROVE  \E a \in Int, r \in 0 .. m - 1 : x = m * a + r /\ x % m = r
<1> DEFINE a == x \div m
           r == x % m
<1>1. a \in Int /\ r \in 0 .. m - 1 /\ x = m * a + r
  BY DivMod
<1> HIDE DEF a
<1>2. x % m = r
  OBVIOUS
<1> HIDE DEF r
<1> QED
  BY <1>1, <1>2

(* An index modulo a multiple of q, then modulo q.                              *)
LEMMA ModMod ==
  ASSUME NEW x \in Int, NEW y \in Int, NEW q \in Nat \ {0}, NEW m \in Nat \ {0}, m % q = 0
  PROVE  ((x % m) + y) % q = (x + y) % q
<1>1. PICK c \in Int : m = q * c
  BY Quotient
<1>2. PICK a \in Int, r \in 0 .. m - 1 : x = m * a + r /\ x % m = r
  BY Quotient
<1>3. PICK b \in Int, s \in 0 .. q - 1 : x + y = q * b + s /\ (x + y) % q = s
  <2>1. x + y \in Int
    OBVIOUS
  <2> QED
    BY <2>1, Quotient
<1>4. r + y = q * (b - c * a) + s
  BY <1>1, <1>2, <1>3
<1>5. b - c * a \in Int
  BY <1>1, <1>2, <1>3
<1>6. (q * (b - c * a) + s) % q = s
  BY <1>5, <1>3, ModUnique
<1> QED
  BY <1>2, <1>3, <1>4, <1>6

(* A remainder before the increment does not change it.                      *)
LEMMA ModNext ==
  ASSUME NEW x \in Int, NEW m \in Nat \ {0}
  PROVE  ((x % m) + 1) % m = (x + 1) % m
<1>1. PICK a \in Int, r \in 0 .. m - 1 : x = m * a + r /\ x % m = r
  BY Quotient
<1>2. PICK b \in Int, s \in 0 .. m - 1 : r + 1 = m * b + s /\ (r + 1) % m = s
  <2>1. r + 1 \in Int
    BY <1>1
  <2> QED
    BY <2>1, Quotient
<1>3. x + 1 = m * (a + b) + s /\ a + b \in Int
  BY <1>1, <1>2
<1>4. (m * (a + b) + s) % m = s
  BY <1>2, <1>3, ModUnique
<1> QED
  BY <1>1, <1>2, <1>3, <1>4

(* The difference of two indices that are less than a lap apart.                 *)
LEMMA ModDiff ==
  ASSUME NEW x \in Int, NEW y \in Int, NEW m \in Nat \ {0}, y <= x, x - y < m
  PROVE  ((x % m) - (y % m)) % m = x - y
<1>1. PICK a \in Int, r \in 0 .. m - 1 : x = m * a + r /\ x % m = r
  BY Quotient
<1>2. PICK b \in Int, s \in 0 .. m - 1 : y = m * b + s /\ y % m = s
  BY Quotient
<1>3. r - s = m * (b - a) + (x - y) /\ b - a \in Int /\ x - y \in 0 .. m - 1
  BY <1>1, <1>2
<1>4. (m * (b - a) + (x - y)) % m = x - y
  BY <1>3, ModUnique
<1> QED
  BY <1>1, <1>2, <1>3, <1>4

(* Integers less than the modulus apart have different remainders.           *)
LEMMA ModDistinct ==
  ASSUME NEW x \in Int, NEW y \in Int, NEW m \in Nat \ {0}, y < x, x - y < m
  PROVE  x % m # y % m
<1>1. ((x % m) - (y % m)) % m = x - y
  BY ModDiff
<1>2. x % m \in Int /\ 0 % m = 0
  BY DivMod
<1> QED
  BY <1>1, <1>2

-----------------------------------------------------------------------------
(* VirtIO: the receive queue, told by counters that never wrap.  d entries were    *)
(* taken by the device and u of them published, s seen by the driver; a is what   *)
(* the driver has offered.                                                     *)
Idle == rx[1] = "idle"

Counts(d, u, s, a) ==
  /\ d = (IF writing THEN u + 1 ELSE u)
  /\ a = (IF Idle THEN QueueSize + s ELSE QueueSize + s - 1)
  /\ s <= u /\ d <= a /\ QueueSize <= a
  /\ availIdx = a % IdxMod /\ RX_AVAIL_NEXT = a % IdxMod
  /\ devAvail = d % IdxMod /\ usedIdx = u % IdxMod /\ RX_USED_SEEN = s % IdxMod
  /\ arrived = d % FrameMod
  /\ passed = (IF rx[1] = "token" THEN s - 1 ELSE s) % FrameMod

(* The buffer that the j-th entry of the stream names: in the driver's hands,      *)
(* delivered, or offered.                                                      *)
Place(d, s, j) ==
  IF j < s THEN rx[2] ELSE IF j < d THEN used[j % QueueSize] ELSE avail[j % QueueSize]

(* A ring's worth of entries is under way, and no two name the same buffer.        *)
Window(a) == a - QueueSize .. a - 1

Placed(d, s, a) ==
  /\ \A j \in Window(a) : Place(d, s, j) \in Entries
  /\ \A i, j \in Window(a) : i # j => Place(d, s, i) # Place(d, s, j)

(* A buffer delivered holds its frame until smoltcp has read it.                  *)
Filled(d, s, a) ==
  \A j \in Window(a) :
    j < d /\ (j >= s \/ rx[1] = "token") => buf[Place(d, s, j)] = j % FrameMod

VirtioTypes ==
  /\ avail \in [Entries -> Entries] /\ used \in [Entries -> Entries]
  /\ DOMAIN buf = Entries
  /\ rx = <<"idle">> \/ rx \in {"token", "append"} \X Entries
  /\ writing \in BOOLEAN

(* The descriptor rewritten, before the index moves.                             *)
Rewritten(a) == rx[1] = "append" => avail[a % QueueSize] = rx[2]

Flow(d, u, s, a) ==
  Counts(d, u, s, a) /\ Placed(d, s, a) /\ Filled(d, s, a) /\ Rewritten(a)

Started == status \in {"populated", "driver_ok", "up"}

VirtioInv ==
  /\ VirtioTypes
  /\ ~Started => /\ usedIdx = 0 /\ RX_USED_SEEN = 0 /\ devAvail = 0
                 /\ rx = <<"idle">> /\ ~writing /\ arrived = 0 /\ passed = 0
  /\ Started => \E d, u, s, a \in Nat : Flow(d, u, s, a)

-----------------------------------------------------------------------------
(* The ring's indices, from the counters.                                       *)
LEMMA Sizes ==
  /\ QueueSize \in Nat \ {0} /\ IdxMod \in Nat \ {0} /\ QueueSize < IdxMod
  /\ IdxMod % QueueSize = 0 /\ FrameMod \in Nat \ {0}
  BY VirtioAssumption DEF FrameMod

(* An index that wraps names the entry that the counter names.               *)
LEMMA IndexMod ==
  \A x, y \in Int : ((x % IdxMod) + y) % QueueSize = (x + y) % QueueSize
<1>1. QueueSize \in Nat \ {0} /\ IdxMod \in Nat \ {0} /\ IdxMod % QueueSize = 0
  BY Sizes
<1> QED
  BY ONLY <1>1, ModMod, ZenonT(60)

(* All that is known of an index that wraps.                                 *)
LEMMA Index ==
  ASSUME NEW x \in Nat
  PROVE  /\ Bump(x % IdxMod) = (x + 1) % IdxMod
         /\ x % QueueSize \in Entries
         /\ \A y \in Nat : ((x % IdxMod) + y) % QueueSize = (x + y) % QueueSize
         /\ (x % IdxMod) % QueueSize = x % QueueSize
         /\ ((x % FrameMod) + 1) % FrameMod = (x + 1) % FrameMod
<1>1. x \in Int /\ QueueSize \in Nat \ {0} /\ IdxMod \in Nat \ {0} /\ FrameMod \in Nat \ {0}
  BY Sizes
<1>2. ASSUME NEW y \in Nat PROVE ((x % IdxMod) + y) % QueueSize = (x + y) % QueueSize
  <2>1. y \in Int
    BY <1>2
  <2> QED
    BY <1>1, <2>1, IndexMod, ZenonT(30)
<1>3. (x % IdxMod) % QueueSize = x % QueueSize
  <2>1. (x % IdxMod) + 0 = x % IdxMod /\ x + 0 = x
    BY <1>1, DivMod
  <2> QED
    BY <1>2, <2>1
<1>4. Bump(x % IdxMod) = (x + 1) % IdxMod
  BY <1>1, ModNext DEF Bump
<1>5. ((x % FrameMod) + 1) % FrameMod = (x + 1) % FrameMod
  BY <1>1, ModNext
<1>6. x % QueueSize \in Entries
  BY <1>1, DivMod DEF Entries
<1> QED
  BY <1>2, <1>3, <1>4, <1>5, <1>6

(* Counters less than a ring apart are at different entries,                 *)
LEMMA SlotsDiffer ==
  ASSUME NEW x \in Nat, NEW y \in Nat, y < x, x - y < QueueSize
  PROVE  x % QueueSize # y % QueueSize
<1>1. x \in Int /\ y \in Int /\ QueueSize \in Nat \ {0}
  BY Sizes
<1> QED
  BY <1>1, ModDistinct

(* and their indices tell them apart.                                        *)
LEMMA IndicesDiffer ==
  ASSUME NEW x \in Nat, NEW y \in Nat, y <= x, x - y <= QueueSize
  PROVE  /\ x % IdxMod = y % IdxMod <=> x = y
         /\ ((x % IdxMod) - (y % IdxMod)) % IdxMod = x - y
<1>1. x \in Int /\ y \in Int /\ IdxMod \in Nat \ {0} /\ x - y < IdxMod
  BY Sizes
<1>2. ((x % IdxMod) - (y % IdxMod)) % IdxMod = x - y
  BY <1>1, ModDiff
<1>3. y < x => x % IdxMod # y % IdxMod
  BY <1>1, ModDistinct
<1> QED
  BY <1>1, <1>2, <1>3

(* The flow of frames starts with a ring full of free buffers.               *)
LEMMA FlowBegins ==
  ASSUME VirtioInv, populate_rx
  PROVE  VirtioInv'
<1>1. /\ status = "checked" /\ status' = "populated"
      /\ avail' = [i \in Entries |-> i] /\ availIdx' = QueueSize /\ RX_AVAIL_NEXT' = QueueSize
      /\ UNCHANGED <<used, usedIdx, buf, RX_USED_SEEN, rx, devAvail, writing, arrived, passed>>
      /\ usedIdx = 0 /\ RX_USED_SEEN = 0 /\ devAvail = 0
      /\ rx = <<"idle">> /\ ~writing /\ arrived = 0 /\ passed = 0
  BY DEF populate_rx, VirtioInv, Started
<1>2. VirtioTypes'
  BY <1>1 DEF VirtioInv, VirtioTypes
<1>3. QueueSize % IdxMod = QueueSize /\ 0 % IdxMod = 0 /\ 0 % FrameMod = 0
  BY Sizes, ModUnique
<1>4. Counts(0, 0, 0, QueueSize)'
  BY <1>1, <1>3, Sizes DEF Counts, Idle
<1>5. \A j \in Entries : j % QueueSize = j
  BY Sizes, ModUnique DEF Entries
<1>6. /\ Window(QueueSize) = Entries
      /\ \A j \in Entries : Place(0, 0, j)' = j
  BY <1>1, <1>5, Sizes DEF Window, Entries, Place
<1>7. Placed(0, 0, QueueSize)'
  BY <1>6 DEF Placed
<1>8. Filled(0, 0, QueueSize)' /\ Rewritten(QueueSize)'
  BY <1>1, <1>6 DEF Filled, Rewritten, Entries
<1>9. Flow(0, 0, 0, QueueSize)'
  BY <1>4, <1>7, <1>8 DEF Flow
<1> QED
  BY <1>1, <1>2, <1>9, Sizes DEF VirtioInv, Started

(* What the counters say of each other.                                        *)
LEMMA CountsBounds ==
  ASSUME NEW d \in Nat, NEW u \in Nat, NEW s \in Nat, NEW a \in Nat, Counts(d, u, s, a)
  PROVE  /\ s <= d /\ u <= d /\ d - s <= QueueSize /\ a - d <= QueueSize
         /\ \A j \in Window(a) : j \in Nat
         /\ \A j \in Nat : j \in Window(a) <=> a - QueueSize <= j /\ j < a
         /\ Idle => a - QueueSize = s
         /\ ~Idle => a - QueueSize = s - 1
  BY Sizes DEF Counts, Window

(* A frame to the next buffer offered.                                          *)
LEMMA WritesKeeps ==
  ASSUME VirtioInv, Started, DeviceWrites
  PROVE  VirtioInv'
<1>1. PICK d, u, s, a \in Nat : Flow(d, u, s, a)
  BY DEF VirtioInv
<1>2. Counts(d, u, s, a) /\ Placed(d, s, a) /\ Filled(d, s, a) /\ Rewritten(a) /\ VirtioTypes
  BY <1>1 DEF Flow, VirtioInv
<1>3. /\ ~writing /\ devAvail # availIdx /\ writing' = TRUE
      /\ buf' = [buf EXCEPT ![avail[devAvail % QueueSize]] = arrived]
      /\ used' = [used EXCEPT ![usedIdx % QueueSize] = avail[devAvail % QueueSize]]
      /\ devAvail' = Bump(devAvail) /\ arrived' = (arrived + 1) % FrameMod
      /\ UNCHANGED <<status, avail, availIdx, usedIdx, RX_AVAIL_NEXT, RX_USED_SEEN, rx, passed>>
  BY DEF DeviceWrites
<1>4. d = u /\ d < a
  BY <1>2, <1>3 DEF Counts
<1>5. /\ devAvail % QueueSize = d % QueueSize /\ usedIdx % QueueSize = d % QueueSize
      /\ d % QueueSize \in Entries
      /\ devAvail' = (d + 1) % IdxMod /\ arrived' = (d + 1) % FrameMod
  BY <1>2, <1>3, <1>4, Index DEF Counts
<1> DEFINE e == Place(d, s, d)
<1>6. d \in Window(a) /\ s <= d /\ e = avail[d % QueueSize] /\ e \in Entries
  <2>1. d \in Window(a) /\ s <= d
    BY <1>2, <1>4, CountsBounds DEF Counts
  <2>2. e = avail[d % QueueSize]
    BY <2>1 DEF Place
  <2> QED
    BY <1>2, <2>1, <2>2 DEF Placed
<1>7. buf' = [buf EXCEPT ![e] = arrived] /\ used' = [used EXCEPT ![d % QueueSize] = e]
  BY <1>3, <1>5, <1>6
<1>8. VirtioTypes'
  BY <1>2, <1>3, <1>5, <1>6, <1>7 DEF VirtioTypes
<1>9. ASSUME NEW j \in Window(a) PROVE Place(d + 1, s, j)' = Place(d, s, j)
  <2>1. j \in Nat /\ a - QueueSize <= j /\ j < a /\ d - s < QueueSize
    <3>1. d - s < QueueSize
      BY <1>1, <1>2, <1>4, Sizes DEF Counts
    <3>2. j \in Nat
      BY <1>1, <1>2, <1>9, CountsBounds
    <3>3. a - QueueSize <= j /\ j < a
      BY <1>1, <1>2, <1>9, <3>2, CountsBounds
    <3> QED
      BY <3>1, <3>2, <3>3
  <2>2. CASE j < s
    BY <1>3, <2>2 DEF Place
  <2>3. CASE s <= j /\ j < d
    <3>1. d % QueueSize # j % QueueSize
      <4>1. d \in Nat /\ j \in Nat /\ j < d /\ d - j < QueueSize
        BY <1>1, <2>1, <2>3, Sizes
      <4> QED
        BY <4>1, SlotsDiffer
    <3>2. used'[j % QueueSize] = used[j % QueueSize]
      BY <1>2, <1>7, <2>1, <3>1, Index DEF VirtioTypes
    <3> QED
      BY <2>1, <2>3, <3>2 DEF Place
  <2>4. CASE j = d
    BY <1>2, <1>5, <1>6, <1>7, <2>4 DEF Place, VirtioTypes
  <2>5. CASE d < j
    BY <1>3, <1>6, <2>1, <2>5 DEF Place
  <2> QED
    BY <2>1, <2>2, <2>3, <2>4, <2>5
<1>10. Placed(d + 1, s, a)'
  BY <1>2, <1>9 DEF Placed
<1>11. Filled(d + 1, s, a)'
  <2> SUFFICES ASSUME NEW j \in Window(a), j < d + 1, j >= s \/ rx'[1] = "token"
               PROVE  buf'[Place(d, s, j)] = j % FrameMod
    BY <1>9 DEF Filled
  <2>1. j \in Nat /\ Place(d, s, j) \in Entries
    BY <1>2, CountsBounds DEF Placed
  <2>2. CASE j = d
    BY <1>2, <1>6, <1>7, <2>2 DEF VirtioTypes, Counts
  <2>3. CASE j < d
    <3>1. Place(d, s, j) # e
      BY <1>2, <1>6, <2>1, <2>3 DEF Placed
    <3>2. buf[Place(d, s, j)] = j % FrameMod
      BY <1>2, <1>3, <2>3 DEF Filled
    <3> QED
      BY <1>2, <1>7, <2>1, <3>1, <3>2 DEF VirtioTypes
  <2> QED
    BY <2>1, <2>2, <2>3
<1>12. Counts(d + 1, u, s, a)'
  BY <1>2, <1>3, <1>4, <1>5 DEF Counts, Idle
<1>13. Rewritten(a)'
  BY <1>2, <1>3 DEF Rewritten
<1>14. Flow(d + 1, u, s, a)'
  BY <1>10, <1>11, <1>12, <1>13 DEF Flow
<1> QED
  BY <1>3, <1>8, <1>14 DEF VirtioInv, Started

(* The device publishes the buffer it wrote.                                 *)
LEMMA PublishesKeeps ==
  ASSUME VirtioInv, Started, DevicePublishes
  PROVE  VirtioInv'
<1>1. PICK d, u, s, a \in Nat : Flow(d, u, s, a)
  BY DEF VirtioInv
<1>2. Counts(d, u, s, a) /\ Placed(d, s, a) /\ Filled(d, s, a) /\ Rewritten(a) /\ VirtioTypes
  BY <1>1 DEF Flow, VirtioInv
<1>3. /\ writing /\ writing' = FALSE /\ usedIdx' = Bump(usedIdx)
      /\ UNCHANGED <<status, avail, availIdx, used, buf, RX_AVAIL_NEXT, RX_USED_SEEN, rx,
                     devAvail, arrived, passed>>
  BY DEF DevicePublishes
<1>4. usedIdx' = (u + 1) % IdxMod
  BY <1>1, <1>2, <1>3, Index DEF Counts
<1>5. Counts(d, u + 1, s, a)'
  BY <1>1, <1>2, <1>3, <1>4 DEF Counts, Idle
<1>6. VirtioTypes' /\ Placed(d, s, a)' /\ Filled(d, s, a)' /\ Rewritten(a)'
  BY <1>2, <1>3 DEF VirtioTypes, Placed, Filled, Rewritten, Place
<1>7. Flow(d, u + 1, s, a)' /\ u + 1 \in Nat
  BY <1>1, <1>5, <1>6 DEF Flow
<1> QED
  BY <1>1, <1>3, <1>6, <1>7 DEF VirtioInv, Started

(* The driver takes the oldest buffer delivered.                                *)
LEMMA PopKeeps ==
  ASSUME VirtioInv, Started, rx_pop
  PROVE  VirtioInv'
<1>1. PICK d, u, s, a \in Nat : Flow(d, u, s, a)
  BY DEF VirtioInv
<1>2. Counts(d, u, s, a) /\ Placed(d, s, a) /\ Filled(d, s, a) /\ Rewritten(a) /\ VirtioTypes
  BY <1>1 DEF Flow, VirtioInv
<1>3. /\ rx = <<"idle">> /\ usedIdx # RX_USED_SEEN
      /\ rx' = <<"token", used[RX_USED_SEEN % QueueSize]>>
      /\ RX_USED_SEEN' = Bump(RX_USED_SEEN)
      /\ UNCHANGED <<status, avail, availIdx, used, usedIdx, buf, RX_AVAIL_NEXT, devAvail,
                     writing, arrived, passed>>
  BY DEF rx_pop
<1>4. /\ s < u /\ s < d /\ a = QueueSize + s
      /\ RX_USED_SEEN % QueueSize = s % QueueSize /\ s % QueueSize \in Entries
      /\ RX_USED_SEEN' = (s + 1) % IdxMod
  <2>1. usedIdx = u % IdxMod /\ RX_USED_SEEN = s % IdxMod /\ s <= u /\ u <= d /\ rx[1] = "idle"
    BY <1>1, <1>2, <1>3 DEF Counts
  <2>2. s # u
    BY <1>3, <2>1
  <2>3. s < u /\ s < d /\ a = QueueSize + s
    BY <1>1, <1>2, <2>1, <2>2 DEF Counts, Idle
  <2> QED
    BY <1>1, <1>3, <2>1, <2>3, Index
<1>5. /\ rx' = <<"token", used[s % QueueSize]>> /\ rx'[1] = "token"
      /\ rx'[2] = used[s % QueueSize] /\ used[s % QueueSize] \in Entries
  BY <1>2, <1>3, <1>4 DEF VirtioTypes
<1>6. VirtioTypes'
  BY <1>2, <1>3, <1>5 DEF VirtioTypes
<1>7. ASSUME NEW j \in Window(a) PROVE Place(d, s + 1, j)' = Place(d, s, j) /\ s <= j
  <2>1. j \in Nat
    BY <1>1, <1>2, <1>7, CountsBounds
  <2>2. s <= j
    BY <1>1, <1>2, <1>4, <1>7, <2>1, Sizes, CountsBounds
  <2>3. CASE j = s
    BY <1>1, <1>4, <1>5, <2>3 DEF Place
  <2>4. CASE s < j
    BY <1>1, <1>3, <2>1, <2>4 DEF Place
  <2> QED
    BY <1>1, <2>1, <2>2, <2>3, <2>4
<1>8. Placed(d, s + 1, a)'
  BY <1>2, <1>7 DEF Placed
<1>9. Filled(d, s + 1, a)'
  BY <1>2, <1>3, <1>7 DEF Filled
<1>10. Counts(d, u, s + 1, a)'
  <2>1. (s + 1) - 1 = s /\ QueueSize + (s + 1) - 1 = QueueSize + s
    BY <1>1, Sizes
  <2> QED
    BY <1>1, <1>2, <1>3, <1>4, <1>5, <2>1 DEF Counts, Idle
<1>11. Rewritten(a)'
  BY <1>5 DEF Rewritten
<1>12. Flow(d, u, s + 1, a)' /\ s + 1 \in Nat
  BY <1>1, <1>8, <1>9, <1>10, <1>11 DEF Flow
<1> QED
  BY <1>1, <1>3, <1>6, <1>12 DEF VirtioInv, Started

(* smoltcp has read the frame, the descriptor is rewritten ...                   *)
LEMMA ConsumeKeeps ==
  ASSUME VirtioInv, Started, consume
  PROVE  VirtioInv'
<1>1. PICK d, u, s, a \in Nat : Flow(d, u, s, a)
  BY DEF VirtioInv
<1>2. Counts(d, u, s, a) /\ Placed(d, s, a) /\ Filled(d, s, a) /\ VirtioTypes
  BY <1>1 DEF Flow, VirtioInv
<1>3. /\ rx[1] = "token" /\ passed' = (passed + 1) % FrameMod
      /\ avail' = [avail EXCEPT ![RX_AVAIL_NEXT % QueueSize] = rx[2]]
      /\ rx' = <<"append", rx[2]>>
      /\ UNCHANGED <<status, availIdx, used, usedIdx, buf, RX_AVAIL_NEXT, RX_USED_SEEN,
                     devAvail, writing, arrived>>
  BY DEF consume
<1>4. /\ rx'[1] = "append" /\ rx'[2] = rx[2] /\ rx[2] \in Entries
      /\ a = QueueSize + s - 1 /\ s - 1 \in Nat
  BY <1>1, <1>2, <1>3, Sizes DEF Counts, Idle, VirtioTypes
<1>5. RX_AVAIL_NEXT % QueueSize = a % QueueSize /\ a % QueueSize \in Entries
  BY <1>1, <1>2, Index DEF Counts
<1>6. passed' = s % FrameMod
  <2>1. passed = (s - 1) % FrameMod /\ (s - 1) + 1 = s
    BY <1>1, <1>2, <1>3 DEF Counts
  <2> QED
    BY <1>3, <1>4, <2>1, Index
<1>7. VirtioTypes'
  BY <1>2, <1>3, <1>4, <1>5 DEF VirtioTypes
<1>8. ASSUME NEW j \in Window(a) PROVE Place(d, s, j)' = Place(d, s, j)
  <2>1. j \in Nat
    BY <1>1, <1>2, <1>8, CountsBounds
  <2>2. a - QueueSize <= j /\ j < a
    BY <1>1, <1>2, <1>8, <2>1, CountsBounds
  <2>3. CASE j < d
    BY <1>3, <1>4, <2>3 DEF Place
  <2>4. CASE ~(j < d)
    <3>1. a \in Nat /\ j \in Nat /\ j < a /\ a - j < QueueSize /\ ~(j < s)
      BY <1>1, <1>2, <1>4, <2>1, <2>2, <2>4, Sizes DEF Counts
    <3>2. a % QueueSize # j % QueueSize
      BY <3>1, SlotsDiffer
    <3>3. avail'[j % QueueSize] = avail[j % QueueSize]
      BY <1>2, <1>3, <1>5, <2>1, <3>2, Index DEF VirtioTypes
    <3> QED
      BY <2>4, <3>1, <3>3 DEF Place
  <2> QED
    BY <2>3, <2>4
<1>9. Placed(d, s, a)'
  BY <1>2, <1>8 DEF Placed
<1>10. Filled(d, s, a)'
  BY <1>2, <1>3, <1>4, <1>8 DEF Filled
<1>11. Counts(d, u, s, a)'
  BY <1>2, <1>3, <1>4, <1>6 DEF Counts, Idle
<1>12. Rewritten(a)'
  BY <1>2, <1>3, <1>4, <1>5 DEF Rewritten, VirtioTypes
<1>13. Flow(d, u, s, a)'
  BY <1>9, <1>10, <1>11, <1>12 DEF Flow
<1> QED
  BY <1>1, <1>3, <1>7, <1>13 DEF VirtioInv, Started

(* ... and offered again: the window moves on by one.                            *)
LEMMA RecycleKeeps ==
  ASSUME VirtioInv, Started, rx_recycle
  PROVE  VirtioInv'
<1>1. PICK d, u, s, a \in Nat : Flow(d, u, s, a)
  BY DEF VirtioInv
<1>2. Counts(d, u, s, a) /\ Placed(d, s, a) /\ Filled(d, s, a) /\ Rewritten(a) /\ VirtioTypes
  BY <1>1 DEF Flow, VirtioInv
<1>3. /\ rx[1] = "append" /\ RX_AVAIL_NEXT' = Bump(RX_AVAIL_NEXT)
      /\ availIdx' = RX_AVAIL_NEXT' /\ rx' = <<"idle">> /\ rx'[1] = "idle"
      /\ UNCHANGED <<status, avail, used, usedIdx, buf, RX_USED_SEEN, devAvail, writing,
                     arrived, passed>>
  BY DEF rx_recycle
<1>4. /\ a = QueueSize + s - 1 /\ s - 1 \in Nat /\ a - QueueSize = s - 1 /\ s <= d /\ d <= a
      /\ RX_AVAIL_NEXT' = (a + 1) % IdxMod
  <2>1. a = QueueSize + s - 1 /\ QueueSize <= a /\ s <= u /\ u <= d /\ d <= a
    BY <1>1, <1>2, <1>3 DEF Counts, Idle
  <2>2. RX_AVAIL_NEXT = a % IdxMod
    BY <1>2 DEF Counts
  <2>3. RX_AVAIL_NEXT' = (a + 1) % IdxMod
    BY <1>1, <1>3, <2>2, Index
  <2> QED
    BY <1>1, <2>1, <2>3, Sizes
<1>5. VirtioTypes'
  BY <1>2, <1>3 DEF VirtioTypes
<1>6. s - 1 \in Window(a) /\ Place(d, s, s - 1) = rx[2]
  BY <1>1, <1>4, Sizes DEF Window, Place
<1> DEFINE old(j) == IF j = a THEN s - 1 ELSE j
<1>7. ASSUME NEW j \in Window(a + 1)
      PROVE  /\ j \in Nat /\ s <= j /\ j <= a /\ old(j) \in Window(a)
             /\ Place(d, s, j)' = Place(d, s, old(j))
  <2>1. j \in Nat /\ s <= j /\ j <= a
    BY <1>1, <1>4, <1>7, Sizes DEF Window
  <2>2. CASE j = a
    <3>1. Place(d, s, j)' = avail[a % QueueSize]
      BY <1>1, <1>3, <1>4, <2>1, <2>2 DEF Place
    <3> QED
      BY <1>2, <1>3, <1>6, <2>1, <2>2, <3>1 DEF Rewritten
  <2>3. CASE j # a
    <3>1. j \in Window(a)
      BY <1>1, <1>4, <2>1, <2>3, Sizes DEF Window
    <3>2. Place(d, s, j)' = Place(d, s, j)
      BY <1>1, <1>3, <2>1 DEF Place
    <3> QED
      BY <2>1, <2>3, <3>1, <3>2
  <2> QED
    BY <2>2, <2>3
<1>8. ASSUME NEW i \in Window(a + 1), NEW j \in Window(a + 1), i # j PROVE old(i) # old(j)
  BY <1>1, <1>7, <1>8
<1>9. Placed(d, s, a + 1)'
  <2>1. \A j \in Window(a + 1) : Place(d, s, j)' \in Entries
    BY <1>2, <1>7 DEF Placed
  <2>2. \A i, j \in Window(a + 1) : i # j => Place(d, s, i)' # Place(d, s, j)'
    BY <1>2, <1>7, <1>8 DEF Placed
  <2> QED
    BY <2>1, <2>2 DEF Placed
<1>10. Filled(d, s, a + 1)'
  <2> SUFFICES ASSUME NEW j \in Window(a + 1), j < d
               PROVE  buf[Place(d, s, j)'] = j % FrameMod
    BY <1>3 DEF Filled
  <2>1. j # a /\ s <= j
    BY <1>1, <1>4, <1>7
  <2> QED
    BY <1>2, <1>7, <2>1 DEF Filled
<1>11. Counts(d, u, s, a + 1)'
  <2>1. a + 1 = QueueSize + s /\ d <= a + 1 /\ QueueSize <= a + 1
    BY <1>1, <1>4, Sizes
  <2> QED
    BY <1>2, <1>3, <1>4, <2>1 DEF Counts, Idle
<1>12. Flow(d, u, s, a + 1)' /\ a + 1 \in Nat
  BY <1>1, <1>3, <1>9, <1>10, <1>11 DEF Flow, Rewritten
<1> QED
  BY <1>1, <1>3, <1>5, <1>12 DEF VirtioInv, Started

(* The receive queue stands still, and bring-up neither starts nor restarts it.    *)
LEMMA QueueStill ==
  ASSUME VirtioInv, UNCHANGED rxVars, Started' <=> Started
  PROVE  VirtioInv'
<1>1. UNCHANGED <<avail, availIdx, used, usedIdx, buf, RX_AVAIL_NEXT, RX_USED_SEEN,
                  rx, devAvail, writing, arrived, passed>>
  BY DEF rxVars
<1>2. VirtioTypes'
  BY <1>1 DEF VirtioInv, VirtioTypes
<1>3. \A d, u, s, a \in Nat : Flow(d, u, s, a)' <=> Flow(d, u, s, a)
  BY <1>1 DEF Flow, Counts, Idle, Placed, Place, Filled, Rewritten
<1> QED
  BY <1>1, <1>2, <1>3 DEF VirtioInv

(* Before bring-up there is no flow; every step keeps it.                    *)
LEMMA VirtioInvInit == VirtioInit => VirtioInv
<1> SUFFICES ASSUME VirtioInit PROVE VirtioInv
  OBVIOUS
<1>1. 0 \in Entries
  BY Sizes DEF Entries
<1> QED
  BY <1>1 DEF VirtioInit, VirtioInv, VirtioTypes, Started

LEMMA VirtioInvStep == VirtioInv /\ [VirtioNext]_virtioVars => VirtioInv'
<1> SUFFICES ASSUME VirtioInv, [VirtioNext]_virtioVars PROVE VirtioInv'
  OBVIOUS
<1>1. CASE Handshake
  <2>1. /\ status \in {"reset", "acknowledge", "driver", "features_ok", "rx_attached", "attached"}
        /\ status' \in {"acknowledge", "driver", "features_ok", "rx_attached", "attached",
                       "checked", "failed"}
    <3>1. PICK k \in 1 .. 6 : status = Stages[k] /\ status' \in {Stages[k + 1], "failed"}
      BY <1>1 DEF Handshake, Stages
    <3>2. k = 1 \/ k = 2 \/ k = 3 \/ k = 4 \/ k = 5 \/ k = 6
      BY <3>1
    <3> QED
      BY <3>1, <3>2 DEF Stages
  <2> QED
    BY <1>1, <2>1, QueueStill DEF Handshake, Started
<1>2. CASE populate_rx
  BY <1>2, FlowBegins
<1>3. CASE driver_ok \/ nic_set_mac
  BY <1>3, QueueStill DEF driver_ok, nic_set_mac, Started
<1>4. CASE rx_pop
  BY <1>4, PopKeeps DEF rx_pop, Started
<1>5. CASE consume \/ rx_recycle \/ DevicePublishes
  <2>1. Started
    BY <1>5 DEF consume, rx_recycle, DevicePublishes, VirtioInv
  <2> QED
    BY <1>5, <2>1, ConsumeKeeps, RecycleKeeps, PublishesKeeps
<1>6. CASE DeviceWrites
  BY <1>6, WritesKeeps DEF DeviceWrites, Started
<1>7. CASE tx_send \/ DeviceSends \/ UNCHANGED virtioVars
  BY <1>7, QueueStill DEF tx_send, DeviceSends, virtioVars, Started
<1> QED
  BY <1>1, <1>2, <1>3, <1>4, <1>5, <1>6, <1>7 DEF VirtioNext

-----------------------------------------------------------------------------
(* What the flow comes to.                                                      *)

(* The buffer handed to the stack holds the next frame.                      *)
LEMMA FlowOrders ==
  ASSUME NEW d \in Nat, NEW u \in Nat, NEW s \in Nat, NEW a \in Nat, Flow(d, u, s, a),
         rx[1] = "token"
  PROVE  buf[rx[2]] = passed
<1>1. Counts(d, u, s, a) /\ Filled(d, s, a)
  BY DEF Flow
<1>2. a = QueueSize + s - 1 /\ s <= d /\ QueueSize <= a /\ passed = (s - 1) % FrameMod
  BY <1>1, CountsBounds DEF Counts, Idle
<1>3. s - 1 \in Window(a) /\ s - 1 < d /\ Place(d, s, s - 1) = rx[2]
  BY <1>2, Sizes DEF Window, Place
<1> QED
  BY <1>1, <1>2, <1>3 DEF Filled

(* As many buffers as there are, all different: each of them is somewhere.         *)
LEMMA AllPlaced ==
  ASSUME NEW d \in Nat, NEW u \in Nat, NEW s \in Nat, NEW a \in Nat, Flow(d, u, s, a)
  PROVE  \A e \in Entries : \E j \in Window(a) : Place(d, s, j) = e
<1> DEFINE f == [j \in Window(a) |-> Place(d, s, j)]
<1>1. Placed(d, s, a) /\ QueueSize <= a
  BY DEF Flow, Counts
<1>2. f \in Injection(Window(a), Entries)
  BY <1>1 DEF Placed, Injection, IsInjective
<1>3. IsFiniteSet(Window(a)) /\ Cardinality(Window(a)) = QueueSize
  BY <1>1, Sizes, FS_Interval DEF Window
<1>4. IsFiniteSet(Entries) /\ Cardinality(Entries) = QueueSize
  BY Sizes, FS_Interval DEF Entries
<1>5. f \in Surjection(Window(a), Entries)
  BY <1>2, <1>3, <1>4, FS_Injection
<1> QED
  BY <1>5 DEF Surjection

(* The entries between two indices, by the counters.                              *)
LEMMA BetweenIs ==
  ASSUME NEW x \in Nat, NEW y \in Nat, y <= x, x - y <= QueueSize, NEW ring
  PROVE  Between(ring, y % IdxMod, x % IdxMod)
           = [k \in 1 .. x - y |-> ring[(y + (k - 1)) % QueueSize]]
<1>1. ((x % IdxMod) - (y % IdxMod)) % IdxMod = x - y
  BY IndicesDiffer
<1>2. ASSUME NEW k \in 1 .. x - y
      PROVE  ((y % IdxMod) + k - 1) % QueueSize = (y + (k - 1)) % QueueSize
  <2>1. k - 1 \in Nat
    BY <1>2
  <2>2. ((y % IdxMod) + (k - 1)) % QueueSize = (y + (k - 1)) % QueueSize
    BY <2>1, Index
  <2>3. (y % IdxMod) + k - 1 = (y % IdxMod) + (k - 1)
    <3>1. y % IdxMod \in Int /\ k \in Int
      BY <1>2, Sizes, DivMod
    <3> QED
      BY <3>1
  <2> QED
    BY <2>2, <2>3
<1> QED
  BY <1>1, <1>2 DEF Between

(* What is at each place of three sequences put end to end.                  *)
LEMMA ThreeParts ==
  ASSUME NEW S, NEW p \in Seq(S), NEW q \in Seq(S), NEW r \in Seq(S)
  PROVE  /\ p \o q \o r \in Seq(S)
         /\ Len(p \o q \o r) = Len(p) + Len(q) + Len(r)
         /\ \A k \in 1 .. Len(p) : (p \o q \o r)[k] = p[k]
         /\ \A k \in 1 .. Len(q) : (p \o q \o r)[Len(p) + k] = q[k]
         /\ \A k \in 1 .. Len(r) : (p \o q \o r)[Len(p) + Len(q) + k] = r[k]
<1>1. PICK t \in Seq(S) : t = p \o q /\ Len(t) = Len(p) + Len(q)
  BY ConcatProperties
<1>2. /\ \A k \in 1 .. Len(p) : t[k] = p[k]
      /\ \A k \in 1 .. Len(q) : t[Len(p) + k] = q[k]
  BY <1>1
<1>3. /\ t \o r \in Seq(S) /\ Len(t \o r) = Len(t) + Len(r)
      /\ \A k \in 1 .. Len(t) : (t \o r)[k] = t[k]
      /\ \A k \in 1 .. Len(r) : (t \o r)[Len(t) + k] = r[k]
  BY <1>1
<1>4. Len(p) \in Nat /\ Len(q) \in Nat /\ Len(r) \in Nat
  BY LenProperties
<1> QED
  BY <1>1, <1>2, <1>3, <1>4

(* A window of the flow names every buffer once.                             *)
LEMMA FlowInOnePlace ==
  ASSUME VirtioTypes, NEW d \in Nat, NEW u \in Nat, NEW s \in Nat, NEW a \in Nat,
         Flow(d, u, s, a)
  PROVE  LET all == WithDevice \o Delivered \o Held
         IN  /\ Len(all) = QueueSize
             /\ {all[k] : k \in 1 .. Len(all)} = Entries
<1>1. Counts(d, u, s, a) /\ Placed(d, s, a)
  BY DEF Flow
<1>2. /\ s <= d /\ d <= a /\ a - d <= QueueSize /\ d - s <= QueueSize
      /\ a - d \in Nat /\ d - s \in Nat /\ QueueSize <= a
      /\ Idle => a - QueueSize = s
      /\ ~Idle => a - QueueSize = s - 1
  BY <1>1, CountsBounds, Sizes DEF Counts
<1>3. WithDevice = [k \in 1 .. a - d |-> avail[(d + (k - 1)) % QueueSize]]
  <2>1. WithDevice = Between(avail, d % IdxMod, a % IdxMod)
    BY <1>1 DEF WithDevice, Counts
  <2> QED
    BY <1>2, <2>1, BetweenIs
<1>4. Delivered = [k \in 1 .. d - s |-> used[(s + (k - 1)) % QueueSize]]
  <2>1. (IF writing THEN Bump(usedIdx) ELSE usedIdx) = d % IdxMod
    BY <1>1, Index DEF Counts
  <2>2. Delivered = Between(used, s % IdxMod, d % IdxMod)
    BY <1>1, <2>1 DEF Delivered, Counts
  <2>3. Between(used, s % IdxMod, d % IdxMod)
          = [k \in 1 .. d - s |-> used[(s + (k - 1)) % QueueSize]]
    <3>1. s <= d /\ d - s <= QueueSize
      BY <1>2
    <3>2. \A ring : Between(ring, s % IdxMod, d % IdxMod)
                       = [k \in 1 .. d - s |-> ring[(s + (k - 1)) % QueueSize]]
      BY <3>1, BetweenIs
    <3> QED
      BY <3>2
  <2> QED
    BY <2>2, <2>3
<1>5. /\ Held = (IF Idle THEN <<>> ELSE <<rx[2]>>)
      /\ ~Idle => rx[2] \in Entries
  BY DEF Held, Idle, VirtioTypes
<1>6. ASSUME NEW k \in 1 .. a - d
      PROVE  WithDevice[k] = Place(d, s, d + (k - 1)) /\ d + (k - 1) \in Window(a)
  <2>1. PICK j \in Nat : j = d + (k - 1) /\ d <= j /\ j <= a - 1
    BY <1>2, <1>6
  <2>2. j \in Window(a)
    <3>1. a - QueueSize <= d
      BY <1>2, Sizes
    <3> QED
      BY <1>2, <2>1, <3>1, Sizes DEF Window
  <2>3. Place(d, s, j) = avail[j % QueueSize]
    <3>1. ~(j < s) /\ ~(j < d) /\ j \in Nat
      BY <1>2, <2>1
    <3> QED
      BY ONLY <3>1 DEF Place
  <2>4. WithDevice[k] = avail[j % QueueSize]
    BY <1>3, <1>6, <2>1
  <2> QED
    BY <2>1, <2>2, <2>3, <2>4
<1>7. ASSUME NEW k \in 1 .. d - s
      PROVE  Delivered[k] = Place(d, s, s + (k - 1)) /\ s + (k - 1) \in Window(a)
  BY <1>2, <1>4, <1>7, Sizes DEF Place, Window
<1>8. ~Idle => rx[2] = Place(d, s, s - 1) /\ s - 1 \in Window(a)
  BY <1>2, Sizes DEF Place, Window
<1>9. /\ WithDevice \in Seq(Entries) /\ Len(WithDevice) = a - d
      /\ Delivered \in Seq(Entries) /\ Len(Delivered) = d - s
      /\ Held \in Seq(Entries) /\ Len(Held) = IF Idle THEN 0 ELSE 1
  <2>1. \A k \in 1 .. a - d : WithDevice[k] \in Entries
    BY <1>1, <1>6 DEF Placed
  <2>2. \A k \in 1 .. d - s : Delivered[k] \in Entries
    BY <1>1, <1>7 DEF Placed
  <2>3. WithDevice \in Seq(Entries) /\ Len(WithDevice) = a - d
    BY <1>2, <1>3, <2>1
  <2>4. Delivered \in Seq(Entries) /\ Len(Delivered) = d - s
    BY <1>2, <1>4, <2>2
  <2>5. Held \in Seq(Entries) /\ Len(Held) = IF Idle THEN 0 ELSE 1
    BY <1>5
  <2> QED
    BY <2>3, <2>4, <2>5
<1> DEFINE all == WithDevice \o Delivered \o Held
           n == (a - d) + (d - s)
<1>10. /\ Len(all) = QueueSize /\ QueueSize = n + Len(Held)
       /\ \A k \in 1 .. a - d : all[k] = WithDevice[k]
       /\ \A k \in 1 .. d - s : all[(a - d) + k] = Delivered[k]
       /\ ~Idle => all[QueueSize] = rx[2]
       /\ \A k \in 1 .. QueueSize : all[k] \in Entries
  <2>1. PICK x \in Nat, y \in Nat, z \in Nat :
          /\ x = Len(WithDevice) /\ x = a - d /\ y = Len(Delivered) /\ y = d - s
          /\ z = Len(Held) /\ z = IF Idle THEN 0 ELSE 1
    BY <1>2, <1>9
  <2>2. QueueSize = x + y + z
    <3>1. CASE Idle
      BY <1>2, <2>1, <3>1, Sizes
    <3>2. CASE ~Idle
      BY <1>2, <2>1, <3>2, Sizes
    <3> QED
      BY <3>1, <3>2
  <2>3. /\ Len(all) = x + y + z
        /\ \A k \in 1 .. x : all[k] = WithDevice[k]
        /\ \A k \in 1 .. y : all[x + k] = Delivered[k]
        /\ \A k \in 1 .. z : all[x + y + k] = Held[k]
        /\ all \in Seq(Entries)
    <3>1. PICK p \in Seq(Entries), q \in Seq(Entries), r \in Seq(Entries) :
            p = WithDevice /\ q = Delivered /\ r = Held
      BY <1>9
    <3>2. all = p \o q \o r /\ Len(p) = x /\ Len(q) = y /\ Len(r) = z
      BY <2>1, <3>1
    <3>3. /\ p \o q \o r \in Seq(Entries)
          /\ Len(p \o q \o r) = Len(p) + Len(q) + Len(r)
          /\ \A k \in 1 .. Len(p) : (p \o q \o r)[k] = p[k]
          /\ \A k \in 1 .. Len(q) : (p \o q \o r)[Len(p) + k] = q[k]
          /\ \A k \in 1 .. Len(r) : (p \o q \o r)[Len(p) + Len(q) + k] = r[k]
      BY <3>1, ThreeParts
    <3> QED
      BY <3>1, <3>2, <3>3
  <2>4. ~Idle => z = 1 /\ Held[1] = rx[2]
    BY <1>5, <2>1
  <2>5. \A k \in 1 .. QueueSize : all[k] \in Entries
    BY <2>2, <2>3, ElementOfSeq
  <2> HIDE DEF all
  <2>6. ~Idle => all[QueueSize] = rx[2]
    BY <2>2, <2>3, <2>4
  <2> QED
    BY <2>1, <2>2, <2>3, <2>5, <2>6
<1>11. ASSUME NEW e \in Entries PROVE \E k \in 1 .. QueueSize : all[k] = e
  <2>1. PICK j \in Window(a) : Place(d, s, j) = e
    BY AllPlaced
  <2>2. j \in Int /\ a - QueueSize <= j /\ j < a
    BY <2>1, Sizes DEF Window
  <2>3. CASE d <= j
    <3>1. PICK k \in Nat : k = (j - d) + 1
      BY <2>2, <2>3
    <3>2. k \in 1 .. a - d /\ d + (k - 1) = j
      BY <1>2, <2>2, <2>3, <3>1
    <3>3. k \in 1 .. QueueSize
      BY <1>2, <3>1, <3>2, Sizes
    <3>4. all[k] = WithDevice[k]
      BY <1>10, <3>2
    <3> QED
      BY <1>6, <2>1, <3>2, <3>3, <3>4
  <2>4. CASE s <= j /\ j < d
    <3>1. /\ (j - s) + 1 \in 1 .. d - s /\ s + (((j - s) + 1) - 1) = j
          /\ (a - d) + ((j - s) + 1) \in 1 .. QueueSize
      BY <1>2, <2>2, <2>4, Sizes
    <3> QED
      BY <1>7, <1>10, <2>1, <3>1
  <2>5. CASE j < s
    <3>1. ~Idle /\ j = s - 1 /\ QueueSize \in 1 .. QueueSize
      BY <1>2, <2>2, <2>5, Sizes
    <3> QED
      BY <1>8, <1>10, <2>1, <3>1
  <2>6. j < s \/ (s <= j /\ j < d) \/ d <= j
    BY <2>2
  <2> QED
    BY <2>3, <2>4, <2>5, <2>6
<1> HIDE DEF all
<1>12. {all[k] : k \in 1 .. Len(all)} = Entries /\ Len(all) = QueueSize
  BY <1>10, <1>11
<1> QED
  BY <1>12 DEF all

(* From DRIVER_OK on, each receive buffer is with the device, delivered or in the  *)
(* driver's hands, exactly once, however often the 16-bit indices wrap             *)
(* (drivers/net, driver_rx_pop and rx_recycle).                                   *)
THEOREM BuffersAccounted ==
  VirtioInit /\ [][VirtioNext]_virtioVars => []BufferInOnePlace
<1>1. VirtioInv => BufferInOnePlace
  BY FlowInOnePlace DEF VirtioInv, BufferInOnePlace, Started
<1> QED
  BY <1>1, VirtioInvInit, VirtioInvStep, PTL

(* What smoltcp reads next is the frame that came next: none lost, repeated or     *)
(* overtaken, for every size of the ring.                                        *)
THEOREM FramesOrdered ==
  VirtioInit /\ [][VirtioNext]_virtioVars => []FramesInOrder
<1>1. VirtioInv => FramesInOrder
  BY FlowOrders DEF VirtioInv, FramesInOrder
<1> QED
  BY <1>1, VirtioInvInit, VirtioInvStep, PTL

-----------------------------------------------------------------------------
(* DWMAC4: which descriptors nobody has written before the rings are armed.           *)
Unwritten == {"clocks", "phy", "link", "negotiating", "reset", "upstream", "interface",
              "datapath", "retry", "again", "linear", "rings", "engines"}
Unarmed == Unwritten \cup {"arming"}
SecondAhead == Unwritten \cup {"arming", "status", "filter", "queues", "second"}
(* No frame in descriptor i but one that the MAC counted after its n-th.           *)
EmptySince(i, n) == rxDesc[i] \in Good => rxDesc[i] > n
(* Where the walk and the watchdog can be, with what they remember.                 *)
PcOK ==
  \/ pc \in {<<"idle">>, <<"empty">>, <<"doorbell">>}
  \/ pc \in {"scan"} \X Descs \X (0 .. Ring - 1)
  \/ pc \in {"kick"} \X Descs \X (1 .. Ring)
  \/ pc \in {"token"} \X Descs
  \/ pc \in {"rearmed", "drop"} \X {NoIdx}
  \/ pc \in {"look"} \X BOOLEAN
  \/ pc \in {"decide", "halted"} \X BOOLEAN \X Nat
GmacTypes ==
  /\ rxDesc \in [Descs -> Int] /\ txDesc \in [Descs -> Nat]
  /\ RX_NEXT \in Descs /\ cur \in Descs
  /\ mrxf \in Nat /\ LAST_MRXF \in Nat /\ LAST_MRXF <= mrxf
  /\ rbu \in BOOLEAN /\ MRXF_STALL_STREAK \in Nat /\ txSent \in Nat
  /\ PcOK

(* Bring-up: the walk waits for it, and what it writes nobody has written before.     *)
ArmingOrder ==
  /\ stage # "up" => pc = <<"idle">>
  /\ stage \in Unwritten => txDesc[0] = Free
  /\ stage \in SecondAhead => txDesc[1] = Free
  /\ stage \in Unarmed => rxDesc = [i \in Descs |-> Bad]

(* What the walk has passed, the watchdog's view of it, and the count it goes by: a    *)
(* frame that is there all the same came after the last snapshot.                     *)
WalkedInv ==
  /\ pc[1] \in {"scan", "kick"} =>
       \A k \in 0 .. pc[3] - 1 : EmptySince((pc[2] + k) % Ring, LAST_MRXF)
  /\ pc[1] \in {"empty", "look"} => \A i \in Descs : EmptySince(i, LAST_MRXF)
  /\ pc[1] \in {"decide", "halted"} =>
       pc[3] <= mrxf /\ LAST_MRXF <= pc[3] /\ \A i \in Descs : EmptySince(i, LAST_MRXF)
  /\ pc[1] = "halted" => pc[3] = LAST_MRXF

GmacInv == GmacTypes /\ ArmingOrder /\ WalkedInv

(* What is assumed of the ring of descriptors.                               *)
LEMMA RingSize ==
  /\ Ring \in Nat \ {0} /\ Ring > 2 /\ FrozenSnaps \in Nat \ {0}
  /\ MaxFrames \in Nat /\ Cooldown \in Nat /\ 0 \in Descs /\ 1 \in Descs
  BY GmacAssumption DEF Descs

(* Indices stay in the ring.                                                 *)
LEMMA RingIndex ==
  /\ \A x \in Int : x % Ring \in Descs
  /\ \A i \in Descs : Next1(i) \in Descs
<1>1. \A x \in Int : x % Ring \in Descs
  BY RingSize, DivMod DEF Descs
<1>2. \A i \in Descs : i + 1 \in Int
  BY RingSize DEF Descs
<1> QED
  BY <1>1, <1>2 DEF Next1

(* A walk of Ring steps, from wherever it starts, comes by every descriptor.        *)
LEMMA WalkCovers ==
  ASSUME NEW start \in Descs, NEW i \in Descs
  PROVE  \E k \in 0 .. Ring - 1 : (start + k) % Ring = i
<1> DEFINE k == (i - start) % Ring
<1>1. i \in Int /\ start \in Int /\ i - start \in Int /\ Ring \in Nat \ {0}
  BY RingSize DEF Descs
<1>2. k \in 0 .. Ring - 1
  BY <1>1, RingIndex DEF Descs
<1>3. Ring % Ring = 0
  <2>1. (Ring * 1 + 0) % Ring = 0
    BY RingSize, ModUnique
  <2>2. Ring * 1 + 0 = Ring
    BY RingSize
  <2> QED
    BY <2>1, <2>2
<1>4. (k + start) % Ring = ((i - start) + start) % Ring
  <2>1. \A x, y \in Int : ((x % Ring) + y) % Ring = (x + y) % Ring
    <3>1. Ring \in Nat \ {0} /\ Ring % Ring = 0
      BY <1>1, <1>3
    <3> QED
      BY ONLY <3>1, ModMod, ZenonT(60)
  <2> QED
    BY <1>1, <2>1, Zenon
<1>5. (i - start) + start = i
  BY <1>1
<1>6. i % Ring = i
  <2>1. (Ring * 0 + i) % Ring = i
    BY <1>1, ModUnique DEF Descs
  <2>2. Ring * 0 + i = i
    BY <1>1
  <2> QED
    BY <2>1, <2>2
<1>7. k + start = start + k
  BY <1>1, <1>2
<1> QED
  BY <1>2, <1>4, <1>5, <1>6, <1>7


(* The bring-up: nothing moves before the rings are armed.                        *)
LEMMA BringUpKeeps ==
  ASSUME GmacInv, BringUp \/ ResetEnds
  PROVE  GmacInv'
<1>1. stage # "up" /\ pc = <<"idle">> /\ pc' = <<"idle">>
  BY DEF GmacInv, ArmingOrder, BringUp, ResetEnds, Goes, dataPath, enable_bus_clocks,
         configure_phy, look_at_link, negotiate, soft_reset, enable_upstream_clocks,
         select_phy_interface, enable_datapath_clocks, reset_retry, reset_again,
         lin_mem_base, program_rings, start_engines, arm_receive, clear_status,
         address_filter, mtl_queues, second_packet, settle, smoltcp_up, ClearStatus
<1>2. GmacTypes' /\ ArmingOrder'
  <2>1. CASE ResetEnds \/ enable_bus_clocks \/ configure_phy \/ look_at_link \/ negotiate
             \/ soft_reset \/ enable_upstream_clocks \/ select_phy_interface
             \/ enable_datapath_clocks \/ reset_retry \/ reset_again \/ lin_mem_base
             \/ program_rings \/ smoltcp_up
    <3>1. /\ UNCHANGED dataPath
          /\ stage' # stage =>
               \/ stage \in Unwritten /\ stage' \in Unwritten
               \/ stage' \in {"up", "failed"}
      BY <2>1 DEF ResetEnds, enable_bus_clocks, configure_phy, look_at_link, negotiate,
                  soft_reset, enable_upstream_clocks, select_phy_interface,
                  enable_datapath_clocks, reset_retry, reset_again, lin_mem_base,
                  program_rings, smoltcp_up, Goes, read_again, Unwritten
    <3> QED
      BY <1>1, <3>1 DEF GmacInv, GmacTypes, PcOK, ArmingOrder, dataPath, watchVars, engineVars,
                       gmacTx, Unwritten, Unarmed, SecondAhead, EmptySince
  <2>2. CASE start_engines
    BY <1>1, <2>2, RingSize DEF start_engines, Goes, GmacInv, GmacTypes, PcOK, ArmingOrder, watchVars,
                     Unwritten, Unarmed, SecondAhead
  <2>3. CASE arm_receive
    BY <1>1, <2>3 DEF arm_receive, Goes, GmacInv, GmacTypes, PcOK, ArmingOrder, watchVars,
                     gmacTx, Unwritten, Unarmed, SecondAhead, Own
  <2>4. CASE clear_status \/ address_filter \/ mtl_queues \/ settle
    BY <1>1, <2>4 DEF clear_status, address_filter, mtl_queues, settle, ClearStatus, Goes,
                     GmacInv, GmacTypes, PcOK, ArmingOrder, watchVars, gmacTx, Unwritten,
                     Unarmed, SecondAhead
  <2>5. CASE second_packet
    BY <1>1, <2>5 DEF second_packet, Goes, GmacInv, GmacTypes, PcOK, ArmingOrder, watchVars,
                     Unwritten, Unarmed, SecondAhead
  <2> QED
    BY <2>1, <2>2, <2>3, <2>4, <2>5 DEF BringUp
<1>3. WalkedInv'
  BY <1>1 DEF WalkedInv
<1> QED
  BY <1>2, <1>3 DEF GmacInv

(* The walk, descriptor by descriptor.                                             *)
LEMMA WalkKeeps ==
  ASSUME GmacInv, begin_receive \/ scan \/ kick
  PROVE  GmacInv'
<1>0. GmacTypes /\ ArmingOrder /\ WalkedInv /\ LAST_MRXF' = LAST_MRXF /\ mrxf' = mrxf
  BY DEF GmacInv, begin_receive, scan, kick, Resume, watchVars, engineVars
<1>1. CASE begin_receive
  <2>1. pc' = <<"scan", RX_NEXT, 0>> /\ stage' = "up"
    BY <1>1 DEF begin_receive, bringUp
  <2>2. GmacTypes' /\ ArmingOrder'
    BY <1>0, <1>1, <2>1, RingSize DEF begin_receive, GmacTypes, PcOK, ArmingOrder, watchVars,
       engineVars, gmacTx, bringUp, Unwritten, Unarmed, SecondAhead
  <2>3. WalkedInv'
    BY <2>1 DEF WalkedInv
  <2> QED
    BY <2>2, <2>3 DEF GmacInv
<1>2. CASE scan
  <2>1. PICK start \in Descs, n \in 0 .. Ring - 1 : pc = <<"scan", start, n>>
    BY <1>0, <1>2 DEF scan, GmacTypes, PcOK
  <2>2. PICK i \in Descs : i = (start + n) % Ring
    <3>1. start + n \in Int
      BY <2>1, RingSize DEF Descs
    <3> QED
      BY <3>1, RingIndex
  <2>3. stage = "up" /\ stage' = "up" /\ txDesc' = txDesc
    BY <1>0, <1>2, <2>1 DEF ArmingOrder, scan, bringUp, gmacTx
  <2>4. ArmingOrder'
    BY <2>3 DEF ArmingOrder, Unwritten, Unarmed, SecondAhead
  <2>5. CASE rxDesc[i] = Own
    <3>1. /\ rxDesc' = rxDesc /\ RX_NEXT' = RX_NEXT
          /\ pc' = IF n + 1 < Ring THEN <<"scan", start, n + 1>> ELSE <<"empty">>
      <4>1. pc[2] = start /\ pc[3] = n /\ rxDesc[(pc[2] + pc[3]) % Ring] = Own
        BY <2>1, <2>2, <2>5
      <4> QED
        BY <1>2, <2>1, <4>1 DEF scan, Own, Bad
    <3>2. GmacTypes'
      BY <1>0, <1>2, <2>1, <3>1, RingSize DEF scan, GmacTypes, PcOK, engineVars, gmacTx
    <3>3. \A k \in 0 .. n : EmptySince((start + k) % Ring, LAST_MRXF)
      <4>1. \A k \in 0 .. n - 1 : EmptySince((start + k) % Ring, LAST_MRXF)
        BY <1>0, <2>1 DEF WalkedInv
      <4>2. EmptySince((start + n) % Ring, LAST_MRXF)
        BY <2>2, <2>5 DEF EmptySince, Good, Own
      <4> QED
        BY <2>1, <4>1, <4>2
    <3>4. CASE n + 1 < Ring
      <4>1. pc' = <<"scan", start, n + 1>>
        BY <3>1, <3>4
      <4> QED
        BY <1>0, <2>1, <3>1, <3>2, <3>3, <2>4, <4>1 DEF GmacInv, WalkedInv, EmptySince
    <3>5. CASE ~(n + 1 < Ring)
      <4>1. pc' = <<"empty">>
        BY <3>1, <3>5
      <4>2. \A j \in Descs : EmptySince(j, LAST_MRXF)
        <5> TAKE j \in Descs
        <5>1. PICK k \in 0 .. Ring - 1 : (start + k) % Ring = j
          BY WalkCovers
        <5>2. k \in 0 .. n
          BY <2>1, <3>5, <5>1, RingSize
        <5> QED
          BY <3>3, <5>1, <5>2
      <4> QED
        BY <1>0, <3>1, <3>2, <2>4, <4>1, <4>2 DEF GmacInv, WalkedInv, EmptySince
    <3> QED
      BY <3>4, <3>5
  <2>6. CASE rxDesc[i] = Bad
    <3>1. /\ rxDesc' = [rxDesc EXCEPT ![i] = Own] /\ RX_NEXT' = Next1(i)
          /\ pc' = <<"kick", start, n + 1>>
      BY <1>2, <2>1, <2>2, <2>6 DEF scan, Own, Bad
    <3>2. GmacTypes'
      <4>1. n < Ring
        BY <2>1, RingSize
      <4> QED
        BY <1>0, <1>2, <2>1, <3>1, <4>1, RingSize, RingIndex DEF scan, GmacTypes, PcOK, engineVars, gmacTx, Own
    <3>3. WalkedInv'
      <4>1. \A j \in Descs : EmptySince(j, LAST_MRXF) => EmptySince(j, LAST_MRXF)'
        BY <1>0, <3>1 DEF EmptySince, GmacTypes, PcOK, Own, Good
      <4>2. \A k \in 0 .. n - 1 : EmptySince((start + k) % Ring, LAST_MRXF)'
        <5> TAKE k \in 0 .. n - 1
        <5>1. start + k \in Int
          BY <2>1, RingSize DEF Descs
        <5>2. (start + k) % Ring \in Descs
          BY <5>1, RingIndex
        <5> QED
          BY <1>0, <2>1, <4>1, <5>2 DEF WalkedInv
      <4>3. EmptySince((start + n) % Ring, LAST_MRXF)'
        BY <1>0, <2>2, <3>1 DEF EmptySince, GmacTypes, PcOK, Own, Good
      <4> QED
        BY <2>1, <3>1, <4>2, <4>3 DEF WalkedInv
    <3> QED
      BY <2>4, <3>2, <3>3 DEF GmacInv
  <2>7. CASE rxDesc[i] # Own /\ rxDesc[i] # Bad
    <3>1. rxDesc' = rxDesc /\ RX_NEXT' = Next1(i) /\ pc' = <<"token", i>>
      BY <1>2, <2>1, <2>2, <2>7 DEF scan
    <3>2. GmacTypes'
      BY <1>0, <1>2, <3>1, RingIndex DEF scan, GmacTypes, PcOK, engineVars, gmacTx
    <3> QED
      BY <2>4, <3>1, <3>2 DEF GmacInv, WalkedInv
  <2> QED
    BY <2>5, <2>6, <2>7
<1>3. CASE kick
  <2>1. rxDesc' = rxDesc /\ stage' = stage /\ txDesc' = txDesc
    BY <1>3 DEF kick, bringUp, gmacTx
  <2>2. CASE pc[1] = "kick"
    <3>1. PICK start \in Descs, n \in 1 .. Ring : pc = <<"kick", start, n>>
      BY <1>0, <2>2 DEF GmacTypes, PcOK
    <3>2. pc' = IF n < Ring THEN <<"scan", start, n>> ELSE <<"empty">>
      BY <1>3, <3>1 DEF kick
    <3>3. stage = "up" /\ ArmingOrder'
      BY <1>0, <2>1, <3>1 DEF ArmingOrder, Unwritten, Unarmed, SecondAhead
    <3>4. GmacTypes'
      <4>1. pc' \in {"scan"} \X Descs \X (0 .. Ring - 1) \/ pc' = <<"empty">>
        BY <3>1, <3>2, RingSize
      <4> QED
        BY <1>0, <1>3, <4>1 DEF kick, GmacTypes, PcOK, Resume, watchVars, gmacTx
    <3>5. \A k \in 0 .. n - 1 : EmptySince((start + k) % Ring, LAST_MRXF)
      BY <1>0, <3>1 DEF WalkedInv
    <3>6. CASE n < Ring
      <4>1. pc' = <<"scan", start, n>>
        BY <3>2, <3>6
      <4> QED
        BY <1>0, <2>1, <3>3, <3>4, <3>5, <4>1 DEF GmacInv, WalkedInv, EmptySince
    <3>7. CASE ~(n < Ring)
      <4>1. pc' = <<"empty">>
        BY <3>2, <3>7
      <4>2. \A j \in Descs : EmptySince(j, LAST_MRXF)
        <5> TAKE j \in Descs
        <5>1. PICK k \in 0 .. Ring - 1 : (start + k) % Ring = j
          BY WalkCovers
        <5>2. k \in 0 .. n - 1
          BY <3>1, <3>7, <5>1, RingSize
        <5> QED
          BY <3>5, <5>1, <5>2
      <4> QED
        BY <1>0, <2>1, <3>3, <3>4, <4>1, <4>2 DEF GmacInv, WalkedInv, EmptySince
    <3> QED
      BY <3>6, <3>7
  <2>3. CASE pc[1] = "rearmed"
    <3>1. pc = <<"rearmed", NoIdx>> /\ pc' = <<"drop", NoIdx>>
      BY <1>0, <1>3, <2>3 DEF kick, GmacTypes, PcOK
    <3>2. stage = "up" /\ ArmingOrder'
      BY <1>0, <2>1, <3>1 DEF ArmingOrder, Unwritten, Unarmed, SecondAhead
    <3>3. GmacTypes'
      BY <1>0, <1>3, <3>1 DEF kick, GmacTypes, PcOK, Resume, watchVars, gmacTx
    <3> QED
      BY <3>1, <3>2, <3>3 DEF GmacInv, WalkedInv
  <2> QED
    BY <1>3, <2>2, <2>3 DEF kick
<1> QED
  BY <1>1, <1>2, <1>3


(* A token is consumed once: what its drop would re-arm is no descriptor.             *)
LEMMA TokenKeeps ==
  ASSUME GmacInv, token_consume \/ token_drop
  PROVE  GmacInv'
<1>0. GmacTypes /\ ArmingOrder /\ stage = "up" /\ stage' = "up" /\ txDesc' = txDesc
  BY DEF GmacInv, token_consume, token_drop, bringUp, gmacTx, ArmingOrder
<1>1. ArmingOrder'
  BY <1>0 DEF ArmingOrder, Unwritten, Unarmed, SecondAhead
<1>2. CASE token_consume
  <2>1. PICK i \in Descs : pc = <<"token", i>>
    BY <1>0, <1>2 DEF token_consume, GmacTypes, PcOK
  <2>2. pc' = <<"rearmed", NoIdx>> /\ rxDesc' = [rxDesc EXCEPT ![i] = Own]
    BY <1>2, <2>1 DEF token_consume
  <2>3. GmacTypes'
    BY <1>0, <1>2, <2>2 DEF token_consume, GmacTypes, PcOK, Own, watchVars, engineVars, gmacTx
  <2> QED
    BY <1>1, <2>2, <2>3 DEF GmacInv, WalkedInv
<1>3. CASE token_drop
  <2>1. pc = <<"drop", NoIdx>>
    BY <1>0, <1>3 DEF token_drop, GmacTypes, PcOK
  <2>2. pc' = <<"idle">> /\ rxDesc' = rxDesc
    BY <1>3, <2>1 DEF token_drop
  <2>3. GmacTypes'
    BY <1>0, <1>3, <2>1, <2>2 DEF token_drop, GmacTypes, PcOK, watchVars, gmacTx
  <2> QED
    BY <1>1, <2>2, <2>3 DEF GmacInv, WalkedInv
<1> QED
  BY <1>2, <1>3

(* The watchdog: it recovers only when the count it read is that of the look before,  *)
(* so that every frame the walk did not see came after it.                           *)
LEMMA WatchKeeps ==
  ASSUME GmacInv, watch \/ snapshot \/ decide \/ vf2_rx_channel_recover \/ doorbell
  PROVE  GmacInv'
<1>0. /\ GmacTypes /\ ArmingOrder /\ WalkedInv
      /\ stage = "up" /\ stage' = "up" /\ txDesc' = txDesc /\ mrxf' = mrxf
  BY DEF GmacInv, watch, snapshot, decide, vf2_rx_channel_recover, doorbell, bringUp,
         gmacTx, engineVars, Resume, ArmingOrder
<1>1. ArmingOrder'
  BY <1>0 DEF ArmingOrder, Unwritten, Unarmed, SecondAhead
<1>2. CASE watch
  <2>1. /\ rxDesc' = rxDesc /\ LAST_MRXF' = LAST_MRXF
        /\ pc' \in {<<"idle">>, <<"doorbell">>} \cup ({"look"} \X BOOLEAN)
    <3>1. rbu \in BOOLEAN
      BY <1>0 DEF GmacTypes, PcOK
    <3> QED
      BY <1>2, <3>1 DEF watch, AfterLook
  <2>2. GmacTypes'
    BY <1>0, <1>2, <2>1 DEF watch, GmacTypes, PcOK, engineVars, gmacTx
  <2>3. WalkedInv'
    BY <1>0, <1>2, <2>1 DEF WalkedInv, EmptySince, watch
  <2> QED
    BY <1>1, <2>2, <2>3 DEF GmacInv
<1>3. CASE snapshot
  <2>1. PICK st \in BOOLEAN : pc = <<"look", st>> /\ pc' = <<"decide", st, mrxf>>
    BY <1>0, <1>3 DEF snapshot, GmacTypes, PcOK
  <2>2. GmacTypes'
    BY <1>0, <1>3, <2>1 DEF snapshot, GmacTypes, PcOK, watchVars, engineVars, gmacTx
  <2>3. WalkedInv'
    BY <1>0, <1>3, <2>1 DEF WalkedInv, EmptySince, snapshot, watchVars, GmacTypes, PcOK
  <2> QED
    BY <1>1, <2>2, <2>3 DEF GmacInv
<1>4. CASE decide
  <2>1. PICK st \in BOOLEAN, n \in Nat : pc = <<"decide", st, n>>
    BY <1>0, <1>4 DEF decide, GmacTypes, PcOK
  <2>2. rxDesc' = rxDesc /\ LAST_MRXF' = n /\ n <= mrxf
    BY <1>0, <1>4, <2>1 DEF decide, WalkedInv
  <2>3. Streak(n) \in Nat
    BY <1>0, RingSize DEF Streak, GmacTypes, PcOK
  <2>4. CASE Streak(n) >= FrozenSnaps /\ ~st /\ RECOVER_COOLDOWN = 0
    <3>1. n = LAST_MRXF
      BY <2>4, RingSize DEF Streak
    <3>2. pc' = <<"halted", st, n>> /\ MRXF_STALL_STREAK' = 0
      BY <1>4, <2>1, <2>4 DEF decide
    <3>3. GmacTypes'
      BY <1>0, <1>4, <2>1, <2>2, <3>2 DEF decide, GmacTypes, PcOK, gmacTx
    <3>4. WalkedInv'
      BY <1>0, <2>1, <2>2, <3>1, <3>2 DEF WalkedInv, EmptySince
    <3> QED
      BY <1>1, <3>3, <3>4 DEF GmacInv
  <2>5. CASE ~(Streak(n) >= FrozenSnaps /\ ~st /\ RECOVER_COOLDOWN = 0)
    <3>1. pc' = AfterLook(st) /\ MRXF_STALL_STREAK' = Streak(n)
      BY <1>4, <2>1, <2>5 DEF decide
    <3>2. pc' \in {<<"idle">>, <<"doorbell">>}
      BY <2>1, <3>1 DEF AfterLook
    <3>3. GmacTypes'
      BY <1>0, <1>4, <2>1, <2>2, <2>3, <3>1, <3>2 DEF decide, GmacTypes, PcOK, gmacTx
    <3>4. WalkedInv'
      BY <3>2 DEF WalkedInv
    <3> QED
      BY <1>1, <3>3, <3>4 DEF GmacInv
  <2> QED
    BY <2>4, <2>5
<1>5. CASE vf2_rx_channel_recover
  <2>1. PICK st \in BOOLEAN, n \in Nat : pc = <<"halted", st, n>>
    BY <1>0, <1>5 DEF vf2_rx_channel_recover, GmacTypes, PcOK
  <2>2. pc' \in {<<"idle">>, <<"doorbell">>}
    BY <1>5, <2>1 DEF vf2_rx_channel_recover, AfterLook
  <2>3. GmacTypes'
    <3>1. rxDesc' \in [Descs -> Int] /\ RX_NEXT' \in Descs /\ cur' \in Descs
      BY <1>5, RingSize DEF vf2_rx_channel_recover, Own
    <3>2. PcOK' /\ rbu' \in BOOLEAN
      BY <1>5, <2>2 DEF vf2_rx_channel_recover, PcOK
    <3> QED
      BY <1>0, <1>5, <3>1, <3>2 DEF vf2_rx_channel_recover, GmacTypes, watchVars, gmacTx
  <2>4. WalkedInv'
    BY <2>2 DEF WalkedInv
  <2> QED
    BY <1>1, <2>3, <2>4 DEF GmacInv
<1>6. CASE doorbell
  <2>1. pc' = <<"idle">> /\ rxDesc' = rxDesc
    BY <1>6 DEF doorbell
  <2>2. GmacTypes'
    <3>1. PcOK'
      BY <2>1 DEF PcOK
    <3> QED
      BY <1>0, <1>6, <2>1, <3>1 DEF doorbell, Resume, GmacTypes, watchVars, gmacTx
  <2>3. WalkedInv'
    BY <2>1 DEF WalkedInv
  <2> QED
    BY <1>1, <2>2, <2>3 DEF GmacInv
<1> QED
  BY <1>2, <1>3, <1>4, <1>5, <1>6

(* The engines and the transmit path.                                              *)
LEMMA EnginesKeep ==
  ASSUME GmacInv, transmit \/ Receives \/ Wedges \/ Transmits \/ UNCHANGED gmacVars
  PROVE  GmacInv'
<1>0. /\ GmacTypes /\ ArmingOrder /\ WalkedInv
      /\ pc' = pc /\ stage' = stage /\ LAST_MRXF' = LAST_MRXF
  BY DEF GmacInv, transmit, Publish, Receives, Wedges, Transmits, gmacVars, bringUp, watchVars
<1>1. CASE transmit
  <2>1. PICK i \in Descs : FirstFree(i) /\ Publish(i)
    BY <1>1 DEF transmit
  <2>2. stage = "up"
    BY <1>0, <1>1 DEF transmit, MayTransmit, ArmingOrder
  <2>3. rxDesc' = rxDesc /\ mrxf' = mrxf
    BY <2>1 DEF Publish, engineVars
  <2>4. GmacTypes'
    BY <1>0, <2>1 DEF GmacTypes, PcOK, Publish, watchVars, engineVars
  <2>5. ArmingOrder'
    BY <1>0, <2>2 DEF ArmingOrder, Unwritten, Unarmed, SecondAhead
  <2>6. WalkedInv'
    BY <1>0, <2>3 DEF WalkedInv, EmptySince
  <2> QED
    BY <2>4, <2>5, <2>6 DEF GmacInv
<1>2. CASE Receives
  <2>1. mrxf' = mrxf + 1 /\ txDesc' = txDesc
    BY <1>2 DEF Receives, gmacTx
  <2>2. rxDesc' = rxDesc \/ (rxDesc[cur] = Own /\ \E f \in {mrxf', Bad} : rxDesc' = [rxDesc EXCEPT ![cur] = f])
    BY <1>2 DEF Receives
  <2>3. cur' \in Descs
    BY <1>0, <1>2, RingIndex DEF Receives, GmacTypes, PcOK
  <2>4. rxDesc' \in [Descs -> Int]
    BY <1>0, <2>1, <2>2 DEF GmacTypes, PcOK, Bad
  <2>5. GmacTypes'
    <3>1. PcOK'
      BY <1>0 DEF GmacTypes, PcOK
    <3>2. /\ RX_NEXT' = RX_NEXT /\ MRXF_STALL_STREAK' = MRXF_STALL_STREAK
          /\ LAST_MRXF' = LAST_MRXF /\ txSent' = txSent
      BY <1>2 DEF Receives, watchVars, gmacTx
    <3>3. mrxf' \in Nat /\ LAST_MRXF' <= mrxf'
      BY <1>0, <2>1, <3>2 DEF GmacTypes
    <3>5. rbu' \in BOOLEAN
      BY <1>0, <1>2, Zenon DEF Receives, GmacTypes
    <3>4. /\ rxDesc' \in [Descs -> Int] /\ txDesc' \in [Descs -> Nat]
          /\ RX_NEXT' \in Descs /\ LAST_MRXF' \in Nat
          /\ MRXF_STALL_STREAK' \in Nat /\ txSent' \in Nat
      BY <1>0, <2>1, <2>4, <3>2 DEF GmacTypes
    <3> QED
      BY <2>3, <3>1, <3>3, <3>4, <3>5 DEF GmacTypes
  <2>6. ArmingOrder'
    <3>1. stage \in Unarmed => rxDesc' = rxDesc
      BY <1>0, <2>2 DEF ArmingOrder, GmacTypes, PcOK, Own, Bad
    <3> QED
      BY <1>0, <2>1, <3>1 DEF ArmingOrder
  <2>7. WalkedInv'
    <3>1. \A j \in Descs : EmptySince(j, LAST_MRXF) => EmptySince(j, LAST_MRXF)'
      BY <1>0, <2>1, <2>2 DEF EmptySince, GmacTypes, PcOK, Good, Bad
    <3>2. ASSUME pc[1] \in {"scan", "kick"}
          PROVE  \A k \in 0 .. pc[3] - 1 : EmptySince((pc[2] + k) % Ring, LAST_MRXF)'
      <4>1. PICK start \in Descs, n \in Nat : pc[2] = start /\ pc[3] = n
        BY <1>0, <3>2, RingSize DEF GmacTypes, PcOK
      <4>2. ASSUME NEW k \in 0 .. n - 1 PROVE (start + k) % Ring \in Descs
        <5>1. start + k \in Int
          BY <4>1, <4>2, RingSize DEF Descs
        <5> QED
          BY <5>1, RingIndex
      <4> QED
        BY <1>0, <3>1, <3>2, <4>1, <4>2 DEF WalkedInv
    <3> QED
      BY <1>0, <2>1, <3>1, <3>2 DEF WalkedInv, GmacTypes, PcOK
  <2> QED
    BY <2>5, <2>6, <2>7 DEF GmacInv
<1>3. CASE Wedges \/ UNCHANGED gmacVars
  <2>1. rxDesc' = rxDesc /\ mrxf' = mrxf /\ txDesc' = txDesc
    BY <1>3 DEF Wedges, gmacVars, gmacTx, engineVars
  <2>2. GmacTypes'
    BY <1>0, <1>3, <2>1 DEF Wedges, GmacTypes, PcOK, gmacVars, watchVars, engineVars, gmacTx
  <2> QED
    BY <1>0, <2>1, <2>2 DEF GmacInv, ArmingOrder, WalkedInv, EmptySince
<1>4. CASE Transmits
  <2>1. rxDesc' = rxDesc /\ mrxf' = mrxf /\ txDesc' = [txDesc EXCEPT ![txCur] = Free]
    BY <1>4 DEF Transmits, engineVars
  <2>2. GmacTypes'
    <3>1. PcOK'
      BY <1>0 DEF GmacTypes, PcOK
    <3>2. txDesc' \in [Descs -> Nat]
      BY <1>0, <2>1 DEF GmacTypes, Free
    <3> QED
      BY <1>0, <1>4, <2>1, <3>1, <3>2 DEF Transmits, GmacTypes, watchVars, engineVars
  <2>3. ArmingOrder'
    BY <1>0, <2>1, RingSize DEF ArmingOrder, GmacTypes, PcOK
  <2>4. WalkedInv'
    BY <1>0, <2>1 DEF WalkedInv, EmptySince
  <2> QED
    BY <2>2, <2>3, <2>4 DEF GmacInv
<1> QED
  BY <1>1, <1>2, <1>3, <1>4

(* The invariant holds before bring-up, and every step keeps it.             *)
LEMMA GmacInvInit == GmacInit => GmacInv
<1> SUFFICES ASSUME GmacInit PROVE GmacInv
  OBVIOUS
<1>1. GmacTypes
  <2>1. rxDesc \in [Descs -> Int] /\ txDesc \in [Descs -> Nat] /\ PcOK
    BY DEF GmacInit, PcOK, Free, Bad
  <2> QED
    <3>1. rbu \in BOOLEAN
      BY DEF GmacInit
    <3> QED
      BY <2>1, <3>1, RingSize DEF GmacInit, GmacTypes
<1>2. ArmingOrder
  BY RingSize DEF GmacInit, ArmingOrder
<1>3. WalkedInv
  BY DEF GmacInit, WalkedInv
<1> QED
  BY <1>1, <1>2, <1>3 DEF GmacInv

LEMMA GmacInvStep == GmacInv /\ [GmacNext]_gmacVars => GmacInv'
<1> SUFFICES ASSUME GmacInv, [GmacNext]_gmacVars PROVE GmacInv'
  OBVIOUS
<1> QED
  BY BringUpKeeps, WalkKeeps, TokenKeeps, WatchKeeps, EnginesKeep DEF GmacNext, Poll


(* "Its descriptor overwritten with OWN=1 and silently discarded" (drivers/net)        *)
(* cannot happen: only the token of a frame, or the watchdog's recovery to frames     *)
(* that came after the snapshot it decided by, re-arms a descriptor that holds one.   *)
THEOREM DeliveredFramesKept ==
  GmacInit /\ [][GmacNext]_gmacVars => FramesKept
<1> DEFINE Kept == \A i \in Descs :
             rxDesc[i] \in Good /\ rxDesc'[i] # rxDesc[i] =>
               \/ pc = <<"token", i>>
               \/ pc[1] = "halted" /\ rxDesc[i] > pc[3]
<1>1. GmacInv /\ [GmacNext]_gmacVars => [Kept]_gmacVars
  <2> SUFFICES ASSUME GmacInv, GmacNext, NEW i \in Descs,
                      rxDesc[i] \in Good, rxDesc'[i] # rxDesc[i]
               PROVE  pc = <<"token", i>> \/ (pc[1] = "halted" /\ rxDesc[i] > pc[3])
    OBVIOUS
  <2>0. GmacTypes /\ ArmingOrder /\ WalkedInv
    BY DEF GmacInv
  <2>1. ~(begin_receive \/ kick \/ watch \/ snapshot \/ decide \/ doorbell)
    BY DEF begin_receive, kick, watch, snapshot, decide, doorbell
  <2>2. ~scan
    BY <2>0 DEF scan, GmacTypes, Bad, Good
  <2>3. token_consume => pc = <<"token", i>>
    BY <2>0 DEF token_consume, GmacTypes, PcOK
  <2>4. ~token_drop
    BY <2>0 DEF token_drop, GmacTypes, PcOK
  <2>5. vf2_rx_channel_recover => pc[1] = "halted" /\ rxDesc[i] > pc[3]
    BY <2>0 DEF vf2_rx_channel_recover, WalkedInv, EmptySince
  <2>6. ~(transmit \/ Wedges \/ Transmits \/ ResetEnds)
    BY DEF transmit, Publish, Wedges, Transmits, ResetEnds, dataPath
  <2>7. ~Receives
    BY <2>0 DEF Receives, GmacTypes, Own, Good
  <2>8. ~arm_receive
    BY <2>0 DEF arm_receive, Goes, ArmingOrder, Unarmed, Bad, Good
  <2>9. ~(BringUp /\ ~arm_receive)
    BY DEF BringUp, dataPath, enable_bus_clocks, configure_phy, look_at_link, negotiate,
           soft_reset, enable_upstream_clocks, select_phy_interface, enable_datapath_clocks,
           reset_retry, reset_again, lin_mem_base, program_rings, start_engines,
           clear_status, address_filter, mtl_queues, second_packet, settle, smoltcp_up,
           ClearStatus
  <2> QED
    BY <2>1, <2>2, <2>3, <2>4, <2>5, <2>6, <2>7, <2>8, <2>9 DEF GmacNext, Poll
<1> QED
  BY <1>1, GmacInvInit, GmacInvStep, PTL DEF FramesKept

(* A frame handed to the transmit engine stays in its descriptor until the engine      *)
(* has sent it, though a token that came with a frame never looked at the ring         *)
(* (drivers/net, Vf2NicTxToken::consume).                                            *)
THEOREM OutgoingFramesKept ==
  GmacInit /\ [][GmacNext]_gmacVars => InFlightKept
<1> DEFINE Kept == \A i \in Descs :
             txDesc[i] # Free /\ txDesc'[i] # txDesc[i] => i = txCur /\ txDesc'[i] = Free
<1>1. GmacInv /\ [GmacNext]_gmacVars => [Kept]_gmacVars
  <2> SUFFICES ASSUME GmacInv, GmacNext, NEW i \in Descs,
                      txDesc[i] # Free, txDesc'[i] # txDesc[i]
               PROVE  i = txCur /\ txDesc'[i] = Free
    OBVIOUS
  <2>0. GmacTypes /\ ArmingOrder
    BY DEF GmacInv
  <2>1. ~Poll
    BY DEF Poll, begin_receive, scan, kick, token_consume, token_drop, watch, snapshot,
           decide, vf2_rx_channel_recover, doorbell, gmacTx
  <2>2. ~(Receives \/ Wedges \/ ResetEnds)
    BY DEF Receives, Wedges, ResetEnds, dataPath, gmacTx
  <2>3. ~transmit
    BY <2>0 DEF transmit, FirstFree, Publish, GmacTypes
  <2>4. Transmits => i = txCur /\ txDesc'[i] = Free
    BY <2>0 DEF Transmits, GmacTypes
  <2>5. ~start_engines
    BY <2>0 DEF start_engines, Goes, ArmingOrder, Unwritten, GmacTypes
  <2>6. ~second_packet
    BY <2>0 DEF second_packet, Goes, ArmingOrder, SecondAhead, GmacTypes
  <2>7. ~(BringUp /\ ~start_engines /\ ~second_packet)
    BY DEF BringUp, dataPath, gmacTx, enable_bus_clocks, configure_phy, look_at_link,
           negotiate, soft_reset, enable_upstream_clocks, select_phy_interface,
           enable_datapath_clocks, reset_retry, reset_again, lin_mem_base, program_rings,
           arm_receive, clear_status, address_filter, mtl_queues, settle, smoltcp_up,
           ClearStatus
  <2> QED
    BY <2>1, <2>2, <2>3, <2>4, <2>5, <2>6, <2>7 DEF GmacNext
<1> QED
  BY <1>1, GmacInvInit, GmacInvStep, PTL DEF InFlightKept
=============================================================================
