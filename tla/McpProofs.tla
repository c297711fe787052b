------------------------------- MODULE McpProofs -------------------------------
(* A JSON-RPC request is read as it was written, and its id comes back as it was  *)
(* sent (Mcp).  The tree of a message says what its values are made of; the        *)
(* readers, each a loop with a cap on its depth, are shown to find just that, by   *)
(* induction over the levels that are left and the turns of the loop.              *)
EXTENDS Integers, Sequences, Mcp, LinearMemoryProofs

-----------------------------------------------------------------------------
(* Positions.                                                               *)

(* The lowest of a set of numbers is in it.                                     *)
LEMMA LowestIs ==
  ASSUME NEW P \in SUBSET Nat, P # {}
  PROVE  lowest(P) \in P /\ \A j \in P : lowest(P) <= j
  BY LeastOf DEF lowest

(* A number that is the least of a set is the lowest.                            *)
LEMMA LowestOne ==
  ASSUME NEW P \in SUBSET Nat, NEW i \in P, \A j \in P : i <= j
  PROVE  lowest(P) = i
<1>1. lowest(P) \in P /\ \A j \in P : lowest(P) <= j
  BY LowestIs
<1>2. lowest(P) \in Nat /\ i \in Nat /\ lowest(P) <= i /\ i <= lowest(P)
  BY <1>1
<1> QED
  BY <1>2

(* A text.                                                                  *)
Textual(s) == s \in Seq(Token) /\ "end" \notin Token

(* What is at a position.                                                    *)
LEMMA AtIs ==
  ASSUME NEW s, Textual(s), NEW to \in 0 .. Len(s) + 1, NEW i \in Nat \ {0}
  PROVE  /\ i < to => At(s, i, to) = s[i] /\ s[i] \in Token /\ At(s, i, to) # "end"
         /\ i >= to => At(s, i, to) = "end"
  BY DEF At, Textual

(* White space is skipped.                                                    *)
LEMMA SkipVoid ==
  ASSUME NEW s, NEW i \in Nat, NEW to \in Nat, NEW j \in i .. to, Void(s, i, j),
         At(s, j, to) # "ws"
  PROVE  skip(s, i, to) = j
<1> DEFINE P == {p \in i .. to : At(s, p, to) # "ws"}
<1>1. P \in SUBSET Nat /\ j \in P
  OBVIOUS
<1>2. ASSUME NEW p \in P PROVE j <= p
  <2>1. p \in i .. to /\ At(s, p, to) # "ws"
    OBVIOUS
  <2>2. p < j => s[p] = "ws" /\ At(s, p, to) = s[p]
    BY <2>1 DEF Void, At
  <2> QED
    BY <2>1, <2>2
<1> HIDE DEF P
<1>3. lowest(P) = j
  BY <1>1, <1>2, LowestOne
<1> QED
  BY <1>3 DEF skip, P

(* A string ends behind its closing quote.                                       *)
LEMMA StringEnds ==
  ASSUME NEW s, NEW i \in Nat, NEW to \in Nat, NEW j \in 0 .. to, Quoted(s, i, j)
  PROVE  string_end(s, i, to) = j
<1> DEFINE P == {p \in i + 1 .. to - 1 : s[p] = Quote}
<1>1. P \in SUBSET Nat /\ j - 1 \in P
  BY DEF Quoted
<1>2. ASSUME NEW p \in P PROVE j - 1 <= p
  <2>1. p \in i + 1 .. to - 1 /\ s[p] = Quote
    OBVIOUS
  <2>2. p <= j - 2 => s[p] # Quote
    BY <2>1 DEF Quoted
  <2> QED
    BY <2>1, <2>2
<1>3. string_end(s, i, to) = IF P = {} THEN Bad ELSE lowest(P) + 1
  BY DEF string_end
<1> HIDE DEF P
<1>4. lowest(P) = j - 1
  BY <1>1, <1>2, LowestOne
<1> QED
  BY <1>1, <1>3, <1>4

(* A literal ends at the next delimiter.                                        *)
LEMMA LiteralEnds ==
  ASSUME NEW s, Textual(s), NEW to \in 0 .. Len(s) + 1, NEW i \in Nat \ {0}, NEW j \in i + 1 .. to,
         \A p \in i .. j - 1 : s[p] \notin Delimiter, j < to => s[j] \in Delimiter
  PROVE  literal_end(s, i, to) = j
<1> DEFINE P == {p \in i .. to : At(s, p, to) \in Delimiter \cup {"end"}}
<1>1. j \in Nat \ {0} /\ j <= to
  OBVIOUS
<1>2. At(s, j, to) \in Delimiter \cup {"end"}
  BY <1>1, AtIs
<1>3. P \in SUBSET Nat /\ j \in P
  BY <1>1, <1>2
<1>4. ASSUME NEW p \in P PROVE j <= p
  <2>1. p \in i .. to /\ At(s, p, to) \in Delimiter \cup {"end"} /\ p \in Nat \ {0}
    OBVIOUS
  <2>2. p < j => s[p] \notin Delimiter /\ At(s, p, to) = s[p] /\ At(s, p, to) # "end"
    BY <1>1, <2>1, AtIs
  <2> QED
    BY <2>1, <2>2
<1>5. literal_end(s, i, to) = IF lowest(P) = i THEN Bad ELSE lowest(P)
  BY DEF literal_end
<1> HIDE DEF P
<1>6. lowest(P) = j
  BY <1>3, <1>4, LowestOne
<1> QED
  BY <1>5, <1>6

-----------------------------------------------------------------------------
(* Loops and levels: the recursive functions there are.                           *)

Turned(step, before) == IF before.more THEN step[before.at] ELSE before

Looped(f, i, m, step) ==
  f = [k \in 0 .. m |-> IF k = 0 THEN Onward(i) ELSE Turned(step, f[k - 1])]

(* There is a loop.                                                           *)
LEMMA SomeLoop ==
  ASSUME NEW i, NEW to \in Nat, NEW step
  PROVE  \E f : Looped(f, i, to, step)
<1> DEFINE T == {m \in 0 .. to : \E f : Looped(f, i, m, step)}
<1>1. 0 \in T
  <2> DEFINE f == [k \in 0 .. 0 |-> Onward(i)]
  <2>1. Looped(f, i, 0, step)
    BY DEF Looped
  <2> QED
    BY <2>1
<1>2. ASSUME NEW m \in 0 .. to - 1, m \in T
      PROVE  m + 1 \in T
  <2>1. PICK f : Looped(f, i, m, step)
    BY <1>2
  <2> DEFINE g == [k \in 0 .. m + 1 |-> IF k = m + 1 THEN Turned(step, f[m]) ELSE f[k]]
  <2>2. \A k \in 0 .. m : f[k] = IF k = 0 THEN Onward(i) ELSE Turned(step, f[k - 1])
    BY <2>1 DEF Looped
  <2>3. \A k \in 0 .. m : g[k] = f[k]
    OBVIOUS
  <2>4. g[m + 1] = Turned(step, f[m])
    OBVIOUS
  <2>5. ASSUME NEW k \in 0 .. m + 1
        PROVE  g[k] = IF k = 0 THEN Onward(i) ELSE Turned(step, g[k - 1])
    <3> HIDE DEF g
    <3>1. CASE k = m + 1
      <4>1. k # 0 /\ k - 1 = m /\ m \in 0 .. m
        BY <3>1
      <4> QED
        BY <2>3, <2>4, <3>1, <4>1
    <3>2. CASE k # m + 1
      <4>1. k \in 0 .. m /\ (k # 0 => k - 1 \in 0 .. m)
        BY <3>2
      <4> QED
        BY <2>2, <2>3, <4>1
    <3> QED
      BY <3>1, <3>2
  <2>6. g = [k \in 0 .. m + 1 |-> g[k]]
    OBVIOUS
  <2> HIDE DEF g
  <2>7. Looped(g, i, m + 1, step)
    BY <2>5, <2>6 DEF Looped
  <2> QED
    BY <2>7
<1> HIDE DEF T
<1>3. 0 .. to \subseteq T
  BY <1>1, <1>2, UpTo
<1> QED
  BY <1>3 DEF T

(* Loop, turn by turn, is one.                                                 *)
LEMMA LoopIs ==
  ASSUME NEW i, NEW to \in Nat, NEW step
  PROVE  /\ Loop(i, to, step)[0] = Onward(i)
         /\ \A k \in 1 .. to : Loop(i, to, step)[k] = Turned(step, Loop(i, to, step)[k - 1])
<1>1. Loop(i, to, step) = CHOOSE f : Looped(f, i, to, step)
  BY DEF Loop, Looped, Turned
<1>2. Looped(Loop(i, to, step), i, to, step)
  BY <1>1, SomeLoop
<1> DEFINE f == Loop(i, to, step)
<1> HIDE DEF f
<1>3. \A k \in 0 .. to : f[k] = IF k = 0 THEN Onward(i) ELSE Turned(step, f[k - 1])
  BY <1>2 DEF Looped, f
<1> QED
  BY <1>3 DEF f

(* Once ended, it stays so.                                                     *)
LEMMA LoopEnded ==
  ASSUME NEW i, NEW to \in Nat, NEW step, NEW k \in 0 .. to, NEW a,
         Loop(i, to, step)[k] = Ended(a)
  PROVE  Loop(i, to, step)[to].at = a
<1> DEFINE f == Loop(i, to, step)
           T == {d \in 0 .. to - k : f[k + d] = Ended(a)}
<1>1. \A j \in 1 .. to : f[j] = Turned(step, f[j - 1])
  BY LoopIs
<1> HIDE DEF f
<1>2. 0 \in T
  BY DEF f
<1>3. ASSUME NEW d \in 0 .. (to - k) - 1, d \in T
      PROVE  d + 1 \in T
  <2>1. k + (d + 1) \in 1 .. to /\ (k + (d + 1)) - 1 = k + d /\ d + 1 \in 0 .. to - k
    OBVIOUS
  <2>2. f[k + (d + 1)] = Turned(step, Ended(a))
    BY <1>1, <1>3, <2>1
  <2>3. Turned(step, Ended(a)) = Ended(a)
    BY DEF Turned, Ended
  <2> QED
    BY <2>1, <2>2, <2>3
<1> HIDE DEF T
<1>4. to - k \in Nat
  OBVIOUS
<1>5. 0 .. to - k \subseteq T
  BY <1>2, <1>3, <1>4, UpTo
<1>6. f[k + (to - k)] = Ended(a)
  BY <1>4, <1>5 DEF T
<1>7. f[to] = Ended(a)
  BY <1>6
<1> QED
  BY <1>7 DEF f, Ended

(* The ends of the values, one more level allowed each time.                      *)
NoLevel(to) == [i \in 1 .. to |-> TooDeep]

Level(s, to, inner) == [i \in 1 .. to |-> value_at(s, i, to, inner)]

Levels(f, s, to, m) ==
  f = [n \in 0 .. m |-> IF n = 0 THEN NoLevel(to) ELSE Level(s, to, f[n - 1])]

(* There are such levels.                                                      *)
LEMMA SomeLevels ==
  ASSUME NEW s, NEW to \in Nat, NEW top \in Nat
  PROVE  \E f : Levels(f, s, to, top)
<1> DEFINE T == {m \in 0 .. top : \E f : Levels(f, s, to, m)}
<1>1. 0 \in T
  <2> DEFINE f == [k \in 0 .. 0 |-> NoLevel(to)]
  <2>1. Levels(f, s, to, 0)
    BY DEF Levels
  <2> QED
    BY <2>1
<1>2. ASSUME NEW m \in 0 .. top - 1, m \in T
      PROVE  m + 1 \in T
  <2>1. PICK f : Levels(f, s, to, m)
    BY <1>2
  <2> DEFINE g == [k \in 0 .. m + 1 |-> IF k = m + 1 THEN Level(s, to, f[m]) ELSE f[k]]
  <2>2. \A k \in 0 .. m : f[k] = IF k = 0 THEN NoLevel(to) ELSE Level(s, to, f[k - 1])
    BY <2>1 DEF Levels
  <2>3. \A k \in 0 .. m : g[k] = f[k]
    OBVIOUS
  <2>4. g[m + 1] = Level(s, to, f[m])
    OBVIOUS
  <2>5. ASSUME NEW k \in 0 .. m + 1
        PROVE  g[k] = IF k = 0 THEN NoLevel(to) ELSE Level(s, to, g[k - 1])
    <3> HIDE DEF g
    <3>1. CASE k = m + 1
      <4>1. k # 0 /\ k - 1 = m /\ m \in 0 .. m
        BY <3>1
      <4> QED
        BY <2>3, <2>4, <3>1, <4>1
    <3>2. CASE k # m + 1
      <4>1. k \in 0 .. m /\ (k # 0 => k - 1 \in 0 .. m)
        BY <3>2
      <4> QED
        BY <2>2, <2>3, <4>1
    <3> QED
      BY <3>1, <3>2
  <2>6. g = [k \in 0 .. m + 1 |-> g[k]]
    OBVIOUS
  <2> HIDE DEF g
  <2>7. Levels(g, s, to, m + 1)
    BY <2>5, <2>6 DEF Levels
  <2> QED
    BY <2>7
<1> HIDE DEF T
<1>3. 0 .. top \subseteq T
  BY <1>1, <1>2, UpTo
<1> QED
  BY <1>3 DEF T

(* Ends is such levels.                                                        *)
LEMMA EndsAre ==
  ASSUME NEW s, NEW to \in Nat, MAX_DEPTH \in Nat
  PROVE  /\ Ends(s, to)[0] = NoLevel(to)
         /\ \A n \in 1 .. MAX_DEPTH + 1 : Ends(s, to)[n] = Level(s, to, Ends(s, to)[n - 1])
<1>1. Ends(s, to) = CHOOSE f : Levels(f, s, to, MAX_DEPTH + 1)
  BY DEF Ends, Levels, NoLevel, Level
<1>2. MAX_DEPTH + 1 \in Nat
  OBVIOUS
<1>3. Levels(Ends(s, to), s, to, MAX_DEPTH + 1)
  BY <1>1, <1>2, SomeLevels
<1> DEFINE f == Ends(s, to)
<1> HIDE DEF f
<1>4. \A k \in 0 .. MAX_DEPTH + 1 :
        f[k] = IF k = 0 THEN NoLevel(to) ELSE Level(s, to, f[k - 1])
  BY <1>3 DEF Levels, f
<1> QED
  BY <1>2, <1>4 DEF f

-----------------------------------------------------------------------------
(* Values.                                                                  *)

(* A text with the tree of what it holds.                                         *)
Treed(s, tree) ==
  /\ Textual(s)
  /\ \A v \in DOMAIN tree : v = <<v[1], v[2]>> /\ GoodValue(s, tree, v)

(* Where a value is, and how it starts.                                          *)
LEMMA ValueSpan ==
  ASSUME NEW s, NEW tree, Treed(s, tree), NEW v \in DOMAIN tree, NEW to \in 0 .. Len(s) + 1,
         v[2] <= to
  PROVE  /\ v[1] \in Nat \ {0} /\ v[2] \in v[1] + 1 .. Len(s) + 1 /\ v = <<v[1], v[2]>>
         /\ tree[v].items \in Seq(Item) /\ tree[v].depth \in Nat \ {0}
         /\ s[v[1]] \in Token /\ s[v[1]] \notin Delimiter
         /\ At(s, v[1], to) = s[v[1]]
<1>1. GoodValue(s, tree, v) /\ v = <<v[1], v[2]>> /\ s \in Seq(Token)
  BY DEF Treed, Textual
<1>2. /\ v[1] \in 1 .. Len(s) /\ v[2] \in v[1] + 1 .. Len(s) + 1
      /\ tree[v].items \in Seq(Item) /\ tree[v].depth \in Nat \ {0}
  BY <1>1 DEF GoodValue
<1>3. s[v[1]] \in Token /\ At(s, v[1], to) = s[v[1]]
  BY <1>1, <1>2 DEF At
<1>4. s[v[1]] \notin Delimiter
  <2>1. CASE s[v[1]] = Quote \/ s[v[1]] \in Open
    BY <2>1 DEF Quote, Open, Delimiter
  <2>2. CASE ~(s[v[1]] = Quote \/ s[v[1]] \in Open)
    <3>1. \A p \in v[1] .. v[2] - 1 : s[p] \notin Delimiter
      BY <1>1, <2>2 DEF GoodValue
    <3> QED
      BY <1>2, <3>1
  <2> QED
    BY <2>1, <2>2
<1> QED
  BY <1>1, <1>2, <1>3, <1>4

(* Item k of the value v: its slices and what is around them.                      *)
ItemAt(s, tree, v, k) ==
  LET items == tree[v].items  x == items[k]  w == <<x.from, x.to>>
  IN  /\ x \in Item /\ x.at \in Nat \ {0} /\ x.at <= x.from /\ x.from < x.to
      /\ x.to <= x.comma /\ x.comma < v[2]
      /\ s[x.at] \in Token /\ s[x.at] \notin Delimiter /\ s[x.from] \notin Delimiter
      /\ w \in DOMAIN tree /\ tree[w].depth \in Nat \ {0} /\ tree[w].depth < tree[v].depth
      /\ s[v[1]] = "{" => Keyed(s, x) /\ x.at + 2 <= x.end /\ x.end <= x.colon
                          /\ x.colon < x.from
      /\ s[v[1]] # "{" => x.from = x.at
      /\ Void(s, x.to, x.comma) /\ s[x.comma] \notin {"ws", "end"}
      /\ k = Len(items) => x.comma = v[2] - 1 /\ s[x.comma] = Close(s[v[1]])
      /\ k # Len(items) => s[x.comma] = "," /\ Void(s, x.comma + 1, items[k + 1].at)
      /\ k = 1 => Void(s, v[1] + 1, x.at)
      /\ k # 1 => items[k - 1].comma < x.at

LEMMA ItemIs ==
  ASSUME NEW s, NEW tree, Treed(s, tree), NEW v \in DOMAIN tree,
         NEW k \in DOMAIN tree[v].items
  PROVE  s[v[1]] \in Open /\ ItemAt(s, tree, v, k)
<1> DEFINE items == tree[v].items
           x == items[k]
           w == <<x.from, x.to>>
<1>1. GoodValue(s, tree, v) /\ s \in Seq(Token) /\ "end" \notin Token
  BY DEF Treed, Textual
<1>2. /\ v[1] \in 1 .. Len(s) /\ v[2] \in v[1] + 1 .. Len(s) + 1
      /\ items \in Seq(Item) /\ tree[v].depth \in Nat \ {0}
  BY <1>1 DEF GoodValue
<1>3. s[v[1]] \in Open /\ Boxed(s, v[1], v[2], items)
  <2>1. items # << >>
    BY <1>2
  <2> QED
    BY <1>1, <2>1 DEF GoodValue, Quote, Open
<1>8. k \in 1 .. Len(items)
  BY <1>2
<1>4. x \in Item
  <2> HIDE DEF items
  <2> QED
    BY <1>2, <1>8
<1>5. /\ x.at \in Nat /\ x.end \in Nat /\ x.colon \in Nat
      /\ x.from \in Nat /\ x.to \in Nat /\ x.comma \in Nat
      /\ w \in DOMAIN tree /\ tree[w].depth < tree[v].depth /\ w[1] = x.from /\ w[2] = x.to
  <2>1. w \in DOMAIN tree /\ tree[w].depth < tree[v].depth
    BY <1>1 DEF GoodValue
  <2> HIDE DEF x
  <2> QED
    BY <1>4, <2>1 DEF Item
<1>6. /\ x.from \in Nat \ {0} /\ x.to \in x.from + 1 .. Len(s) + 1 /\ tree[w].depth \in Nat \ {0}
      /\ s[x.from] \in Token /\ s[x.from] \notin Delimiter
  <2> HIDE DEF x, w
  <2>1. GoodValue(s, tree, w)
    BY <1>5 DEF Treed
  <2>2. w[2] \in 0 .. Len(s) + 1
    BY <2>1, <1>1 DEF GoodValue
  <2> QED
    BY <1>5, <2>2, ValueSpan
<1>7. /\ Void(s, (IF k = 1 THEN v[1] ELSE items[k - 1].comma) + 1, x.at)
      /\ IF s[v[1]] = "{" THEN Keyed(s, x) ELSE x.from = x.at
      /\ x.from < x.to /\ Void(s, x.to, x.comma) /\ x.comma < v[2]
      /\ IF k = Len(items) THEN x.comma = v[2] - 1 ELSE s[x.comma] = ","
  BY <1>3 DEF Boxed
<1>b. \A p \in DOMAIN items : p # 1 => Void(s, items[p - 1].comma + 1, items[p].at)
  <2>1. \A p \in DOMAIN items :
          Void(s, (IF p = 1 THEN v[1] ELSE items[p - 1].comma) + 1, items[p].at)
    BY <1>3 DEF Boxed
  <2> QED
    BY <2>1, Zenon
<1>x. x = items[k]
  OBVIOUS
<1>w. w = <<x.from, x.to>>
  OBVIOUS
<1>i. items = tree[v].items
  OBVIOUS
<1> HIDE DEF items, x, w
<1>v. \A i, j : Void(s, i, j) => i <= j
  BY DEF Void
<1>c. /\ k = 1 => Void(s, v[1] + 1, x.at)
      /\ k # 1 => Void(s, items[k - 1].comma + 1, x.at)
  BY <1>7
<1>9. k # 1 => items[k - 1].comma \in Nat /\ items[k - 1].comma < x.at
  <2>1. SUFFICES ASSUME k # 1 PROVE items[k - 1].comma \in Nat /\ items[k - 1].comma < x.at
    OBVIOUS
  <2>2. items[k - 1] \in Item
    BY <1>2, <1>8, <2>1
  <2>3. items[k - 1].comma \in Nat
    BY <2>2 DEF Item
  <2> QED
    BY <1>5, <1>c, <1>v, <2>1, <2>3
<1>10. x.at \in Nat \ {0} /\ (k = 1 => Void(s, v[1] + 1, x.at))
  <2>1. CASE k = 1
    <3>1. v[1] + 1 <= x.at /\ v[1] \in Nat
      BY <1>2, <1>c, <1>v, <2>1
    <3> QED
      BY <1>5, <1>c, <2>1, <3>1
  <2>2. CASE k # 1
    BY <1>5, <1>9, <2>2
  <2> QED
    BY <2>1, <2>2
<1>11. s[v[1]] = "{" => /\ x.at + 2 <= x.end /\ x.end <= x.colon /\ x.colon < x.from
                       /\ s[x.at] = Quote
  <2>1. SUFFICES ASSUME s[v[1]] = "{"
                 PROVE  /\ x.at + 2 <= x.end /\ x.end <= x.colon /\ x.colon < x.from
                        /\ s[x.at] = Quote
    OBVIOUS
  <2>2. Keyed(s, x)
    BY <1>7, <2>1
  <2>3. x.at + 2 <= x.end /\ s[x.at] = Quote /\ x.end <= x.colon /\ x.colon + 1 <= x.from
    BY <2>2 DEF Keyed, Quoted, Void
  <2> QED
    BY <1>5, <2>3
<1>12. x.at <= x.from /\ s[x.at] \in Token /\ s[x.at] \notin Delimiter
  <2>1. CASE s[v[1]] = "{"
    <3>0. Len(s) \in Nat
      BY <1>1
    <3>1. x.at \in 1 .. Len(s) /\ x.at <= x.from
      <4>1. x.at + 2 <= x.end /\ x.end <= x.colon /\ x.colon < x.from
        BY <1>11, <2>1
      <4>2. x.at < x.from /\ x.at # 0 /\ x.from < Len(s) + 1
        BY <1>5, <1>6, <1>10, <4>1, <3>0
      <4> QED
        BY <1>5, <4>2, <3>0
    <3>2. s[x.at] \in Token
      BY <1>1, <3>1
    <3> QED
      BY <1>11, <2>1, <3>1, <3>2 DEF Quote, Delimiter
  <2>2. CASE s[v[1]] # "{"
    <3>1. x.from = x.at
      BY <1>7, <2>2
    <3> QED
      BY <1>5, <1>6, <3>1
  <2> QED
    BY <2>1, <2>2
<1>13. s[v[2] - 1] = Close(s[v[1]]) /\ Close(s[v[1]]) \in {"}", "]"}
  BY <1>3 DEF Boxed, Close
<1>14. k # Len(items) => Void(s, x.comma + 1, items[k + 1].at)
  <2>1. SUFFICES ASSUME k # Len(items) PROVE Void(s, x.comma + 1, items[k + 1].at)
    OBVIOUS
  <2>2. k + 1 \in DOMAIN items /\ k + 1 # 1 /\ (k + 1) - 1 = k
    BY <1>2, <1>8, <2>1
  <2>3. Void(s, items[(k + 1) - 1].comma + 1, items[k + 1].at)
    BY <1>b, <2>2
  <2> QED
    BY <1>x, <2>2, <2>3
<1>15. s[x.comma] \notin {"ws", "end"} /\ x.to <= x.comma
  BY <1>5, <1>7, <1>13 DEF Void
<1>16. ItemAt(s, tree, v, k)
  BY <1>4, <1>5, <1>6, <1>7, <1>9, <1>10, <1>11, <1>12, <1>13, <1>14, <1>15 DEF ItemAt, items, x, w
<1> QED
  BY <1>3, <1>16

-----------------------------------------------------------------------------
(* One level.                                                               *)

(* inner reads the values up to n levels deep, and is stopped by those that are       *)
(* deeper; and it reads the keys, unless it reads nothing.                         *)
Reads(s, tree, to, inner, n) ==
  /\ \A v \in DOMAIN tree : v[2] <= to =>
       inner[v[1]] = IF tree[v].depth <= n THEN v[2] ELSE TooDeep
  /\ \A i, j \in 1 .. to : Quoted(s, i, j) => inner[i] = IF n = 0 THEN TooDeep ELSE j

(* An item that is well placed in an array or an object, and what inner, with n levels   *)
(* left, makes of it, d levels deep.                                             *)
Placed(s, x, to, open) ==
  /\ x \in Item /\ x.at # 0 /\ x.at <= x.from /\ x.from < x.to /\ x.to <= x.comma
  /\ x.comma < to /\ s[x.at] \notin Delimiter /\ s[x.from] \notin Delimiter
  /\ open = "{" => Keyed(s, x) /\ x.at + 2 <= x.end /\ x.end <= x.colon /\ x.colon < x.from
  /\ open # "{" => x.from = x.at
  /\ Void(s, x.to, x.comma) /\ s[x.comma] \notin {"ws", "end"}

Heard(x, open, inner, n, d) ==
  /\ open = "{" => inner[x.at] = IF n = 0 THEN TooDeep ELSE x.end
  /\ inner[x.from] = IF d <= n THEN x.to ELSE TooDeep

(* One turn over it: what comes behind it counts, unless it is too deep.             *)
TurnsInto(e, s, x, to, open, n, d) ==
  /\ d > n => e = Ended(TooDeep)
  /\ ~(d > n) /\ s[x.comma] = "," => e = Onward(skip(s, x.comma + 1, to))
  /\ ~(d > n) /\ s[x.comma] # "," /\ s[x.comma] = Close(open) => e = Ended(x.comma + 1)

LEMMA OneElement ==
  ASSUME NEW s, Textual(s), NEW to \in 0 .. Len(s) + 1, NEW open \in Open, NEW inner,
         NEW n \in Nat, NEW d \in Nat \ {0}, NEW x,
         Placed(s, x, to, open), Heard(x, open, inner, n, d)
  PROVE  TurnsInto(element(s, x.at, to, open, inner), s, x, to, open, n, d)
<1> DEFINE key   == IF open = "{" THEN inner[x.at] ELSE x.at
           colon == skip(s, key, to)
           from  == IF open = "{" THEN skip(s, colon + 1, to) ELSE x.at
           value == inner[from]
           after == skip(s, value, to)
<1>1. element(s, x.at, to, open, inner) =
        IF At(s, x.at, to) = Close(open) THEN Ended(x.at + 1)
        ELSE IF At(s, x.at, to) = "end" THEN Ended(Bad)
        ELSE IF key < 0 THEN Ended(key)
        ELSE IF open = "{" /\ At(s, colon, to) # ":" THEN Ended(Bad)
        ELSE IF value < 0 THEN Ended(value)
        ELSE IF At(s, after, to) = "," THEN Onward(skip(s, after + 1, to))
        ELSE IF At(s, after, to) = Close(open) THEN Ended(after + 1)
        ELSE Ended(Bad)
  BY DEF element
<1> HIDE DEF key, colon, from, value, after
<1>3. to \in Nat /\ Len(s) \in Nat
  BY DEF Textual
<1>4. /\ x.at \in Nat \ {0} /\ x.end \in Nat /\ x.colon \in Nat
      /\ x.from \in Nat /\ x.to \in Nat /\ x.comma \in Nat
      /\ x.at <= x.from /\ x.from < x.to /\ x.to <= x.comma /\ x.comma < to
  BY DEF Item, Placed
<1>5. s[x.at] \notin Delimiter /\ s[x.from] \notin Delimiter /\ Void(s, x.to, x.comma)
      /\ s[x.comma] # "ws"
  BY DEF Placed
<1>6. At(s, x.at, to) # Close(open) /\ At(s, x.at, to) # "end"
  <2>1. Close(open) \in Delimiter
    BY DEF Close, Delimiter
  <2>2. x.at < to
    BY <1>3, <1>4
  <2>3. At(s, x.at, to) = s[x.at] /\ At(s, x.at, to) # "end"
    BY <1>4, <2>2, AtIs
  <2> QED
    BY <1>5, <2>1, <2>3
<1>8. ASSUME open = "{"
      PROVE  /\ key = IF n = 0 THEN TooDeep ELSE x.end
             /\ n # 0 => colon = x.colon /\ At(s, colon, to) = ":" /\ from = x.from
  <2>3. /\ Quoted(s, x.at, x.end) /\ Void(s, x.end, x.colon) /\ s[x.colon] = ":"
        /\ Void(s, x.colon + 1, x.from) /\ x.end <= x.colon /\ x.colon < x.from
    <3>1. Keyed(s, x) /\ x.end <= x.colon /\ x.colon < x.from
      BY <1>8, Zenon DEF Placed
    <3> QED
      BY <3>1, Zenon DEF Keyed
  <2>4. /\ x.end \in Nat /\ x.colon \in x.end .. to /\ x.from \in x.colon + 1 .. to
        /\ x.colon < to /\ x.from < to /\ x.colon + 1 \in Nat
    <3> DEFINE b == x.end
               c == x.colon
               f == x.from
    <3>1. b <= c /\ c < f
      BY <2>3, Zenon
    <3>2. b \in Nat /\ c \in Nat /\ f \in Nat /\ f < to
      BY <1>3, <1>4
    <3> HIDE DEF b, c, f
    <3>3. b \in Nat /\ c \in b .. to /\ f \in c + 1 .. to /\ c < to /\ f < to /\ c + 1 \in Nat
      BY <1>3, <3>1, <3>2
    <3> QED
      BY <3>3 DEF b, c, f
  <2>5. key = IF n = 0 THEN TooDeep ELSE x.end
    BY <1>8 DEF key, Heard
  <2>6. ASSUME n # 0 PROVE colon = x.colon /\ At(s, colon, to) = ":" /\ from = x.from
    <3>1. At(s, x.colon, to) = ":"
      BY <2>3, <2>4 DEF At
    <3>2. skip(s, x.end, to) = x.colon
      BY <1>3, <2>3, <2>4, <3>1, SkipVoid
    <3>3. colon = x.colon
      BY <2>5, <2>6, <3>2 DEF colon
    <3>4. At(s, x.from, to) # "ws"
      BY <1>5, <2>4 DEF At, Delimiter
    <3>6. skip(s, x.colon + 1, to) = x.from
      BY <1>3, <2>3, <2>4, <3>4, SkipVoid
    <3> QED
      BY <1>8, <3>1, <3>3, <3>6 DEF from
  <2> QED
    BY <2>5, <2>6
<1>9. ASSUME open # "{" PROVE key = x.at /\ from = x.from
  BY <1>9 DEF key, from, Placed
<1>n. n \in Nat /\ d \in Nat \ {0} /\ (d > n <=> ~(d <= n))
  OBVIOUS
<1>10. CASE d > n
  <2>1. CASE open = "{" /\ n = 0
    <3>1. key = TooDeep
      BY <1>8, <2>1
    <3>2. key < 0
      BY <3>1 DEF TooDeep
    <3> QED
      BY <1>1, <1>6, <1>10, <3>1, <3>2, Zenon DEF TurnsInto
  <2>2. CASE ~(open = "{" /\ n = 0)
    <3>1. from = x.from /\ (open = "{" => At(s, colon, to) = ":")
      BY <1>8, <1>9, <2>2
    <3>2. key = x.end \/ key = x.at
      BY <1>8, <1>9, <2>2
    <3>3. ~(key < 0)
      BY <1>4, <3>2
    <3>4. value = TooDeep
      BY <1>n, <1>10, <3>1, Zenon DEF value, Heard
    <3>5. value < 0
      BY <3>4 DEF TooDeep
    <3> QED
      BY <1>1, <1>6, <1>10, <3>1, <3>3, <3>4, <3>5, Zenon DEF TurnsInto
  <2> QED
    BY <2>1, <2>2, Zenon
<1>11. CASE ~(d > n)
  <2>0. d <= n /\ n # 0
    BY <1>n, <1>11
  <2>1. from = x.from /\ (open = "{" => At(s, colon, to) = ":")
    BY <1>8, <1>9, <2>0
  <2>2. key = x.end \/ key = x.at
    BY <1>8, <1>9, <2>0
  <2>3. ~(key < 0)
    BY <1>4, <2>2
  <2>4. value = x.to
    BY <2>0, <2>1, Zenon DEF value, Heard
  <2>5. ~(value < 0)
    BY <1>4, <2>4
  <2>6. At(s, x.comma, to) = s[x.comma] /\ x.comma \in x.to .. to
    BY <1>3, <1>4 DEF At
  <2>7. At(s, x.comma, to) # "ws"
    BY <1>5, <2>6
  <2>8. after = x.comma
    BY <1>3, <1>4, <1>5, <2>4, <2>6, <2>7, SkipVoid DEF after
  <2> QED
    BY <1>1, <1>6, <1>11, <2>1, <2>3, <2>5, <2>6, <2>8, Zenon DEF TurnsInto
<1> QED
  BY <1>10, <1>11, Zenon

(* Item k of v is well placed.                                                  *)
LEMMA ItemPlaced ==
  ASSUME NEW s, NEW tree, Treed(s, tree), NEW v \in DOMAIN tree, NEW to \in 0 .. Len(s) + 1,
         v[2] <= to, NEW k \in DOMAIN tree[v].items, NEW x, x = tree[v].items[k]
  PROVE  /\ Placed(s, x, to, s[v[1]])
         /\ <<x.from, x.to>> \in DOMAIN tree /\ x.to <= to
         /\ tree[<<x.from, x.to>>].depth \in Nat \ {0}
         /\ x.at < v[2] /\ x.comma < v[2] /\ x.at < x.comma
<1>1. ItemAt(s, tree, v, k)
  BY ItemIs
<1>2. v[2] \in Nat /\ Len(s) \in Nat /\ to \in Nat
  <2>1. s \in Seq(Token)
    BY DEF Treed, Textual
  <2> QED
    BY <2>1, ValueSpan
<1>3. x.at \in Nat /\ x.from \in Nat /\ x.to \in Nat /\ x.comma \in Nat
  BY <1>1 DEF ItemAt, Item
<1>4. x.at <= x.from /\ x.from < x.to /\ x.to <= x.comma /\ x.comma < v[2]
  <2> DEFINE y == tree[v].items[k]
  <2>1. y.at <= y.from /\ y.from < y.to /\ y.to <= y.comma /\ y.comma < v[2]
    BY <1>1, Zenon DEF ItemAt
  <2> HIDE DEF y
  <2>2. x = y
    BY DEF y
  <2> QED
    BY <2>1, <2>2, Zenon
<1>5. x.comma < to /\ x.to <= to /\ x.at < v[2] /\ x.at < x.comma
  BY <1>2, <1>3, <1>4
<1> QED
  BY <1>1, <1>4, <1>5 DEF ItemAt, Placed

(* It reads an item like that.                                                  *)
LEMMA ItemHeard ==
  ASSUME NEW s, NEW tree, NEW to \in Nat, NEW inner, NEW n \in Nat, NEW open, NEW x, NEW d,
         Reads(s, tree, to, inner, n), Placed(s, x, to, open),
         <<x.from, x.to>> \in DOMAIN tree, d = tree[<<x.from, x.to>>].depth, x.to <= to
  PROVE  Heard(x, open, inner, n, d)
<1> DEFINE w == <<x.from, x.to>>
<1>1. w[1] = x.from /\ w[2] = x.to
  OBVIOUS
<1>2. inner[w[1]] = IF tree[w].depth <= n THEN w[2] ELSE TooDeep
  <2> HIDE DEF w
  <2>1. w \in DOMAIN tree /\ w[2] <= to
    BY <1>1 DEF w
  <2> QED
    BY <2>1 DEF Reads
<1> HIDE DEF w
<1>3. inner[x.from] = IF d <= n THEN x.to ELSE TooDeep
  BY <1>1, <1>2, Zenon DEF w
<1>4. ASSUME open = "{" PROVE inner[x.at] = IF n = 0 THEN TooDeep ELSE x.end
  <2>1. Quoted(s, x.at, x.end) /\ x.at + 2 <= x.end /\ x.end <= x.colon /\ x.colon < x.from
    BY <1>4 DEF Placed, Keyed
  <2>2. /\ x.at \in Nat /\ x.end \in Nat /\ x.colon \in Nat /\ x.from \in Nat /\ x.to \in Nat
        /\ x.comma \in Nat /\ x.at # 0 /\ x.from < x.to
    BY DEF Placed, Item
  <2>3. x.at \in 1 .. to /\ x.end \in 1 .. to
    BY <2>1, <2>2
  <2> QED
    BY <2>1, <2>3 DEF Reads
<1> QED
  BY <1>3, <1>4 DEF Heard

(* Where turn k over the items of v ends up, when all until then could be read.        *)
Depth(tree, x) == tree[<<x.from, x.to>>].depth

LEMMA ElementRead ==
  ASSUME NEW s, NEW tree, Treed(s, tree), NEW to \in 0 .. Len(s) + 1, NEW n \in Nat, NEW inner,
         Reads(s, tree, to, inner, n), NEW v \in DOMAIN tree, v[2] <= to,
         NEW k \in DOMAIN tree[v].items, NEW x, x = tree[v].items[k]
  PROVE  /\ Depth(tree, x) > n => element(s, x.at, to, s[v[1]], inner) = Ended(TooDeep)
         /\ ~(Depth(tree, x) > n) /\ k = Len(tree[v].items) =>
              element(s, x.at, to, s[v[1]], inner) = Ended(v[2])
         /\ ~(Depth(tree, x) > n) /\ k # Len(tree[v].items) =>
              element(s, x.at, to, s[v[1]], inner) = Onward(tree[v].items[k + 1].at)
<1> DEFINE open == s[v[1]]
           d    == Depth(tree, x)
           e    == element(s, x.at, to, open, inner)
           next == tree[v].items[k + 1].at
           z    == v[2]
<1>1. open \in Open /\ ItemAt(s, tree, v, k)
  BY ItemIs
<1>2. /\ Placed(s, x, to, open) /\ <<x.from, x.to>> \in DOMAIN tree /\ x.to <= to
      /\ d \in Nat \ {0} /\ x.comma < z
  BY ItemPlaced DEF Depth
<1>3. to \in Nat /\ z \in Nat /\ z <= to /\ s \in Seq(Token) /\ Textual(s)
  <2>1. s \in Seq(Token) /\ Textual(s)
    BY DEF Treed, Textual
  <2> QED
    BY <2>1, ValueSpan
<1>4. Heard(x, open, inner, n, d)
  BY <1>2, <1>3, ItemHeard DEF Depth
<1>5. x.comma \in Nat /\ x.comma + 1 \in Nat
  <2>1. x \in Item
    BY <1>2 DEF Placed
  <2>2. x.comma \in Nat
    BY <2>1 DEF Item
  <2> QED
    BY <2>2
<1> HIDE DEF d, open, e, z
<1>5t. TurnsInto(e, s, x, to, open, n, d)
  <2>1. n \in Nat /\ to \in 0 .. Len(s) + 1 /\ d \in Nat \ {0} /\ Placed(s, x, to, open)
    BY <1>2
  <2> QED
    BY <1>1, <2>1, <1>3, <1>4, OneElement, Zenon DEF e
<1>6. /\ d > n => e = Ended(TooDeep)
      /\ ~(d > n) /\ s[x.comma] = "," => e = Onward(skip(s, x.comma + 1, to))
      /\ ~(d > n) /\ s[x.comma] # "," /\ s[x.comma] = Close(open) => e = Ended(x.comma + 1)
  BY <1>5t, Zenon DEF TurnsInto
<1>8. ASSUME ~(d > n), k = Len(tree[v].items) PROVE e = Ended(z)
  <2>1. x.comma = z - 1 /\ s[x.comma] = Close(open)
    BY <1>1, <1>8 DEF ItemAt, z, open
  <2>2. s[x.comma] # ","
    BY <2>1 DEF Close
  <2>3. x.comma + 1 = z
    BY <1>3, <1>5, <2>1
  <2> QED
    BY <1>6, <1>8, <2>1, <2>2, <2>3, Zenon
<1>9. ASSUME ~(d > n), k # Len(tree[v].items) PROVE e = Onward(next)
  <2>1. s[x.comma] = "," /\ Void(s, x.comma + 1, next)
    BY <1>1, <1>9 DEF ItemAt
  <2>2. k + 1 \in DOMAIN tree[v].items /\ k \in Nat
    BY <1>9, ValueSpan DEF z
  <2> DEFINE y == tree[v].items[k + 1]
  <2>3. Placed(s, y, to, open) /\ y.at < z
    BY <2>2, ItemPlaced DEF open, z
  <2> HIDE DEF y
  <2>4. y.at \in Nat /\ s[y.at] \notin Delimiter
    BY <2>3 DEF Placed, Item
  <2>5. next = y.at
    BY DEF y
  <2> HIDE DEF next
  <2>6. next \in Nat /\ next < to /\ s[next] \notin Delimiter
    BY <1>3, <2>3, <2>4, <2>5
  <2>7. x.comma + 1 <= next
    BY <2>1, Zenon DEF Void
  <2>8. next \in x.comma + 1 .. to
    BY <1>3, <1>5, <2>6, <2>7
  <2>9. At(s, next, to) # "ws"
    BY <2>6 DEF At, Delimiter
  <2>10. skip(s, x.comma + 1, to) = next
    BY <1>3, <1>5, <2>1, <2>8, <2>9, SkipVoid
  <2> QED
    BY <1>6, <1>9, <2>1, <2>10, Zenon
<1> QED
  BY <1>6, <1>8, <1>9, Zenon DEF d, e, open, z

(* There are no more items than positions.                                       *)
LEMMA FewItems ==
  ASSUME NEW s, NEW tree, Treed(s, tree), NEW v \in DOMAIN tree, NEW to \in 0 .. Len(s) + 1,
         v[2] <= to
  PROVE  Len(tree[v].items) \in 0 .. to - 1
<1> DEFINE items == tree[v].items
           L == Len(items)
           T == {k \in 0 .. L : k = 0 \/ items[k].comma >= k}
           z == v[2]
<1>1. items \in Seq(Item) /\ L \in Nat /\ DOMAIN items = 1 .. L
  BY ValueSpan
<1>2. z \in Nat /\ to \in Nat /\ z <= to /\ z > 0
  <2>1. s \in Seq(Token)
    BY DEF Treed, Textual
  <2> QED
    BY <2>1, ValueSpan
<1>3. \A k \in DOMAIN items : /\ items[k].comma \in Nat /\ items[k].comma < z
                              /\ k # 1 => items[k - 1].comma < items[k].comma
                              /\ items[k].comma # 0
  <2> TAKE k \in DOMAIN items
  <2> DEFINE x == items[k]
  <2>1. ItemAt(s, tree, v, k)
    BY ItemIs
  <2>2. x \in Item /\ x.at # 0 /\ x.at <= x.from /\ x.from < x.to /\ x.to <= x.comma /\ x.comma < z
    BY <2>1 DEF ItemAt
  <2>3. k # 1 => items[k - 1].comma < x.at
    BY <2>1 DEF ItemAt
  <2> HIDE DEF x
  <2>4. x.at \in Nat /\ x.from \in Nat /\ x.to \in Nat /\ x.comma \in Nat
    BY <2>2 DEF Item
  <2>5. x.at < x.comma /\ x.comma # 0
    BY <2>2, <2>4
  <2>6. ASSUME k # 1 PROVE items[k - 1].comma < x.comma
    <3>1. k - 1 \in DOMAIN items
      BY <1>1, <2>6
    <3>2. items[k - 1] \in Item
      BY <1>1, <3>1
    <3>3. items[k - 1].comma \in Nat
      BY <3>2 DEF Item
    <3> QED
      BY <2>3, <2>4, <2>5, <2>6, <3>3
  <2> QED
    BY <2>2, <2>4, <2>5, <2>6 DEF x
<1> HIDE DEF items, L, z
<1>4. 0 \in T
  BY <1>1
<1>5. ASSUME NEW k \in 0 .. L - 1, k \in T PROVE k + 1 \in T
  <2>1. k + 1 \in DOMAIN items /\ (k + 1) - 1 = k
    BY <1>1
  <2>2. items[k + 1].comma \in Nat /\ items[k + 1].comma # 0
        /\ (k + 1 # 1 => items[k].comma < items[k + 1].comma)
    BY <1>3, <2>1
  <2>3. k # 0 => k \in DOMAIN items /\ items[k].comma \in Nat /\ items[k].comma >= k
    BY <1>1, <1>3, <1>5
  <2>4. items[k + 1].comma >= k + 1
    BY <2>2, <2>3
  <2> QED
    BY <1>1, <2>4
<1> HIDE DEF T
<1>6. 0 .. L \subseteq T
  BY <1>1, <1>4, <1>5, UpTo
<1>7. L = 0 \/ items[L].comma >= L
  BY <1>1, <1>6 DEF T
<1>8. L <= to - 1
  <2>1. CASE L = 0
    BY <1>2, <2>1
  <2>2. CASE L # 0
    <3>1. L \in DOMAIN items
      BY <1>1, <2>2
    <3> QED
      BY <1>1, <1>2, <1>3, <1>7, <2>2, <3>1
  <2> QED
    BY <2>1, <2>2
<1> QED
  BY <1>1, <1>2, <1>8 DEF L, items

(* Where the items of v start, and that nothing else is in it when there are none.      *)
LEMMA ItemsStart ==
  ASSUME NEW s, NEW tree, Treed(s, tree), NEW v \in DOMAIN tree, NEW to \in 0 .. Len(s) + 1,
         s[v[1]] \in Open,
         IF tree[v].items = << >> THEN v[2] - 1 <= to ELSE tree[v].items[1].at < to
  PROVE  skip(s, v[1] + 1, to) = IF tree[v].items = << >> THEN v[2] - 1 ELSE tree[v].items[1].at
<1> DEFINE items == tree[v].items
           i == v[1]
           j == v[2]
<1>1. GoodValue(s, tree, v) /\ s \in Seq(Token) /\ "end" \notin Token
  BY DEF Treed, Textual
<1>2. i \in 1 .. Len(s) /\ j \in i + 1 .. Len(s) + 1 /\ items \in Seq(Item)
  BY <1>1 DEF GoodValue
<1>3. Boxed(s, i, j, items)
  BY <1>1 DEF GoodValue, Quote, Open
<1> HIDE DEF i, j
<1>4. i + 2 <= j /\ s[j - 1] = Close(s[i]) /\ (items = << >> => Void(s, i + 1, j - 1))
  BY <1>3 DEF Boxed
<1>5. to \in Nat /\ i \in Nat /\ j \in Nat /\ i + 1 \in Nat
  BY <1>1, <1>2
<1>6. CASE items = << >>
  <2>1. j - 1 \in i + 1 .. to
    BY <1>4, <1>5, <1>6 DEF j
  <2>2. At(s, j - 1, to) # "ws"
    BY <1>4, <1>5, <2>1 DEF At, Close
  <2>3. skip(s, i + 1, to) = j - 1
    BY <1>4, <1>5, <1>6, <2>1, <2>2, SkipVoid
  <2> QED
    BY <1>6, <2>3 DEF i, j
<1>7. CASE items # << >>
  <2> DEFINE x == items[1]
  <2>1. 1 \in DOMAIN items
    BY <1>2, <1>7
  <2>2. ItemAt(s, tree, v, 1)
    BY <2>1, ItemIs
  <2>3. x \in Item /\ Void(s, i + 1, x.at) /\ s[x.at] \notin Delimiter /\ x.at < to
    BY <1>7, <2>2 DEF ItemAt, i
  <2> HIDE DEF x
  <2>4. x.at \in Nat /\ i + 1 <= x.at
    BY <2>3 DEF Item, Void
  <2>5. x.at \in i + 1 .. to
    BY <1>5, <2>3, <2>4
  <2>6. At(s, x.at, to) # "ws"
    BY <2>3 DEF At, Delimiter
  <2>7. skip(s, i + 1, to) = x.at
    BY <1>5, <2>3, <2>5, <2>6, SkipVoid
  <2> QED
    BY <1>7, <2>7 DEF x, i
<1> QED
  BY <1>6, <1>7

(* A loop that goes from item to item ends at the first that stops it.             *)
Stopped(items, L, step, i, Stop, a) ==
  /\ Stop \subseteq 1 .. L /\ L \in Stop /\ i = items[1].at
  /\ \A k \in 1 .. L : k \notin Stop => step[items[k].at] = Onward(items[k + 1].at)
  /\ \A k \in Stop : step[items[k].at] = Ended(a[k])

LEMMA LoopStops ==
  ASSUME NEW items, NEW L \in Nat, NEW to \in Nat, L <= to, NEW step, NEW i, NEW Stop, NEW a,
         Stopped(items, L, step, i, Stop, a)
  PROVE  Loop(i, to, step)[to].at = a[lowest(Stop)]
<1> DEFINE f == Loop(i, to, step)
           m == lowest(Stop)
           T == {k \in 0 .. m - 1 : f[k] = Onward(items[k + 1].at)}
<1>0. /\ Stop \subseteq 1 .. L /\ L \in Stop /\ i = items[1].at
      /\ \A k \in 1 .. L : k \notin Stop => step[items[k].at] = Onward(items[k + 1].at)
      /\ \A k \in Stop : step[items[k].at] = Ended(a[k])
  BY DEF Stopped
<1>1. Stop \in SUBSET Nat /\ Stop # {}
  BY <1>0
<1>2. m \in Stop /\ (\A j \in Stop : m <= j) /\ m \in 1 .. L
  BY <1>0, <1>1, LowestIs
<1>3. f[0] = Onward(i) /\ \A k \in 1 .. to : f[k] = Turned(step, f[k - 1])
  BY LoopIs
<1> HIDE DEF f, m
<1>4. 0 \in T
  BY <1>0, <1>2, <1>3
<1>5. ASSUME NEW k \in 0 .. (m - 1) - 1, k \in T PROVE k + 1 \in T
  <2>1. k + 1 \in 1 .. L /\ k + 1 \in 1 .. to /\ (k + 1) - 1 = k /\ k + 1 \in 0 .. m - 1
    BY <1>2
  <2>2. k + 1 \notin Stop
    BY <1>2, <2>1
  <2>3. f[k + 1] = Turned(step, Onward(items[k + 1].at))
    BY <1>3, <1>5, <2>1
  <2>4. Turned(step, Onward(items[k + 1].at)) = step[items[k + 1].at]
    BY DEF Turned, Onward
  <2>5. step[items[k + 1].at] = Onward(items[(k + 1) + 1].at)
    BY <1>0, <2>1, <2>2
  <2> QED
    BY <2>1, <2>3, <2>4, <2>5
<1> HIDE DEF T
<1>6. m - 1 \in Nat
  BY <1>2
<1>7. 0 .. m - 1 \subseteq T
  BY <1>4, <1>5, <1>6, UpTo
<1>8. m - 1 \in T /\ m \in 1 .. to /\ m \in 0 .. to /\ (m - 1) + 1 = m
  BY <1>2, <1>6, <1>7
<1>9. f[m - 1] = Onward(items[m].at)
  BY <1>8 DEF T
<1>10. f[m] = Turned(step, Onward(items[m].at))
  BY <1>3, <1>8, <1>9
<1>11. f[m] = step[items[m].at]
  BY <1>10 DEF Turned, Onward
<1>12. f[m] = Ended(a[m])
  BY <1>0, <1>2, <1>11
<1>13. Loop(i, to, step)[to].at = a[m]
  BY <1>8, <1>12, LoopEnded DEF f
<1> QED
  BY <1>13 DEF m

(* An array or an object is read to its end, or to the first value that is too deep.     *)
LEMMA ElementsRead ==
  ASSUME NEW s, NEW tree, Treed(s, tree), NEW to \in 0 .. Len(s) + 1, NEW n \in Nat, NEW inner,
         Reads(s, tree, to, inner, n), NEW v \in DOMAIN tree, v[2] <= to, s[v[1]] \in Open
  PROVE  elements(s, v[1], to, inner)
           = IF tree[v].depth <= n + 1 THEN v[2] ELSE TooDeep
<1> DEFINE items == tree[v].items
           L == Len(items)
           open == s[v[1]]
           i == v[1]
           j == v[2]
           start == skip(s, i + 1, to)
           step == [at \in 1 .. to |-> element(s, at, to, open, inner)]
           d(k) == Depth(tree, items[k])
<1>1. elements(s, i, to, inner) = Loop(start, to, step)[to].at
  BY DEF elements
<1>2. /\ i \in Nat \ {0} /\ j \in i + 1 .. Len(s) + 1 /\ items \in Seq(Item)
      /\ tree[v].depth \in Nat \ {0} /\ to \in Nat /\ L \in 0 .. to - 1 /\ s \in Seq(Token)
  <2>1. s \in Seq(Token)
    BY DEF Treed, Textual
  <2> QED
    BY <2>1, ValueSpan, FewItems
<1>3. /\ L \in Nat /\ L <= to /\ DOMAIN items = 1 .. L /\ i \in Nat /\ j \in Nat /\ j <= to
      /\ i < j
  BY <1>2
<1>4. GoodValue(s, tree, v)
  BY DEF Treed
<1>5. /\ \A k \in DOMAIN items : d(k) \in Nat \ {0} /\ d(k) < tree[v].depth
      /\ tree[v].depth # 1 => \E k \in DOMAIN items : d(k) = tree[v].depth - 1
  <2>1. \A k \in DOMAIN items : d(k) \in Nat \ {0}
    BY ItemPlaced DEF Depth
  <2>2. /\ \A k \in DOMAIN items : d(k) < tree[v].depth
        /\ tree[v].depth # 1 => \E k \in DOMAIN items : d(k) = tree[v].depth - 1
    BY <1>4 DEF GoodValue, Depth
  <2> QED
    BY <2>1, <2>2
<1>6. \A k \in DOMAIN items : items[k].at \in 1 .. to /\ items[k].at < to
  <2> TAKE k \in DOMAIN items
  <2> DEFINE x == items[k]
  <2>1. Placed(s, x, to, open) /\ x.at < j
    BY ItemPlaced
  <2> HIDE DEF x
  <2>2. x.at \in Nat /\ x.at # 0
    BY <2>1 DEF Placed, Item
  <2>3. x.at \in 1 .. to /\ x.at < to
    BY <1>3, <2>1, <2>2
  <2> QED
    BY <2>3 DEF x
<1>7. \A k \in DOMAIN items :
        /\ d(k) > n => step[items[k].at] = Ended(TooDeep)
        /\ ~(d(k) > n) /\ k = L => step[items[k].at] = Ended(j)
        /\ ~(d(k) > n) /\ k # L => step[items[k].at] = Onward(items[k + 1].at)
  <2> TAKE k \in DOMAIN items
  <2> DEFINE x == items[k]
  <2>1. step[x.at] = element(s, x.at, to, open, inner)
    BY <1>6
  <2>2. /\ d(k) > n => element(s, x.at, to, open, inner) = Ended(TooDeep)
        /\ ~(d(k) > n) /\ k = L => element(s, x.at, to, open, inner) = Ended(j)
        /\ ~(d(k) > n) /\ k # L => element(s, x.at, to, open, inner) = Onward(items[k + 1].at)
    <3> DEFINE e == element(s, x.at, to, open, inner)
               deep == Depth(tree, x)
    <3>1. x = tree[v].items[k] /\ d(k) = deep
      OBVIOUS
    <3> HIDE DEF x
    <3>2. deep > n => e = Ended(TooDeep)
      BY <3>1, ElementRead
    <3>3. ~(deep > n) /\ k = L => e = Ended(j)
      BY <3>1, ElementRead
    <3>4. ~(deep > n) /\ k # L => e = Onward(items[k + 1].at)
      BY <3>1, ElementRead
    <3> HIDE DEF deep, e, d
    <3> QED
      BY <3>1, <3>2, <3>3, <3>4, Zenon DEF e
  <2> HIDE DEF x, step, d, j, open, L
  <2> QED
    BY <2>1, <2>2 DEF x
<1>8. start = IF items = << >> THEN j - 1 ELSE items[1].at
  <2>1. CASE items = << >>
    <3>1. j - 1 <= to
      BY <1>3
    <3> QED
      BY <2>1, <3>1, ItemsStart
  <2>2. CASE items # << >>
    <3>1. items[1].at < to
      BY <1>2, <1>6, <2>2
    <3> QED
      BY <2>2, <3>1, ItemsStart
  <2> QED
    BY <2>1, <2>2
<1>9. CASE items = << >>
  <2>1. s[j - 1] = Close(open) /\ i + 2 <= j
    BY <1>4, <1>9 DEF GoodValue, Boxed, Quote, Open
  <2>2. j - 1 \in 1 .. to /\ At(s, j - 1, to) = Close(open) /\ (j - 1) + 1 = j
    BY <1>3, <2>1 DEF At
  <2>3. element(s, j - 1, to, open, inner) = Ended((j - 1) + 1)
    BY <2>2 DEF element
  <2>4. step[j - 1] = Ended(j)
    BY <2>2, <2>3
  <2>5. /\ Loop(start, to, step)[0] = Onward(start)
        /\ \A k \in 1 .. to : Loop(start, to, step)[k] = Turned(step, Loop(start, to, step)[k - 1])
    BY <1>3, LoopIs
  <2>6. start = j - 1
    BY <1>8, <1>9
  <2> HIDE DEF step, start, j
  <2>7. 1 \in 1 .. to /\ 1 \in 0 .. to
    BY <1>3
  <2>8. Loop(start, to, step)[1] = Turned(step, Onward(j - 1))
    BY <2>5, <2>6, <2>7
  <2>9. Loop(start, to, step)[1] = Ended(j)
    BY <2>4, <2>8 DEF Turned, Onward
  <2>10. Loop(start, to, step)[to].at = j
    BY <1>3, <2>7, <2>9, LoopEnded
  <2>11. tree[v].depth = 1
    BY <1>5, <1>9
  <2>12. tree[v].depth <= n + 1
    BY <2>11
  <2> QED
    BY <1>1, <2>10, <2>12 DEF j
<1>10. CASE items # << >>
  <2> DEFINE Stop == {k \in 1 .. L : d(k) > n \/ k = L}
             a == [k \in 1 .. L |-> IF d(k) > n THEN TooDeep ELSE j]
             m == lowest(Stop)
  <2>1. L \in 1 .. L /\ L # 0
    BY <1>2, <1>10
  <2>2. start = items[1].at
    BY <1>8, <1>10
  <2> HIDE DEF step, start, j, L, items, d
  <2>3. Stop \subseteq 1 .. L /\ L \in Stop
    BY <2>1
  <2>4. \A k \in 1 .. L : k \notin Stop => step[items[k].at] = Onward(items[k + 1].at)
    BY <1>3, <1>7
  <2>5. \A k \in Stop : step[items[k].at] = Ended(a[k])
    BY <1>3, <1>7
  <2> HIDE DEF Stop, a
  <2>6. Loop(start, to, step)[to].at = a[m]
    <3>1. Stopped(items, L, step, start, Stop, a)
      BY <2>2, <2>3, <2>4, <2>5 DEF Stopped
    <3>2. Loop(start, to, step)[to].at = a[lowest(Stop)]
      BY <1>3, <3>1, LoopStops
    <3> QED
      BY <3>2 DEF m
  <2>7. m \in Stop /\ \A k \in Stop : m <= k
    <3>1. Stop \in SUBSET Nat /\ Stop # {}
      BY <2>3
    <3> QED
      BY <3>1, LowestIs
  <2>8. m \in 1 .. L /\ a[m] = IF d(m) > n THEN TooDeep ELSE j
    BY <2>3, <2>7 DEF a
  <2> HIDE DEF m
  <2>9. CASE tree[v].depth <= n + 1
    <3>1. ~(d(m) > n)
      <4> DEFINE D == tree[v].depth
                 e == d(m)
      <4>1. e \in Nat /\ e < D
        BY <1>3, <1>5, <2>8
      <4>2. D \in Nat /\ D <= n + 1
        BY <1>2, <2>9
      <4> HIDE DEF D, e
      <4>3. ~(e > n)
        BY <4>1, <4>2
      <4> QED
        BY <4>3 DEF e
    <3> QED
      BY <1>1, <2>6, <2>8, <2>9, <3>1 DEF j
  <2>10. CASE ~(tree[v].depth <= n + 1)
    <3>1. PICK k \in DOMAIN items : d(k) = tree[v].depth - 1
      BY <1>2, <1>5, <2>10
    <3>2. d(k) > n
      BY <1>2, <2>10, <3>1
    <3>3. k \in Stop
      BY <1>3, <3>1, <3>2 DEF Stop
    <3>4. d(m) > n
      <4>1. CASE m = k
        BY <3>2, <4>1
      <4>2. CASE m # k
        BY <1>3, <2>7, <2>8, <3>1, <3>3, <4>2 DEF Stop
      <4> QED
        BY <4>1, <4>2
    <3> QED
      BY <1>1, <2>6, <2>8, <2>10, <3>4 DEF j
  <2> QED
    BY <2>9, <2>10
<1> QED
  BY <1>9, <1>10

(* With no level left nothing is read.                                          *)
LEMMA NoLevelReads ==
  ASSUME NEW s, NEW tree, Treed(s, tree), NEW to \in 0 .. Len(s) + 1
  PROVE  Reads(s, tree, to, NoLevel(to), 0)
<1>1. s \in Seq(Token)
  BY DEF Treed, Textual
<1>2. \A i \in 1 .. to : NoLevel(to)[i] = TooDeep
  BY DEF NoLevel
<1>3. ASSUME NEW v \in DOMAIN tree, v[2] <= to
      PROVE  NoLevel(to)[v[1]] = IF tree[v].depth <= 0 THEN v[2] ELSE TooDeep
  <2>1. /\ v[1] \in Nat \ {0} /\ v[2] \in v[1] + 1 .. Len(s) + 1 /\ tree[v].depth \in Nat \ {0}
        /\ Len(s) \in Nat
    BY <1>1, <1>3, ValueSpan
  <2>2. v[1] \in 1 .. to /\ ~(tree[v].depth <= 0)
    BY <1>3, <2>1
  <2> QED
    BY <1>2, <2>2
<1>4. \A i, j \in 1 .. to : Quoted(s, i, j) => NoLevel(to)[i] = TooDeep
  BY <1>2
<1> QED
  BY <1>3, <1>4 DEF Reads

(* With a level more, values a level deeper are.                                 *)
LEMMA LevelReads ==
  ASSUME NEW s, NEW tree, Treed(s, tree), NEW to \in 0 .. Len(s) + 1, NEW n \in Nat, NEW inner,
         Reads(s, tree, to, inner, n)
  PROVE  Reads(s, tree, to, Level(s, to, inner), n + 1)
<1> DEFINE f == Level(s, to, inner)
<1>1. s \in Seq(Token) /\ Len(s) \in Nat /\ to \in Nat /\ Textual(s)
  BY DEF Treed, Textual
<1>2. \A i \in 1 .. to : f[i] = value_at(s, i, to, inner)
  BY DEF Level
<1> HIDE DEF f
<1>3. ASSUME NEW i \in 1 .. to, NEW j \in 1 .. to, Quoted(s, i, j)
      PROVE  f[i] = j
  <2>1. s[i] = Quote /\ i # to
    BY <1>1, <1>3 DEF Quoted
  <2>2. string_end(s, i, to) = j
    <3>1. i \in Nat /\ j \in 0 .. to
      BY <1>1
    <3> QED
      BY <1>1, <1>3, <3>1, StringEnds
  <2> QED
    BY <1>2, <2>1, <2>2 DEF value_at
<1>4. ASSUME NEW v \in DOMAIN tree, v[2] <= to
      PROVE  f[v[1]] = IF tree[v].depth <= n + 1 THEN v[2] ELSE TooDeep
  <2> DEFINE i == v[1]
             j == v[2]
             d == tree[v].depth
  <2>1. /\ i \in Nat \ {0} /\ j \in i + 1 .. Len(s) + 1 /\ d \in Nat \ {0}
        /\ tree[v].items \in Seq(Item) /\ s[i] \notin Delimiter
    BY <1>4, ValueSpan
  <2>2. GoodValue(s, tree, v)
    BY DEF Treed
  <2>3. tree[v].items = << >> => d = 1
    BY <2>2 DEF GoodValue
  <2>4. i \in 1 .. to /\ j \in 1 .. to /\ i # to
    BY <1>1, <1>4, <2>1
  <2>5. f[i] = IF s[i] = Quote THEN string_end(s, i, to)
               ELSE IF s[i] \in Open THEN elements(s, i, to, inner)
               ELSE literal_end(s, i, to)
    BY <1>2, <2>4 DEF value_at
  <2>6. CASE s[i] \in Open
    <3>1. s[i] # Quote
      BY <2>6 DEF Open, Quote
    <3>2. elements(s, i, to, inner) = IF d <= n + 1 THEN j ELSE TooDeep
      BY <1>4, <2>6, ElementsRead
    <3> QED
      BY <2>5, <2>6, <3>1, <3>2, Zenon
  <2>7. CASE s[i] \notin Open
    <3>1. f[i] = j /\ d = 1
      <4>1. CASE s[i] = Quote
        <5>1. Quoted(s, i, j) /\ tree[v].items = << >>
          BY <2>2, <4>1 DEF GoodValue, Quote, Open
        <5> HIDE DEF i, j, d
        <5> QED
          BY <1>3, <2>3, <2>4, <5>1
      <4>2. CASE s[i] # Quote
        <5>1. /\ \A p \in i .. j - 1 : s[p] \notin Delimiter
              /\ j <= Len(s) /\ s[j] \in Delimiter /\ tree[v].items = << >>
          BY <2>2, <2>7, <4>2 DEF GoodValue
        <5> HIDE DEF i, j, d
        <5>2. j \in i + 1 .. to
          BY <2>1, <2>4
        <5>3. literal_end(s, i, to) = j
          BY <1>1, <2>1, <5>1, <5>2, LiteralEnds
        <5> QED
          BY <2>3, <2>5, <2>7, <4>2, <5>1, <5>3
      <4> QED
        BY <4>1, <4>2
    <3>2. d <= n + 1
      BY <3>1
    <3> QED
      BY <3>1, <3>2
  <2> QED
    BY <2>6, <2>7
<1>5. n + 1 # 0
  OBVIOUS
<1> QED
  BY <1>3, <1>4, <1>5 DEF Reads, f

(* So every level reads what it should.                                         *)
LEMMA EndsRead ==
  ASSUME NEW s, NEW tree, Treed(s, tree), NEW to \in 0 .. Len(s) + 1, MAX_DEPTH \in Nat,
         NEW n \in 0 .. MAX_DEPTH + 1
  PROVE  Reads(s, tree, to, Ends(s, to)[n], n)
<1> DEFINE f == Ends(s, to)
           T == {k \in 0 .. MAX_DEPTH + 1 : Reads(s, tree, to, f[k], k)}
<1>1. to \in Nat
  BY DEF Treed, Textual
<1>2. f[0] = NoLevel(to) /\ \A k \in 1 .. MAX_DEPTH + 1 : f[k] = Level(s, to, f[k - 1])
  BY <1>1, EndsAre
<1> HIDE DEF f
<1>3. 0 \in T
  BY <1>2, NoLevelReads
<1>4. ASSUME NEW k \in 0 .. (MAX_DEPTH + 1) - 1, k \in T PROVE k + 1 \in T
  <2>1. k + 1 \in 1 .. MAX_DEPTH + 1 /\ k + 1 \in 0 .. MAX_DEPTH + 1 /\ (k + 1) - 1 = k /\ k \in Nat
    OBVIOUS
  <2>2. f[k + 1] = Level(s, to, f[k])
    BY <1>2, <2>1
  <2>3. Reads(s, tree, to, f[k], k)
    BY <1>4
  <2>4. Reads(s, tree, to, Level(s, to, f[k]), k + 1)
    BY <2>1, <2>3, LevelReads
  <2> QED
    BY <2>1, <2>2, <2>4
<1> HIDE DEF T
<1>5. MAX_DEPTH + 1 \in Nat
  OBVIOUS
<1>6. 0 .. MAX_DEPTH + 1 \subseteq T
  BY <1>3, <1>4, <1>5, UpTo
<1> QED
  BY <1>6 DEF T, f

(* A value, with the levels there are.                                         *)
LEMMA ValueEnds ==
  ASSUME NEW s, NEW tree, Treed(s, tree), NEW to \in 0 .. Len(s) + 1, MAX_DEPTH \in Nat,
         NEW v \in DOMAIN tree, v[2] <= to
  PROVE  value_end(s, v[1], to, 0) = IF tree[v].depth <= MAX_DEPTH + 1 THEN v[2] ELSE TooDeep
<1>1. MAX_DEPTH + 1 \in 0 .. MAX_DEPTH + 1
  OBVIOUS
<1>2. Reads(s, tree, to, Ends(s, to)[MAX_DEPTH + 1], MAX_DEPTH + 1)
  BY <1>1, EndsRead
<1>3. value_end(s, v[1], to, 0) = Ends(s, to)[MAX_DEPTH + 1][v[1]]
  BY DEF value_end
<1> QED
  BY <1>2, <1>3 DEF Reads

-----------------------------------------------------------------------------
(* Fields.                                                                  *)

(* Whether a key hides what is after it, or is the one looked for.                 *)
Hiding(s, x) == Escaped(s, x.at + 1, x.end - 1)
Sought(s, x, key) == Is(s, <<x.at + 1, x.end - 1>>, key)

(* An object not beyond the cap, whose inside ends at to.                        *)
Object(s, tree, v, to) ==
  s[v[1]] = "{" /\ tree[v].depth <= MAX_DEPTH + 1 /\ v[2] = to + 1

(* One turn over member k of the object v.                                       *)
Looked(e, s, items, k, key) ==
  /\ Hiding(s, items[k]) => e = Ended(None)
  /\ ~Hiding(s, items[k]) /\ Sought(s, items[k], key) =>
       e = Ended(<<items[k].from, items[k].to>>)
  /\ ~Hiding(s, items[k]) /\ ~Sought(s, items[k], key) /\ k = Len(items) => e = Ended(None)
  /\ ~Hiding(s, items[k]) /\ ~Sought(s, items[k], key) /\ k # Len(items) =>
       e = Onward(items[k + 1].at)

LEMMA MemberRead ==
  ASSUME NEW s, NEW tree, Treed(s, tree), MAX_DEPTH \in Nat, NEW v \in DOMAIN tree,
         NEW to \in Nat, Object(s, tree, v, to),
         NEW k \in DOMAIN tree[v].items, NEW key
  PROVE  Looked(member(s, tree[v].items[k].at, to, key), s, tree[v].items, k, key)
<1> DEFINE items == tree[v].items
           x     == items[k]
           i     == x.at
           w     == <<x.from, x.to>>
           end   == string_end(s, i, to)
           colon == skip(s, end, to)
           from  == skip(s, colon + 1, to)
           value == value_end(s, from, to, 0)
           after == skip(s, value, to)
           e     == member(s, i, to, key)
           L     == Len(items)
           z     == v[2]
           deep  == tree[v].depth
           d     == tree[w].depth
<1>1. e = IF At(s, i, to) # Quote THEN Ended(None)
          ELSE IF end < 0 THEN Ended(None)
          ELSE IF Escaped(s, i, end) THEN Ended(None)
          ELSE IF At(s, colon, to) # ":" THEN Ended(None)
          ELSE IF value < 0 THEN Ended(None)
          ELSE IF Is(s, <<i + 1, end - 1>>, key) THEN Ended(<<from, value>>)
          ELSE IF At(s, after, to) = "," THEN Onward(skip(s, after + 1, to))
          ELSE Ended(None)
  BY DEF member
<1> HIDE DEF end, colon, from, value, after, e
<1>2. ItemAt(s, tree, v, k)
  BY ItemIs
<1>3. /\ s \in Seq(Token) /\ Textual(s) /\ Len(s) \in Nat /\ z \in 1 .. Len(s) + 1
      /\ items \in Seq(Item) /\ deep \in Nat /\ deep <= MAX_DEPTH + 1
  <2>1. s \in Seq(Token) /\ Textual(s)
    BY DEF Treed, Textual
  <2>2. GoodValue(s, tree, v)
    BY DEF Treed
  <2>3. /\ v[1] \in 1 .. Len(s) /\ z \in v[1] + 1 .. Len(s) + 1 /\ items \in Seq(Item)
        /\ deep \in Nat
    BY <2>2 DEF GoodValue
  <2>4. deep <= MAX_DEPTH + 1
    BY DEF Object
  <2> QED
    BY <2>1, <2>3, <2>4
<1>4. to \in 0 .. Len(s) + 1 /\ to \in Nat /\ z = to + 1
  <2>1. z = to + 1
    BY DEF Object
  <2> HIDE DEF z
  <2> QED
    BY <1>3, <2>1
<1>5. /\ x \in Item /\ x.at # 0 /\ x.from < x.to /\ x.to <= x.comma /\ x.comma < z
      /\ Keyed(s, x) /\ x.at + 2 <= x.end /\ x.end <= x.colon /\ x.colon < x.from
      /\ s[x.from] \notin Delimiter /\ Void(s, x.to, x.comma)
      /\ w \in DOMAIN tree /\ d \in Nat /\ d < deep
  BY <1>2 DEF ItemAt, Object
<1>6. k = L => x.comma = z - 1
  BY <1>2 DEF ItemAt
<1>7. k # L => s[x.comma] = "," /\ Void(s, x.comma + 1, items[k + 1].at)
  BY <1>2 DEF ItemAt
<1>x. x = items[k] /\ i = x.at
  OBVIOUS
<1>w. w[1] = x.from /\ w[2] = x.to
  OBVIOUS
<1>8. k # L => k + 1 \in DOMAIN items /\ k \in Nat
  BY <1>3
<1> HIDE DEF items, w, i, x, L, z, deep, d
<1>9. /\ x.at \in Nat /\ x.end \in Nat /\ x.colon \in Nat /\ x.from \in Nat /\ x.to \in Nat
      /\ x.comma \in Nat
  BY <1>5 DEF Item
<1>10. /\ x.at < to /\ x.end \in 0 .. to /\ x.colon \in x.end .. to /\ x.colon < to
       /\ x.colon + 1 \in Nat /\ x.from \in x.colon + 1 .. to /\ x.from < to
       /\ x.comma \in x.to .. to /\ x.to <= to
  <2> DEFINE a == x.at
             b == x.end
             c == x.colon
             f == x.from
             g == x.to
             h == x.comma
  <2>1. f < g /\ g <= h /\ h < z /\ a + 2 <= b /\ b <= c /\ c < f
    BY <1>5, Zenon
  <2>2. /\ a \in Nat /\ b \in Nat /\ c \in Nat /\ f \in Nat /\ g \in Nat /\ h \in Nat
        /\ to \in Nat /\ z = to + 1
    BY <1>4, <1>9
  <2> HIDE DEF a, b, c, f, g, h
  <2>3. h <= to /\ g <= to /\ f < to /\ c < to /\ b <= to /\ a < to
    BY <2>1, <2>2
  <2>4. b \in 0 .. to /\ c \in b .. to /\ c + 1 \in Nat /\ f \in c + 1 .. to /\ h \in g .. to
    BY <2>1, <2>2, <2>3
  <2> QED
    BY <2>3, <2>4 DEF a, b, c, f, g, h
<1>11. /\ Quoted(s, i, x.end) /\ Void(s, x.end, x.colon) /\ s[x.colon] = ":"
       /\ Void(s, x.colon + 1, x.from)
  BY <1>5, <1>x DEF Keyed
<1>12. s[i] = Quote /\ s[x.end - 1] = Quote
  BY <1>11 DEF Quoted
<1>13. At(s, i, to) = Quote
  BY <1>10, <1>12, <1>x DEF At
<1>14. end = x.end /\ ~(end < 0)
  <2>1. end = x.end
    BY <1>4, <1>9, <1>10, <1>11, <1>x, StringEnds DEF end
  <2> QED
    BY <1>9, <2>1
<1>15. Escaped(s, i, end) <=> Hiding(s, x)
  <2>1. Quote # "esc"
    BY DEF Quote
  <2>2. \A p \in x.at .. x.end - 1 : s[p] = "esc" => p \in x.at + 1 .. (x.end - 1) - 1
    BY <1>9, <1>12, <1>x, <2>1
  <2>3. \A p \in x.at + 1 .. (x.end - 1) - 1 : p \in x.at .. x.end - 1
    BY <1>9
  <2> QED
    BY <1>14, <1>x, <2>2, <2>3 DEF Escaped, Hiding
<1>16. colon = x.colon /\ At(s, colon, to) = ":"
  <2>1. At(s, x.colon, to) = ":"
    BY <1>10, <1>11 DEF At
  <2>2. skip(s, x.end, to) = x.colon
    BY <1>4, <1>9, <1>10, <1>11, <2>1, SkipVoid
  <2> QED
    BY <1>14, <2>1, <2>2 DEF colon
<1>17. from = x.from
  <2>1. At(s, x.from, to) # "ws"
    BY <1>5, <1>10 DEF At, Delimiter
  <2>2. skip(s, x.colon + 1, to) = x.from
    BY <1>4, <1>10, <1>11, <2>1, SkipVoid
  <2> QED
    BY <1>16, <2>2 DEF from
<1>18. value = x.to /\ ~(value < 0)
  <2>1. d <= MAX_DEPTH + 1
    BY <1>3, <1>5
  <2>2. value_end(s, w[1], to, 0) = w[2]
    BY <1>4, <1>5, <1>10, <1>w, <2>1, ValueEnds DEF d
  <2>3. value = x.to
    BY <1>17, <1>w, <2>2 DEF value
  <2> QED
    BY <1>9, <2>3
<1>19. after = x.comma
  <2>1. At(s, x.comma, to) # "ws"
    <3>1. CASE k = L
      <4>1. x.comma = to
        BY <1>4, <1>6, <3>1
      <4> QED
        BY <1>4, <4>1 DEF At
    <3>2. CASE k # L
      BY <1>7, <3>2 DEF At
    <3> QED
      BY <3>1, <3>2
  <2>2. skip(s, x.to, to) = x.comma
    BY <1>4, <1>5, <1>9, <1>10, <2>1, SkipVoid
  <2> QED
    BY <1>18, <2>2 DEF after
<1>20. Is(s, <<i + 1, end - 1>>, key) <=> Sought(s, x, key)
  BY <1>14, <1>x DEF Sought
<1>21. /\ Hiding(s, x) => e = Ended(None)
       /\ ~Hiding(s, x) /\ Sought(s, x, key) => e = Ended(<<x.from, x.to>>)
  BY <1>1, <1>13, <1>14, <1>15, <1>16, <1>17, <1>18, <1>20, Zenon
<1>22. ~Hiding(s, x) /\ ~Sought(s, x, key) =>
         e = IF At(s, x.comma, to) = "," THEN Onward(skip(s, x.comma + 1, to)) ELSE Ended(None)
  BY <1>1, <1>13, <1>14, <1>15, <1>16, <1>18, <1>19, <1>20, Zenon
<1>23. ASSUME ~Hiding(s, x), ~Sought(s, x, key), k = L PROVE e = Ended(None)
  <2>1. x.comma = to
    BY <1>4, <1>6, <1>23
  <2>2. At(s, x.comma, to) = "end"
    BY <1>4, <2>1 DEF At
  <2>3. At(s, x.comma, to) # ","
    BY <2>2
  <2> QED
    BY <1>22, <1>23, <2>3, Zenon
<1>24. ASSUME ~Hiding(s, x), ~Sought(s, x, key), k # L PROVE e = Onward(items[k + 1].at)
  <2> DEFINE y == items[k + 1]
  <2>1. ItemAt(s, tree, v, k + 1)
    BY <1>8, <1>24, ItemIs DEF items
  <2>2. /\ y \in Item /\ y.at <= y.from /\ y.from < y.to /\ y.to <= y.comma /\ y.comma < z
        /\ s[y.at] \notin Delimiter
    BY <2>1 DEF ItemAt, items, z
  <2>3. Void(s, x.comma + 1, y.at) /\ s[x.comma] = ","
    BY <1>7, <1>24
  <2> HIDE DEF y
  <2>4. y.at \in Nat /\ y.from \in Nat /\ y.to \in Nat /\ y.comma \in Nat
    BY <2>2 DEF Item
  <2>5. y.at < to
    BY <1>4, <2>2, <2>4
  <2>6. x.comma + 1 <= y.at
    BY <2>3, Zenon DEF Void
  <2>7. x.comma < to /\ y.at \in x.comma + 1 .. to /\ x.comma + 1 \in Nat
    <3> DEFINE p == x.comma
               q == y.at
    <3>1. p \in Nat /\ q \in Nat /\ to \in Nat /\ p + 1 <= q /\ q < to
      BY <1>4, <1>9, <2>4, <2>5, <2>6
    <3> HIDE DEF p, q
    <3>2. p < to /\ q \in p + 1 .. to /\ p + 1 \in Nat
      BY <3>1
    <3> QED
      BY <3>2 DEF p, q
  <2>8. At(s, x.comma, to) = "," /\ At(s, y.at, to) # "ws"
    BY <2>2, <2>3, <2>5, <2>7 DEF At, Delimiter
  <2>9. skip(s, x.comma + 1, to) = y.at
    BY <1>4, <2>3, <2>7, <2>8, SkipVoid
  <2> QED
    BY <1>22, <1>24, <2>8, <2>9, Zenon DEF y
<1>25. Looked(e, s, items, k, key)
  BY <1>21, <1>23, <1>24, <1>x, Zenon DEF Looked, L
<1> QED
  BY <1>25 DEF e, items, i, x

(* The members of that name, and whether the first of them can be seen.             *)
Sames(s, items, key) == {k \in DOMAIN items : Sought(s, items[k], key)}

Seen(s, items, key) ==
  /\ Sames(s, items, key) # {}
  /\ \A k \in 1 .. lowest(Sames(s, items, key)) : ~Hiding(s, items[k])

FirstOf(s, items, key) ==
  LET k == lowest(Sames(s, items, key)) IN <<items[k].from, items[k].to>>

(* The loop over the members of an object finds the first that has the name.        *)
LEMMA MembersRead ==
  ASSUME NEW s, NEW tree, Treed(s, tree), MAX_DEPTH \in Nat, NEW v \in DOMAIN tree,
         NEW to \in Nat, Object(s, tree, v, to), NEW key
  PROVE  members(s, v[1] + 1, to, key) =
           IF Seen(s, tree[v].items, key) THEN FirstOf(s, tree[v].items, key) ELSE None
<1> DEFINE items == tree[v].items
           L == Len(items)
           start == skip(s, v[1] + 1, to)
           step == [at \in 1 .. to |-> member(s, at, to, key)]
           loop == Loop(start, to, step)
           Same == Sames(s, items, key)
           first == lowest(Same)
           z == v[2]
<1>1. members(s, v[1] + 1, to, key) = loop[to].at
  BY DEF members
<1>2. /\ s \in Seq(Token) /\ Len(s) \in Nat /\ v[1] \in Nat /\ z \in Nat /\ z <= Len(s) + 1
      /\ items \in Seq(Item) /\ GoodValue(s, tree, v)
  <2>1. GoodValue(s, tree, v) /\ s \in Seq(Token)
    BY DEF Treed, Textual
  <2>2. v[1] \in 1 .. Len(s) /\ z \in v[1] + 1 .. Len(s) + 1 /\ items \in Seq(Item)
    BY <2>1 DEF GoodValue
  <2> HIDE DEF z, items
  <2> QED
    BY <2>1, <2>2
<1>3. z = to + 1
  BY DEF Object
<1>o. s[v[1]] = "{"
  BY DEF Object
<1>4. to \in 0 .. Len(s) + 1 /\ z \in 0 .. Len(s) + 1
  <2> HIDE DEF z
  <2> QED
    BY <1>2, <1>3
<1>5. L \in Nat /\ DOMAIN items = 1 .. L /\ L <= to
  <2>1. L \in 0 .. z - 1
    BY <1>4, FewItems
  <2>2. L \in Nat /\ DOMAIN items = 1 .. L
    BY <1>2
  <2> HIDE DEF z, L
  <2> QED
    BY <1>2, <1>3, <2>1, <2>2
<1>6. \A k \in DOMAIN items :
        items[k].at \in 1 .. to /\ items[k].at < to /\ Looked(step[items[k].at], s, items, k, key)
  <2> TAKE k \in DOMAIN items
  <2> DEFINE x == items[k]
  <2>1. x.at < z /\ x.comma < z /\ x.at < x.comma /\ Placed(s, x, z, s[v[1]])
    <3>1. x = tree[v].items[k] /\ z <= z
      BY <1>2
    <3> HIDE DEF x
    <3> QED
      BY <1>4, <3>1, ItemPlaced
  <2>2. Looked(member(s, x.at, to, key), s, items, k, key)
    BY MemberRead
  <2> HIDE DEF x, z, items, step
  <2>3. x.at \in Nat /\ x.at # 0 /\ x.comma \in Nat
    BY <2>1 DEF Placed, Item
  <2>4. x.at \in 1 .. to /\ x.at < to
    BY <1>2, <1>3, <2>1, <2>3
  <2>5. step[x.at] = member(s, x.at, to, key)
    BY <2>4 DEF step
  <2> QED
    BY <2>2, <2>4, <2>5 DEF x
<1>7. start = IF items = << >> THEN to ELSE items[1].at
  <2>1. s[v[1]] \in Open
    BY <1>o DEF Open
  <2>2. v[2] - 1 = to
    <3> HIDE DEF z
    <3>1. z - 1 = to
      BY <1>2, <1>3
    <3> QED
      BY <3>1 DEF z
  <2>3. CASE items = << >>
    <3>1. v[2] - 1 <= to
      BY <2>2
    <3> QED
      BY <1>4, <2>1, <2>2, <2>3, <3>1, ItemsStart
  <2>4. CASE items # << >>
    <3>1. 1 \in DOMAIN items
      BY <1>2, <2>4
    <3>2. items[1].at < to
      BY <1>6, <3>1
    <3> QED
      BY <1>4, <2>1, <2>4, <3>2, ItemsStart
  <2> QED
    BY <2>3, <2>4
<1>8. Same \subseteq 1 .. L /\ (Same # {} => first \in Same /\ \A k \in Same : first <= k)
  <2>1. Same \subseteq 1 .. L
    BY <1>5 DEF Sames
  <2>2. Same \in SUBSET Nat
    BY <2>1
  <2> HIDE DEF Same
  <2> QED
    BY <2>1, <2>2, LowestIs
<1>9. CASE items = << >>
  <2>1. to # 0
    <3>1. Boxed(s, v[1], z, items)
      BY <1>2, <1>o DEF GoodValue, Quote, Open
    <3>2. v[1] + 2 <= z
      BY <3>1 DEF Boxed
    <3> HIDE DEF z
    <3> QED
      BY <1>2, <1>3, <3>2
  <2>2. step[to] = Ended(None)
    <3>1. At(s, to, to) # Quote
      BY DEF At, Quote
    <3>2. member(s, to, to, key) = Ended(None)
      BY <3>1 DEF member
    <3> QED
      BY <2>1, <3>2
  <2>3. loop[0] = Onward(start) /\ \A k \in 1 .. to : loop[k] = Turned(step, loop[k - 1])
    BY LoopIs
  <2>4. start = to
    BY <1>7, <1>9
  <2>5. Same = {}
    BY <1>9 DEF Sames
  <2> HIDE DEF step, start
  <2>6. 1 \in 1 .. to /\ 1 \in 0 .. to
    BY <2>1
  <2>7. loop[1] = Turned(step, Onward(to))
    BY <2>3, <2>4, <2>6
  <2>8. loop[1] = Ended(None)
    BY <2>2, <2>7 DEF Turned, Onward
  <2>9. loop[to].at = None
    BY <2>6, <2>8, LoopEnded
  <2> QED
    BY <1>1, <2>5, <2>9 DEF Seen
<1>10. CASE items # << >>
  <2> DEFINE Stop == {k \in 1 .. L : Hiding(s, items[k]) \/ Sought(s, items[k], key) \/ k = L}
             a == [k \in 1 .. L |->
                     IF ~Hiding(s, items[k]) /\ Sought(s, items[k], key)
                     THEN <<items[k].from, items[k].to>> ELSE None]
             m == lowest(Stop)
  <2>1. L \in 1 .. L /\ L # 0
    BY <1>2, <1>10
  <2>2. start = items[1].at
    BY <1>7, <1>10
  <2> HIDE DEF step, start, L, items
  <2>3. \A k \in 1 .. L : k \notin Stop => step[items[k].at] = Onward(items[k + 1].at)
    <3> TAKE k \in 1 .. L
    <3>1. Looked(step[items[k].at], s, items, k, key)
      BY <1>5, <1>6
    <3>2. k \notin Stop => ~Hiding(s, items[k]) /\ ~Sought(s, items[k], key) /\ k # L
      OBVIOUS
    <3> HIDE DEF Stop
    <3> QED
      BY <3>1, <3>2, Zenon DEF Looked, L
  <2>4. \A k \in Stop : step[items[k].at] = Ended(a[k])
    <3> TAKE k \in Stop
    <3>1. k \in 1 .. L /\ Looked(step[items[k].at], s, items, k, key)
      BY <1>5, <1>6
    <3>2. Hiding(s, items[k]) \/ Sought(s, items[k], key) \/ k = L
      OBVIOUS
    <3>3. a[k] = IF ~Hiding(s, items[k]) /\ Sought(s, items[k], key)
                 THEN <<items[k].from, items[k].to>> ELSE None
      BY <3>1
    <3> HIDE DEF Stop, a
    <3> QED
      BY <3>1, <3>2, <3>3, Zenon DEF Looked, L
  <2>5. Stopped(items, L, step, start, Stop, a)
    <3>1. Stop \subseteq 1 .. L /\ L \in Stop
      BY <2>1
    <3> HIDE DEF Stop, a
    <3> QED
      BY <2>2, <2>3, <2>4, <3>1 DEF Stopped
  <2>6. loop[to].at = a[m]
    <3> HIDE DEF Stop, a
    <3>1. Loop(start, to, step)[to].at = a[lowest(Stop)]
      BY <1>5, <2>5, LoopStops
    <3> QED
      BY <3>1 DEF m
  <2>7. m \in Stop /\ \A k \in Stop : m <= k
    <3>1. Stop \in SUBSET Nat /\ Stop # {}
      BY <2>1
    <3> HIDE DEF Stop
    <3> QED
      BY <3>1, LowestIs
  <2>8. m \in 1 .. L /\ a[m] = IF ~Hiding(s, items[m]) /\ Sought(s, items[m], key)
                               THEN <<items[m].from, items[m].to>> ELSE None
    <3> HIDE DEF m
    <3> QED
      BY <2>7
  <2>9. \A k \in 1 .. L : k < m => ~Hiding(s, items[k]) /\ ~Sought(s, items[k], key)
    <3> TAKE k \in 1 .. L
    <3>1. k < m => k \notin Stop
      <4> HIDE DEF m, Stop
      <4> QED
        BY <2>7, <2>8
    <3> HIDE DEF m
    <3> QED
      BY <3>1
  <2>10. \A k \in 1 .. L : k \in Same <=> Sought(s, items[k], key)
    BY <1>5 DEF Sames
  <2> HIDE DEF Stop, a, m, Same
  <2>11. CASE ~Hiding(s, items[m]) /\ Sought(s, items[m], key)
    <3>1. m \in Same /\ Same # {}
      BY <2>8, <2>10, <2>11
    <3>2. first = m
      <4>1. first \in Same /\ first <= m /\ first \in 1 .. L
        BY <1>8, <3>1
      <4>2. ~(first < m)
        BY <2>9, <2>10, <4>1
      <4> HIDE DEF first
      <4> QED
        BY <2>8, <4>1, <4>2
    <3>3. \A k \in 1 .. m : ~Hiding(s, items[k])
      <4> TAKE k \in 1 .. m
      <4>1. k \in 1 .. L /\ (k = m \/ k < m)
        BY <1>5, <2>8
      <4> QED
        BY <2>9, <2>11, <4>1
    <3>4. Seen(s, items, key)
      BY <3>1, <3>2, <3>3 DEF Seen, Same
    <3>5. FirstOf(s, items, key) = <<items[m].from, items[m].to>>
      BY <3>2 DEF FirstOf, Same
    <3> QED
      BY <1>1, <2>6, <2>8, <2>11, <3>4, <3>5, Zenon DEF items
  <2>12. CASE ~(~Hiding(s, items[m]) /\ Sought(s, items[m], key))
    <3>1. ~Seen(s, items, key)
      <4>1. SUFFICES ASSUME Same # {}, \A k \in 1 .. first : ~Hiding(s, items[k]) PROVE FALSE
        BY DEF Seen, Same
      <4>2. first \in Same /\ first \in 1 .. L
        BY <1>8, <4>1
      <4>3. ~(first < m)
        BY <2>9, <2>10, <4>2
      <4> HIDE DEF first
      <4>4. m \in 1 .. first
        BY <2>8, <4>2, <4>3
      <4>5. ~Hiding(s, items[m])
        BY <4>1, <4>4
      <4>6. ~Sought(s, items[m], key)
        BY <2>12, <4>5
      <4>7. m = L
        BY <2>7, <4>5, <4>6 DEF Stop
      <4>8. first = m
        BY <4>2, <4>4, <4>7
      <4> QED
        BY <2>10, <4>2, <4>6, <4>8
    <3> QED
      BY <1>1, <2>6, <2>8, <2>12, <3>1, Zenon DEF items
  <2> QED
    BY <2>11, <2>12
<1> QED
  BY <1>9, <1>10

(* White space around what is wanted is trimmed.                                 *)
LEMMA TrimIs ==
  ASSUME NEW s, NEW a \in Nat, NEW b \in Nat, NEW i \in Nat, NEW j \in Nat,
         a <= i, i < j, j <= b, Void(s, a, i), Void(s, j, b), s[i] # "ws", s[j - 1] # "ws"
  PROVE  trim(s, <<a, b>>) = <<i, j>>
<1> DEFINE inner == {p \in a .. b - 1 : s[p] # "ws"}
           last  == CHOOSE p \in inner : \A q \in inner : q <= p
<1>1. trim(s, <<a, b>>) = IF inner = {} THEN <<a, a>> ELSE <<lowest(inner), last + 1>>
  BY DEF trim
<1>2. inner \in SUBSET Nat /\ i \in inner /\ j - 1 \in inner
  OBVIOUS
<1>3. ASSUME NEW p \in inner PROVE i <= p /\ p <= j - 1
  <2>1. p \in a .. b - 1 /\ s[p] # "ws"
    OBVIOUS
  <2>2. p < i => s[p] = "ws"
    BY <2>1 DEF Void
  <2>3. p >= j => s[p] = "ws"
    BY <2>1 DEF Void
  <2> QED
    BY <2>1, <2>2, <2>3
<1> HIDE DEF inner
<1>4. lowest(inner) = i
  BY <1>2, <1>3, LowestOne
<1>5. last \in inner /\ \A q \in inner : q <= last
  BY <1>2, <1>3
<1> HIDE DEF last
<1>6. last \in Nat /\ last <= j - 1 /\ j - 1 <= last
  BY <1>2, <1>3, <1>5
<1>7. last + 1 = j
  BY <1>6
<1> QED
  BY <1>1, <1>2, <1>4, <1>7

(* The slice of a value has none.                                               *)
LEMMA TrimValue ==
  ASSUME NEW s, NEW tree, Treed(s, tree), NEW v \in DOMAIN tree
  PROVE  /\ s[v[1]] # "ws" /\ s[v[2] - 1] # "ws"
         /\ trim(s, v) = v
<1> DEFINE i == v[1]
           j == v[2]
<1>1. GoodValue(s, tree, v) /\ v = <<i, j>> /\ s \in Seq(Token)
  BY DEF Treed, Textual
<1>2. i \in 1 .. Len(s) /\ j \in i + 1 .. Len(s) + 1
  BY <1>1 DEF GoodValue
<1>3. s[i] # "ws" /\ s[j - 1] # "ws"
  <2>1. CASE s[i] = Quote
    <3>1. Quoted(s, i, j)
      BY <1>1, <2>1 DEF GoodValue, Quote, Open
    <3> QED
      BY <3>1 DEF Quoted, Quote
  <2>2. CASE s[i] \in Open
    <3>1. Boxed(s, i, j, tree[v].items)
      BY <1>1, <2>2 DEF GoodValue, Quote, Open
    <3>2. s[j - 1] = Close(s[i])
      BY <3>1 DEF Boxed
    <3> QED
      BY <2>2, <3>2 DEF Close, Open
  <2>3. CASE s[i] # Quote /\ s[i] \notin Open
    <3>1. \A p \in i .. j - 1 : s[p] \notin Delimiter
      BY <1>1, <2>3 DEF GoodValue
    <3> HIDE DEF i, j
    <3>2. i \in i .. j - 1 /\ j - 1 \in i .. j - 1
      BY <1>2
    <3> QED
      BY <3>1, <3>2 DEF Delimiter
  <2> QED
    BY <2>1, <2>2, <2>3
<1> HIDE DEF i, j
<1>4. i \in Nat /\ j \in Nat /\ i <= i /\ i < j /\ j <= j /\ Void(s, i, i) /\ Void(s, j, j)
  BY <1>1, <1>2 DEF Void
<1>5. trim(s, <<i, j>>) = <<i, j>>
  BY <1>3, <1>4, TrimIs
<1> QED
  BY <1>1, <1>3, <1>5 DEF i, j

(* A field of an object is its first member of that name that can be seen.           *)
LEMMA FieldRead ==
  ASSUME NEW s, NEW tree, Treed(s, tree), MAX_DEPTH \in Nat, NEW v \in DOMAIN tree,
         NEW to \in Nat, Object(s, tree, v, to), NEW key
  PROVE  obj_get_raw(s, v, key) =
           IF Seen(s, tree[v].items, key) THEN FirstOf(s, tree[v].items, key) ELSE None
<1> DEFINE i == v[1]
           j == v[2]
<1>1. trim(s, v) = v
  BY TrimValue
<1>2. j = to + 1
  BY DEF Object
<1>3. s[i] = "{"
  BY DEF Object
<1>4. GoodValue(s, tree, v) /\ s \in Seq(Token)
  BY DEF Treed, Textual
<1>5. i \in 1 .. Len(s) /\ Boxed(s, i, j, tree[v].items)
  BY <1>3, <1>4 DEF GoodValue, Quote, Open
<1>6. i + 2 <= j /\ s[j - 1] = Close(s[i])
  BY <1>5 DEF Boxed
<1>7. s[j - 1] = "}"
  BY <1>3, <1>6 DEF Close
<1>8. obj_get_raw(s, v, key) = IF j < i + 2 THEN None
                               ELSE IF s[i] # "{" \/ s[j - 1] # "}" THEN None
                               ELSE members(s, i + 1, j - 1, key)
  BY <1>1 DEF obj_get_raw
<1>9. members(s, i + 1, to, key) =
        IF Seen(s, tree[v].items, key) THEN FirstOf(s, tree[v].items, key) ELSE None
  BY MembersRead
<1> HIDE DEF i, j
<1>10. ~(j < i + 2) /\ j - 1 = to
  BY <1>2, <1>4, <1>5, <1>6
<1>11. obj_get_raw(s, v, key) = members(s, i + 1, to, key)
  BY <1>3, <1>7, <1>8, <1>10
<1> QED
  BY <1>9, <1>11

-----------------------------------------------------------------------------
(* Numbers.                                                                 *)

(* The digits are apart, and the sign is none.                                    *)
LEMMA NumeralIs ==
  /\ \A d, e \in 0 .. 9 : numeral(d) = numeral(e) => d = e
  /\ \A d \in 0 .. 9 : numeral(d) # "-" /\ numeral(d) # Quote /\ numeral(d) # "null"
<1>1. /\ numeral(0) = "0" /\ numeral(1) = "1" /\ numeral(2) = "2" /\ numeral(3) = "3"
      /\ numeral(4) = "4" /\ numeral(5) = "5" /\ numeral(6) = "6" /\ numeral(7) = "7"
      /\ numeral(8) = "8" /\ numeral(9) = "9"
  BY DEF numeral, Numerals
<1>2. \A d \in 0 .. 9 : \/ d = 0 \/ d = 1 \/ d = 2 \/ d = 3 \/ d = 4
                        \/ d = 5 \/ d = 6 \/ d = 7 \/ d = 8 \/ d = 9
  OBVIOUS
<1>3. ASSUME NEW d \in 0 .. 9, NEW e \in 0 .. 9, numeral(d) = numeral(e) PROVE d = e
  BY <1>1, <1>2, <1>3
<1>4. ASSUME NEW d \in 0 .. 9
      PROVE  numeral(d) # "-" /\ numeral(d) # Quote /\ numeral(d) # "null"
  BY <1>1, <1>2 DEF Quote
<1> QED
  BY <1>3, <1>4

Digits10 == 0 .. 9
Numeral(c) == \E d \in Digits10 : c = numeral(d)
digit(c) == CHOOSE d \in Digits10 : c = numeral(d)

LEMMA DigitIs ==
  /\ \A c : Numeral(c) => digit(c) \in 0 .. 9 /\ numeral(digit(c)) = c
  /\ \A d \in 0 .. 9 : Numeral(numeral(d)) /\ digit(numeral(d)) = d
<1>1. \A c : Numeral(c) => digit(c) \in 0 .. 9 /\ numeral(digit(c)) = c
  BY DEF Numeral, digit, Digits10
<1>2. ASSUME NEW d \in 0 .. 9 PROVE Numeral(numeral(d)) /\ digit(numeral(d)) = d
  <2>1. Numeral(numeral(d))
    BY DEF Numeral, Digits10
  <2>2. digit(numeral(d)) \in 0 .. 9 /\ numeral(digit(numeral(d))) = numeral(d)
    BY <1>1, <2>1
  <2> QED
    BY <2>1, <2>2, NumeralIs
<1> QED
  BY <1>1, <1>2

(* The sum of the first digits, one more each time.                                *)
SumUpto(f, s, from, m) ==
  f = [k \in 0 .. m |-> IF k = 0 THEN 0 ELSE 10 * f[k - 1] + digit(s[from + k - 1])]

LEMMA SomeSum ==
  ASSUME NEW s, NEW from, NEW n \in Nat
  PROVE  \E f : SumUpto(f, s, from, n)
<1> DEFINE T == {m \in 0 .. n : \E f : SumUpto(f, s, from, m)}
<1>1. 0 \in T
  <2> DEFINE f == [k \in 0 .. 0 |-> 0]
  <2>1. SumUpto(f, s, from, 0)
    BY DEF SumUpto
  <2> QED
    BY <2>1
<1>2. ASSUME NEW m \in 0 .. n - 1, m \in T
      PROVE  m + 1 \in T
  <2>1. PICK f : SumUpto(f, s, from, m)
    BY <1>2
  <2> DEFINE next == 10 * f[m] + digit(s[from + (m + 1) - 1])
             g == [k \in 0 .. m + 1 |-> IF k = m + 1 THEN next ELSE f[k]]
  <2>2. \A k \in 0 .. m : f[k] = IF k = 0 THEN 0 ELSE 10 * f[k - 1] + digit(s[from + k - 1])
    BY <2>1 DEF SumUpto
  <2>3. \A k \in 0 .. m : g[k] = f[k]
    OBVIOUS
  <2>4. g[m + 1] = next
    OBVIOUS
  <2>5. ASSUME NEW k \in 0 .. m + 1
        PROVE  g[k] = IF k = 0 THEN 0 ELSE 10 * g[k - 1] + digit(s[from + k - 1])
    <3> HIDE DEF g
    <3>1. CASE k = m + 1
      <4>1. k # 0 /\ k - 1 = m /\ m \in 0 .. m
        BY <3>1
      <4>2. g[k - 1] = f[m]
        BY <2>3, <4>1
      <4>3. g[k] = 10 * g[k - 1] + digit(s[from + k - 1])
        BY <2>4, <3>1, <4>2, Zenon
      <4> QED
        BY <4>1, <4>3, Zenon
    <3>2. CASE k # m + 1
      <4>1. k \in 0 .. m /\ (k # 0 => k - 1 \in 0 .. m)
        BY <3>2
      <4> QED
        BY <2>2, <2>3, <4>1, Zenon
    <3> QED
      BY <3>1, <3>2
  <2>6. g = [k \in 0 .. m + 1 |-> g[k]]
    OBVIOUS
  <2> HIDE DEF g
  <2>7. SumUpto(g, s, from, m + 1)
    BY <2>5, <2>6 DEF SumUpto
  <2> QED
    BY <2>7
<1> HIDE DEF T
<1>3. 0 .. n \subseteq T
  BY <1>1, <1>2, UpTo
<1> QED
  BY <1>3 DEF T

(* amount is that sum, of digits a number.                                      *)
Digital(s, from, n) == \A k \in 1 .. n : Numeral(s[from + k - 1])

LEMMA AmountIs ==
  ASSUME NEW s, NEW from, NEW n \in Nat
  PROVE  /\ amount(s, from, n)[0] = 0
         /\ \A k \in 1 .. n : amount(s, from, n)[k] =
                                10 * amount(s, from, n)[k - 1] + digit(s[from + k - 1])
<1>1. amount(s, from, n) = CHOOSE f : SumUpto(f, s, from, n)
  BY DEF amount, SumUpto, digit, Digits10
<1>2. SumUpto(amount(s, from, n), s, from, n)
  BY <1>1, SomeSum
<1> DEFINE f == amount(s, from, n)
<1> HIDE DEF f
<1>3. \A k \in 0 .. n : f[k] = IF k = 0 THEN 0 ELSE 10 * f[k - 1] + digit(s[from + k - 1])
  BY <1>2 DEF SumUpto, f
<1>4. 0 \in 0 .. n /\ \A k \in 1 .. n : k \in 0 .. n /\ k # 0
  OBVIOUS
<1> QED
  BY <1>3, <1>4, Zenon DEF f

LEMMA AmountType ==
  ASSUME NEW s, NEW from, NEW n \in Nat, Digital(s, from, n)
  PROVE  \A k \in 0 .. n : amount(s, from, n)[k] \in Nat
<1> DEFINE f == amount(s, from, n)
           T == {k \in 0 .. n : f[k] \in Nat}
<1>1. f[0] = 0 /\ \A k \in 1 .. n : f[k] = 10 * f[k - 1] + digit(s[from + k - 1])
  BY AmountIs
<1>2. \A k \in 1 .. n : digit(s[from + k - 1]) \in 0 .. 9
  BY DigitIs DEF Digital
<1> HIDE DEF f
<1>3. 0 \in T
  BY <1>1
<1>4. ASSUME NEW k \in 0 .. n - 1, k \in T PROVE k + 1 \in T
  <2>1. k + 1 \in 1 .. n /\ (k + 1) - 1 = k /\ k + 1 \in 0 .. n
    OBVIOUS
  <2> DEFINE d == digit(s[from + (k + 1) - 1])
  <2>2. f[k + 1] = 10 * f[k] + d /\ d \in 0 .. 9
    BY <1>1, <1>2, <2>1
  <2>3. f[k] \in Nat
    BY <1>4
  <2> HIDE DEF d
  <2>4. f[k + 1] \in Nat
    BY <2>2, <2>3
  <2> QED
    BY <2>1, <2>4
<1> HIDE DEF T
<1>5. 0 .. n \subseteq T
  BY <1>3, <1>4, UpTo
<1> QED
  BY <1>5 DEF T, f

Alike(s, from, t, at, top) == \A k \in 1 .. top : s[from + k - 1] = t[at + k - 1]

(* It depends on the digits only.                                              *)
LEMMA AmountSame ==
  ASSUME NEW s, NEW from, NEW n \in Nat, NEW t, NEW at, NEW m \in Nat, NEW top \in Nat,
         top <= n, top <= m, Alike(s, from, t, at, top)
  PROVE  amount(s, from, n)[top] = amount(t, at, m)[top]
<1> DEFINE f == amount(s, from, n)
           g == amount(t, at, m)
           T == {k \in 0 .. top : f[k] = g[k]}
<1>1. f[0] = 0 /\ \A k \in 1 .. n : f[k] = 10 * f[k - 1] + digit(s[from + k - 1])
  BY AmountIs
<1>2. g[0] = 0 /\ \A k \in 1 .. m : g[k] = 10 * g[k - 1] + digit(t[at + k - 1])
  BY AmountIs
<1> HIDE DEF f, g
<1>3. 0 \in T
  BY <1>1, <1>2
<1>4. ASSUME NEW k \in 0 .. top - 1, k \in T PROVE k + 1 \in T
  <2>1. /\ k + 1 \in 1 .. n /\ k + 1 \in 1 .. m /\ (k + 1) - 1 = k /\ k + 1 \in 0 .. top
        /\ k + 1 \in 1 .. top
    OBVIOUS
  <2>2. f[(k + 1) - 1] = g[(k + 1) - 1]
    BY <1>4, <2>1
  <2>3. s[from + (k + 1) - 1] = t[at + (k + 1) - 1]
    BY <2>1 DEF Alike
  <2>4. f[k + 1] = g[k + 1]
    BY <1>1, <1>2, <2>1, <2>2, <2>3, Zenon
  <2> QED
    BY <2>1, <2>4
<1> HIDE DEF T
<1>5. 0 .. top \subseteq T
  BY <1>3, <1>4, UpTo
<1> QED
  BY <1>5 DEF T, f, g

(* The digits of a number, all but the last first.                                *)
PutOf(f, m) ==
  f = [k \in 0 .. m |-> IF k < 10 THEN <<numeral(k)>> ELSE Append(f[k \div 10], numeral(k % 10))]

LEMMA Tenth == \A k \in Nat : k >= 10 => k \div 10 \in 0 .. k - 1 /\ k \div 10 # 0
                                        /\ k % 10 \in 0 .. 9 /\ k = 10 * (k \div 10) + (k % 10)
  OBVIOUS

LEMMA SomePut ==
  ASSUME NEW n \in Nat
  PROVE  \E f : PutOf(f, n)
<1> DEFINE T == {m \in 0 .. n : \E f : PutOf(f, m)}
<1>1. 0 \in T
  <2> DEFINE f == [k \in 0 .. 0 |-> <<numeral(k)>>]
  <2>1. f = [k \in 0 .. 0 |->
               IF k < 10 THEN <<numeral(k)>> ELSE Append(f[k \div 10], numeral(k % 10))]
    OBVIOUS
  <2>2. PutOf(f, 0)
    BY <2>1 DEF PutOf
  <2> QED
    BY <2>2
<1>2. ASSUME NEW m \in 0 .. n - 1, m \in T
      PROVE  m + 1 \in T
  <2>1. PICK f : PutOf(f, m)
    BY <1>2
  <2> DEFINE next == IF m + 1 < 10 THEN <<numeral(m + 1)>>
                     ELSE Append(f[(m + 1) \div 10], numeral((m + 1) % 10))
             g == [k \in 0 .. m + 1 |-> IF k = m + 1 THEN next ELSE f[k]]
  <2>2. \A k \in 0 .. m :
          f[k] = IF k < 10 THEN <<numeral(k)>> ELSE Append(f[k \div 10], numeral(k % 10))
    BY <2>1 DEF PutOf
  <2>3. \A k \in 0 .. m : g[k] = f[k]
    OBVIOUS
  <2>4. g[m + 1] = next
    OBVIOUS
  <2>5. ASSUME NEW k \in 0 .. m + 1
        PROVE  g[k] = IF k < 10 THEN <<numeral(k)>> ELSE Append(g[k \div 10], numeral(k % 10))
    <3> HIDE DEF g
    <3>0. k \in Nat
      OBVIOUS
    <3>1. CASE k < 10
      <4>1. CASE k = m + 1
        <5>1. m + 1 < 10
          BY <3>1, <4>1
        <5>2. g[m + 1] = <<numeral(m + 1)>>
          BY <2>4, <5>1, Zenon
        <5> QED
          BY <3>1, <4>1, <5>2, Zenon
      <4>2. CASE k # m + 1
        <5>1. k \in 0 .. m
          BY <4>2
        <5> QED
          BY <2>2, <2>3, <3>1, <5>1, Zenon
      <4> QED
        BY <4>1, <4>2
    <3>2. CASE ~(k < 10)
      <4>1. k >= 10
        BY <3>0, <3>2
      <4>2. k \div 10 \in 0 .. k - 1
        BY <3>0, <4>1, Tenth
      <4>3. k \div 10 \in 0 .. m
        BY <4>2
      <4>4. g[k \div 10] = f[k \div 10]
        BY <2>3, <4>3
      <4>5. g[k] = Append(f[k \div 10], numeral(k % 10))
        <5>1. CASE k = m + 1
          <6>1. ~(m + 1 < 10)
            BY <3>2, <5>1
          <6>2. g[m + 1] = Append(f[(m + 1) \div 10], numeral((m + 1) % 10))
            BY <2>4, <6>1, Zenon
          <6> QED
            BY <5>1, <6>2, Zenon
        <5>2. CASE k # m + 1
          <6>1. k \in 0 .. m
            BY <5>2
          <6> QED
            BY <2>2, <2>3, <3>2, <6>1, Zenon
        <5> QED
          BY <5>1, <5>2
      <4> QED
        BY <3>2, <4>4, <4>5, Zenon
    <3> QED
      BY <3>1, <3>2
  <2>6. g = [k \in 0 .. m + 1 |-> g[k]]
    OBVIOUS
  <2> HIDE DEF g
  <2>7. PutOf(g, m + 1)
    BY <2>5, <2>6 DEF PutOf
  <2> QED
    BY <2>7
<1> HIDE DEF T
<1>3. 0 .. n \subseteq T
  BY <1>1, <1>2, UpTo
<1> QED
  BY <1>3 DEF T

(* put_i64 is the last of them.                                                *)
Puts(n) == CHOOSE f : PutOf(f, n)

LEMMA PutIs ==
  ASSUME NEW n \in Nat
  PROVE  /\ put_i64(n) = Puts(n)[n]
         /\ \A k \in 0 .. n : k < 10 => Puts(n)[k] = <<numeral(k)>>
         /\ \A k \in 0 .. n : ~(k < 10) =>
              Puts(n)[k] = Append(Puts(n)[k \div 10], numeral(k % 10))
<1>1. put_i64(n) = Puts(n)[n]
  BY DEF put_i64, Puts, PutOf
<1>2. PutOf(Puts(n), n)
  BY SomePut DEF Puts
<1> DEFINE f == Puts(n)
<1> HIDE DEF f
<1>3. \A k \in 0 .. n :
        f[k] = IF k < 10 THEN <<numeral(k)>> ELSE Append(f[k \div 10], numeral(k % 10))
  BY <1>2 DEF PutOf, f
<1>4. /\ \A k \in 0 .. n : k < 10 => f[k] = <<numeral(k)>>
      /\ \A k \in 0 .. n : ~(k < 10) => f[k] = Append(f[k \div 10], numeral(k % 10))
  BY <1>3, Zenon
<1> QED
  BY <1>1, <1>4 DEF f

(* q is a text of digits that sums up to k.                                       *)
Writes(q, k) ==
  /\ q \in Seq({numeral(d) : d \in 0 .. 9}) /\ Len(q) # 0
  /\ Digital(q, 1, Len(q)) /\ amount(q, 1, Len(q))[Len(q)] = k

LEMMA WritesOne ==
  ASSUME NEW k \in 0 .. 9
  PROVE  Writes(<<numeral(k)>>, k) /\ Len(<<numeral(k)>>) = 1
<1> DEFINE c == numeral(k)
           q == <<c>>
           N == {numeral(d) : d \in 0 .. 9}
<1>1. c \in N /\ Numeral(c) /\ digit(c) = k
  BY DigitIs
<1> HIDE DEF c, N
<1>2. q \in Seq(N) /\ Len(q) = 1 /\ q[1] = c
  BY <1>1
<1> HIDE DEF q
<1>3. Digital(q, 1, 1)
  <2>1. \A p \in 1 .. 1 : p = 1 /\ 1 + p - 1 = 1
    OBVIOUS
  <2> QED
    BY <1>1, <1>2, <2>1, Zenon DEF Digital
<1>4. /\ amount(q, 1, 1)[1] = 10 * amount(q, 1, 1)[1 - 1] + digit(q[1 + 1 - 1])
      /\ amount(q, 1, 1)[0] = 0
  <2>1. 1 \in 1 .. 1 /\ 1 \in Nat
    OBVIOUS
  <2> QED
    BY <2>1, AmountIs
<1>5. 1 - 1 = 0 /\ 1 + 1 - 1 = 1
  OBVIOUS
<1>6. amount(q, 1, 1)[1] = k
  BY <1>1, <1>2, <1>4, <1>5
<1>7. Writes(q, k)
  BY <1>2, <1>3, <1>6 DEF Writes, N
<1> QED
  BY <1>2, <1>7 DEF q, c

LEMMA WritesMore ==
  ASSUME NEW q, NEW k \in Nat, NEW d \in 0 .. 9, Writes(q, k)
  PROVE  Writes(Append(q, numeral(d)), 10 * k + d) /\ Len(Append(q, numeral(d))) = Len(q) + 1
<1> DEFINE c == numeral(d)
           N == {numeral(e) : e \in 0 .. 9}
           n == Len(q)
           r == Append(q, c)
<1>1. c \in N /\ Numeral(c) /\ digit(c) = d
  BY DigitIs
<1>2. q \in Seq(N) /\ Digital(q, 1, n) /\ amount(q, 1, n)[n] = k
  BY DEF Writes
<1> HIDE DEF c, N
<1>3. /\ r \in Seq(N) /\ Len(r) = n + 1 /\ n \in Nat /\ r[n + 1] = c
      /\ \A p \in 1 .. n : r[p] = q[p]
  BY <1>1, <1>2
<1> HIDE DEF n, r
<1>4. \A p : p \in 1 .. n => 1 + p - 1 = p
  BY <1>3
<1>5. \A p \in 1 .. n : r[1 + p - 1] = q[1 + p - 1]
  BY <1>3, <1>4
<1>6. Digital(r, 1, n + 1)
  <2>1. ASSUME NEW p \in 1 .. n + 1 PROVE Numeral(r[1 + p - 1])
    <3>1. CASE p \in 1 .. n
      <4>1. Numeral(q[1 + p - 1])
        BY <1>2, <3>1 DEF Digital
      <4> QED
        BY <1>5, <3>1, <4>1
    <3>2. CASE p = n + 1
      <4>1. 1 + p - 1 = n + 1
        BY <1>3, <3>2
      <4> QED
        BY <1>1, <1>3, <4>1
    <3> QED
      BY <1>3, <3>1, <3>2
  <2> QED
    BY <2>1 DEF Digital
<1>7. amount(r, 1, n + 1)[n] = k
  <2>1. n <= n + 1 /\ n <= n /\ n + 1 \in Nat
    BY <1>3
  <2>2. Alike(r, 1, q, 1, n)
    BY <1>5 DEF Alike
  <2>3. amount(r, 1, n + 1)[n] = amount(q, 1, n)[n]
    BY <1>3, <2>1, <2>2, AmountSame
  <2> QED
    BY <1>2, <2>3
<1>8. amount(r, 1, n + 1)[n + 1] =
        10 * amount(r, 1, n + 1)[(n + 1) - 1] + digit(r[1 + (n + 1) - 1])
  <2>1. n + 1 \in 1 .. n + 1 /\ n + 1 \in Nat
    BY <1>3
  <2> QED
    BY <2>1, AmountIs
<1>9. (n + 1) - 1 = n /\ 1 + (n + 1) - 1 = n + 1
  BY <1>3
<1>10. amount(r, 1, n + 1)[n + 1] = 10 * k + d
  BY <1>1, <1>3, <1>7, <1>8, <1>9
<1>11. Len(r) # 0
  BY <1>3
<1>12. Writes(r, 10 * k + d)
  BY <1>3, <1>6, <1>10, <1>11 DEF Writes, N
<1> QED
  BY <1>3, <1>12 DEF r, c, n

(* What is put is a number's digits.                                            *)
LEMMA PutWrites ==
  ASSUME NEW n \in Nat
  PROVE  \A k \in 0 .. n : Writes(Puts(n)[k], k)
<1> DEFINE f == Puts(n)
           T == {m \in 0 .. n : \A k \in 0 .. m : Writes(f[k], k)}
<1>1. /\ \A k \in 0 .. n : k < 10 => f[k] = <<numeral(k)>>
      /\ \A k \in 0 .. n : ~(k < 10) => f[k] = Append(f[k \div 10], numeral(k % 10))
  BY PutIs
<1> HIDE DEF f
<1>2. \A k \in 0 .. n : k < 10 => Writes(f[k], k)
  <2> SUFFICES ASSUME NEW k \in 0 .. n, k < 10 PROVE Writes(f[k], k)
    OBVIOUS
  <2>1. k \in 0 .. 9 /\ f[k] = <<numeral(k)>>
    BY <1>1
  <2>2. Writes(<<numeral(k)>>, k)
    BY <2>1, WritesOne
  <2> QED
    BY <2>1, <2>2
<1>3. 0 \in T
  BY <1>2
<1>4. ASSUME NEW m \in 0 .. n - 1, m \in T PROVE m + 1 \in T
  <2>0. m + 1 \in 0 .. n /\ \A k \in 0 .. m : Writes(f[k], k)
    BY <1>4
  <2>1. Writes(f[m + 1], m + 1)
    <3>1. CASE m + 1 < 10
      BY <1>2, <2>0, <3>1
    <3>2. CASE ~(m + 1 < 10)
      <4> DEFINE a == (m + 1) \div 10
                 d == (m + 1) % 10
      <4>1. a \in 0 .. (m + 1) - 1 /\ d \in 0 .. 9 /\ m + 1 = 10 * a + d
        <5>1. m + 1 \in Nat /\ m + 1 >= 10
          BY <3>2
        <5> QED
          BY <5>1, Tenth
      <4>2. f[m + 1] = Append(f[a], numeral(d))
        BY <1>1, <2>0, <3>2
      <4> HIDE DEF a, d
      <4>3. a \in 0 .. m /\ a \in Nat
        BY <4>1
      <4>4. Writes(f[a], a)
        BY <2>0, <4>3
      <4>5. Writes(Append(f[a], numeral(d)), 10 * a + d)
        BY <4>1, <4>3, <4>4, WritesMore
      <4> QED
        BY <4>1, <4>2, <4>5
    <3> QED
      BY <3>1, <3>2
  <2>2. \A k \in 0 .. m + 1 : k \in 0 .. m \/ k = m + 1
    OBVIOUS
  <2> QED
    BY <2>0, <2>1, <2>2
<1> HIDE DEF T
<1>5. 0 .. n \subseteq T
  BY <1>3, <1>4, UpTo
<1>6. n \in T
  BY <1>5
<1> QED
  BY <1>6 DEF T, f

(* It has no more of them than the text the number was read from.                  *)
LEMMA PutShort ==
  ASSUME NEW s, NEW from, NEW n \in Nat \ {0}, Digital(s, from, n), NEW N,
         N = amount(s, from, n)[n]
  PROVE  N \in Nat /\ Len(put_i64(N)) \in 1 .. n
<1> DEFINE A == amount(s, from, n)
           f == Puts(N)
           T == {k \in 0 .. n : k = 0 \/ A[k] > N \/ Len(f[A[k]]) <= k}
<1>1. A[0] = 0 /\ \A k \in 1 .. n : A[k] = 10 * A[k - 1] + digit(s[from + k - 1])
  BY AmountIs
<1>2. \A k \in 0 .. n : A[k] \in Nat
  BY AmountType
<1>3. \A k \in 1 .. n : digit(s[from + k - 1]) \in 0 .. 9
  BY DigitIs DEF Digital
<1>4. N \in Nat /\ N = A[n]
  BY <1>2
<1>5. /\ put_i64(N) = f[N]
      /\ \A k \in 0 .. N : k < 10 => f[k] = <<numeral(k)>>
      /\ \A k \in 0 .. N : ~(k < 10) => f[k] = Append(f[k \div 10], numeral(k % 10))
  BY <1>4, PutIs
<1>6. \A k \in 0 .. N : Writes(f[k], k)
  BY <1>4, PutWrites
<1> HIDE DEF A, f
<1>7. 0 \in T
  OBVIOUS
<1>8. ASSUME NEW k \in 0 .. n - 1, k \in T PROVE k + 1 \in T
  <2> DEFINE a == A[k]
             b == A[k + 1]
             d == digit(s[from + (k + 1) - 1])
  <2>1. k + 1 \in 1 .. n /\ k + 1 \in 0 .. n /\ (k + 1) - 1 = k /\ k \in 0 .. n /\ k \in Nat
    OBVIOUS
  <2>2. b = 10 * a + d /\ d \in 0 .. 9 /\ a \in Nat /\ b \in Nat
    BY <1>1, <1>2, <1>3, <2>1
  <2>3. k = 0 \/ a > N \/ Len(f[a]) <= k
    BY <1>8
  <2>4. k = 0 => a = 0
    BY <1>1
  <2> HIDE DEF a, b, d
  <2>5. CASE b > N
    BY <2>1, <2>5 DEF b
  <2>6. CASE ~(b > N)
    <3>1. b \in 0 .. N /\ a \in 0 .. N
      BY <1>4, <2>2, <2>6
    <3>2. CASE b < 10
      <4>1. f[b] = <<numeral(b)>>
        BY <1>5, <3>1, <3>2
      <4>2. Len(f[b]) = 1
        BY <4>1
      <4>3. Len(f[b]) <= k + 1
        BY <2>1, <4>2
      <4> QED
        BY <2>1, <4>3 DEF b
    <3>3. CASE ~(b < 10)
      <4>1. b \div 10 = a /\ b % 10 = d /\ a # 0
        BY <2>2, <3>3
      <4>2. f[b] = Append(f[a], numeral(d))
        BY <1>5, <3>1, <3>3, <4>1
      <4>3. Writes(f[a], a) /\ a \in Nat
        BY <1>6, <2>2, <3>1
      <4>4. Len(f[b]) = Len(f[a]) + 1
        BY <2>2, <4>2, <4>3, WritesMore
      <4>5. Len(f[a]) \in Nat
        BY <4>3 DEF Writes
      <4>6. Len(f[a]) <= k
        BY <1>4, <2>2, <2>3, <2>4, <3>1, <4>1
      <4>7. Len(f[b]) <= k + 1
        BY <2>1, <4>4, <4>5, <4>6
      <4> QED
        BY <2>1, <4>7 DEF b
    <3> QED
      BY <3>2, <3>3
  <2> QED
    BY <2>5, <2>6
<1> HIDE DEF T
<1>9. 0 .. n \subseteq T
  BY <1>7, <1>8, UpTo
<1>10. n = 0 \/ A[n] > N \/ Len(f[A[n]]) <= n
  BY <1>9 DEF T
<1>11. Len(f[N]) <= n
  BY <1>4, <1>10
<1>12. Len(f[N]) \in Nat /\ Len(f[N]) # 0
  <2> DEFINE q == f[N]
  <2>1. N \in 0 .. N
    BY <1>4
  <2>2. Writes(q, N)
    BY <1>6, <2>1
  <2> HIDE DEF q
  <2>3. Len(q) \in Nat /\ Len(q) # 0
    BY <2>2 DEF Writes
  <2> QED
    BY <2>3 DEF q
<1>13. Len(f[N]) \in 1 .. n
  BY <1>11, <1>12
<1> QED
  BY <1>4, <1>5, <1>13

(* What parse_i64 makes of the text from a to b.                                 *)
Minus(s, a, b) == At(s, a, b) = "-"
From(s, a, b) == IF Minus(s, a, b) THEN a + 1 ELSE a
Count(s, a, b) == b - From(s, a, b)
Total(s, a, b) == amount(s, From(s, a, b), Count(s, a, b))[Count(s, a, b)]

InRange(s, a, b) ==
  /\ Count(s, a, b) \in 1 .. IntDigits
  /\ Digital(s, From(s, a, b), Count(s, a, b)) /\ Total(s, a, b) \in 0 .. MaxInt

LEMMA ParseIs ==
  ASSUME NEW s, NEW a \in Nat, NEW b \in Nat, MaxInt \in Nat, IntDigits \in Nat
  PROVE  /\ InRange(s, a, b) => parse_i64(s, <<a, b>>) =
              [answer |-> "Ok",
               int |-> IF Minus(s, a, b) THEN 0 - Total(s, a, b) ELSE Total(s, a, b)]
         /\ ~InRange(s, a, b) => parse_i64(s, <<a, b>>) = Refuse("BadNumber")
<1> DEFINE from == From(s, a, b)
           n    == Count(s, a, b)
           sum  == Total(s, a, b)
           neg  == Minus(s, a, b)
           r    == parse_i64(s, <<a, b>>)
           Odd  == \E i \in from .. b - 1 : \A d \in 0 .. 9 : s[i] # numeral(d)
           value == [answer |-> "Ok", int |-> IF neg THEN 0 - sum ELSE sum]
<1>1. r = IF n <= 0 \/ n > IntDigits THEN Refuse("BadNumber")
          ELSE IF Odd THEN Refuse("BadNumber")
          ELSE IF sum > MaxInt THEN Refuse("BadNumber")
          ELSE value
  BY DEF parse_i64, From, Count, Total, Minus
<1>2. from \in Nat /\ n \in Int /\ n = b - from
  BY DEF From, Count
<1>3. InRange(s, a, b) <=> n \in 1 .. IntDigits /\ Digital(s, from, n) /\ sum \in 0 .. MaxInt
  BY DEF InRange
<1>4. Odd <=> ~Digital(s, from, n)
  <2> HIDE DEF from, n
  <2>1. ASSUME NEW i \in from .. b - 1, \A d \in 0 .. 9 : s[i] # numeral(d), Digital(s, from, n)
        PROVE  FALSE
    <3>1. (i - from) + 1 \in 1 .. n /\ from + ((i - from) + 1) - 1 = i
      BY <1>2
    <3>2. Numeral(s[from + ((i - from) + 1) - 1])
      BY <2>1, <3>1 DEF Digital
    <3> QED
      BY <2>1, <3>1, <3>2 DEF Numeral, Digits10
  <2>2. ASSUME NEW k \in 1 .. n, ~Numeral(s[from + k - 1])
        PROVE  Odd
    <3>1. from + k - 1 \in from .. b - 1
      BY <1>2
    <3>2. \A d \in 0 .. 9 : s[from + k - 1] # numeral(d)
      BY <2>2 DEF Numeral, Digits10
    <3> QED
      BY <3>1, <3>2
  <2> QED
    BY <2>1, <2>2 DEF Digital
<1>5. n \in 1 .. IntDigits /\ Digital(s, from, n) => sum \in Nat
  <2>1. SUFFICES ASSUME n \in 1 .. IntDigits, Digital(s, from, n) PROVE sum \in Nat
    OBVIOUS
  <2>2. sum = amount(s, from, n)[n]
    BY DEF Total
  <2> HIDE DEF n, from, sum
  <2>3. n \in Nat /\ n \in 0 .. n
    BY <2>1
  <2> QED
    BY <2>1, <2>2, <2>3, AmountType
<1> HIDE DEF n, from, sum, neg, r, Odd, value
<1>6. n \in 1 .. IntDigits <=> ~(n <= 0 \/ n > IntDigits)
  BY <1>2
<1>7. sum \in Nat => (sum \in 0 .. MaxInt <=> ~(sum > MaxInt))
  OBVIOUS
<1>8. InRange(s, a, b) => r = value
  BY <1>1, <1>3, <1>4, <1>5, <1>6, <1>7, Zenon
<1>9. ~InRange(s, a, b) => r = Refuse("BadNumber")
  BY <1>1, <1>3, <1>4, <1>5, <1>6, <1>7, Zenon
<1> QED
  BY <1>8, <1>9 DEF r, value, neg, sum

(* What was put reads the same, with a sign before it too.                        *)
LEMMA ReadsBack ==
  ASSUME NEW q, NEW N, MaxInt \in Nat, IntDigits \in Nat, N \in 0 .. MaxInt, Writes(q, N),
         Len(q) \in 1 .. IntDigits
  PROVE  parse_i64(q, <<1, Len(q) + 1>>) = [answer |-> "Ok", int |-> N]
<1> DEFINE n == Len(q)
<1>1. n \in Nat /\ n # 0 /\ Digital(q, 1, n) /\ amount(q, 1, n)[n] = N
  BY DEF Writes
<1>2. Numeral(q[1])
  <2>1. 1 \in 1 .. n /\ 1 + 1 - 1 = 1
    BY <1>1
  <2>2. Numeral(q[1 + 1 - 1])
    BY <1>1, <2>1 DEF Digital
  <2> QED
    BY <2>1, <2>2
<1>3. q[1] # "-"
  BY <1>2, NumeralIs DEF Numeral, Digits10
<1> HIDE DEF n
<1>4. ~Minus(q, 1, n + 1)
  BY <1>1, <1>3 DEF Minus, At
<1>5. From(q, 1, n + 1) = 1 /\ Count(q, 1, n + 1) = n
  BY <1>1, <1>4 DEF From, Count
<1>6. Total(q, 1, n + 1) = N
  BY <1>1, <1>5 DEF Total
<1>7. InRange(q, 1, n + 1)
  BY <1>1, <1>5, <1>6 DEF InRange, n
<1>8. 1 \in Nat /\ n + 1 \in Nat
  BY <1>1
<1> QED
  BY <1>4, <1>6, <1>7, <1>8, ParseIs DEF n

LEMMA ReadsNegative ==
  ASSUME NEW q, NEW N, MaxInt \in Nat, IntDigits \in Nat, N \in 0 .. MaxInt, Writes(q, N),
         Len(q) \in 1 .. IntDigits, NEW r, r = <<"-">> \o q
  PROVE  parse_i64(r, <<1, Len(r) + 1>>) = [answer |-> "Ok", int |-> 0 - N]
<1> DEFINE n == Len(q)
           S == {numeral(d) : d \in 0 .. 9} \cup {"-"}
<1>1. n \in Nat /\ n # 0 /\ Digital(q, 1, n) /\ amount(q, 1, n)[n] = N
  BY DEF Writes
<1>2. q \in Seq(S) /\ <<"-">> \in Seq(S)
  <2> DEFINE D == {numeral(d) : d \in 0 .. 9}
  <2>1. q \in Seq(D) /\ D \subseteq S /\ "-" \in S
    BY DEF Writes
  <2> HIDE DEF D, S
  <2> QED
    BY <2>1
<1> HIDE DEF S
<1>3. Len(r) = n + 1 /\ r[1] = "-" /\ \A k \in 1 .. n : r[k + 1] = q[k]
  BY <1>2
<1> HIDE DEF n
<1> DEFINE e == Len(r) + 1
<1>4. e = n + 2 /\ 1 < e
  BY <1>1, <1>3
<1> HIDE DEF e
<1>5. Minus(r, 1, e)
  BY <1>3, <1>4 DEF Minus, At
<1>6. From(r, 1, e) = 2 /\ Count(r, 1, e) = n
  BY <1>1, <1>4, <1>5 DEF From, Count
<1>7. \A k \in 1 .. n : 2 + k - 1 = k + 1 /\ 1 + k - 1 = k
  BY <1>1
<1>8. Digital(r, 2, n)
  BY <1>1, <1>3, <1>7 DEF Digital
<1>9. amount(r, 2, n)[n] = amount(q, 1, n)[n]
  <2>1. \A k \in 1 .. n : r[2 + k - 1] = q[1 + k - 1]
    BY <1>3, <1>7
  <2>2. n <= n
    BY <1>1
  <2>3. Alike(r, 2, q, 1, n)
    BY <2>1 DEF Alike
  <2> QED
    BY <1>1, <2>2, <2>3, AmountSame
<1>10. Total(r, 1, e) = N
  BY <1>1, <1>6, <1>9 DEF Total
<1>11. InRange(r, 1, e)
  BY <1>6, <1>8, <1>10 DEF InRange, n
<1>12. 1 \in Nat /\ e \in Nat
  BY <1>1, <1>4
<1> QED
  BY <1>5, <1>10, <1>11, <1>12, ParseIs DEF e

(* A number that was read is put so that it reads the same.                         *)
LEMMA NumberBack ==
  ASSUME NEW s, NEW a \in Nat, NEW b \in Nat, MaxInt \in Nat, IntDigits \in Nat, NEW id,
         id = parse_i64(s, <<a, b>>), id.answer = "Ok", NEW r, r = put_id(s, id)
  PROVE  parse_i64(r, <<1, Len(r) + 1>>) = id
<1> DEFINE from == From(s, a, b)
           n == Count(s, a, b)
           N == Total(s, a, b)
           neg == Minus(s, a, b)
           q == put_i64(N)
<1>1. InRange(s, a, b)
  <2>1. ~InRange(s, a, b) => id = Refuse("BadNumber")
    BY ParseIs
  <2>2. Refuse("BadNumber").answer = "Err"
    BY DEF Refuse
  <2> QED
    BY <2>1, <2>2
<1>2. id = [answer |-> "Ok", int |-> IF neg THEN 0 - N ELSE N]
  BY <1>1, ParseIs
<1>3. n \in 1 .. IntDigits /\ Digital(s, from, n) /\ N \in 0 .. MaxInt
  BY <1>1 DEF InRange
<1>4. N = amount(s, from, n)[n]
  BY DEF Total
<1> HIDE DEF from, n, N, neg
<1>5. Len(q) \in 1 .. n
  BY <1>3, <1>4, PutShort
<1>6. N \in Nat /\ N \in 0 .. N /\ Len(q) \in 1 .. IntDigits
  BY <1>3, <1>5
<1>7. Writes(q, N)
  BY <1>6, PutIs, PutWrites
<1>8. r = IF id.int < 0 THEN <<"-">> \o put_i64(0 - id.int) ELSE put_i64(id.int)
  BY <1>2 DEF put_id
<1>9. CASE neg /\ N # 0
  <2>1. id.int = 0 - N
    BY <1>2, <1>9
  <2>2. 0 - N < 0 /\ 0 - (0 - N) = N
    BY <1>6, <1>9
  <2>3. r = <<"-">> \o q
    BY <1>8, <2>1, <2>2
  <2> HIDE DEF q
  <2>4. parse_i64(r, <<1, Len(r) + 1>>) = [answer |-> "Ok", int |-> 0 - N]
    BY <1>3, <1>6, <1>7, <2>3, ReadsNegative
  <2> QED
    BY <1>2, <1>9, <2>4
<1>10. CASE ~(neg /\ N # 0)
  <2>1. id.int = N /\ id = [answer |-> "Ok", int |-> N]
    <3>1. N = 0 => 0 - N = N
      OBVIOUS
    <3> QED
      BY <1>2, <1>10, <3>1
  <2>2. ~(N < 0)
    BY <1>6
  <2>3. r = q
    BY <1>8, <2>1, <2>2
  <2> HIDE DEF q
  <2> QED
    BY <1>3, <1>6, <1>7, <2>1, <2>3, ReadsBack
<1> QED
  BY <1>9, <1>10

-----------------------------------------------------------------------------
(* Requests.                                                                *)

(* A value is a string when it starts with a quote, read when nothing is escaped.     *)
LEMMA StringOf ==
  ASSUME NEW s, NEW tree, Treed(s, tree), NEW v \in DOMAIN tree
  PROVE  /\ s[v[1]] # Quote => as_str(s, v) = Refuse("BadJson")
         /\ s[v[1]] = Quote /\ Escaped(s, v[1], v[2]) => as_str(s, v) = Refuse("EscapedString")
         /\ s[v[1]] = Quote /\ ~Escaped(s, v[1], v[2]) =>
              /\ as_str(s, v) = [answer |-> "Ok", str |-> <<v[1] + 1, v[2] - 1>>]
              /\ Quoted(s, v[1], v[2])
<1> DEFINE i == v[1]
           j == v[2]
           end == string_end(s, i, j)
<1>1. trim(s, v) = v
  BY TrimValue
<1>2. GoodValue(s, tree, v) /\ v = <<i, j>> /\ s \in Seq(Token)
  BY DEF Treed, Textual
<1>3. i \in 1 .. Len(s) /\ j \in i + 1 .. Len(s) + 1
  BY <1>2 DEF GoodValue
<1>4. s[i] = Quote => Quoted(s, i, j)
  BY <1>2 DEF GoodValue, Quote, Open
<1>5. as_str(s, v) = IF At(s, i, j) # Quote THEN Refuse("BadJson")
                     ELSE IF end < 0 THEN Refuse("BadJson")
                     ELSE IF Escaped(s, i, end) THEN Refuse("EscapedString")
                     ELSE IF end < j THEN Refuse("BadJson")
                     ELSE [answer |-> "Ok", str |-> <<i + 1, end - 1>>]
  BY <1>1 DEF as_str
<1> HIDE DEF i, j
<1>6. i \in Nat /\ j \in Nat /\ j \in 0 .. j
  BY <1>2, <1>3
<1>7. At(s, i, j) = s[i]
  BY <1>2, <1>3 DEF At
<1>8. s[i] = Quote => end = j
  BY <1>4, <1>6, StringEnds
<1> HIDE DEF end
<1>9. ~(j < 0) /\ ~(j < j)
  BY <1>6
<1>10. s[i] # Quote => as_str(s, v) = Refuse("BadJson")
  BY <1>5, <1>7, Zenon
<1>11. s[i] = Quote /\ Escaped(s, i, j) => as_str(s, v) = Refuse("EscapedString")
  BY <1>5, <1>7, <1>8, <1>9, Zenon
<1>12. s[i] = Quote /\ ~Escaped(s, i, j) =>
         as_str(s, v) = [answer |-> "Ok", str |-> <<i + 1, j - 1>>]
  BY <1>5, <1>7, <1>8, <1>9, Zenon
<1> QED
  BY <1>4, <1>10, <1>11, <1>12 DEF i, j

(* What Proper and SameNumber say, of any text.                                   *)
Fit(s, x) ==
  \/ Is(s, x, "null")
  \/ as_str(s, x).answer = "Ok"
  \/ parse_i64(s, x).answer = "Ok"

Echoed(s, x, r) ==
  \/ r = SubSeq(s, x[1], x[2] - 1)
  \/ /\ parse_i64(s, x).answer = "Ok"
     /\ parse_i64(r, <<1, Len(r) + 1>>) = parse_i64(s, x)

(* The id that is read from the value x.                                          *)
IdOf(s, x) ==
  IF Is(s, x, "null") THEN [answer |-> "Ok", null |-> TRUE]
  ELSE IF s[x[1]] = Quote THEN as_str(s, x)
  ELSE parse_i64(s, x)

(* No number starts with a quote.                                               *)
LEMMA NoNumber ==
  ASSUME NEW s, NEW a \in Nat, NEW b \in Nat, MaxInt \in Nat, IntDigits \in Nat, a < b,
         s[a] = Quote
  PROVE  parse_i64(s, <<a, b>>) = Refuse("BadNumber")
<1>1. Quote # "-"
  BY DEF Quote
<1>2. ~Minus(s, a, b)
  BY <1>1 DEF Minus, At
<1>3. From(s, a, b) = a
  BY <1>2 DEF From
<1>4. ASSUME InRange(s, a, b) PROVE FALSE
  <2> DEFINE n == Count(s, a, b)
  <2>1. n \in 1 .. IntDigits /\ Digital(s, a, n)
    BY <1>3, <1>4 DEF InRange
  <2> HIDE DEF n
  <2>2. 1 \in 1 .. n /\ a + 1 - 1 = a
    BY <2>1
  <2>3. Numeral(s[a + 1 - 1])
    BY <2>1, <2>2 DEF Digital
  <2>4. Numeral(Quote)
    BY <2>2, <2>3
  <2> QED
    BY <2>4, NumeralIs DEF Numeral, Digits10
<1> QED
  BY <1>4, ParseIs

(* Texts one after the other.                                                  *)
LEMMA Joined ==
  ASSUME NEW T, NEW p \in Seq(T), NEW q \in Seq(T)
  PROVE  /\ p \o q \in Seq(T) /\ Len(p \o q) = Len(p) + Len(q)
         /\ \A k \in 1 .. Len(p) : (p \o q)[k] = p[k]
         /\ \A k \in Len(p) + 1 .. Len(p) + Len(q) : (p \o q)[k] = q[k - Len(p)]
  OBVIOUS

(* A string between its quotes is the value to the letter.                          *)
LEMMA QuotedBack ==
  ASSUME NEW s \in Seq(Token), NEW i \in 1 .. Len(s), NEW j \in i + 1 .. Len(s) + 1,
         Quoted(s, i, j)
  PROVE  <<Quote>> \o SubSeq(s, i + 1, j - 2) \o <<Quote>> = SubSeq(s, i, j - 1)
<1> DEFINE T == Token \cup {Quote}
           q == SubSeq(s, i + 1, j - 2)
           w == SubSeq(s, i, j - 1)
           o == <<Quote>>
           r == o \o q \o o
<1>1. i \in Nat /\ j \in Nat /\ i + 2 <= j /\ i + 1 \in Nat /\ j - 2 \in Nat /\ j - 1 <= Len(s)
  BY DEF Quoted
<1>2. s[i] = Quote /\ s[j - 1] = Quote
  BY DEF Quoted
<1>3. s \in Seq(T)
  OBVIOUS
<1>4. /\ q \in Seq(T) /\ Len(q) = j - 2 - i
      /\ \A k \in 1 .. j - 2 - i : q[k] = s[i + k]
  <2> HIDE DEF T
  <2> QED
    BY <1>1, <1>3
<1>5. /\ w \in Seq(T) /\ Len(w) = j - i
      /\ \A k \in 1 .. j - i : w[k] = s[i + k - 1]
  <2> HIDE DEF T
  <2> QED
    BY <1>1, <1>3
<1>6. o \in Seq(T) /\ Len(o) = 1 /\ o[1] = Quote
  OBVIOUS
<1> HIDE DEF T, q, w, o
<1>7. o \o q \in Seq(T) /\ Len(o \o q) = j - 1 - i /\ (o \o q)[1] = Quote
      /\ \A k \in 2 .. j - 1 - i : (o \o q)[k] = q[k - 1]
  <2> DEFINE e == o \o q
             L == Len(q)
             M == Len(o)
  <2>1. o \in Seq(T) /\ q \in Seq(T)
    BY <1>4, <1>6
  <2>2. /\ e \in Seq(T) /\ Len(e) = M + L /\ \A k \in 1 .. M : e[k] = o[k]
        /\ \A k \in M + 1 .. M + L : e[k] = q[k - M]
    BY <2>1, Joined
  <2>3. M = 1 /\ L = j - 2 - i
    BY <1>4, <1>6
  <2> HIDE DEF e, L, M
  <2>4. M + L = j - 1 - i /\ M + 1 = 2 /\ 1 \in 1 .. M
    BY <1>1, <2>3
  <2> QED
    BY <1>6, <2>2, <2>3, <2>4 DEF e
<1>8. r \in Seq(T) /\ Len(r) = j - i /\ r[j - i] = Quote
      /\ \A k \in 1 .. j - 1 - i : r[k] = (o \o q)[k]
  <2> DEFINE e == o \o q
             L == Len(e)
             M == Len(o)
  <2>1. e \in Seq(T) /\ o \in Seq(T) /\ L = j - 1 - i /\ M = 1
    BY <1>6, <1>7
  <2> HIDE DEF e
  <2>2. /\ e \o o \in Seq(T) /\ Len(e \o o) = L + M /\ \A k \in 1 .. L : (e \o o)[k] = e[k]
        /\ \A k \in L + 1 .. L + M : (e \o o)[k] = o[k - L]
    BY <2>1, Joined
  <2>3. r = e \o o
    BY DEF e
  <2> HIDE DEF L, M, r
  <2>4. L + M = j - i /\ j - i \in L + 1 .. L + M /\ (j - i) - L = 1
    BY <1>1, <2>1
  <2> QED
    BY <1>6, <2>1, <2>2, <2>3, <2>4 DEF e
<1> HIDE DEF r
<1>9. ASSUME NEW k \in 1 .. j - i PROVE r[k] = w[k]
  <2>1. CASE k = 1
    <3>1. 1 \in 1 .. j - 1 - i /\ i + 1 - 1 = i
      BY <1>1
    <3> QED
      BY <1>2, <1>5, <1>7, <1>8, <2>1, <3>1
  <2>2. CASE k \in 2 .. j - 1 - i
    <3>1. k \in 1 .. j - 1 - i /\ k - 1 \in 1 .. j - 2 - i /\ i + (k - 1) = i + k - 1
      BY <1>1, <2>2
    <3> QED
      BY <1>4, <1>5, <1>7, <1>8, <2>2, <3>1
  <2>3. CASE k = j - i
    <3>1. i + k - 1 = j - 1
      BY <1>1, <2>3
    <3> QED
      BY <1>2, <1>5, <1>8, <2>3, <3>1
  <2> QED
    BY <1>1, <2>1, <2>2, <2>3
<1>10. r = w
  BY <1>5, <1>8, <1>9
<1> QED
  BY <1>10 DEF r, o, q, w

(* An id is accepted when it is fit for one, and comes back as it was sent.          *)
LEMMA IdBack ==
  ASSUME NEW s, NEW tree, Treed(s, tree), MaxInt \in Nat, IntDigits \in Nat,
         NEW w \in DOMAIN tree, NEW id, id = IdOf(s, w)
  PROVE  /\ id.answer \in {"Ok", "Err"}
         /\ (id.answer = "Ok") <=> Fit(s, w)
         /\ Fit(s, w) => Echoed(s, w, put_id(s, id))
<1> DEFINE a == w[1]
           b == w[2]
<1>1. GoodValue(s, tree, w) /\ w = <<a, b>> /\ s \in Seq(Token)
  BY DEF Treed, Textual
<1>2. a \in 1 .. Len(s) /\ b \in a + 1 .. Len(s) + 1 /\ a \in Nat /\ b \in Nat /\ a < b
  BY <1>1 DEF GoodValue
<1>3. CASE Is(s, w, "null")
  <2>1. id = [answer |-> "Ok", null |-> TRUE]
    BY <1>3 DEF IdOf
  <2>2. put_id(s, id) = <<"null">>
    BY <2>1 DEF put_id
  <2>3. b = a + 1 /\ s[a] = "null"
    BY <1>3 DEF Is
  <2> HIDE DEF a, b
  <2>4. b - 1 = a
    BY <1>2, <2>3
  <2>5. SubSeq(s, a, a) = <<s[a]>>
    <3> DEFINE q == SubSeq(s, a, a)
               r == <<s[a]>>
    <3>1. q \in Seq(Token) /\ Len(q) = 1 /\ q[1] = s[a]
      BY <1>1, <1>2
    <3>2. r \in Seq(Token) /\ Len(r) = 1 /\ r[1] = s[a]
      BY <1>1, <1>2
    <3> HIDE DEF q, r
    <3>3. q = r
      BY <3>1, <3>2
    <3> QED
      BY <3>3 DEF q, r
  <2>6. put_id(s, id) = SubSeq(s, a, b - 1)
    BY <2>2, <2>3, <2>4, <2>5
  <2> QED
    BY <1>3, <2>1, <2>6 DEF Fit, Echoed, a, b
<1>4. CASE ~Is(s, w, "null") /\ s[a] = Quote
  <2>1. id = as_str(s, w)
    BY <1>4 DEF IdOf
  <2>2. parse_i64(s, w) = Refuse("BadNumber")
    <3> HIDE DEF a, b
    <3> QED
      BY <1>1, <1>2, <1>4, NoNumber
  <2>3. Refuse("BadNumber").answer = "Err" /\ Refuse("EscapedString").answer = "Err"
    BY DEF Refuse
  <2>4. CASE Escaped(s, a, b)
    <3>1. id = Refuse("EscapedString")
      BY <1>4, <2>1, <2>4, StringOf
    <3> QED
      BY <1>4, <2>1, <2>2, <2>3, <3>1 DEF Fit
  <2>5. CASE ~Escaped(s, a, b)
    <3>1. id = [answer |-> "Ok", str |-> <<a + 1, b - 1>>] /\ Quoted(s, a, b)
      BY <1>4, <2>1, <2>5, StringOf
    <3>2. put_id(s, id) = <<Quote>> \o SubSeq(s, a + 1, (b - 1) - 1) \o <<Quote>>
      <4>1. "int" \notin DOMAIN id /\ "str" \in DOMAIN id
        BY <3>1
      <4>2. id.str[1] = a + 1 /\ id.str[2] = b - 1
        BY <3>1
      <4> HIDE DEF a, b
      <4> QED
        BY <4>1, <4>2 DEF put_id
    <3> HIDE DEF a, b
    <3>3. (b - 1) - 1 = b - 2
      BY <1>2
    <3>4. put_id(s, id) = SubSeq(s, a, b - 1)
      BY <1>1, <1>2, <3>1, <3>2, <3>3, QuotedBack
    <3> QED
      BY <2>1, <3>1, <3>4 DEF Fit, Echoed, a, b
  <2> QED
    BY <2>4, <2>5
<1>5. CASE ~Is(s, w, "null") /\ s[a] # Quote
  <2>1. id = parse_i64(s, w)
    BY <1>5 DEF IdOf
  <2>2. as_str(s, w) = Refuse("BadJson")
    BY <1>5, StringOf
  <2>3. Refuse("BadJson").answer = "Err" /\ Refuse("BadNumber").answer = "Err"
    BY DEF Refuse
  <2> HIDE DEF a, b
  <2>4. id = Refuse("BadNumber") \/ id.answer = "Ok"
    <3> DEFINE value == IF Minus(s, a, b) THEN 0 - Total(s, a, b) ELSE Total(s, a, b)
    <3>0. InRange(s, a, b) => id = [answer |-> "Ok", int |-> value]
      BY <1>1, <1>2, <2>1, ParseIs
    <3> HIDE DEF value
    <3>1. InRange(s, a, b) => id.answer = "Ok"
      BY <3>0
    <3>2. ~InRange(s, a, b) => id = Refuse("BadNumber")
      BY <1>1, <1>2, <2>1, ParseIs
    <3> QED
      BY <3>1, <3>2
  <2>5. id.answer = "Ok" => Echoed(s, w, put_id(s, id))
    BY <1>1, <1>2, <2>1, NumberBack DEF Echoed
  <2> QED
    BY <1>5, <2>1, <2>2, <2>3, <2>4, <2>5 DEF Fit
<1> QED
  BY <1>3, <1>4, <1>5

(* A field that can be seen is a value of the text, hence not none.                  *)
LEMMA FieldIs ==
  ASSUME NEW s, NEW tree, Treed(s, tree), NEW v \in DOMAIN tree, NEW key,
         Seen(s, tree[v].items, key)
  PROVE  FirstOf(s, tree[v].items, key) \in DOMAIN tree /\ FirstOf(s, tree[v].items, key) # None
<1> DEFINE items == tree[v].items
           P == Sames(s, items, key)
           k == lowest(P)
<1>1. GoodValue(s, tree, v)
  BY DEF Treed
<1>2. /\ items \in Seq(Item)
      /\ \A n \in DOMAIN items : <<items[n].from, items[n].to>> \in DOMAIN tree
  BY <1>1 DEF GoodValue
<1>3. FirstOf(s, items, key) = <<items[k].from, items[k].to>>
  BY DEF FirstOf
<1>4. P \in SUBSET (DOMAIN items) /\ P # {}
  BY DEF Sames, Seen
<1> HIDE DEF items, P
<1>5. P \in SUBSET Nat
  BY <1>2, <1>4
<1>6. k \in DOMAIN items
  BY <1>4, <1>5, LowestIs
<1> HIDE DEF k
<1>7. FirstOf(s, items, key) \in DOMAIN tree /\ FirstOf(s, items, key) # None
  BY <1>2, <1>3, <1>6 DEF None
<1> QED
  BY <1>7 DEF items

(* The id of an object not beyond the cap.                                        *)
LEMMA IdRead ==
  ASSUME NEW s, NEW tree, Treed(s, tree), MAX_DEPTH \in Nat, NEW v \in DOMAIN tree,
         NEW to \in Nat, Object(s, tree, v, to), NEW items, items = tree[v].items
  PROVE  /\ Seen(s, items, "id") => Id(s, v) = IdOf(s, FirstOf(s, items, "id"))
         /\ ~Seen(s, items, "id") => Id(s, v) = [answer |-> "Ok", absent |-> TRUE]
<1> DEFINE raw == obj_get_raw(s, v, "id")
           w == FirstOf(s, items, "id")
           seen == Seen(s, items, "id")
<1>1. raw = IF seen THEN w ELSE None
  BY FieldRead
<1>2. Id(s, v) = IF raw = None THEN [answer |-> "Ok", absent |-> TRUE]
                 ELSE IF Is(s, raw, "null") THEN [answer |-> "Ok", null |-> TRUE]
                 ELSE IF s[raw[1]] = Quote THEN as_str(s, raw)
                 ELSE parse_i64(s, raw)
  BY DEF Id
<1>3. seen => w # None
  BY FieldIs
<1> HIDE DEF raw, w, seen
<1>4. seen => Id(s, v) = IdOf(s, w)
  <2>1. SUFFICES ASSUME seen PROVE Id(s, v) = IdOf(s, w)
    OBVIOUS
  <2>2. raw = w /\ raw # None
    BY <1>1, <1>3, <2>1
  <2> QED
    BY <1>2, <2>2, Zenon DEF IdOf
<1>5. ~seen => Id(s, v) = [answer |-> "Ok", absent |-> TRUE]
  BY <1>1, <1>2, Zenon
<1> QED
  BY <1>4, <1>5 DEF w, seen

(* What a request is refused for, and what it says, by its tree.                      *)
Wanted(s, items) ==
  /\ Seen(s, items, "jsonrpc") /\ as_str(s, FirstOf(s, items, "jsonrpc")).answer = "Ok"
  /\ Is(s, as_str(s, FirstOf(s, items, "jsonrpc")).str, "2.0")
  /\ Seen(s, items, "method") /\ as_str(s, FirstOf(s, items, "method")).answer = "Ok"
  /\ Seen(s, items, "id") => Fit(s, FirstOf(s, items, "id"))

Answer(s, items, id) ==
  [answer |-> "Ok", method |-> as_str(s, FirstOf(s, items, "method")).str, id |-> id,
   params |-> IF Seen(s, items, "params") THEN FirstOf(s, items, "params") ELSE None]

(* An object beyond the cap is refused.                                          *)
Framed(s, v) ==
  s[v[1]] = "{" /\ Void(s, 1, v[1]) /\ Void(s, v[2], Len(s) + 1)

LEMMA ObjectSpan ==
  ASSUME NEW s, NEW tree, Treed(s, tree), MAX_DEPTH \in Nat, NEW v \in DOMAIN tree, Framed(s, v)
  PROVE  /\ trim(s, <<1, Len(s) + 1>>) = v
         /\ At(s, v[1], v[2]) = "{"
         /\ tree[v].depth <= MAX_DEPTH + 1 =>
              value_end(s, v[1], v[2], 0) = v[2] /\ ~(v[2] < 0) /\ ~(v[2] < v[2])
         /\ ~(tree[v].depth <= MAX_DEPTH + 1) => value_end(s, v[1], v[2], 0) = TooDeep
<1> DEFINE i == v[1]
           j == v[2]
<1>1. GoodValue(s, tree, v) /\ v = <<i, j>> /\ s \in Seq(Token)
  BY DEF Treed, Textual
<1>2. i \in 1 .. Len(s) /\ j \in i + 1 .. Len(s) + 1
  BY <1>1 DEF GoodValue
<1>3. s[i] # "ws" /\ s[j - 1] # "ws"
  BY TrimValue
<1>4. s[i] = "{" /\ Void(s, 1, i) /\ Void(s, j, Len(s) + 1)
  BY DEF Framed
<1>5. j \in 0 .. Len(s) + 1 /\ j <= j /\ i \in Nat /\ j \in Nat /\ Len(s) + 1 \in Nat /\ i < j
      /\ 1 <= i /\ j <= Len(s) + 1
  BY <1>1, <1>2
<1>6. value_end(s, i, j, 0) = IF tree[v].depth <= MAX_DEPTH + 1 THEN j ELSE TooDeep
  BY <1>5, ValueEnds
<1> HIDE DEF i, j
<1>7. trim(s, <<1, Len(s) + 1>>) = <<i, j>>
  <2> DEFINE L == Len(s) + 1
             one == 1
  <2>1. /\ L \in Nat /\ one \in Nat /\ i \in Nat /\ j \in Nat
        /\ one <= i /\ i < j /\ j <= L
    BY <1>5
  <2>2. Void(s, one, i) /\ Void(s, j, L)
    BY <1>4
  <2> HIDE DEF L, one
  <2>3. trim(s, <<one, L>>) = <<i, j>>
    BY <1>3, <2>1, <2>2, TrimIs
  <2> QED
    BY <2>3 DEF L, one
<1>8. At(s, i, j) = "{"
  BY <1>4, <1>5 DEF At
<1>9. ~(j < 0) /\ ~(j < j)
  BY <1>5
<1> QED
  BY <1>1, <1>6, <1>7, <1>8, <1>9, Zenon DEF i, j

(* parse_request gives that answer, and to nothing else a good one.                  *)
LEMMA RequestRead ==
  ASSUME NEW s, NEW tree, Treed(s, tree), MAX_DEPTH \in Nat, MaxInt \in Nat, IntDigits \in Nat,
         NEW v \in DOMAIN tree, Framed(s, v), NEW items, items = tree[v].items
  PROVE  /\ (parse_request(s).answer = "Ok") <=>
              tree[v].depth <= MAX_DEPTH + 1 /\ Wanted(s, items)
         /\ parse_request(s).answer = "Ok" => parse_request(s) = Answer(s, items, Id(s, v))
         /\ tree[v].depth <= MAX_DEPTH + 1 =>
              /\ Seen(s, items, "id") => Id(s, v) = IdOf(s, FirstOf(s, items, "id"))
              /\ ~Seen(s, items, "id") => Id(s, v) = [answer |-> "Ok", absent |-> TRUE]
<1> DEFINE F(key) == FirstOf(s, items, key)
           S(key) == Seen(s, items, key)
           end    == value_end(s, v[1], v[2], 0)
           ver    == obj_get_raw(s, v, "jsonrpc")
           method == obj_get_raw(s, v, "method")
           params == obj_get_raw(s, v, "params")
           id     == Id(s, v)
           r      == parse_request(s)
           value  == [answer |-> "Ok", method |-> as_str(s, method).str, id |-> id,
                      params |-> params]
           Fine   == tree[v].depth <= MAX_DEPTH + 1
<1>1. /\ trim(s, <<1, Len(s) + 1>>) = v /\ At(s, v[1], v[2]) = "{"
      /\ Fine => end = v[2] /\ ~(v[2] < 0) /\ ~(v[2] < v[2])
      /\ ~Fine => end = TooDeep
  BY ObjectSpan
<1>2. r = IF At(s, v[1], v[2]) # "{" THEN Refuse("BadRequest")
          ELSE IF end < 0 THEN Refuse(IF end = TooDeep THEN "TooDeep" ELSE "BadJson")
          ELSE IF end < v[2] THEN Refuse("BadJson")
          ELSE IF ver = None THEN Refuse("BadRequest")
          ELSE IF as_str(s, ver).answer = "Err" THEN as_str(s, ver)
          ELSE IF ~Is(s, as_str(s, ver).str, "2.0") THEN Refuse("BadRequest")
          ELSE IF method = None THEN Refuse("BadRequest")
          ELSE IF as_str(s, method).answer = "Err" THEN as_str(s, method)
          ELSE IF id.answer = "Err" THEN id
          ELSE value
  BY <1>1 DEF parse_request
<1>3. \A why : Refuse(why).answer = "Err" /\ Refuse(why).answer # "Ok"
  BY DEF Refuse
<1>4. CASE ~Fine
  <2>1. end < 0
    <3>1. end = TooDeep
      BY <1>1, <1>4, Zenon
    <3> HIDE DEF end
    <3> QED
      BY <3>1 DEF TooDeep
  <2>2. PICK why : r = Refuse(why)
    <3> HIDE DEF end, r, id, value
    <3> QED
      BY <1>1, <1>2, <2>1, Zenon
  <2>3. r.answer # "Ok"
    BY <1>3, <2>2
  <2> QED
    BY <1>4, <2>3
<1>5. CASE Fine
  <2> DEFINE to == v[2] - 1
  <2>1. to \in Nat /\ Object(s, tree, v, to)
    <3>1. GoodValue(s, tree, v) /\ s[v[1]] = "{"
      BY DEF Treed, Framed
    <3>2. v[1] \in 1 .. Len(s) /\ v[2] \in v[1] + 1 .. Len(s) + 1 /\ s \in Seq(Token)
      BY <3>1 DEF GoodValue, Treed, Textual
    <3>3. v[2] - 1 \in Nat /\ v[2] = (v[2] - 1) + 1
      BY <3>2
    <3> QED
      BY <1>5, <3>1, <3>3 DEF Object
  <2> HIDE DEF to
  <2>2. /\ ver = IF S("jsonrpc") THEN F("jsonrpc") ELSE None
        /\ method = IF S("method") THEN F("method") ELSE None
        /\ params = IF S("params") THEN F("params") ELSE None
    BY <2>1, FieldRead
  <2>3. /\ S("jsonrpc") => F("jsonrpc") \in DOMAIN tree /\ F("jsonrpc") # None
        /\ S("method") => F("method") \in DOMAIN tree /\ F("method") # None
        /\ S("id") => F("id") \in DOMAIN tree
    BY FieldIs
  <2>4. /\ S("id") => id = IdOf(s, F("id"))
        /\ ~S("id") => id = [answer |-> "Ok", absent |-> TRUE]
    BY <2>1, IdRead
  <2>5. id.answer \in {"Ok", "Err"} /\ ((id.answer = "Ok") <=> (S("id") => Fit(s, F("id"))))
    <3>1. CASE S("id")
      BY <2>3, <2>4, <3>1, IdBack
    <3>2. CASE ~S("id")
      <4>1. id.answer = "Ok"
        BY <2>4, <3>2
      <4> QED
        BY <3>2, <4>1
    <3> QED
      BY <3>1, <3>2
  <2>6. \A w \in DOMAIN tree : as_str(s, w).answer \in {"Ok", "Err"}
    <3>1. TAKE w \in DOMAIN tree
    <3>2. \/ as_str(s, w) = Refuse("BadJson") \/ as_str(s, w) = Refuse("EscapedString")
          \/ as_str(s, w) = [answer |-> "Ok", str |-> <<w[1] + 1, w[2] - 1>>]
      BY <3>1, StringOf
    <3> DEFINE str == <<w[1] + 1, w[2] - 1>>
               x == as_str(s, w)
    <3> HIDE DEF str, x
    <3>3. x = Refuse("BadJson") \/ x = Refuse("EscapedString") \/ x = [answer |-> "Ok", str |-> str]
      BY <3>2 DEF str, x
    <3>4. x.answer \in {"Ok", "Err"}
      BY <1>3, <3>3
    <3> QED
      BY <3>4 DEF x
  <2>7. r = IF ver = None THEN Refuse("BadRequest")
          ELSE IF as_str(s, ver).answer = "Err" THEN as_str(s, ver)
          ELSE IF ~Is(s, as_str(s, ver).str, "2.0") THEN Refuse("BadRequest")
          ELSE IF method = None THEN Refuse("BadRequest")
          ELSE IF as_str(s, method).answer = "Err" THEN as_str(s, method)
          ELSE IF id.answer = "Err" THEN id
          ELSE value
    <3>1. ~(end < 0) /\ ~(end < v[2])
      BY <1>1, <1>5
    <3> HIDE DEF end, r, id, value, ver, method
    <3> QED
      BY <1>1, <1>2, <3>1, Zenon
  <2>8. value.answer = "Ok"
    <3> HIDE DEF id, params, method
    <3> QED
      OBVIOUS
  <2>9. "Ok" # "Err"
    OBVIOUS
  <2> DEFINE V == as_str(s, ver)
             M == as_str(s, method)
             Good == /\ ver # None /\ V.answer # "Err" /\ Is(s, V.str, "2.0")
                     /\ method # None /\ M.answer # "Err" /\ id.answer # "Err"
  <2>10. (Good => r = value) /\ (~Good => r.answer = "Err")
    <3> HIDE DEF id, value, ver, method, r
    <3>1. Good => r = value
      BY <2>7, Zenon
    <3>2. ~Good => \/ r = Refuse("BadRequest")
                   \/ r = V /\ V.answer = "Err"
                   \/ r = M /\ M.answer = "Err"
                   \/ r = id /\ id.answer = "Err"
      BY <2>7, Zenon
    <3>3. ~Good => r.answer = "Err"
      BY <1>3, <3>2, Zenon
    <3> QED
      BY <3>1, <3>3
  <2>11. (r.answer = "Ok") <=> Good
    BY <2>8, <2>9, <2>10
  <2>12. Good <=> Wanted(s, items)
    <3>1. ver # None <=> S("jsonrpc")
      BY <2>2, <2>3, Zenon
    <3>2. method # None <=> S("method")
      BY <2>2, <2>3, Zenon
    <3>3. S("jsonrpc") => ver = F("jsonrpc") /\ V.answer \in {"Ok", "Err"}
      BY <2>2, <2>3, <2>6, Zenon
    <3>4. S("method") => method = F("method") /\ M.answer \in {"Ok", "Err"}
      BY <2>2, <2>3, <2>6, Zenon
    <3>5. Wanted(s, items) <=> /\ S("jsonrpc") /\ as_str(s, F("jsonrpc")).answer = "Ok"
                               /\ Is(s, as_str(s, F("jsonrpc")).str, "2.0")
                               /\ S("method") /\ as_str(s, F("method")).answer = "Ok"
                               /\ S("id") => Fit(s, F("id"))
      BY DEF Wanted
    <3> HIDE DEF F, S, ver, method, id
    <3>6. S("jsonrpc") => (V.answer # "Err" <=> as_str(s, F("jsonrpc")).answer = "Ok")
      BY <3>3, <2>9
    <3>7. S("method") => (M.answer # "Err" <=> as_str(s, F("method")).answer = "Ok")
      BY <3>4, <2>9
    <3>8. id.answer # "Err" <=> (S("id") => Fit(s, F("id")))
      BY <2>5, <2>9
    <3> QED
      BY <3>1, <3>2, <3>3, <3>4, <3>5, <3>6, <3>7, <3>8
  <2>13. Good => value = Answer(s, items, id)
    <3>1. Good => method = F("method")
      BY <2>2, Zenon
    <3> QED
      BY <2>2, <3>1, Zenon DEF Answer
  <2> HIDE DEF Good, value, r, id, S, F
  <2>14. r.answer = "Ok" => r = Answer(s, items, id)
    BY <2>10, <2>11, <2>13
  <2> QED
    BY <1>5, <2>4, <2>11, <2>12, <2>14 DEF r, id, S, F
<1> QED
  BY <1>4, <1>5

-----------------------------------------------------------------------------
(* The property.                                                             *)

McpInv ==
  /\ message \in Messages
  /\ result # Unread =>
       /\ result = parse_request(message.text)
       /\ result.answer = "Ok" => reply = put_id(message.text, result.id)

LEMMA MessageIs ==
  ASSUME NEW m \in Messages
  PROVE  /\ Treed(m.text, m.tree) /\ m.root \in DOMAIN m.tree /\ Framed(m.text, m.root)
         /\ MAX_DEPTH \in Nat /\ MaxInt \in Nat /\ IntDigits \in Nat
<1>1. GoodMessage(m) /\ "end" \notin Token
  BY McpAssumption
<1> QED
  BY <1>1, McpAssumption DEF GoodMessage, Treed, Textual, Framed

LEMMA RoundTripOf == McpInv => McpRoundTrip
<1> DEFINE s == message.text
           tree == message.tree
           v == message.root
           items == tree[v].items
           F(key) == FirstOf(s, items, key)
           S(key) == Seen(s, items, key)
           Fine == tree[v].depth <= MAX_DEPTH + 1
           r == parse_request(s)
           id == Id(s, v)
           Ok == Fine /\ Wanted(s, items)
           M == as_str(s, F("method"))
<1>1. SUFFICES ASSUME McpInv, result # Unread PROVE McpRoundTrip
  BY DEF McpRoundTrip
<1>2. /\ Treed(s, tree) /\ v \in DOMAIN tree /\ Framed(s, v)
      /\ MAX_DEPTH \in Nat /\ MaxInt \in Nat /\ IntDigits \in Nat
  BY <1>1, MessageIs DEF McpInv
<1>3. result = r /\ (r.answer = "Ok" => reply = put_id(s, r.id))
  BY <1>1 DEF McpInv
<1>4. /\ r.answer = "Ok" <=> Ok
      /\ r.answer = "Ok" => r = Answer(s, items, id)
      /\ Fine => /\ S("id") => id = IdOf(s, F("id"))
                 /\ ~S("id") => id = [answer |-> "Ok", absent |-> TRUE]
  BY <1>2, RequestRead
(* The fields of the tree, in the words of the property.                            *)
<1>5. \A key : Called(key) = Sames(s, items, key)
  BY DEF Called, Sames, Sought, Items, Key
<1>6. \A key : First(key) = F(key)
  BY <1>5 DEF First, FirstOf, Slice, Items
<1>7. \A key : Visible(key) <=> S(key)
  <2>1. \A k : Escaped(s, Key(k)[1], Key(k)[2]) <=> Hiding(s, items[k])
    BY DEF Hiding, Key, Items
  <2> HIDE DEF s, items
  <2> QED
    BY <1>5, <2>1 DEF Visible, Seen, s
<1>8. \A x : Proper(x) <=> Fit(s, x)
  BY DEF Proper, Fit
<1>9. S("id") => F("id") \in DOMAIN tree
  BY <1>2, FieldIs
<1>10. S("method") => F("method") \in DOMAIN tree
  BY <1>2, FieldIs
<1> HIDE DEF F, S, r, id, items
<1>11. r.answer = "Ok" => Wanted(s, items) /\ Fine
  BY <1>4
<1>12. Wanted(s, items) <=>
         /\ S("jsonrpc") /\ as_str(s, F("jsonrpc")).answer = "Ok"
         /\ Is(s, as_str(s, F("jsonrpc")).str, "2.0")
         /\ S("method") /\ M.answer = "Ok"
         /\ S("id") => Fit(s, F("id"))
  BY DEF Wanted, S, F
<1>13. ASSUME Ok PROVE F("method") = <<result.method[1] - 1, result.method[2] + 1>>
  <2> DEFINE w == F("method")
             a == w[1]
             b == w[2]
  <2>1. w \in DOMAIN tree /\ M.answer = "Ok"
    BY <1>10, <1>12, <1>13
  <2>2. w = <<a, b>> /\ GoodValue(s, tree, w)
    BY <1>2, <2>1 DEF Treed
  <2>3. a \in Nat /\ b \in Nat
    <3>1. s \in Seq(Token)
      BY <1>2 DEF Treed, Textual
    <3>2. a \in 1 .. Len(s) /\ b \in a + 1 .. Len(s) + 1
      BY <2>2 DEF GoodValue
    <3> HIDE DEF a, b, s
    <3> QED
      BY <3>1, <3>2
  <2>4. M = [answer |-> "Ok", str |-> <<a + 1, b - 1>>]
    <3>1. Refuse("BadJson").answer # "Ok" /\ Refuse("EscapedString").answer # "Ok"
      BY DEF Refuse
    <3> QED
      BY <1>2, <2>1, <3>1, StringOf
  <2>5. r = Answer(s, items, id)
    BY <1>4, <1>13
  <2>6. result.method = M.str
    BY <1>3, <2>5 DEF Answer, F
  <2>7. result.method = <<a + 1, b - 1>>
    BY <2>4, <2>6
  <2> HIDE DEF a, b, w, M
  <2>8. (a + 1) - 1 = a /\ (b - 1) + 1 = b
    BY <2>3
  <2>9. result.method[1] = a + 1 /\ result.method[2] = b - 1
    BY <2>7
  <2> QED
    BY <2>2, <2>8, <2>9 DEF w
<1>14. ASSUME Ok PROVE result.params = IF S("params") THEN F("params") ELSE None
  <2>1. r = Answer(s, items, id)
    BY <1>4, <1>14
  <2> QED
    BY <1>3, <2>1 DEF Answer, F, S
<1>15. ASSUME Ok
       PROVE  IF S("id") THEN Echoed(s, F("id"), reply) ELSE reply = <<"null">>
  <2>1. r = Answer(s, items, id) /\ r.answer = "Ok"
    BY <1>4, <1>15
  <2>2. reply = put_id(s, id)
    <3>1. Answer(s, items, id).id = id
      BY DEF Answer
    <3> QED
      BY <1>3, <2>1, <3>1
  <2>3. CASE S("id")
    <3>1. F("id") \in DOMAIN tree /\ id = IdOf(s, F("id")) /\ Fit(s, F("id"))
      BY <1>4, <1>9, <1>12, <1>15, <2>3
    <3>2. Echoed(s, F("id"), put_id(s, id))
      BY <1>2, <3>1, IdBack
    <3> QED
      BY <2>2, <2>3, <3>2
  <2>4. CASE ~S("id")
    <3>1. id = [answer |-> "Ok", absent |-> TRUE]
      BY <1>4, <1>15, <2>4
    <3>2. put_id(s, id) = <<"null">>
      BY <3>1 DEF put_id
    <3> QED
      BY <2>2, <2>4, <3>2
  <2> QED
    BY <2>3, <2>4
<1>16. Echoed(s, F("id"), reply) => reply = Said("id") \/ SameNumber
  BY <1>6 DEF Echoed, Said, SameNumber
<1> DEFINE ok == /\ Fine
                 /\ Visible("jsonrpc") /\ as_str(s, First("jsonrpc")).answer = "Ok"
                 /\ Is(s, as_str(s, First("jsonrpc")).str, "2.0")
                 /\ Visible("method") /\ as_str(s, First("method")).answer = "Ok"
                 /\ Visible("id") => Proper(First("id"))
<1>17. ok <=> Ok
  BY <1>6, <1>7, <1>8, <1>12
<1>18. (result.answer = "Ok") <=> ok
  BY <1>3, <1>4, <1>17
<1>19. ok => /\ First("method") = <<result.method[1] - 1, result.method[2] + 1>>
             /\ result.params = IF Visible("params") THEN First("params") ELSE None
             /\ IF Visible("id") THEN reply = Said("id") \/ SameNumber
                                 ELSE reply = <<"null">>
  <2> HIDE DEF ok, Ok
  <2>1. SUFFICES ASSUME Ok
        PROVE  /\ First("method") = <<result.method[1] - 1, result.method[2] + 1>>
               /\ result.params = IF Visible("params") THEN First("params") ELSE None
               /\ IF Visible("id") THEN reply = Said("id") \/ SameNumber
                                   ELSE reply = <<"null">>
    BY <1>17
  <2>2. result.params = IF Visible("params") THEN First("params") ELSE None
    BY <1>6, <1>7, <1>14, <2>1, Zenon
  <2>3. IF Visible("id") THEN reply = Said("id") \/ SameNumber ELSE reply = <<"null">>
    BY <1>7, <1>15, <1>16, <2>1, Zenon
  <2> QED
    BY <1>6, <1>13, <2>1, <2>2, <2>3, Zenon
<1> QED
  BY <1>18, <1>19 DEF McpRoundTrip

(* Whatever surrounds it: a request is read as written, and refused only for what is  *)
(* missing, of the wrong kind, or too deep; its id comes back as it was sent.          *)
THEOREM RequestsRoundTrip == McpInit /\ [][McpNext]_mcpVars => []McpRoundTrip
<1>1. McpInit => McpInv
  BY DEF McpInit, McpInv
<1>2. McpInv /\ [McpNext]_mcpVars => McpInv'
  <2> SUFFICES ASSUME McpInv, [McpNext]_mcpVars PROVE McpInv'
    OBVIOUS
  <2>1. CASE Handle
    BY <2>1 DEF McpInv, Handle
  <2>2. CASE UNCHANGED mcpVars
    BY <2>2 DEF McpInv, mcpVars
  <2> QED
    BY <2>1, <2>2 DEF McpNext
<1> QED
  BY <1>1, <1>2, RoundTripOf, PTL

=============================================================================
