------------------------------- MODULE HttpProofs -------------------------------
(* Every request of a client that keeps to the grammar and the caps is served   *)
(* as it was meant, whole and once, however the stream is cut (Http).  The lemmas *)
(* on recursive functions are those of LinearMemoryProofs.                     *)
EXTENDS Http, LinearMemoryProofs

-----------------------------------------------------------------------------
(* Where a line ends, and texts one of which goes on where the other ends.  *)

(* c goes on where b ends.                                                        *)
Prefix(b, c) == Len(b) <= Len(c) /\ \A i \in 1 .. Len(b) : b[i] = c[i]

(* Where a CR LF is.                                                             *)
Pair(b, i) == b[i] = "CR" /\ b[i + 1] = "LF"

(* find_crlf: the first pair from i on, or none.                            *)
LEMMA CrlfIs ==
  ASSUME NEW b \in Seq(Symbol), NEW from \in Nat \ {0}
  PROVE  \/ /\ find_crlf(b, from) = 0
            /\ \A i \in from .. Len(b) - 1 : ~Pair(b, i)
         \/ /\ find_crlf(b, from) \in from .. Len(b) - 1
            /\ Pair(b, find_crlf(b, from))
            /\ \A i \in from .. find_crlf(b, from) - 1 : ~Pair(b, i)
<1> DEFINE at == {i \in from .. Len(b) - 1 : b[i] = "CR" /\ b[i + 1] = "LF"}
<1>1. at \in SUBSET Nat /\ \A i : i \in at <=> i \in from .. Len(b) - 1 /\ Pair(b, i)
  BY DEF Pair
<1>2. find_crlf(b, from) = IF at = {} THEN 0 ELSE Least(at)
  BY DEF find_crlf
<1> HIDE DEF at
<1>3. CASE at = {}
  BY <1>1, <1>2, <1>3
<1>4. CASE at # {}
  <2>1. PICK m \in at : \A k \in at : m <= k
    BY <1>1, <1>4, LeastOf
  <2>2. Least(at) \in at /\ \A k \in at : Least(at) <= k
    BY <2>1 DEF Least
  <2>3. \A i \in from .. Least(at) - 1 : i \notin at
    BY <1>1, <2>2
  <2>4. find_crlf(b, from) = Least(at)
    BY <1>2, <1>4
  <2> DEFINE e == Least(at)
  <2>5. e \in from .. Len(b) - 1 /\ Pair(b, e)
    BY <1>1, <2>2
  <2> HIDE DEF e
  <2>6. \A i \in from .. e - 1 : ~Pair(b, i)
    BY <1>1, <2>3, <2>5 DEF e
  <2> QED
    BY <2>4, <2>5, <2>6 DEF e
<1> QED
  BY <1>3, <1>4

(* The number of it is what it is by.                                           *)
LEMMA CrlfAt ==
  ASSUME NEW b \in Seq(Symbol), NEW from \in Nat \ {0}, NEW e \in from .. Len(b) - 1,
         Pair(b, e), \A i \in from .. e - 1 : ~Pair(b, i)
  PROVE  find_crlf(b, from) = e
BY CrlfIs

(* What arrives later does not move a CR LF, and puts one no earlier than the end.  *)
LEMMA CrlfStays ==
  ASSUME NEW b \in Seq(Symbol), NEW c \in Seq(Symbol), Prefix(b, c), NEW from \in Nat \ {0}
  PROVE  /\ find_crlf(b, from) # 0 => find_crlf(c, from) = find_crlf(b, from)
         /\ find_crlf(b, from) = 0 /\ find_crlf(c, from) # 0 => find_crlf(c, from) >= Len(b)
<1>1. \A i \in 1 .. Len(b) - 1 : Pair(b, i) <=> Pair(c, i)
  BY DEF Prefix, Pair
<1>2. Len(b) \in Nat /\ Len(c) \in Nat /\ Len(b) <= Len(c)
  BY DEF Prefix
<1>3. CASE find_crlf(b, from) # 0
  <2> DEFINE e == find_crlf(b, from)
  <2>1. e \in from .. Len(b) - 1 /\ Pair(b, e) /\ \A i \in from .. e - 1 : ~Pair(b, i)
    BY <1>3, CrlfIs
  <2> HIDE DEF e
  <2>2. e \in from .. Len(c) - 1 /\ Pair(c, e) /\ \A i \in from .. e - 1 : ~Pair(c, i)
    BY <1>1, <1>2, <2>1
  <2>3. find_crlf(c, from) = e
    BY <2>2, CrlfAt
  <2> QED
    BY <1>3, <2>3 DEF e
<1>4. CASE find_crlf(b, from) = 0 /\ find_crlf(c, from) # 0
  <2> DEFINE e == find_crlf(c, from)
  <2>1. e \in from .. Len(c) - 1 /\ Pair(c, e)
    BY <1>4, CrlfIs
  <2>2. \A i \in from .. Len(b) - 1 : ~Pair(b, i)
    BY <1>4, CrlfIs
  <2> HIDE DEF e
  <2>3. e >= Len(b)
    BY <1>1, <1>2, <2>1, <2>2
  <2> QED
    BY <1>4, <2>3 DEF e
<1> QED
  BY <1>3, <1>4

(* Slices of one and of the other.                                             *)
LEMMA SlicesSame ==
  ASSUME NEW b \in Seq(Symbol), NEW c \in Seq(Symbol), Prefix(b, c),
         NEW m \in Nat \ {0}, NEW n \in Int, n <= Len(b)
  PROVE  SubSeq(b, m, n) = SubSeq(c, m, n)
BY DEF Prefix

-----------------------------------------------------------------------------
(* The words of a line: numbers, parts, what is trimmed, and header lines.  *)

(* A number is written with digits.                                              *)
LEMMA DecimalIs ==
  ASSUME NEW v \in Seq(Symbol)
  PROVE  parse_decimal(v) \in Nat \cup {-1}
<1> DEFINE L == Len(v)
           F == [p \in (1 .. L) \X Nat |-> 10 * p[2] + Digit[v[p[1]]]]
           IsNumber(f) == f = [k \in 0 .. L |-> IF k = 0 THEN 0
                                                ELSE 10 * f[k - 1] + Digit[v[k]]]
           number == CHOOSE f : IsNumber(f)
           none == v = << >> \/ L > MaxDigits \/ \E i \in DOMAIN v : v[i] \notin DOMAIN Digit
<1>1. parse_decimal(v) = IF none THEN -1 ELSE number[L]
  BY DEF parse_decimal
<1>2. CASE none
  BY <1>1, <1>2
<1>3. CASE ~none
  <2>1. L \in Nat /\ \A i \in 1 .. L : v[i] \in DOMAIN Digit
    BY <1>3
  <2>2. DOMAIN Digit = {"0", "1", "2"} /\ Digit["0"] = 0 /\ Digit["1"] = 1 /\ Digit["2"] = 2
    BY DEF Digit
  <2>3. \A i \in 1 .. L : Digit[v[i]] \in Nat
    BY <2>1, <2>2
  <2>4. F \in [(1 .. L) \X Nat -> Nat]
    BY <2>3
  <2>5. \A k \in 1 .. L, n \in Nat : F[<<k, n>>] = 10 * n + Digit[v[k]]
    OBVIOUS
  <2>6. 0 \in Nat
    OBVIOUS
  <2> HIDE DEF F
  <2>7. PICK f : Recurs(f, L, Nat, 0, F)
    BY <2>1, <2>4, <2>6, Recursion, Zenon
  <2>8. IsNumber(f)
    <3>1. f \in [0 .. L -> Nat] /\ f[0] = 0
      BY <2>7 DEF Recurs
    <3>2. \A k \in 1 .. L : f[k - 1] \in Nat
      BY <2>1, <3>1
    <3>3. \A k \in 1 .. L : f[k] = F[<<k, f[k - 1]>>]
      BY <2>7, Zenon DEF Recurs
    <3>4. \A k \in 1 .. L : f[k] = 10 * f[k - 1] + Digit[v[k]]
      BY ONLY <2>5, <3>2, <3>3, Zenon
    <3> QED
      BY <3>1, <3>4
  <2>9. IsNumber(number)
    BY <2>8
  <2> HIDE DEF number
  <2>10. number[0] = 0 /\ \A k \in 1 .. L : number[k] = 10 * number[k - 1] + Digit[v[k]]
    BY <2>1, <2>9
  <2> HIDE DEF IsNumber
  <2> DEFINE T == {k \in 0 .. L : number[k] \in Nat}
  <2>11. 0 \in T
    BY <2>1, <2>10
  <2>12. ASSUME NEW k \in 0 .. L - 1, k \in T
         PROVE  k + 1 \in T
    <3>1. number[k + 1] = 10 * number[k] + Digit[v[k + 1]] /\ Digit[v[k + 1]] \in Nat
      BY <2>1, <2>3, <2>10
    <3> QED
      BY <2>1, <2>12, <3>1
  <2>13. 0 .. L \subseteq T
    BY <2>1, <2>11, <2>12, UpTo
  <2> QED
    BY <1>1, <1>3, <2>1, <2>13
<1> QED
  BY <1>2, <1>3

(* Of a line, what a separator has on either side, and its inner part, are lines.  *)
LEMMA PartsAre ==
  ASSUME NEW text \in Seq(Symbol), NEW sep
  PROVE  \/ split_once(text, sep) = << >>
         \/ /\ split_once(text, sep) # << >>
            /\ split_once(text, sep)[1] \in Seq(Symbol) /\ split_once(text, sep)[2] \in Seq(Symbol)
<1> DEFINE at == {i \in DOMAIN text : text[i] = sep}
<1>1. split_once(text, sep) = IF at = {} THEN << >>
        ELSE << SubSeq(text, 1, Least(at) - 1), SubSeq(text, Least(at) + 1, Len(text)) >>
  BY DEF split_once
<1>2. at \in SUBSET Nat /\ at \subseteq 1 .. Len(text)
  OBVIOUS
<1> HIDE DEF at
<1>3. CASE at # {}
  <2>1. PICK m \in at : \A k \in at : m <= k
    BY <1>2, <1>3, LeastOf
  <2>2. Least(at) \in at
    BY <2>1 DEF Least
  <2>3. Least(at) \in 1 .. Len(text)
    BY <1>2, <2>2
  <2> DEFINE before == SubSeq(text, 1, Least(at) - 1)
             after  == SubSeq(text, Least(at) + 1, Len(text))
  <2>4. before \in Seq(Symbol) /\ after \in Seq(Symbol)
    BY <2>3
  <2>5. split_once(text, sep) = <<before, after>>
    BY <1>1, <1>3
  <2> HIDE DEF before, after
  <2> QED
    BY <2>4, <2>5
<1> QED
  BY <1>1, <1>3

(* What trim_ows leaves is of the same symbols.                             *)
LEMMA TrimIs ==
  ASSUME NEW v \in Seq(Symbol)
  PROVE  trim_ows(v) \in Seq(Symbol)
<1> DEFINE inner == {i \in DOMAIN v : v[i] \notin Blank}
           last == CHOOSE i \in inner : \A j \in inner : j <= i
<1>1. trim_ows(v) = IF inner = {} THEN << >> ELSE SubSeq(v, Least(inner), last)
  BY DEF trim_ows
<1>2. inner \in SUBSET Nat /\ inner \subseteq 1 .. Len(v)
  OBVIOUS
<1> HIDE DEF inner
<1>3. CASE inner # {}
  <2>1. PICK m \in inner : \A k \in inner : m <= k
    BY <1>2, <1>3, LeastOf
  <2>2. Least(inner) \in inner
    BY <2>1 DEF Least
  <2> DEFINE over == {k \in Nat : \A j \in inner : j <= k}
  <2>3. over \in SUBSET Nat /\ Len(v) \in over
    BY <1>2
  <2>4. PICK n \in over : \A k \in over : n <= k
    BY <2>3, LeastOf
  <2>5. n \in inner
    <3>1. CASE n \notin inner
      <4>1. n # 0 /\ n - 1 \in Nat
        BY <1>2, <2>1, <2>4
      <4>2. \A j \in inner : j <= n /\ j # n /\ j \in Nat
        BY <1>2, <2>4, <3>1
      <4>3. n - 1 \in over
        BY <4>1, <4>2
      <4> QED
        BY <2>4, <4>1, <4>3
    <3> QED
      BY <3>1
  <2>6. last \in inner
    BY <2>4, <2>5
  <2> HIDE DEF last
  <2> DEFINE first == Least(inner)
  <2>7. first \in 1 .. Len(v) /\ last \in 1 .. Len(v)
    BY <1>2, <2>2, <2>6
  <2>8. trim_ows(v) = SubSeq(v, first, last)
    BY <1>1, <1>3
  <2> HIDE DEF first
  <2>9. SubSeq(v, first, last) \in Seq(Symbol)
    BY <2>7
  <2> QED
    BY <2>8, <2>9
<1>4. CASE inner = {}
  <2>1. << >> \in Seq(Symbol)
    OBVIOUS
  <2> QED
    BY <1>1, <1>4, <2>1
<1> QED
  BY <1>3, <1>4

-----------------------------------------------------------------------------
(* A header line is refused for a reason, or leaves the request half read.         *)
LEMMA HeaderAnswers ==
  ASSUME NEW text \in Seq(Symbol), NEW next, NEW r, r.length \in Nat \cup {-1}
  PROVE  \/ header(text, next, r).answer = "Err" /\ header(text, next, r).why # "no"
         \/ /\ header(text, next, r).answer = "reading"
            /\ header(text, next, r).cursor = next
            /\ header(text, next, r).length \in Nat \cup {-1}
<1> DEFINE parts == split_once(text, ":")
           name  == parts[1]
           value == trim_ows(parts[2])
           n     == parse_decimal(value)
           then  == Reading(r.first, Append(r.headers, [name |-> name, value |-> value]),
                            IF IsLength(name) THEN n ELSE r.length, next)
<1>1. \A why : Err(why).answer = "Err" /\ Err(why).why = why
  BY DEF Err
<1>2. then.answer = "reading" /\ then.cursor = next
      /\ then.length = IF IsLength(name) THEN n ELSE r.length
  BY DEF Reading
<1>3. parts # << >> => n \in Nat \cup {-1}
  BY PartsAre, TrimIs, DecimalIs
<1>4. \/ header(text, next, r) \in {Err("LineTooLong"), Err("BadHeader"), Err("BadContentLength"),
                                     Err("TooManyHeaders")}
      \/ parts # << >> /\ header(text, next, r) = then
  <2> HIDE DEF then
  <2> QED
    BY DEF header, then
<1> HIDE DEF then, n, parts, name, value
<1> QED
  BY <1>1, <1>2, <1>3, <1>4

-----------------------------------------------------------------------------
(* A parse on a text and on one that goes on: nothing decided is decided anew.*)

(* A request half read, up to a line's end, and one on which b is decided.         *)
Halfway(b, r) ==
  /\ r.answer = "reading" /\ r.cursor \in 3 .. Len(b) + 1 /\ r.length \in Nat \cup {-1}
  /\ Pair(b, r.cursor - 2)

Settled(b, x) ==
  \/ x.answer = "Partial"
  \/ x.answer = "Err" /\ x.why # "no"
  \/ x.answer = "Complete" /\ x.consumed \in 1 .. Len(b)

(* b ends within a line of the maximal length and its CR, and c has the LF.         *)
AtCap(b, c, from, cap) ==
  /\ find_crlf(b, from) = 0 /\ Len(b) - from + 1 = cap + 1
  /\ Len(b) < Len(c) /\ b[Len(b)] = "CR" /\ c[Len(b) + 1] = "LF"

CutAt(b, c) ==
  \E from \in 1 .. Len(b) :
    /\ from # 1 => from > 2 /\ Pair(b, from - 2)
    /\ AtCap(b, c, from, IF from = 1 THEN MAX_REQUEST_LINE ELSE MAX_HEADER_LINE)

(* x, of b, is what y is of c: or it is yet to come, or spoilt by the cut.         *)
Agree(b, c, x, y) ==
  x.answer = "Partial" \/ (x = Err("LineTooLong") /\ CutAt(b, c)) \/ y = x

(* The caps are numbers.                                                    *)
LEMMA Caps ==
  /\ MAX_REQUEST_LINE \in Nat /\ MAX_HEADER_LINE \in Nat /\ MAX_HEADERS \in Nat /\ MAX_BODY \in Nat
BY HttpAssumption

(* How Partial and an error are told apart.                                 *)
LEMMA Answers ==
  /\ Partial.answer = "Partial"
  /\ \A why : Err(why).answer = "Err" /\ Err(why).why = why
BY DEF Partial, Err

(* The body of what is half read.                                                *)
LEMMA BodyAnswers ==
  ASSUME NEW b \in Seq(Symbol), NEW r, r.length \in Nat \cup {-1}, NEW cursor \in 2 .. Len(b) + 1
  PROVE  /\ Settled(b, Body(b, cursor, r))
         /\ Body(b, cursor, r).answer # "Err" /\ Body(b, cursor, r).answer # "reading"
         /\ \A c \in Seq(Symbol) : Prefix(b, c) =>
              Body(b, cursor, r).answer = "Partial" \/ Body(c, cursor, r) = Body(b, cursor, r)
<1> DEFINE n == IF r.length = -1 THEN 0 ELSE r.length
           Full(s) == [answer   |-> "Complete",
                       request  |-> [method |-> r.first.method, target |-> r.first.target,
                                     headers |-> r.headers, body |-> SubSeq(s, cursor, cursor + n - 1)],
                       consumed |-> cursor - 1 + n]
<1>1. n \in Nat /\ Len(b) \in Nat
  OBVIOUS
<1>2. \A s : Body(s, cursor, r) = IF Len(s) < cursor - 1 + n THEN Partial ELSE Full(s)
  BY DEF Body
<1>3. \A s : Full(s).answer = "Complete" /\ Full(s).consumed = cursor - 1 + n
  OBVIOUS
<1>4. ASSUME NEW c \in Seq(Symbol), Prefix(b, c), ~(Len(b) < cursor - 1 + n)
      PROVE  Full(c) = Full(b)
  <2>1. cursor + n - 1 \in Int /\ cursor + n - 1 <= Len(b) /\ cursor \in Nat \ {0}
    BY <1>1, <1>4
  <2>2. SubSeq(b, cursor, cursor + n - 1) = SubSeq(c, cursor, cursor + n - 1)
    BY <1>4, <2>1, SlicesSame
  <2> QED
    BY <2>2
<1> HIDE DEF n, Full
<1>5. CASE Len(b) < cursor - 1 + n
  BY <1>2, <1>5, Answers DEF Settled
<1>6. CASE ~(Len(b) < cursor - 1 + n)
  <2>1. Body(b, cursor, r) = Full(b) /\ cursor - 1 + n \in 1 .. Len(b)
    BY <1>1, <1>2, <1>6
  <2>2. ASSUME NEW c \in Seq(Symbol), Prefix(b, c)
        PROVE  Body(c, cursor, r) = Body(b, cursor, r)
    <3>1. ~(Len(c) < cursor - 1 + n)
      BY <1>1, <1>6, <2>2 DEF Prefix
    <3> QED
      BY <1>2, <1>4, <1>6, <2>1, <2>2, <3>1
  <2> QED
    BY <1>3, <2>1, <2>2 DEF Settled
<1> QED
  BY <1>5, <1>6

(* One turn on what is half read.                                               *)
LEMMA TurnAnswers ==
  ASSUME NEW b \in Seq(Symbol), NEW r, Halfway(b, r)
  PROVE  \/ Settled(b, read_line(b, r))
         \/ /\ Halfway(b, read_line(b, r))
            /\ read_line(b, r).cursor >= r.cursor + 2
<1> DEFINE x == read_line(b, r)
           end == find_crlf(b, r.cursor)
<1>1. /\ x = IF end = 0 THEN Unfinished(Len(b) - r.cursor + 1, MAX_HEADER_LINE)
             ELSE IF end = r.cursor THEN Body(b, end + 2, r)
             ELSE header(SubSeq(b, r.cursor, end - 1), end + 2, r)
  BY DEF read_line
<1>2. r.cursor \in 3 .. Len(b) + 1 /\ r.cursor \in Nat \ {0} /\ r.length \in Nat \cup {-1}
      /\ Len(b) \in Nat
  BY DEF Halfway
<1>3. end = 0 \/ (end \in r.cursor .. Len(b) - 1 /\ Pair(b, end))
  BY <1>2, CrlfIs
<1> HIDE DEF x, end
<1>4. CASE end = 0
  <2>1. x \in {Partial, Err("LineTooLong")}
    BY <1>1, <1>4 DEF Unfinished
  <2> QED
    BY <2>1, Answers DEF Settled, x
<1>5. CASE end # 0 /\ end = r.cursor
  <2>1. x = Body(b, end + 2, r) /\ end + 2 \in 2 .. Len(b) + 1
    BY <1>1, <1>2, <1>3, <1>5
  <2>2. Settled(b, Body(b, end + 2, r))
    BY <1>2, <2>1, BodyAnswers
  <2> QED
    BY <2>1, <2>2 DEF x
<1>6. CASE end # 0 /\ end # r.cursor
  <2> DEFINE text == SubSeq(b, r.cursor, end - 1)
  <2>1. text \in Seq(Symbol) /\ x = header(text, end + 2, r)
    BY <1>1, <1>2, <1>3, <1>6
  <2> HIDE DEF text
  <2>2. \/ x.answer = "Err" /\ x.why # "no"
        \/ x.answer = "reading" /\ x.cursor = end + 2 /\ x.length \in Nat \cup {-1}
    BY <1>2, <2>1, HeaderAnswers
  <2>3. end + 2 \in 3 .. Len(b) + 1 /\ end + 2 >= r.cursor + 2 /\ end + 2 - 2 = end
    BY <1>2, <1>3, <1>6
  <2> QED
    BY <1>3, <1>6, <2>2, <2>3 DEF Settled, Halfway, x
<1> QED
  BY <1>4, <1>5, <1>6

(* And it is the same turn, when more has come.                                  *)
LEMMA TurnStays ==
  ASSUME NEW b \in Seq(Symbol), NEW c \in Seq(Symbol), Prefix(b, c), NEW r, Halfway(b, r)
  PROVE  Agree(b, c, read_line(b, r), read_line(c, r))
<1> DEFINE from == r.cursor
           Read(s) == IF find_crlf(s, from) = 0 THEN Unfinished(Len(s) - from + 1, MAX_HEADER_LINE)
                      ELSE IF find_crlf(s, from) = from THEN Body(s, find_crlf(s, from) + 2, r)
                      ELSE header(SubSeq(s, from, find_crlf(s, from) - 1), find_crlf(s, from) + 2, r)
<1>1. read_line(b, r) = Read(b) /\ read_line(c, r) = Read(c)
  BY DEF read_line
<1>2. /\ from \in 3 .. Len(b) + 1 /\ from \in Nat \ {0} /\ r.length \in Nat \cup {-1}
      /\ Len(b) \in Nat /\ Len(c) \in Nat /\ Len(b) <= Len(c) /\ Pair(b, from - 2)
  BY DEF Halfway, Prefix
<1> HIDE DEF from
<1> DEFINE end == find_crlf(b, from)
           on  == find_crlf(c, from)
<1>3. CASE end # 0
  <2>1. on = end /\ end \in from .. Len(b) - 1
    BY <1>2, <1>3, CrlfStays, CrlfIs
  <2> HIDE DEF end, on
  <2>2. CASE end = from
    <3>1. Read(b) = Body(b, end + 2, r) /\ Read(c) = Body(c, end + 2, r)
      BY <1>3, <2>1, <2>2 DEF end, on
    <3>2. end + 2 \in 2 .. Len(b) + 1
      BY <1>2, <2>1
    <3>3. Body(b, end + 2, r).answer = "Partial" \/ Body(c, end + 2, r) = Body(b, end + 2, r)
      BY <1>2, <3>2, BodyAnswers
    <3> QED
      BY <1>1, <3>1, <3>3 DEF Agree
  <2>3. CASE end # from
    <3>1. /\ Read(b) = header(SubSeq(b, from, end - 1), end + 2, r)
          /\ Read(c) = header(SubSeq(c, from, end - 1), end + 2, r)
      BY <1>3, <2>1, <2>3 DEF end, on
    <3>2. SubSeq(b, from, end - 1) = SubSeq(c, from, end - 1)
      <4> HIDE DEF Read
      <4> DEFINE last == end - 1
      <4>1. from \in Nat \ {0} /\ last \in Int /\ last <= Len(b)
        BY <1>2, <2>1
      <4> HIDE DEF last
      <4>2. SubSeq(b, from, last) = SubSeq(c, from, last)
        BY <4>1, SlicesSame
      <4> QED
        BY <4>2 DEF last
    <3> HIDE DEF Read
    <3>3. Read(b) = Read(c)
      BY <3>1, <3>2
    <3> QED
      BY <1>1, <3>3 DEF Agree
  <2> QED
    BY <2>2, <2>3
<1>4. CASE end = 0
  <2> DEFINE len == Len(b) - from + 1
  <2>1. Read(b) = IF len > MAX_HEADER_LINE THEN Err("LineTooLong") ELSE Partial
    BY <1>4 DEF Unfinished
  <2>2. CASE ~(len > MAX_HEADER_LINE)
    BY <1>1, <2>1, <2>2, Answers DEF Agree
  <2>3. CASE len > MAX_HEADER_LINE
    <3>1. Read(b) = Err("LineTooLong") /\ len > 0 /\ from <= Len(b)
      BY <1>2, <2>1, <2>3, Caps
    <3>2. CASE on = 0
      <4>1. Len(c) - from + 1 > MAX_HEADER_LINE
        BY <1>2, <2>3, Caps
      <4>2. Read(c) = Err("LineTooLong")
        BY <3>2, <4>1 DEF Unfinished
      <4> QED
        BY <1>1, <3>1, <4>2 DEF Agree
    <3>3. CASE on # 0
      <4>1. on \in from .. Len(c) - 1 /\ on >= Len(b) /\ Pair(c, on)
        BY <1>2, <1>4, <3>3, CrlfStays, CrlfIs
      <4>2. CASE on - from > MAX_HEADER_LINE
        <5> HIDE DEF on
        <5> DEFINE text == SubSeq(c, from, on - 1)
        <5>1. Len(text) = on - from /\ on # from
          BY <1>2, <4>1, <4>2, Caps
        <5>2. Read(c) = header(text, on + 2, r)
          BY <3>3, <5>1 DEF on
        <5> HIDE DEF text
        <5>3. Read(c) = Err("LineTooLong")
          BY <4>2, <5>1, <5>2 DEF header
        <5> QED
          BY <1>1, <3>1, <5>3 DEF Agree
      <4>3. CASE ~(on - from > MAX_HEADER_LINE)
        <5>1. on = Len(b) /\ len = MAX_HEADER_LINE + 1
          BY <1>2, <2>3, <4>1, <4>3, Caps
        <5>2. b[Len(b)] = "CR" /\ c[Len(b) + 1] = "LF" /\ Len(b) < Len(c)
          BY <1>2, <3>1, <4>1, <5>1 DEF Pair, Prefix
        <5>3. AtCap(b, c, from, MAX_HEADER_LINE)
          BY <1>4, <5>1, <5>2 DEF AtCap
        <5>4. from \in 1 .. Len(b) /\ from # 1 /\ from > 2 /\ Pair(b, from - 2)
          BY <1>2, <3>1
        <5>5. CutAt(b, c)
          BY <5>3, <5>4 DEF CutAt
        <5> QED
          BY <1>1, <3>1, <5>5 DEF Agree
      <4> QED
        BY <4>2, <4>3
    <3> QED
      BY <3>2, <3>3
  <2> QED
    BY <2>2, <2>3
<1> QED
  BY <1>3, <1>4

-----------------------------------------------------------------------------
(* The request line, and the header lines one after the other.              *)

(* The request line.                                                            *)
LEMMA FirstAnswers ==
  ASSUME NEW b \in Seq(Symbol)
  PROVE  Settled(b, read_first(b)) \/ Halfway(b, read_first(b))
<1> DEFINE end   == find_crlf(b, 1)
           first == RequestLine(SubSeq(b, 1, end - 1))
<1>1. read_first(b) = IF end = 0 THEN Unfinished(Len(b), MAX_REQUEST_LINE)
        ELSE IF end - 1 > MAX_REQUEST_LINE THEN Err("LineTooLong")
        ELSE IF first.answer = "Err" THEN first
        ELSE Reading(first, << >>, -1, end + 2)
  BY DEF read_first
<1>2. \A text : RequestLine(text).answer = "Err" => RequestLine(text).why # "no"
  <2>1. \A m, t : [answer |-> "line", method |-> m, target |-> t].answer # "Err"
    OBVIOUS
  <2>2. ASSUME NEW text
        PROVE  \/ RequestLine(text) \in {Err("BadRequestLine"), Err("BadMethod")}
               \/ RequestLine(text).answer # "Err"
    BY <2>1 DEF RequestLine
  <2>3. \A why : Err(why).why = why
    BY Answers
  <2>4. "BadRequestLine" # "no" /\ "BadMethod" # "no"
    OBVIOUS
  <2> QED
    BY <2>2, <2>3, <2>4
<1>3. end = 0 \/ (end \in 1 .. Len(b) - 1 /\ Pair(b, end))
  BY CrlfIs
<1>4. first.answer = "Err" => first.why # "no"
  BY <1>2
<1> HIDE DEF end, first
<1>5. CASE end = 0
  <2>1. read_first(b) \in {Partial, Err("LineTooLong")}
    BY <1>1, <1>5 DEF Unfinished
  <2> QED
    BY <2>1, Answers DEF Settled
<1>6. CASE end # 0 /\ end - 1 > MAX_REQUEST_LINE
  <2>1. read_first(b) = Err("LineTooLong")
    BY <1>1, <1>6
  <2> QED
    BY <2>1, Answers DEF Settled
<1>7. CASE end # 0 /\ ~(end - 1 > MAX_REQUEST_LINE) /\ first.answer = "Err"
  <2>1. read_first(b) = first
    BY <1>1, <1>7
  <2> QED
    BY <1>4, <1>7, <2>1 DEF Settled
<1>8. CASE end # 0 /\ ~(end - 1 > MAX_REQUEST_LINE) /\ first.answer # "Err"
  <2>1. read_first(b) = Reading(first, << >>, -1, end + 2)
    BY <1>1, <1>8
  <2>2. LET x == Reading(first, << >>, -1, end + 2)
        IN  x.answer = "reading" /\ x.cursor = end + 2 /\ x.length = -1
    BY DEF Reading
  <2>3. end + 2 \in 3 .. Len(b) + 1 /\ end + 2 - 2 = end
    BY <1>3, <1>8
  <2> QED
    BY <1>3, <1>8, <2>1, <2>2, <2>3 DEF Halfway
<1> QED
  BY <1>5, <1>6, <1>7, <1>8

(* The request line on a text and on one that goes on.                      *)
LEMMA FirstStays ==
  ASSUME NEW b \in Seq(Symbol), NEW c \in Seq(Symbol), Prefix(b, c)
  PROVE  Agree(b, c, read_first(b), read_first(c))
<1> DEFINE Read(s) == IF find_crlf(s, 1) = 0 THEN Unfinished(Len(s), MAX_REQUEST_LINE)
                      ELSE IF find_crlf(s, 1) - 1 > MAX_REQUEST_LINE THEN Err("LineTooLong")
                      ELSE IF RequestLine(SubSeq(s, 1, find_crlf(s, 1) - 1)).answer = "Err"
                           THEN RequestLine(SubSeq(s, 1, find_crlf(s, 1) - 1))
                      ELSE Reading(RequestLine(SubSeq(s, 1, find_crlf(s, 1) - 1)), << >>, -1,
                                   find_crlf(s, 1) + 2)
<1>1. read_first(b) = Read(b) /\ read_first(c) = Read(c)
  BY DEF read_first
<1>2. Len(b) \in Nat /\ Len(c) \in Nat /\ Len(b) <= Len(c)
  BY DEF Prefix
<1> DEFINE end == find_crlf(b, 1)
           on  == find_crlf(c, 1)
<1>3. CASE end # 0
  <2>1. on = end /\ end \in 1 .. Len(b) - 1
    BY <1>3, CrlfStays, CrlfIs
  <2>2. SubSeq(b, 1, end - 1) = SubSeq(c, 1, end - 1)
    <3>1. end - 1 \in Int /\ end - 1 <= Len(b) /\ 1 \in Nat \ {0}
      BY <1>2, <2>1
    <3> QED
      BY <3>1, SlicesSame
  <2>3. Read(b) = Read(c)
    BY <1>3, <2>1, <2>2
  <2> HIDE DEF Read
  <2> QED
    BY <1>1, <2>3 DEF Agree
<1>4. CASE end = 0
  <2>1. Read(b) = IF Len(b) > MAX_REQUEST_LINE THEN Err("LineTooLong") ELSE Partial
    BY <1>4 DEF Unfinished
  <2>2. CASE ~(Len(b) > MAX_REQUEST_LINE)
    BY <1>1, <2>1, <2>2, Answers DEF Agree
  <2>3. CASE Len(b) > MAX_REQUEST_LINE
    <3>1. Read(b) = Err("LineTooLong") /\ Len(b) > 0
      BY <1>2, <2>1, <2>3, Caps
    <3>2. CASE on = 0
      <4>1. Read(c) = Err("LineTooLong")
        BY <1>2, <2>3, <3>2, Caps DEF Unfinished
      <4> QED
        BY <1>1, <3>1, <4>1 DEF Agree
    <3>3. CASE on # 0
      <4>1. on \in 1 .. Len(c) - 1 /\ on >= Len(b) /\ Pair(c, on)
        BY <1>4, <3>3, CrlfStays, CrlfIs
      <4>2. CASE on - 1 > MAX_REQUEST_LINE
        <5>1. Read(c) = Err("LineTooLong")
          BY <3>3, <4>2
        <5> QED
          BY <1>1, <3>1, <5>1 DEF Agree
      <4>3. CASE ~(on - 1 > MAX_REQUEST_LINE)
        <5> HIDE DEF on, end
        <5>1. on = Len(b) /\ Len(b) - 1 + 1 = MAX_REQUEST_LINE + 1
          BY <1>2, <2>3, <4>1, <4>3, Caps
        <5>2. b[Len(b)] = "CR" /\ c[Len(b) + 1] = "LF" /\ Len(b) < Len(c)
          BY <1>2, <3>1, <4>1, <5>1 DEF Pair, Prefix
        <5>3. AtCap(b, c, 1, MAX_REQUEST_LINE)
          BY <1>4, <5>1, <5>2 DEF AtCap, end
        <5>4. 1 \in 1 .. Len(b)
          BY <1>2, <3>1
        <5>5. CutAt(b, c)
          BY <5>3, <5>4 DEF CutAt
        <5> QED
          BY <1>1, <3>1, <5>5 DEF Agree
      <4> QED
        BY <4>2, <4>3
    <3> QED
      BY <3>2, <3>3
  <2> QED
    BY <2>2, <2>3
<1> QED
  BY <1>3, <1>4

-----------------------------------------------------------------------------
(* The walk over the lines, up to its turn m.                                    *)
LineAfter(b, x) == IF x.answer = "reading" THEN read_line(b, x) ELSE x

LineWalk(f, b, m) ==
  f = [k \in 0 .. m |-> IF k = 0 THEN read_first(b) ELSE LineAfter(b, f[k - 1])]

(* There is a walk over the lines.                                          *)
LEMMA SomeLineWalk ==
  ASSUME NEW b, NEW n \in Nat
  PROVE  \E f : LineWalk(f, b, n)
<1> DEFINE T == {m \in 0 .. n : \E f : LineWalk(f, b, m)}
<1>1. 0 \in T
  <2> DEFINE f == [k \in 0 .. 0 |-> read_first(b)]
  <2>1. LineWalk(f, b, 0)
    BY DEF LineWalk
  <2> QED
    BY <2>1
<1>2. ASSUME NEW m \in 0 .. n - 1, m \in T
      PROVE  m + 1 \in T
  <2>1. PICK f : LineWalk(f, b, m)
    BY <1>2
  <2> DEFINE g == [k \in 0 .. m + 1 |-> IF k = m + 1 THEN LineAfter(b, f[m]) ELSE f[k]]
  <2>2. \A k \in 0 .. m : f[k] = IF k = 0 THEN read_first(b) ELSE LineAfter(b, f[k - 1])
    BY <2>1 DEF LineWalk
  <2>3. \A k \in 0 .. m : g[k] = f[k]
    OBVIOUS
  <2>4. g[m + 1] = LineAfter(b, f[m])
    OBVIOUS
  <2>5. ASSUME NEW k \in 0 .. m + 1
        PROVE  g[k] = IF k = 0 THEN read_first(b) ELSE LineAfter(b, g[k - 1])
    <3> HIDE DEF g
    <3>1. CASE k = m + 1
      <4>1. k # 0 /\ k - 1 = m /\ m \in 0 .. m
        BY <3>1
      <4> QED
        BY <2>3, <2>4, <3>1, <4>1
    <3>2. CASE k # m + 1
      <4>1. k \in 0 .. m /\ (k # 0 => k - 1 \in 0 .. m)
        BY <3>2
      <4> QED
        BY <2>2, <2>3, <4>1
    <3> QED
      BY <3>1, <3>2
  <2>6. g = [k \in 0 .. m + 1 |-> g[k]]
    OBVIOUS
  <2> HIDE DEF g
  <2>7. LineWalk(g, b, m + 1)
    BY <2>5, <2>6 DEF LineWalk
  <2> QED
    BY <2>7
<1> HIDE DEF T
<1>3. 0 .. n \subseteq T
  BY <1>1, <1>2, UpTo
<1> QED
  BY <1>3 DEF T

(* Lines, line by line, is such a walk.                                     *)
LEMMA LinesAre ==
  ASSUME NEW b \in Seq(Symbol)
  PROVE  /\ Lines(b)[0] = read_first(b)
         /\ \A k \in 1 .. Len(b) : Lines(b)[k] = LineAfter(b, Lines(b)[k - 1])
<1>1. Len(b) \in Nat
  OBVIOUS
<1>2. Lines(b) = CHOOSE f : LineWalk(f, b, Len(b))
  BY DEF Lines, LineWalk, LineAfter
<1>3. LineWalk(Lines(b), b, Len(b))
  BY <1>1, <1>2, SomeLineWalk
<1> DEFINE f == Lines(b)
<1> HIDE DEF f
<1>4. \A k \in 0 .. Len(b) : f[k] = IF k = 0 THEN read_first(b) ELSE LineAfter(b, f[k - 1])
  BY <1>3 DEF LineWalk, f
<1> QED
  BY <1>1, <1>4 DEF f

-----------------------------------------------------------------------------
(* A parse as a whole.                                                      *)

(* Turn k of the walk: decided, or still half read, every turn two bytes further.   *)
LEMMA LinesSettle ==
  ASSUME NEW b \in Seq(Symbol), NEW k \in 0 .. Len(b)
  PROVE  \/ Settled(b, Lines(b)[k])
         \/ Halfway(b, Lines(b)[k]) /\ Lines(b)[k].cursor >= 2 * k + 3
<1> DEFINE x == Lines(b)
           T == {m \in 0 .. Len(b) : Settled(b, x[m]) \/ (Halfway(b, x[m]) /\ x[m].cursor >= 2 * m + 3)}
<1>1. x[0] = read_first(b) /\ \A m \in 1 .. Len(b) : x[m] = LineAfter(b, x[m - 1])
  BY LinesAre
<1>2. Len(b) \in Nat
  OBVIOUS
<1> HIDE DEF x
<1>3. 0 \in T
  <2>1. Settled(b, x[0]) \/ Halfway(b, x[0])
    BY <1>1, FirstAnswers
  <2>2. Halfway(b, x[0]) => x[0].cursor >= 2 * 0 + 3
    BY <1>2 DEF Halfway
  <2> QED
    BY <1>2, <2>1, <2>2
<1>4. ASSUME NEW m \in 0 .. Len(b) - 1, m \in T
      PROVE  m + 1 \in T
  <2>1. x[m + 1] = LineAfter(b, x[m]) /\ m + 1 \in 0 .. Len(b)
    BY <1>1, <1>2
  <2>2. CASE Settled(b, x[m])
    <3>1. x[m + 1] = x[m]
      BY <2>1, <2>2 DEF Settled, LineAfter
    <3> QED
      BY <2>1, <2>2, <3>1
  <2>3. CASE Halfway(b, x[m]) /\ x[m].cursor >= 2 * m + 3
    <3>1. x[m + 1] = read_line(b, x[m])
      BY <2>1, <2>3 DEF Halfway, LineAfter
    <3>2. \/ Settled(b, x[m + 1])
          \/ Halfway(b, x[m + 1]) /\ x[m + 1].cursor >= x[m].cursor + 2
      BY <2>3, <3>1, TurnAnswers
    <3>3. Halfway(b, x[m + 1]) => x[m].cursor \in Nat /\ x[m + 1].cursor \in Nat
      <4>1. \A y : Halfway(b, y) => y.cursor \in Nat
        BY <1>2 DEF Halfway
      <4> QED
        BY <2>3, <4>1
    <3>4. Halfway(b, x[m + 1]) /\ x[m + 1].cursor >= x[m].cursor + 2
            => x[m + 1].cursor >= 2 * (m + 1) + 3
      BY <1>2, <2>3, <3>3
    <3> QED
      BY <2>1, <3>2, <3>4
  <2> QED
    BY <1>4, <2>2, <2>3
<1> HIDE DEF T
<1>5. 0 .. Len(b) \subseteq T
  BY <1>2, <1>3, <1>4, UpTo
<1> QED
  BY <1>5 DEF T, x

(* The parser answers, and has consumed no more than there is.                     *)
LEMMA ParseAnswers ==
  ASSUME NEW b \in Seq(Symbol)
  PROVE  Settled(b, parse(b))
<1>1. Len(b) \in Nat /\ Len(b) \in 0 .. Len(b)
  OBVIOUS
<1>2. \/ Settled(b, parse(b))
      \/ Halfway(b, parse(b)) /\ parse(b).cursor >= 2 * Len(b) + 3
  BY <1>1, LinesSettle DEF parse
<1>3. Halfway(b, parse(b)) => parse(b).cursor \in 3 .. Len(b) + 1
  BY DEF Halfway
<1> QED
  BY <1>1, <1>2, <1>3

(* Once decided it stays so.                                                     *)
LEMMA LinesStay ==
  ASSUME NEW b \in Seq(Symbol), NEW k \in 0 .. Len(b), Lines(b)[k].answer # "reading"
  PROVE  parse(b) = Lines(b)[k]
<1> DEFINE x == Lines(b)
           n == Len(b) - k
           T == {j \in 0 .. n : x[k + j] = x[k]}
<1>1. \A m \in 1 .. Len(b) : x[m] = LineAfter(b, x[m - 1])
  BY LinesAre
<1>2. Len(b) \in Nat /\ n \in Nat /\ k \in Nat
  OBVIOUS
<1>3. x[k].answer # "reading"
  OBVIOUS
<1> HIDE DEF x
<1>4. 0 \in T
  BY <1>2
<1>5. ASSUME NEW j \in 0 .. n - 1, j \in T
      PROVE  j + 1 \in T
  <2>1. k + (j + 1) \in 1 .. Len(b) /\ k + (j + 1) - 1 = k + j /\ j + 1 \in 0 .. n
    BY <1>2
  <2>2. x[k + (j + 1)] = LineAfter(b, x[k + j])
    BY <1>1, <2>1
  <2>3. x[k + (j + 1)] = x[k]
    BY <1>3, <1>5, <2>2 DEF LineAfter
  <2> QED
    BY <2>1, <2>3
<1> HIDE DEF T
<1>6. 0 .. n \subseteq T
  BY <1>2, <1>4, <1>5, UpTo
<1>7. n \in T /\ k + n = Len(b)
  BY <1>2, <1>6
<1> QED
  BY <1>7 DEF T, x, parse

(* What arrives later changes no answer but "not yet", the cut excepted: parse is      *)
(* restartable, and its errors are final.                                         *)
LEMMA ParseStays ==
  ASSUME NEW b \in Seq(Symbol), NEW c \in Seq(Symbol), Prefix(b, c)
  PROVE  Agree(b, c, parse(b), parse(c))
<1> DEFINE x == Lines(b)
           y == Lines(c)
           T == {k \in 0 .. Len(b) : Agree(b, c, x[k], y[k])}
<1>1. /\ Len(b) \in Nat /\ Len(c) \in Nat /\ Len(b) <= Len(c)
      /\ Len(b) \in 0 .. Len(b) /\ Len(b) \in 0 .. Len(c)
  BY DEF Prefix
<1>2. /\ x[0] = read_first(b) /\ \A m \in 1 .. Len(b) : x[m] = LineAfter(b, x[m - 1])
      /\ y[0] = read_first(c) /\ \A m \in 1 .. Len(c) : y[m] = LineAfter(c, y[m - 1])
  BY LinesAre
<1>3. \A k \in 0 .. Len(b) : Settled(b, x[k]) \/ Halfway(b, x[k])
  BY LinesSettle
<1>4. Len(b) \in T => Agree(b, c, parse(b), parse(c))
  <2>1. ASSUME Agree(b, c, x[Len(b)], y[Len(b)])
        PROVE  Agree(b, c, parse(b), parse(c))
    <3>1. parse(b) = x[Len(b)]
      BY DEF parse
    <3>2. Settled(b, parse(b))
      BY ParseAnswers
    <3>3. CASE y[Len(b)] = x[Len(b)]
      <4>1. Lines(c)[Len(b)].answer # "reading"
        BY <3>1, <3>2, <3>3 DEF Settled
      <4>2. parse(c) = Lines(c)[Len(b)]
        BY <1>1, <4>1, LinesStay
      <4> QED
        BY <3>1, <3>3, <4>2 DEF Agree
    <3> QED
      BY <2>1, <3>1, <3>3 DEF Agree
  <2> QED
    BY <2>1
<1> HIDE DEF x, y
<1>5. 0 \in T
  BY <1>1, <1>2, FirstStays
<1>6. ASSUME NEW k \in 0 .. Len(b) - 1, k \in T
      PROVE  k + 1 \in T
  <2>1. k + 1 \in 1 .. Len(b) /\ k + 1 \in 1 .. Len(c) /\ (k + 1) - 1 = k /\ k + 1 \in 0 .. Len(b)
        /\ k \in 0 .. Len(b)
    BY <1>1
  <2>2. x[k + 1] = LineAfter(b, x[k]) /\ y[k + 1] = LineAfter(c, y[k])
    BY <1>2, <2>1
  <2>3. CASE Settled(b, x[k])
    <3>1. x[k + 1] = x[k]
      BY <2>2, <2>3 DEF Settled, LineAfter
    <3>2. y[k] = x[k] => y[k + 1] = x[k + 1]
      BY <2>2, <2>3 DEF Settled, LineAfter
    <3>3. Agree(b, c, x[k], y[k])
      BY <1>6
    <3> QED
      BY <2>1, <3>1, <3>2, <3>3 DEF Agree
  <2>4. CASE Halfway(b, x[k])
    <3>1. x[k].answer = "reading"
      BY <2>4 DEF Halfway
    <3>2. y[k] = x[k]
      BY <1>6, <3>1, Answers DEF Agree
    <3>3. x[k + 1] = read_line(b, x[k]) /\ y[k + 1] = read_line(c, x[k])
      BY <2>2, <3>1, <3>2 DEF LineAfter
    <3>4. Agree(b, c, read_line(b, x[k]), read_line(c, x[k]))
      BY <2>4, TurnStays
    <3> QED
      BY <2>1, <3>3, <3>4
  <2> QED
    BY <1>3, <2>1, <2>3, <2>4
<1> HIDE DEF T
<1>7. 0 .. Len(b) \subseteq T
  BY <1>1, <1>5, <1>6, UpTo
<1> QED
  BY <1>1, <1>4, <1>7

-----------------------------------------------------------------------------
(* The walk over a stream: it serves, drops what was served, and goes on.   *)

(* Texts of the same symbols are the same; and what a text after another is.           *)
LEMMA SameText ==
  ASSUME NEW u \in Seq(Symbol), NEW v \in Seq(Symbol), Len(u) = Len(v),
         \A i \in 1 .. Len(u) : u[i] = v[i]
  PROVE  u = v
OBVIOUS

(* What a text after another is.                                            *)
LEMMA JoinIs ==
  ASSUME NEW u \in Seq(Symbol), NEW v \in Seq(Symbol)
  PROVE  /\ u \o v \in Seq(Symbol) /\ Len(u \o v) = Len(u) + Len(v)
         /\ \A i \in 1 .. Len(u) : (u \o v)[i] = u[i]
         /\ \A i \in 1 .. Len(v) : (u \o v)[Len(u) + i] = v[i]
OBVIOUS

(* The part of w from position a + 1 to t.                                         *)
Part(w, a, t) == SubSeq(w, a + 1, t)

(* A part of a text.                                                        *)
LEMMA PartIs ==
  ASSUME NEW w \in Seq(Symbol), NEW t \in 0 .. Len(w), NEW a \in 0 .. t
  PROVE  /\ Part(w, a, t) \in Seq(Symbol) /\ Len(Part(w, a, t)) = t - a
         /\ \A i \in 1 .. t - a : Part(w, a, t)[i] = w[a + i]
<1>1. /\ SubSeq(w, a + 1, t) \in Seq(Symbol) /\ Len(SubSeq(w, a + 1, t)) = t - a
  OBVIOUS
<1>2. \A i \in 1 .. t - a : SubSeq(w, a + 1, t)[i] = w[a + i]
  OBVIOUS
<1> QED
  BY <1>1, <1>2 DEF Part

(* A part of a part is a part.                                              *)
LEMMA PartOfPart ==
  ASSUME NEW w \in Seq(Symbol), NEW t \in 0 .. Len(w), NEW a \in 0 .. t, NEW d \in 0 .. t - a
  PROVE  Part(Part(w, a, t), d, t - a) = Part(w, a + d, t)
<1> DEFINE s == Part(w, a, t)
<1>1. s \in Seq(Symbol) /\ Len(s) = t - a /\ \A i \in 1 .. t - a : s[i] = w[a + i]
  BY PartIs
<1> HIDE DEF s
<1>2. /\ Part(s, d, t - a) \in Seq(Symbol) /\ Len(Part(s, d, t - a)) = t - a - d
      /\ \A i \in 1 .. t - a - d : Part(s, d, t - a)[i] = s[d + i]
  <2>1. t - a \in 0 .. Len(s) /\ d \in 0 .. t - a
    BY <1>1
  <2> DEFINE e == t - a
  <2> HIDE DEF e
  <2>2. e \in 0 .. Len(s) /\ d \in 0 .. e
    BY <2>1 DEF e
  <2>3. /\ Part(s, d, e) \in Seq(Symbol) /\ Len(Part(s, d, e)) = e - d
        /\ \A i \in 1 .. e - d : Part(s, d, e)[i] = s[d + i]
    BY <1>1, <2>2, PartIs
  <2> QED
    BY <2>3 DEF e
<1>3. /\ Part(w, a + d, t) \in Seq(Symbol) /\ Len(Part(w, a + d, t)) = t - a - d
      /\ \A i \in 1 .. t - a - d : Part(w, a + d, t)[i] = w[a + d + i]
  <2>1. a + d \in 0 .. t /\ t - (a + d) = t - a - d
    OBVIOUS
  <2> QED
    BY <2>1, PartIs
<1>4. \A i \in 1 .. t - a - d : s[d + i] = w[a + d + i]
  <2>1. ASSUME NEW i \in 1 .. t - a - d
        PROVE  s[d + i] = w[a + d + i]
    <3>1. d + i \in 1 .. t - a /\ a + (d + i) = a + d + i
      OBVIOUS
    <3> QED
      BY <1>1, <3>1
  <2> QED
    BY <2>1
<1> DEFINE u == Part(s, d, t - a)
           v == Part(w, a + d, t)
<1> HIDE DEF u, v
<1>5. Len(u) = Len(v) /\ \A i \in 1 .. Len(u) : u[i] = v[i]
  BY <1>2, <1>3, <1>4 DEF u, v
<1>6. u \in Seq(Symbol) /\ v \in Seq(Symbol)
  BY <1>2, <1>3 DEF u, v
<1>7. u = v
  BY <1>5, <1>6, SameText
<1> QED
  BY <1>7 DEF u, v, s

(* A longer part from the same place goes on where a shorter one ends.      *)
LEMMA PartsGrow ==
  ASSUME NEW w \in Seq(Symbol), NEW t \in 0 .. Len(w), NEW a \in 0 .. t
  PROVE  Prefix(Part(w, a, t), Part(w, a, Len(w)))
<1> DEFINE n == Len(w)
<1>1. n \in 0 .. Len(w) /\ a \in 0 .. n /\ t - a <= n - a /\ t \in Nat /\ a \in Nat
  OBVIOUS
<1> HIDE DEF n
<1>2. Len(Part(w, a, t)) = t - a /\ \A i \in 1 .. t - a : Part(w, a, t)[i] = w[a + i]
  BY PartIs
<1>3. Len(Part(w, a, n)) = n - a /\ \A i \in 1 .. n - a : Part(w, a, n)[i] = w[a + i]
  BY <1>1, PartIs
<1>4. \A i \in 1 .. t - a : i \in 1 .. n - a
  BY <1>1
<1>5. Prefix(Part(w, a, t), Part(w, a, n))
  BY <1>1, <1>2, <1>3, <1>4 DEF Prefix
<1> QED
  BY <1>5 DEF n

(* What has come, and what comes next.                                            *)
LEMMA PartsJoin ==
  ASSUME NEW w \in Seq(Symbol), NEW t \in 0 .. Len(w), NEW a \in 0 .. t, NEW k \in Nat,
         t + k <= Len(w)
  PROVE  Part(w, a, t) \o SubSeq(w, t + 1, t + k) = Part(w, a, t + k)
<1> DEFINE e == t + k
           u == Part(w, a, t)
           v == Part(w, t, e)
           x == Part(w, a, e)
<1>1. /\ e \in 0 .. Len(w) /\ t \in 0 .. e /\ a \in 0 .. e /\ e - t = k /\ e = t + k
      /\ t \in Nat /\ a \in Nat /\ a <= t
  OBVIOUS
<1>2. v = SubSeq(w, t + 1, t + k)
  BY DEF Part
<1> HIDE DEF e
<1>3. u \in Seq(Symbol) /\ Len(u) = t - a /\ \A i \in 1 .. t - a : u[i] = w[a + i]
  BY PartIs
<1>4. v \in Seq(Symbol) /\ Len(v) = k /\ \A i \in 1 .. k : v[i] = w[t + i]
  BY <1>1, PartIs
<1>5. x \in Seq(Symbol) /\ Len(x) = e - a /\ \A i \in 1 .. e - a : x[i] = w[a + i]
  BY <1>1, PartIs
<1> HIDE DEF u, v, x
<1>6. /\ u \o v \in Seq(Symbol) /\ Len(u \o v) = e - a
      /\ \A i \in 1 .. t - a : (u \o v)[i] = u[i]
      /\ \A i \in 1 .. k : (u \o v)[t - a + i] = v[i]
  <2>1. /\ u \o v \in Seq(Symbol) /\ Len(u \o v) = Len(u) + Len(v)
        /\ \A i \in 1 .. Len(u) : (u \o v)[i] = u[i]
        /\ \A i \in 1 .. Len(v) : (u \o v)[Len(u) + i] = v[i]
    BY <1>3, <1>4, JoinIs
  <2>2. Len(u) = t - a /\ Len(v) = k
    BY <1>3, <1>4
  <2>3. t - a + k = e - a
    BY <1>1
  <2> QED
    BY <2>1, <2>2, <2>3
<1>7. ASSUME NEW i \in 1 .. e - a
      PROVE  (u \o v)[i] = x[i]
  <2>1. CASE i \in 1 .. t - a
    BY <1>3, <1>5, <1>6, <2>1
  <2>2. CASE i \notin 1 .. t - a
    <3> DEFINE j == i - (t - a)
    <3>1. j \in 1 .. k /\ t + j = a + i /\ t - a + j = i
      BY <1>1, <2>2
    <3> HIDE DEF j
    <3>2. (u \o v)[i] = v[j] /\ v[j] = w[a + i]
      BY <1>4, <1>6, <3>1
    <3> QED
      BY <1>5, <3>2
  <2> QED
    BY <2>1, <2>2
<1>8. u \o v = x
  BY <1>5, <1>6, <1>7, SameText
<1> QED
  BY <1>2, <1>8 DEF u, x, e

-----------------------------------------------------------------------------
(* The caller's walk, up to its turn m.                                           *)
ServeAfter(b, d) == IF d.more THEN serve(b, d) ELSE d

ServeWalk(f, b, done, m) ==
  f = [k \in 0 .. m |-> IF k = 0 THEN Point(TRUE, 0, done, "no") ELSE ServeAfter(b, f[k - 1])]

(* There is a walk over a buffer.                                           *)
LEMMA SomeServeWalk ==
  ASSUME NEW b, NEW done, NEW n \in Nat
  PROVE  \E f : ServeWalk(f, b, done, n)
<1> DEFINE first == Point(TRUE, 0, done, "no")
           T == {m \in 0 .. n : \E f : ServeWalk(f, b, done, m)}
<1>1. 0 \in T
  <2> DEFINE f == [k \in 0 .. 0 |-> first]
  <2>1. ServeWalk(f, b, done, 0)
    BY DEF ServeWalk
  <2> QED
    BY <2>1
<1>2. ASSUME NEW m \in 0 .. n - 1, m \in T
      PROVE  m + 1 \in T
  <2>1. PICK f : ServeWalk(f, b, done, m)
    BY <1>2
  <2> DEFINE g == [k \in 0 .. m + 1 |-> IF k = m + 1 THEN ServeAfter(b, f[m]) ELSE f[k]]
  <2>2. \A k \in 0 .. m : f[k] = IF k = 0 THEN first ELSE ServeAfter(b, f[k - 1])
    BY <2>1 DEF ServeWalk
  <2>3. \A k \in 0 .. m : g[k] = f[k]
    OBVIOUS
  <2>4. g[m + 1] = ServeAfter(b, f[m])
    OBVIOUS
  <2>5. ASSUME NEW k \in 0 .. m + 1
        PROVE  g[k] = IF k = 0 THEN first ELSE ServeAfter(b, g[k - 1])
    <3> HIDE DEF g, first
    <3>1. CASE k = m + 1
      <4>1. k # 0 /\ k - 1 = m /\ m \in 0 .. m
        BY <3>1
      <4> QED
        BY <2>3, <2>4, <3>1, <4>1
    <3>2. CASE k # m + 1
      <4>1. k \in 0 .. m /\ (k # 0 => k - 1 \in 0 .. m)
        BY <3>2
      <4> QED
        BY <2>2, <2>3, <4>1
    <3> QED
      BY <3>1, <3>2
  <2>6. g = [k \in 0 .. m + 1 |-> g[k]]
    OBVIOUS
  <2> HIDE DEF g
  <2>7. ServeWalk(g, b, done, m + 1)
    BY <2>5, <2>6 DEF ServeWalk
  <2> QED
    BY <2>7
<1> HIDE DEF T
<1>3. 0 .. n \subseteq T
  BY <1>1, <1>2, UpTo
<1> QED
  BY <1>3 DEF T

(* Drained, turn by turn, is such a walk.                                   *)
LEMMA DrainedIs ==
  ASSUME NEW b \in Seq(Symbol), NEW done
  PROVE  /\ Drained(b, done)[0] = Point(TRUE, 0, done, "no")
         /\ \A k \in 1 .. Len(b) + 1 : Drained(b, done)[k] = ServeAfter(b, Drained(b, done)[k - 1])
<1>1. Len(b) + 1 \in Nat
  OBVIOUS
<1>2. Drained(b, done) = CHOOSE f : ServeWalk(f, b, done, Len(b) + 1)
  BY DEF Drained, ServeWalk, ServeAfter
<1>3. ServeWalk(Drained(b, done), b, done, Len(b) + 1)
  BY <1>1, <1>2, SomeServeWalk
<1> DEFINE f == Drained(b, done)
<1> HIDE DEF f
<1>5. \A k \in 1 .. Len(b) + 1 : k \in 0 .. Len(b) + 1 /\ k # 0
  OBVIOUS
<1>6. 0 \in 0 .. Len(b) + 1
  OBVIOUS
<1>4. \A k \in 0 .. Len(b) + 1 :
        f[k] = IF k = 0 THEN Point(TRUE, 0, done, "no") ELSE ServeAfter(b, f[k - 1])
  BY <1>3 DEF ServeWalk, f
<1> QED
  BY <1>4, <1>5, <1>6 DEF f

(* The parts of what a turn comes to.                                       *)
LEMMA Points ==
  \A more, at, done, why :
    /\ Point(more, at, done, why).more = more /\ Point(more, at, done, why).at = at
    /\ Point(more, at, done, why).served = done /\ Point(more, at, done, why).refused = why
BY DEF Point

(* One turn of the caller, by what the parser answers.                              *)
LEMMA ServeIs ==
  ASSUME NEW b \in Seq(Symbol), NEW d, d.at \in 0 .. Len(b)
  PROVE  LET p == parse(Part(b, d.at, Len(b)))
         IN  /\ Settled(Part(b, d.at, Len(b)), p)
             /\ p.answer = "Partial" => serve(b, d) = Point(FALSE, d.at, d.served, "no")
             /\ p.answer = "Err" => serve(b, d) = Point(FALSE, d.at, d.served, p.why)
             /\ p.answer = "Complete" =>
                  /\ serve(b, d) = Point(TRUE, d.at + p.consumed, Append(d.served, p.request), "no")
                  /\ p.consumed \in 1 .. Len(b) - d.at
<1> DEFINE s == Part(b, d.at, Len(b))
           p == parse(s)
<1>1. s \in Seq(Symbol) /\ Len(s) = Len(b) - d.at
  <2>1. Len(b) \in 0 .. Len(b)
    OBVIOUS
  <2> QED
    BY <2>1, PartIs
<1>2. serve(b, d) = CASE p.answer = "Partial"  -> Point(FALSE, d.at, d.served, "no")
                      [] p.answer = "Err"      -> Point(FALSE, d.at, d.served, p.why)
                      [] p.answer = "Complete" ->
                           Point(TRUE, d.at + p.consumed, Append(d.served, p.request), "no")
  BY DEF serve, Part
<1>3. Settled(s, p)
  BY <1>1, ParseAnswers
<1>4. p.answer = "Complete" => p.consumed \in 1 .. Len(b) - d.at
  BY <1>1, <1>3 DEF Settled
<1> HIDE DEF p
<1>5. /\ p.answer = "Partial" => serve(b, d) = Point(FALSE, d.at, d.served, "no")
      /\ p.answer = "Err" => serve(b, d) = Point(FALSE, d.at, d.served, p.why)
      /\ p.answer = "Complete" =>
           serve(b, d) = Point(TRUE, d.at + p.consumed, Append(d.served, p.request), "no")
  <2>1. ASSUME p.answer = "Partial"
        PROVE  serve(b, d) = Point(FALSE, d.at, d.served, "no")
    BY <1>2, <2>1
  <2>2. ASSUME p.answer = "Err"
        PROVE  serve(b, d) = Point(FALSE, d.at, d.served, p.why)
    BY <1>2, <2>2
  <2>3. ASSUME p.answer = "Complete"
        PROVE  serve(b, d) = Point(TRUE, d.at + p.consumed, Append(d.served, p.request), "no")
    BY <1>2, <2>3
  <2> QED
    BY <2>1, <2>2, <2>3
<1> QED
  BY <1>3, <1>4, <1>5 DEF p

-----------------------------------------------------------------------------
(* What a walk over more of the stream adds.                                *)

(* What has been served is a list, and one begins the next.                          *)
IsList(s) == \E S : s \in Seq(S)

(* A list with one more is a list that the first begins.                    *)
LEMMA ListGrows ==
  ASSUME NEW s, IsList(s), NEW x
  PROVE  IsList(Append(s, x)) /\ Begins(s, Append(s, x))
<1>1. PICK S : s \in Seq(S)
  BY DEF IsList
<1> DEFINE U == S \cup {x}
           t == Append(s, x)
<1>2. s \in Seq(U) /\ x \in U
  BY <1>1
<1> HIDE DEF U
<1>3. t \in Seq(U) /\ Len(t) = Len(s) + 1 /\ \A i \in 1 .. Len(s) : t[i] = s[i]
  BY <1>2
<1> HIDE DEF t
<1>4. Len(s) \in Nat /\ Len(s) <= Len(t)
  BY <1>2, <1>3
<1>5. SubSeq(t, 1, Len(s)) \in Seq(U) /\ Len(SubSeq(t, 1, Len(s))) = Len(s)
      /\ \A i \in 1 .. Len(s) : SubSeq(t, 1, Len(s))[i] = t[i]
  BY <1>3, <1>4
<1>6. s = SubSeq(t, 1, Len(s))
  BY <1>2, <1>3, <1>5
<1> QED
  BY <1>3, <1>4, <1>6 DEF IsList, Begins, t

(* What begins a list is not longer and agrees with it.                     *)
LEMMA BeginsIs ==
  ASSUME NEW s, NEW t, IsList(s), IsList(t)
  PROVE  Begins(s, t) <=> Len(s) <= Len(t) /\ \A i \in 1 .. Len(s) : s[i] = t[i]
<1>1. PICK S : s \in Seq(S)
  BY DEF IsList
<1>2. PICK U : t \in Seq(U)
  BY DEF IsList
<1>3. Len(s) \in Nat /\ Len(t) \in Nat
  BY <1>1, <1>2
<1>4. ASSUME Len(s) <= Len(t)
      PROVE  s = SubSeq(t, 1, Len(s)) <=> \A i \in 1 .. Len(s) : s[i] = t[i]
  <2> DEFINE u == SubSeq(t, 1, Len(s))
  <2>1. u \in Seq(U) /\ Len(u) = Len(s) /\ \A i \in 1 .. Len(s) : u[i] = t[i]
    BY <1>2, <1>3, <1>4
  <2> HIDE DEF u
  <2>2. (\A i \in 1 .. Len(s) : s[i] = t[i]) => s = u
    BY <1>1, <2>1
  <2>3. s = u => \A i \in 1 .. Len(s) : s[i] = t[i]
    BY <2>1
  <2> QED
    BY <2>2, <2>3 DEF u
<1> QED
  BY <1>4 DEF Begins

(* Beginning is transitive.                                                 *)
LEMMA BeginsOn ==
  ASSUME NEW s, NEW t, NEW u, IsList(s), IsList(t), IsList(u), Begins(s, t), Begins(t, u)
  PROVE  Begins(s, u)
<1>1. Len(s) \in Nat /\ Len(t) \in Nat /\ Len(u) \in Nat
  BY DEF IsList
<1>2. /\ Len(s) <= Len(t) /\ \A i \in 1 .. Len(s) : s[i] = t[i]
      /\ Len(t) <= Len(u) /\ \A i \in 1 .. Len(t) : t[i] = u[i]
  BY BeginsIs
<1>3. Len(s) <= Len(u) /\ \A i \in 1 .. Len(s) : s[i] = u[i]
  BY <1>1, <1>2
<1> QED
  BY <1>3, BeginsIs

(* A list begins itself.                                                    *)
LEMMA BeginsSelf ==
  ASSUME NEW s, IsList(s)
  PROVE  Begins(s, s)
<1>1. Len(s) \in Nat
  BY DEF IsList
<1> QED
  BY <1>1, BeginsIs

(* Nothing served is a list.                                                *)
LEMMA NoneIsList == IsList(<< >>)
<1>1. << >> \in Seq({})
  OBVIOUS
<1> QED
  BY <1>1 DEF IsList

-----------------------------------------------------------------------------
(* The walk over what is there: within it, each turn adding to what is served.        *)
LEMMA TurnAdds ==
  ASSUME NEW b \in Seq(Symbol), NEW d, d.at \in 0 .. Len(b), IsList(d.served)
  PROVE  /\ ServeAfter(b, d).at \in 0 .. Len(b) /\ IsList(ServeAfter(b, d).served)
         /\ Begins(d.served, ServeAfter(b, d).served)
<1> DEFINE p == parse(Part(b, d.at, Len(b)))
           x == ServeAfter(b, d)
<1>1. /\ p.answer = "Partial" \/ p.answer = "Err" \/ p.answer = "Complete"
      /\ p.answer = "Partial" => serve(b, d) = Point(FALSE, d.at, d.served, "no")
      /\ p.answer = "Err" => serve(b, d) = Point(FALSE, d.at, d.served, p.why)
      /\ p.answer = "Complete" =>
           /\ serve(b, d) = Point(TRUE, d.at + p.consumed, Append(d.served, p.request), "no")
           /\ p.consumed \in 1 .. Len(b) - d.at
  BY ServeIs DEF Settled
<1> HIDE DEF p
<1>2. x = IF d.more THEN serve(b, d) ELSE d
  BY DEF ServeAfter
<1> HIDE DEF x
<1>3. CASE x.at = d.at /\ x.served = d.served
  BY <1>3, BeginsSelf DEF x
<1>4. CASE /\ x = Point(TRUE, d.at + p.consumed, Append(d.served, p.request), "no")
           /\ p.consumed \in 1 .. Len(b) - d.at
  <2>1. x.at = d.at + p.consumed /\ x.served = Append(d.served, p.request)
    BY <1>4 DEF Point
  <2>2. d.at + p.consumed \in 0 .. Len(b)
    BY <1>4
  <2>3. IsList(Append(d.served, p.request)) /\ Begins(d.served, Append(d.served, p.request))
    BY ListGrows
  <2> QED
    BY <2>1, <2>2, <2>3 DEF x
<1>5. \/ x.at = d.at /\ x.served = d.served
      \/ /\ x = Point(TRUE, d.at + p.consumed, Append(d.served, p.request), "no")
         /\ p.consumed \in 1 .. Len(b) - d.at
  <2>2. x = d \/ x = serve(b, d)
    BY <1>2
  <2>3. CASE x = d
    BY <2>3
  <2>4. CASE x = serve(b, d) /\ p.answer = "Partial"
    <3>1. x = Point(FALSE, d.at, d.served, "no")
      BY <1>1, <2>4
    <3> QED
      BY <3>1 DEF Point
  <2>5. CASE x = serve(b, d) /\ p.answer = "Err"
    <3>1. x = Point(FALSE, d.at, d.served, p.why)
      BY <1>1, <2>5
    <3> QED
      BY <3>1 DEF Point
  <2>6. CASE x = serve(b, d) /\ p.answer = "Complete"
    BY <1>1, <2>6
  <2> QED
    BY <1>1, <2>2, <2>3, <2>4, <2>5, <2>6
<1> QED
  BY <1>3, <1>4, <1>5

(* At every turn the walk is inside the text and has served a list.         *)
LEMMA WalkKeeps ==
  ASSUME NEW b \in Seq(Symbol), NEW done, IsList(done), NEW k \in 0 .. Len(b) + 1
  PROVE  Drained(b, done)[k].at \in 0 .. Len(b) /\ IsList(Drained(b, done)[k].served)
<1> DEFINE W == Drained(b, done)
           n == Len(b) + 1
           T == {j \in 0 .. n : W[j].at \in 0 .. Len(b) /\ IsList(W[j].served)}
<1>1. W[0] = Point(TRUE, 0, done, "no") /\ \A j \in 1 .. n : W[j] = ServeAfter(b, W[j - 1])
  BY DrainedIs
<1>2. n \in Nat /\ Len(b) \in Nat
  OBVIOUS
<1> HIDE DEF W, n
<1>3. 0 \in T
  BY <1>1, <1>2 DEF Point
<1>4. ASSUME NEW j \in 0 .. n - 1, j \in T
      PROVE  j + 1 \in T
  <2>1. j + 1 \in 1 .. n /\ j + 1 \in 0 .. n /\ (j + 1) - 1 = j
    BY <1>2
  <2>2. W[j + 1] = ServeAfter(b, W[j])
    BY <1>1, <2>1
  <2>3. W[j].at \in 0 .. Len(b) /\ IsList(W[j].served)
    BY <1>4
  <2>4. W[j + 1].at \in 0 .. Len(b) /\ IsList(W[j + 1].served)
    BY <2>2, <2>3, TurnAdds
  <2> QED
    BY <2>1, <2>4
<1> HIDE DEF T
<1>5. 0 .. n \subseteq T
  BY <1>2, <1>3, <1>4, UpTo
<1>6. k \in T
  BY <1>5 DEF n
<1> QED
  BY <1>6 DEF T, W

(* What some turn has served begins what the walk serves.                   *)
LEMMA WalkGrows ==
  ASSUME NEW b \in Seq(Symbol), NEW done, IsList(done), NEW k \in 0 .. Len(b) + 1
  PROVE  Begins(Drained(b, done)[k].served, Drain(b, done).served)
<1> DEFINE W == Drained(b, done)
           n == Len(b) + 1
           m == n - k
           T == {j \in 0 .. m : Begins(W[k].served, W[k + j].served)}
<1>1. \A j \in 1 .. n : W[j] = ServeAfter(b, W[j - 1])
  BY DrainedIs
<1>2. n \in Nat /\ k \in 0 .. n /\ m \in Nat /\ k + m = n /\ k \in Nat /\ k + 0 = k
  OBVIOUS
<1>3. \A j \in 0 .. n : W[j].at \in 0 .. Len(b) /\ IsList(W[j].served)
  BY WalkKeeps
<1>4. Drain(b, done) = W[n]
  BY DEF Drain
<1> HIDE DEF W, n, m
<1>5. 0 \in T
  BY <1>2, <1>3, BeginsSelf
<1>6. ASSUME NEW j \in 0 .. m - 1, j \in T
      PROVE  j + 1 \in T
  <2>1. /\ k + (j + 1) \in 1 .. n /\ k + (j + 1) - 1 = k + j /\ j + 1 \in 0 .. m
        /\ k + j \in 0 .. n /\ k + (j + 1) \in 0 .. n
    BY <1>2
  <2>2. W[k + (j + 1)] = ServeAfter(b, W[k + j])
    BY <1>1, <2>1
  <2>3. Begins(W[k + j].served, W[k + (j + 1)].served)
    BY <1>3, <2>1, <2>2, TurnAdds
  <2>4. Begins(W[k].served, W[k + j].served)
    BY <1>6
  <2>5. Begins(W[k].served, W[k + (j + 1)].served)
    BY <1>2, <1>3, <2>1, <2>3, <2>4, BeginsOn
  <2> QED
    BY <2>1, <2>5
<1> HIDE DEF T
<1>7. 0 .. m \subseteq T
  BY <1>2, <1>5, <1>6, UpTo
<1>8. m \in T
  BY <1>2, <1>7
<1> QED
  BY <1>2, <1>4, <1>8 DEF T, W

(* A walk that has stopped stays where it is.                               *)
LEMMA WalkStops ==
  ASSUME NEW b \in Seq(Symbol), NEW done, NEW k \in 0 .. Len(b) + 1, ~Drained(b, done)[k].more
  PROVE  Drain(b, done) = Drained(b, done)[k]
<1> DEFINE W == Drained(b, done)
           n == Len(b) + 1
           m == n - k
           T == {j \in 0 .. m : W[k + j] = W[k]}
<1>1. \A j \in 1 .. n : W[j] = ServeAfter(b, W[j - 1])
  BY DrainedIs
<1>2. n \in Nat /\ k \in 0 .. n /\ m \in Nat /\ k + m = n /\ k \in Nat /\ k + 0 = k
  OBVIOUS
<1>3. ~W[k].more
  OBVIOUS
<1>4. Drain(b, done) = W[n]
  BY DEF Drain
<1> HIDE DEF W, n, m
<1>5. 0 \in T
  BY <1>2
<1>6. ASSUME NEW j \in 0 .. m - 1, j \in T
      PROVE  j + 1 \in T
  <2>1. k + (j + 1) \in 1 .. n /\ k + (j + 1) - 1 = k + j /\ j + 1 \in 0 .. m
    BY <1>2
  <2>2. W[k + (j + 1)] = ServeAfter(b, W[k + j])
    BY <1>1, <2>1
  <2>3. W[k + (j + 1)] = W[k]
    BY <1>3, <1>6, <2>2 DEF ServeAfter
  <2> QED
    BY <2>1, <2>3
<1> HIDE DEF T
<1>7. 0 .. m \subseteq T
  BY <1>2, <1>5, <1>6, UpTo
<1>8. m \in T
  BY <1>2, <1>7
<1> QED
  BY <1>2, <1>4, <1>8 DEF T, W

-----------------------------------------------------------------------------
(* The walk over what has come so far and the one over all of the stream are the same walk.*)

(* The walk over all of w comes to this, at its turn k.                              *)
Reached(w, k, at, done) == Drained(w, << >>)[k] = Point(TRUE, at, done, "no")

(* Why the caller leaves off at a.                                                *)
Judged(b, a, error) ==
  \/ parse(Part(b, a, Len(b))).answer = "Partial" /\ error = "no"
  \/ parse(Part(b, a, Len(b))).answer = "Err" /\ error = parse(Part(b, a, Len(b))).why /\ error # "no"

(* What the walk over w makes of a request that has come, all of w has not.            *)
LEMMA SameTurn ==
  ASSUME NEW w \in Seq(Symbol), NEW t \in 0 .. Len(w), NEW a \in 0 .. t, NEW k \in 0 .. a,
         NEW done, Reached(w, k, a, done), parse(Part(w, a, t)).answer = "Complete"
  PROVE  LET p == parse(Part(w, a, t))
         IN  Reached(w, k + 1, a + p.consumed, Append(done, p.request))
<1> DEFINE p == parse(Part(w, a, t))
           q == parse(Part(w, a, Len(w)))
           W == Drained(w, << >>)
<1>1. a \in 0 .. Len(w) /\ Len(w) \in 0 .. Len(w) /\ k + 1 \in 1 .. Len(w) + 1 /\ (k + 1) - 1 = k
  OBVIOUS
<1>2. Part(w, a, t) \in Seq(Symbol)
  BY PartIs
<1>3. Part(w, a, Len(w)) \in Seq(Symbol)
  BY <1>1, PartIs
<1>4. Agree(Part(w, a, t), Part(w, a, Len(w)), p, q)
  BY <1>2, <1>3, PartsGrow, ParseStays
<1>5. q = p
  BY <1>4, Answers DEF Agree
<1>6. W[k + 1] = ServeAfter(w, W[k])
  BY <1>1, DrainedIs
<1>7. W[k] = Point(TRUE, a, done, "no")
  BY DEF Reached
<1>8. W[k].more /\ W[k].at = a /\ W[k].served = done
  BY <1>7 DEF Point
<1>9. W[k + 1] = serve(w, W[k])
  BY <1>6, <1>8 DEF ServeAfter
<1>10. serve(w, W[k]) = Point(TRUE, a + q.consumed, Append(done, q.request), "no")
  <2>1. p.answer = "Complete"
    OBVIOUS
  <2> HIDE DEF W, p
  <2>2. q.answer = "Complete"
    BY <1>5, <2>1
  <2> QED
    BY <1>1, <1>8, <2>2, ServeIs
<1>11. W[k + 1] = Point(TRUE, a + p.consumed, Append(done, p.request), "no")
  BY <1>5, <1>9, <1>10
<1> QED
  BY <1>11 DEF Reached

(* The caller's walk over a part of w is one over w, as far as it goes.                 *)
InStep(w, k, a, b, j, x) ==
  /\ x.at \in 0 .. Len(b)
  /\ x.more => j <= x.at /\ Reached(w, k + j, a + x.at, x.served)
  /\ ~x.more => \E i \in 0 .. x.at :
                  Reached(w, k + i, a + x.at, x.served) /\ Judged(b, x.at, x.refused)

(* Each turn over the part is a turn over the whole.                        *)
LEMMA Lockstep ==
  ASSUME NEW w \in Seq(Symbol), NEW t \in 0 .. Len(w), NEW a \in 0 .. t, NEW k \in 0 .. a,
         NEW done, Reached(w, k, a, done), NEW j \in 0 .. t - a + 1
  PROVE  InStep(w, k, a, Part(w, a, t), j, Drained(Part(w, a, t), done)[j])
<1> DEFINE b == Part(w, a, t)
           D == Drained(b, done)
           n == t - a
           T == {i \in 0 .. n + 1 : InStep(w, k, a, b, i, D[i])}
<1>1. b \in Seq(Symbol) /\ Len(b) = n
  BY PartIs
<1>2. n \in Nat /\ a + n = t /\ a \in Nat /\ k \in Nat /\ t \in Nat /\ k <= a
  OBVIOUS
<1>3. D[0] = Point(TRUE, 0, done, "no") /\ \A i \in 1 .. n + 1 : D[i] = ServeAfter(b, D[i - 1])
  BY <1>1, DrainedIs
<1>4. \A d \in 0 .. n : Part(b, d, n) = Part(w, a + d, t)
  BY PartOfPart
<1> HIDE DEF b, D, n
<1>5. 0 \in T
  <2>1. D[0].more /\ D[0].at = 0 /\ D[0].served = done
    BY <1>3 DEF Point
  <2>2. k + 0 = k /\ a + 0 = a /\ 0 \in 0 .. n
    BY <1>2
  <2>3. Reached(w, k + 0, a + D[0].at, D[0].served)
    BY <2>1, <2>2
  <2>4. InStep(w, k, a, b, 0, D[0])
    BY <1>1, <2>1, <2>2, <2>3 DEF InStep
  <2>5. 0 \in 0 .. n + 1
    BY <1>2
  <2> QED
    BY <2>4, <2>5
<1>6. ASSUME NEW i \in 0 .. n, i \in T
      PROVE  i + 1 \in T
  <2> DEFINE x == D[i]
             d == x.at
             p == parse(Part(b, d, n))
             y == D[i + 1]
  <2>1. i + 1 \in 1 .. n + 1 /\ i + 1 \in 0 .. n + 1 /\ (i + 1) - 1 = i
    BY <1>2
  <2>2. y = ServeAfter(b, x)
    BY <1>3, <2>1
  <2>3. InStep(w, k, a, b, i, x)
    BY <1>6
  <2>4. d \in 0 .. n
    BY <1>1, <2>3 DEF InStep
  <2>5. /\ Settled(Part(b, d, n), p)
        /\ p.answer = "Partial" => serve(b, x) = Point(FALSE, d, x.served, "no")
        /\ p.answer = "Err" => serve(b, x) = Point(FALSE, d, x.served, p.why)
        /\ p.answer = "Complete" =>
             /\ serve(b, x) = Point(TRUE, d + p.consumed, Append(x.served, p.request), "no")
             /\ p.consumed \in 1 .. n - d
    BY <1>1, <2>4, ServeIs
  <2>6. Part(b, d, n) = Part(w, a + d, t)
    BY <1>4, <2>4
  <2> HIDE DEF y
  <2>7. InStep(w, k, a, b, i + 1, y)
    <3>1. CASE ~x.more
      <4>1. y = x
        BY <2>2, <3>1 DEF ServeAfter
      <4> QED
        BY <2>3, <3>1, <4>1 DEF InStep
    <3>2. CASE x.more
      <4>1. y = serve(b, x)
        BY <2>2, <3>2 DEF ServeAfter
      <4>2. i <= d /\ Reached(w, k + i, a + d, x.served)
        BY <2>3, <3>2 DEF InStep
      <4>3. CASE p.answer = "Complete"
        <5>1. y = Point(TRUE, d + p.consumed, Append(x.served, p.request), "no")
          BY <2>5, <4>1, <4>3
        <5>2. y.more /\ y.at = d + p.consumed /\ y.served = Append(x.served, p.request)
          BY <5>1 DEF Point
        <5>3. p.consumed \in 1 .. n - d
          BY <2>5, <4>3
        <5>4. d + p.consumed \in 0 .. n /\ i + 1 <= d + p.consumed
              /\ a + (d + p.consumed) = a + d + p.consumed /\ k + (i + 1) = k + i + 1
          <6> DEFINE c == p.consumed
          <6>1. c \in 1 .. n - d /\ i \in Nat
            BY <1>2, <5>3
          <6> HIDE DEF c, d
          <6>2. d + c \in 0 .. n /\ i + 1 <= d + c /\ a + (d + c) = a + d + c
                /\ k + (i + 1) = k + i + 1
            BY <1>2, <2>4, <4>2, <6>1
          <6> QED
            BY <6>2 DEF c, d
        <5>5. a + d \in 0 .. t /\ k + i \in 0 .. a + d
          <6>1. i \in Nat /\ k \in Nat /\ a \in Nat /\ k <= a /\ i <= d
            BY <1>2, <4>2
          <6>2. d \in 0 .. n /\ n \in Nat /\ a + n = t
            BY <1>2, <2>4
          <6> HIDE DEF d
          <6> QED
            BY <6>1, <6>2
        <5>6. parse(Part(w, a + d, t)).answer = "Complete" /\ parse(Part(w, a + d, t)) = p
          BY <2>6, <4>3
        <5> HIDE DEF p
        <5>7. Reached(w, k + i + 1, a + d + p.consumed, Append(x.served, p.request))
          BY <4>2, <5>5, <5>6, SameTurn
        <5>8. Reached(w, k + (i + 1), a + y.at, y.served)
          BY <5>2, <5>4, <5>7
        <5> QED
          BY <1>1, <5>2, <5>4, <5>8 DEF InStep
      <4>4. ASSUME NEW e, y = Point(FALSE, d, x.served, e), Judged(b, d, e)
            PROVE  InStep(w, k, a, b, i + 1, y)
        <5>1. ~y.more /\ y.at = d /\ y.served = x.served /\ y.refused = e
          BY <4>4 DEF Point
        <5>2. i \in 0 .. d
          BY <2>4, <4>2
        <5>3. Reached(w, k + i, a + y.at, y.served) /\ Judged(b, y.at, y.refused) /\ i \in 0 .. y.at
          BY <4>2, <4>4, <5>1, <5>2
        <5> QED
          BY <1>1, <2>4, <5>1, <5>3 DEF InStep
      <4>5. CASE p.answer = "Partial"
        <5>1. Judged(b, d, "no")
          BY <1>1, <4>5 DEF Judged
        <5> QED
          BY <2>5, <4>1, <4>4, <4>5, <5>1
      <4>6. CASE p.answer = "Err"
        <5>1. p.why # "no"
          BY <2>5, <4>6 DEF Settled
        <5>2. Judged(b, d, p.why)
          BY <1>1, <4>6, <5>1 DEF Judged
        <5> QED
          BY <2>5, <4>1, <4>4, <4>6, <5>2
      <4> QED
        BY <2>5, <4>3, <4>5, <4>6 DEF Settled
    <3> QED
      BY <3>1, <3>2
  <2> QED
    BY <2>1, <2>7 DEF y
<1> HIDE DEF T
<1>7. 0 .. n + 1 \subseteq T
  <2>1. n + 1 \in Nat /\ \A i \in 0 .. (n + 1) - 1 : i \in 0 .. n
    BY <1>2
  <2> DEFINE m == n + 1
  <2>2. m \in Nat /\ \A i \in 0 .. m - 1 : i \in T => i + 1 \in T
    BY <1>6, <2>1
  <2> HIDE DEF m
  <2>3. 0 .. m \subseteq T
    BY <1>5, <2>2, UpTo
  <2> QED
    BY <2>3 DEF m
<1>8. j \in T
  BY <1>7 DEF n
<1> QED
  BY <1>8 DEF T, D, b

(* The caller comes to where the walk over all of w comes too, and has a reason to stop. *)
LEMMA DrainReaches ==
  ASSUME NEW w \in Seq(Symbol), NEW t \in 0 .. Len(w), NEW a \in 0 .. t, NEW k \in 0 .. a,
         NEW done, Reached(w, k, a, done)
  PROVE  LET b == Part(w, a, t)
             x == Drain(b, done)
         IN  /\ x.at \in 0 .. t - a /\ Judged(b, x.at, x.refused)
             /\ \E i \in 0 .. x.at : Reached(w, k + i, a + x.at, x.served)
<1> DEFINE b == Part(w, a, t)
           x == Drain(b, done)
           n == t - a
<1>1. Len(b) = n /\ n \in Nat /\ n + 1 \in 0 .. n + 1
  <2>1. n \in Nat
    OBVIOUS
  <2>2. Len(b) = n
    BY PartIs
  <2> HIDE DEF n, b
  <2> QED
    BY <2>1, <2>2
<1>2. x = Drained(b, done)[n + 1]
  BY <1>1 DEF Drain
<1>3. InStep(w, k, a, b, n + 1, x)
  BY <1>1, <1>2, Lockstep
<1> HIDE DEF x, b
<1>4. ~x.more
  BY <1>1, <1>3 DEF InStep
<1>5. x.at \in 0 .. n
  BY <1>1, <1>3 DEF InStep
<1>6. \E i \in 0 .. x.at : Reached(w, k + i, a + x.at, x.served) /\ Judged(b, x.at, x.refused)
  BY <1>3, <1>4 DEF InStep
<1> QED
  BY <1>5, <1>6 DEF x, b

-----------------------------------------------------------------------------
(* The invariant.                                                           *)

(* Why the parser leaves off at s.                                                 *)
Stopped(s, error) ==
  \/ parse(s).answer = "Partial" /\ error = "no"
  \/ parse(s).answer = "Err" /\ error = parse(s).why /\ error # "no"

(* What is served is what the walk over all that is sent has served at a turn of its,     *)
(* and what is kept begins there.                                                  *)
HttpInv ==
  /\ stream \in Streams /\ taken \in 0 .. Len(stream.wire)
  /\ \E at \in 0 .. taken, k \in 0 .. taken :
       k <= at /\ Reached(stream.wire, k, at, served) /\ buf = Part(stream.wire, at, taken)
  /\ Stopped(buf, refused)

(* The stream is made of symbols.                                           *)
LEMMA WireIs ==
  ASSUME stream \in Streams
  PROVE  stream.wire \in Seq(Symbol)
BY HttpAssumption

(* Nothing received is not yet a request.                                   *)
LEMMA EmptyIsPartial == parse(<< >>) = Partial
<1> DEFINE b == << >>
<1>1. b \in Seq(Symbol) /\ Len(b) = 0
  OBVIOUS
<1>2. find_crlf(b, 1) = 0
  <2>1. {i \in 1 .. Len(b) - 1 : b[i] = "CR" /\ b[i + 1] = "LF"} = {}
    BY <1>1
  <2> QED
    BY <2>1 DEF find_crlf
<1>3. read_first(b) = Partial
  BY <1>1, <1>2, Caps DEF read_first, Unfinished
<1>4. Lines(b)[0] = read_first(b)
  BY <1>1, LinesAre
<1> QED
  BY <1>1, <1>3, <1>4 DEF parse

(* The invariant holds before the first segment.                            *)
LEMMA HttpInitInv == HttpInit => HttpInv
<1> SUFFICES ASSUME HttpInit PROVE HttpInv
  OBVIOUS
<1> DEFINE w == stream.wire
<1>1. w \in Seq(Symbol) /\ stream \in Streams
  BY WireIs DEF HttpInit
<1>2. taken = 0 /\ buf = << >> /\ served = << >> /\ refused = "no"
  BY DEF HttpInit
<1> HIDE DEF w
<1>3. Len(w) \in Nat /\ 0 \in 0 .. Len(w)
  BY <1>1
<1>4. Drained(w, << >>)[0] = Point(TRUE, 0, << >>, "no")
  BY <1>1, DrainedIs
<1>5. Reached(w, 0, 0, served)
  BY <1>2, <1>4 DEF Reached
<1>6. buf = Part(w, 0, 0)
  <2>1. Part(w, 0, 0) \in Seq(Symbol) /\ Len(Part(w, 0, 0)) = 0 - 0
    BY <1>1, <1>3, PartIs
  <2> QED
    BY <1>2, <2>1
<1>7. Stopped(buf, refused)
  BY <1>2, EmptyIsPartial, Answers DEF Stopped
<1>8. 0 \in 0 .. taken /\ 0 <= 0
  BY <1>2
<1>9. \E at \in 0 .. taken, k \in 0 .. taken :
        k <= at /\ Reached(w, k, at, served) /\ buf = Part(w, at, taken)
  BY <1>2, <1>5, <1>6, <1>8
<1> QED
  BY <1>1, <1>2, <1>3, <1>7, <1>9 DEF HttpInv, w

(* And every segment received, and the end of the stream, keep it.          *)
LEMMA HttpStep == HttpInv /\ [HttpNext]_httpVars => HttpInv'
<1> SUFFICES ASSUME HttpInv, [HttpNext]_httpVars PROVE HttpInv'
  OBVIOUS
<1>1. CASE UNCHANGED httpVars
  BY <1>1 DEF HttpInv, httpVars
<1>2. ASSUME NEW n \in 1 .. Len(stream.wire), Recv(n)
      PROVE  HttpInv'
  <2> DEFINE w == stream.wire
             t == taken + n
             b == buf \o SubSeq(w, taken + 1, taken + n)
             got == Drain(b, served)
  <2>1. w \in Seq(Symbol) /\ stream \in Streams
    BY WireIs DEF HttpInv
  <2>2. /\ t <= Len(w) /\ taken' = t /\ buf' = Rest(b, got) /\ served' = got.served
        /\ refused' = got.refused /\ stream' = stream
    BY <1>2 DEF Recv
  <2>3. taken \in 0 .. Len(w) /\ n \in Nat
    BY DEF HttpInv
  <2> HIDE DEF w
  <2>4. PICK at \in 0 .. taken, k \in 0 .. taken :
          k <= at /\ Reached(w, k, at, served) /\ buf = Part(w, at, taken)
    BY DEF HttpInv, w
  <2>5. /\ Len(w) \in Nat /\ t \in 0 .. Len(w) /\ at \in 0 .. t /\ k \in 0 .. at /\ at \in Nat
        /\ k \in Nat
    BY <2>1, <2>2, <2>3, <2>4
  <2>6. b = Part(w, at, t)
    BY <2>1, <2>2, <2>3, <2>4, PartsJoin
  <2> HIDE DEF b, t
  <2>7. got.at \in 0 .. t - at /\ Judged(b, got.at, got.refused)
    BY <2>1, <2>4, <2>5, <2>6, DrainReaches
  <2>8. PICK i \in 0 .. got.at : Reached(w, k + i, at + got.at, got.served)
    BY <2>1, <2>4, <2>5, <2>6, DrainReaches
  <2> HIDE DEF got
  <2>9. Len(b) = t - at /\ t \in Nat
    BY <2>1, <2>5, <2>6, PartIs
  <2>10. buf' = Part(b, got.at, Len(b))
    BY <2>2 DEF Rest, Part
  <2>11. buf' = Part(w, at + got.at, t)
    BY <2>1, <2>5, <2>6, <2>7, <2>9, <2>10, PartOfPart
  <2>12. Stopped(buf', refused')
    BY <2>2, <2>7, <2>10 DEF Judged, Stopped
  <2>13. at + got.at \in 0 .. t /\ k + i \in 0 .. t /\ k + i <= at + got.at
    BY <2>5, <2>7, <2>8, <2>9
  <2>14. \E p \in 0 .. t, m \in 0 .. t :
           m <= p /\ Reached(w, m, p, served') /\ buf' = Part(w, p, t)
    BY <2>2, <2>8, <2>11, <2>13
  <2>15. w' = w
    BY <2>2 DEF w
  <2>16. (stream.wire)' = w
    BY <2>15 DEF w
  <2> QED
    BY <2>1, <2>2, <2>5, <2>12, <2>14, <2>16 DEF HttpInv, Stopped
<1> QED
  BY <1>1, <1>2 DEF HttpNext

-----------------------------------------------------------------------------
(* Where the invariant holds the stream is answered as if it had come at once.         *)
LEMMA HttpInvOneAnswer == HttpInv => OneAnswer
<1> SUFFICES ASSUME HttpInv PROVE OneAnswer
  OBVIOUS
<1> DEFINE w == stream.wire
           whole == Drain(w, << >>)
           W == Drained(w, << >>)
<1>1. w \in Seq(Symbol) /\ taken \in 0 .. Len(w)
  BY WireIs DEF HttpInv
<1>2. PICK at \in 0 .. taken, k \in 0 .. taken :
        k <= at /\ Reached(w, k, at, served) /\ buf = Part(w, at, taken)
  BY DEF HttpInv
<1>3. Stopped(buf, refused)
  BY DEF HttpInv
<1>4. /\ Len(w) \in Nat /\ k \in 0 .. Len(w) + 1 /\ k + 1 \in 1 .. Len(w) + 1 /\ (k + 1) - 1 = k
      /\ k + 1 \in 0 .. Len(w) + 1 /\ at \in 0 .. Len(w) /\ Len(w) \in 0 .. Len(w)
  BY <1>1, <1>2
<1>5. W[k] = Point(TRUE, at, served, "no")
  BY <1>2 DEF Reached
<1>6. W[k].more /\ W[k].at = at /\ W[k].served = served
  BY <1>5 DEF Point
<1>7. W[k + 1] = ServeAfter(w, W[k])
  BY <1>1, <1>4, DrainedIs
<1> DEFINE c == Part(w, at, Len(w))
           q == parse(c)
<1>8. W[k + 1] = serve(w, W[k])
  BY <1>6, <1>7 DEF ServeAfter
<1>9. /\ q.answer = "Partial" => W[k + 1] = Point(FALSE, at, served, "no")
      /\ q.answer = "Err" => W[k + 1] = Point(FALSE, at, served, q.why)
  <2> HIDE DEF W
  <2> QED
    BY <1>1, <1>4, <1>6, <1>8, ServeIs
<1>10. \A e : W[k + 1] = Point(FALSE, at, served, e) =>
                whole.served = served /\ whole.refused = e /\ whole.at = at
  <2> SUFFICES ASSUME NEW e, W[k + 1] = Point(FALSE, at, served, e)
               PROVE  whole.served = served /\ whole.refused = e /\ whole.at = at
    OBVIOUS
  <2>1. ~W[k + 1].more
    BY DEF Point
  <2>2. whole = W[k + 1]
    BY <1>1, <1>4, <2>1, WalkStops
  <2> HIDE DEF whole
  <2> QED
    BY <2>2 DEF Point
<1>11. Begins(served, whole.served)
  BY <1>1, <1>4, <1>6, NoneIsList, WalkGrows
<1>12. buf \in Seq(Symbol) /\ Len(buf) = taken - at /\ taken \in Nat /\ at \in Nat
  <2>1. taken \in Nat /\ at \in Nat
    BY <1>1, <1>2, <1>4
  <2>2. Part(w, at, taken) \in Seq(Symbol) /\ Len(Part(w, at, taken)) = taken - at
    BY <1>1, <1>2, PartIs
  <2> QED
    BY <1>2, <2>1, <2>2
<1>13. c \in Seq(Symbol) /\ Len(c) = Len(w) - at /\ \A i \in 1 .. Len(w) - at : c[i] = w[at + i]
  BY <1>1, <1>4, PartIs
<1>14. Prefix(buf, c)
  BY <1>1, <1>2, PartsGrow
<1>15. Agree(buf, c, parse(buf), q)
  BY <1>12, <1>13, <1>14, ParseStays
<1> HIDE DEF c, q, W, whole
<1>16. ASSUME refused # "no"
       PROVE  CutAtLimit \/ (served = whole.served /\ refused = whole.refused)
  <2>1. parse(buf).answer = "Err" /\ refused = parse(buf).why
    BY <1>3, <1>16 DEF Stopped
  <2>2. CASE q = parse(buf)
    <3>1. W[k + 1] = Point(FALSE, at, served, refused)
      BY <1>9, <2>1, <2>2
    <3> QED
      BY <1>10, <3>1
  <2>3. CASE parse(buf) = Err("LineTooLong") /\ CutAt(buf, c)
    <3>1. refused = "LineTooLong"
      BY <2>1, <2>3, Answers
    <3>2. PICK from \in 1 .. Len(buf) :
            /\ from # 1 => from > 2 /\ Pair(buf, from - 2)
            /\ AtCap(buf, c, from, IF from = 1 THEN MAX_REQUEST_LINE ELSE MAX_HEADER_LINE)
      BY <2>3 DEF CutAt
    <3> DEFINE cap == IF from = 1 THEN MAX_REQUEST_LINE ELSE MAX_HEADER_LINE
    <3>3. /\ find_crlf(buf, from) = 0 /\ Len(buf) - from + 1 = cap + 1
          /\ Len(buf) < Len(c) /\ buf[Len(buf)] = "CR" /\ c[Len(buf) + 1] = "LF"
      BY <3>2 DEF AtCap
    <3> HIDE DEF cap
    <3>4. w[taken + 1] = "LF"
      <4>1. Len(buf) + 1 \in 1 .. Len(w) - at /\ at + (Len(buf) + 1) = taken + 1
        BY <1>4, <1>12, <1>13, <3>3
      <4> QED
        BY <1>13, <3>3, <4>1
    <3>5. from # 1 => from > 2 /\ buf[from - 2] = "CR" /\ buf[from - 1] = "LF"
      <4>1. from - 2 + 1 = from - 1
        OBVIOUS
      <4> QED
        BY <3>2, <4>1 DEF Pair
    <3>6. from \in DOMAIN buf
      BY <1>12
    <3>7. CutAtLimit
      BY <3>1, <3>3, <3>4, <3>5, <3>6 DEF CutAtLimit, cap
    <3> QED
      BY <3>7
  <2> QED
    BY <1>15, <2>1, <2>2, <2>3 DEF Agree
<1>17. ASSUME taken = Len(w), refused = "no"
       PROVE  served = whole.served /\ whole.refused = "no" /\ buf = Rest(w, whole)
  <2>1. buf = c
    BY <1>2, <1>17 DEF c
  <2>2. q.answer = "Partial"
    BY <1>3, <1>17, <2>1 DEF Stopped, q
  <2>3. whole.served = served /\ whole.refused = "no" /\ whole.at = at
    BY <1>9, <1>10, <2>2
  <2> QED
    BY <2>1, <2>3 DEF Rest, c, Part
<1> QED
  BY <1>11, <1>16, <1>17 DEF OneAnswer, whole

(* However the stream is cut: what has been served are the first answers that one   *)
(* parse after the other of the whole stream gives, and the parser is only left for  *)
(* good where that stream itself is not to be read on.                             *)
THEOREM AnswersOnce == HttpInit /\ [][HttpNext]_httpVars => []OneAnswer
  BY HttpInitInv, HttpStep, HttpInvOneAnswer, PTL

-----------------------------------------------------------------------------
(* Texts that are written: joined, begun with, and without line ends in them.*)

(* What is written.  Texts joined, and what begins with them.                        *)
LEMMA JoinOn ==
  ASSUME NEW u \in Seq(Symbol), NEW v \in Seq(Symbol), NEW x \in Seq(Symbol)
  PROVE  (u \o v) \o x = u \o (v \o x)
<1> DEFINE p == u \o v
           q == v \o x
           y == p \o x
           z == u \o q
<1>1. /\ p \in Seq(Symbol) /\ Len(p) = Len(u) + Len(v)
      /\ \A i \in 1 .. Len(u) : p[i] = u[i]
      /\ \A i \in 1 .. Len(v) : p[Len(u) + i] = v[i]
  BY JoinIs
<1>2. /\ q \in Seq(Symbol) /\ Len(q) = Len(v) + Len(x)
      /\ \A i \in 1 .. Len(v) : q[i] = v[i]
      /\ \A i \in 1 .. Len(x) : q[Len(v) + i] = x[i]
  BY JoinIs
<1> HIDE DEF p, q
<1>3. /\ y \in Seq(Symbol) /\ Len(y) = Len(p) + Len(x)
      /\ \A i \in 1 .. Len(p) : y[i] = p[i]
      /\ \A i \in 1 .. Len(x) : y[Len(p) + i] = x[i]
  BY <1>1, JoinIs
<1>4. /\ z \in Seq(Symbol) /\ Len(z) = Len(u) + Len(q)
      /\ \A i \in 1 .. Len(u) : z[i] = u[i]
      /\ \A i \in 1 .. Len(q) : z[Len(u) + i] = q[i]
  BY <1>2, JoinIs
<1>5. Len(u) \in Nat /\ Len(v) \in Nat /\ Len(x) \in Nat
  OBVIOUS
<1> HIDE DEF y, z
<1>6. ASSUME NEW i \in 1 .. Len(u) + Len(v) + Len(x)
      PROVE  y[i] = z[i]
  <2>1. CASE i \in 1 .. Len(u)
    <3>1. i \in 1 .. Len(p)
      BY <1>1, <1>5, <2>1
    <3> QED
      BY <1>1, <1>3, <1>4, <2>1, <3>1
  <2>2. CASE i - Len(u) \in 1 .. Len(v)
    <3> DEFINE j == i - Len(u)
    <3>1. j \in 1 .. Len(v) /\ Len(u) + j = i /\ i \in 1 .. Len(p) /\ j \in 1 .. Len(q)
      BY <1>1, <1>2, <1>5, <2>2
    <3> HIDE DEF j
    <3>2. y[i] = v[j]
      BY <1>1, <1>3, <3>1
    <3>3. z[i] = v[j]
      BY <1>2, <1>4, <3>1
    <3> QED
      BY <3>2, <3>3
  <2>3. CASE i - Len(u) - Len(v) \in 1 .. Len(x)
    <3> DEFINE j == i - Len(u) - Len(v)
               m == Len(v) + j
    <3>1. /\ j \in 1 .. Len(x) /\ Len(p) + j = i /\ m \in 1 .. Len(q) /\ Len(u) + m = i
          /\ Len(v) + j = m
      BY <1>1, <1>2, <1>5, <2>3
    <3> HIDE DEF j, m
    <3>2. y[i] = x[j]
      BY <1>3, <3>1
    <3>3. z[i] = q[m] /\ q[m] = x[j]
      BY <1>2, <1>4, <3>1
    <3> QED
      BY <3>2, <3>3
  <2> QED
    BY <1>5, <2>1, <2>2, <2>3
<1>7. Len(y) = Len(u) + Len(v) + Len(x) /\ Len(z) = Len(u) + Len(v) + Len(x)
  BY <1>1, <1>2, <1>3, <1>4, <1>5
<1>8. y = z
  BY <1>3, <1>4, <1>6, <1>7, SameText
<1> QED
  BY <1>8 DEF y, z, p, q

(* A joined text begins with its first part.                                *)
LEMMA JoinPrefix ==
  ASSUME NEW u \in Seq(Symbol), NEW v \in Seq(Symbol)
  PROVE  Prefix(u, u \o v)
<1>1. Len(u) \in Nat /\ Len(v) \in Nat
  OBVIOUS
<1>2. Len(u \o v) = Len(u) + Len(v) /\ \A i \in 1 .. Len(u) : (u \o v)[i] = u[i]
  BY JoinIs
<1> QED
  BY <1>1, <1>2 DEF Prefix

(* And so on, through a longer one.                                         *)
LEMMA PrefixOn ==
  ASSUME NEW u \in Seq(Symbol), NEW v \in Seq(Symbol), NEW x \in Seq(Symbol),
         Prefix(u, v), Prefix(v, x)
  PROVE  Prefix(u, x)
BY DEF Prefix

(* A line end is two symbols.                                               *)
LEMMA CRLFIs == CRLF \in Seq(Symbol) /\ Len(CRLF) = 2 /\ CRLF[1] = "CR" /\ CRLF[2] = "LF"
<1>1. "CR" \in Symbol /\ "LF" \in Symbol
  BY HttpAssumption
<1> QED
  BY <1>1 DEF CRLF

(* A text of one symbol.                                                    *)
LEMMA OneIs ==
  ASSUME NEW c \in Symbol
  PROVE  <<c>> \in Seq(Symbol) /\ Len(<<c>>) = 1 /\ <<c>>[1] = c
OBVIOUS

(* No CR in it.                                                                 *)
NoCR(s) == s \in Seq(Symbol) /\ \A i \in 1 .. Len(s) : s[i] # "CR"

(* Texts without line ends, joined.                                         *)
LEMMA NoCRJoin ==
  ASSUME NEW u, NEW v, NoCR(u), NoCR(v)
  PROVE  NoCR(u \o v)
<1> DEFINE x == u \o v
<1>1. /\ u \in Seq(Symbol) /\ v \in Seq(Symbol)
      /\ \A i \in 1 .. Len(u) : u[i] # "CR"
      /\ \A i \in 1 .. Len(v) : v[i] # "CR"
  BY DEF NoCR
<1>2. /\ x \in Seq(Symbol) /\ Len(x) = Len(u) + Len(v)
      /\ \A i \in 1 .. Len(u) : x[i] = u[i]
      /\ \A i \in 1 .. Len(v) : x[Len(u) + i] = v[i]
  BY <1>1, JoinIs
<1>3. Len(u) \in Nat /\ Len(v) \in Nat
  BY <1>1
<1> HIDE DEF x
<1>4. ASSUME NEW i \in 1 .. Len(x)
      PROVE  x[i] # "CR"
  <2>1. CASE i \in 1 .. Len(u)
    BY <1>1, <1>2, <2>1
  <2>2. CASE i - Len(u) \in 1 .. Len(v)
    <3> DEFINE j == i - Len(u)
    <3>1. j \in 1 .. Len(v) /\ Len(u) + j = i
      BY <1>3, <2>2
    <3> HIDE DEF j
    <3> QED
      BY <1>1, <1>2, <3>1
  <2> QED
    BY <1>2, <1>3, <2>1, <2>2
<1> QED
  BY <1>2, <1>4 DEF NoCR, x

(* A line after u, and its end: it is found and read back.                            *)
LEMMA LineEnds ==
  ASSUME NEW u \in Seq(Symbol), NEW text, NoCR(text)
  PROVE  LET b == (u \o text) \o CRLF
         IN  /\ b \in Seq(Symbol) /\ Len(b) = Len(u) + Len(text) + 2
             /\ find_crlf(b, Len(u) + 1) = Len(u) + Len(text) + 1
             /\ SubSeq(b, Len(u) + 1, Len(u) + Len(text)) = text
             /\ Pair(b, Len(b) - 1) /\ Prefix(u, b)
<1> DEFINE x == u \o text
           b == x \o CRLF
           m == Len(u)
           n == Len(text)
<1>1. text \in Seq(Symbol) /\ \A i \in 1 .. n : text[i] # "CR"
  BY DEF NoCR
<1>2. m \in Nat /\ n \in Nat /\ Len(u) = m /\ Len(text) = n
  BY <1>1
<1>3. /\ x \in Seq(Symbol) /\ Len(x) = m + n
      /\ \A i \in 1 .. n : x[m + i] = text[i]
  BY <1>1, JoinIs
<1>4. Prefix(u, x)
  BY <1>1, JoinPrefix
<1> HIDE DEF x, m, n
<1>5. /\ b \in Seq(Symbol) /\ Len(b) = Len(x) + Len(CRLF)
      /\ \A i \in 1 .. Len(x) : b[i] = x[i]
      /\ \A i \in 1 .. Len(CRLF) : b[Len(x) + i] = CRLF[i]
  BY <1>3, CRLFIs, JoinIs
<1>6. Prefix(x, b)
  BY <1>3, CRLFIs, JoinPrefix
<1> HIDE DEF b
<1>7. Prefix(u, b)
  BY <1>3, <1>4, <1>5, <1>6, PrefixOn
<1>8. Len(b) = m + n + 2 /\ b[m + n + 1] = "CR" /\ b[m + n + 2] = "LF"
  <2>1. Len(x) = m + n /\ Len(CRLF) = 2 /\ 1 \in 1 .. 2 /\ 2 \in 1 .. 2
    BY <1>3, CRLFIs
  <2> QED
    BY <1>2, <1>5, <2>1, CRLFIs
<1>9. \A i \in 1 .. n : b[m + i] = text[i]
  <2>1. \A i \in 1 .. n : m + i \in 1 .. Len(x)
    BY <1>2, <1>3
  <2> QED
    BY <1>3, <1>5, <2>1
<1>10. Pair(b, m + n + 1)
  <2>1. m + n + 1 + 1 = m + n + 2
    BY <1>2
  <2> QED
    BY <1>8, <2>1 DEF Pair
<1>11. \A i \in m + 1 .. m + n : ~Pair(b, i)
  <2>1. ASSUME NEW i \in m + 1 .. m + n
        PROVE  ~Pair(b, i)
    <3> DEFINE j == i - m
    <3>1. j \in 1 .. n /\ m + j = i
      BY <1>2
    <3> HIDE DEF j
    <3> QED
      BY <1>1, <1>9, <3>1 DEF Pair
  <2> QED
    BY <2>1
<1>12. find_crlf(b, m + 1) = m + n + 1
  <2> DEFINE e == m + n + 1
             from == m + 1
  <2>1. from \in Nat \ {0} /\ e \in from .. Len(b) - 1 /\ e - 1 = m + n
    BY <1>2, <1>8
  <2>2. Pair(b, e) /\ \A i \in from .. e - 1 : ~Pair(b, i)
    BY <1>10, <1>11, <2>1
  <2> HIDE DEF e, from
  <2>3. find_crlf(b, from) = e
    BY <1>5, <2>1, <2>2, CrlfAt
  <2> QED
    BY <2>3 DEF e, from
<1>13. SubSeq(b, m + 1, m + n) = text
  <2> DEFINE s == SubSeq(b, m + 1, m + n)
  <2>1. /\ s \in Seq(Symbol) /\ Len(s) = n /\ \A i \in 1 .. n : s[i] = b[m + i]
    <3> DEFINE t == m + n
    <3>1. t \in 0 .. Len(b) /\ m \in 0 .. t /\ t - m = n
      BY <1>2, <1>8
    <3> HIDE DEF t
    <3>2. Part(b, m, t) \in Seq(Symbol) /\ Len(Part(b, m, t)) = t - m
          /\ \A i \in 1 .. t - m : Part(b, m, t)[i] = b[m + i]
      BY <1>5, <3>1, PartIs
    <3> QED
      BY <3>1, <3>2 DEF Part, t
  <2> HIDE DEF s
  <2>2. s = text
    BY <1>1, <1>2, <1>9, <2>1, SameText
  <2> QED
    BY <2>2 DEF s
<1>14. Len(b) - 1 = m + n + 1
  BY <1>2, <1>8
<1> QED
  BY <1>5, <1>7, <1>8, <1>10, <1>12, <1>13, <1>14 DEF b, x, m, n

-----------------------------------------------------------------------------
(* What is split and trimmed is what was joined.                            *)

(* The least of a set is the one that is in it and under the others.                   *)
LEMMA LeastIs ==
  ASSUME NEW S \in SUBSET Nat, NEW m \in S, \A k \in S : m <= k
  PROVE  Least(S) = m
<1>1. Least(S) \in S /\ \A k \in S : Least(S) <= k
  BY DEF Least
<1> DEFINE n == Least(S)
<1> HIDE DEF n
<1>2. n \in Nat /\ m \in Nat /\ n <= m /\ m <= n
  BY <1>1 DEF n
<1> QED
  BY <1>2 DEF n

(* A text is split at its first separator.                                         *)
LEMMA SplitJoin ==
  ASSUME NEW u \in Seq(Symbol), NEW v \in Seq(Symbol), NEW sep \in Symbol,
         \A i \in 1 .. Len(u) : u[i] # sep
  PROVE  split_once(u \o (<<sep>> \o v), sep) = <<u, v>>
<1> DEFINE x == <<sep>> \o v
           text == u \o x
           m == Len(u)
           n == Len(v)
           at == {i \in DOMAIN text : text[i] = sep}
<1>1. /\ x \in Seq(Symbol) /\ Len(x) = 1 + n /\ x[1] = sep
      /\ \A i \in 1 .. n : x[1 + i] = v[i]
  <2>1. <<sep>> \in Seq(Symbol) /\ Len(<<sep>>) = 1 /\ <<sep>>[1] = sep
    OBVIOUS
  <2> DEFINE s == <<sep>>
  <2> HIDE DEF s
  <2>2. /\ s \o v \in Seq(Symbol) /\ Len(s \o v) = Len(s) + Len(v)
        /\ \A i \in 1 .. Len(s) : (s \o v)[i] = s[i]
        /\ \A i \in 1 .. Len(v) : (s \o v)[Len(s) + i] = v[i]
    BY <2>1, JoinIs DEF s
  <2>3. Len(s) = 1 /\ 1 \in 1 .. 1 /\ s[1] = sep
    BY <2>1 DEF s
  <2> QED
    BY <2>2, <2>3 DEF s
<1>2. m \in Nat /\ n \in Nat
  OBVIOUS
<1> HIDE DEF x, n
<1>3. /\ text \in Seq(Symbol) /\ Len(text) = m + Len(x)
      /\ \A i \in 1 .. m : text[i] = u[i]
      /\ \A i \in 1 .. Len(x) : text[m + i] = x[i]
  BY <1>1, JoinIs
<1>4. split_once(text, sep) = IF at = {} THEN << >>
        ELSE << SubSeq(text, 1, Least(at) - 1), SubSeq(text, Least(at) + 1, Len(text)) >>
  BY DEF split_once
<1>5. Len(text) = m + 1 + n
  BY <1>1, <1>2, <1>3
<1>6. \A i : i \in at <=> i \in 1 .. Len(text) /\ text[i] = sep
  BY <1>3
<1>7. \A i \in 1 .. m : text[i] # sep
  BY <1>3
<1> HIDE DEF text, m, at
<1>8. m + 1 \in at
  <2>1. 1 \in 1 .. Len(x)
    BY <1>1, <1>2
  <2>2. text[m + 1] = sep
    BY <1>1, <1>3, <2>1
  <2> QED
    BY <1>2, <1>5, <1>6, <2>2
<1>9. Least(at) = m + 1
  <2>1. at \in SUBSET Nat
    BY <1>2, <1>5, <1>6
  <2>2. \A k \in at : m + 1 <= k
    BY <1>2, <1>5, <1>6, <1>7
  <2> QED
    BY <1>8, <2>1, <2>2, LeastIs
<1>10. SubSeq(text, 1, m) = u
  <2>1. /\ Part(text, 0, m) \in Seq(Symbol) /\ Len(Part(text, 0, m)) = m - 0
        /\ \A i \in 1 .. m - 0 : Part(text, 0, m)[i] = text[0 + i]
    <3>1. m \in 0 .. Len(text) /\ 0 \in 0 .. m
      BY <1>2, <1>5
    <3> QED
      BY <1>3, <3>1, PartIs
  <2> DEFINE s == Part(text, 0, m)
  <2>2. s \in Seq(Symbol) /\ Len(s) = m /\ \A i \in 1 .. m : s[i] = text[i]
    <3>1. m - 0 = m /\ \A i \in 1 .. m : 0 + i = i
      BY <1>2
    <3> QED
      BY <2>1, <3>1
  <2>3. s = SubSeq(text, 1, m)
    BY DEF Part
  <2> HIDE DEF s
  <2>4. s = u
    <3>1. Len(u) = m
      BY DEF m
    <3> QED
      BY <1>3, <2>2, <3>1, SameText
  <2> QED
    BY <2>3, <2>4
<1>11. SubSeq(text, m + 2, Len(text)) = v
  <2> DEFINE a == m + 1
             t == Len(text)
  <2>1. t \in 0 .. Len(text) /\ a \in 0 .. t /\ t - a = n /\ a + 1 = m + 2
    BY <1>2, <1>5
  <2> HIDE DEF a, t
  <2>2. /\ Part(text, a, t) \in Seq(Symbol) /\ Len(Part(text, a, t)) = t - a
        /\ \A i \in 1 .. t - a : Part(text, a, t)[i] = text[a + i]
    BY <1>3, <2>1, PartIs
  <2>3. \A i \in 1 .. n : text[a + i] = v[i]
    <3>1. ASSUME NEW i \in 1 .. n
          PROVE  text[a + i] = v[i]
      <4>1. 1 + i \in 1 .. Len(x) /\ m + (1 + i) = a + i
        BY <1>1, <1>2 DEF a
      <4> QED
        BY <1>1, <1>3, <4>1
    <3> QED
      BY <3>1
  <2> DEFINE s == Part(text, a, t)
  <2>4. s = SubSeq(text, m + 2, t)
    BY <2>1 DEF Part
  <2> HIDE DEF s
  <2>5. s \in Seq(Symbol) /\ Len(s) = n /\ \A i \in 1 .. n : s[i] = v[i]
    BY <2>1, <2>2, <2>3 DEF s
  <2>6. s = v
    BY <2>5, SameText DEF n
  <2> QED
    BY <2>4, <2>6 DEF t
<1>12. split_once(text, sep) = <<SubSeq(text, 1, m), SubSeq(text, m + 2, Len(text))>>
  <2>1. m + 1 - 1 = m /\ m + 1 + 1 = m + 2
    BY <1>2
  <2>2. at # {}
    BY <1>8
  <2>3. split_once(text, sep) =
          <<SubSeq(text, 1, Least(at) - 1), SubSeq(text, Least(at) + 1, Len(text))>>
    BY <1>4, <2>2
  <2>4. Least(at) - 1 = m /\ Least(at) + 1 = m + 2
    BY <1>2, <1>9
  <2> QED
    BY <2>3, <2>4
<1> QED
  BY <1>10, <1>11, <1>12 DEF text, x

(* Padding is trimmed, and nothing else.                                           *)
LEMMA TrimJoin ==
  ASSUME NEW p \in Seq(Symbol), NEW v \in Seq(Symbol), \A i \in 1 .. Len(p) : p[i] \in Blank,
         v # << >> => v[1] \notin Blank /\ v[Len(v)] \notin Blank
  PROVE  trim_ows((p \o v) \o p) = v
<1> DEFINE x == p \o v
           y == x \o p
           m == Len(p)
           n == Len(v)
           inner == {i \in DOMAIN y : y[i] \notin Blank}
           last == CHOOSE i \in inner : \A j \in inner : j <= i
<1>1. /\ x \in Seq(Symbol) /\ Len(x) = m + n
      /\ \A i \in 1 .. m : x[i] = p[i]
      /\ \A i \in 1 .. n : x[m + i] = v[i]
  BY JoinIs
<1>2. m \in Nat /\ n \in Nat
  OBVIOUS
<1> HIDE DEF x
<1>3. /\ y \in Seq(Symbol) /\ Len(y) = Len(x) + m
      /\ \A i \in 1 .. Len(x) : y[i] = x[i]
      /\ \A i \in 1 .. m : y[Len(x) + i] = p[i]
  BY <1>1, JoinIs
<1>4. trim_ows(y) = IF inner = {} THEN << >> ELSE SubSeq(y, Least(inner), last)
  BY DEF trim_ows
<1>5. \A i \in 1 .. m : p[i] \in Blank
  OBVIOUS
<1> HIDE DEF y, m
<1>6. \A i : i \in inner <=> i \in 1 .. m + n + m /\ y[i] \notin Blank
  BY <1>1, <1>2, <1>3
<1>7. \A i \in 1 .. m : y[i] \in Blank /\ y[m + n + i] \in Blank
  <2>1. \A i \in 1 .. m : i \in 1 .. Len(x)
    BY <1>1, <1>2
  <2> QED
    BY <1>1, <1>3, <1>5, <2>1
<1>8. \A i \in 1 .. n : y[m + i] = v[i]
  <2>1. \A i \in 1 .. n : m + i \in 1 .. Len(x)
    BY <1>1, <1>2
  <2> QED
    BY <1>1, <1>3, <2>1
<1>9. \A i \in inner : i \in m + 1 .. m + n
  <2>1. ASSUME NEW i \in inner
        PROVE  i \in m + 1 .. m + n
    <3>1. i \in 1 .. m + n + m /\ y[i] \notin Blank
      BY <1>6
    <3>2. CASE i > m + n
      <4> DEFINE j == i - (m + n)
      <4>1. j \in 1 .. m /\ m + n + j = i
        BY <1>2, <3>1, <3>2
      <4> HIDE DEF j
      <4> QED
        BY <1>7, <3>1, <4>1
    <3> QED
      BY <1>2, <1>7, <3>1, <3>2
  <2> QED
    BY <2>1
<1>10. inner \in SUBSET Nat
  BY <1>2, <1>9
<1>11. Len(y) = m + n + m
  BY <1>1, <1>3
<1> HIDE DEF inner, n
<1>12. CASE n = 0
  <2>1. inner = {}
    BY <1>2, <1>9, <1>12
  <2>2. v = << >>
    BY <1>12 DEF n
  <2> QED
    BY <1>4, <2>1, <2>2 DEF y, x
<1>13. CASE n # 0
  <2>1. v[1] \notin Blank /\ v[n] \notin Blank
    BY <1>13 DEF n
  <2>2. m + 1 \in inner /\ m + n \in inner
    <3>1. 1 \in 1 .. n /\ n \in 1 .. n
      BY <1>2, <1>13
    <3>2. y[m + 1] = v[1] /\ y[m + n] = v[n]
      BY <1>8, <3>1
    <3> QED
      BY <1>2, <1>6, <1>13, <2>1, <3>2
  <2>3. Least(inner) = m + 1
    <3>1. \A k \in inner : m + 1 <= k
      BY <1>2, <1>9
    <3> QED
      BY <1>10, <2>2, <3>1, LeastIs
  <2>4. last = m + n
    <3>1. \A j \in inner : j <= m + n /\ j \in Nat
      BY <1>2, <1>9
    <3>2. last \in inner /\ \A j \in inner : j <= last
      BY <2>2, <3>1
    <3> HIDE DEF last
    <3> QED
      BY <1>2, <2>2, <3>1, <3>2
  <2>5. trim_ows(y) = SubSeq(y, m + 1, m + n)
    BY <1>4, <2>2, <2>3, <2>4
  <2> DEFINE t == m + n
             s == Part(y, m, t)
  <2>6. t \in 0 .. Len(y) /\ m \in 0 .. t /\ t - m = n
    BY <1>2, <1>11
  <2>7. s = SubSeq(y, m + 1, m + n)
    BY DEF Part
  <2> HIDE DEF t
  <2>8. s \in Seq(Symbol) /\ Len(s) = t - m /\ \A i \in 1 .. t - m : s[i] = y[m + i]
    BY <1>3, <2>6, PartIs
  <2> HIDE DEF s
  <2>9. s = v
    <3>1. Len(v) = n
      BY DEF n
    <3> QED
      BY <1>8, <2>6, <2>8, <3>1, SameText
  <2> QED
    BY <2>5, <2>7, <2>9 DEF y, x
<1> QED
  BY <1>12, <1>13

-----------------------------------------------------------------------------
(* A header line and a request line are read back.                          *)

(* The symbols of the grammar.                                              *)
LEMMA SymbolsAre ==
  /\ "CR" \in Symbol /\ "LF" \in Symbol /\ ":" \in Symbol /\ "SP" \in Symbol /\ "HTTP/1.1" \in Symbol
  /\ Blank \subseteq Symbol /\ Methods \subseteq Symbol
BY HttpAssumption DEF Blank, Methods, Versions

(* A header that is written.                                                     *)
LEMMA GoodHeaderIs ==
  ASSUME NEW h, GoodHeader(h)
  PROVE  /\ h.name \in Seq(Symbol) /\ h.value \in Seq(Symbol) /\ h.pad \in Seq(Symbol)
         /\ h.name # << >> /\ Len(h.name) >= 1
         /\ \A i \in 1 .. Len(h.name) : h.name[i] \notin Blank /\ h.name[i] # ":"
         /\ NoCR(h.name) /\ NoCR(h.value) /\ NoCR(h.pad)
         /\ \A i \in 1 .. Len(h.pad) : h.pad[i] \in Blank
         /\ h.value # << >> => h.value[1] \notin Blank /\ h.value[Len(h.value)] \notin Blank
         /\ Len(HeaderLine(h)) <= MAX_HEADER_LINE
<1>1. /\ h.name # << >> /\ Free(h.name, Blank \cup {":", "CR"}) /\ Free(h.value, {"CR"})
      /\ h.value # << >> => h.value[1] \notin Blank /\ h.value[Len(h.value)] \notin Blank
      /\ h.pad \in Seq(Blank) /\ Len(HeaderLine(h)) <= MAX_HEADER_LINE
  BY DEF GoodHeader
<1>2. h.name \in Seq(Symbol) /\ \A i \in 1 .. Len(h.name) : h.name[i] \notin Blank \cup {":", "CR"}
  BY <1>1 DEF Free
<1>3. h.value \in Seq(Symbol) /\ \A i \in 1 .. Len(h.value) : h.value[i] \notin {"CR"}
  BY <1>1 DEF Free
<1>4. h.pad \in Seq(Symbol) /\ \A i \in 1 .. Len(h.pad) : h.pad[i] \in Blank
  BY <1>1, SymbolsAre
<1>5. Len(h.name) >= 1
  BY <1>1, <1>2
<1>6. "CR" \notin Blank
  BY DEF Blank
<1>7. NoCR(h.name) /\ NoCR(h.value) /\ NoCR(h.pad)
  BY <1>2, <1>3, <1>4, <1>6 DEF NoCR
<1> QED
  BY <1>1, <1>2, <1>3, <1>4, <1>5, <1>7

(* It is one line.                                                              *)
LEMMA HeaderLineIs ==
  ASSUME NEW h, GoodHeader(h)
  PROVE  /\ HeaderLine(h) = h.name \o (<<":">> \o ((h.pad \o h.value) \o h.pad))
         /\ NoCR(HeaderLine(h)) /\ HeaderLine(h)[1] = h.name[1] /\ Len(HeaderLine(h)) >= 1
<1> DEFINE name  == h.name
           value == h.value
           pad   == h.pad
           colon == <<":">>
           tail  == (pad \o value) \o pad
<1>1. /\ name \in Seq(Symbol) /\ value \in Seq(Symbol) /\ pad \in Seq(Symbol)
      /\ Len(name) >= 1 /\ NoCR(name) /\ NoCR(value) /\ NoCR(pad)
  BY GoodHeaderIs
<1>2. colon \in Seq(Symbol) /\ NoCR(colon)
  <2>1. colon \in Seq(Symbol) /\ Len(colon) = 1 /\ colon[1] = ":"
    BY SymbolsAre, OneIs
  <2> HIDE DEF colon
  <2>2. \A i \in 1 .. 1 : i = 1
    OBVIOUS
  <2> QED
    BY <2>1, <2>2 DEF NoCR
<1>3. HeaderLine(h) = (((name \o colon) \o pad) \o value) \o pad
  BY DEF HeaderLine
<1> HIDE DEF name, value, pad, colon
<1>4. NoCR(pad \o value)
  BY <1>1, NoCRJoin
<1>5. NoCR(tail)
  BY <1>1, <1>4, NoCRJoin
<1>6. NoCR(colon \o tail)
  BY <1>2, <1>5, NoCRJoin
<1>7. NoCR(name \o (colon \o tail))
  BY <1>1, <1>6, NoCRJoin
<1>8. pad \o value \in Seq(Symbol) /\ tail \in Seq(Symbol) /\ colon \o tail \in Seq(Symbol)
      /\ name \o colon \in Seq(Symbol)
  BY <1>1, <1>2, <1>4, <1>5, <1>6, NoCRJoin DEF NoCR
<1> DEFINE q == name \o colon
<1>9. q \in Seq(Symbol) /\ q \o tail = name \o (colon \o tail)
  <2> HIDE DEF tail
  <2>1. name \in Seq(Symbol) /\ colon \in Seq(Symbol) /\ tail \in Seq(Symbol)
    BY <1>1, <1>2, <1>8
  <2>2. (name \o colon) \o tail = name \o (colon \o tail)
    BY ONLY <2>1, JoinOn
  <2> QED
    BY <1>8, <2>2
<1> HIDE DEF q
<1>10. (q \o pad) \o value = q \o (pad \o value)
  BY <1>1, <1>9, JoinOn
<1>11. (q \o (pad \o value)) \o pad = q \o tail
  BY <1>1, <1>8, <1>9, JoinOn
<1>12. HeaderLine(h) = name \o (colon \o tail)
  BY <1>3, <1>9, <1>10, <1>11 DEF q
<1>13. /\ Len(name \o (colon \o tail)) >= 1 /\ (name \o (colon \o tail))[1] = name[1]
  <2> HIDE DEF tail
  <2> DEFINE z == colon \o tail
  <2>1. z \in Seq(Symbol)
    BY <1>8
  <2> HIDE DEF z
  <2>2. Len(name \o z) = Len(name) + Len(z) /\ \A i \in 1 .. Len(name) : (name \o z)[i] = name[i]
    BY <1>1, <2>1, JoinIs
  <2>3. Len(name) \in Nat /\ Len(z) \in Nat /\ 1 \in 1 .. Len(name)
    BY <1>1, <2>1
  <2>4. Len(name \o z) >= 1 /\ (name \o z)[1] = name[1]
    BY <1>1, <2>2, <2>3
  <2> QED
    BY <2>4 DEF z
<1> QED
  BY <1>7, <1>12, <1>13 DEF name, value, pad, colon

(* And is read back.                                                            *)
LEMMA HeaderReads ==
  ASSUME NEW h, GoodHeader(h), NEW next, NEW r, Len(r.headers) # MAX_HEADERS,
         IsLength(h.name) => r.length = -1 /\ parse_decimal(h.value) \in 0 .. MAX_BODY
  PROVE  header(HeaderLine(h), next, r) =
           Reading(r.first, Append(r.headers, [name |-> h.name, value |-> h.value]),
                   IF IsLength(h.name) THEN parse_decimal(h.value) ELSE r.length, next)
<1> DEFINE text == HeaderLine(h)
           tail == (h.pad \o h.value) \o h.pad
<1>1. /\ text = h.name \o (<<":">> \o tail) /\ text[1] = h.name[1]
  BY HeaderLineIs
<1>2. /\ h.name \in Seq(Symbol) /\ h.value \in Seq(Symbol) /\ h.pad \in Seq(Symbol)
      /\ h.name # << >> /\ Len(h.name) >= 1
      /\ \A i \in 1 .. Len(h.name) : h.name[i] \notin Blank /\ h.name[i] # ":"
      /\ \A i \in 1 .. Len(h.pad) : h.pad[i] \in Blank
      /\ h.value # << >> => h.value[1] \notin Blank /\ h.value[Len(h.value)] \notin Blank
      /\ Len(text) <= MAX_HEADER_LINE
  BY GoodHeaderIs
<1>3. trim_ows(tail) = h.value
  BY <1>2, TrimJoin
<1>4. tail \in Seq(Symbol)
  <2>1. h.pad \o h.value \in Seq(Symbol)
    BY <1>2, JoinIs
  <2> QED
    BY <1>2, <2>1, JoinIs
<1> HIDE DEF tail, text
<1>5. split_once(text, ":") = <<h.name, tail>>
  BY <1>1, <1>2, <1>4, SymbolsAre, SplitJoin
<1> DEFINE parts == split_once(text, ":")
<1>6. parts # << >> /\ parts[1] = h.name /\ parts[2] = tail
  BY <1>5
<1> HIDE DEF parts
<1>7. Len(text) \in Nat /\ ~(Len(text) > MAX_HEADER_LINE)
  <2>1. Len(text) \in Nat
    BY GoodHeaderIs, HeaderLineIs DEF NoCR, text
  <2> QED
    BY <1>2, <2>1, Caps
<1>8. text[1] \notin Blank
  <2>1. 1 \in 1 .. Len(h.name)
    BY <1>2
  <2> QED
    BY <1>1, <1>2, <2>1
<1>9. ~(\E i \in DOMAIN h.name : h.name[i] \in Blank)
  BY <1>2
<1>10. ~(IsLength(h.name) /\ (r.length # -1 \/ parse_decimal(h.value) = -1
                                \/ parse_decimal(h.value) > MAX_BODY))
  BY Caps
<1>11. header(text, next, r) =
         LET name  == parts[1]
             value == trim_ows(parts[2])
             n     == parse_decimal(value)
         IN  IF Len(text) > MAX_HEADER_LINE THEN Err("LineTooLong")
             ELSE IF text[1] \in Blank \/ parts = << >> THEN Err("BadHeader")
             ELSE IF name = << >> \/ \E i \in DOMAIN name : name[i] \in Blank THEN Err("BadHeader")
             ELSE IF IsLength(name) /\ (r.length # -1 \/ n = -1 \/ n > MAX_BODY)
                  THEN Err("BadContentLength")
             ELSE IF Len(r.headers) = MAX_HEADERS THEN Err("TooManyHeaders")
             ELSE Reading(r.first, Append(r.headers, [name |-> name, value |-> value]),
                          IF IsLength(name) THEN n ELSE r.length, next)
  BY DEF header, parts
<1>12. header(text, next, r) =
         IF h.name = << >> \/ \E i \in DOMAIN h.name : h.name[i] \in Blank THEN Err("BadHeader")
         ELSE IF IsLength(h.name) /\ (r.length # -1 \/ parse_decimal(h.value) = -1
                                        \/ parse_decimal(h.value) > MAX_BODY)
              THEN Err("BadContentLength")
         ELSE IF Len(r.headers) = MAX_HEADERS THEN Err("TooManyHeaders")
         ELSE Reading(r.first, Append(r.headers, [name |-> h.name, value |-> h.value]),
                      IF IsLength(h.name) THEN parse_decimal(h.value) ELSE r.length, next)
  BY <1>3, <1>6, <1>7, <1>8, <1>11
<1> QED
  BY <1>2, <1>9, <1>10, <1>12 DEF text

-----------------------------------------------------------------------------
(* The request line that is written, and what is read of it.                           *)
FirstOf(r) == [answer |-> "line", method |-> r.method, target |-> r.target]

(* A request line that is written is read back.                             *)
LEMMA FirstLineReads ==
  ASSUME NEW r, GoodRequest(r)
  PROVE  /\ NoCR(FirstLine(r)) /\ Len(FirstLine(r)) <= MAX_REQUEST_LINE
         /\ RequestLine(FirstLine(r)) = FirstOf(r)
<1> DEFINE m  == r.method
           t  == r.target
           sp == <<"SP">>
           v  == <<"HTTP/1.1">>
           u  == <<m>>
           tail == t \o (sp \o v)
<1>1. /\ m \in Methods /\ t \in Seq(Symbol) /\ t # << >>
      /\ \A i \in 1 .. Len(t) : t[i] # "SP" /\ t[i] # "CR"
      /\ Len(FirstLine(r)) <= MAX_REQUEST_LINE
  <2>1. /\ r \in [method : Methods, target : Seq(Symbol),
                  headers : Seq([name : Seq(Symbol), value : Seq(Symbol), pad : Seq(Symbol)]),
                  body : Seq(Symbol)]
        /\ t # << >> /\ Free(t, {"SP", "CR"}) /\ Len(FirstLine(r)) <= MAX_REQUEST_LINE
    BY DEF GoodRequest
  <2> QED
    BY <2>1 DEF Free
<1>2. m \in Symbol /\ m # "CR" /\ m # "SP" /\ "SP" \in Symbol /\ "HTTP/1.1" \in Symbol
  BY <1>1, SymbolsAre DEF Methods
<1>3. /\ sp \in Seq(Symbol) /\ v \in Seq(Symbol) /\ u \in Seq(Symbol)
      /\ Len(sp) = 1 /\ Len(v) = 1 /\ Len(u) = 1
      /\ sp[1] = "SP" /\ v[1] = "HTTP/1.1" /\ u[1] = m
  BY <1>2, OneIs
<1>4. FirstLine(r) = (<<m, "SP">> \o t) \o <<"SP", "HTTP/1.1">>
  BY DEF FirstLine
<1>5. <<m, "SP">> = u \o sp /\ <<"SP", "HTTP/1.1">> = sp \o v
  BY <1>2
<1>6. NoCR(sp) /\ NoCR(v) /\ NoCR(u) /\ NoCR(t)
  <2>1. \A i \in 1 .. 1 : i = 1
    OBVIOUS
  <2> HIDE DEF sp, v, u
  <2> QED
    BY <1>1, <1>2, <1>3, <2>1 DEF NoCR
<1>7. v[1] \in Versions /\ v \in {<<w>> : w \in Versions} /\ u \in {<<w>> : w \in Methods}
  BY <1>1 DEF Versions
<1>8. RequestLine(FirstLine(r)) =
        LET a == split_once(FirstLine(r), "SP")
            b == split_once(a[2], "SP")
        IN  IF a = << >> THEN Err("BadRequestLine")
            ELSE IF b = << >> THEN Err("BadRequestLine")
            ELSE IF a[1] \notin {<<w>> : w \in Methods} THEN Err("BadMethod")
            ELSE IF b[1] = << >> \/ b[2] \notin {<<w>> : w \in Versions}
                 THEN Err("BadRequestLine")
            ELSE [answer |-> "line", method |-> a[1][1], target |-> b[1]]
  BY DEF RequestLine
<1> HIDE DEF m, t, v
<1>9. NoCR(sp \o v) /\ NoCR(u \o sp)
  BY <1>6, NoCRJoin
<1>10. NoCR(tail)
  BY <1>6, <1>9, NoCRJoin
<1>11. NoCR(sp \o tail)
  BY <1>6, <1>10, NoCRJoin
<1>12. NoCR(u \o (sp \o tail))
  BY <1>6, <1>11, NoCRJoin
<1>13. FirstLine(r) = u \o (sp \o tail)
  <2> DEFINE p == u \o sp
             z == sp \o v
  <2>1. p \in Seq(Symbol) /\ z \in Seq(Symbol) /\ tail \in Seq(Symbol)
    BY <1>9, <1>10 DEF NoCR
  <2>2. FirstLine(r) = (p \o t) \o z
    BY <1>4, <1>5
  <2>3. p \o tail = u \o (sp \o tail)
    <3> HIDE DEF u, sp, tail
    <3> QED
      BY <1>3, <2>1, JoinOn
  <2> HIDE DEF p
  <2>4. tail = t \o z
    OBVIOUS
  <2> HIDE DEF z, tail
  <2>5. (p \o t) \o z = p \o (t \o z)
    BY <1>1, <2>1, JoinOn
  <2> QED
    BY <2>2, <2>3, <2>4, <2>5
<1>14. split_once(FirstLine(r), "SP") = <<u, tail>>
  <2>1. \A i \in 1 .. Len(u) : u[i] # "SP"
    BY <1>2, <1>3
  <2>2. tail \in Seq(Symbol)
    BY <1>10 DEF NoCR
  <2> HIDE DEF u, tail
  <2>3. split_once(u \o (<<"SP">> \o tail), "SP") = <<u, tail>>
    BY <1>2, <1>3, <2>1, <2>2, SplitJoin
  <2> QED
    BY <1>13, <2>3
<1>15. split_once(tail, "SP") = <<t, v>>
  BY <1>1, <1>2, <1>3, SplitJoin
<1> HIDE DEF u, tail
<1> DEFINE a == <<u, tail>>
           b == <<t, v>>
<1>16. a # << >> /\ a[1] = u /\ a[2] = tail /\ b # << >> /\ b[1] = t /\ b[2] = v
  OBVIOUS
<1> HIDE DEF a, b
<1>17. split_once(FirstLine(r), "SP") = a /\ split_once(a[2], "SP") = b
  BY <1>14, <1>15, <1>16 DEF a, b
<1>18. RequestLine(FirstLine(r)) = [answer |-> "line", method |-> u[1], target |-> t]
  BY <1>1, <1>7, <1>8, <1>16, <1>17
<1> QED
  BY <1>1, <1>3, <1>12, <1>13, <1>18 DEF FirstOf, m, t

-----------------------------------------------------------------------------
(* Requests that keep to the grammar and the caps.                          *)

(* What a request that keeps to the grammar and the caps has.               *)
LEMMA GoodRequestIs ==
  ASSUME NEW r, GoodRequest(r)
  PROVE  /\ Len(r.headers) \in Nat /\ Len(r.headers) <= MAX_HEADERS
         /\ DOMAIN r.headers = 1 .. Len(r.headers)
         /\ \A i \in 1 .. Len(r.headers) : GoodHeader(r.headers[i])
         /\ r.body \in Seq(Symbol) /\ Len(r.body) <= MAX_BODY /\ Len(r.body) \in Nat
         /\ \A i, j \in 1 .. Len(r.headers) :
              IsLength(r.headers[i].name) /\ IsLength(r.headers[j].name) => i = j
         /\ \A i \in 1 .. Len(r.headers) :
              IsLength(r.headers[i].name) => parse_decimal(r.headers[i].value) = Len(r.body)
         /\ (\A i \in 1 .. Len(r.headers) : ~IsLength(r.headers[i].name)) => r.body = << >>
<1> DEFINE lengths == {i \in DOMAIN r.headers : IsLength(r.headers[i].name)}
           Headers == [name : Seq(Symbol), value : Seq(Symbol), pad : Seq(Symbol)]
<1>1. /\ r \in [method : Methods, target : Seq(Symbol), headers : Seq(Headers), body : Seq(Symbol)]
      /\ Len(r.headers) <= MAX_HEADERS /\ \A i \in DOMAIN r.headers : GoodHeader(r.headers[i])
      /\ Len(r.body) <= MAX_BODY
      /\ \A i, j \in lengths : i = j
      /\ \A i \in lengths : parse_decimal(r.headers[i].value) = Len(r.body)
      /\ lengths = {} => r.body = << >>
  BY DEF GoodRequest
<1> HIDE DEF Headers
<1>2. r.headers \in Seq(Headers) /\ r.body \in Seq(Symbol)
  BY <1>1
<1>3. /\ Len(r.headers) \in Nat /\ DOMAIN r.headers = 1 .. Len(r.headers) /\ Len(r.body) \in Nat
  BY <1>2
<1>4. \A i : i \in lengths <=> i \in 1 .. Len(r.headers) /\ IsLength(r.headers[i].name)
  BY <1>3
<1> HIDE DEF lengths
<1>5. (\A i \in 1 .. Len(r.headers) : ~IsLength(r.headers[i].name)) => lengths = {}
  BY <1>4
<1> QED
  BY <1>1, <1>2, <1>3, <1>4, <1>5

(* The first k lines, each ended, and one before the next.                             *)
LEMMA HeadIs ==
  ASSUME NEW r, GoodRequest(r)
  PROVE  /\ HeadOf(r)[0] = FirstLine(r) \o CRLF
         /\ \A k \in 0 .. Len(r.headers) : HeadOf(r)[k] \in Seq(Symbol)
         /\ \A k \in 1 .. Len(r.headers) :
              HeadOf(r)[k] = (HeadOf(r)[k - 1] \o HeaderLine(r.headers[k])) \o CRLF
<1> DEFINE n == Len(r.headers)
           Texts == Seq(Symbol)
           first == FirstLine(r) \o CRLF
           F == [p \in (1 .. n) \X Texts |-> (p[2] \o HeaderLine(r.headers[p[1]])) \o CRLF]
           IsHead(f) == f = [k \in 0 .. n |-> IF k = 0 THEN first
                                ELSE (f[k - 1] \o HeaderLine(r.headers[k])) \o CRLF]
           lines == CHOOSE f : IsHead(f)
<1>1. n \in Nat /\ \A i \in 1 .. n : GoodHeader(r.headers[i])
  BY GoodRequestIs
<1>2. first \in Texts
  <2>1. FirstLine(r) \in Seq(Symbol)
    BY FirstLineReads DEF NoCR
  <2> QED
    BY <2>1, CRLFIs, JoinIs
<1>3. ASSUME NEW i \in 1 .. n, NEW s \in Texts
      PROVE  (s \o HeaderLine(r.headers[i])) \o CRLF \in Texts
  <2>1. HeaderLine(r.headers[i]) \in Seq(Symbol)
    BY <1>1, HeaderLineIs DEF NoCR
  <2>2. s \o HeaderLine(r.headers[i]) \in Seq(Symbol)
    BY <2>1, JoinIs
  <2> QED
    BY <2>2, CRLFIs, JoinIs
<1>4. HeadOf(r) = lines
  BY DEF HeadOf
<1> HIDE DEF Texts, n, first
<1>5. F \in [(1 .. n) \X Texts -> Texts]
  <2>1. \A p \in (1 .. n) \X Texts : p[1] \in 1 .. n /\ p[2] \in Texts
    OBVIOUS
  <2> QED
    BY <1>3, <2>1
<1>6. \A k \in 1 .. n, s \in Texts : F[<<k, s>>] = (s \o HeaderLine(r.headers[k])) \o CRLF
  OBVIOUS
<1> HIDE DEF F
<1>7. PICK f : Recurs(f, n, Texts, first, F)
  BY <1>1, <1>2, <1>5, Recursion, Zenon
<1>8. f \in [0 .. n -> Texts] /\ f[0] = first
  BY <1>7 DEF Recurs
<1>9. \A k \in 1 .. n : f[k - 1] \in Texts
  BY <1>1, <1>8
<1>10. \A k \in 1 .. n : f[k] = F[<<k, f[k - 1]>>]
  BY <1>7, Zenon DEF Recurs
<1>11. \A k \in 1 .. n : f[k] = (f[k - 1] \o HeaderLine(r.headers[k])) \o CRLF
  BY ONLY <1>6, <1>9, <1>10, Zenon
<1>12. IsHead(f)
  <2>1. f = [k \in 0 .. n |-> f[k]]
    BY <1>8
  <2>2. \A k \in 0 .. n : k # 0 => k \in 1 .. n
    BY <1>1
  <2>3. \A k \in 0 .. n : f[k] = IF k = 0 THEN first
                                 ELSE (f[k - 1] \o HeaderLine(r.headers[k])) \o CRLF
    BY <1>8, <1>11, <2>2
  <2> QED
    BY <2>1, <2>3
<1>13. IsHead(lines)
  BY <1>12
<1> HIDE DEF lines
<1>14. /\ lines[0] = first
       /\ \A k \in 1 .. n : lines[k] = (lines[k - 1] \o HeaderLine(r.headers[k])) \o CRLF
  <2>1. \A k \in 0 .. n : lines[k] = IF k = 0 THEN first
                                 ELSE (lines[k - 1] \o HeaderLine(r.headers[k])) \o CRLF
    BY <1>13
  <2>2. 0 \in 0 .. n /\ \A k \in 1 .. n : k \in 0 .. n /\ k # 0
    BY <1>1
  <2> HIDE DEF IsHead
  <2> QED
    BY <2>1, <2>2
<1> HIDE DEF IsHead
<1> DEFINE T == {k \in 0 .. n : lines[k] \in Texts}
<1>15. 0 \in T
  BY <1>1, <1>2, <1>14
<1>16. ASSUME NEW k \in 0 .. n - 1, k \in T
       PROVE  k + 1 \in T
  <2>1. k + 1 \in 1 .. n /\ (k + 1) - 1 = k /\ k + 1 \in 0 .. n
    BY <1>1
  <2>2. lines[k + 1] = (lines[k] \o HeaderLine(r.headers[k + 1])) \o CRLF
    BY <1>14, <2>1
  <2> QED
    BY <1>3, <1>16, <2>1, <2>2
<1> HIDE DEF T
<1>17. 0 .. n \subseteq T
  BY <1>1, <1>15, <1>16, UpTo
<1>18. \A k \in 0 .. n : lines[k] \in Texts
  BY <1>17 DEF T
<1> QED
  BY <1>4, <1>14, <1>18 DEF n, Texts, first

(* Up to any line, the head ends with a line end.                           *)
LEMMA HeadEnds ==
  ASSUME NEW r, GoodRequest(r), NEW k \in 0 .. Len(r.headers)
  PROVE  /\ Len(HeadOf(r)[k]) \in Nat /\ Len(HeadOf(r)[k]) >= k + 2
         /\ Pair(HeadOf(r)[k], Len(HeadOf(r)[k]) - 1)
<1> DEFINE n == Len(r.headers)
           H == HeadOf(r)
           T == {i \in 0 .. n : Len(H[i]) >= i + 2 /\ Pair(H[i], Len(H[i]) - 1)}
<1>1. n \in Nat /\ \A i \in 1 .. n : GoodHeader(r.headers[i])
  BY GoodRequestIs
<1>2. /\ H[0] = FirstLine(r) \o CRLF /\ \A i \in 0 .. n : H[i] \in Seq(Symbol)
      /\ \A i \in 1 .. n : H[i] = (H[i - 1] \o HeaderLine(r.headers[i])) \o CRLF
  BY HeadIs
<1> HIDE DEF H, n
<1>3. 0 \in T
  <2> DEFINE b == (<< >> \o FirstLine(r)) \o CRLF
  <2>1. << >> \in Seq(Symbol) /\ Len(<< >>) = 0 /\ NoCR(FirstLine(r))
    BY FirstLineReads
  <2>2. << >> \o FirstLine(r) = FirstLine(r)
    BY <2>1 DEF NoCR
  <2>3. H[0] = b
    BY <1>2, <2>2
  <2>4. Len(b) = Len(<< >>) + Len(FirstLine(r)) + 2 /\ Pair(b, Len(b) - 1)
    BY <2>1, LineEnds
  <2>5. Len(FirstLine(r)) \in Nat
    BY <2>1 DEF NoCR
  <2> HIDE DEF b
  <2>6. Len(b) >= 0 + 2
    BY <2>1, <2>4, <2>5
  <2> QED
    BY <1>1, <2>3, <2>4, <2>6
<1>4. ASSUME NEW i \in 0 .. n - 1, i \in T
      PROVE  i + 1 \in T
  <2>1. i + 1 \in 1 .. n /\ (i + 1) - 1 = i /\ i + 1 \in 0 .. n /\ i \in 0 .. n
    BY <1>1
  <2> DEFINE u == H[i]
             text == HeaderLine(r.headers[i + 1])
             b == (u \o text) \o CRLF
  <2>2. H[i + 1] = b /\ u \in Seq(Symbol)
    BY <1>2, <2>1
  <2>3. NoCR(text) /\ Len(text) \in Nat /\ Len(u) \in Nat
    <3>1. NoCR(text)
      BY <1>1, <2>1, HeaderLineIs
    <3> HIDE DEF text, u
    <3> QED
      BY <2>2, <3>1 DEF NoCR
  <2> HIDE DEF u, text
  <2>4. Len(b) = Len(u) + Len(text) + 2 /\ Pair(b, Len(b) - 1)
    BY <2>2, <2>3, LineEnds
  <2> HIDE DEF b
  <2>5. Len(u) >= i + 2
    BY <1>4 DEF u
  <2>6. Len(b) >= (i + 1) + 2
    BY <2>3, <2>4, <2>5
  <2> QED
    BY <2>1, <2>2, <2>4, <2>6
<1> HIDE DEF T
<1>5. 0 .. n \subseteq T
  BY <1>1, <1>3, <1>4, UpTo
<1>6. k \in T
  BY <1>5 DEF n
<1>7. Len(H[k]) \in Nat
  BY <1>2 DEF n
<1> QED
  BY <1>6, <1>7 DEF T, H

(* The head up to a line begins the whole head.                             *)
LEMMA HeadGrows ==
  ASSUME NEW r, GoodRequest(r), NEW k \in 0 .. Len(r.headers)
  PROVE  Prefix(HeadOf(r)[k], HeadOf(r)[Len(r.headers)])
<1> DEFINE n == Len(r.headers)
           H == HeadOf(r)
           T == {i \in 0 .. n : Prefix(H[n - i], H[n])}
<1>1. n \in Nat /\ \A i \in 1 .. n : GoodHeader(r.headers[i])
  BY GoodRequestIs
<1>2. /\ \A i \in 0 .. n : H[i] \in Seq(Symbol)
      /\ \A i \in 1 .. n : H[i] = (H[i - 1] \o HeaderLine(r.headers[i])) \o CRLF
  BY HeadIs
<1> HIDE DEF H, n
<1>3. 0 \in T
  <2>1. n - 0 = n /\ n \in 0 .. n /\ 0 \in 0 .. n
    BY <1>1
  <2>2. Len(H[n]) \in Nat
    BY <1>2, <2>1
  <2>3. Prefix(H[n], H[n])
    BY <2>2 DEF Prefix
  <2> QED
    BY <2>1, <2>3
<1>4. ASSUME NEW i \in 0 .. n - 1, i \in T
      PROVE  i + 1 \in T
  <2> DEFINE j == n - i
  <2>1. j \in 1 .. n /\ j \in 0 .. n /\ j - 1 \in 0 .. n /\ n - (i + 1) = j - 1 /\ i + 1 \in 0 .. n
        /\ n \in 0 .. n
    BY <1>1
  <2>2. Prefix(H[j], H[n])
    BY <1>4
  <2> HIDE DEF j
  <2> DEFINE u == H[j - 1]
             text == HeaderLine(r.headers[j])
  <2>3. H[j] = (u \o text) \o CRLF /\ u \in Seq(Symbol) /\ H[j] \in Seq(Symbol) /\ H[n] \in Seq(Symbol)
    BY <1>2, <2>1
  <2>4. NoCR(text)
    BY <1>1, <2>1, HeaderLineIs
  <2> HIDE DEF u, text
  <2>5. Prefix(u, H[j])
    BY <2>3, <2>4, LineEnds
  <2>6. Prefix(u, H[n])
    BY <2>2, <2>3, <2>5, PrefixOn
  <2> QED
    BY <2>1, <2>6 DEF u
<1> HIDE DEF T
<1>5. 0 .. n \subseteq T
  BY <1>1, <1>3, <1>4, UpTo
<1>6. n - k \in T /\ n - (n - k) = k
  <2>1. n - k \in 0 .. n /\ n - (n - k) = k
    BY <1>1 DEF n
  <2> QED
    BY <1>5, <2>1
<1>7. Prefix(H[k], H[n])
  BY <1>6 DEF T
<1> QED
  BY <1>7 DEF H, n

-----------------------------------------------------------------------------
(* The head of a request, line by line.                                     *)

(* The headers that are meant, the first k of them, and what is read after k lines.        *)
MeantHeaders(r) ==
  [i \in DOMAIN r.headers |-> [name |-> r.headers[i].name, value |-> r.headers[i].value]]

FirstOnes(g, k) == [i \in 1 .. k |-> g[i]]

LengthAfter(r, k) ==
  IF \E i \in 1 .. k : IsLength(r.headers[i].name) THEN Len(r.body) ELSE -1

ReadAfter(r, k) ==
  Reading(FirstOf(r), FirstOnes(MeantHeaders(r), k), LengthAfter(r, k), Len(HeadOf(r)[k]) + 1)

(* The first k of a sequence and the next are the first k + 1.              *)
LEMMA OneMore ==
  ASSUME NEW n \in Nat, NEW g, DOMAIN g = 1 .. n, NEW k \in 0 .. n - 1
  PROVE  Append(FirstOnes(g, k), g[k + 1]) = FirstOnes(g, k + 1) /\ Len(FirstOnes(g, k)) = k
<1> DEFINE u == FirstOnes(g, k)
           v == FirstOnes(g, k + 1)
           x == g[k + 1]
           S == {g[i] : i \in 1 .. n}
<1>1. \A i \in 1 .. k + 1 : i \in 1 .. n
  OBVIOUS
<1>2. \A i \in 1 .. n : g[i] \in S
  OBVIOUS
<1> HIDE DEF S
<1>3. x \in S
  BY <1>1, <1>2
<1>4. u \in Seq(S) /\ Len(u) = k /\ \A i \in 1 .. k : u[i] = g[i]
  BY <1>1, <1>2 DEF FirstOnes
<1>5. v \in Seq(S) /\ Len(v) = k + 1 /\ \A i \in 1 .. k + 1 : v[i] = g[i]
  BY <1>1, <1>2 DEF FirstOnes
<1> HIDE DEF u, v, x
<1> DEFINE y == Append(u, x)
<1>6. y \in Seq(S) /\ Len(y) = k + 1 /\ (\A i \in 1 .. k : y[i] = u[i]) /\ y[k + 1] = x
  BY <1>3, <1>4
<1> HIDE DEF y
<1>7. \A i \in 1 .. k + 1 : y[i] = v[i]
  BY <1>4, <1>5, <1>6 DEF x
<1>8. y = v
  BY <1>5, <1>6, <1>7
<1> QED
  BY <1>4, <1>8 DEF y, u, v, x

(* What Reading records.                                                    *)
LEMMA ReadingIs ==
  ASSUME NEW f, NEW h, NEW l, NEW c
  PROVE  /\ Reading(f, h, l, c).answer = "reading" /\ Reading(f, h, l, c).first = f
         /\ Reading(f, h, l, c).headers = h /\ Reading(f, h, l, c).length = l
         /\ Reading(f, h, l, c).cursor = c
BY DEF Reading

(* The request line, alone.                                                        *)
LEMMA FirstRead ==
  ASSUME NEW r, GoodRequest(r)
  PROVE  read_first(HeadOf(r)[0]) = ReadAfter(r, 0)
<1> DEFINE text == FirstLine(r)
           b == HeadOf(r)[0]
           e == << >>
<1>1. NoCR(text) /\ Len(text) <= MAX_REQUEST_LINE /\ RequestLine(text) = FirstOf(r)
  BY FirstLineReads
<1>2. Len(text) \in Nat
  BY <1>1 DEF NoCR
<1>3. e \in Seq(Symbol) /\ Len(e) = 0
  OBVIOUS
<1>4. b = (e \o text) \o CRLF
  <2>1. e \o text = text
    BY <1>1 DEF NoCR
  <2>2. b = text \o CRLF
    BY HeadIs
  <2> QED
    BY <2>1, <2>2
<1> HIDE DEF e, text, b
<1>5. /\ Len(b) = 0 + Len(text) + 2 /\ find_crlf(b, 0 + 1) = 0 + Len(text) + 1
      /\ SubSeq(b, 0 + 1, 0 + Len(text)) = text
  <2> DEFINE c == (e \o text) \o CRLF
  <2>1. /\ Len(c) = Len(e) + Len(text) + 2 /\ find_crlf(c, Len(e) + 1) = Len(e) + Len(text) + 1
        /\ SubSeq(c, Len(e) + 1, Len(e) + Len(text)) = text
    BY <1>1, <1>3, LineEnds
  <2>2. b = c
    BY <1>4
  <2> HIDE DEF c
  <2> QED
    BY <1>3, <2>1, <2>2
<1>6. /\ 0 + Len(text) = Len(text) /\ Len(text) + 1 - 1 = Len(text) /\ Len(text) + 1 # 0 /\ 0 + 1 = 1
  BY <1>2
<1> DEFINE end == find_crlf(b, 1)
<1>7. end = Len(text) + 1 /\ end # 0 /\ end - 1 = Len(text) /\ end + 2 = Len(b) + 1
  BY <1>2, <1>5, <1>6
<1>8. SubSeq(b, 1, end - 1) = text
  BY <1>5, <1>6, <1>7
<1>9. FirstOf(r).answer # "Err"
  BY DEF FirstOf
<1>10. ~(end - 1 > MAX_REQUEST_LINE)
  BY <1>1, <1>2, <1>7, Caps
<1>11. read_first(b) =
         IF end = 0 THEN Unfinished(Len(b), MAX_REQUEST_LINE)
         ELSE IF end - 1 > MAX_REQUEST_LINE THEN Err("LineTooLong")
         ELSE IF RequestLine(SubSeq(b, 1, end - 1)).answer = "Err"
              THEN RequestLine(SubSeq(b, 1, end - 1))
         ELSE Reading(RequestLine(SubSeq(b, 1, end - 1)), << >>, -1, end + 2)
  BY DEF read_first
<1> HIDE DEF end
<1>12. read_first(b) = Reading(FirstOf(r), << >>, -1, Len(b) + 1)
  BY <1>1, <1>7, <1>8, <1>9, <1>10, <1>11
<1>13. FirstOnes(MeantHeaders(r), 0) = << >>
  BY DEF FirstOnes
<1>14. LengthAfter(r, 0) = -1
  BY DEF LengthAfter
<1> QED
  BY <1>12, <1>13, <1>14 DEF ReadAfter, b

(* After k lines the request is half read.                                  *)
LEMMA ReadAfterHalfway ==
  ASSUME NEW r, GoodRequest(r), NEW k \in 0 .. Len(r.headers), NEW b \in Seq(Symbol),
         Prefix(HeadOf(r)[k], b)
  PROVE  Halfway(b, ReadAfter(r, k))
<1> DEFINE u == HeadOf(r)[k]
           m == Len(u)
<1>1. m \in Nat /\ m >= k + 2 /\ Pair(u, m - 1) /\ k \in Nat
  <2>1. k \in Nat
    OBVIOUS
  <2>2. m \in Nat /\ m >= k + 2 /\ Pair(u, m - 1)
    BY HeadEnds
  <2> QED
    BY <2>1, <2>2
<1>2. m <= Len(b) /\ \A i \in 1 .. m : u[i] = b[i]
  BY DEF Prefix
<1> DEFINE x == ReadAfter(r, k)
<1>3. x.answer = "reading" /\ x.length = LengthAfter(r, k) /\ x.cursor = m + 1
  BY ReadingIs DEF ReadAfter
<1>4. LengthAfter(r, k) \in Nat \cup {-1}
  BY GoodRequestIs DEF LengthAfter
<1> HIDE DEF u, m
<1>5. m + 1 \in 3 .. Len(b) + 1 /\ m + 1 - 2 = m - 1
  BY <1>1, <1>2
<1>6. Pair(b, m - 1)
  <2>1. m - 1 \in 1 .. m /\ (m - 1) + 1 \in 1 .. m
    BY <1>1
  <2> QED
    BY <1>1, <1>2, <2>1 DEF Pair
<1> HIDE DEF x
<1>7. Halfway(b, x)
  <2>1. x.cursor \in 3 .. Len(b) + 1 /\ x.length \in Nat \cup {-1}
    BY <1>3, <1>4, <1>5
  <2>2. x.cursor - 2 = m - 1
    BY <1>1, <1>3
  <2>3. Pair(b, x.cursor - 2)
    BY <1>6, <2>2
  <2> QED
    BY <1>3, <2>1, <2>3 DEF Halfway
<1> QED
  BY <1>7 DEF x

(* One header line, on what has come up to its end.                                  *)
LEMMA LineReads ==
  ASSUME NEW r, GoodRequest(r), NEW k \in 0 .. Len(r.headers) - 1
  PROVE  read_line(HeadOf(r)[k + 1], ReadAfter(r, k)) = ReadAfter(r, k + 1)
<1> DEFINE n == Len(r.headers)
           h == r.headers[k + 1]
           text == HeaderLine(h)
           u == HeadOf(r)[k]
           b == HeadOf(r)[k + 1]
           x == ReadAfter(r, k)
           g == MeantHeaders(r)
           m == Len(u)
           end == find_crlf(b, m + 1)
<1>1. /\ n \in Nat /\ k \in 0 .. n /\ k + 1 \in 1 .. n /\ k + 1 \in 0 .. n /\ (k + 1) - 1 = k
      /\ n <= MAX_HEADERS /\ k < n /\ k \in Nat
  BY GoodRequestIs
<1>2. GoodHeader(h)
  BY <1>1, GoodRequestIs
<1>3. u \in Seq(Symbol) /\ b = (u \o text) \o CRLF
  BY <1>1, HeadIs
<1>4. NoCR(text) /\ Len(text) >= 1
  BY <1>2, HeaderLineIs
<1>5. m \in Nat /\ Len(text) \in Nat
  BY <1>3, <1>4 DEF NoCR
<1>6. /\ Len(b) = m + Len(text) + 2 /\ end = m + Len(text) + 1
      /\ SubSeq(b, m + 1, m + Len(text)) = text
  <2> HIDE DEF u, text, b
  <2> QED
    BY <1>3, <1>4, LineEnds
<1>7. /\ x.first = FirstOf(r) /\ x.headers = FirstOnes(g, k)
      /\ x.length = LengthAfter(r, k) /\ x.cursor = m + 1
  BY ReadingIs DEF ReadAfter
<1>8. g[k + 1] = [name |-> h.name, value |-> h.value]
  <2>1. k + 1 \in DOMAIN r.headers
    BY <1>1, GoodRequestIs
  <2> QED
    BY <2>1 DEF MeantHeaders
<1>9. /\ Append(FirstOnes(g, k), g[k + 1]) = FirstOnes(g, k + 1) /\ Len(FirstOnes(g, k)) = k
  <2>1. DOMAIN g = 1 .. n
    BY GoodRequestIs DEF MeantHeaders
  <2>2. n \in Nat /\ k \in 0 .. n - 1
    BY <1>1
  <2> HIDE DEF g, n
  <2>3. Append(FirstOnes(g, k), g[k + 1]) = FirstOnes(g, k + 1) /\ Len(FirstOnes(g, k)) = k
    BY <2>1, <2>2, OneMore
  <2> QED
    BY <2>3
<1>10. IsLength(h.name) => LengthAfter(r, k) = -1 /\ parse_decimal(h.value) = Len(r.body)
  <2> SUFFICES ASSUME IsLength(h.name)
               PROVE  LengthAfter(r, k) = -1 /\ parse_decimal(h.value) = Len(r.body)
    OBVIOUS
  <2>1. \A i \in 1 .. k : i \in 1 .. n /\ i # k + 1
    BY <1>1
  <2>2. \A i \in 1 .. n : IsLength(r.headers[i].name) => i = k + 1
    BY <1>1, GoodRequestIs
  <2>3. \A i \in 1 .. k : ~IsLength(r.headers[i].name)
    BY <2>1, <2>2
  <2> QED
    BY <1>1, <2>3, GoodRequestIs DEF LengthAfter
<1>11. LengthAfter(r, k + 1) = IF IsLength(h.name) THEN Len(r.body) ELSE LengthAfter(r, k)
  <2>1. (\E i \in 1 .. k + 1 : IsLength(r.headers[i].name)) <=>
           (\E i \in 1 .. k : IsLength(r.headers[i].name)) \/ IsLength(h.name)
    BY <1>1
  <2> QED
    BY <2>1 DEF LengthAfter
<1>12. Len(r.body) \in 0 .. MAX_BODY
  BY GoodRequestIs, Caps
<1> HIDE DEF n, h, text, u, b, x, m, g
<1>13. header(text, end + 2, x) =
         Reading(x.first, Append(x.headers, [name |-> h.name, value |-> h.value]),
                 IF IsLength(h.name) THEN parse_decimal(h.value) ELSE x.length, end + 2)
  <2>1. Len(x.headers) # MAX_HEADERS
    BY <1>1, <1>7, <1>9, Caps
  <2>2. IsLength(h.name) => x.length = -1 /\ parse_decimal(h.value) \in 0 .. MAX_BODY
    BY <1>7, <1>10, <1>12
  <2>3. header(HeaderLine(h), end + 2, x) =
         Reading(x.first, Append(x.headers, [name |-> h.name, value |-> h.value]),
                 IF IsLength(h.name) THEN parse_decimal(h.value) ELSE x.length, end + 2)
    BY <1>2, <2>1, <2>2, HeaderReads
  <2> QED
    BY <2>3 DEF text
<1>14. header(text, end + 2, x) =
         Reading(FirstOf(r), FirstOnes(g, k + 1), LengthAfter(r, k + 1), Len(b) + 1)
  <2>1. end + 2 = Len(b) + 1
    BY <1>5, <1>6
  <2>2. (IF IsLength(h.name) THEN parse_decimal(h.value) ELSE x.length) = LengthAfter(r, k + 1)
    BY <1>7, <1>10, <1>11
  <2>3. Append(x.headers, [name |-> h.name, value |-> h.value]) = FirstOnes(g, k + 1)
    BY <1>7, <1>8, <1>9
  <2> QED
    BY <1>7, <1>13, <2>1, <2>2, <2>3
<1>15. read_line(b, x) = header(SubSeq(b, m + 1, end - 1), end + 2, x)
  <2>1. end # 0 /\ end # m + 1
    BY <1>4, <1>5, <1>6
  <2> QED
    BY <1>7, <2>1 DEF read_line
<1>16. end - 1 = m + Len(text)
  BY <1>5, <1>6
<1>17. read_line(b, x) = Reading(FirstOf(r), FirstOnes(g, k + 1), LengthAfter(r, k + 1), Len(b) + 1)
  BY <1>6, <1>14, <1>15, <1>16
<1> QED
  BY <1>17 DEF ReadAfter, b, g, x

-----------------------------------------------------------------------------
(* A whole request is read back, and its body is left as it is.             *)

(* A request that is written, alone, is read as it is meant.                            *)
LEMMA RenderIs ==
  ASSUME NEW r, GoodRequest(r)
  PROVE  LET u == HeadOf(r)[Len(r.headers)]
         IN  /\ u \in Seq(Symbol) /\ Render(r) = (u \o CRLF) \o r.body
             /\ Render(r) \in Seq(Symbol) /\ Len(Render(r)) = Len(u) + 2 + Len(r.body)
             /\ find_crlf(Render(r), Len(u) + 1) = Len(u) + 1
             /\ SubSeq(Render(r), Len(u) + 3, Len(Render(r))) = r.body
             /\ Prefix(u, Render(r))
<1> DEFINE n == Len(r.headers)
           u == HeadOf(r)[n]
           body == r.body
           e == << >>
           x == (u \o e) \o CRLF
           w == x \o body
           m == Len(u)
<1>1. n \in Nat /\ n \in 0 .. n
  BY GoodRequestIs
<1>2. u \in Seq(Symbol) /\ body \in Seq(Symbol)
  BY <1>1, GoodRequestIs, HeadIs
<1>3. Render(r) = (u \o CRLF) \o body
  BY DEF Render
<1> HIDE DEF u, body, n
<1>4. e \in Seq(Symbol) /\ Len(e) = 0 /\ NoCR(e)
  BY DEF NoCR
<1>5. u \o e = u
  BY <1>2
<1>6. Render(r) = w
  BY <1>3, <1>5
<1> HIDE DEF e
<1>7. /\ x \in Seq(Symbol) /\ Len(x) = m + 0 + 2 /\ find_crlf(x, m + 1) = m + 0 + 1
      /\ Prefix(u, x)
  BY <1>2, <1>4, LineEnds
<1>8. m \in Nat /\ Len(body) \in Nat
  BY <1>2
<1> HIDE DEF x
<1>9. Prefix(x, w) /\ w \in Seq(Symbol) /\ Len(w) = Len(x) + Len(body)
      /\ \A i \in 1 .. Len(body) : w[Len(x) + i] = body[i]
  BY <1>2, <1>7, JoinIs, JoinPrefix
<1> HIDE DEF w, m
<1>10. Prefix(u, w)
  BY <1>2, <1>7, <1>9, PrefixOn
<1>11. find_crlf(w, m + 1) = m + 1
  <2>1. m + 1 \in Nat \ {0} /\ m + 0 + 1 = m + 1 /\ m + 1 # 0
    BY <1>8
  <2> DEFINE from == m + 1
  <2>2. find_crlf(x, from) = from /\ from # 0 /\ from \in Nat \ {0}
    BY <1>7, <2>1
  <2> HIDE DEF from
  <2>3. find_crlf(w, from) = from
    BY <1>7, <1>9, <2>2, CrlfStays
  <2> QED
    BY <2>3 DEF from
<1>12. Len(w) = m + 2 + Len(body)
  BY <1>7, <1>8, <1>9
<1>13. SubSeq(w, m + 3, Len(w)) = body
  <2> DEFINE a == m + 2
             t == Len(w)
             s == Part(w, a, t)
  <2>1. t \in 0 .. Len(w) /\ a \in 0 .. t /\ t - a = Len(body) /\ Len(x) = a /\ a + 1 = m + 3
    BY <1>7, <1>8, <1>12
  <2> HIDE DEF a, t
  <2>2. s \in Seq(Symbol) /\ Len(s) = t - a /\ \A i \in 1 .. t - a : s[i] = w[a + i]
    BY <1>9, <2>1, PartIs
  <2>3. s = SubSeq(w, m + 3, t)
    BY <2>1 DEF Part
  <2> HIDE DEF s
  <2>4. s = body
    BY <1>2, <1>9, <2>1, <2>2, SameText
  <2> QED
    BY <2>3, <2>4 DEF t
<1>14. u = HeadOf(r)[Len(r.headers)] /\ body = r.body
  BY DEF u, body, n
<1> QED
  BY <1>2, <1>3, <1>6, <1>9, <1>10, <1>11, <1>12, <1>13, <1>14 DEF m

(* Its lines, one after the other.                                                  *)
LEMMA LinesRead ==
  ASSUME NEW r, GoodRequest(r), NEW k \in 0 .. Len(r.headers)
  PROVE  Lines(Render(r))[k] = ReadAfter(r, k)
<1> DEFINE n == Len(r.headers)
           H == HeadOf(r)
           w == Render(r)
           y == Lines(w)
           T == {i \in 0 .. n : y[i] = ReadAfter(r, i)}
<1>1. n \in Nat
  BY GoodRequestIs
<1>2. w \in Seq(Symbol) /\ Prefix(H[n], w) /\ Len(w) = Len(H[n]) + 2 + Len(r.body)
  BY RenderIs
<1>3. \A i \in 0 .. n : H[i] \in Seq(Symbol)
  BY HeadIs
<1>4. \A i \in 0 .. n : Prefix(H[i], w)
  <2>1. \A i \in 0 .. n : Prefix(H[i], H[n])
    BY HeadGrows
  <2>2. n \in 0 .. n
    BY <1>1
  <2> HIDE DEF H, w, n
  <2> QED
    BY <1>2, <1>3, <2>1, <2>2, PrefixOn
<1>5. n <= Len(w) /\ Len(w) \in Nat
  <2>1. n \in 0 .. Len(r.headers)
    BY <1>1
  <2>2. Len(H[n]) \in Nat /\ Len(H[n]) >= n + 2 /\ Len(r.body) \in Nat
    BY <2>1, HeadEnds, GoodRequestIs
  <2> DEFINE p == Len(H[n])
             q == Len(r.body)
             t == Len(w)
  <2>3. p \in Nat /\ p >= n + 2 /\ q \in Nat /\ t = p + 2 + q
    BY <1>2, <2>2
  <2> HIDE DEF p, q, t, n
  <2>4. n <= t /\ t \in Nat
    BY <1>1, <2>3
  <2> QED
    BY <2>4 DEF t
<1>6. y[0] = read_first(w) /\ \A i \in 1 .. Len(w) : y[i] = LineAfter(w, y[i - 1])
  BY <1>2, LinesAre
<1>7. read_first(H[0]) = ReadAfter(r, 0)
  BY FirstRead
<1>8. \A i \in 0 .. n - 1 : read_line(H[i + 1], ReadAfter(r, i)) = ReadAfter(r, i + 1)
  BY LineReads
<1>9. \A i : ReadAfter(r, i).answer = "reading"
  BY ReadingIs DEF ReadAfter
<1>11. ASSUME NEW i \in 0 .. n - 1
       PROVE  Halfway(H[i + 1], ReadAfter(r, i))
  <2>1. i \in 0 .. n /\ i + 1 \in 1 .. n /\ i + 1 \in 0 .. n /\ (i + 1) - 1 = i
    BY <1>1
  <2>2. GoodHeader(r.headers[i + 1])
    BY <2>1, GoodRequestIs
  <2>3. NoCR(HeaderLine(r.headers[i + 1]))
    BY <2>2, HeaderLineIs
  <2>4. H[i + 1] = (H[i] \o HeaderLine(r.headers[i + 1])) \o CRLF
    BY <2>1, HeadIs
  <2>5. Prefix(H[i], H[i + 1])
    <3> DEFINE u == H[i]
               text == HeaderLine(r.headers[i + 1])
    <3>1. u \in Seq(Symbol) /\ NoCR(text)
      BY <1>3, <2>1, <2>3
    <3> HIDE DEF u, text
    <3>2. Prefix(u, (u \o text) \o CRLF)
      BY <3>1, LineEnds
    <3> QED
      BY <2>4, <3>2 DEF u, text
  <2> QED
    BY <1>3, <2>1, <2>5, ReadAfterHalfway
<1> HIDE DEF H, w, y, n
<1>12. 0 \in T
  <2>1. 0 \in 0 .. n
    BY <1>1
  <2>2. Agree(H[0], w, read_first(H[0]), read_first(w))
    BY <1>2, <1>3, <1>4, <2>1, FirstStays
  <2> DEFINE x == ReadAfter(r, 0)
  <2>3. x.answer = "reading" /\ read_first(H[0]) = x
    BY <1>7, <1>9
  <2> HIDE DEF x
  <2>4. read_first(w) = x
    BY <2>2, <2>3, Answers DEF Agree
  <2> QED
    BY <1>6, <2>1, <2>4 DEF x
<1>13. ASSUME NEW i \in 0 .. n - 1, i \in T
       PROVE  i + 1 \in T
  <2> DEFINE x == ReadAfter(r, i)
             z == ReadAfter(r, i + 1)
  <2>1. i + 1 \in 1 .. Len(w) /\ (i + 1) - 1 = i /\ i + 1 \in 0 .. n
    BY <1>1, <1>5
  <2>2. y[i] = x /\ x.answer = "reading" /\ z.answer = "reading"
    BY <1>9, <1>13
  <2>3. Halfway(H[i + 1], x) /\ read_line(H[i + 1], x) = z
    BY <1>8, <1>11
  <2> HIDE DEF x, z
  <2>4. y[i + 1] = read_line(w, x)
    BY <1>6, <2>1, <2>2 DEF LineAfter
  <2>5. Agree(H[i + 1], w, read_line(H[i + 1], x), read_line(w, x))
    BY <1>2, <1>3, <1>4, <2>1, <2>3, TurnStays
  <2>6. read_line(w, x) = z
    BY <2>2, <2>3, <2>5, Answers DEF Agree
  <2> QED
    BY <2>1, <2>4, <2>6 DEF z
<1> HIDE DEF T
<1>14. 0 .. n \subseteq T
  BY <1>1, <1>12, <1>13, UpTo
<1>15. k \in T
  BY <1>14 DEF n
<1> QED
  BY <1>15 DEF T, y, w

(* A body that is all there is answered with the request.                   *)
LEMMA BodyIs ==
  ASSUME NEW b, NEW cursor, NEW r, NEW size, size = IF r.length = -1 THEN 0 ELSE r.length,
         ~(Len(b) < cursor - 1 + size)
  PROVE  Body(b, cursor, r) =
           [answer   |-> "Complete",
            request  |-> [method |-> r.first.method, target |-> r.first.target,
                          headers |-> r.headers, body |-> SubSeq(b, cursor, cursor + size - 1)],
            consumed |-> cursor - 1 + size]
BY DEF Body

(* The request, alone.                                                             *)
LEMMA RequestReads ==
  ASSUME NEW r, GoodRequest(r)
  PROVE  /\ parse(Render(r)).answer = "Complete"
         /\ parse(Render(r)).request = Meant(r)
         /\ parse(Render(r)).consumed = Len(Render(r))
<1> DEFINE n == Len(r.headers)
           u == HeadOf(r)[n]
           m == Len(u)
           w == Render(r)
           y == Lines(w)
           x == ReadAfter(r, n)
           g == MeantHeaders(r)
           l == LengthAfter(r, n)
           size == IF x.length = -1 THEN 0 ELSE x.length
           full == [answer   |-> "Complete",
                    request  |-> [method |-> x.first.method, target |-> x.first.target,
                                  headers |-> x.headers,
                                  body |-> SubSeq(w, m + 3, m + 3 + size - 1)],
                    consumed |-> (m + 3) - 1 + size]
<1>1. n \in Nat /\ n \in 0 .. n /\ Len(r.body) \in Nat
  BY GoodRequestIs
<1>2. /\ w \in Seq(Symbol) /\ Len(w) = m + 2 + Len(r.body)
      /\ find_crlf(w, m + 1) = m + 1 /\ SubSeq(w, m + 3, Len(w)) = r.body
  BY RenderIs
<1>3. m \in Nat /\ m >= n + 2
  BY <1>1, HeadEnds
<1>4. y[n] = x
  BY <1>1, LinesRead
<1>5. /\ x.answer = "reading" /\ x.first = FirstOf(r) /\ x.headers = FirstOnes(g, n)
      /\ x.length = l /\ x.cursor = m + 1
  BY ReadingIs DEF ReadAfter
<1>6. FirstOnes(g, n) = g
  <2>1. DOMAIN g = 1 .. n
    BY GoodRequestIs DEF MeantHeaders
  <2>2. g = [i \in 1 .. n |-> g[i]]
    BY <2>1 DEF MeantHeaders
  <2> QED
    BY <2>2 DEF FirstOnes
<1>7. (IF l = -1 THEN 0 ELSE l) = Len(r.body)
  <2>1. CASE \E i \in 1 .. n : IsLength(r.headers[i].name)
    <3>1. l = Len(r.body)
      BY <2>1 DEF LengthAfter
    <3> QED
      BY <1>1, <3>1
  <2>2. CASE ~\E i \in 1 .. n : IsLength(r.headers[i].name)
    <3>1. l = -1
      BY <2>2 DEF LengthAfter
    <3>2. r.body = << >>
      BY <2>2, GoodRequestIs
    <3>3. Len(r.body) = 0
      BY <3>2
    <3> QED
      BY <3>1, <3>3
  <2> QED
    BY <2>1, <2>2
<1>8. y[n + 1] = LineAfter(w, y[n]) /\ n + 1 \in 0 .. Len(w)
  <2> DEFINE q == Len(r.body)
             t == Len(w)
  <2>3. q \in Nat /\ t = m + 2 + q /\ m \in Nat /\ m >= n + 2 /\ n \in Nat
    BY <1>1, <1>2, <1>3
  <2> HIDE DEF q, t, m, n
  <2>4. n + 1 \in 1 .. t /\ n + 1 \in 0 .. t /\ (n + 1) - 1 = n
    BY <2>3
  <2>1. n + 1 \in 1 .. Len(w) /\ n + 1 \in 0 .. Len(w) /\ (n + 1) - 1 = n
    BY <2>4 DEF t
  <2>2. \A i \in 1 .. Len(w) : y[i] = LineAfter(w, y[i - 1])
    BY <1>2, LinesAre
  <2> HIDE DEF y
  <2> QED
    BY <1>1, <2>1, <2>2
<1> HIDE DEF n, u, w, y, x, g, l
<1>9. y[n + 1] = read_line(w, x)
  BY <1>4, <1>5, <1>8 DEF LineAfter
<1> HIDE DEF m
<1> DEFINE q == Len(r.body)
           t == Len(w)
<1>20. q \in Nat /\ t = m + 2 + q /\ t \in Nat
  <2>1. q \in Nat /\ t = m + 2 + q
    BY <1>1, <1>2
  <2> HIDE DEF q, t
  <2> QED
    BY <1>3, <2>1
<1>10. read_line(w, x) = Body(w, m + 1 + 2, x)
  <2>1. m + 1 # 0
    BY <1>3
  <2> QED
    BY <1>2, <1>5, <2>1 DEF read_line
<1>11. m + 1 + 2 = m + 3
  BY <1>3
<1>12. size = Len(r.body)
  BY <1>5, <1>7
<1>14. m + 3 + size - 1 = Len(w) /\ (m + 3) - 1 + size = Len(w)
  <2>1. size = q
    BY <1>12
  <2> HIDE DEF size, q, t
  <2>2. m + 3 + size - 1 = t /\ (m + 3) - 1 + size = t
    BY <1>3, <1>20, <2>1
  <2> QED
    BY <2>2 DEF t
<1>13. Body(w, m + 3, x) = full
  <2>1. ~(Len(w) < (m + 3) - 1 + size)
    BY <1>14, <1>20
  <2> DEFINE cursor == m + 3
             z == size
  <2>2. z = (IF x.length = -1 THEN 0 ELSE x.length) /\ ~(Len(w) < cursor - 1 + z)
    BY <2>1
  <2>3. full = [answer   |-> "Complete",
                request  |-> [method |-> x.first.method, target |-> x.first.target,
                              headers |-> x.headers, body |-> SubSeq(w, cursor, cursor + z - 1)],
                consumed |-> cursor - 1 + z]
    OBVIOUS
  <2> HIDE DEF cursor, z, full
  <2>4. Body(w, cursor, x) = full
    BY <2>2, <2>3, BodyIs
  <2> QED
    BY <2>4 DEF cursor
<1> DEFINE request == [method |-> x.first.method, target |-> x.first.target,
                       headers |-> x.headers, body |-> r.body]
<1>15. SubSeq(w, m + 3, m + 3 + size - 1) = r.body
  BY <1>2, <1>14
<1>16. full.answer = "Complete" /\ full.request = request /\ full.consumed = Len(w)
  BY <1>14, <1>15
<1>17. request = Meant(r)
  <2>1. request = [method |-> r.method, target |-> r.target, headers |-> g, body |-> r.body]
    BY <1>5, <1>6 DEF FirstOf
  <2>2. \E S : r \in [method : Methods, target : Seq(Symbol), headers : S, body : Seq(Symbol)]
    BY DEF GoodRequest
  <2>3. PICK S : r \in [method : Methods, target : Seq(Symbol), headers : S, body : Seq(Symbol)]
    BY <2>2
  <2>4. Meant(r) = [r EXCEPT !.headers = g]
    BY DEF Meant, MeantHeaders, g
  <2>5. [r EXCEPT !.headers = g]
          = [method |-> r.method, target |-> r.target, headers |-> g, body |-> r.body]
    BY <2>3
  <2> QED
    BY <2>1, <2>4, <2>5
<1> HIDE DEF full, request
<1>18. y[n + 1] = full
  BY <1>9, <1>10, <1>11, <1>13
<1>19. parse(w) = full
  <2>1. Lines(w)[n + 1] = full
    BY <1>18 DEF y
  <2>2. full.answer # "reading"
    BY <1>16
  <2> QED
    BY <1>2, <1>8, <2>1, <2>2, LinesStay
<1> QED
  BY <1>16, <1>17, <1>19 DEF w

-----------------------------------------------------------------------------
(* A client that sends one request after the other.                         *)

(* What a client sends that keeps to the grammar and the caps.                           *)
GoodRequests(requests) ==
  /\ Len(requests) \in Nat /\ DOMAIN requests = 1 .. Len(requests)
  /\ \A i \in 1 .. Len(requests) : GoodRequest(requests[i])

(* Sending, request by request.                                             *)
LEMMA SendingIs ==
  ASSUME NEW requests, GoodRequests(requests)
  PROVE  /\ Sending(requests)[0] = << >>
         /\ \A k \in 0 .. Len(requests) : Sending(requests)[k] \in Seq(Symbol)
         /\ \A k \in 1 .. Len(requests) :
              Sending(requests)[k] = Sending(requests)[k - 1] \o Render(requests[k])
<1> DEFINE n == Len(requests)
           Texts == Seq(Symbol)
           none == << >>
           F == [p \in (1 .. n) \X Texts |-> p[2] \o Render(requests[p[1]])]
           IsSending(f) == f = [k \in 0 .. n |-> IF k = 0 THEN none
                                                 ELSE f[k - 1] \o Render(requests[k])]
           wire == CHOOSE f : IsSending(f)
<1>1. n \in Nat /\ \A i \in 1 .. n : GoodRequest(requests[i])
  BY DEF GoodRequests
<1>2. none \in Texts
  OBVIOUS
<1>3. ASSUME NEW i \in 1 .. n, NEW s \in Texts
      PROVE  s \o Render(requests[i]) \in Texts
  <2>1. Render(requests[i]) \in Seq(Symbol)
    BY <1>1, RenderIs
  <2> QED
    BY <2>1, JoinIs
<1>4. Sending(requests) = wire
  BY DEF Sending
<1> HIDE DEF Texts, n, none
<1>5. F \in [(1 .. n) \X Texts -> Texts]
  <2>1. \A p \in (1 .. n) \X Texts : p[1] \in 1 .. n /\ p[2] \in Texts
    OBVIOUS
  <2> QED
    BY <1>3, <2>1
<1>6. \A k \in 1 .. n, s \in Texts : F[<<k, s>>] = s \o Render(requests[k])
  OBVIOUS
<1> HIDE DEF F
<1>7. PICK f : Recurs(f, n, Texts, none, F)
  BY <1>1, <1>2, <1>5, Recursion, Zenon
<1>8. f \in [0 .. n -> Texts] /\ f[0] = none
  BY <1>7 DEF Recurs
<1>9. \A k \in 1 .. n : f[k - 1] \in Texts
  BY <1>1, <1>8
<1>10. \A k \in 1 .. n : f[k] = F[<<k, f[k - 1]>>]
  BY <1>7, Zenon DEF Recurs
<1>11. \A k \in 1 .. n : f[k] = f[k - 1] \o Render(requests[k])
  BY ONLY <1>6, <1>9, <1>10, Zenon
<1>12. IsSending(f)
  <2>1. f = [k \in 0 .. n |-> f[k]]
    BY <1>8
  <2>2. \A k \in 0 .. n : k # 0 => k \in 1 .. n
    BY <1>1
  <2>3. \A k \in 0 .. n : f[k] = IF k = 0 THEN none ELSE f[k - 1] \o Render(requests[k])
    BY <1>8, <1>11, <2>2
  <2> QED
    BY <2>1, <2>3
<1>13. IsSending(wire)
  BY <1>12
<1> HIDE DEF wire
<1>14. wire[0] = none /\ \A k \in 1 .. n : wire[k] = wire[k - 1] \o Render(requests[k])
  <2>1. \A k \in 0 .. n : wire[k] = IF k = 0 THEN none ELSE wire[k - 1] \o Render(requests[k])
    BY <1>13
  <2>2. 0 \in 0 .. n /\ \A k \in 1 .. n : k \in 0 .. n /\ k # 0
    BY <1>1
  <2> HIDE DEF IsSending
  <2> QED
    BY <2>1, <2>2
<1> HIDE DEF IsSending
<1> DEFINE T == {k \in 0 .. n : wire[k] \in Texts}
<1>15. 0 \in T
  BY <1>1, <1>2, <1>14
<1>16. ASSUME NEW k \in 0 .. n - 1, k \in T
       PROVE  k + 1 \in T
  <2>1. k + 1 \in 1 .. n /\ (k + 1) - 1 = k /\ k + 1 \in 0 .. n
    BY <1>1
  <2>2. wire[k + 1] = wire[k] \o Render(requests[k + 1])
    BY <1>14, <2>1
  <2> QED
    BY <1>3, <1>16, <2>1, <2>2
<1> HIDE DEF T
<1>17. 0 .. n \subseteq T
  BY <1>1, <1>15, <1>16, UpTo
<1>18. \A k \in 0 .. n : wire[k] \in Texts
  BY <1>17 DEF T
<1> QED
  BY <1>4, <1>14, <1>18 DEF n, Texts, none

(* What is sent first begins what is sent.                                  *)
LEMMA SendingGrows ==
  ASSUME NEW requests, GoodRequests(requests), NEW k \in 0 .. Len(requests)
  PROVE  /\ Prefix(Sending(requests)[k], Sending(requests)[Len(requests)])
         /\ Len(Sending(requests)[k]) \in Nat /\ Len(Sending(requests)[k]) >= k
<1> DEFINE n == Len(requests)
           S == Sending(requests)
           T == {i \in 0 .. n : Prefix(S[n - i], S[n])}
           U == {i \in 0 .. n : Len(S[i]) >= i}
<1>1. n \in Nat /\ \A i \in 1 .. n : GoodRequest(requests[i])
  BY DEF GoodRequests
<1>2. /\ S[0] = << >> /\ \A i \in 0 .. n : S[i] \in Seq(Symbol)
      /\ \A i \in 1 .. n : S[i] = S[i - 1] \o Render(requests[i])
  BY SendingIs
<1>3. \A i \in 1 .. n : /\ Render(requests[i]) \in Seq(Symbol)
                        /\ Len(Render(requests[i])) \in Nat /\ Len(Render(requests[i])) >= 1
  <2> SUFFICES ASSUME NEW i \in 1 .. n
               PROVE  /\ Render(requests[i]) \in Seq(Symbol)
                      /\ Len(Render(requests[i])) \in Nat /\ Len(Render(requests[i])) >= 1
    OBVIOUS
  <2> DEFINE r == requests[i]
             u == HeadOf(r)[Len(r.headers)]
             p == Len(u)
             q == Len(r.body)
             t == Len(Render(r))
  <2>1. GoodRequest(r)
    BY <1>1
  <2> HIDE DEF r
  <2>2. Render(r) \in Seq(Symbol) /\ t = p + 2 + q /\ u \in Seq(Symbol) /\ q \in Nat
    BY <2>1, RenderIs, GoodRequestIs
  <2>3. p \in Nat
    BY <2>2
  <2> HIDE DEF p, q, t
  <2>4. t \in Nat /\ t >= 1
    BY <2>2, <2>3
  <2> QED
    BY <2>2, <2>4 DEF r, t
<1> HIDE DEF S, n
<1>4. 0 \in T
  <2>1. n - 0 = n /\ n \in 0 .. n /\ 0 \in 0 .. n
    BY <1>1
  <2>2. Len(S[n]) \in Nat
    BY <1>2, <2>1
  <2>3. Prefix(S[n], S[n])
    BY <2>2 DEF Prefix
  <2> QED
    BY <2>1, <2>3
<1>5. ASSUME NEW i \in 0 .. n - 1, i \in T
      PROVE  i + 1 \in T
  <2> DEFINE j == n - i
  <2>1. j \in 1 .. n /\ j \in 0 .. n /\ j - 1 \in 0 .. n /\ n - (i + 1) = j - 1 /\ i + 1 \in 0 .. n
        /\ n \in 0 .. n
    BY <1>1
  <2>2. Prefix(S[j], S[n])
    BY <1>5
  <2> HIDE DEF j
  <2> DEFINE u == S[j - 1]
             r == Render(requests[j])
  <2>3. /\ S[j] = u \o r /\ u \in Seq(Symbol) /\ S[j] \in Seq(Symbol) /\ S[n] \in Seq(Symbol)
        /\ r \in Seq(Symbol)
    BY <1>2, <1>3, <2>1
  <2> HIDE DEF u, r
  <2>4. Prefix(u, S[j])
    BY <2>3, JoinPrefix
  <2>5. Prefix(u, S[n])
    BY <2>2, <2>3, <2>4, PrefixOn
  <2> QED
    BY <2>1, <2>5 DEF u
<1>6. 0 \in U
  BY <1>1, <1>2
<1>7. ASSUME NEW i \in 0 .. n - 1, i \in U
      PROVE  i + 1 \in U
  <2>1. i + 1 \in 1 .. n /\ (i + 1) - 1 = i /\ i + 1 \in 0 .. n /\ i \in 0 .. n /\ i \in Nat
    BY <1>1
  <2> DEFINE u == S[i]
             r == Render(requests[i + 1])
  <2>2. /\ S[i + 1] = u \o r /\ u \in Seq(Symbol) /\ r \in Seq(Symbol) /\ Len(r) >= 1
        /\ Len(u) >= i
    BY <1>2, <1>3, <1>7, <2>1
  <2> HIDE DEF u, r
  <2>3. Len(S[i + 1]) = Len(u) + Len(r) /\ Len(u) \in Nat /\ Len(r) \in Nat
    BY <2>2, JoinIs
  <2>4. Len(S[i + 1]) >= i + 1
    BY <2>1, <2>2, <2>3
  <2> QED
    BY <2>1, <2>4
<1> HIDE DEF T, U
<1>8. 0 .. n \subseteq T
  BY <1>1, <1>4, <1>5, UpTo
<1>9. 0 .. n \subseteq U
  BY <1>1, <1>6, <1>7, UpTo
<1>10. k \in 0 .. n /\ n - k \in 0 .. n /\ n - (n - k) = k
  BY <1>1 DEF n
<1>11. Prefix(S[k], S[n])
  BY <1>8, <1>10 DEF T
<1>12. Len(S[k]) >= k /\ Len(S[k]) \in Nat
  BY <1>2, <1>9, <1>10 DEF U
<1> QED
  BY <1>11, <1>12 DEF S, n

(* The walk over all that is sent serves each request as it is meant.                      *)
MeantAll(requests) == [i \in DOMAIN requests |-> Meant(requests[i])]

(* The walk over all that is sent is at the end of request k after k turns. *)
LEMMA WalkServes ==
  ASSUME NEW requests, GoodRequests(requests), NEW k \in 0 .. Len(requests)
  PROVE  Reached(Sending(requests)[Len(requests)], k, Len(Sending(requests)[k]),
                 FirstOnes(MeantAll(requests), k))
<1> DEFINE n == Len(requests)
           S == Sending(requests)
           w == S[n]
           g == MeantAll(requests)
           T == {i \in 0 .. n : Reached(w, i, Len(S[i]), FirstOnes(g, i))}
<1>1. /\ n \in Nat /\ n \in 0 .. n /\ DOMAIN requests = 1 .. n
      /\ \A i \in 1 .. n : GoodRequest(requests[i])
  BY DEF GoodRequests
<1>2. /\ S[0] = << >> /\ \A i \in 0 .. n : S[i] \in Seq(Symbol)
      /\ \A i \in 1 .. n : S[i] = S[i - 1] \o Render(requests[i])
  BY SendingIs
<1>3. \A i \in 0 .. n : Prefix(S[i], w) /\ Len(S[i]) \in Nat /\ Len(S[i]) >= i
  BY SendingGrows
<1>4. DOMAIN g = 1 .. n /\ \A i \in 1 .. n : g[i] = Meant(requests[i])
  BY <1>1 DEF MeantAll
<1>5. \A i \in 0 .. n - 1 : Append(FirstOnes(g, i), g[i + 1]) = FirstOnes(g, i + 1)
  <2>1. n \in Nat /\ DOMAIN g = 1 .. n
    BY <1>1, <1>4
  <2> HIDE DEF g, n
  <2>2. ASSUME NEW i \in 0 .. n - 1
        PROVE  Append(FirstOnes(g, i), g[i + 1]) = FirstOnes(g, i + 1)
    <3>1. Append(FirstOnes(g, i), g[i + 1]) = FirstOnes(g, i + 1) /\ Len(FirstOnes(g, i)) = i
      BY <2>1, OneMore
    <3> QED
      BY <3>1
  <2> QED
    BY <2>2
<1>6. w \in Seq(Symbol)
  BY <1>1, <1>2
<1> HIDE DEF n, S, w, g
<1>7. 0 \in T
  <2>1. Drained(w, << >>)[0] = Point(TRUE, 0, << >>, "no")
    BY <1>6, DrainedIs
  <2>2. FirstOnes(g, 0) = << >>
    BY DEF FirstOnes
  <2>3. Len(S[0]) = 0
    BY <1>2
  <2>4. Reached(w, 0, 0, << >>)
    BY <2>1 DEF Reached
  <2> QED
    BY <1>1, <2>2, <2>3, <2>4
<1>8. ASSUME NEW i \in 0 .. n - 1, i \in T
      PROVE  i + 1 \in T
  <2> DEFINE at == Len(S[i])
             t == Len(w)
             r == requests[i + 1]
             b == Render(r)
             c == Part(w, at, t)
             done == FirstOnes(g, i)
  <2>1. i + 1 \in 1 .. n /\ (i + 1) - 1 = i /\ i + 1 \in 0 .. n /\ i \in 0 .. n /\ i \in Nat
    BY <1>1
  <2>2. GoodRequest(r) /\ S[i + 1] = S[i] \o b
    BY <1>1, <1>2, <2>1
  <2>3. b \in Seq(Symbol)
    BY <2>2, RenderIs
  <2>4. /\ S[i] \in Seq(Symbol) /\ at \in Nat /\ at >= i
        /\ Prefix(S[i + 1], w) /\ Prefix(S[i], w) /\ S[i + 1] \in Seq(Symbol)
    BY <1>2, <1>3, <2>1
  <2> HIDE DEF b, at
  <2>5. /\ Len(S[i + 1]) = at + Len(b) /\ \A j \in 1 .. Len(b) : S[i + 1][at + j] = b[j]
    BY <2>2, <2>3, <2>4, JoinIs DEF at
  <2>6. Len(b) \in Nat /\ t \in Nat /\ at + Len(b) <= t
    BY <1>6, <2>3, <2>4, <2>5 DEF Prefix
  <2>7. t \in 0 .. Len(w) /\ at \in 0 .. t /\ i \in 0 .. at
    BY <2>1, <2>4, <2>6
  <2> HIDE DEF t
  <2>8. c \in Seq(Symbol) /\ Len(c) = t - at /\ \A j \in 1 .. t - at : c[j] = w[at + j]
    BY <1>6, <2>7, PartIs
  <2>9. Prefix(b, c)
    <3>1. Len(b) <= Len(c)
      BY <2>4, <2>6, <2>8
    <3>2. ASSUME NEW j \in 1 .. Len(b)
          PROVE  b[j] = c[j]
      <4>1. at + j \in 1 .. Len(S[i + 1]) /\ j \in 1 .. t - at
        BY <2>4, <2>5, <2>6
      <4>2. S[i + 1][at + j] = w[at + j]
        BY <2>4, <4>1 DEF Prefix
      <4> QED
        BY <2>5, <2>8, <4>1, <4>2
    <3> QED
      BY <3>1, <3>2 DEF Prefix
  <2>10. /\ parse(b).answer = "Complete" /\ parse(b).request = Meant(r)
         /\ parse(b).consumed = Len(b)
    BY <2>2, RequestReads DEF b
  <2> HIDE DEF c
  <2>11. Agree(b, c, parse(b), parse(c))
    BY <2>3, <2>8, <2>9, ParseStays
  <2>12. parse(c) = parse(b)
    BY <2>10, <2>11, Answers DEF Agree
  <2>13. Reached(w, i, at, done)
    BY <1>8 DEF at
  <2>14. parse(Part(w, at, t)) = parse(c)
    BY DEF c
  <2> HIDE DEF done
  <2>15. Reached(w, i + 1, at + parse(c).consumed, Append(done, parse(c).request))
    BY <1>6, <2>7, <2>10, <2>12, <2>13, <2>14, SameTurn
  <2>16. at + parse(c).consumed = Len(S[i + 1])
    BY <2>5, <2>10, <2>12
  <2>17. Append(done, parse(c).request) = FirstOnes(g, i + 1)
    BY <1>4, <1>5, <2>1, <2>10, <2>12 DEF done
  <2> QED
    BY <2>1, <2>15, <2>16, <2>17
<1> HIDE DEF T
<1>9. 0 .. n \subseteq T
  BY <1>1, <1>7, <1>8, UpTo
<1>10. k \in T
  BY <1>9 DEF n
<1> QED
  BY <1>10 DEF T, w, S, n, g

(* The walk over all that is sent serves all of it and stops at its end.    *)
LEMMA WholeServes ==
  ASSUME NEW requests, GoodRequests(requests)
  PROVE  LET w == Sending(requests)[Len(requests)]
             x == Drain(w, << >>)
         IN  x.served = MeantAll(requests) /\ x.refused = "no" /\ Rest(w, x) = << >>
<1> DEFINE n == Len(requests)
           w == Sending(requests)[n]
           g == MeantAll(requests)
           W == Drained(w, << >>)
           x == Drain(w, << >>)
           t == Len(w)
<1>1. n \in Nat /\ n \in 0 .. n /\ DOMAIN requests = 1 .. n
  BY DEF GoodRequests
<1>2. w \in Seq(Symbol)
  BY <1>1, SendingIs
<1>3. t \in Nat /\ t >= n
  BY <1>1, SendingGrows
<1>4. Reached(w, n, t, FirstOnes(g, n))
  BY <1>1, WalkServes
<1>5. FirstOnes(g, n) = g
  <2>1. DOMAIN g = 1 .. n
    BY <1>1 DEF MeantAll
  <2>2. g = [i \in 1 .. n |-> g[i]]
    BY <2>1 DEF MeantAll
  <2> QED
    BY <2>2 DEF FirstOnes
<1> HIDE DEF w, g, n
<1>6. W[n] = Point(TRUE, t, g, "no")
  BY <1>4, <1>5 DEF Reached
<1>7. W[n].more /\ W[n].at = t /\ W[n].served = g
  BY <1>6 DEF Point
<1>8. n + 1 \in 1 .. t + 1 /\ (n + 1) - 1 = n /\ n + 1 \in 0 .. t + 1
  BY <1>1, <1>3
<1>9. W[n + 1] = serve(w, W[n])
  <2>1. W[n + 1] = ServeAfter(w, W[n])
    BY <1>2, <1>8, DrainedIs
  <2> QED
    BY <1>7, <2>1 DEF ServeAfter
<1>10. Part(w, t, t) = << >>
  <2> HIDE DEF t
  <2>1. t = Len(w)
    BY DEF t
  <2>2. t \in 0 .. Len(w) /\ t \in 0 .. t
    BY <1>3, <2>1
  <2>3. Part(w, t, t) \in Seq(Symbol) /\ Len(Part(w, t, t)) = t - t
    BY <1>2, <2>2, PartIs
  <2>4. t - t = 0
    BY <1>3
  <2> QED
    BY <2>3, <2>4
<1>11. parse(Part(w, t, t)).answer = "Partial"
  BY <1>10, EmptyIsPartial, Answers
<1>12. W[n + 1] = Point(FALSE, t, g, "no")
  <2>1. t \in 0 .. Len(w)
    BY <1>3
  <2> DEFINE d == W[n]
  <2>2. d.at \in 0 .. Len(w) /\ parse(Part(w, d.at, Len(w))).answer = "Partial"
    BY <1>7, <1>11, <2>1
  <2> HIDE DEF d
  <2>3. serve(w, d) = Point(FALSE, d.at, d.served, "no")
    BY <1>2, <2>2, ServeIs
  <2> QED
    BY <1>7, <1>9, <2>3 DEF d
<1>13. ~W[n + 1].more
  BY <1>12 DEF Point
<1>14. x = W[n + 1]
  BY <1>2, <1>8, <1>13, WalkStops
<1> HIDE DEF x, W
<1>15. x.served = g /\ x.refused = "no" /\ x.at = t
  BY <1>12, <1>14 DEF Point
<1>16. Rest(w, x) = << >>
  BY <1>10, <1>15 DEF Rest, Part
<1> QED
  BY <1>15, <1>16 DEF x, w, g, n

(* So the invariant gives what the run checks of streams that keep to the grammar.*)
LEMMA HttpInvServesAll == HttpInv => ServesAll
<1> SUFFICES ASSUME HttpInv, "sent" \in DOMAIN stream
             PROVE  LET meant == [i \in DOMAIN stream.sent |-> Meant(stream.sent[i])]
                    IN  /\ Begins(served, meant)
                        /\ refused = "no" \/ CutAtLimit
                        /\ taken = Len(stream.wire) /\ refused = "no" => served = meant /\ buf = << >>
  BY DEF ServesAll
<1> DEFINE w == stream.wire
           whole == Drain(w, << >>)
<1>1. stream \in Streams
  BY DEF HttpInv
<1>2. GoodRequests(stream.sent) /\ w = Sending(stream.sent)[Len(stream.sent)]
  BY <1>1, HttpAssumption DEF GoodRequests
<1>3. /\ whole.served = MeantAll(stream.sent) /\ whole.refused = "no" /\ Rest(w, whole) = << >>
  BY <1>2, WholeServes
<1>4. /\ Begins(served, whole.served)
      /\ refused # "no" => CutAtLimit \/ (served = whole.served /\ refused = whole.refused)
      /\ taken = Len(w) /\ refused = "no" =>
           served = whole.served /\ whole.refused = "no" /\ buf = Rest(w, whole)
  BY HttpInvOneAnswer DEF OneAnswer
<1> HIDE DEF whole
<1> QED
  BY <1>3, <1>4 DEF MeantAll

(* However the stream is cut: the requests served are a beginning of those a walk over *)
(* the whole stream serves, and what a client sends that keeps to the grammar and the  *)
(* caps is served request by request, none refused, none twice and none left out.     *)
THEOREM RequestsServed == HttpInit /\ [][HttpNext]_httpVars => []HttpServed
<1>1. HttpInv => HttpServed
  BY HttpInvOneAnswer, HttpInvServesAll DEF HttpServed
<1> QED
  BY HttpInitInv, HttpStep, <1>1, PTL

=============================================================================
