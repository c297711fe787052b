---------------------------------- MODULE Http ----------------------------------
(***************************************************************************)
(* The HTTP/1.1 request parser (wari-http): called again and again on a        *)
(* buffer that grows as the stream arrives, it keeps nothing between calls.    *)
(* A caller receives a stream in segments of any size, serves each request     *)
(* the parser completes, drops what it consumed, and closes on an error.       *)
(*                                                                         *)
(* A Symbol stands for a byte, or for a word that no cut can spoil: "GET",      *)
(* "HTTP/1.1", and "content-length" in any case.                             *)
(***************************************************************************)
LOCAL INSTANCE Integers
LOCAL INSTANCE Sequences

CONSTANTS
  Symbol,       (* Of which the grammar needs only those it names.          *)
  MAX_HEADERS, MAX_REQUEST_LINE, MAX_HEADER_LINE, MAX_BODY,
  MaxDigits,    (* Digits of a Content-Length at most: 10.                    *)
  Streams       (* What may be sent: [sent, wire], the wire a rendering of the *)
                (* requests sent, or any [wire].                              *)

VARIABLES
  stream,       (* What is sent.                                             *)
  taken,        (* How much of it has been received.                         *)
  buf,          (* Received and not consumed.                                *)
  served,       (* The requests completed.                                   *)
  refused       (* The parser's error, or "no".                              *)

httpVars == <<stream, taken, buf, served, refused>>

Methods  == {"GET", "POST", "DELETE"}
Versions == {"HTTP/1.1", "HTTP/1.0"}
Blank    == {"SP", "HT"}
Digit    == [d \in {"0", "1", "2"} |-> CASE d = "0" -> 0 [] d = "1" -> 1 [] d = "2" -> 2]

-----------------------------------------------------------------------------
(* Helpers, on sequences that start at 1.  None is << >> or 0.                 *)
Least(S) == CHOOSE i \in S : \A j \in S : i <= j

find_crlf(b, from) ==
  LET at == {i \in from .. Len(b) - 1 : b[i] = "CR" /\ b[i + 1] = "LF"}
  IN  IF at = {} THEN 0 ELSE Least(at)

split_once(line, sep) ==
  LET at == {i \in DOMAIN line : line[i] = sep}
  IN  IF at = {} THEN << >>
      ELSE << SubSeq(line, 1, Least(at) - 1), SubSeq(line, Least(at) + 1, Len(line)) >>

trim_ows(v) ==
  LET inner == {i \in DOMAIN v : v[i] \notin Blank}
  IN  IF inner = {} THEN << >>
      ELSE SubSeq(v, Least(inner), CHOOSE i \in inner : \A j \in inner : j <= i)

(* parse_decimal: -1 for what is no number.                                    *)
parse_decimal(v) ==
  LET number[k \in 0 .. Len(v)] == IF k = 0 THEN 0 ELSE 10 * number[k - 1] + Digit[v[k]]
  IN  IF v = << >> \/ Len(v) > MaxDigits \/ \E i \in DOMAIN v : v[i] \notin DOMAIN Digit
      THEN -1 ELSE number[Len(v)]

-----------------------------------------------------------------------------
(* parse.                                                                    *)
Partial  == [answer |-> "Partial"]
Err(why) == [answer |-> "Err", why |-> why]

(* Mutants, here and below: the definition that follows with a slip in it.      *)
Unfinished_at_cap(length, cap) == IF length >= cap THEN Err("LineTooLong") ELSE Partial

(* No CRLF yet: Partial while the line could still fit.                        *)
Unfinished(length, cap) == IF length > cap THEN Err("LineTooLong") ELSE Partial

RequestLine(line) ==
  LET a == split_once(line, "SP")
      b == split_once(a[2], "SP")
  IN  IF a = << >> THEN Err("BadRequestLine")
      ELSE IF b = << >> THEN Err("BadRequestLine")
      ELSE IF a[1] \notin {<<m>> : m \in Methods} THEN Err("BadMethod")
      ELSE IF b[1] = << >> \/ b[2] \notin {<<v>> : v \in Versions}
           THEN Err("BadRequestLine")
      ELSE [answer |-> "line", method |-> a[1][1], target |-> b[1]]

(* A request half read: its first line, the headers so far, the length of its body, -1  *)
(* until a Content-Length, and where the next line begins.                          *)
Reading(first, headers, length, cursor) ==
  [answer |-> "reading", first |-> first, headers |-> headers, length |-> length,
   cursor |-> cursor]

Body_unconsumed(b, cursor, r) ==
  LET n == IF r.length = -1 THEN 0 ELSE r.length
  IN  IF Len(b) < cursor - 1 + n THEN Partial
      ELSE [answer   |-> "Complete",
            request  |-> [method |-> r.first.method, target |-> r.first.target,
                          headers |-> r.headers, body |-> SubSeq(b, cursor, cursor + n - 1)],
            consumed |-> cursor - 1]

Body(b, cursor, r) ==
  LET n == IF r.length = -1 THEN 0 ELSE r.length
  IN  IF Len(b) < cursor - 1 + n THEN Partial
      ELSE [answer   |-> "Complete",
            request  |-> [method |-> r.first.method, target |-> r.first.target,
                          headers |-> r.headers, body |-> SubSeq(b, cursor, cursor + n - 1)],
            consumed |-> cursor - 1 + n]

IsLength(name) == name = <<"content-length">>

header(line, next, r) ==
  LET parts == split_once(line, ":")
      name  == parts[1]
      value == trim_ows(parts[2])
      n     == parse_decimal(value)
  IN  IF Len(line) > MAX_HEADER_LINE THEN Err("LineTooLong")
      ELSE IF line[1] \in Blank \/ parts = << >> THEN Err("BadHeader")
      ELSE IF name = << >> \/ \E i \in DOMAIN name : name[i] \in Blank THEN Err("BadHeader")
      ELSE IF IsLength(name) /\ (r.length # -1 \/ n = -1 \/ n > MAX_BODY)
           THEN Err("BadContentLength")
      ELSE IF Len(r.headers) = MAX_HEADERS THEN Err("TooManyHeaders")
      ELSE Reading(r.first, Append(r.headers, [name |-> name, value |-> value]),
                   IF IsLength(name) THEN n ELSE r.length, next)

(* The loop over the header lines, and what comes before it; a line takes two bytes.  *)
read_line(b, r) ==
  LET end == find_crlf(b, r.cursor)
  IN  IF end = 0 THEN Unfinished(Len(b) - r.cursor + 1, MAX_HEADER_LINE)
      ELSE IF end = r.cursor THEN Body(b, end + 2, r)
      ELSE header(SubSeq(b, r.cursor, end - 1), end + 2, r)

read_first(b) ==
  LET end   == find_crlf(b, 1)
      first == RequestLine(SubSeq(b, 1, end - 1))
  IN  IF end = 0 THEN Unfinished(Len(b), MAX_REQUEST_LINE)
      ELSE IF end - 1 > MAX_REQUEST_LINE THEN Err("LineTooLong")
      ELSE IF first.answer = "Err" THEN first
      ELSE Reading(first, << >>, -1, end + 2)

Lines(b) ==
  LET turn[k \in 0 .. Len(b)] ==
        IF k = 0 THEN read_first(b)
        ELSE LET before == turn[k - 1]
             IN  IF before.answer = "reading" THEN read_line(b, before) ELSE before
  IN  turn

parse(b) == Lines(b)[Len(b)]

-----------------------------------------------------------------------------
(* The caller: serve what is complete, keep the rest, stop at an error.  at is how    *)
(* much of the buffer has been consumed.                                       *)
Point(more, at, done, error) == [more |-> more, at |-> at, served |-> done, refused |-> error]

serve(b, d) ==
  LET p == parse(SubSeq(b, d.at + 1, Len(b)))
  IN  CASE p.answer = "Partial"  -> Point(FALSE, d.at, d.served, "no")
        [] p.answer = "Err"      -> Point(FALSE, d.at, d.served, p.why)
        [] p.answer = "Complete" ->
             Point(TRUE, d.at + p.consumed, Append(d.served, p.request), "no")

Drained(b, done) ==
  LET turn[k \in 0 .. Len(b) + 1] ==
        IF k = 0 THEN Point(TRUE, 0, done, "no")
        ELSE LET before == turn[k - 1]
             IN  IF before.more THEN serve(b, before) ELSE before
  IN  turn

Drain(b, done) == Drained(b, done)[Len(b) + 1]
Rest(b, d)     == SubSeq(b, d.at + 1, Len(b))

Recv(k) ==
  LET b   == buf \o SubSeq(stream.wire, taken + 1, taken + k)
      got == Drain(b, served)
  IN  /\ refused = "no" /\ taken + k <= Len(stream.wire)
      /\ taken' = taken + k
      /\ buf' = Rest(b, got) /\ served' = got.served /\ refused' = got.refused
      /\ UNCHANGED stream

HttpInit ==
  /\ stream \in Streams
  /\ taken = 0 /\ buf = << >> /\ served = << >> /\ refused = "no"

HttpNext == \E k \in 1 .. Len(stream.wire) : Recv(k)

-----------------------------------------------------------------------------
(* What a client writes that keeps to the grammar and the caps.                 *)
CRLF == <<"CR", "LF">>

FirstLine(r)  == <<r.method, "SP">> \o r.target \o <<"SP", "HTTP/1.1">>
HeaderLine(h) == h.name \o <<":">> \o h.pad \o h.value \o h.pad

(* The first k lines of a request, and the first k requests.                       *)
HeadOf(r) ==
  LET lines[k \in 0 .. Len(r.headers)] ==
        IF k = 0 THEN FirstLine(r) \o CRLF ELSE lines[k - 1] \o HeaderLine(r.headers[k]) \o CRLF
  IN  lines
Render(r) == HeadOf(r)[Len(r.headers)] \o CRLF \o r.body

Sending(requests) ==
  LET wire[k \in 0 .. Len(requests)] == IF k = 0 THEN << >> ELSE wire[k - 1] \o Render(requests[k])
  IN  wire

Meant(r) == [r EXCEPT !.headers =
               [i \in DOMAIN r.headers |-> [name  |-> r.headers[i].name,
                                            value |-> r.headers[i].value]]]

Free(s, symbols) == s \in Seq(Symbol) /\ \A i \in DOMAIN s : s[i] \notin symbols

GoodHeader(h) ==
  /\ h.name # << >> /\ Free(h.name, Blank \cup {":", "CR"})
  /\ Free(h.value, {"CR"})
  /\ h.value # << >> => h.value[1] \notin Blank /\ h.value[Len(h.value)] \notin Blank
  /\ h.pad \in Seq(Blank)
  /\ Len(HeaderLine(h)) <= MAX_HEADER_LINE

GoodRequest(r) ==
  /\ r \in [method : Methods, target : Seq(Symbol), body : Seq(Symbol),
            headers : Seq([name : Seq(Symbol), value : Seq(Symbol), pad : Seq(Symbol)])]
  /\ r.target # << >> /\ Free(r.target, {"SP", "CR"}) /\ Len(FirstLine(r)) <= MAX_REQUEST_LINE
  /\ Len(r.headers) <= MAX_HEADERS /\ \A i \in DOMAIN r.headers : GoodHeader(r.headers[i])
  /\ Len(r.body) <= MAX_BODY
  /\ LET lengths == {i \in DOMAIN r.headers : IsLength(r.headers[i].name)}
     IN  /\ \A i, j \in lengths : i = j
         /\ \A i \in lengths : parse_decimal(r.headers[i].value) = Len(r.body)
         /\ lengths = {} => r.body = << >>

ASSUME HttpAssumption ==
  /\ Methods \cup Versions \cup Blank \cup {"CR", "LF", ":"} \subseteq Symbol
  /\ MAX_HEADERS \in Nat /\ MAX_BODY \in Nat /\ MaxDigits \in Nat
  /\ MAX_REQUEST_LINE \in Nat /\ MAX_HEADER_LINE \in Nat
  /\ \A s \in Streams :
       /\ s.wire \in Seq(Symbol)
       /\ "sent" \in DOMAIN s =>
            /\ DOMAIN s.sent = 1 .. Len(s.sent) /\ Len(s.sent) \in Nat
            /\ \A i \in DOMAIN s.sent : GoodRequest(s.sent[i])
            /\ s.wire = Sending(s.sent)[Len(s.sent)]

-----------------------------------------------------------------------------
(* The one way in which a cut shows: a line of the maximal length, cut between   *)
(* its CR and its LF, is one byte over the cap as long as the LF is missing.     *)
CutAtLimit ==
  /\ refused = "LineTooLong" /\ buf[Len(buf)] = "CR" /\ stream.wire[taken + 1] = "LF"
  /\ \E from \in DOMAIN buf :
       LET cap == IF from = 1 THEN MAX_REQUEST_LINE ELSE MAX_HEADER_LINE
       IN  /\ from # 1 => from > 2 /\ buf[from - 2] = "CR" /\ buf[from - 1] = "LF"
           /\ find_crlf(buf, from) = 0 /\ Len(buf) - from + 1 = cap + 1

Begins(s, t) == Len(s) <= Len(t) /\ s = SubSeq(t, 1, Len(s))

(* However a stream is cut, well-formed or not, it is answered as if it had       *)
(* come at once: the same requests, and the same refusal (parse, "stateless and   *)
(* restartable", "errors are final"), CutAtLimit excepted.                       *)
OneAnswer ==
  LET whole == Drain(stream.wire, << >>)
  IN  /\ Begins(served, whole.served)
      /\ refused # "no" => CutAtLimit \/ (served = whole.served /\ refused = whole.refused)
      /\ taken = Len(stream.wire) /\ refused = "no" =>
           served = whole.served /\ whole.refused = "no" /\ buf = Rest(stream.wire, whole)

(* And the requests of a client that keeps to the grammar and the caps are        *)
(* served, each with its own body, in order, with nothing left over: no byte of   *)
(* one is taken for another's (parse, "consumed").                               *)
ServesAll ==
  "sent" \in DOMAIN stream =>
    LET meant == [i \in DOMAIN stream.sent |-> Meant(stream.sent[i])]
    IN  /\ Begins(served, meant)
        /\ refused = "no" \/ CutAtLimit
        /\ taken = Len(stream.wire) /\ refused = "no" => served = meant /\ buf = << >>

(* Both: no way to cut a stream changes the answer, or what the answer is about.    *)
HttpServed == OneAnswer /\ ServesAll

=============================================================================
