---------------------------------- MODULE Mcp -----------------------------------
(***************************************************************************)
(* The JSON-RPC surface (wari-mcp): a span skipper with a depth cap, on which    *)
(* a request's fields are looked up, and the writer that echoes its id.          *)
(*                                                                         *)
(* A Token stands for a byte, or for a run of bytes the code treats alike: a     *)
(* word inside quotes, a literal, a digit, "esc" for a backslash with the byte    *)
(* it escapes, and "ws" for white space.  A slice borrows the message and is      *)
(* here what it is there: its first position, and the one behind its last.        *)
(***************************************************************************)
LOCAL INSTANCE Integers
LOCAL INSTANCE Sequences

CONSTANTS
  Token,
  MAX_DEPTH,
  MaxInt,       (* i64::MAX.                                                  *)
  IntDigits,    (* Digits of a number at most: 19.                            *)
  Messages      (* What may be received: [text, root, tree], root the slice of  *)
                (* an object, and tree what the values in it are made of.       *)

VARIABLES
  message,      (* The message in hand.                                       *)
  result,       (* parse_request of it.                                       *)
  reply         (* The id written into the response.                          *)

mcpVars == <<message, result, reply>>

Quote == "q"
Open  == {"{", "["}
Close(c) == IF c = "{" THEN "}" ELSE "]"
Delimiter == {",", "}", "]", "ws"}
Numerals  == <<"0", "1", "2", "3", "4", "5", "6", "7", "8", "9">>
numeral(n) == Numerals[n + 1]

Bad     == -1          (* Err(BadJson).                                       *)
TooDeep == -2
None    == << >>       (* No slice.                                            *)

-----------------------------------------------------------------------------
(* All of s lies before to, and is read from i on.                              *)
lowest(S) == CHOOSE i \in S : \A j \in S : i <= j

At(s, i, to) == IF i < to THEN s[i] ELSE "end"

(* trim_start, and trim.                                                       *)
skip(s, i, to) == lowest({j \in i .. to : At(s, j, to) # "ws"})

trim(s, x) ==
  LET inner == {i \in x[1] .. x[2] - 1 : s[i] # "ws"}
  IN  IF inner = {} THEN <<x[1], x[1]>>
      ELSE <<lowest(inner), (CHOOSE i \in inner : \A j \in inner : j <= i) + 1>>

(* string_end: behind the closing quote of the string that starts at i.          *)
string_end(s, i, to) ==
  LET ends == {j \in i + 1 .. to - 1 : s[j] = Quote}
  IN  IF ends = {} THEN Bad ELSE lowest(ends) + 1

Escaped(s, i, end) == \E j \in i .. end - 1 : s[j] = "esc"

literal_end(s, i, to) ==
  LET end == lowest({j \in i .. to : At(s, j, to) \in Delimiter \cup {"end"}})
  IN  IF end = i THEN Bad ELSE end

(* A loop that stands at a position, or has ended with an answer; it starts at i, and   *)
(* step is one turn of it from each position.                                    *)
Onward(i) == [more |-> TRUE, at |-> i]
Ended(i)  == [more |-> FALSE, at |-> i]

Loop(i, to, step) ==
  LET turn[k \in 0 .. to] ==
        IF k = 0 THEN Onward(i)
        ELSE LET before == turn[k - 1] IN IF before.more THEN step[before.at] ELSE before
  IN  turn

(* One turn of the loop of value_len over what an array or an object holds; inner    *)
(* reads the values in it.                                                    *)
element(s, i, to, open, inner) ==
  LET key   == IF open = "{" THEN inner[i] ELSE i
      colon == skip(s, key, to)
      from  == IF open = "{" THEN skip(s, colon + 1, to) ELSE i
      value == inner[from]
      after == skip(s, value, to)
  IN  IF At(s, i, to) = Close(open) THEN Ended(i + 1)
      ELSE IF At(s, i, to) = "end" THEN Ended(Bad)
      ELSE IF key < 0 THEN Ended(key)
      ELSE IF open = "{" /\ At(s, colon, to) # ":" THEN Ended(Bad)
      ELSE IF value < 0 THEN Ended(value)
      ELSE IF At(s, after, to) = "," THEN Onward(skip(s, after + 1, to))
      ELSE IF At(s, after, to) = Close(open) THEN Ended(after + 1)
      ELSE Ended(Bad)

elements(s, i, to, inner) ==
  Loop(skip(s, i + 1, to), to, [at \in 1 .. to |-> element(s, at, to, s[i], inner)])[to].at

(* value_len, by the levels that are left, from each position.                    *)
value_at(s, i, to, inner) ==
  IF i = to THEN Bad
  ELSE IF s[i] = Quote THEN string_end(s, i, to)
  ELSE IF s[i] \in Open THEN elements(s, i, to, inner)
  ELSE literal_end(s, i, to)

Ends(s, to) ==
  LET left[n \in 0 .. MAX_DEPTH + 1] ==
        IF n = 0 THEN [i \in 1 .. to |-> TooDeep]
        ELSE LET inner == left[n - 1] IN [i \in 1 .. to |-> value_at(s, i, to, inner)]
  IN  left

value_end(s, i, to, depth) == Ends(s, to)[MAX_DEPTH + 1 - depth][i]

-----------------------------------------------------------------------------
(* The loop of obj_get_raw over an object's inside.  What it ends with is a slice.   *)
Is(s, x, word) == x[2] = x[1] + 1 /\ s[x[1]] = word

(* Mutant: the definition that follows with a slip in it.                         *)
member_any_level(s, i, to, key) ==
  LET at == {j \in i .. to - 3 : /\ s[j] = Quote /\ s[j + 1] = key /\ s[j + 2] = Quote
                                 /\ At(s, skip(s, j + 3, to), to) = ":"}
      from == skip(s, skip(s, lowest(at) + 3, to) + 1, to)
  IN  IF at = {} THEN Ended(None) ELSE Ended(<<from, value_end(s, from, to, 0)>>)

member(s, i, to, key) ==
  LET end   == string_end(s, i, to)
      colon == skip(s, end, to)
      from  == skip(s, colon + 1, to)
      value == value_end(s, from, to, 0)
      after == skip(s, value, to)
  IN  IF At(s, i, to) # Quote THEN Ended(None)
      ELSE IF end < 0 THEN Ended(None)
      ELSE IF Escaped(s, i, end) THEN Ended(None)
      ELSE IF At(s, colon, to) # ":" THEN Ended(None)
      ELSE IF value < 0 THEN Ended(None)
      ELSE IF Is(s, <<i + 1, end - 1>>, key) THEN Ended(<<from, value>>)
      ELSE IF At(s, after, to) = "," THEN Onward(skip(s, after + 1, to))
      ELSE Ended(None)

members(s, i, to, key) ==
  Loop(skip(s, i, to), to, [at \in 1 .. to |-> member(s, at, to, key)])[to].at

obj_get_raw(s, obj, key) ==
  LET x == trim(s, obj)
  IN  IF x[2] < x[1] + 2 THEN None
      ELSE IF s[x[1]] # "{" \/ s[x[2] - 1] # "}" THEN None
      ELSE members(s, x[1] + 1, x[2] - 1, key)

-----------------------------------------------------------------------------
Unread      == [answer |-> "none"]
Refuse(why) == [answer |-> "Err", why |-> why]

(* as_str, of a raw slice.                                                     *)
as_str(s, raw) ==
  LET x == trim(s, raw)
      end == string_end(s, x[1], x[2])
  IN  IF At(s, x[1], x[2]) # Quote THEN Refuse("BadJson")
      ELSE IF end < 0 THEN Refuse("BadJson")
      ELSE IF Escaped(s, x[1], end) THEN Refuse("EscapedString")
      ELSE IF end < x[2] THEN Refuse("BadJson")
      ELSE [answer |-> "Ok", str |-> <<x[1] + 1, end - 1>>]

(* parse_i64: the magnitude may not pass the largest positive number, so the      *)
(* smallest negative one is refused.                                           *)
amount(s, from, n) ==
  LET upto[k \in 0 .. n] ==
        IF k = 0 THEN 0
        ELSE 10 * upto[k - 1] + CHOOSE d \in 0 .. 9 : s[from + k - 1] = numeral(d)
  IN  upto

parse_i64(s, raw) ==
  LET neg  == At(s, raw[1], raw[2]) = "-"
      from == IF neg THEN raw[1] + 1 ELSE raw[1]
      n    == raw[2] - from
      sum  == amount(s, from, n)[n]
  IN  IF n <= 0 \/ n > IntDigits THEN Refuse("BadNumber")
      ELSE IF \E i \in from .. raw[2] - 1 : \A d \in 0 .. 9 : s[i] # numeral(d)
           THEN Refuse("BadNumber")
      ELSE IF sum > MaxInt THEN Refuse("BadNumber")
      ELSE [answer |-> "Ok", int |-> IF neg THEN 0 - sum ELSE sum]

Id(s, obj) ==
  LET raw == obj_get_raw(s, obj, "id")
  IN  IF raw = None THEN [answer |-> "Ok", absent |-> TRUE]
      ELSE IF Is(s, raw, "null") THEN [answer |-> "Ok", null |-> TRUE]
      ELSE IF s[raw[1]] = Quote THEN as_str(s, raw)
      ELSE parse_i64(s, raw)

(* object_span and parse_request, in its order.                                *)
parse_request(s) ==
  LET obj    == trim(s, <<1, Len(s) + 1>>)
      end    == value_end(s, obj[1], obj[2], 0)
      ver    == obj_get_raw(s, obj, "jsonrpc")
      method == obj_get_raw(s, obj, "method")
      id     == Id(s, obj)
  IN  IF At(s, obj[1], obj[2]) # "{" THEN Refuse("BadRequest")
      ELSE IF end < 0 THEN Refuse(IF end = TooDeep THEN "TooDeep" ELSE "BadJson")
      ELSE IF end < obj[2] THEN Refuse("BadJson")
      ELSE IF ver = None THEN Refuse("BadRequest")
      ELSE IF as_str(s, ver).answer = "Err" THEN as_str(s, ver)
      ELSE IF ~Is(s, as_str(s, ver).str, "2.0") THEN Refuse("BadRequest")
      ELSE IF method = None THEN Refuse("BadRequest")
      ELSE IF as_str(s, method).answer = "Err" THEN as_str(s, method)
      ELSE IF id.answer = "Err" THEN id
      ELSE [answer |-> "Ok", method |-> as_str(s, method).str, id |-> id,
            params |-> obj_get_raw(s, obj, "params")]

(* put_id: what respond_result and respond_error write.  A notification, which     *)
(* expects no response, would be answered like a null id.                        *)
put_i64(n) ==
  LET put[m \in 0 .. n] ==
        IF m < 10 THEN <<numeral(m)>> ELSE Append(put[m \div 10], numeral(m % 10))
  IN  put[n]

put_id(s, id) ==
  IF "int" \in DOMAIN id
  THEN IF id.int < 0 THEN <<"-">> \o put_i64(0 - id.int) ELSE put_i64(id.int)
  ELSE IF "str" \in DOMAIN id
       THEN <<Quote>> \o SubSeq(s, id.str[1], id.str[2] - 1) \o <<Quote>>
  ELSE <<"null">>

-----------------------------------------------------------------------------
Handle ==
  /\ result = Unread
  /\ result' = parse_request(message.text)
  /\ reply'  = IF result'.answer = "Ok" THEN put_id(message.text, result'.id) ELSE << >>
  /\ UNCHANGED message

McpInit == message \in Messages /\ result = Unread /\ reply = << >>
McpNext == Handle

-----------------------------------------------------------------------------
(* A text that is an object, and its values.  tree says of each of them how deep it   *)
(* nests, and what it holds: items, in order, each with the slice of its value,       *)
(* where it starts, the comma or the bracket after it, and, in an object, where its    *)
(* key ends and the colon.                                                     *)
Void(s, i, j) == i <= j /\ \A p \in i .. j - 1 : s[p] = "ws"

Quoted(s, i, j) ==
  i + 2 <= j /\ s[i] = Quote /\ s[j - 1] = Quote /\ \A p \in i + 1 .. j - 2 : s[p] # Quote

Keyed(s, x) ==
  /\ Quoted(s, x.at, x.end)
  /\ Void(s, x.end, x.colon) /\ s[x.colon] = ":" /\ Void(s, x.colon + 1, x.from)

Boxed(s, i, j, items) ==
  /\ i + 2 <= j /\ s[j - 1] = Close(s[i])
  /\ items = << >> => Void(s, i + 1, j - 1)
  /\ \A k \in DOMAIN items :
       LET x == items[k]
       IN  /\ Void(s, (IF k = 1 THEN i ELSE items[k - 1].comma) + 1, x.at)
           /\ IF s[i] = "{" THEN Keyed(s, x) ELSE x.from = x.at
           /\ x.from < x.to /\ Void(s, x.to, x.comma) /\ x.comma < j
           /\ IF k = Len(items) THEN x.comma = j - 1 ELSE s[x.comma] = ","

Item == [at : Nat, end : Nat, colon : Nat, from : Nat, to : Nat, comma : Nat]

GoodValue(s, tree, v) ==
  LET i == v[1]  j == v[2]  items == tree[v].items
  IN  /\ i \in 1 .. Len(s) /\ j \in i + 1 .. Len(s) + 1
      /\ tree[v].depth \in Nat \ {0} /\ items \in Seq(Item)
      /\ CASE s[i] = Quote   -> Quoted(s, i, j) /\ items = << >>
           [] s[i] \in Open  -> Boxed(s, i, j, items)
           [] OTHER          -> /\ \A p \in i .. j - 1 : s[p] \notin Delimiter
                                /\ j <= Len(s) /\ s[j] \in Delimiter /\ items = << >>
      /\ \A k \in DOMAIN items :
           /\ <<items[k].from, items[k].to>> \in DOMAIN tree
           /\ tree[<<items[k].from, items[k].to>>].depth < tree[v].depth
      /\ tree[v].depth # 1 =>
           \E k \in DOMAIN items :
             tree[<<items[k].from, items[k].to>>].depth = tree[v].depth - 1

GoodMessage(m) ==
  /\ m.text \in Seq(Token)
  /\ \A v \in DOMAIN m.tree : v = <<v[1], v[2]>> /\ GoodValue(m.text, m.tree, v)
  /\ m.root \in DOMAIN m.tree /\ m.text[m.root[1]] = "{"
  /\ Void(m.text, 1, m.root[1]) /\ Void(m.text, m.root[2], Len(m.text) + 1)

ASSUME McpAssumption ==
  /\ MAX_DEPTH \in Nat /\ MaxInt \in Nat /\ IntDigits \in Nat
  /\ "end" \notin Token
  /\ \A m \in Messages : GoodMessage(m)

-----------------------------------------------------------------------------
(* What the members say, read off the tree.                                      *)
Items == message.tree[message.root].items
Key(k) == <<Items[k].at + 1, Items[k].end - 1>>
Slice(k) == <<Items[k].from, Items[k].to>>

Called(key) == {k \in DOMAIN Items : Is(message.text, Key(k), key)}
First(key)  == Slice(lowest(Called(key)))
Visible(key) ==       (* Keys with escapes before it hide a member.             *)
  /\ Called(key) # {}
  /\ \A k \in 1 .. lowest(Called(key)) : ~Escaped(message.text, Key(k)[1], Key(k)[2])

Said(key) == SubSeq(message.text, First(key)[1], First(key)[2] - 1)

Proper(x) ==          (* As an id: null, a plain string, or a number in range.  *)
  \/ Is(message.text, x, "null")
  \/ as_str(message.text, x).answer = "Ok"
  \/ parse_i64(message.text, x).answer = "Ok"

SameNumber ==
  /\ parse_i64(message.text, First("id")).answer = "Ok"
  /\ parse_i64(reply, <<1, Len(reply) + 1>>) = parse_i64(message.text, First("id"))

(* A request is read as written: each field is the first member of that name at    *)
(* the top level, whatever is nested, quoted or named alike around it; it is         *)
(* refused for no other reason than a field that is missing or of the wrong kind,    *)
(* or a nesting beyond the cap (parse_request, "first occurrence wins"); and the     *)
(* response carries its id as it was sent, a string or null to the letter, a number   *)
(* as one that reads the same (respond_result).                                 *)
McpRoundTrip ==
  LET string(x) == as_str(message.text, x)
      ok == /\ message.tree[message.root].depth <= MAX_DEPTH + 1
            /\ Visible("jsonrpc") /\ string(First("jsonrpc")).answer = "Ok"
            /\ Is(message.text, string(First("jsonrpc")).str, "2.0")
            /\ Visible("method") /\ string(First("method")).answer = "Ok"
            /\ Visible("id") => Proper(First("id"))
  IN  result # Unread =>
        /\ (result.answer = "Ok") <=> ok
        /\ ok => /\ First("method") = <<result.method[1] - 1, result.method[2] + 1>>
                 /\ result.params = IF Visible("params") THEN First("params") ELSE None
                 /\ IF Visible("id") THEN reply = Said("id") \/ SameNumber
                                     ELSE reply = <<"null">>

=============================================================================
