------------------------------- MODULE MCFormats -------------------------------
EXTENDS Integers, Sequences, FiniteSets, SequencesExt, Http, Mcp, NativeModule,
        DriverManifest, DmaRings, SubmissionRing, ConsoleOut

(* Requests, their headers as [name, value, pad]: the caps are met exactly by a   *)
(* target of two symbols and by a padded Content-Length.                         *)
H(name, value, pad) == [name |-> <<name>>, value |-> value, pad |-> pad]
Req(method, target, headers, body) ==
  [method |-> method, target |-> target, headers |-> headers, body |-> body]

CL(n) == H("content-length", <<n>>, << >>)

Requests ==
  {Req("GET", <<"x">>, << >>, << >>),
   Req("GET", <<"x", "x">>, << >>, << >>),
   Req("POST", <<"x">>, <<CL("2")>>, CRLF),
   Req("POST", <<"x">>, <<H("content-length", <<"1">>, <<"SP">>)>>, <<"GET">>),
   Req("POST", <<"x">>, <<H("x", <<"x">>, << >>), CL("2")>>, <<"GET", "SP">>),
   Req("POST", <<"x">>, <<CL("0"), H("x", <<":">>, <<"HT">>)>>, << >>),
   Req("DELETE", <<"x">>, <<H("x", << >>, << >>)>>, << >>)}

Symbols  == {"GET", "x", "SP", "CR", "LF", ":", "content-length", "2"}
MCSymbol == Symbols \cup Methods \cup Versions \cup Blank \cup DOMAIN Digit
Spoilt(wire) == UNION {{[wire EXCEPT ![i] = c] : c \in Symbols} : i \in DOMAIN wire}

Overfull == Req("GET", <<"x">>, [i \in 1 .. 3 |-> H("x", <<"x">>, << >>)], << >>)

MCStreams ==
  {[sent |-> <<r, q>>, wire |-> Render(r) \o Render(q)] : r, q \in Requests}
    \cup {[wire |-> w] : w \in UNION {Spoilt(Render(r)) : r \in Requests \cup {Overfull}}}

-----------------------------------------------------------------------------
(* Texts with their trees: a leaf, and an array or object of parts, each a key and a   *)
(* value, with ws around whatever may have it.                                  *)
S(word) == <<"q", word, "q">>

Leaf(text) == [text |-> text, tree |-> <<1, Len(text) + 1>> :> [depth |-> 1, items |-> << >>]]

Moved(value, by) ==
  [v \in {<<x[1] + by, x[2] + by>> : x \in DOMAIN value.tree} |->
     LET y == value.tree[<<v[1] - by, v[2] - by>>]
     IN  [y EXCEPT !.items = [k \in DOMAIN @ |-> [f \in DOMAIN @[k] |-> @[k][f] + by]]]]

Depth(value) == value.tree[<<1, Len(value.text) + 1>>].depth

Box(open, parts, ws) ==
  LET w == Len(ws)
      colon == IF open = "{" THEN ws \o <<":">> \o ws ELSE << >>
      item[k \in 1 .. Len(parts)] ==
        LET at   == IF k = 1 THEN 2 ELSE item[k - 1].comma + 1 + w
            end  == at + Len(parts[k].key)
            from == end + Len(colon)
            to   == from + Len(parts[k].value.text)
        IN  [at |-> at, end |-> end, colon |-> end + w, from |-> from, to |-> to, comma |-> to + w]
      text == <<open>> \o FlattenSeq([k \in DOMAIN parts |->
                            (IF k = 1 THEN << >> ELSE <<",">> \o ws)
                              \o parts[k].key \o colon \o parts[k].value.text \o ws])
                \o <<Close(open)>>
      depths == {Depth(parts[k].value) : k \in DOMAIN parts}
  IN  [text |-> text,
       tree |-> FoldLeft(LAMBDA t, k : t @@ Moved(parts[k].value, item[k].from - 1),
                  <<1, Len(text) + 1>> :> [depth |-> 1 + Max(depths \cup {0}),
                                           items |-> [k \in DOMAIN parts |-> item[k]]],
                  [k \in DOMAIN parts |-> k])]

(* Members: values of every kind, quoted and nested look-alikes among them; 11 is  *)
(* the largest number, and two digits the most.                                *)
M(key, value) == [key |-> S(key), value |-> value]
Inside(value) == [key |-> << >>, value |-> value]
One  == Leaf(<<"1">>)
List == Box("[", <<Inside(One)>>, << >>)

Members ==
  {M("jsonrpc", Leaf(S("2.0"))), M("jsonrpc", One), M("method", Leaf(S("m"))),
   M("method", Leaf(S("esc"))), M("id", Leaf(<<"0", "7">>)), M("id", Leaf(<<"-", "1", "1">>)),
   M("id", Leaf(<<"1", "7">>)), M("id", Leaf(<<"-", "0">>)), M("id", Leaf(S("id"))),
   M("id", Leaf(<<"null">>)), M("params", Box("{", <<M("id", One), M("x", One)>>, << >>)),
   M("params", Box("[", <<Inside(List)>>, << >>)), M("x", Leaf(S("}"))),
   M("x", Box("[", << >>, << >>)), M("esc", Leaf(S(",")))}

MCToken == {"q", "{", "}", "[", "]", ",", ":", "ws", "esc", "null", "-", "jsonrpc", "2.0", "method",
            "m", "id", "params", "x", "0", "1", "7"}

Text(doc, ws) ==
  LET object == Box("{", doc, ws)
  IN  [text |-> ws \o object.text \o ws, tree |-> Moved(object, Len(ws)),
       root |-> <<Len(ws) + 1, Len(ws) + Len(object.text) + 1>>]

Request == <<M("jsonrpc", Leaf(S("2.0"))), M("method", Leaf(S("m")))>>

MCMessages ==
  {Text(doc, ws) :
     doc \in UNION {[1 .. n -> Members] : n \in 2 .. 3} \cup {Request \o d : d \in [1 .. 2 -> Members]},
     ws \in {<< >>, <<"ws">>}}

-----------------------------------------------------------------------------
(* Native modules with a header of 1 and entries of 1: every range may touch the    *)
(* table, the end, or go beyond either.                                        *)
Entry(k, o, l) == [kind |-> k, offset |-> o, len |-> l]
Native(table, total, size) ==
  [size |-> size, magic |-> "WNM", version |-> 1, count |-> Len(table),
   total |-> total, table |-> table]

GoodNative == Native(<<Entry(4, 4, 2), Entry(1, 4, 1), Entry(3, 5, 1)>>, 6, 6)

MCNatives ==
  {Native(t, total, size) :
     t \in [1 .. 3 -> {Entry(k, o, l) : k \in {0, 1, 3, 4}, o \in {3, 4}, l \in {1, 2}}],
     total \in {5, 6}, size \in {5, 6}}
  \cup {[GoodNative EXCEPT !.magic = "WDM"], [GoodNative EXCEPT !.version = 2],
         [GoodNative EXCEPT !.size = 0], [GoodNative EXCEPT !.count = 5]}
  \cup {Native(t, 7, 7) : t \in [1 .. 4 -> {Entry(k, o, 1) : k \in 1 .. 4, o \in {5, 7}}]}

(* Wasm modules: manifests, good, spoilt or too short for their counts, and sections  *)
(* that hold what looks like one; the long one has a length of two bytes.             *)
Section(id, name, payload) == [id |-> id, name |-> name, payload |-> payload]
Manifest(payload) == Section(0, <<5>>, payload)
Good == <<6, 2, 1, 1, 1, 3, 2>>

Sections ==
  {Manifest(Good), Manifest(<<6, 2, 2, 0, 1, 2, 0, 0>>), Manifest(<<6, 2, 0, 1, 1>>),
   Manifest(<<6, 1, 0, 0>>), Manifest(<<6, 2, 1, 0, 3>>), Section(1, << >>, << >>),
   Section(1, << >>, Encoded(Manifest(Good))), Section(0, <<4>>, Encoded(Manifest(Good))),
   Section(0, << >>, <<5>>)}

MCWasms ==
  UNION {{[doc |-> d, cut |-> c] : c \in 0 .. Len(Encoding(d))} :
           d \in UNION {[1 .. n -> Sections] : n \in 0 .. 2}}

(* Two entries, whose handle is good, spoilt or none; the token of the first is       *)
(* itself an entry, should its completion come to lie over the second.                *)
MCRingMemories ==
  {<<a, 0, 2, 0, 0, b, 0, 24, 0, 0, 0, 0, 0>> : a \in {1, 2, 6}, b \in {1, 2, 3, 5, 6, 18}}

MCHandleTables == {(0 :> "good") @@ (1 :> s) : s \in {"empty", "stale", "other", "blind"}}

-----------------------------------------------------------------------------
(* Texts too long for one call or just right, and calls with something wrong.          *)
Text1 == [fd |-> 1, iovs |-> 1, iov_ok |-> TRUE, buf_ok |-> TRUE, out_ok |-> TRUE,
          bytes |-> <<1, 2, 3, 4>>]

MCCalls ==
  {Text1, [Text1 EXCEPT !.bytes = <<5, 6>>], [Text1 EXCEPT !.bytes = << >>],
   [Text1 EXCEPT !.fd = 2], [Text1 EXCEPT !.iovs = 0], [Text1 EXCEPT !.iov_ok = FALSE],
   [Text1 EXCEPT !.buf_ok = FALSE], [Text1 EXCEPT !.out_ok = FALSE]}

-----------------------------------------------------------------------------
(* One of the formats, or a driver or a module with its rings; the others at rest.    *)
HttpRest == stream = [wire |-> << >>] /\ taken = 0 /\ buf = << >> /\ served = << >> /\ refused = "no"
McpRest  == message = << >> /\ result = Unread /\ reply = << >>
NativeRest == native = << >> /\ plan = Unplanned
FileRest == file = << >> /\ loaded = NotYet
DmaRest  == /\ board = "qemu" /\ held = {} /\ mem_len = 0 /\ store = NoStore /\ access = NoAccess
            /\ dma_rings = [r \in Rings |-> NoRing] /\ device = [r \in Rings |-> NoQueue]

RingRest == /\ lin_mem = << >> /\ handles = << >> /\ signals = FALSE
            /\ ring_desc = NoRingDesc /\ drain = NotDraining /\ decided = << >>

ConsoleRest ==
  /\ UART_REG_STRIDE = 0 /\ stdout = FALSE /\ receives = FALSE
  /\ left = << >> /\ polled = FALSE /\ line = 0
  /\ call = NoCall /\ answer = Returned("none yet", 0) /\ uart = Quiet
  /\ handed = [tenant |-> << >>, kernel |-> 0]

vars == <<httpVars, mcpVars, nativeVars, fileVars, dmaVars, ringVars, consoleVars>>

Init ==
  \/ HttpInit /\ McpRest /\ NativeRest /\ FileRest /\ DmaRest /\ RingRest /\ ConsoleRest
  \/ McpInit /\ HttpRest /\ NativeRest /\ FileRest /\ DmaRest /\ RingRest /\ ConsoleRest
  \/ NativeInit /\ HttpRest /\ McpRest /\ FileRest /\ DmaRest /\ RingRest /\ ConsoleRest
  \/ ManifestInit /\ HttpRest /\ McpRest /\ NativeRest /\ DmaRest /\ RingRest /\ ConsoleRest
  \/ DmaInit /\ HttpRest /\ McpRest /\ NativeRest /\ FileRest /\ RingRest /\ ConsoleRest
  \/ RingInit /\ HttpRest /\ McpRest /\ NativeRest /\ FileRest /\ DmaRest /\ ConsoleRest
  \/ ConsoleInit /\ HttpRest /\ McpRest /\ NativeRest /\ FileRest /\ DmaRest /\ RingRest

Next ==
  \/ HttpNext /\ UNCHANGED <<mcpVars, nativeVars, fileVars, dmaVars, ringVars, consoleVars>>
  \/ /\ message # << >>
     /\ McpNext /\ UNCHANGED <<httpVars, nativeVars, fileVars, dmaVars, ringVars, consoleVars>>
  \/ /\ native # << >>
     /\ NativeNext /\ UNCHANGED <<httpVars, mcpVars, fileVars, dmaVars, ringVars, consoleVars>>
  \/ /\ file # << >>
     /\ ManifestNext /\ UNCHANGED <<httpVars, mcpVars, nativeVars, dmaVars, ringVars, consoleVars>>
  \/ DmaNext /\ UNCHANGED <<httpVars, mcpVars, nativeVars, fileVars, ringVars, consoleVars>>
  \/ /\ lin_mem # << >>
     /\ RingNext /\ UNCHANGED <<httpVars, mcpVars, nativeVars, fileVars, dmaVars, consoleVars>>
  \/ /\ UART_REG_STRIDE # 0
     /\ ConsoleNext /\ UNCHANGED <<httpVars, mcpVars, nativeVars, fileVars, dmaVars, ringVars>>

Spec == Init /\ [][Next]_vars

-----------------------------------------------------------------------------
(* Both loaders of signed files take from a container what it says, however it is    *)
(* cut or its ranges lie: a native module the ranges of its sections, a driver its     *)
(* manifest (wari-wnm load_plan, driver-iface find_section_payload).               *)
ContainersRead == PlanSound /\ ManifestFound

=============================================================================
