-------------------------------- MODULE Json --------------------------------
(***************************************************************************)
(* ext/json.c and ext/json-inline.h: reference-counted JSON values, the    *)
(* serializer, and the parser: a lexer that is given one character at a    *)
(* time and an LL(1) machine that builds values from its tokens.           *)
(*                                                                         *)
(* Values live in `jheap'; a reference to one is its address, and the      *)
(* constants of the code, which are not counted, are negative numbers.     *)
(* mowgli_json_parse_data keeps all of its state in the parser between two *)
(* characters, so giving a parser single characters covers every way to    *)
(* cut the input into calls.                                               *)
(*                                                                         *)
(* No function reads jref, the references the client holds; `lost' of a    *)
(* value, the references to it that were dropped without a decref; `read'  *)
(* and `toks' of a parser, the characters and the tokens it was given, and *)
(* `taken', the documents the client took from it; nor `want', the value   *)
(* whose text it is given.                                                 *)
(***************************************************************************)
EXTENDS Integers, Sequences, FiniteSetsExt, SequencesExt

CONSTANTS
  JMaxNodes,    \* bound: values in memory
  JChar,        \* characters of free input
  JMaxFree,     \* bound: characters of free input
  JText,        \* longer inputs
  JMaxMade,     \* bound: values in memory when the client makes or adds one
  JMaxHeld      \* bound: references the client holds

VARIABLES
  jheap,
  jp,           \* the parser that is in use: one of the client's, or
                \* static_parser during a call
  jstatic,      \* what static_parser has in its lists between two uses;
                \* the rest of it is reset before it is read
  jref

jsonVars == <<jheap, jp, jstatic, jref>>

JNode == 1..JMaxNodes
JNil == 0
JNull == -1
JTrue == -2
JFalse == -3
obj_start_marker == -4
arr_start_marker == -5

JFreed == [tag |-> "freed", ref |-> 0, val |-> 0, lost |-> 0]

-----------------------------------------------------------------------------
(* Values.                                                                 *)

JFree(h) == {n \in DOMAIN h : h[n].tag = "freed"}

\* where json_alloc puts the next value
JNew(h) == Min(JFree(h))

json_alloc(h, tag, val) ==
  [h EXCEPT ![JNew(h)] = [tag |-> tag, ref |-> 0, val |-> val, lost |-> 0]]

mowgli_json_incref(h, n) == IF n < 1 THEN h ELSE [h EXCEPT ![n].ref = @ + 1]

JLose(h, n) == IF n < 1 THEN h ELSE [h EXCEPT ![n].lost = @ + 1]

\* an array's elements, an object's values
JChildren(v) == CASE v.tag = "arr" -> v.val
                  [] v.tag = "obj" -> LET m == SetToSeq(v.val)
                                      IN  [i \in DOMAIN m |-> m[i][2]]
                  [] OTHER -> << >>

\* frees what is inside first
RECURSIVE mowgli_json_decref(_, _)
mowgli_json_decref(h, n) ==
  IF n < 1 THEN h
  ELSE IF h[n].ref > 1 THEN [h EXCEPT ![n].ref = @ - 1]
  ELSE [FoldLeft(mowgli_json_decref, h, JChildren(h[n])) EXCEPT ![n] = JFreed]

JTag(h, n) == IF n < 1 THEN "null" ELSE h[n].tag

\* puts it at the tail
Mutant_AddHead(h, a, n) == [mowgli_json_incref(h, n) EXCEPT ![a].val = Append(@, n)]

mowgli_json_array_add_head(h, a, n) ==
  [mowgli_json_incref(h, n) EXCEPT ![a].val = << n >> \o @]

mowgli_json_array_insert(h, a, n, pos) ==
  [mowgli_json_incref(h, n) EXCEPT ![a].val = InsertAt(@, pos, n)]

JKeys(v) == {m[1] : m \in v.val}

\* the trie refuses a key it has; the reference taken for it is not given back
mowgli_json_object_add(h, o, key, n) ==
  IF key \in JKeys(h[o]) THEN JLose(mowgli_json_incref(h, n), n)
  ELSE [mowgli_json_incref(h, n) EXCEPT ![o].val = @ \cup {<<key, n>>}]

\* A double: its sign, its decimal digits and the power of ten of the first
\* (JInf: infinite).  Zero has no sign.  bound: few digits, which a double
\* tells apart, and no denormals.
JInf == 999
JDouble(neg, digits, x) ==
  LET i == SelectInSeq(digits, LAMBDA c : c # "0")
  IN  IF i = 0 THEN <<FALSE, << >>, 0>>
      ELSE IF x - i + 1 > 308 THEN <<neg, <<"1">>, JInf>>
      ELSE <<neg, SubSeq(digits, i, SelectLastInSeq(digits, LAMBDA c : c # "0")), x - i + 1>>

\* an object's keys are C strings
JUpTo(s, c) == SubSeq(s, 1, SelectInSeq(Append(s, c), LAMBDA d : d = c) - 1)
JCString(s) == JUpTo(s, "NUL")

\* What a value stands for; the parser's markers have the tag of null.
RECURSIVE JTerm(_, _)
JTerm(h, n) ==
  CASE n = JTrue -> <<"true", 0>>
    [] n = JFalse -> <<"false", 0>>
    [] JTag(h, n) = "null" -> <<"null", 0>>
    [] JTag(h, n) \in {"int", "float"} -> <<h[n].tag, h[n].val>>
    [] JTag(h, n) = "str" -> <<"str", h[n].val>>
    [] JTag(h, n) = "arr" -> <<"arr", [i \in DOMAIN h[n].val |-> JTerm(h, h[n].val[i])]>>
    [] JTag(h, n) = "obj" -> <<"obj", {<<m[1], JTerm(h, m[2])>> : m \in h[n].val}>>

-----------------------------------------------------------------------------
(* Characters.  "NUL", "^" and "~" are the bytes 0, 1 and 255, which a \u  *)
(* gives; it is read by its last two digits.                               *)

JDigit == <<"0", "1", "2", "3", "4", "5", "6", "7", "8", "9">>
JIsDigit(c) == c \in ToSet(JDigit)
JIsAlpha(c) == c \in {"a", "b", "e", "f", "i", "l", "n", "r", "s", "t", "u", "E"}
JIsSpace(c) == c \in {" ", "\n", "\t"}
JDigitValue(c) == SelectInSeq(JDigit, LAMBDA d : d = c) - 1

\* how \ and a character after it are read, and which bytes are written so
JEscaped == [c \in {"\"", "\\", "/", "n", "t"} |->
               CASE c = "n" -> "\n" [] c = "t" -> "\t" [] OTHER -> c]
serialize_escape == {"\"", "\\", "\n", "\t"}
JByte == [c \in {"NUL", "^", "~"} |->
            CASE c = "NUL" -> <<"0", "0">> [] c = "^" -> <<"0", "1">> [] c = "~" -> <<"f", "f">>]

\* strchr finds 0 at the end of the string of the escapes, and the switch
\* passes it on as it is
serialize_char(c) ==
  CASE c \in serialize_escape ->
         <<"\\", CHOOSE e \in DOMAIN JEscaped : JEscaped[e] = c>>
    [] c = "NUL" -> <<"\\", c>>
    [] c \in {"^", "~"} -> <<"\\", "u", "0", "0">> \o JByte[c]
    [] OTHER -> <<c>>

serialize_string_data(s) ==
  <<"\"">> \o FlattenSeq([i \in DOMAIN s |-> serialize_char(s[i])]) \o <<"\"">>

\* the value's address is not known here: the characters of the string
RECURSIVE lex_string_scan(_)
lex_string_scan(s) ==
  CASE s = << >> -> << >>
    [] s # << >> /\ s[1] # "\\" -> <<s[1]>> \o lex_string_scan(Tail(s))
    [] s # << >> /\ s[1] = "\\" /\ s[2] = "u" ->
         <<CHOOSE c \in DOMAIN JByte : JByte[c] = SubSeq(s, 5, 6)>>
           \o lex_string_scan(SubSeq(s, 7, Len(s)))
    [] OTHER -> (IF s[2] \in DOMAIN JEscaped THEN <<JEscaped[s[2]]>> ELSE << >>)
                  \o lex_string_scan(SubSeq(s, 3, Len(s)))

\* strtol with base 0: a leading 0 makes it octal, and it stops at the first
\* character that is not a digit of the base.  bound: numbers that fit an int
JStrtol(s) ==
  LET neg == s # << >> /\ s[1] = "-"
      t == IF neg THEN Tail(s) ELSE s
      base == IF t # << >> /\ t[1] = "0" THEN 8 ELSE 10
      isD(c) == JIsDigit(c) /\ JDigitValue(c) < base
      n == SelectInSeq(t, LAMBDA c : ~isD(c))
      ds == IF n = 0 THEN t ELSE SubSeq(t, 1, n - 1)
      v == FoldLeft(LAMBDA acc, c : base * acc + JDigitValue(c), 0, ds)
  IN  IF neg THEN 0 - v ELSE v

\* strtod.  bound: texts of a sign, digits with a point among them, and an
\* exponent; any of them may be missing
JDecimal(t) == FoldLeft(LAMBDA acc, c : 10 * acc + JDigitValue(c), 0, t)
JStrtod(s) ==
  LET mantissa == JUpTo(s, "e")
      whole == SelectSeq(JUpTo(mantissa, "."), JIsDigit)
      exp == SubSeq(s, Len(mantissa) + 2, Len(s))
      e == JDecimal(SelectSeq(exp, JIsDigit))
  IN  JDouble(Head(s) = "-", SelectSeq(mantissa, JIsDigit),
              Len(whole) - 1 + (IF "-" \in ToSet(exp) THEN 0 - e ELSE e))

RECURSIVE JDigits(_)
JDigits(v) == IF v < 10 THEN <<JDigit[v + 1]>>
              ELSE Append(JDigits(v \div 10), JDigit[(v % 10) + 1])

JAbs(v) == IF v < 0 THEN 0 - v ELSE v
JSigned(neg, text) == IF neg THEN <<"-">> \o text ELSE text

serialize_int(v) == JSigned(v < 0, JDigits(JAbs(v)))

\* a double by its first six digits
JSix(v) ==
  LET up == IF JDigitValue(v[2][7]) >= 5 THEN 1 ELSE 0
      ds == JDigits(JDecimal(SubSeq(v[2], 1, 6)) + up)
  IN  IF Len(v[2]) <= 6 THEN v ELSE JDouble(v[1], ds, v[3] + Len(ds) - 6)

\* %g: six digits without the zeros at the end; with an exponent of a sign
\* and two digits or more when it is below -4 or above 5
serialize_float(v) ==
  LET six == JSix(v)
      d == six[2]
      x == six[3]
      xd == JDigits(JAbs(x))
      zeros(n) == [i \in 1..n |-> "0"]
      \* with a point after the first n
      Pointed(t, n) == IF n >= Len(t) THEN t
                       ELSE SubSeq(t, 1, n) \o <<".">> \o SubSeq(t, n + 1, Len(t))
  IN  JSigned(v[1],
        CASE d = << >> -> <<"0">>
          [] x = JInf -> <<"i", "n", "f">>
          [] d # << >> /\ x \in 0..5 -> Pointed(d \o zeros(x + 1 - Len(d)), x + 1)
          [] x \in -4..-1 -> Pointed(zeros(0 - x) \o d, 1)
          [] OTHER -> Pointed(d, 1) \o <<"e", IF x < 0 THEN "-" ELSE "+">>
                        \o zeros(2 - Len(xd)) \o xd)

serialize_pretty_indent(pretty) ==
  FlattenSeq([i \in 1..(4 * Max({pretty, 0})) |-> <<" ">>])
serialize_pretty_break(pretty) == IF pretty < 1 THEN << >> ELSE <<"\n">>
serialize_pretty_increment(pretty) == IF pretty > 0 THEN pretty + 1 ELSE 0

\* one element or member, with the comma that follows all but the last
JItem(text, more, pretty) ==
  serialize_pretty_indent(pretty) \o text \o (IF more THEN <<",">> ELSE << >>)
    \o serialize_pretty_break(pretty)

JBracket(open, items, close, pretty) ==
  <<open>> \o serialize_pretty_break(pretty) \o FlattenSeq(items)
    \o serialize_pretty_indent(pretty - 1) \o <<close>>

RECURSIVE mowgli_json_serialize(_, _, _)
mowgli_json_serialize(h, n, pretty) ==
  LET Sub(m) == mowgli_json_serialize(h, m, serialize_pretty_increment(pretty))
  IN  CASE n = JTrue -> <<"t", "r", "u", "e">>
        [] n = JFalse -> <<"f", "a", "l", "s", "e">>
        [] JTag(h, n) = "null" -> <<"n", "u", "l", "l">>
        [] JTag(h, n) = "int" -> serialize_int(h[n].val)
        [] JTag(h, n) = "float" -> serialize_float(h[n].val)
        [] JTag(h, n) = "str" -> serialize_string_data(h[n].val)
        [] JTag(h, n) = "arr" ->
             LET a == h[n].val
             IN  JBracket("[", [i \in DOMAIN a |-> JItem(Sub(a[i]), i < Len(a), pretty)],
                          "]", pretty)
        [] JTag(h, n) = "obj" ->
             LET m == SetToSeq(h[n].val)   \* the order of the trie
                 Member(i) == serialize_string_data(m[i][1]) \o <<":">>
                                \o (IF pretty > 0 THEN <<" ">> ELSE << >>) \o Sub(m[i][2])
             IN  JBracket("{", [i \in DOMAIN m |-> JItem(Member(i), i < Len(m), pretty)],
                          "}", pretty)

-----------------------------------------------------------------------------
(* The parser.  The operators below map a state s of parser and memory,    *)
(* [p, h], to the next one.                                                *)

NoParser == [on |-> FALSE]
JNoTerm == <<"none", 0>>
NoTok == [sym |-> "none", val |-> JNil]

\* What mowgli_json_parse_create makes, and reset.  again: the character
\* lex_char is to be given; tok: the token in ll_parse
JParser(multi) ==
  [on |-> TRUE, out |-> << >>, error |-> FALSE, multidoc |-> multi,
   build |-> << >>, stack |-> <<"document">>, buf |-> << >>, lex |-> "limbo",
   lex_u |-> 0, again |-> << >>, tok |-> NoTok, toks |-> << >>,
   taken |-> << >>, read |-> << >>, text |-> << >>, want |-> JNoTerm, static |-> FALSE]

\* static_parser, with the rest of the text it is given, a C string
JStaticParser(text, want) ==
  [JParser(FALSE) EXCEPT !.static = TRUE, !.text = JCString(text), !.want = want]

\* ll_table, ll_rules and ll_action: the rule for a symbol on the stack and
\* the tokens it is for
LLRule(sym, on, rhs, act) == [sym |-> sym, on |-> on, rhs |-> rhs, act |-> act]
JValues == {"{", "[", "STR", "NUM", "ID"}
ll_rules ==
  << LLRule("document", {"{"}, <<"object">>, "none"),
     LLRule("document", {"["}, <<"array">>, "none"),
     LLRule("value", {"{"}, <<"object">>, "none"),
     LLRule("value", {"["}, <<"array">>, "none"),
     LLRule("value", {"STR"}, <<"STR">>, "echo"),
     LLRule("value", {"NUM"}, <<"NUM">>, "echo"),
     LLRule("value", {"ID"}, <<"ID">>, "echo"),
     LLRule("object", {"{"}, <<"{", "obj_body">>, "obj_start"),
     LLRule("obj_body", {"}"}, <<"}">>, "obj_end"),
     LLRule("obj_body", {"STR"}, <<"obj_elems">>, "none"),
     LLRule("obj_elems", {"STR"}, <<"obj_elem", "obj_tail">>, "none"),
     LLRule("obj_tail", {","}, <<",", "obj_elems">>, "none"),
     LLRule("obj_tail", {"}"}, <<"}">>, "obj_end"),
     LLRule("obj_elem", {"STR"}, <<"STR", ":", "value">>, "echo"),
     LLRule("array", {"["}, <<"[", "arr_body">>, "arr_start"),
     LLRule("arr_body", {"]"}, <<"]">>, "arr_end"),
     LLRule("arr_body", JValues, <<"arr_elems">>, "none"),
     LLRule("arr_elems", JValues, <<"value", "arr_tail">>, "none"),
     LLRule("arr_tail", {","}, <<",", "arr_elems">>, "none"),
     LLRule("arr_tail", {"]"}, <<"]">>, "arr_end") >>

ll_build_push(s, n) == [s EXCEPT !.p.build = << n >> \o @]

\* forgets that the list keeps the value
Mutant_Echo(s, tok) == ll_build_push(s, tok.val)

ll_act_echo(s, tok) == ll_build_push([s EXCEPT !.h = mowgli_json_incref(@, tok.val)], tok.val)

\* Takes members from the top of the build list until the marker; `obj' is
\* the new object.  The breaks that "should never happen" are taken when a
\* character is read again after an error: see JLexChar.
RECURSIVE JMembers(_, _)
JMembers(s, obj) ==
  LET b == s.p.build
      val == b[1]
      key == b[2]
      Take(n, h) == [s EXCEPT !.p.build = SubSeq(@, n + 1, Len(@)), !.h = h]
  IN  IF val = obj_start_marker THEN Take(1, s.h)
      ELSE IF JTag(s.h, key) # "str"
      THEN Take(2, JLose(JLose(s.h, val), key))
      ELSE LET h1 == mowgli_json_object_add(s.h, obj, JCString(s.h[key].val), val)
               h2 == mowgli_json_decref(h1, key)
           IN  JMembers(Take(2, mowgli_json_decref(h2, val)), obj)

ll_act_obj_end(s) ==
  LET obj == JNew(s.h)
      h == mowgli_json_incref(json_alloc(s.h, "obj", {}), obj)
  IN  ll_build_push(JMembers([s EXCEPT !.h = h], obj), obj)

\* the elements above the marker, each put at the head of the array
ll_act_arr_end(s) ==
  LET arr == JNew(s.h)
      h == mowgli_json_incref(json_alloc(s.h, "arr", << >>), arr)
      k == SelectInSeq(s.p.build, LAMBDA n : n = arr_start_marker)
      Put(g, n) == mowgli_json_decref(mowgli_json_array_add_head(g, arr, n), n)
  IN  ll_build_push([s EXCEPT !.h = FoldLeft(Put, h, SubSeq(s.p.build, 1, k - 1)),
                              !.p.build = SubSeq(@, k + 1, Len(@))], arr)

LLAct(s, act, tok) ==
  CASE act = "none" -> s
    [] act = "echo" -> ll_act_echo(s, tok)
    [] act = "obj_start" -> ll_build_push(s, obj_start_marker)
    [] act = "arr_start" -> ll_build_push(s, arr_start_marker)
    [] act = "obj_end" -> ll_act_obj_end(s)
    [] act = "arr_end" -> ll_act_arr_end(s)

\* the token is freed, and its reference with it
LLDone(s) == [s EXCEPT !.h = mowgli_json_decref(@, s.p.tok.val), !.p.tok = NoTok]

parse_error(s) == [s EXCEPT !.p.error = TRUE]

\* a document is complete
ll_cycle(s) ==
  [s EXCEPT !.p.out = IF s.p.build = << >> THEN @ ELSE Append(@, Head(s.p.build)),
            !.p.build = IF @ = << >> THEN @ ELSE Tail(@),
            !.p.stack = IF s.p.multidoc THEN <<"document">> ELSE << >>]

\* one turn of the loop of ll_parse; the head of `stack' is its top
LLStep(s) ==
  LET top == Head(s.p.stack)
      tok == s.p.tok
      popped == [s EXCEPT !.p.stack = Tail(@)]
      rules == SelectSeq(ll_rules, LAMBDA r : r.sym = top /\ tok.sym \in r.on)
  IN  IF s.p.stack = << >> THEN LLDone(parse_error(s))
      ELSE IF top = tok.sym
      THEN LLDone(IF popped.p.stack = << >> THEN ll_cycle(popped) ELSE popped)
      ELSE IF rules = << >> THEN LLDone(parse_error(popped))
      ELSE [LLAct(popped, rules[1].act, tok) EXCEPT !.p.stack = rules[1].rhs \o @]

JIdentifier(b) == CASE b = <<"t", "r", "u", "e">> -> JTrue
                    [] b = <<"f", "a", "l", "s", "e">> -> JFalse
                    [] OTHER -> JNull

\* What lex_char does with a character, for lex state `lex' and buffer `b':
\* the new lex state and buffer, the token it passes on (none: "") with the
\* value that is made for it (none: the tag ""), whether it is an error and
\* whether the character is to be given to it again.
JLexed == [lex |-> "limbo", buf |-> << >>, sym |-> "", tag |-> "", val |-> 0,
           error |-> FALSE, again |-> FALSE]

JLexTo(lex, b) == [JLexed EXCEPT !.lex = lex, !.buf = b]

lex_tokenize(lex, b) ==
  CASE lex = "string" -> [JLexed EXCEPT !.sym = "STR", !.tag = "str", !.val = lex_string_scan(b)]
    [] lex = "number" /\ ToSet(b) \cap {".", "e"} # {} ->
         [JLexed EXCEPT !.sym = "NUM", !.tag = "float", !.val = JStrtod(b)]
    [] lex = "number" /\ ToSet(b) \cap {".", "e"} = {} ->
         [JLexed EXCEPT !.sym = "NUM", !.tag = "int", !.val = JStrtol(b)]
    [] lex = "identifier" -> [JLexed EXCEPT !.sym = "ID", !.val = JIdentifier(b)]

\* takes the character that ends a number or an identifier for part of it
Mutant_Again(l) == l

JAgain(l) == [l EXCEPT !.again = TRUE]

lex_char(lex, b, u, c) ==
  CASE lex = "limbo" ->
         IF c \in {"{", "}", "[", "]", ":", ","} THEN [JLexed EXCEPT !.sym = c]
         ELSE IF c \in {"-", "."} \/ JIsDigit(c) THEN JAgain(JLexTo("number", b))
         ELSE IF JIsAlpha(c) THEN JAgain(JLexTo("identifier", b))
         ELSE IF c = "\"" THEN JLexTo("string", b)
         ELSE [JLexTo("limbo", b) EXCEPT !.error = ~JIsSpace(c)]
    [] lex = "string" ->
         IF c = "\\" THEN JLexTo("string_esc", Append(b, c))
         ELSE IF c = "\"" THEN lex_tokenize(lex, b)
         ELSE JLexTo("string", Append(b, c))
    [] lex = "string_esc" ->
         JLexTo(IF c = "u" THEN "string_esc_u" ELSE "string", Append(b, c))
    [] lex = "string_esc_u" ->
         JLexTo(IF u + 1 >= 4 THEN "string" ELSE "string_esc_u", Append(b, c))
    [] lex = "number" ->
         IF c \in {"-", ".", "e", "E"} \/ JIsDigit(c) THEN JLexTo(lex, Append(b, c))
         ELSE JAgain(lex_tokenize(lex, b))
    [] lex = "identifier" ->
         IF JIsAlpha(c) THEN JLexTo(lex, Append(b, c)) ELSE JAgain(lex_tokenize(lex, b))

\* one call of lex_char, up to its call of ll_parse
JLexStep(s, c) ==
  LET p == s.p
      l == lex_char(p.lex, p.buf, p.lex_u, c)
      new == IF l.tag = "" THEN l.val ELSE JNew(s.h)
      h == IF l.tag = "" THEN s.h ELSE mowgli_json_incref(json_alloc(s.h, l.tag, l.val), new)
  IN  [p |-> [p EXCEPT !.lex = l.lex, !.buf = l.buf, !.error = @ \/ l.error,
                       !.lex_u = IF p.lex = "string_esc_u" THEN @ + 1 ELSE 0,
                       !.again = IF l.again THEN <<c>> ELSE << >>,
                       !.tok = IF l.sym = "" THEN @ ELSE [sym |-> l.sym, val |-> new],
                       !.toks = IF l.sym = "" THEN @ ELSE Append(@, <<l.sym, JTerm(h, new)>>)],
       h |-> h]

\* what reset and destroy give back
JDropAll(h, held) == FoldLeft(mowgli_json_decref, h, held)

-----------------------------------------------------------------------------
(* Operations.                                                             *)

JsonInit ==
  /\ jheap = [n \in JNode |-> JFreed]
  /\ jp = NoParser
  /\ jstatic = << >>
  /\ jref = [n \in JNode |-> 0]

JSet(s) == jp' = s.p /\ jheap' = s.h
JNow == [p |-> jp, h |-> jheap]

JHolds(n) == jref[n] > 0
JHoldsNone == \A n \in JNode : ~JHolds(n)
JHeld == FoldFunction(+, 0, jref)
JMayHold == JHeld < JMaxHeld

JUsed == Cardinality(JNode \ JFree(jheap))

\* The client acts when no call is under way.  bounds: it makes and changes
\* values while it has no parser, there are few and none have been lost; it
\* gives its parser input while only the parser has values
JIdle == jp.on => jp.again = << >> /\ jp.tok = NoTok /\ ~jp.static
JNoneLost == \A n \in JNode : jheap[n].lost = 0
JAlone == ~jp.on /\ JNoneLost /\ JUsed <= JMaxMade
JQuiet == jstatic = << >> /\ JNoneLost /\ JHoldsNone

mowgli_json_parse_create(multi) ==
  /\ ~jp.on /\ JHoldsNone
  /\ jp' = JParser(multi)
  /\ UNCHANGED <<jheap, jstatic, jref>>

mowgli_json_parse_destroy ==
  /\ jp.on /\ JIdle
  /\ jheap' = JDropAll(jheap, jp.out \o jp.build)
  /\ jp' = NoParser
  /\ UNCHANGED <<jstatic, jref>>

mowgli_json_parse_reset(multi) ==
  /\ jp.on /\ JIdle
  /\ jheap' = JDropAll(jheap, jp.out \o jp.build)
  /\ jp' = JParser(multi)
  /\ UNCHANGED <<jstatic, jref>>

\* a character makes at most two values, the one before it and an array or
\* object that it ends
JRoom == Cardinality(JFree(jheap)) >= 2

\* the loop of mowgli_json_parse_data takes the next character
mowgli_json_parse_data(c) ==
  /\ jp.on /\ JIdle /\ ~jp.error /\ JRoom /\ JQuiet
  /\ LET r == Append(jp.read, c)
     IN  /\ \/ Len(r) <= JMaxFree /\ ToSet(r) \subseteq JChar
            \/ \E t \in JText : IsPrefix(r, t)
         /\ jp' = [jp EXCEPT !.read = r, !.again = <<c>>]
  /\ UNCHANGED <<jheap, jstatic, jref>>

\* and calls lex_char until it does not want the character again, whether or
\* not there has been an error
JLexChar ==
  /\ jp.on /\ jp.again # << >> /\ jp.tok = NoTok
  /\ JSet(JLexStep(JNow, jp.again[1]))
  /\ UNCHANGED <<jstatic, jref>>

\* with the token it has made
ll_parse ==
  /\ jp.on /\ jp.tok # NoTok
  /\ JSet(LLStep(JNow))
  /\ UNCHANGED <<jstatic, jref>>

\* the queue's reference becomes the client's
mowgli_json_parse_next ==
  /\ jp.on /\ JIdle /\ jp.out # << >> /\ JMayHold
  /\ jp' = [jp EXCEPT !.out = Tail(@), !.taken = Append(@, JTerm(jheap, Head(jp.out)))]
  /\ jref' = [jref EXCEPT ![Head(jp.out)] = @ + 1]
  /\ UNCHANGED <<jheap, jstatic>>

\* static_parser is reset, which frees what it held, and given a text: one
\* of JText, that of a document the client has, or none, as when
\* mowgli_json_parse_file cannot open its file
mowgli_json_parse_string ==
  /\ ~jp.on
  /\ LET h == JDropAll(jheap, jstatic)
     IN  /\ Cardinality(JFree(h)) >= 5
         /\ jheap' = h
         /\ \/ /\ JFree(h) = JNode
               /\ \E text \in JText \cup {<< >>} : jp' = JStaticParser(text, JNoTerm)
            \/ \E n \in JNode, pretty \in {0, 1} :
                 /\ JHolds(n) /\ h[n].tag \in {"arr", "obj"} /\ JHeld = 1 /\ JNoneLost
                 /\ jp' = JStaticParser(mowgli_json_serialize(h, n, pretty), JTerm(h, n))
  /\ jstatic' = << >>
  /\ UNCHANGED jref

JStaticData ==
  /\ jp.on /\ jp.static /\ jp.again = << >> /\ jp.tok = NoTok
  /\ jp.text # << >> /\ ~jp.error
  /\ jp' = [jp EXCEPT !.text = Tail(@), !.again = <<Head(jp.text)>>]
  /\ UNCHANGED <<jheap, jstatic, jref>>

JStaticAtEnd == /\ jp.on /\ jp.static /\ jp.again = << >> /\ jp.tok = NoTok
                /\ jp.text = << >> \/ jp.error

\* the client is given the document, or NULL
JStaticReturn ==
  /\ JStaticAtEnd
  /\ LET give == ~jp.error /\ jp.out # << >>
     IN  /\ jstatic' = (IF give THEN Tail(jp.out) ELSE jp.out) \o jp.build
         /\ jref' = IF give THEN [jref EXCEPT ![Head(jp.out)] = @ + 1] ELSE jref
  /\ jp' = NoParser
  /\ UNCHANGED jheap

\* the ways a client makes a value its own and gives it up

JCreate ==
  /\ JAlone /\ JUsed < JMaxMade /\ JMayHold
  /\ \E v \in {<<"int", 1>>, <<"arr", << >>>>, <<"obj", {}>>} :
       jheap' = mowgli_json_incref(json_alloc(jheap, v[1], v[2]), JNew(jheap))
  /\ jref' = [jref EXCEPT ![JNew(jheap)] = @ + 1]
  /\ UNCHANGED <<jp, jstatic>>

JHold(n) ==
  /\ JAlone /\ JHolds(n) /\ JMayHold
  /\ jheap' = mowgli_json_incref(jheap, n)
  /\ jref' = [jref EXCEPT ![n] = @ + 1]
  /\ UNCHANGED <<jp, jstatic>>

JRelease(n) ==
  /\ JIdle /\ JHolds(n)
  /\ jheap' = mowgli_json_decref(jheap, n)
  /\ jref' = [jref EXCEPT ![n] = @ - 1]
  /\ UNCHANGED <<jp, jstatic>>

\* a value inside itself is the programmer's fault, says json.h
RECURSIVE JInside(_, _)
JInside(n, m) == n = m \/ \E c \in ToSet(JChildren(jheap[n])) \cap JNode : JInside(c, m)

\* mowgli_json_array_add, _add_head and _insert of a value that is the
\* client's, or of one made for it
JArrayAdd(a, n) ==
  /\ JAlone /\ JHolds(a) /\ jheap[a].tag = "arr" /\ Len(jheap[a].val) < 2
  /\ \/ /\ JHolds(n) /\ ~JInside(n, a)
        /\ \E pos \in 1..(Len(jheap[a].val) + 1) :
             jheap' = mowgli_json_array_insert(jheap, a, n, pos)
     \/ /\ JUsed < JMaxMade /\ n = JNew(jheap)
        /\ jheap' = mowgli_json_array_add_head(json_alloc(jheap, "int", 1), a, n)
  /\ UNCHANGED <<jp, jstatic, jref>>

\* the first place it is at
mowgli_json_array_delete(a, n) ==
  /\ JAlone /\ JHolds(a) /\ jheap[a].tag = "arr" /\ n \in ToSet(jheap[a].val)
  /\ jheap' = mowgli_json_decref([jheap EXCEPT ![a].val = RemoveFirst(@, n)], n)
  /\ UNCHANGED <<jp, jstatic, jref>>

JObjectAdd(o, n) ==
  /\ JAlone /\ JHolds(o) /\ jheap[o].tag = "obj" /\ Cardinality(jheap[o].val) < 2
  /\ JHolds(n) /\ ~JInside(n, o)
  /\ jheap' = mowgli_json_object_add(jheap, o, <<"a">>, n)
  /\ UNCHANGED <<jp, jstatic, jref>>

\* gives the object's reference to the caller
mowgli_json_object_delete(o, n) ==
  /\ JAlone /\ JHolds(o) /\ jheap[o].tag = "obj" /\ JMayHold
  /\ \E m \in jheap[o].val : /\ m[2] = n
                             /\ jheap' = [jheap EXCEPT ![o].val = @ \ {m}]
  /\ jref' = [jref EXCEPT ![n] = @ + 1]
  /\ UNCHANGED <<jp, jstatic>>

JsonNext ==
  \/ \E multi \in BOOLEAN : \/ mowgli_json_parse_create(multi)
                            \/ mowgli_json_parse_reset(multi)
  \/ mowgli_json_parse_destroy
  \/ \E c \in JChar \cup UNION {ToSet(t) : t \in JText} : mowgli_json_parse_data(c)
  \/ JLexChar
  \/ ll_parse
  \/ mowgli_json_parse_next
  \/ mowgli_json_parse_string
  \/ JStaticData
  \/ JStaticReturn
  \/ JCreate
  \/ \E n \in JNode :
       \/ JHold(n)
       \/ JRelease(n)
       \/ \E a \in JNode : \/ JArrayAdd(a, n)
                           \/ mowgli_json_array_delete(a, n)
                           \/ JObjectAdd(a, n)
                           \/ mowgli_json_object_delete(a, n)

JsonSpec == JsonInit /\ [][JsonNext]_jsonVars

-----------------------------------------------------------------------------
(* Properties.                                                             *)

\* how often a reference to n is kept in values, parsers and the client
JCount(n, s) == Cardinality({i \in DOMAIN s : s[i] = n})
JHolders(n) ==
  LET kids == [m \in JNode |-> JCount(n, JChildren(jheap[m]))]
      kept == IF jp.on THEN JCount(n, jp.out \o jp.build \o <<jp.tok.val>>) ELSE 0
  IN  jref[n] + kept + JCount(n, jstatic) + FoldFunction(+, 0, kids)

\* What a value's count says is how many keep it: whatever sequence of
\* parsing, errors, resets and container calls led there, a value that is
\* kept somewhere has not been freed, one that nobody keeps has been, and
\* only references to members whose key was there already, and to what a
\* character read after an error throws away, are never given back.
JsonRefs ==
  \A n \in JNode : jheap[n].ref = JHolders(n) + jheap[n].lost

\* What the parser makes of a number or a string that the serializer wrote
JReadBack(t) == CASE t[1] = "int" -> LET ds == JDigits(JAbs(t[2]))
                                    IN  <<"num", JDouble(t[2] < 0, ds, Len(ds) - 1)>>
                  [] t[1] = "float" /\ t[2][3] # JInf -> <<"num", JSix(t[2])>>
                  [] t[1] = "float" /\ t[2][3] = JInf -> <<"null", 0>>
                  [] OTHER -> t

\* The members of an array or object, with those of its members
RECURSIVE JLeaves(_)
JLeaves(t) == CASE t[1] = "arr" -> UNION {JLeaves(t[2][i]) : i \in DOMAIN t[2]}
                [] t[1] = "obj" -> UNION {JLeaves(m[2]) : m \in t[2]}
                [] OTHER -> {t}
RECURSIVE JSame(_, _)
JSame(got, want) ==
  CASE want[1] = "arr" -> /\ got[1] = "arr" /\ Len(got[2]) = Len(want[2])
                          /\ \A i \in DOMAIN want[2] : JSame(got[2][i], want[2][i])
    [] want[1] = "obj" -> /\ got[1] = "obj" /\ JKeys([val |-> got[2]]) = JKeys([val |-> want[2]])
                          /\ \A g \in got[2], w \in want[2] : g[1] = w[1] => JSame(g[2], w[2])
    [] OTHER -> JReadBack(got) = JReadBack(want)

\* %g writes a "+" or a sign without a number, which the lexer does not take;
\* a string has a byte 0, where the text ends for mowgli_json_parse_string
JUnreadable(t) ==
  \/ t[1] = "float" /\ IF t[2][3] = JInf THEN t[2][1] ELSE JSix(t[2])[3] > 5
  \/ t[1] = "str" /\ "NUL" \in ToSet(t[2])

\* What the serializer writes of an array or an object, plain or pretty, the
\* parser reads back as one document with the same value, up to what %g
\* keeps of a float: its first six digits, nothing of an infinity (null),
\* and not that a whole one was a float.  It reads back none exactly when a
\* float inside is a million or more, or minus infinity, or a string has a
\* byte 0; it never reads another value.
JsonRoundTrip ==
  JStaticAtEnd /\ jp.want # JNoTerm =>
    IF \E t \in JLeaves(jp.want) : JUnreadable(t) THEN jp.error \/ jp.out = << >>
    ELSE ~jp.error /\ Len(jp.out) = 1 /\ JSame(JTerm(jheap, jp.out[1]), jp.want)

\* The grammar of JSON, by brackets and commas rather than by rules.  A
\* value that is not one is <<"bad", 0>>.
JBad == <<"bad", 0>>
JDepth(t, k) ==
  LET At(S) == Cardinality({i \in 1..k : t[i][1] \in S}) IN At({"{", "["}) - At({"}", "]"})
\* the parts between commas outside of all brackets
JSplit(t) ==
  LET cuts == <<0>> \o SetToSortSeq({k \in DOMAIN t : t[k][1] = "," /\ JDepth(t, k) = 0}, <)
                \o <<Len(t) + 1>>
  IN  [i \in 1..(Len(cuts) - 1) |-> SubSeq(t, cuts[i] + 1, cuts[i + 1] - 1)]

RECURSIVE JMeaning(_)
JMeaning(t) ==
  LET inner == SubSeq(t, 2, Len(t) - 1)
      parts == IF inner = << >> THEN << >> ELSE JSplit(inner)
      IsMember(m) == Len(m) > 2 /\ m[1][1] = "STR" /\ m[2][1] = ":"
      off == IF t[1][1] = "{" THEN 3 ELSE 1
      v == [i \in DOMAIN parts |-> JMeaning(SubSeq(parts[i], off, Len(parts[i])))]
      bad == \E i \in DOMAIN v : v[i][1] = "bad"
  IN  CASE Len(t) = 1 /\ t[1][1] \in {"STR", "NUM", "ID"} -> t[1][2]
        [] Len(t) > 1 /\ t[1][1] = "[" /\ Last(t)[1] = "]" /\ ~bad -> <<"arr", v>>
        [] Len(t) > 1 /\ t[1][1] = "{" /\ Last(t)[1] = "}" /\ ~bad
             /\ (\A i \in DOMAIN parts : IsMember(parts[i])) ->
             LET Key(i) == JCString(parts[i][1][2][2])
             IN  <<"obj", {<<Key(i), v[i]>> : i \in
                             {j \in DOMAIN parts : \A k \in (j + 1)..Len(parts) :
                                                     Key(k) # Key(j)}}>>
        [] OTHER -> JBad

\* the documents in a list of tokens: it ends one wherever no bracket is open
JDocuments(t) ==
  LET ends == SetToSortSeq({k \in DOMAIN t : JDepth(t, k) = 0}, <)
  IN  [i \in DOMAIN ends |->
         JMeaning(SubSeq(t, IF i = 1 THEN 1 ELSE ends[i - 1] + 1, ends[i]))]

\* While a parser reports no error it has delivered, in order, exactly the
\* documents that the tokens so far stand for (the last of the members with
\* one key), at most one if it was made for one, however the input was cut;
\* and its stack is no deeper than the open brackets and two.
JsonExact ==
  jp.on /\ jp.tok = NoTok /\ ~jp.error =>
    /\ JDocuments(jp.toks) = jp.taken \o [i \in DOMAIN jp.out |-> JTerm(jheap, jp.out[i])]
    /\ ~jp.multidoc => Len(JDocuments(jp.toks)) <= 1
    /\ Len(jp.stack) <= JDepth(jp.toks, Len(jp.toks)) + 2
=============================================================================
