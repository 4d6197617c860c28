---------------------------------- MODULE Json ----------------------------------
(***************************************************************************)
(* The JSON reader of src/fileapi.rs over lexemes: the punctuation, a run  *)
(* of blanks, a whole string, number or literal.  A string is its path     *)
(* segments, or its date and time when it is fourteen digits.  A text that *)
(* ends inside a lexeme ends in a cut one.                                 *)
(***************************************************************************)
EXTENDS Integers, FiniteSetsExt, SequencesExt

CONSTANT MAX_DEPTH      \* 32 in the code

ASSUME JsonAssumption == MAX_DEPTH \in Nat \ {0}

Lexeme(type) == [t |-> type, s |-> <<>>, d |-> <<>>, n |-> 0]
Text(segments) == [Lexeme("string") EXCEPT !.s = segments]
Key(name) == Text(<<name>>)
Digits(fields) == [Lexeme("string") EXCEPT !.d = fields]
Number(n) == [Lexeme("number") EXCEPT !.n = n]
Fraction == Lexeme("fraction")      \* any number that is no i64
Literal(word) == [Lexeme("literal") EXCEPT !.s = <<word>>]
Blank == Lexeme("blank")
Minus == Lexeme("minus")            \* a minus sign without a digit
CutString == Lexeme("cut string")   \* also an escape with no end
CutLiteral == Lexeme("cut literal")

\* A value is a lexeme, or one of these.
Object(pairs) == [t |-> "object", pairs |-> pairs]
Array(items) == [t |-> "array", items |-> items]

Read(v, i) == [ok |-> TRUE, value |-> v, at |-> i]
Refused(why) == [ok |-> FALSE, why |-> why]

peek(b, i) == IF i > Len(b) THEN "end" ELSE b[i].t
ws(b, i) == Min({j \in i .. Len(b) + 1 : peek(b, j) # "blank"})

\* What stands where something else has to.
Unexpected(b, i, cuts) ==
    Refused(IF peek(b, i) \in {"end"} \cup cuts THEN <<"Truncated">> ELSE <<"NotJson">>)

\* Fault: a string without its end is no string.
string_impatient(b, i) ==
    IF peek(b, i) = "string" THEN Read(b[i], i + 1) ELSE Unexpected(b, i, {})

string(b, i) ==
    IF peek(b, i) = "string" THEN Read(b[i], i + 1) ELSE Unexpected(b, i, {"cut string"})

RECURSIVE value(_, _, _), members(_, _, _, _), items(_, _, _, _)

members(b, i, depth, pairs) ==
    LET key == string(b, ws(b, i))
        colon == ws(b, key.at)
        v == value(b, ws(b, colon + 1), depth)
        next == ws(b, v.at)
        more == Append(pairs, [key |-> key.value.s, value |-> v.value])
    IN  CASE ~ key.ok -> key
          [] key.ok /\ peek(b, colon) # ":" -> Unexpected(b, colon, {})
          [] OTHER ->
               CASE ~ v.ok -> v
                 [] v.ok /\ peek(b, next) = "," -> members(b, next + 1, depth, more)
                 [] v.ok /\ peek(b, next) = "}" -> Read(Object(more), next + 1)
                 [] OTHER -> Unexpected(b, next, {})

items(b, i, depth, seen) ==
    LET v == value(b, ws(b, i), depth)
        next == ws(b, v.at)
        more == Append(seen, v.value)
    IN  CASE ~ v.ok -> v
          [] v.ok /\ peek(b, next) = "," -> items(b, next + 1, depth, more)
          [] v.ok /\ peek(b, next) = "]" -> Read(Array(more), next + 1)
          [] OTHER -> Unexpected(b, next, {})

\* The bracket at i; only an empty one closes before its first value is read.
object(b, i, depth) ==
    LET first == ws(b, i + 1)
    IN  CASE peek(b, first) = "}" -> Read(Object(<<>>), first + 1)
          [] peek(b, first) = "end" -> Refused(<<"Truncated">>)
          [] OTHER -> members(b, first, depth + 1, <<>>)

array(b, i, depth) ==
    LET first == ws(b, i + 1)
    IN  CASE peek(b, first) = "]" -> Read(Array(<<>>), first + 1)
          [] peek(b, first) = "end" -> Refused(<<"Truncated">>)
          [] OTHER -> items(b, first, depth + 1, <<>>)

value(b, i, depth) ==
    CASE depth >= MAX_DEPTH -> Refused(<<"TooDeep">>)
      [] depth < MAX_DEPTH /\ peek(b, i) = "{" -> object(b, i, depth)
      [] depth < MAX_DEPTH /\ peek(b, i) = "[" -> array(b, i, depth)
      [] depth < MAX_DEPTH /\ peek(b, i) \in {"string", "number", "fraction", "literal"} ->
           Read(b[i], i + 1)
      [] OTHER -> Unexpected(b, i, {"cut string", "cut literal"})

\* Fault: what follows the value is not looked at.
json_parse_prefix(b) == value(b, ws(b, 1), 0)

Alone(root, b) ==
    IF root.ok /\ ws(b, root.at) <= Len(b) THEN Refused(<<"TrailingBytes">>) ELSE root

json_parse(b) == Alone(value(b, ws(b, 1), 0), b)

\* The first pair of that key; the others, and unknown keys, are ignored.
field(v, key) ==
    LET found == {i \in DOMAIN v.pairs : v.pairs[i].key = <<key>>}
    IN  IF found = {} THEN Lexeme("absent") ELSE v.pairs[Min(found)].value

\* What is wrong with a value that has to be of a type, <<>> for nothing.
Misfit(v, name, type) ==
    CASE v.t = type -> <<>>
      [] v.t = "fraction" /\ type = "number" -> <<"BadNumber", name>>
      [] OTHER -> <<"WrongType", name>>

required(v, name, type) ==
    IF v.t = "absent" THEN <<"MissingField", name>> ELSE Misfit(v, name, type)
optional(v, name, type) == IF v.t = "absent" THEN <<>> ELSE Misfit(v, name, type)

-----------------------------------------------------------------------------
\* How a server writes a value, gaps being what it puts after each comma.
RECURSIVE Written(_, _)
Written(v, gap) ==
    LET Joined(parts) ==
            FlattenSeq([i \in DOMAIN parts |->
                          (IF i = 1 THEN <<>> ELSE <<Lexeme(",")>> \o gap) \o parts[i]])
    IN  CASE v.t = "object" ->
               <<Lexeme("{")>>
                 \o Joined([i \in DOMAIN v.pairs |->
                      <<Text(v.pairs[i].key), Lexeme(":")>> \o Written(v.pairs[i].value, gap)])
                 \o <<Lexeme("}")>>
          [] v.t = "array" ->
               <<Lexeme("[")>> \o Joined([i \in DOMAIN v.items |-> Written(v.items[i], gap)])
                 \o <<Lexeme("]")>>
          [] OTHER -> <<v>>

\* What a lexeme may look like when the text ends inside it.
CutsOf(lexeme) ==
    CASE lexeme.t = "string" -> {CutString}
      [] lexeme.t = "literal" -> {CutLiteral}
      [] lexeme.t = "number" /\ lexeme.n < 0 -> {Minus}
      [] lexeme.t = "number" /\ lexeme.n > 9 -> {Number(lexeme.n \div 10)}
      [] OTHER -> {}
=============================================================================
