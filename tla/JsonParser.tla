------------------------------ MODULE JsonParser ------------------------------
(***************************************************************************)
(* The JSON the feature server reads and writes: the parse_json_* functions*)
(* on a request's body, and json_quote, by which SessionJson and           *)
(* FeatureJson give a client's strings back.  The only values are strings, *)
(* arrays and objects.                                                     *)
(*                                                                         *)
(* A text is a sequence of bytes.  Bodies are documents, right or with     *)
(* slips in them; the reference is a grammar that says what a text denotes. *)
(***************************************************************************)
EXTENDS Integers, SequencesExt

CONSTANTS
    Documents,         \* what clients mean to send
    Alphabet,          \* bytes that get there by mistake
    ShortLength,       \* up to this length two slips are made,
    SlipLength         \* up to this one, and none in a longer body

ASSUME DocumentsAssumption == Documents \subseteq Seq(0..255)
ASSUME AlphabetAssumption == Alphabet \subseteq 0..255 /\ {ShortLength, SlipLength} \subseteq Nat

VARIABLES
    body,
    slips,             \* number of slips in it
    calls,             \* the arrays and objects being read, the outermost first
    at,                \* i
    reading,           \* what comes next: "body", "key", "value" or "end" of the turn
    answer             \* of parse_json_root_object, Unread before

json_vars == <<body, slips, calls, at, reading, answer>>

\* ASCII
TAB == 9
NEWLINE == 10
RETURN == 13
SPACE == 32
QUOTE == 34
COMMA == 44
COLON == 58
BACKSLASH == 92
LETTER_U == 117
OPEN == [array |-> 91, object |-> 123]
CLOSE == [array |-> 93, object |-> 125]

isspace == TAB..RETURN \cup {SPACE}
Digits == 48..57
IsHex(ch) == ch \in Digits \cup 65..70 \cup 97..102
Hex(ch) == CASE ch \in Digits -> ch - 48 [] ch \in 65..70 -> ch - 55 [] ch \in 97..102 -> ch - 87
HexDigit(n) == IF n < 10 THEN 48 + n ELSE 87 + n

-----------------------------------------------------------------------------
(* json_escape *)

\* Mutant: std::hex is forgotten.
ControlEscapeDecimal(ch) == <<BACKSLASH, LETTER_U, 48, 48, 48 + ch \div 10, 48 + (ch % 10)>>

ControlEscape(ch) ==
    <<BACKSLASH, LETTER_U, 48, 48, HexDigit(ch \div 16), HexDigit(ch % 16)>>

EscapeOf(ch) ==
    CASE ch \in {BACKSLASH, QUOTE} -> <<BACKSLASH, ch>>
      [] ch = NEWLINE -> <<BACKSLASH, 110>>
      [] ch = RETURN -> <<BACKSLASH, 114>>
      [] ch = TAB -> <<BACKSLASH, 116>>
      [] ch < SPACE /\ ch \notin {NEWLINE, RETURN, TAB} -> ControlEscape(ch)
      [] ch >= SPACE /\ ch \notin {BACKSLASH, QUOTE} -> <<ch>>

json_quote(value) ==
    <<QUOTE>> \o FlattenSeq([i \in DOMAIN value |-> EscapeOf(value[i])]) \o <<QUOTE>>

-----------------------------------------------------------------------------
(* Strings.  A parser returns Refused, or a value and where it ends. *)

Unread == [ok |-> FALSE, read |-> FALSE]
Refused == [ok |-> FALSE, read |-> TRUE]
Parsed(value, end) == [ok |-> TRUE, value |-> value, at |-> end]

Two(codepoint) == <<192 + codepoint \div 64, 128 + (codepoint % 64)>>
Three(codepoint) ==
    <<224 + codepoint \div 4096, 128 + ((codepoint \div 64) % 64), 128 + (codepoint % 64)>>

\* Mutant: up to 0xFF a code point is taken for a byte.
Utf8Latin(codepoint) ==
    CASE codepoint <= 255 -> <<codepoint>>
      [] codepoint \in 256..2047 -> Two(codepoint)
      [] codepoint >= 2048 -> Three(codepoint)

\* append_utf8_codepoint; four digits give no code point that needs four bytes.
Utf8(codepoint) ==
    CASE codepoint <= 127 -> <<codepoint>>
      [] codepoint \in 128..2047 -> Two(codepoint)
      [] codepoint >= 2048 -> Three(codepoint)

\* append_utf8_codepoint refuses them, one by one and in pairs.
IsSurrogate(codepoint) == codepoint \in 55296..57343

\* backslash, quote, slash, b, f, n, r, t
Escapes == [ch \in {BACKSLASH, QUOTE, 47, 98, 102, 110, 114, 116} |->
    CASE ch = 98 -> 8 [] ch = 102 -> 12 [] ch = 110 -> NEWLINE [] ch = 114 -> RETURN
      [] ch = 116 -> TAB [] ch \in {BACKSLASH, QUOTE, 47} -> ch]

\* four hexadecimal digits at i
Codepoint(s, i) == Hex(s[i]) * 4096 + Hex(s[i+1]) * 256 + Hex(s[i+2]) * 16 + Hex(s[i+3])
HasCodepoint(s, i) == i + 3 <= Len(s) /\ \A k \in i..i + 3 : IsHex(s[k])

\* what follows a backslash
Escape(s, i) ==
    CASE i <= Len(s) /\ s[i] \in DOMAIN Escapes -> Parsed(<<Escapes[s[i]]>>, i + 1)
      [] i <= Len(s) /\ s[i] = LETTER_U /\ HasCodepoint(s, i + 1)
         /\ ~IsSurrogate(Codepoint(s, i + 1)) -> Parsed(Utf8(Codepoint(s, i + 1)), i + 5)
      [] OTHER -> Refused

At(s, i, ch) == i <= Len(s) /\ s[i] = ch

\* what follows the opening quote, up to the closing one
StringRest(s) ==
    LET rest[i \in 1..Len(s) + 1] ==
            IF i > Len(s) THEN Refused
            ELSE IF s[i] = QUOTE THEN Parsed(<<>>, i + 1)
            ELSE LET unit == IF s[i] = BACKSLASH THEN Escape(s, i + 1)
                             ELSE Parsed(<<s[i]>>, i + 1)
                     tail == rest[unit.at]
                 IN  IF unit.ok /\ tail.ok THEN Parsed(unit.value \o tail.value, tail.at)
                     ELSE Refused
    IN  rest

parse_json_string_value(s, i) == IF At(s, i, QUOTE) THEN StringRest(s)[i + 1] ELSE Refused

-----------------------------------------------------------------------------
(* Values: <<"string", bytes>>, <<"array", values>>, <<"object", members>> *)

skip_json_ws(s, i) ==
    LET words == {j \in i..Len(s) : s[j] \notin isspace} IN
    IF words = {} THEN Len(s) + 1 ELSE Min(words)

\* Mutant: object_value.emplace(key, value)
EmplaceMember(members, key, value) ==
    [k \in DOMAIN members \cup {key} |-> IF k \in DOMAIN members THEN members[k] ELSE value]

\* object_value[key] = value
StoreMember(members, key, value) ==
    [k \in DOMAIN members \cup {key} |-> IF k = key THEN value ELSE members[k]]

\* array_value.push_back(value), or the above
Store(call, value) ==
    [call EXCEPT !.items = IF call.type = "array" THEN Append(@, value)
                           ELSE StoreMember(@, call.key, value)]

\* error = ...; return false, all the way up
Refuse == answer' = Refused /\ UNCHANGED <<calls, at, reading>>

\* A value ends before i: the last of the outer calls stores it, or it is the root.
Return(outer, value, i) ==
    /\ at' = i
    /\ IF outer # <<>>
       THEN /\ calls' = Append(Front(outer), Store(Last(outer), value))
            /\ reading' = "end"
            /\ UNCHANGED answer
       ELSE /\ answer' = IF skip_json_ws(body, i) > Len(body) THEN Parsed(value, i) ELSE Refused
            /\ calls' = outer
            /\ UNCHANGED reading

Turn == [array |-> "value", object |-> "key"]

\* The opening bracket is at i: parse_json_array_value or parse_json_object_value is called.
Open(type, i) ==
    LET first == skip_json_ws(body, i + 1) IN
    IF At(body, first, CLOSE[type])
    THEN Return(calls, <<type, <<>>>>, first + 1)
    ELSE /\ calls' = Append(calls, [type |-> type, items |-> <<>>, key |-> <<>>])
         /\ at' = first
         /\ reading' = Turn[type]
         /\ UNCHANGED answer

\* parse_json_root_object
ReadBody ==
    LET i == skip_json_ws(body, at) IN
    /\ reading = "body" /\ answer = Unread
    /\ IF At(body, i, OPEN.object) THEN Open("object", i) ELSE Refuse
    /\ UNCHANGED <<body, slips>>

\* A turn of the loop of parse_json_object_value, up to the colon
ReadKey ==
    LET key == parse_json_string_value(body, skip_json_ws(body, at))
        colon == skip_json_ws(body, key.at)
    IN  /\ reading = "key" /\ answer = Unread
        /\ IF key.ok /\ At(body, colon, COLON)
           THEN /\ calls' = Append(Front(calls), [Last(calls) EXCEPT !.key = key.value])
                /\ at' = colon + 1
                /\ reading' = "value"
                /\ UNCHANGED answer
           ELSE Refuse
        /\ UNCHANGED <<body, slips>>

\* parse_json_value
ReadValue ==
    LET i == skip_json_ws(body, at)
        string == parse_json_string_value(body, i)
    IN  /\ reading = "value" /\ answer = Unread
        /\ \/ string.ok /\ Return(calls, <<"string", string.value>>, string.at)
           \/ At(body, i, OPEN.object) /\ Open("object", i)
           \/ At(body, i, OPEN.array) /\ Open("array", i)
           \/ /\ ~string.ok
              /\ \A type \in DOMAIN OPEN : ~At(body, i, OPEN[type])
              /\ Refuse
        /\ UNCHANGED <<body, slips>>

\* The end of a turn of either loop
EndTurn ==
    LET i == skip_json_ws(body, at)
        call == Last(calls)
    IN  /\ reading = "end" /\ answer = Unread
        /\ \/ /\ At(body, i, CLOSE[call.type])
              /\ Return(Front(calls), <<call.type, call.items>>, i + 1)
           \/ /\ At(body, i, COMMA)
              /\ at' = i + 1
              /\ reading' = Turn[call.type]
              /\ UNCHANGED <<calls, answer>>
           \/ /\ ~At(body, i, CLOSE[call.type]) /\ ~At(body, i, COMMA)
              /\ Refuse
        /\ UNCHANGED <<body, slips>>

\* What create and unsupported make of the root: the strings by their keys
parse_simple_json_object(root) ==
    IF root.ok /\ \A key \in DOMAIN root.value[2] : root.value[2][key][1] = "string"
    THEN Parsed([key \in DOMAIN root.value[2] |-> root.value[2][key][2]], root.at)
    ELSE Refused

-----------------------------------------------------------------------------
JsonInit ==
    /\ body \in Documents /\ slips = 0
    /\ calls = <<>> /\ at = 1 /\ reading = "body" /\ answer = Unread

\* One byte too few, a wrong one, or one too many, before the body is read
Slip ==
    /\ reading = "body" /\ answer = Unread
    /\ slips < (CASE Len(body) <= ShortLength -> 2
                  [] Len(body) \in ShortLength + 1..SlipLength -> 1
                  [] OTHER -> 0)
    /\ slips' = slips + 1
    /\ \E i \in 1..Len(body) + 1, ch \in Alphabet :
          body' \in {InsertAt(body, i, ch)}
                   \cup (IF i \in DOMAIN body THEN {ReplaceAt(body, i, ch), RemoveAt(body, i)}
                         ELSE {})
    /\ UNCHANGED <<calls, at, reading, answer>>

JsonNext == Slip \/ ReadBody \/ ReadKey \/ ReadValue \/ EndTurn

JsonSpec == JsonInit /\ [][JsonNext]_json_vars

-----------------------------------------------------------------------------
(* The reference: the set of values a text denotes, by taking it apart at  *)
(* every place and not from left to right.  As RFC 8259 has it, but with   *)
(* strings, arrays and objects only, isspace for white space, any byte in  *)
(* a string, and no surrogates.  Of members with the same key the last     *)
(* counts.                                                                 *)

Trim(s) ==
    LET words == {i \in DOMAIN s : s[i] \notin isspace} IN
    IF words = {} THEN <<>> ELSE SubSeq(s, Min(words), Max(words))

\* what one character of a string is written as, and what it is
Unit(u) ==
    CASE Len(u) = 1 /\ u[1] \notin {QUOTE, BACKSLASH} -> {u}
      [] Len(u) = 2 /\ u[1] = BACKSLASH /\ u[2] \in DOMAIN Escapes -> {<<Escapes[u[2]]>>}
      [] Len(u) = 6 /\ u[1] = BACKSLASH /\ u[2] = LETTER_U /\ HasCodepoint(u, 3)
         /\ ~IsSurrogate(Codepoint(u, 3)) -> {Utf8(Codepoint(u, 3))}
      [] OTHER -> {}

Parts(s) == {SubSeq(s, i, j) : i \in 1..Len(s) + 1, j \in 0..Len(s)}
Before(s, k) == SubSeq(s, 1, k - 1)
After(s, k) == SubSeq(s, k + 1, Len(s))
Places(s, ch) == {k \in DOMAIN s : s[k] = ch}
Enclosed(s, open, close) == Len(s) >= 2 /\ s[1] = open /\ s[Len(s)] = close
Inside(s) == SubSeq(s, 2, Len(s) - 1)

Contents(s) ==
    LET contents[t \in Parts(s)] ==
            IF t = <<>> THEN {<<>>}
            ELSE UNION {{c \o u : c \in contents[SubSeq(t, 1, k)], u \in Unit(After(t, k))} :
                            k \in {Len(t) - 1, Len(t) - 2, Len(t) - 6} \cap Nat}
    IN  contents[s]

Strings(text) ==
    LET s == Trim(text) IN IF Enclosed(s, QUOTE, QUOTE) THEN Contents(Inside(s)) ELSE {}

LastOfEach(list) ==
    [key \in {list[i][1] : i \in DOMAIN list} |->
        list[Max({i \in DOMAIN list : list[i][1] = key})][2]]

\* what a part of a text denotes as a value; as the inside of an array or an
\* object, the lists of elements
Denotes(text) ==
    LET meaning[what \in {"value", "array", "object"}, t \in Parts(text)] ==
            LET s == Trim(t)
                Within(type) == IF Enclosed(s, OPEN[type], CLOSE[type])
                                THEN IF Trim(Inside(s)) = <<>> THEN {<<>>}
                                     ELSE meaning[type, Inside(s)]
                                ELSE {}
                Elements(u) == IF what = "array" THEN meaning["value", u]
                               ELSE UNION {Strings(Before(u, k)) \X meaning["value", After(u, k)] :
                                               k \in Places(u, COLON)}
            IN  IF what = "value"
                THEN {<<"string", v>> : v \in Strings(s)}
                     \cup {<<"array", l>> : l \in Within("array")}
                     \cup {<<"object", LastOfEach(l)>> : l \in Within("object")}
                ELSE {<<e>> : e \in Elements(s)}
                     \cup UNION {{Append(l, e) : l \in meaning[what, Before(s, k)],
                                                e \in Elements(After(s, k))} : k \in Places(s, COMMA)}
    IN  meaning["value", text]

(* The parser accepts the objects of the grammar and nothing else, and what*)
(* it returns is what they denote; the simple parser wants strings only.   *)
ReadsAsDenoted ==
    answer # Unread =>
        LET objects == {v \in Denotes(body) : v[1] = "object"}
            simple == parse_simple_json_object(answer)
        IN  /\ IF objects = {} THEN answer = Refused
               ELSE answer.ok /\ objects = {answer.value}
            /\ simple.ok <=> \E v \in objects : \A item \in Range(v[2]) : item[1] = "string"

(* A client's strings are given back to it (agent_name, evidence_text):    *)
(* what json_quote writes is a string of RFC 8259, without control         *)
(* characters, and reads as the same bytes.                                *)
StringsComeBack ==
    answer.ok => \A key \in DOMAIN answer.value[2] :
        LET member == answer.value[2][key]
            written == json_quote(member[2])
        IN  member[1] = "string" =>
                /\ parse_json_string_value(written, 1) = Parsed(member[2], Len(written) + 1)
                /\ \A i \in DOMAIN written : written[i] >= SPACE

\* RFC 3629: the code point of one character in its shortest form
Decode(bytes) ==
    CASE Len(bytes) = 1 /\ bytes[1] <= 127 -> {bytes[1]}
      [] Len(bytes) = 2 /\ bytes[1] \in 194..223 -> {(bytes[1] - 192) * 64 + bytes[2] - 128}
      [] Len(bytes) = 3 /\ bytes[1] \in 224..239 /\ (bytes[1] = 224 => bytes[2] >= 160) ->
            {(bytes[1] - 224) * 4096 + (bytes[2] - 128) * 64 + bytes[3] - 128}
      [] OTHER -> {}

(* A \u escape that is a whole value is read as the UTF-8 of its code      *)
(* point, in its shortest form.                                            *)
EscapesAreUtf8 ==
    LET n == Len(body) IN
    answer.ok /\ n > 9 /\ SubSeq(body, n - 9, n - 6) = <<COLON, QUOTE, BACKSLASH, LETTER_U>> =>
        \E key \in DOMAIN answer.value[2] :
            Decode(answer.value[2][key][2]) = {Codepoint(body, n - 5)}
=============================================================================
