----------------------------- MODULE MCJsonParser -----------------------------
(***************************************************************************)
(* Documents of up to two members, and every \u escape of a few digits.    *)
(***************************************************************************)
EXTENDS JsonParser

Letter(ch) == <<QUOTE, ch, QUOTE>>
Texts == {Letter(97), <<QUOTE, QUOTE>>, <<QUOTE, BACKSLASH, QUOTE, QUOTE>>}

Enclose(type, inside) == <<OPEN[type]>> \o inside \o <<CLOSE[type]>>
Pair(a, b) == a \o <<COMMA>> \o b
Member(key, value) == Letter(key) \o <<COLON>> \o value

Values ==
    Texts
    \cup {Enclose("array", t) : t \in Texts \cup {<<>>}}
    \cup {Enclose("array", Pair(Letter(97), t)) : t \in Texts}
    \cup {Enclose("object", t) : t \in {<<>>, Member(97, Letter(98))}}

PlainDocuments ==
    {Enclose("object", <<>>)}
    \cup {Enclose("object", Member(97, v)) : v \in Values}
    \cup {Enclose("object", Pair(Member(97, v), Member(key, Letter(98)))) :
            key \in {97, 98}, v \in {Letter(97), Enclose("array", <<>>)}}

\* every kind of byte the parser tells apart: structure, escapes, blank, control
MCAlphabet == {QUOTE, BACKSLASH, COMMA, COLON, 97, 110, LETTER_U, SPACE, NEWLINE, 31}
              \cup {OPEN[type] : type \in {"array", "object"}}
              \cup {CLOSE[type] : type \in {"array", "object"}}

\* 0, 7, 8, d, F and a letter that is none
EscapeDigits == {48, 55, 56, 100, 70, 103}
EscapeDocuments ==
    {Enclose("object", Member(97, <<QUOTE, BACKSLASH, LETTER_U>> \o <<a, b, c, d>> \o <<QUOTE>>)) :
        a, b, c, d \in EscapeDigits}

MCDocuments == PlainDocuments \cup EscapeDocuments
=============================================================================
