---------------------------- MODULE JsonParserProofs ----------------------------
(***************************************************************************)
(* What the feature server does to a client's strings, whatever documents  *)
(* clients send and whatever slips are in them.  They come back: a string  *)
(* that the parser has read is bytes, and json_quote writes bytes so that  *)
(* parse_json_string_value reads them.  And a \u escape is read as UTF-8:  *)
(* the parser cannot pass it by.                                           *)
(*                                                                         *)
(* Both arguments follow the recursive function of StringRest, from the end*)
(* of the text to its beginning.                                           *)
(***************************************************************************)
EXTENDS JsonParser, InductionFacts

-----------------------------------------------------------------------------
(* Escapes and characters *)

Byte == 0..255

\* what a turn of the loop of parse_json_string_value reads at i
UnitAt(s, i) == IF s[i] = BACKSLASH THEN Escape(s, i + 1) ELSE Parsed(<<s[i]>>, i + 1)

\* The letters of the escapes and what they stand for.
LEMMA EscapeTable ==
    /\ DOMAIN Escapes = {92, 34, 47, 98, 102, 110, 114, 116}
    /\ Escapes[92] = 92 /\ Escapes[34] = 34 /\ Escapes[47] = 47 /\ Escapes[98] = 8
    /\ Escapes[102] = 12 /\ Escapes[110] = 10 /\ Escapes[114] = 13 /\ Escapes[116] = 9
BY SMT DEF Escapes, BACKSLASH, QUOTE, NEWLINE, RETURN, TAB

\* code points of four digits, kept from the provers
Sixteen == {c \in Nat : c <= 65535}

\* Four hexadecimal digits are a number of sixteen bits.
LEMMA CodepointRange ==
    ASSUME NEW s, NEW i \in Nat, HasCodepoint(s, i)
    PROVE  Codepoint(s, i) \in Sixteen
<1>1. \A k \in i..i + 3 : Hex(s[k]) \in 0..15
  <2> SUFFICES ASSUME NEW k \in i..i + 3
               PROVE  Hex(s[k]) \in 0..15
    OBVIOUS
  <2>1. IsHex(s[k])
    BY DEF HasCodepoint
  <2> QED BY <2>1 DEF IsHex, Hex, Digits
<1>2. Hex(s[i]) \in 0..15 /\ Hex(s[i+1]) \in 0..15 /\ Hex(s[i+2]) \in 0..15 /\ Hex(s[i+3]) \in 0..15
  BY <1>1
<1>3. PICK a, b, c, d :
          a = Hex(s[i]) /\ b = Hex(s[i+1]) /\ c = Hex(s[i+2]) /\ d = Hex(s[i+3])
  OBVIOUS
<1>4. a \in 0..15 /\ b \in 0..15 /\ c \in 0..15 /\ d \in 0..15
  BY <1>2, <1>3
<1>5. a * 4096 + b * 256 + c * 16 + d \in Sixteen
  <2>1. PICK x, y, z : x = a * 4096 /\ y = b * 256 /\ z = c * 16
    OBVIOUS
  <2>2. x \in Nat /\ x <= 61440
    BY <1>4, <2>1, SMT
  <2>3. y \in Nat /\ y <= 3840 /\ z \in Nat /\ z <= 240 /\ d \in Nat /\ d <= 15
    BY <1>4, <2>1, SMT
  <2>4. x + y + z + d \in Sixteen
    <3>1. PICK w : w = x + y + z + d
      OBVIOUS
    <3>2. w \in Nat /\ w <= 65535
      BY <2>2, <2>3, <3>1, SMT
    <3>3. w \in Sixteen
      BY <3>2, SMT DEF Sixteen
    <3> QED BY <3>1, <3>3
  <2> QED BY <2>1, <2>4, SMT
<1> QED BY <1>3, <1>5, SMT DEF Codepoint

\* append_utf8_codepoint writes bytes.
LEMMA Utf8Bytes ==
    ASSUME NEW c \in Sixteen
    PROVE  Utf8(c) \in Seq(Byte)
<1>0. c \in Nat /\ c <= 65535
  BY SMT DEF Sixteen
<1>1. CASE c <= 127
  <2>1. c \in Byte
    BY <1>0, <1>1, SMT DEF Byte
  <2>2. ~(c \in 128..2047) /\ ~(c >= 2048)
    BY <1>0, <1>1, SMT
  <2>3. Utf8(c) = <<c>>
    BY <1>1, <2>2, SMT DEF Utf8
  <2> QED BY <2>1, <2>3
<1>2. CASE c \in 128..2047
  <2>1. ~(c <= 127) /\ ~(c >= 2048)
    BY <1>2, SMT
  <2>2. Utf8(c) = Two(c)
    BY <1>2, <2>1, SMT DEF Utf8
  <2>3. PICK x, y : x = 192 + c \div 64 /\ y = 128 + (c % 64)
    OBVIOUS
  <2>4. x \in Byte /\ y \in Byte
    BY <1>2, <2>3, SMT DEF Byte
  <2>5. Utf8(c) = <<x, y>>
    BY <2>2, <2>3, SMT DEF Two
  <2>6. <<x, y>> \in Seq(Byte)
    BY <2>4
  <2> QED BY <2>5, <2>6
<1>3. CASE c >= 2048
  <2>1. ~(c <= 127) /\ ~(c \in 128..2047)
    BY <1>0, <1>3, SMT
  <2>2. Utf8(c) = Three(c)
    BY <1>3, <2>1, SMT DEF Utf8
  <2>3. PICK x, y, z : /\ x = 224 + c \div 4096 /\ y = 128 + ((c \div 64) % 64)
                       /\ z = 128 + (c % 64)
    OBVIOUS
  <2>4. x \in Byte /\ y \in Byte /\ z \in Byte
    BY <1>0, <2>3, SMT DEF Byte
  <2>5. Utf8(c) = <<x, y, z>>
    BY <2>2, <2>3, SMT DEF Three
  <2>6. <<x, y, z>> \in Seq(Byte)
    BY <2>4
  <2> QED BY <2>5, <2>6
<1>4. c <= 127 \/ c \in 128..2047 \/ c >= 2048
  BY <1>0, SMT
<1> QED BY <1>1, <1>2, <1>3, <1>4

\* A character that is read is some bytes, and ends within the text.
LEMMA UnitBytes ==
    ASSUME NEW s \in Seq(Byte), NEW i \in 1..Len(s), UnitAt(s, i).ok
    PROVE  \E v \in Seq(Byte), e \in i + 1..Len(s) + 1 : UnitAt(s, i) = Parsed(v, e)
<1>1. PICK n \in Nat : n = Len(s) /\ i \in 1..n
  OBVIOUS
<1>2. \A j \in 1..n : s[j] \in Byte
  BY <1>1
<1>3. CASE s[i] # BACKSLASH
  <2>1. UnitAt(s, i) = Parsed(<<s[i]>>, i + 1)
    BY <1>3 DEF UnitAt
  <2>2. <<s[i]>> \in Seq(Byte) /\ i + 1 \in i + 1..n + 1
    BY <1>1, <1>2
  <2> QED BY <1>1, <2>1, <2>2
<1>4. CASE s[i] = BACKSLASH
  <2>1. UnitAt(s, i) = Escape(s, i + 1)
    BY <1>4 DEF UnitAt
  <2>2. CASE i + 1 <= Len(s) /\ s[i + 1] \in DOMAIN Escapes
    <3>1. s[i + 1] # LETTER_U
      BY <2>2, EscapeTable DEF LETTER_U
    <3>2. Escape(s, i + 1) = Parsed(<<Escapes[s[i + 1]]>>, (i + 1) + 1)
      BY <2>2, <3>1 DEF Escape
    <3>3. Escapes[s[i + 1]] \in Byte
      <4>1. \A x \in DOMAIN Escapes : Escapes[x] \in Byte
        <5>1. /\ Escapes[92] \in Byte /\ Escapes[34] \in Byte /\ Escapes[47] \in Byte
              /\ Escapes[98] \in Byte /\ Escapes[102] \in Byte /\ Escapes[110] \in Byte
              /\ Escapes[114] \in Byte /\ Escapes[116] \in Byte
          BY EscapeTable, SMT DEF Byte
        <5> QED BY <5>1, EscapeTable, Zenon
      <4> QED BY <2>2, <4>1
    <3>4. <<Escapes[s[i + 1]]>> \in Seq(Byte) /\ (i + 1) + 1 \in i + 1..n + 1
      BY <1>1, <2>2, <3>3
    <3> QED BY <1>1, <2>1, <3>2, <3>4
  <2>3. CASE /\ i + 1 <= Len(s) /\ s[i + 1] = LETTER_U /\ HasCodepoint(s, (i + 1) + 1)
             /\ ~IsSurrogate(Codepoint(s, (i + 1) + 1))
    <3>1. s[i + 1] \notin DOMAIN Escapes
      BY <2>3, EscapeTable DEF LETTER_U
    <3>2. Escape(s, i + 1) = Parsed(Utf8(Codepoint(s, (i + 1) + 1)), (i + 1) + 5)
      BY <2>3, <3>1 DEF Escape
    <3>3. Utf8(Codepoint(s, (i + 1) + 1)) \in Seq(Byte)
      <4>1. (i + 1) + 1 \in Nat
        BY <1>1
      <4>2. Codepoint(s, (i + 1) + 1) \in Sixteen
        BY <2>3, <4>1, CodepointRange
      <4> QED BY <4>2, Utf8Bytes
    <3>4. (i + 1) + 5 \in i + 1..n + 1
      <4>1. ((i + 1) + 1) + 3 <= n
        BY <1>1, <2>3 DEF HasCodepoint
      <4> QED BY <1>1, <4>1
    <3> QED BY <1>1, <2>1, <3>2, <3>3, <3>4
  <2>4. CASE /\ ~(i + 1 <= Len(s) /\ s[i + 1] \in DOMAIN Escapes)
             /\ ~(/\ i + 1 <= Len(s) /\ s[i + 1] = LETTER_U /\ HasCodepoint(s, (i + 1) + 1)
                  /\ ~IsSurrogate(Codepoint(s, (i + 1) + 1)))
    <3>1. Escape(s, i + 1) = Refused
      BY <2>4 DEF Escape
    <3>2. ~Refused.ok
      BY DEF Refused
    <3> QED BY <2>1, <3>1, <3>2
  <2> QED BY <2>2, <2>3, <2>4
<1> QED BY <1>3, <1>4

-----------------------------------------------------------------------------
(* The recursive function of parse_json_string_value *)

ReadRest(s, f, i) ==
    IF i > Len(s) THEN Refused
    ELSE IF s[i] = QUOTE THEN Parsed(<<>>, i + 1)
    ELSE IF UnitAt(s, i).ok /\ f[UnitAt(s, i).at].ok
         THEN Parsed(UnitAt(s, i).value \o f[UnitAt(s, i).at].value, f[UnitAt(s, i).at].at)
         ELSE Refused

\* f is what StringRest computes for the places from k on.
Rests(f, s, k) == f = [i \in k..Len(s) + 1 |-> ReadRest(s, f, i)]

\* What a place is read as depends on later places only.
LEMMA RestIsLocal ==
    ASSUME NEW s \in Seq(Byte), NEW i \in 1..Len(s) + 1, NEW f, NEW g,
           \A j \in i + 1..Len(s) + 1 : f[j] = g[j]
    PROVE  ReadRest(s, f, i) = ReadRest(s, g, i)
<1>1. CASE i > Len(s) \/ s[i] = QUOTE \/ ~UnitAt(s, i).ok
  BY <1>1 DEF ReadRest
<1>2. CASE ~(i > Len(s)) /\ UnitAt(s, i).ok
  <2>1. i \in 1..Len(s)
    <3>1. Len(s) \in Nat
      OBVIOUS
    <3> QED BY <1>2, <3>1
  <2>2. PICK v \in Seq(Byte), e \in i + 1..Len(s) + 1 : UnitAt(s, i) = Parsed(v, e)
    BY <1>2, <2>1, UnitBytes
  <2>3. UnitAt(s, i).at = e
    BY <2>2 DEF Parsed
  <2>4. f[UnitAt(s, i).at] = g[UnitAt(s, i).at]
    BY <2>3
  <2> QED BY <2>4 DEF ReadRest
<1> QED BY <1>1, <1>2

LEMMA RestsExist ==
    ASSUME NEW s \in Seq(Byte)
    PROVE  \E f : Rests(f, s, 1)
<1>1. PICK n \in Nat : n = Len(s)
  OBVIOUS
<1> DEFINE T == {m \in Nat : m <= n => \E f : Rests(f, s, n + 1 - m)}
<1>2. 0 \in T
  <2> DEFINE f == [i \in n + 1..n + 1 |-> Refused]
  <2>1. \A i \in n + 1..n + 1 : ReadRest(s, f, i) = Refused
    <3> SUFFICES ASSUME NEW i \in n + 1..n + 1
                 PROVE  ReadRest(s, f, i) = Refused
      OBVIOUS
    <3>1. i > Len(s)
      BY <1>1
    <3> QED BY <3>1 DEF ReadRest
  <2>2. f = [i \in n + 1..n + 1 |-> ReadRest(s, f, i)]
    <3> HIDE DEF f
    <3> QED BY <2>1 DEF f
  <2> HIDE DEF f
  <2>3. Rests(f, s, n + 1)
    BY <1>1, <2>2 DEF Rests
  <2>4. n + 1 - 0 = n + 1
    OBVIOUS
  <2> QED BY <2>3, <2>4
<1>3. ASSUME NEW m \in Nat, m \in T
      PROVE  m + 1 \in T
  <2> SUFFICES ASSUME m + 1 <= n
               PROVE  \E f : Rests(f, s, n + 1 - (m + 1))
    OBVIOUS
  <2>1. PICK f : Rests(f, s, n + 1 - m)
    BY <1>3
  <2>2. PICK k \in 1..n : k = n + 1 - (m + 1) /\ n + 1 - m = k + 1
    OBVIOUS
  <2> DEFINE Then(f0) == [i \in k..n + 1 |-> ReadRest(s, f0, i)]
             g == Then(f)
  <2>3. \A i \in k + 1..n + 1 : g[i] = f[i]
    <3> TAKE i \in k + 1..n + 1
    <3>1. f[i] = ReadRest(s, f, i)
      BY <1>1, <2>1, <2>2 DEF Rests
    <3>2. i \in k..n + 1
      OBVIOUS
    <3> QED BY <3>1, <3>2
  <2>4. \A i \in k..n + 1 : ReadRest(s, f, i) = ReadRest(s, g, i)
    <3> TAKE i \in k..n + 1
    <3>1. i \in 1..Len(s) + 1 /\ \A j \in i + 1..Len(s) + 1 : j \in k + 1..n + 1
      BY <1>1
    <3> HIDE DEF g
    <3>2. \A j \in i + 1..Len(s) + 1 : f[j] = g[j]
      BY <2>3, <3>1
    <3> QED BY <3>1, <3>2, RestIsLocal
  <2>5. g = Then(g)
    <3>1. \A f0 : Then(f0) = [i \in k..n + 1 |-> ReadRest(s, f0, i)]
      OBVIOUS
    <3>2. g = [i \in k..n + 1 |-> ReadRest(s, f, i)]
      OBVIOUS
    <3> HIDE DEF g, Then
    <3> QED BY <2>4, <3>1, <3>2
  <2>6. Rests(g, s, k)
    BY <1>1, <2>5 DEF Rests
  <2> HIDE DEF g
  <2> QED BY <2>2, <2>6
<1> HIDE DEF T
<1>4. n \in T
  BY <1>2, <1>3, SetInduction
<1>5. n + 1 - n = 1 /\ n <= n
  OBVIOUS
<1> QED BY <1>4, <1>5 DEF T

\* What StringRest reads at a place, by what it reads later.
LEMMA StringRestIs ==
    ASSUME NEW s \in Seq(Byte), NEW i \in 1..Len(s) + 1
    PROVE  StringRest(s)[i] = ReadRest(s, StringRest(s), i)
<1> DEFINE f == CHOOSE f : Rests(f, s, 1)
<1>1. Rests(f, s, 1)
  BY RestsExist
<1>2. StringRest(s) = f
  BY DEF StringRest, Rests, ReadRest, UnitAt
<1> HIDE DEF f
<1> QED BY <1>1, <1>2 DEF Rests

\* A string that is read is some bytes, and ends behind a place of the text.
LEMMA StringBytes ==
    ASSUME NEW s \in Seq(Byte), NEW i \in 1..Len(s) + 1, StringRest(s)[i].ok
    PROVE  \E v \in Seq(Byte), e \in Nat \ {0} : StringRest(s)[i] = Parsed(v, e)
<1>1. PICK n \in Nat : n = Len(s) /\ i \in 1..n + 1
  OBVIOUS
<1> DEFINE Good(j) == StringRest(s)[j].ok =>
               \E v \in Seq(Byte), e \in Nat \ {0} : StringRest(s)[j] = Parsed(v, e)
           T == {m \in Nat : m <= n => \A j \in n + 1 - m..n + 1 : Good(j)}
<1>2. ASSUME NEW k \in 1..n + 1, \A j \in k + 1..n + 1 : Good(j)
      PROVE  Good(k)
  <2>1. StringRest(s)[k] = ReadRest(s, StringRest(s), k)
    BY <1>1, StringRestIs
  <2>2. CASE k > Len(s)
    <3>1. StringRest(s)[k] = Refused
      BY <2>1, <2>2 DEF ReadRest
    <3> QED BY <3>1 DEF Refused
  <2>3. CASE ~(k > Len(s)) /\ s[k] = QUOTE
    <3>1. StringRest(s)[k] = Parsed(<<>>, k + 1)
      BY <2>1, <2>3 DEF ReadRest
    <3>2. <<>> \in Seq(Byte) /\ k + 1 \in Nat \ {0}
      OBVIOUS
    <3> QED BY <3>1, <3>2
  <2>4. CASE ~(k > Len(s)) /\ s[k] # QUOTE
    <3>1. CASE ~(UnitAt(s, k).ok /\ StringRest(s)[UnitAt(s, k).at].ok)
      <4>1. StringRest(s)[k] = Refused
        BY <2>1, <2>4, <3>1 DEF ReadRest
      <4> QED BY <4>1 DEF Refused
    <3>2. CASE UnitAt(s, k).ok /\ StringRest(s)[UnitAt(s, k).at].ok
      <4>1. k \in 1..Len(s)
        BY <1>1, <2>4
      <4>2. PICK u \in Seq(Byte), e \in k + 1..Len(s) + 1 : UnitAt(s, k) = Parsed(u, e)
        BY <3>2, <4>1, UnitBytes
      <4>3. UnitAt(s, k).at = e /\ UnitAt(s, k).value = u
        BY <4>2 DEF Parsed
      <4>4. StringRest(s)[e].ok
        BY <3>2, <4>3
      <4>5. PICK v \in Seq(Byte), d \in Nat \ {0} : StringRest(s)[e] = Parsed(v, d)
        BY <1>1, <1>2, <4>4
      <4>6. StringRest(s)[e].value = v /\ StringRest(s)[e].at = d
        BY <4>5 DEF Parsed
      <4>7. StringRest(s)[k] = Parsed(u \o v, d)
        BY <2>1, <2>4, <3>2, <4>3, <4>6 DEF ReadRest
      <4>8. u \o v \in Seq(Byte)
        OBVIOUS
      <4> QED BY <4>7, <4>8
    <3> QED BY <3>1, <3>2
  <2> QED BY <2>2, <2>3, <2>4
<1> HIDE DEF Good
<1>3. 0 \in T
  <2>1. \A j \in n + 1 - 0..n + 1 : j = n + 1 /\ j \in 1..n + 1
    OBVIOUS
  <2>2. \A j \in (n + 1) + 1..n + 1 : Good(j)
    OBVIOUS
  <2> QED BY <1>2, <2>1, <2>2
<1>4. ASSUME NEW m \in Nat, m \in T
      PROVE  m + 1 \in T
  <2> SUFFICES ASSUME m + 1 <= n
               PROVE  \A j \in n + 1 - (m + 1)..n + 1 : Good(j)
    OBVIOUS
  <2>1. PICK k \in 1..n + 1 : k = n + 1 - (m + 1) /\ n + 1 - m = k + 1
    OBVIOUS
  <2>2. \A j \in k + 1..n + 1 : Good(j)
    BY <1>4, <2>1
  <2>3. Good(k)
    BY <1>2, <2>2
  <2>4. \A j \in k..n + 1 : j = k \/ j \in k + 1..n + 1
    OBVIOUS
  <2> QED BY <2>1, <2>2, <2>3, <2>4
<1> HIDE DEF T
<1>5. n \in T
  BY <1>3, <1>4, SetInduction
<1>6. i \in n + 1 - n..n + 1 /\ n <= n
  BY <1>1
<1> QED BY <1>5, <1>6 DEF T, Good

-----------------------------------------------------------------------------
(* What json_quote writes *)

Printable == 32..255

\* HexDigit and Hex are each other's inverse.
LEMMA HexDigits ==
    ASSUME NEW n \in 0..15
    PROVE  /\ HexDigit(n) \in Printable /\ IsHex(HexDigit(n)) /\ Hex(HexDigit(n)) = n
<1>1. CASE n < 10
  <2>1. HexDigit(n) = 48 + n /\ 48 + n \in Digits /\ ~(48 + n \in 65..70)
        /\ ~(48 + n \in 97..102) /\ (48 + n) - 48 = n
    BY <1>1, SMT DEF HexDigit, Digits
  <2>2. Hex(48 + n) = n
    BY <2>1 DEF Hex
  <2> QED BY <1>1, <2>1, <2>2 DEF IsHex, Printable
<1>2. CASE ~(n < 10)
  <2>1. HexDigit(n) = 87 + n /\ ~(87 + n \in Digits) /\ ~(87 + n \in 65..70)
        /\ 87 + n \in 97..102 /\ (87 + n) - 87 = n
    BY <1>2, SMT DEF HexDigit, Digits
  <2>2. Hex(87 + n) = n
    BY <2>1 DEF Hex
  <2> QED BY <1>2, <2>1, <2>2 DEF IsHex, Printable
<1> QED BY <1>1, <1>2

\* The four ways to write a byte
LEMMA FourWays ==
    ASSUME NEW ch \in Byte
    PROVE  \/ \E c \in DOMAIN Escapes :
                 EscapeOf(ch) = <<BACKSLASH, c>> /\ Escapes[c] = ch /\ c \in Printable
           \/ ch < 32 /\ EscapeOf(ch) = <<BACKSLASH, LETTER_U, 48, 48,
                                          HexDigit(ch \div 16), HexDigit(ch % 16)>>
           \/ ch \in Printable \ {BACKSLASH, QUOTE} /\ EscapeOf(ch) = <<ch>>
<1>0. ch \in Nat /\ ch <= 255
  BY DEF Byte
<1>1. CASE ch \in {92, 34}
  <2>1. EscapeOf(ch) = <<BACKSLASH, ch>>
    BY <1>1, SMT DEF EscapeOf, BACKSLASH, QUOTE, NEWLINE, RETURN, TAB, SPACE
  <2>2. ch \in DOMAIN Escapes /\ Escapes[ch] = ch /\ ch \in Printable
    BY <1>1, EscapeTable, SMT DEF Printable
  <2> QED BY <2>1, <2>2
<1>2. CASE ch = 10
  <2>1. EscapeOf(ch) = <<BACKSLASH, 110>>
    BY <1>2, SMT DEF EscapeOf, BACKSLASH, QUOTE, NEWLINE, RETURN, TAB, SPACE
  <2>2. 110 \in DOMAIN Escapes /\ Escapes[110] = ch /\ 110 \in Printable
    BY <1>2, EscapeTable, SMT DEF Printable
  <2> QED BY <2>1, <2>2
<1>3. CASE ch = 13
  <2>1. EscapeOf(ch) = <<BACKSLASH, 114>>
    BY <1>3, SMT DEF EscapeOf, BACKSLASH, QUOTE, NEWLINE, RETURN, TAB, SPACE
  <2>2. 114 \in DOMAIN Escapes /\ Escapes[114] = ch /\ 114 \in Printable
    BY <1>3, EscapeTable, SMT DEF Printable
  <2> QED BY <2>1, <2>2
<1>4. CASE ch = 9
  <2>1. EscapeOf(ch) = <<BACKSLASH, 116>>
    BY <1>4, SMT DEF EscapeOf, BACKSLASH, QUOTE, NEWLINE, RETURN, TAB, SPACE
  <2>2. 116 \in DOMAIN Escapes /\ Escapes[116] = ch /\ 116 \in Printable
    BY <1>4, EscapeTable, SMT DEF Printable
  <2> QED BY <2>1, <2>2
<1>5. CASE ch < 32 /\ ch \notin {10, 13, 9}
  <2>1. EscapeOf(ch) = ControlEscape(ch)
    BY <1>0, <1>5, SMT DEF EscapeOf, BACKSLASH, QUOTE, NEWLINE, RETURN, TAB, SPACE
  <2> QED BY <1>5, <2>1 DEF ControlEscape
<1>6. CASE ch >= 32 /\ ch \notin {92, 34}
  <2>1. EscapeOf(ch) = <<ch>>
    BY <1>0, <1>6, SMT DEF EscapeOf, BACKSLASH, QUOTE, NEWLINE, RETURN, TAB, SPACE
  <2>2. ch \in Printable
    BY <1>0, <1>6, SMT DEF Printable
  <2> QED BY <1>6, <2>1, <2>2 DEF BACKSLASH, QUOTE
<1>7. \/ ch \in {92, 34} \/ ch = 10 \/ ch = 13 \/ ch = 9
      \/ (ch < 32 /\ ch \notin {10, 13, 9}) \/ (ch >= 32 /\ ch \notin {92, 34})
  BY <1>0, SMT
<1> QED BY <1>1, <1>2, <1>3, <1>4, <1>5, <1>6, <1>7

\* a control character, by its digits
LEMMA ControlDigits ==
    ASSUME NEW ch \in Byte, ch < 32
    PROVE  /\ ch \div 16 \in 0..15 /\ ch % 16 \in 0..15 /\ ch = (ch \div 16) * 16 + (ch % 16)
BY SMT DEF Byte

\* a control character is no half of a surrogate pair
LEMMA ControlsAreNoSurrogates ==
    ASSUME NEW ch \in Nat, ch < 32
    PROVE  ~IsSurrogate(ch)
BY SMT DEF IsSurrogate

\* and below the code points that take two bytes of UTF-8 or more
LEMMA ControlsAreOneByte ==
    ASSUME NEW ch \in Nat, ch < 32
    PROVE  ch <= 127 /\ ~(ch \in 128..2047) /\ ~(ch >= 2048)
BY SMT

\* A byte is written without control characters.
LEMMA EscapePrints ==
    ASSUME NEW ch \in Byte
    PROVE  EscapeOf(ch) \in Seq(Printable)
<1>1. CASE \E c \in DOMAIN Escapes :
               EscapeOf(ch) = <<BACKSLASH, c>> /\ Escapes[c] = ch /\ c \in Printable
  <2>1. BACKSLASH \in Printable
    BY DEF BACKSLASH, Printable
  <2> QED BY <1>1, <2>1
<1>2. CASE ch < 32 /\ EscapeOf(ch) = <<BACKSLASH, LETTER_U, 48, 48,
                                       HexDigit(ch \div 16), HexDigit(ch % 16)>>
  <2>1. BACKSLASH \in Printable /\ LETTER_U \in Printable /\ 48 \in Printable
    BY DEF BACKSLASH, LETTER_U, Printable
  <2>2. PICK x \in Printable, y \in Printable : x = HexDigit(ch \div 16) /\ y = HexDigit(ch % 16)
    BY <1>2, ControlDigits, HexDigits
  <2>3. EscapeOf(ch) = <<BACKSLASH, LETTER_U, 48, 48, x, y>>
    BY <1>2, <2>2
  <2> QED BY <2>1, <2>2, <2>3
<1>3. CASE ch \in Printable \ {BACKSLASH, QUOTE} /\ EscapeOf(ch) = <<ch>>
  BY <1>3
<1> QED BY <1>1, <1>2, <1>3, FourWays

\* What a byte is written as is read as that byte.
LEMMA EscapeReads ==
    ASSUME NEW s \in Seq(Byte), NEW i \in 1..Len(s), NEW ch \in Byte,
           i + Len(EscapeOf(ch)) <= Len(s) + 1,
           \A j \in 1..Len(EscapeOf(ch)) : s[i - 1 + j] = EscapeOf(ch)[j]
    PROVE  /\ s[i] # QUOTE
           /\ UnitAt(s, i) = Parsed(<<ch>>, i + Len(EscapeOf(ch)))
<1>0. PICK n \in Nat : n = Len(s) /\ i \in 1..n
  OBVIOUS
<1>1. CASE \E c \in DOMAIN Escapes :
               EscapeOf(ch) = <<BACKSLASH, c>> /\ Escapes[c] = ch /\ c \in Printable
  <2>1. PICK c \in DOMAIN Escapes : EscapeOf(ch) = <<BACKSLASH, c>> /\ Escapes[c] = ch
    BY <1>1
  <2>2. Len(EscapeOf(ch)) = 2 /\ EscapeOf(ch)[1] = BACKSLASH /\ EscapeOf(ch)[2] = c
    BY <2>1
  <2>3. i - 1 + 1 = i /\ i - 1 + 2 = i + 1 /\ (i + 1) + 1 = i + 2
    BY <1>0
  <2>4. s[i] = BACKSLASH /\ s[i + 1] = c /\ i + 1 <= Len(s)
    <3>1. 1 \in 1..2 /\ 2 \in 1..2
      OBVIOUS
    <3>2. s[i] = BACKSLASH /\ s[i + 1] = c
      BY <2>2, <2>3, <3>1
    <3>3. i + 1 <= Len(s)
      BY <1>0, <2>2
    <3> QED BY <3>2, <3>3
  <2>5. c # LETTER_U
    BY EscapeTable DEF LETTER_U
  <2>6. Escape(s, i + 1) = Parsed(<<ch>>, (i + 1) + 1)
    BY <2>1, <2>4, <2>5 DEF Escape
  <2>7. UnitAt(s, i) = Parsed(<<ch>>, i + 2)
    BY <2>3, <2>4, <2>6 DEF UnitAt
  <2> QED BY <2>2, <2>4, <2>7 DEF BACKSLASH, QUOTE
<1>2. CASE ch < 32 /\ EscapeOf(ch) = <<BACKSLASH, LETTER_U, 48, 48,
                                       HexDigit(ch \div 16), HexDigit(ch % 16)>>
  <2>1. PICK a \in 0..15, b \in 0..15 : a = ch \div 16 /\ b = ch % 16 /\ ch = a * 16 + b
    BY <1>2, ControlDigits
  <2>2. PICK x, y : x = HexDigit(a) /\ y = HexDigit(b)
    OBVIOUS
  <2>3. EscapeOf(ch) = <<BACKSLASH, LETTER_U, 48, 48, x, y>>
    BY <1>2, <2>1, <2>2
  <2>4. /\ Len(EscapeOf(ch)) = 6 /\ EscapeOf(ch)[1] = BACKSLASH /\ EscapeOf(ch)[2] = LETTER_U
        /\ EscapeOf(ch)[3] = 48 /\ EscapeOf(ch)[4] = 48
        /\ EscapeOf(ch)[5] = x /\ EscapeOf(ch)[6] = y
    BY <2>3
  <2>5. /\ i - 1 + 1 = i /\ i - 1 + 2 = i + 1 /\ i - 1 + 3 = (i + 1) + 1
        /\ i - 1 + 4 = ((i + 1) + 1) + 1 /\ i - 1 + 5 = ((i + 1) + 1) + 2
        /\ i - 1 + 6 = ((i + 1) + 1) + 3 /\ (i + 1) + 5 = i + 6
        /\ i + 1 <= n /\ ((i + 1) + 1) + 3 <= n
    BY <1>0, <2>4
  <2>6. PICK k \in Nat : k = (i + 1) + 1
    BY <1>0
  <2>7. /\ s[i] = BACKSLASH /\ s[i + 1] = LETTER_U
        /\ s[k] = 48 /\ s[k + 1] = 48 /\ s[k + 2] = x /\ s[k + 3] = y
    <3>1. \A j \in 1..6 : s[i - 1 + j] = EscapeOf(ch)[j]
      BY <2>4
    <3>2. /\ s[i - 1 + 1] = BACKSLASH /\ s[i - 1 + 2] = LETTER_U /\ s[i - 1 + 3] = 48
          /\ s[i - 1 + 4] = 48 /\ s[i - 1 + 5] = x /\ s[i - 1 + 6] = y
      BY <2>4, <3>1
    <3> QED BY <2>5, <2>6, <3>2
  <2>8. IsHex(x) /\ IsHex(y) /\ Hex(x) = a /\ Hex(y) = b
    BY <2>2, HexDigits
  <2>9. IsHex(48) /\ Hex(48) = 0
    <3>1. 48 \in Digits /\ 48 \notin 65..70 /\ 48 \notin 97..102
      BY SMT DEF Digits
    <3> QED BY <3>1 DEF IsHex, Hex
  <2>10. HasCodepoint(s, k)
    <3>1. \A j \in k..k + 3 : j = k \/ j = k + 1 \/ j = k + 2 \/ j = k + 3
      BY <2>6, SMTT(30)
    <3>2. \A j \in k..k + 3 : IsHex(s[j])
      BY <2>7, <2>8, <2>9, <3>1
    <3>3. k + 3 <= Len(s)
      BY <1>0, <2>5, <2>6
    <3> QED BY <3>2, <3>3 DEF HasCodepoint
  <2>11. Codepoint(s, k) = ch
    <3>1. Codepoint(s, k) = 0 * 4096 + 0 * 256 + a * 16 + b
      BY <2>7, <2>8, <2>9, SMT DEF Codepoint
    <3>2. 0 * 4096 + 0 * 256 + a * 16 + b = a * 16 + b
      BY SMT
    <3> QED BY <2>1, <3>1, <3>2
  <2>12. ch \in Nat /\ ch < 32
    BY <1>2 DEF Byte
  <2>13. ~IsSurrogate(ch)
    BY <2>12, ControlsAreNoSurrogates
  <2>14. Utf8(ch) = <<ch>>
    <3>1. ch <= 127 /\ ~(ch \in 128..2047) /\ ~(ch >= 2048)
      BY <2>12, ControlsAreOneByte
    <3> QED BY <3>1 DEF Utf8
  <2>15. s[i + 1] \notin DOMAIN Escapes
    BY <2>7, EscapeTable DEF LETTER_U
  <2>16. Escape(s, i + 1) = Parsed(Utf8(Codepoint(s, k)), (i + 1) + 5)
    BY <1>0, <2>5, <2>6, <2>7, <2>10, <2>11, <2>13, <2>15 DEF Escape
  <2>17. UnitAt(s, i) = Parsed(<<ch>>, i + 6)
    BY <2>5, <2>7, <2>11, <2>14, <2>16 DEF UnitAt
  <2> QED BY <2>4, <2>7, <2>17 DEF BACKSLASH, QUOTE
<1>3. CASE ch \in Printable \ {BACKSLASH, QUOTE} /\ EscapeOf(ch) = <<ch>>
  <2>1. Len(EscapeOf(ch)) = 1 /\ EscapeOf(ch)[1] = ch /\ i - 1 + 1 = i /\ 1 \in 1..1
    BY <1>0, <1>3
  <2>2. s[i] = ch
    BY <2>1
  <2> QED BY <1>3, <2>1, <2>2 DEF UnitAt
<1> QED BY <1>1, <1>2, <1>3, FourWays

-----------------------------------------------------------------------------
(* What json_quote writes, parse_json_string_value reads *)

\* A string between quotes, and where each byte of it is written
Quoted(v, w, pos) ==
    /\ w \in Seq(Printable) /\ Len(w) = pos[Len(v)] + 2
    /\ w[1] = QUOTE /\ w[Len(w)] = QUOTE
    /\ pos[0] = 0
    /\ \A i \in 0..Len(v) : pos[i] \in Nat /\ pos[i] + 2 <= Len(w)
    /\ \A i \in 1..Len(v) : /\ pos[i] = pos[i - 1] + Len(EscapeOf(v[i]))
                            /\ \A j \in 1..Len(EscapeOf(v[i])) :
                                  w[pos[i - 1] + 1 + j] = EscapeOf(v[i])[j]

LEMMA QuotedShape ==
    ASSUME NEW v \in Seq(Byte)
    PROVE  \E pos : Quoted(v, json_quote(v), pos)
<1>1. PICK n \in Nat : n = Len(v) /\ DOMAIN v = 1..n
  OBVIOUS
<1> DEFINE ss == [i \in DOMAIN v |-> EscapeOf(v[i])]
<1>2. ss \in Seq(Seq(Printable)) /\ Len(ss) = n /\ \A i \in 1..n : ss[i] = EscapeOf(v[i])
  <2>1. \A i \in 1..n : v[i] \in Byte
    BY <1>1
  <2>2. \A i \in 1..n : EscapeOf(v[i]) \in Seq(Printable)
    BY <2>1, EscapePrints
  <2>3. ss = [i \in 1..n |-> EscapeOf(v[i])]
    BY <1>1
  <2> QED BY <2>2, <2>3
<1>3. PICK word : word = FlattenSeq(ss)
  OBVIOUS
<1>4. json_quote(v) = Cat(Cat(<<QUOTE>>, word), <<QUOTE>>)
  BY <1>3 DEF json_quote, Cat
<1> HIDE DEF ss
<1>5. word \in Seq(Printable) /\ \E pos : Positions(pos, ss, word)
  BY <1>2, <1>3, FlattenParts
<1>6. PICK pos : Positions(pos, ss, word)
  BY <1>5
<1>7. PICK f \in Nat : f = Len(word)
  BY <1>5
<1>8. PICK q \in Seq(Printable) : q = <<QUOTE>>
  <2>1. QUOTE \in Printable
    BY SMT DEF Printable, QUOTE
  <2>2. <<QUOTE>> \in Seq(Printable)
    BY <2>1
  <2> QED BY <2>2
<1>9. Len(q) = 1 /\ q[1] = QUOTE
  BY <1>8
<1>10. PICK half \in Seq(Printable) : half = Cat(q, word)
  BY <1>5, CatParts
<1>11. Len(half) = f + 1 /\ half[1] = QUOTE /\ \A i \in 1..f : half[i + 1] = word[i]
  <2>1. /\ Len(half) = Len(q) + Len(word)
        /\ \A i \in 1..Len(q) + Len(word) :
              half[i] = IF i <= Len(q) THEN q[i] ELSE word[i - Len(q)]
    BY <1>5, <1>10, CatParts
  <2>2. Len(half) = f + 1 /\ \A i \in 1..f + 1 : half[i] = IF i <= 1 THEN q[i] ELSE word[i - 1]
    <3>1. 1 + f = f + 1
      BY <1>7
    <3> QED BY <1>7, <1>9, <2>1, <3>1
  <2>3. 1 \in 1..f + 1 /\ \A i \in 1..f : i + 1 \in 1..f + 1 /\ ~(i + 1 <= 1) /\ (i + 1) - 1 = i
    BY <1>7
  <2> QED BY <1>9, <2>2, <2>3
<1>12. PICK w \in Seq(Printable) : w = Cat(half, q)
  BY CatParts
<1>13. Len(w) = f + 2 /\ w[f + 2] = QUOTE /\ \A i \in 1..f + 1 : w[i] = half[i]
  <2>1. /\ Len(w) = Len(half) + Len(q)
        /\ \A i \in 1..Len(half) + Len(q) :
              w[i] = IF i <= Len(half) THEN half[i] ELSE q[i - Len(half)]
    BY <1>12, CatParts
  <2>2. /\ Len(w) = f + 2
        /\ \A i \in 1..f + 2 : w[i] = IF i <= f + 1 THEN half[i] ELSE q[i - (f + 1)]
    <3>1. (f + 1) + 1 = f + 2
      BY <1>7
    <3> QED BY <1>9, <1>11, <2>1, <3>1
  <2>3. /\ f + 2 \in 1..f + 2 /\ ~(f + 2 <= f + 1) /\ f + 2 - (f + 1) = 1
        /\ \A i \in 1..f + 1 : i \in 1..f + 2 /\ i <= f + 1
    BY <1>7
  <2> QED BY <1>9, <2>2, <2>3
<1>14. w[1] = QUOTE /\ \A i \in 1..f : w[i + 1] = word[i]
  <2>1. 1 \in 1..f + 1 /\ \A i \in 1..f : i + 1 \in 1..f + 1
    BY <1>7
  <2> QED BY <1>11, <1>13, <2>1
<1>15. /\ pos[0] = 0 /\ f = pos[n]
       /\ \A i \in 0..n : pos[i] \in Nat /\ pos[i] <= f
       /\ \A i \in 1..n : pos[i] = pos[i - 1] + Len(EscapeOf(v[i]))
       /\ \A i \in 1..n : \A j \in 1..Len(EscapeOf(v[i])) :
             word[pos[i - 1] + j] = EscapeOf(v[i])[j]
  BY <1>2, <1>6, <1>7, SMTT(30) DEF Positions
<1>16. ASSUME NEW i \in 1..n, NEW j \in 1..Len(EscapeOf(v[i]))
       PROVE  w[pos[i - 1] + 1 + j] = EscapeOf(v[i])[j]
  <2>1. i \in 0..n /\ i - 1 \in 0..n
    BY <1>1
  <2>2. PICK a, l, e : a = pos[i - 1] /\ l = Len(EscapeOf(v[i])) /\ e = pos[i]
    OBVIOUS
  <2>3. a \in Nat /\ e \in Nat /\ e <= f /\ e = a + l /\ j \in 1..l
    BY <1>15, <2>1, <2>2
  <2>4. l \in Nat
    <3>1. v[i] \in Byte
      BY <1>1
    <3>2. EscapeOf(v[i]) \in Seq(Printable)
      BY <3>1, EscapePrints
    <3> QED BY <2>2, <3>2
  <2>5. a + j \in 1..f /\ a + 1 + j = (a + j) + 1
    BY <1>7, <2>3, <2>4
  <2>6. w[a + 1 + j] = word[a + j]
    BY <1>14, <2>5
  <2> QED BY <1>15, <2>2, <2>6
<1>17. Quoted(v, w, pos)
  <2>1. \A i \in 0..n : pos[i] + 2 <= f + 2
    BY <1>7, <1>15
  <2> QED BY <1>1, <1>13, <1>14, <1>15, <1>16, <2>1 DEF Quoted
<1> QED BY <1>4, <1>8, <1>10, <1>12, <1>17

\* So a string comes back as it went, and no control character is written.
LEMMA WrittenReads ==
    ASSUME NEW v \in Seq(Byte)
    PROVE  /\ parse_json_string_value(json_quote(v), 1)
              = Parsed(v, Len(json_quote(v)) + 1)
           /\ \A i \in DOMAIN json_quote(v) : json_quote(v)[i] >= SPACE
<1>1. PICK w, pos : w = json_quote(v) /\ Quoted(v, w, pos)
  BY QuotedShape
<1>2. PICK n \in Nat : n = Len(v)
  OBVIOUS
<1>3. \A i \in DOMAIN w : w[i] \in Printable
  BY <1>1 DEF Quoted
<1>4. w \in Seq(Byte)
  <2>1. Printable \subseteq Byte
    BY DEF Printable, Byte
  <2> QED BY <1>1, <2>1, SeqMonotonic DEF Quoted
<1>5. PICK l \in Nat : l = Len(w)
  BY <1>4
<1> DEFINE Good(k) == StringRest(w)[pos[k] + 2] = Parsed(SubSeq(v, k + 1, n), l + 1)
           T == {m \in Nat : m <= n => Good(n - m)}
<1>6. 0 \in T
  <2>1. pos[n] + 2 = l /\ w[l] = QUOTE /\ l \in 1..l + 1 /\ ~(l > l)
    <3>1. pos[n] \in Nat /\ l = pos[n] + 2 /\ w[l] = QUOTE
      BY <1>1, <1>2, <1>5 DEF Quoted
    <3> QED BY <1>5, <3>1
  <2>2. StringRest(w)[l] = ReadRest(w, StringRest(w), l)
    BY <1>4, <1>5, <2>1, StringRestIs
  <2>3. StringRest(w)[l] = Parsed(<<>>, l + 1)
    BY <1>5, <2>1, <2>2 DEF ReadRest
  <2>4. SubSeq(v, n + 1, n) = <<>> /\ n - 0 = n
    <3>1. n + 1 > n
      OBVIOUS
    <3> QED BY <1>2, <3>1, SubSeqEmpty
  <2> QED BY <2>1, <2>3, <2>4
<1>7. ASSUME NEW m \in Nat, m \in T
      PROVE  m + 1 \in T
  <2> SUFFICES ASSUME m + 1 <= n
               PROVE  Good(n - (m + 1))
    OBVIOUS
  <2>1. PICK k \in 1..n : n - (m + 1) = k - 1 /\ n - m = k /\ (k - 1) + 1 = k
    OBVIOUS
  <2>2. StringRest(w)[pos[k] + 2] = Parsed(SubSeq(v, k + 1, n), l + 1)
    BY <1>7, <2>1
  <2> HIDE DEF Good
  <2>3. v[k] \in Byte
    BY <1>2
  <2>4. PICK e \in Seq(Printable) : e = EscapeOf(v[k])
    BY <2>3, EscapePrints
  <2>5. PICK a \in Nat, b \in Nat, c \in Nat : a = pos[k - 1] /\ b = pos[k] /\ c = Len(e)
    <3>1. k - 1 \in 0..n /\ k \in 0..n
      OBVIOUS
    <3>2. pos[k - 1] \in Nat /\ pos[k] \in Nat /\ Len(e) \in Nat
      BY <1>1, <1>2, <2>4, <3>1 DEF Quoted
    <3> QED BY <3>2
  <2>6. b = a + c /\ b + 2 <= l /\ \A j \in 1..c : w[a + 1 + j] = e[j]
    <3>1. k \in 0..n
      OBVIOUS
    <3> QED BY <1>1, <1>2, <1>5, <2>4, <2>5, <3>1 DEF Quoted
  <2>7. PICK i \in 1..l : i = a + 2
    BY <2>6
  <2>8. i + c <= l + 1 /\ i + c = b + 2 /\ \A j \in 1..c : i - 1 + j = a + 1 + j
    BY <2>6, <2>7
  <2>9. w[i] # QUOTE /\ UnitAt(w, i) = Parsed(<<v[k]>>, i + c)
    <3>1. \A j \in 1..c : w[i - 1 + j] = e[j]
      BY <2>6, <2>8
    <3> QED BY <1>4, <1>5, <2>3, <2>4, <2>5, <2>8, <3>1, EscapeReads
  <2>10. /\ UnitAt(w, i).ok /\ UnitAt(w, i).value = <<v[k]>>
         /\ UnitAt(w, i).at = b + 2
    BY <2>8, <2>9 DEF Parsed
  <2>11. /\ StringRest(w)[b + 2].ok /\ StringRest(w)[b + 2].at = l + 1
         /\ StringRest(w)[b + 2].value = SubSeq(v, k + 1, n)
    BY <2>2, <2>5 DEF Parsed
  <2>12. StringRest(w)[i] = ReadRest(w, StringRest(w), i) /\ ~(i > Len(w))
    <3>1. i \in 1..Len(w) + 1 /\ ~(i > Len(w))
      BY <1>5
    <3> QED BY <1>4, <3>1, StringRestIs
  <2>13. StringRest(w)[i] = Parsed(<<v[k]>> \o SubSeq(v, k + 1, n), l + 1)
    BY <2>9, <2>10, <2>11, <2>12 DEF ReadRest
  <2>14. StringRest(w)[a + 2] = Parsed(SubSeq(v, k, n), l + 1)
    <3>1. k \in 1..Len(v) /\ n \in k..Len(v)
      BY <1>2
    <3>2. SubSeq(v, k, n) = <<v[k]>> \o SubSeq(v, k + 1, n)
      BY <3>1, SubSeqRecursiveFirst
    <3> QED BY <2>7, <2>13, <3>2
  <2> QED BY <2>1, <2>5, <2>14 DEF Good
<1> HIDE DEF T
<1>8. n \in T
  BY <1>6, <1>7, SetInduction
<1>9. Good(0)
  <2>1. n <= n /\ n - n = 0
    OBVIOUS
  <2> QED BY <1>8, <2>1 DEF T
<1>10. StringRest(w)[2] = Parsed(v, l + 1)
  <2>1. pos[0] + 2 = 2 /\ 0 + 1 = 1
    BY <1>1 DEF Quoted
  <2>2. SubSeq(v, 1, n) = v
    BY <1>2, SubSeqFull
  <2> QED BY <1>9, <2>1, <2>2
<1>11. At(w, 1, QUOTE)
  <2>1. pos[n] \in Nat /\ l = pos[n] + 2 /\ w[1] = QUOTE
    BY <1>1, <1>2, <1>5 DEF Quoted
  <2>2. 1 <= Len(w)
    BY <1>5, <2>1
  <2> QED BY <2>1, <2>2 DEF At
<1>12. parse_json_string_value(w, 1) = Parsed(v, l + 1)
  <2>1. 1 + 1 = 2
    OBVIOUS
  <2> QED BY <1>10, <1>11, <2>1 DEF parse_json_string_value
<1>13. \A i \in DOMAIN w : w[i] >= SPACE
  <2>1. \A ch \in Printable : ch >= SPACE
    BY SMT DEF Printable, SPACE
  <2> QED BY <1>3, <2>1
<1> QED BY <1>1, <1>5, <1>12, <1>13

-----------------------------------------------------------------------------
(* The calls, the outermost first *)

GoodValue(value) == value[1] = "string" => value[2] \in Seq(Byte)
GoodMembers(members) == \A key \in DOMAIN members : GoodValue(members[key])

\* A call has read elements, or members whose strings are bytes.
GoodCall(call) ==
    /\ call = [type |-> call.type, items |-> call.items, key |-> call.key]
    /\ call.type \in {"array", "object"}
    /\ call.type = "object" => GoodMembers(call.items)

GoodCalls(cs) ==
    /\ \E S : cs \in Seq(S) /\ \A call \in S : GoodCall(call)
    /\ cs # <<>> => cs[1].type = "object"

\* A call is made.
LEMMA CallsPush ==
    ASSUME NEW cs, GoodCalls(cs), NEW call, GoodCall(call),
           cs = <<>> => call.type = "object"
    PROVE  GoodCalls(Append(cs, call)) /\ Append(cs, call) # <<>>
<1>1. PICK S : cs \in Seq(S) /\ \A c \in S : GoodCall(c)
  BY DEF GoodCalls
<1>2. PICK U : U = S \cup {call}
  OBVIOUS
<1>3. cs \in Seq(U) /\ call \in U /\ \A c \in U : GoodCall(c)
  <2>1. S \subseteq U
    BY <1>2
  <2> QED BY <1>1, <1>2, <2>1, SeqMonotonic
<1>4. PICK n \in Nat : n = Len(cs)
  BY <1>3
<1>5. PICK ds \in Seq(U) : ds = Append(cs, call)
  BY <1>3, AppendProperties
<1>6. /\ ds # <<>> /\ \A i \in 1..n : ds[i] = cs[i]
      /\ ds[n + 1] = call
  BY <1>3, <1>4, <1>5, AppendProperties
<1>7. ds[1].type = "object"
  <2>1. CASE cs = <<>>
    <3>1. n = 0 /\ 0 + 1 = 1
      BY <1>4, <2>1
    <3> QED BY <1>6, <2>1, <3>1
  <2>2. CASE cs # <<>>
    <3>1. 1 \in 1..n
      BY <1>3, <1>4, <2>2, EmptySeq
    <3> QED BY <1>6, <2>2, <3>1 DEF GoodCalls
  <2> QED BY <2>1, <2>2
<1> QED BY <1>3, <1>5, <1>6, <1>7 DEF GoodCalls

\* A call returns.
LEMMA CallsPop ==
    ASSUME NEW cs, GoodCalls(cs), cs # <<>>
    PROVE  /\ GoodCalls(Front(cs)) /\ GoodCall(Last(cs))
           /\ Front(cs) = <<>> => Last(cs).type = "object"
<1>1. PICK S : cs \in Seq(S) /\ \A c \in S : GoodCall(c)
  BY DEF GoodCalls
<1>2. PICK n \in Nat : n = Len(cs) /\ n >= 1
  BY <1>1
<1>3. \A i \in 1..n : cs[i] \in S
  BY <1>1, <1>2
<1>4. GoodCall(Last(cs))
  <2>1. n \in 1..n
    BY <1>2
  <2> QED BY <1>1, <1>2, <1>3, <2>1 DEF Last
<1>5. PICK fs : fs = Front(cs)
  OBVIOUS
<1>6. fs \in Seq(S) /\ Len(fs) = n - 1 /\ \A i \in 1..n - 1 : fs[i] = cs[i]
  <2>1. n - 1 \in Int /\ 1 \in Int /\ \A i \in 1..n - 1 : i \in 1..n
    BY <1>2
  <2>2. fs = SubSeq(cs, 1, n - 1)
    BY <1>2, <1>5 DEF Front
  <2>3. \A i \in 1..n - 1 : cs[i] \in S
    BY <1>3, <2>1
  <2>4. /\ fs \in Seq(S)
        /\ Len(fs) = IF 1 <= n - 1 THEN n - 1 - 1 + 1 ELSE 0
        /\ \A i \in 1..n - 1 - 1 + 1 : fs[i] = cs[1 + i - 1]
    BY <2>1, <2>2, <2>3, SubSeqProperties
  <2>5. n - 1 - 1 + 1 = n - 1 /\ (~(1 <= n - 1) => n - 1 = 0)
        /\ \A i \in 1..n - 1 : 1 + i - 1 = i
    BY <1>2
  <2> QED BY <2>4, <2>5
<1>7. fs # <<>> => fs[1].type = "object"
  <2> SUFFICES ASSUME fs # <<>>
               PROVE  fs[1].type = "object"
    OBVIOUS
  <2>1. n - 1 # 0
    BY <1>6, EmptySeq
  <2>2. 1 \in 1..n - 1
    BY <1>2, <2>1
  <2> QED BY <1>6, <2>2 DEF GoodCalls
<1>8. fs = <<>> => Last(cs).type = "object"
  <2> SUFFICES ASSUME fs = <<>>
               PROVE  Last(cs).type = "object"
    OBVIOUS
  <2>1. n = 1
    <3>1. Len(fs) = 0
      OBVIOUS
    <3>2. Len(fs) = n - 1
      BY <1>6
    <3>3. n - 1 = 0
      BY <3>1, <3>2
    <3> QED BY <3>3
  <2> QED BY <1>2, <2>1 DEF GoodCalls, Last
<1> QED BY <1>1, <1>4, <1>5, <1>6, <1>7, <1>8 DEF GoodCalls

\* A value is stored in the call that waits for it.
LEMMA StoreKeeps ==
    ASSUME NEW call, GoodCall(call), NEW value, GoodValue(value)
    PROVE  GoodCall(Store(call, value)) /\ Store(call, value).type = call.type
<1>1. PICK t, m, k : t = call.type /\ m = call.items /\ k = call.key
  OBVIOUS
<1>2. call = [type |-> t, items |-> m, key |-> k]
  BY <1>1 DEF GoodCall
<1>3. PICK i : i = IF t = "array" THEN Append(m, value) ELSE StoreMember(m, k, value)
  OBVIOUS
<1>4. Store(call, value) = [type |-> t, items |-> i, key |-> k]
  BY <1>2, <1>3, SMTT(30) DEF Store
<1>5. t = "object" => GoodMembers(i)
  <2> SUFFICES ASSUME t = "object"
               PROVE  GoodMembers(i)
    OBVIOUS
  <2>1. i = StoreMember(m, k, value)
    BY <1>3
  <2>2. GoodMembers(m)
    BY <1>1 DEF GoodCall
  <2> QED BY <2>1, <2>2 DEF GoodMembers, StoreMember
<1>6. t \in {"array", "object"}
  BY <1>1 DEF GoodCall
<1> QED BY <1>1, <1>4, <1>5, <1>6 DEF GoodCall

-----------------------------------------------------------------------------
(* The inductive invariant *)

Unanswered == answer = Unread

JsonInv ==
    /\ body \in Seq(Byte) /\ at \in Nat \ {0}
    /\ reading \in {"body", "key", "value", "end"}
    /\ GoodCalls(calls)
    /\ reading = "body" => calls = <<>>
    /\ reading # "body" /\ answer = Unread => calls # <<>>
    /\ answer.ok => GoodMembers(answer.value[2])

\* White space ends at a place.
LEMMA SkipsToPlace ==
    ASSUME NEW s \in Seq(Byte), NEW i \in Nat \ {0}
    PROVE  skip_json_ws(s, i) \in Nat \ {0}
<1>1. PICK n \in Nat : n = Len(s)
  OBVIOUS
<1> DEFINE words == {j \in i..Len(s) : s[j] \notin isspace}
<1>2. CASE words = {}
  <2>1. skip_json_ws(s, i) = n + 1
    BY <1>1, <1>2 DEF skip_json_ws
  <2> QED BY <2>1
<1>3. CASE words # {}
  <2>1. \A j \in words : j \in Nat \ {0}
    BY <1>1
  <2>2. skip_json_ws(s, i) = Min(words)
    BY <1>3 DEF skip_json_ws
  <2> HIDE DEF words
  <2>3. words \subseteq Nat
    BY <2>1
  <2>4. \E x \in words : \A y \in words : x <= y
    BY <1>3, <2>3, LeastNatural
  <2>5. Min(words) \in words
    BY <2>4 DEF Min
  <2> QED BY <2>1, <2>2, <2>5
<1> QED BY <1>2, <1>3

\* A string of the body is bytes, and ends at a place.
LEMMA BodyStrings ==
    ASSUME NEW s \in Seq(Byte), NEW i \in Nat \ {0}, parse_json_string_value(s, i).ok
    PROVE  /\ parse_json_string_value(s, i).value \in Seq(Byte)
           /\ parse_json_string_value(s, i).at \in Nat \ {0}
<1>1. PICK n \in Nat : n = Len(s)
  OBVIOUS
<1>2. At(s, i, QUOTE)
  BY DEF parse_json_string_value, Refused
<1>3. i <= n
  BY <1>1, <1>2 DEF At
<1>4. i + 1 \in 1..n + 1
  BY <1>3
<1>5. parse_json_string_value(s, i) = StringRest(s)[i + 1]
  BY <1>2 DEF parse_json_string_value
<1>6. PICK v \in Seq(Byte), e \in Nat \ {0} : StringRest(s)[i + 1] = Parsed(v, e)
  BY <1>1, <1>4, <1>5, StringBytes
<1> QED BY <1>5, <1>6 DEF Parsed

\* What Return leaves, whichever action makes it
LEMMA ReturnKeeps ==
    ASSUME JsonInv, answer = Unread, body' = body,
           NEW outer, GoodCalls(outer), NEW value, GoodValue(value),
           outer = <<>> => GoodMembers(value[2]),
           NEW i \in Nat \ {0}, Return(outer, value, i),
           reading = "body" => outer = <<>>
    PROVE  JsonInv'
<1>1. body' \in Seq(Byte) /\ at' \in Nat \ {0}
  BY DEF JsonInv, Return
<1>2. CASE outer # <<>>
  <2>1. /\ calls' = Append(Front(outer), Store(Last(outer), value))
        /\ reading' = "end" /\ answer' = answer
    BY <1>2 DEF Return
  <2>2. /\ GoodCalls(Front(outer)) /\ GoodCall(Last(outer))
        /\ Front(outer) = <<>> => Last(outer).type = "object"
    BY <1>2, CallsPop
  <2>3. /\ GoodCall(Store(Last(outer), value))
        /\ Store(Last(outer), value).type = Last(outer).type
    BY <2>2, StoreKeeps
  <2>4. GoodCalls(calls') /\ calls' # <<>>
    BY <2>1, <2>2, <2>3, CallsPush
  <2>5. ~answer'.ok
    BY <2>1 DEF Unread
  <2>6. (GoodCalls(calls))'
    BY <2>4 DEF GoodCalls
  <2> QED BY <1>1, <2>1, <2>4, <2>5, <2>6 DEF JsonInv
<1>3. CASE outer = <<>>
  <2>1. /\ calls' = <<>> /\ reading' = reading
        /\ answer' = Parsed(value, i) \/ answer' = Refused
    BY <1>3 DEF Return
  <2>2. answer' # Unread
    <3>1. Refused # Unread
      <4>1. Refused.read /\ ~Unread.read
        BY DEF Refused, Unread
      <4> QED BY <4>1
    <3>2. Parsed(value, i) # Unread
      <4>1. Parsed(value, i).ok /\ ~Unread.ok
        BY DEF Parsed, Unread
      <4> QED BY <4>1
    <3> QED BY <2>1, <3>1, <3>2
  <2>3. answer'.ok => GoodMembers(answer'.value[2])
    <3>1. CASE answer' = Refused
      BY <3>1 DEF Refused
    <3>2. CASE answer' = Parsed(value, i)
      <4>1. answer'.value = value
        BY <3>2 DEF Parsed
      <4> QED BY <1>3, <4>1
    <3> QED BY <2>1, <3>1, <3>2
  <2>4. GoodCalls(<<>>)
    BY <1>3
  <2>5. reading' \in {"body", "key", "value", "end"}
    BY <2>1 DEF JsonInv
  <2>6. (GoodMembers(answer.value[2]))' = GoodMembers(answer'.value[2])
    BY DEF GoodMembers
  <2>7. (GoodCalls(calls))'
    BY <2>1, <2>4 DEF GoodCalls
  <2> QED BY <1>1, <2>1, <2>2, <2>3, <2>5, <2>6, <2>7 DEF JsonInv
<1> QED BY <1>2, <1>3

\* What Open leaves
LEMMA OpenKeeps ==
    ASSUME JsonInv, answer = Unread, body' = body,
           NEW type \in {"array", "object"}, calls = <<>> => type = "object",
           NEW i \in Nat \ {0}, Open(type, i)
    PROVE  JsonInv'
<1>1. PICK first \in Nat \ {0} : first = skip_json_ws(body, i + 1)
  <2>1. i + 1 \in Nat \ {0}
    OBVIOUS
  <2> QED BY <2>1, SkipsToPlace DEF JsonInv
<1>2. GoodMembers(<<>>)
  BY DEF GoodMembers
<1>3. CASE At(body, first, CLOSE[type])
  <2>1. Return(calls, <<type, <<>>>>, first + 1)
    BY <1>1, <1>3 DEF Open
  <2>2. first + 1 \in Nat \ {0}
    OBVIOUS
  <2>3. PICK value : value = <<type, <<>>>>
    OBVIOUS
  <2>4. GoodValue(value) /\ GoodMembers(value[2])
    BY <1>2, <2>3 DEF GoodValue
  <2>5. GoodCalls(calls) /\ (reading = "body" => calls = <<>>)
    BY DEF JsonInv
  <2> QED BY <2>1, <2>2, <2>3, <2>4, <2>5, ReturnKeeps
<1>4. CASE ~At(body, first, CLOSE[type])
  <2>1. PICK call : call = [type |-> type, items |-> <<>>, key |-> <<>>]
    OBVIOUS
  <2>2. /\ calls' = Append(calls, call) /\ at' = first /\ reading' = Turn[type]
        /\ answer' = answer
    BY <1>1, <1>4, <2>1 DEF Open
  <2>3. GoodCall(call) /\ call.type = type
    BY <1>2, <2>1 DEF GoodCall
  <2>4. GoodCalls(calls') /\ calls' # <<>>
    BY <2>2, <2>3, CallsPush DEF JsonInv
  <2>5. (GoodCalls(calls))'
    BY <2>4 DEF GoodCalls
  <2>6. reading' \in {"key", "value"}
    BY <2>2 DEF Turn
  <2>7. ~answer'.ok
    BY <2>2 DEF Unread
  <2>8. body' \in Seq(Byte)
    BY DEF JsonInv
  <2> QED BY <2>2, <2>4, <2>5, <2>6, <2>7, <2>8 DEF JsonInv
<1> QED BY <1>3, <1>4

\* A part of a text is a text.
LEMMA PartsAreBytes ==
    ASSUME NEW s \in Seq(Byte), NEW i \in Nat \ {0}, NEW j \in Int, j <= Len(s)
    PROVE  SubSeq(s, i, j) \in Seq(Byte)
<1>1. \A k \in i..j : s[k] \in Byte
  <2>1. PICK n \in Nat : n = Len(s)
    OBVIOUS
  <2>2. \A k \in i..j : k \in 1..n
    BY <2>1
  <2>3. \A k \in 1..n : s[k] \in Byte
    BY <2>1
  <2> QED BY <2>2, <2>3
<1> QED BY <1>1, SubSeqProperties

\* A slip leaves bytes.
LEMMA SlipsAreBytes ==
    ASSUME NEW s \in Seq(Byte), NEW i \in 1..Len(s) + 1, NEW ch \in Byte
    PROVE  /\ InsertAt(s, i, ch) \in Seq(Byte)
           /\ i \in DOMAIN s => ReplaceAt(s, i, ch) \in Seq(Byte) /\ RemoveAt(s, i) \in Seq(Byte)
<1>1. PICK n \in Nat : n = Len(s) /\ i \in 1..n + 1
  OBVIOUS
<1>2. PICK a \in Seq(Byte), b \in Seq(Byte), c \in Seq(Byte) :
          a = SubSeq(s, 1, i - 1) /\ b = SubSeq(s, i, Len(s)) /\ c = SubSeq(s, i + 1, Len(s))
  <2>1. 1 \in Nat \ {0} /\ i - 1 \in Int /\ i - 1 <= n
    BY <1>1
  <2>2. i \in Nat \ {0} /\ i + 1 \in Nat \ {0} /\ n \in Int /\ n <= n
    BY <1>1
  <2>3. SubSeq(s, 1, i - 1) \in Seq(Byte)
    BY <1>1, <2>1, PartsAreBytes
  <2>4. SubSeq(s, i, Len(s)) \in Seq(Byte) /\ SubSeq(s, i + 1, Len(s)) \in Seq(Byte)
    BY <1>1, <2>2, PartsAreBytes
  <2> QED BY <2>3, <2>4
<1>3. <<ch>> \in Seq(Byte)
  OBVIOUS
<1>4. (a \o <<ch>>) \o b \in Seq(Byte) /\ a \o c \in Seq(Byte)
  <2>1. a \o <<ch>> \in Seq(Byte)
    BY <1>3, ConcatProperties
  <2> QED BY <2>1, ConcatProperties
<1>5. [s EXCEPT ![i] = ch] \in Seq(Byte)
  <2>1. s \in [1..n -> Byte]
    BY <1>1
  <2>2. [s EXCEPT ![i] = ch] \in [1..n -> Byte]
    BY <2>1
  <2> QED BY <1>1, <2>2
<1> QED BY <1>2, <1>4, <1>5 DEF InsertAt, ReplaceAt, RemoveAt

\* A refusal leaves no value.
LEMMA RefuseKeeps ==
    ASSUME JsonInv, body' = body, Refuse
    PROVE  JsonInv'
<1>1. /\ answer' = Refused /\ calls' = calls /\ at' = at /\ reading' = reading
  BY DEF Refuse
<1>2. Refused # Unread /\ ~Refused.ok
  <2>1. Refused.read /\ ~Unread.read /\ ~Refused.ok
    BY DEF Refused, Unread
  <2> QED BY <2>1
<1>3. (GoodCalls(calls))'
  BY <1>1 DEF JsonInv, GoodCalls
<1> QED BY <1>1, <1>2, <1>3 DEF JsonInv

LEMMA SlipKeeps ==
    ASSUME JsonInv, Slip
    PROVE  JsonInv'
<1>1. PICK i \in 1..Len(body) + 1, ch \in Alphabet :
          body' \in {InsertAt(body, i, ch)}
                   \cup (IF i \in DOMAIN body THEN {ReplaceAt(body, i, ch), RemoveAt(body, i)}
                         ELSE {})
  BY DEF Slip
<1>2. ch \in Byte /\ body \in Seq(Byte)
  BY AlphabetAssumption DEF JsonInv, Byte
<1>3. /\ InsertAt(body, i, ch) \in Seq(Byte)
      /\ i \in DOMAIN body =>
            ReplaceAt(body, i, ch) \in Seq(Byte) /\ RemoveAt(body, i) \in Seq(Byte)
  BY <1>2, SlipsAreBytes
<1>4. body' \in Seq(Byte)
  <2>1. CASE i \in DOMAIN body
    BY <1>1, <1>3, <2>1
  <2>2. CASE i \notin DOMAIN body
    BY <1>1, <1>3, <2>2
  <2> QED BY <2>1, <2>2
<1>5. calls' = calls /\ at' = at /\ reading' = reading /\ answer' = answer
  BY DEF Slip
<1>6. (GoodCalls(calls))' /\ (answer.ok => GoodMembers(answer.value[2]))'
  BY <1>5 DEF JsonInv, GoodCalls, GoodMembers
<1> QED BY <1>4, <1>5, <1>6 DEF JsonInv

LEMMA ReadBodyKeeps ==
    ASSUME JsonInv, ReadBody
    PROVE  JsonInv'
<1>1. PICK i \in Nat \ {0} : i = skip_json_ws(body, at)
  BY SkipsToPlace DEF JsonInv
<1>2. /\ answer = Unread /\ body' = body
      /\ IF At(body, i, OPEN.object) THEN Open("object", i) ELSE Refuse
  BY <1>1 DEF ReadBody
<1>3. CASE Open("object", i)
  BY <1>2, <1>3, OpenKeeps
<1>4. CASE Refuse
  BY <1>2, <1>4, RefuseKeeps
<1> QED BY <1>2, <1>3, <1>4

LEMMA ReadKeyKeeps ==
    ASSUME JsonInv, ReadKey
    PROVE  JsonInv'
<1>0. PICK i \in Nat \ {0} : i = skip_json_ws(body, at)
  BY SkipsToPlace DEF JsonInv
<1>1. PICK key : key = parse_json_string_value(body, i)
  OBVIOUS
<1>2. PICK colon : colon = skip_json_ws(body, key.at)
  OBVIOUS
<1>3. /\ reading = "key" /\ answer = Unread /\ body' = body
      /\ IF key.ok /\ At(body, colon, COLON)
         THEN /\ calls' = Append(Front(calls), [Last(calls) EXCEPT !.key = key.value])
              /\ at' = colon + 1
              /\ reading' = "value"
              /\ UNCHANGED answer
         ELSE Refuse
  BY <1>0, <1>1, <1>2 DEF ReadKey
<1>4. CASE key.ok /\ At(body, colon, COLON)
  <2>1. colon \in Nat \ {0}
    <3>1. body \in Seq(Byte)
      BY DEF JsonInv
    <3>2. key.at \in Nat \ {0}
      BY <1>1, <1>4, <3>1, BodyStrings
    <3> QED BY <1>2, <3>1, <3>2, SkipsToPlace
  <2>2. /\ GoodCalls(Front(calls)) /\ GoodCall(Last(calls))
        /\ Front(calls) = <<>> => Last(calls).type = "object"
    <3>1. GoodCalls(calls) /\ calls # <<>>
      BY <1>3 DEF JsonInv
    <3> QED BY <3>1, CallsPop
  <2>3. PICK call : call = [Last(calls) EXCEPT !.key = key.value]
    OBVIOUS
  <2>4. GoodCall(call) /\ call.type = Last(calls).type
    <3>1. PICK t, m, k : t = Last(calls).type /\ m = Last(calls).items /\ k = Last(calls).key
      OBVIOUS
    <3>2. Last(calls) = [type |-> t, items |-> m, key |-> k]
      BY <2>2, <3>1 DEF GoodCall
    <3>3. call = [type |-> t, items |-> m, key |-> key.value]
      BY <2>3, <3>2
    <3>4. t \in {"array", "object"} /\ (t = "object" => GoodMembers(m))
      BY <2>2, <3>1 DEF GoodCall
    <3> QED BY <3>1, <3>3, <3>4 DEF GoodCall
  <2>5. calls' = Append(Front(calls), call)
    BY <1>3, <1>4, <2>3
  <2>6. GoodCalls(calls') /\ calls' # <<>>
    BY <2>2, <2>4, <2>5, CallsPush
  <2>7. (GoodCalls(calls))'
    BY <2>6 DEF GoodCalls
  <2>8. /\ at' \in Nat \ {0} /\ reading' = "value" /\ body' \in Seq(Byte) /\ ~answer'.ok
    BY <1>3, <1>4, <2>1 DEF JsonInv, Unread
  <2> QED BY <2>6, <2>7, <2>8 DEF JsonInv
<1>5. CASE ~(key.ok /\ At(body, colon, COLON))
  <2>1. Refuse
    BY <1>3, <1>5
  <2> QED BY <1>3, <2>1, RefuseKeeps
<1> QED BY <1>4, <1>5

LEMMA ReadValueKeeps ==
    ASSUME JsonInv, ReadValue
    PROVE  JsonInv'
<1>0. PICK i \in Nat \ {0} : i = skip_json_ws(body, at)
  BY SkipsToPlace DEF JsonInv
<1>1. PICK string : string = parse_json_string_value(body, i)
  OBVIOUS
<1>2. /\ reading = "value" /\ answer = Unread /\ body' = body
      /\ \/ string.ok /\ Return(calls, <<"string", string.value>>, string.at)
         \/ Open("object", i)
         \/ Open("array", i)
         \/ Refuse
  BY <1>0, <1>1 DEF ReadValue
<1>3. calls # <<>> /\ GoodCalls(calls) /\ body \in Seq(Byte)
  BY <1>2 DEF JsonInv
<1>4. CASE string.ok /\ Return(calls, <<"string", string.value>>, string.at)
  <2>1. string.value \in Seq(Byte) /\ string.at \in Nat \ {0}
    BY <1>1, <1>3, <1>4, BodyStrings
  <2>2. PICK value : value = <<"string", string.value>>
    OBVIOUS
  <2>3. GoodValue(value)
    BY <2>1, <2>2 DEF GoodValue
  <2> QED BY <1>2, <1>3, <1>4, <2>1, <2>2, <2>3, ReturnKeeps
<1>5. CASE Open("object", i)
  BY <1>2, <1>3, <1>5, OpenKeeps
<1>6. CASE Open("array", i)
  BY <1>2, <1>3, <1>6, OpenKeeps
<1>7. CASE Refuse
  BY <1>2, <1>7, RefuseKeeps
<1> QED BY <1>2, <1>4, <1>5, <1>6, <1>7

LEMMA EndTurnKeeps ==
    ASSUME JsonInv, EndTurn
    PROVE  JsonInv'
<1>0. PICK i \in Nat \ {0} : i = skip_json_ws(body, at)
  BY SkipsToPlace DEF JsonInv
<1>1. PICK call : call = Last(calls)
  OBVIOUS
<1>2. /\ reading = "end" /\ answer = Unread /\ body' = body
      /\ \/ Return(Front(calls), <<call.type, call.items>>, i + 1)
         \/ at' = i + 1 /\ reading' = Turn[call.type] /\ UNCHANGED <<calls, answer>>
         \/ Refuse
  BY <1>0, <1>1 DEF EndTurn
<1>3. calls # <<>> /\ GoodCalls(calls) /\ i + 1 \in Nat \ {0}
  BY <1>2 DEF JsonInv
<1>4. /\ GoodCalls(Front(calls)) /\ GoodCall(call)
      /\ Front(calls) = <<>> => call.type = "object"
  BY <1>1, <1>3, CallsPop
<1>5. CASE Return(Front(calls), <<call.type, call.items>>, i + 1)
  <2>1. PICK value : value = <<call.type, call.items>>
    OBVIOUS
  <2>2. GoodValue(value) /\ (call.type = "object" => GoodMembers(value[2]))
    BY <1>4, <2>1 DEF GoodValue, GoodCall
  <2>3. Return(Front(calls), value, i + 1)
    BY <1>5, <2>1
  <2>4. Front(calls) = <<>> => GoodMembers(value[2])
    BY <1>4, <2>2
  <2> QED BY <1>2, <1>3, <1>4, <2>2, <2>3, <2>4, ReturnKeeps
<1>6. CASE at' = i + 1 /\ reading' = Turn[call.type] /\ UNCHANGED <<calls, answer>>
  <2>1. reading' \in {"key", "value"}
    BY <1>4, <1>6 DEF GoodCall, Turn
  <2>2. (GoodCalls(calls))' /\ calls' # <<>>
    BY <1>3, <1>6 DEF GoodCalls
  <2>3. /\ at' \in Nat \ {0} /\ body' \in Seq(Byte) /\ ~answer'.ok
    BY <1>2, <1>3, <1>6 DEF JsonInv, Unread
  <2> QED BY <2>1, <2>2, <2>3 DEF JsonInv
<1>7. CASE Refuse
  BY <1>2, <1>7, RefuseKeeps
<1> QED BY <1>2, <1>5, <1>6, <1>7

-----------------------------------------------------------------------------

\* Every body and every slip: what the parser has read is bytes.
THEOREM JsonInductive == JsonSpec => []JsonInv
<1>1. JsonInit => JsonInv
  <2> SUFFICES ASSUME JsonInit
               PROVE  JsonInv
    OBVIOUS
  <2>1. body \in Seq(Byte)
    BY DocumentsAssumption DEF JsonInit, Byte
  <2>2. GoodCalls(<<>>)
    <3>1. PICK S : S = {}
      OBVIOUS
    <3>2. <<>> \in Seq(S) /\ \A call \in S : GoodCall(call)
      BY <3>1
    <3> QED BY <3>2 DEF GoodCalls
  <2>3. GoodCalls(calls)
    BY <2>2 DEF JsonInit
  <2>4. 1 \in Nat \ {0}
    OBVIOUS
  <2>5. ~answer.ok
    BY DEF JsonInit, Unread
  <2> QED BY <2>1, <2>3, <2>4, <2>5 DEF JsonInit, JsonInv
<1>2. JsonInv /\ [JsonNext]_json_vars => JsonInv'
  <2> SUFFICES ASSUME JsonInv, [JsonNext]_json_vars
               PROVE  JsonInv'
    OBVIOUS
  <2>1. CASE UNCHANGED json_vars
    BY <2>1 DEF json_vars, JsonInv, GoodCalls, GoodMembers
  <2> QED BY <2>1, SlipKeeps, ReadBodyKeeps, ReadKeyKeeps, ReadValueKeeps, EndTurnKeeps
          DEF JsonNext
<1> QED BY <1>1, <1>2, PTL DEF JsonSpec

\* Whatever a client sends, each string of it that is read is written so that it
\* reads as the same bytes, without control characters: json_quote and
\* parse_json_string_value agree (agent_name, evidence_text).
THEOREM StringsAreKept == JsonSpec => []StringsComeBack
<1>1. JsonInv => StringsComeBack
  <2> SUFFICES ASSUME JsonInv, answer.ok, NEW key \in DOMAIN answer.value[2],
                      answer.value[2][key][1] = "string"
               PROVE  LET v == answer.value[2][key][2]
                          written == json_quote(v)
                      IN  /\ parse_json_string_value(written, 1) = Parsed(v, Len(written) + 1)
                          /\ \A i \in DOMAIN written : written[i] >= SPACE
    BY DEF StringsComeBack
  <2>1. answer.value[2][key][2] \in Seq(Byte)
    BY DEF JsonInv, GoodMembers, GoodValue
  <2>2. PICK v \in Seq(Byte) : v = answer.value[2][key][2]
    BY <2>1
  <2> QED BY <2>2, WrittenReads
<1> QED BY <1>1, JsonInductive, PTL

-----------------------------------------------------------------------------
(* An escape at the end of a text *)

\* append_utf8_codepoint writes the shortest form of RFC 3629.
LEMMA Utf8IsShortest ==
    ASSUME NEW c \in Sixteen
    PROVE  Decode(Utf8(c)) = {c}
<1>0. c \in Nat /\ c <= 65535
  BY SMT DEF Sixteen
<1>1. CASE c <= 127
  <2>1. Utf8(c) = <<c>>
    <3>1. ~(c \in 128..2047) /\ ~(c >= 2048)
      BY <1>0, <1>1, SMT
    <3> QED BY <1>1, <3>1, SMT DEF Utf8
  <2>2. PICK w : w = Utf8(c)
    OBVIOUS
  <2>3. Len(w) = 1 /\ w[1] = c
    BY <2>1, <2>2
  <2>4. Decode(w) = {w[1]}
    BY <1>1, <2>3, SMT DEF Decode
  <2> QED BY <2>2, <2>3, <2>4
<1>2. CASE c \in 128..2047
  <2>1. Utf8(c) = Two(c)
    <3>1. ~(c <= 127) /\ ~(c >= 2048)
      BY <1>2, SMT
    <3> QED BY <1>2, <3>1, SMT DEF Utf8
  <2>2. PICK x, y : x = 192 + c \div 64 /\ y = 128 + (c % 64)
    OBVIOUS
  <2>3. x \in 194..223 /\ y \in Nat /\ (x - 192) * 64 + y - 128 = c
    BY <1>2, <2>2, SMT
  <2>4. PICK w : w = <<x, y>>
    OBVIOUS
  <2>5. Utf8(c) = w
    BY <2>1, <2>2, <2>4, SMT DEF Two
  <2>6. Len(w) = 2 /\ w[1] = x /\ w[2] = y
    BY <2>4
  <2>7. Decode(w) = {(w[1] - 192) * 64 + w[2] - 128}
    BY <2>3, <2>6, SMT DEF Decode
  <2> QED BY <2>3, <2>5, <2>6, <2>7
<1>3. CASE c >= 2048
  <2>1. Utf8(c) = Three(c)
    <3>1. ~(c <= 127) /\ ~(c \in 128..2047)
      BY <1>0, <1>3, SMT
    <3> QED BY <1>3, <3>1, SMT DEF Utf8
  <2>2. PICK x, y, z : /\ x = 224 + c \div 4096 /\ y = 128 + ((c \div 64) % 64)
                       /\ z = 128 + (c % 64)
    OBVIOUS
  <2>3. x \in 224..239 /\ y \in Nat /\ z \in Nat /\ (x = 224 => y >= 160)
    BY <1>0, <1>3, <2>2, SMT
  <2>4. (x - 224) * 4096 + (y - 128) * 64 + z - 128 = c
    BY <1>0, <1>3, <2>2, SMT
  <2>5. PICK w : w = <<x, y, z>>
    OBVIOUS
  <2>6. Utf8(c) = w
    BY <2>1, <2>2, <2>5, SMT DEF Three
  <2>7. Len(w) = 3 /\ w[1] = x /\ w[2] = y /\ w[3] = z
    BY <2>5
  <2>8. Decode(w) = {(w[1] - 224) * 4096 + (w[2] - 128) * 64 + w[3] - 128}
    BY <2>3, <2>7, SMT DEF Decode
  <2> QED BY <2>4, <2>6, <2>7, <2>8, SMT
<1> QED BY <1>0, <1>1, <1>2, <1>3, SMT

\* A colon, a quote and \u at p; six more bytes to the end.
EscapeAt(s, p) ==
    /\ p \in Nat \ {0} /\ Len(s) = p + 9
    /\ s[p] = COLON /\ s[p + 1] = QUOTE /\ s[p + 2] = BACKSLASH /\ s[p + 3] = LETTER_U

EscapeAtEnd(s) ==
    LET n == Len(s) IN
    n > 9 /\ SubSeq(s, n - 9, n - 6) = <<COLON, QUOTE, BACKSLASH, LETTER_U>>

LEMMA EscapePlace ==
    ASSUME NEW s \in Seq(Byte), EscapeAtEnd(s)
    PROVE  EscapeAt(s, Len(s) - 9)
<1>1. PICK n \in Nat : n = Len(s) /\ n > 9
  BY DEF EscapeAtEnd
<1>2. PICK p \in Nat : n - 9 = p /\ p > 0 /\ n = p + 9 /\ n - 6 = p + 3
  BY <1>1
<1>3. PICK w : w = SubSeq(s, p, p + 3)
  OBVIOUS
<1>4. w = <<COLON, QUOTE, BACKSLASH, LETTER_U>>
  BY <1>1, <1>2, <1>3 DEF EscapeAtEnd
<1>5. w[1] = COLON /\ w[2] = QUOTE /\ w[3] = BACKSLASH /\ w[4] = LETTER_U
  BY <1>4
<1>6. \A i \in 1..4 : w[i] = s[p + i - 1]
  <2>1. \A i \in p..p + 3 : s[i] \in Byte
    <3>1. \A i \in 1..n : s[i] \in Byte
      BY <1>1
    <3>2. \A i \in p..p + 3 : i \in 1..n
      BY <1>2
    <3> QED BY <3>1, <3>2
  <2>2. p \in Int /\ p + 3 \in Int /\ p + 3 - p + 1 = 4
    BY <1>2
  <2>3. \A i \in 1..p + 3 - p + 1 : w[i] = s[p + i - 1]
    BY <1>3, <2>1, <2>2, SubSeqProperties
  <2> QED BY <2>2, <2>3
<1>7. s[p] = COLON /\ s[p + 1] = QUOTE /\ s[p + 2] = BACKSLASH /\ s[p + 3] = LETTER_U
  <2>1. p + 1 - 1 = p /\ p + 2 - 1 = p + 1 /\ p + 3 - 1 = p + 2 /\ p + 4 - 1 = p + 3
    BY <1>2
  <2>2. /\ w[1] = s[p + 1 - 1] /\ w[2] = s[p + 2 - 1] /\ w[3] = s[p + 3 - 1]
        /\ w[4] = s[p + 4 - 1]
    BY <1>6
  <2> QED BY <1>5, <2>1, <2>2
<1> QED BY <1>1, <1>2, <1>7 DEF EscapeAt

\* White space ends at a byte that is none.
LEMMA SkipStays ==
    ASSUME NEW s \in Seq(Byte), NEW i \in Nat \ {0}, NEW p \in 1..Len(s), i <= p,
           s[p] \notin isspace
    PROVE  skip_json_ws(s, i) \in i..p
<1> DEFINE words == {j \in i..Len(s) : s[j] \notin isspace}
<1>1. PICK n \in Nat : n = Len(s) /\ p \in 1..n
  OBVIOUS
<1>2. p \in words
  BY <1>1
<1>3. \A j \in words : j \in Nat /\ i <= j
  BY <1>1
<1>4. skip_json_ws(s, i) = Min(words)
  BY <1>2 DEF skip_json_ws
<1> HIDE DEF words
<1>5. words \subseteq Nat
  BY <1>3
<1>6. \E x \in words : \A y \in words : x <= y
  BY <1>2, <1>5, LeastNatural
<1>7. Min(words) \in words /\ \A y \in words : Min(words) <= y
  BY <1>6 DEF Min
<1>8. PICK k : k = skip_json_ws(s, i)
  OBVIOUS
<1>9. k \in Nat /\ i <= k /\ k <= p
  BY <1>2, <1>3, <1>4, <1>7, <1>8
<1> QED BY <1>8, <1>9

LEMMA SkipAtEnd ==
    ASSUME NEW s \in Seq(Byte)
    PROVE  skip_json_ws(s, Len(s) + 1) = Len(s) + 1
<1>1. PICK n \in Nat : n = Len(s)
  OBVIOUS
<1>2. {j \in n + 1..n : s[j] \notin isspace} = {}
  OBVIOUS
<1> QED BY <1>1, <1>2 DEF skip_json_ws

\* No character of a string reaches over a colon.
LEMMA UnitsEndAtColon ==
    ASSUME NEW s \in Seq(Byte), NEW p \in 1..Len(s), s[p] = COLON,
           NEW i \in 1..Len(s), i < p, UnitAt(s, i).ok
    PROVE  UnitAt(s, i).at \in i + 1..p
<1>1. PICK n \in Nat : n = Len(s) /\ p \in 1..n /\ i \in 1..n
  OBVIOUS
<1>2. CASE s[i] # BACKSLASH
  <2>1. UnitAt(s, i).at = i + 1
    BY <1>2 DEF UnitAt, Parsed
  <2> QED BY <1>1, <2>1
<1>3. CASE s[i] = BACKSLASH
  <2>1. UnitAt(s, i) = Escape(s, i + 1)
    BY <1>3 DEF UnitAt
  <2>2. COLON \notin DOMAIN Escapes /\ COLON # LETTER_U
    BY EscapeTable, SMT DEF COLON, LETTER_U
  <2>3. CASE i + 1 <= Len(s) /\ s[i + 1] \in DOMAIN Escapes
    <3>1. s[i + 1] # LETTER_U
      BY <2>3, EscapeTable DEF LETTER_U
    <3>2. Escape(s, i + 1) = Parsed(<<Escapes[s[i + 1]]>>, (i + 1) + 1)
      BY <2>3, <3>1 DEF Escape
    <3>3. UnitAt(s, i).at = (i + 1) + 1
      BY <2>1, <3>2 DEF Parsed
    <3>4. i + 1 # p
      BY <2>2, <2>3
    <3> QED BY <1>1, <3>3, <3>4
  <2>4. CASE /\ i + 1 <= Len(s) /\ s[i + 1] = LETTER_U /\ HasCodepoint(s, (i + 1) + 1)
             /\ ~IsSurrogate(Codepoint(s, (i + 1) + 1))
    <3>1. s[i + 1] \notin DOMAIN Escapes
      BY <2>4, EscapeTable DEF LETTER_U
    <3>2. Escape(s, i + 1) = Parsed(Utf8(Codepoint(s, (i + 1) + 1)), (i + 1) + 5)
      BY <2>4, <3>1 DEF Escape
    <3>3. UnitAt(s, i).at = (i + 1) + 5
      BY <2>1, <3>2 DEF Parsed
    <3>4. i + 1 # p
      BY <2>2, <2>4
    <3>5. ~IsHex(COLON)
      BY SMT DEF IsHex, Digits, COLON
    <3>6. p \notin (i + 1) + 1..((i + 1) + 1) + 3
      BY <2>4, <3>5 DEF HasCodepoint
    <3> QED BY <1>1, <3>3, <3>4, <3>6
  <2>5. CASE /\ ~(i + 1 <= Len(s) /\ s[i + 1] \in DOMAIN Escapes)
             /\ ~(/\ i + 1 <= Len(s) /\ s[i + 1] = LETTER_U /\ HasCodepoint(s, (i + 1) + 1)
                  /\ ~IsSurrogate(Codepoint(s, (i + 1) + 1)))
    <3>1. Escape(s, i + 1) = Refused
      BY <2>5 DEF Escape
    <3> QED BY <2>1, <3>1 DEF Refused
  <2> QED BY <2>3, <2>4, <2>5
<1> QED BY <1>2, <1>3

\* A string that begins before a colon and a quote ends before them or with them.
LEMMA StringsEndAtColon ==
    ASSUME NEW s \in Seq(Byte), NEW p, EscapeAt(s, p),
           NEW i \in 1..p, StringRest(s)[i].ok
    PROVE  StringRest(s)[i].at <= p \/ StringRest(s)[i].at = p + 2
<1>1. p \in Nat \ {0} /\ p \in 1..Len(s) /\ s[p] = COLON /\ s[p + 1] = QUOTE
      /\ p + 1 \in 1..Len(s) /\ Len(s) = p + 9
  BY DEF EscapeAt
<1> DEFINE Good(j) == StringRest(s)[j].ok =>
                         StringRest(s)[j].at <= p \/ StringRest(s)[j].at = p + 2
           T == {m \in Nat : m < p => \A j \in p - m..p : Good(j)}
<1>2. ASSUME NEW k \in 1..p, \A j \in k + 1..p : Good(j)
      PROVE  Good(k)
  <2>1. k \in 1..Len(s) /\ k \in 1..Len(s) + 1 /\ ~(k > Len(s))
    BY <1>1
  <2>2. StringRest(s)[k] = ReadRest(s, StringRest(s), k)
    BY <2>1, StringRestIs
  <2>3. CASE s[k] = QUOTE
    <3>1. StringRest(s)[k].at = k + 1
      BY <2>1, <2>2, <2>3 DEF ReadRest, Parsed
    <3>2. k # p
      BY <1>1, <2>3 DEF COLON, QUOTE
    <3>3. k + 1 <= p
      BY <1>1, <3>2
    <3> QED BY <3>1, <3>3
  <2>4. CASE s[k] # QUOTE /\ UnitAt(s, k).ok /\ StringRest(s)[UnitAt(s, k).at].ok
    <3>1. PICK e : e = UnitAt(s, k).at
      OBVIOUS
    <3>2. StringRest(s)[k].at = StringRest(s)[e].at /\ StringRest(s)[e].ok
      BY <2>1, <2>2, <2>4, <3>1 DEF ReadRest, Parsed
    <3>3. CASE k # p
      <4>1. k < p
        BY <1>1, <3>3
      <4>2. e \in k + 1..p
        BY <1>1, <2>1, <2>4, <3>1, <4>1, UnitsEndAtColon
      <4> QED BY <1>2, <3>2, <4>2
    <3>4. CASE k = p
      <4>1. s[k] # BACKSLASH
        BY <1>1, <3>4 DEF COLON, BACKSLASH
      <4>2. e = p + 1
        BY <3>1, <3>4, <4>1 DEF UnitAt, Parsed
      <4>3. p + 1 \in 1..Len(s) + 1 /\ ~(p + 1 > Len(s)) /\ (p + 1) + 1 = p + 2
        BY <1>1
      <4>4. StringRest(s)[p + 1] = Parsed(<<>>, p + 2)
        <5>1. StringRest(s)[p + 1] = ReadRest(s, StringRest(s), p + 1)
          BY <4>3, StringRestIs
        <5> QED BY <1>1, <4>3, <5>1 DEF ReadRest
      <4> QED BY <3>2, <4>2, <4>4 DEF Parsed
    <3> QED BY <3>3, <3>4
  <2>5. CASE s[k] # QUOTE /\ ~(UnitAt(s, k).ok /\ StringRest(s)[UnitAt(s, k).at].ok)
    <3>1. StringRest(s)[k] = Refused
      BY <2>1, <2>2, <2>5 DEF ReadRest
    <3> QED BY <3>1 DEF Refused
  <2> QED BY <2>3, <2>4, <2>5
<1> HIDE DEF Good
<1>3. 0 \in T
  <2>1. \A j \in p - 0..p : j = p /\ j \in 1..p
    BY <1>1
  <2>2. \A j \in p + 1..p : Good(j)
    BY <1>1
  <2> QED BY <1>2, <2>1, <2>2
<1>4. ASSUME NEW m \in Nat, m \in T
      PROVE  m + 1 \in T
  <2> SUFFICES ASSUME m + 1 < p
               PROVE  \A j \in p - (m + 1)..p : Good(j)
    OBVIOUS
  <2>1. PICK k \in 1..p : k = p - (m + 1) /\ p - m = k + 1 /\ m < p
    BY <1>1
  <2>2. \A j \in k + 1..p : Good(j)
    BY <1>4, <2>1
  <2>3. Good(k)
    BY <1>2, <2>2
  <2>4. \A j \in k..p : j = k \/ j \in k + 1..p
    BY <1>1
  <2> QED BY <2>1, <2>2, <2>3, <2>4
<1> HIDE DEF T
<1>5. p - 1 \in T
  <2>1. p - 1 \in Nat
    BY <1>1
  <2> QED BY <1>3, <1>4, <2>1, SetInduction
<1>6. p - 1 < p /\ i \in p - (p - 1)..p
  BY <1>1
<1> QED BY <1>5, <1>6 DEF T, Good

\* What a string at the escape reads
LEMMA EscapeRead ==
    ASSUME NEW s \in Seq(Byte), NEW p, EscapeAt(s, p), StringRest(s)[p + 2].ok
    PROVE  \/ /\ StringRest(s)[p + 2].at = Len(s)
              /\ Decode(StringRest(s)[p + 2].value) = {Codepoint(s, Len(s) - 5)}
           \/ StringRest(s)[p + 2].at = Len(s) + 1
<1>1. PICK n \in Nat : n = Len(s) /\ n = p + 9 /\ p \in Nat \ {0}
  BY DEF EscapeAt
<1>2. s[p + 2] = BACKSLASH /\ s[p + 3] = LETTER_U
  BY DEF EscapeAt
<1>3. /\ p + 2 \in 1..n + 1 /\ ~(p + 2 > n) /\ n - 1 \in 1..n + 1 /\ ~(n - 1 > n)
      /\ n \in 1..n + 1 /\ ~(n > n) /\ n + 1 \in 1..n + 1 /\ n + 1 > n
      /\ (p + 2) + 1 = p + 3 /\ (p + 3) + 1 = n - 5 /\ (p + 3) + 5 = n - 1
      /\ n - 5 \in Nat /\ (n - 1) + 1 = n /\ n \in 1..n /\ n - 1 \in 1..n
      /\ n - 1 < n
  BY <1>1
<1>4. PICK f : f = StringRest(s)
  OBVIOUS
<1>5. \A k \in 1..n + 1 : f[k] = ReadRest(s, f, k)
  BY <1>1, <1>4, StringRestIs
<1>6. s[p + 2] # QUOTE /\ UnitAt(s, p + 2) = Escape(s, p + 3)
  BY <1>2, <1>3 DEF UnitAt, BACKSLASH, QUOTE
<1>7. /\ UnitAt(s, p + 2).ok /\ f[UnitAt(s, p + 2).at].ok
      /\ f[p + 2] = Parsed(UnitAt(s, p + 2).value \o f[UnitAt(s, p + 2).at].value,
                           f[UnitAt(s, p + 2).at].at)
  <2>1. f[p + 2] = ReadRest(s, f, p + 2) /\ f[p + 2].ok
    BY <1>3, <1>4, <1>5
  <2>2. ~Refused.ok
    BY DEF Refused
  <2>3. ~(p + 2 > Len(s))
    BY <1>1, <1>3
  <2> QED BY <1>6, <2>1, <2>2, <2>3 DEF ReadRest
<1>8. PICK c : c = Codepoint(s, n - 5)
  OBVIOUS
<1>9. c \in Sixteen /\ UnitAt(s, p + 2) = Parsed(Utf8(c), n - 1)
  <2>1. s[p + 3] \notin DOMAIN Escapes
    BY <1>2, EscapeTable DEF LETTER_U
  <2>2. Escape(s, p + 3).ok
    BY <1>6, <1>7
  <2>3. HasCodepoint(s, n - 5) /\ Escape(s, p + 3) = Parsed(Utf8(c), n - 1)
    BY <1>3, <1>8, <2>1, <2>2 DEF Escape, Refused
  <2>4. c \in Sixteen
    BY <1>3, <1>8, <2>3, CodepointRange
  <2> QED BY <1>6, <2>3, <2>4
<1>10. PICK v \in Seq(Byte) : v = Utf8(c)
  BY <1>9, Utf8Bytes
<1>11. f[n - 1].ok /\ f[p + 2] = Parsed(v \o f[n - 1].value, f[n - 1].at)
  <2>1. UnitAt(s, p + 2).at = n - 1 /\ UnitAt(s, p + 2).value = v
    BY <1>9, <1>10 DEF Parsed
  <2> QED BY <1>7, <2>1
<1>12. f[n - 1] = ReadRest(s, f, n - 1)
  BY <1>3, <1>5
<1>13. CASE s[n - 1] = QUOTE
  <2>1. f[n - 1] = Parsed(<<>>, n)
    BY <1>1, <1>3, <1>12, <1>13 DEF ReadRest
  <2>2. f[n - 1].at = n /\ f[n - 1].value = <<>>
    BY <2>1 DEF Parsed
  <2>3. v \o <<>> = v
    BY ConcatEmptySeq
  <2>4. f[p + 2].at = n /\ f[p + 2].value = v
    BY <1>11, <2>2, <2>3 DEF Parsed
  <2>5. Decode(v) = {c}
    BY <1>9, <1>10, Utf8IsShortest
  <2> QED BY <1>1, <1>4, <1>8, <2>4, <2>5
<1>14. CASE s[n - 1] # QUOTE
  <2>1. /\ UnitAt(s, n - 1).ok /\ f[UnitAt(s, n - 1).at].ok
        /\ f[n - 1] = Parsed(UnitAt(s, n - 1).value \o f[UnitAt(s, n - 1).at].value,
                             f[UnitAt(s, n - 1).at].at)
    <3>1. ~Refused.ok
      BY DEF Refused
    <3>2. ~(n - 1 > Len(s))
      BY <1>1, <1>3
    <3> QED BY <1>11, <1>12, <1>14, <3>1, <3>2 DEF ReadRest
  <2>2. PICK u \in Seq(Byte), e \in (n - 1) + 1..n + 1 : UnitAt(s, n - 1) = Parsed(u, e)
    <3>1. n - 1 \in 1..Len(s)
      BY <1>1, <1>3
    <3>2. \E u \in Seq(Byte), e \in (n - 1) + 1..Len(s) + 1 : UnitAt(s, n - 1) = Parsed(u, e)
      BY <2>1, <3>1, UnitBytes
    <3> QED BY <1>1, <3>2
  <2>3. f[e].ok /\ f[n - 1].at = f[e].at
    BY <2>1, <2>2 DEF Parsed
  <2>4. ~f[n + 1].ok
    <3>1. f[n + 1] = Refused
      BY <1>1, <1>3, <1>5 DEF ReadRest
    <3> QED BY <3>1 DEF Refused
  <2>5. e = n
    <3>1. e = n \/ e = n + 1
      BY <1>3
    <3> QED BY <2>3, <2>4, <3>1
  <2>6. f[n].ok /\ f[n] = ReadRest(s, f, n)
    BY <1>3, <1>5, <2>3, <2>5
  <2>7. s[n] = QUOTE
    <3> SUFFICES ASSUME s[n] # QUOTE
                 PROVE  FALSE
      OBVIOUS
    <3>1. UnitAt(s, n).ok /\ f[UnitAt(s, n).at].ok
      <4>1. ~(n > Len(s))
        BY <1>1, <1>3
      <4> QED BY <2>6, <4>1 DEF ReadRest, Refused
    <3>2. PICK w \in Seq(Byte), d \in n + 1..n + 1 : UnitAt(s, n) = Parsed(w, d)
      <4>1. n \in 1..Len(s)
        BY <1>1, <1>3
      <4>2. \E w \in Seq(Byte), d \in n + 1..Len(s) + 1 : UnitAt(s, n) = Parsed(w, d)
        BY <3>1, <4>1, UnitBytes
      <4> QED BY <1>1, <4>2
    <3>3. d = n + 1
      BY <1>3
    <3>4. UnitAt(s, n).at = n + 1
      BY <3>2, <3>3 DEF Parsed
    <3> QED BY <2>4, <3>1, <3>4
  <2>8. f[n].at = n + 1
    <3>1. ~(n > Len(s))
      BY <1>1, <1>3
    <3> QED BY <2>6, <2>7, <3>1 DEF ReadRest, Parsed
  <2>9. f[p + 2].at = n + 1
    BY <1>11, <2>3, <2>5, <2>8 DEF Parsed
  <2> QED BY <1>1, <1>4, <2>9
<1> QED BY <1>13, <1>14

-----------------------------------------------------------------------------
(* The parser on its way to that escape *)

Spelled(s, items) == \E key \in DOMAIN items : Decode(items[key][2]) = {Codepoint(s, Len(s) - 5)}

\* Before the escape, at it or behind it; or what follows can only be refused.
Underway(s, p) ==
    \/ at <= p
    \/ at = p + 1 /\ reading = "value"
    \/ at = p + 2 /\ reading = "end"
    \/ /\ at = Len(s) /\ reading = "end"
       /\ Last(calls).type = "object" => Spelled(s, Last(calls).items)
    \/ at = Len(s) + 1

EscapeInv ==
    /\ reading = "body" /\ answer = Unread => at = 1
    /\ EscapeAtEnd(body) =>
          /\ answer = Unread => Underway(body, Len(body) - 9)
          /\ answer.ok => Spelled(body, answer.value[2])

\* A value that ends before the escape is stored, or it is not the root's.
LEMMA EarlyReturn ==
    ASSUME NEW s \in Seq(Byte), s = body, NEW p, EscapeAt(s, p), answer = Unread,
           NEW outer, NEW value, NEW i \in Nat \ {0}, Return(outer, value, i),
           i <= p \/ i = p + 2
    PROVE  answer'.ok = FALSE /\ at' = i /\ (answer' = Unread => reading' = "end")
<1>1. PICK n \in Nat : n = Len(s) /\ n = p + 9 /\ p \in Nat \ {0}
  BY DEF EscapeAt
<1>2. at' = i
  BY DEF Return
<1>3. CASE outer # <<>>
  <2>1. answer' = answer /\ reading' = "end"
    BY <1>3 DEF Return
  <2> QED BY <1>2, <2>1 DEF Unread
<1>4. CASE outer = <<>>
  <2>1. skip_json_ws(s, i) <= n
    <3>1. PICK q \in 1..n : i <= q /\ s[q] \notin isspace
      <4>1. p \in 1..n /\ s[p] \notin isspace
        BY <1>1, SMT DEF EscapeAt, COLON, isspace, TAB, RETURN, SPACE
      <4>2. p + 2 \in 1..n /\ s[p + 2] \notin isspace /\ p + 2 <= p + 2
        BY <1>1, SMT DEF EscapeAt, BACKSLASH, isspace, TAB, RETURN, SPACE
      <4> QED BY <4>1, <4>2
    <3>2. skip_json_ws(s, i) \in i..q
      BY <1>1, <3>1, SkipStays
    <3> QED BY <1>1, <3>1, <3>2
  <2>2. PICK k \in Nat \ {0} : k = skip_json_ws(s, i)
    BY SkipsToPlace
  <2>3. ~(skip_json_ws(body, i) > Len(body))
    BY <1>1, <2>1, <2>2
  <2>4. answer' = Refused
    BY <1>4, <2>3 DEF Return
  <2>5. ~Refused.ok /\ Refused # Unread
    <3>1. Refused.read /\ ~Unread.read /\ Refused.ok = FALSE
      BY DEF Refused, Unread
    <3> QED BY <3>1
  <2> QED BY <1>2, <2>4, <2>5 DEF Refused
<1> QED BY <1>3, <1>4

\* What is opened before the escape begins, or ends, before it.
LEMMA EarlyOpen ==
    ASSUME NEW s \in Seq(Byte), s = body, NEW p, EscapeAt(s, p), answer = Unread,
           NEW type \in {"array", "object"},
           NEW i \in Nat \ {0}, i < p, Open(type, i)
    PROVE  answer'.ok = FALSE /\ at' <= p /\ (answer' = Unread => reading' # "body")
<1>1. PICK n \in Nat : n = Len(s) /\ n = p + 9 /\ p \in Nat \ {0}
  BY DEF EscapeAt
<1>2. p \in 1..n /\ s[p] \notin isspace
  BY <1>1, SMT DEF EscapeAt, COLON, isspace, TAB, RETURN, SPACE
<1>3. PICK first \in Nat \ {0} : first = skip_json_ws(s, i + 1) /\ first <= p
  <2>1. i + 1 \in Nat \ {0} /\ i + 1 <= p
    BY <1>1
  <2>2. skip_json_ws(s, i + 1) \in i + 1..p
    BY <1>1, <1>2, <2>1, SkipStays
  <2>3. skip_json_ws(s, i + 1) \in Nat \ {0}
    BY <2>1, SkipsToPlace
  <2> QED BY <1>1, <2>1, <2>2, <2>3
<1>4. CASE At(body, first, CLOSE[type])
  <2>1. Return(calls, <<type, <<>>>>, first + 1)
    BY <1>3, <1>4 DEF Open
  <2>2. first # p
    BY <1>4 DEF At, EscapeAt, CLOSE, COLON
  <2>3. first + 1 \in Nat \ {0} /\ first + 1 <= p
    BY <1>1, <1>3, <2>2
  <2>4. answer'.ok = FALSE /\ at' = first + 1 /\ (answer' = Unread => reading' = "end")
    BY <2>1, <2>3, EarlyReturn
  <2> QED BY <2>3, <2>4
<1>5. CASE ~At(body, first, CLOSE[type])
  <2>1. at' = first /\ answer' = answer /\ reading' = Turn[type]
    BY <1>3, <1>5 DEF Open
  <2>2. reading' # "body"
    BY <2>1 DEF Turn
  <2> QED BY <1>3, <2>1, <2>2 DEF Unread
<1> QED BY <1>4, <1>5

\* What Underway and the answer promise
Went(s, p) ==
    /\ answer = Unread => Underway(s, p)
    /\ answer.ok => Spelled(s, answer.value[2])

\* White space is skipped forwards.
LEMMA SkipsOn ==
    ASSUME NEW s \in Seq(Byte), NEW i \in 1..Len(s) + 1
    PROVE  skip_json_ws(s, i) \in Nat \ {0} /\ i <= skip_json_ws(s, i)
<1>1. PICK n \in Nat : n = Len(s) /\ i \in 1..n + 1
  OBVIOUS
<1>2. PICK k \in Nat \ {0} : k = skip_json_ws(s, i)
  BY SkipsToPlace
<1>3. i <= k
  <2>1. CASE {j \in i..Len(s) : s[j] \notin isspace} = {}
    <3>1. k = n + 1
      BY <1>1, <1>2, <2>1 DEF skip_json_ws
    <3> QED BY <1>1, <3>1
  <2>2. CASE {j \in i..Len(s) : s[j] \notin isspace} # {}
    <3>1. PICK q \in i..n : s[q] \notin isspace
      BY <1>1, <2>2
    <3>2. q \in 1..Len(s) /\ i <= q /\ i \in Nat \ {0}
      BY <1>1
    <3>3. skip_json_ws(s, i) \in i..q
      BY <3>1, <3>2, SkipStays
    <3> QED BY <1>1, <1>2, <3>3
  <2> QED BY <2>1, <2>2
<1> QED BY <1>2, <1>3

LEMMA RefuseWent ==
    ASSUME NEW s, NEW p, Refuse
    PROVE  Went(s, p)' /\ answer' # Unread
<1>1. answer' = Refused
  BY DEF Refuse
<1>2. Refused # Unread /\ ~Refused.ok
  <2>1. Refused.read /\ ~Unread.read /\ ~Refused.ok
    BY DEF Refused, Unread
  <2> QED BY <2>1
<1> QED BY <1>1, <1>2 DEF Went

\* Nothing is read behind the text.
LEMMA NothingBehind ==
    ASSUME NEW s \in Seq(Byte), NEW i, i = Len(s) + 1
    PROVE  /\ skip_json_ws(s, i) = i /\ \A ch : ~At(s, i, ch)
           /\ ~parse_json_string_value(s, i).ok
<1>1. PICK n \in Nat : n = Len(s)
  OBVIOUS
<1>2. ~(i <= Len(s))
  BY <1>1
<1>3. \A ch : ~At(s, i, ch)
  BY <1>2 DEF At
<1>4. ~parse_json_string_value(s, i).ok
  BY <1>3 DEF parse_json_string_value, Refused
<1> QED BY <1>3, <1>4, SkipAtEnd

\* The bytes at the escape are no white space, and no brackets.
LEMMA EscapeBytes ==
    ASSUME NEW s \in Seq(Byte), NEW p, EscapeAt(s, p)
    PROVE  /\ p \in Nat \ {0} /\ Len(s) = p + 9
           /\ p \in 1..Len(s) /\ p + 1 \in 1..Len(s) /\ p + 2 \in 1..Len(s)
           /\ \A q \in {p, p + 1, p + 2} : s[q] \notin isspace /\ s[q] # COMMA
           /\ \A q \in {p, p + 1, p + 2}, type \in {"array", "object"} :
                 s[q] # OPEN[type] /\ s[q] # CLOSE[type]
           /\ s[p] # QUOTE /\ s[p + 2] # COLON
<1>1. p \in Nat \ {0} /\ Len(s) = p + 9
  BY DEF EscapeAt
<1>2. p \in 1..Len(s) /\ p + 1 \in 1..Len(s) /\ p + 2 \in 1..Len(s)
  BY <1>1
<1>3. s[p] = 58 /\ s[p + 1] = 34 /\ s[p + 2] = 92
  BY DEF EscapeAt, COLON, QUOTE, BACKSLASH
<1>4. \A q \in {p, p + 1, p + 2} : s[q] \in {58, 34, 92}
  BY <1>3
<1>5. \A ch \in {58, 34, 92} : ch \notin isspace /\ ch # COMMA
  BY SMT DEF isspace, TAB, RETURN, SPACE, COMMA
<1>6. \A ch \in {58, 34, 92}, type \in {"array", "object"} : ch # OPEN[type] /\ ch # CLOSE[type]
  BY SMT DEF OPEN, CLOSE
<1> QED BY <1>1, <1>2, <1>3, <1>4, <1>5, <1>6 DEF QUOTE, COLON

LEMMA ReadBodyWent ==
    ASSUME NEW s \in Seq(Byte), s = body, NEW p, EscapeAt(s, p), at = 1, ReadBody
    PROVE  Went(s, p)'
<1>1. PICK i \in Nat \ {0} : i = skip_json_ws(s, at) /\ i <= p
  <2>1. at <= p /\ at \in Nat \ {0}
    BY DEF EscapeAt
  <2>2. skip_json_ws(s, at) \in at..p
    BY <2>1, EscapeBytes, SkipStays
  <2>3. skip_json_ws(s, at) \in Nat \ {0}
    BY <2>1, SkipsToPlace
  <2> QED BY <2>1, <2>2, <2>3
<1>2. /\ answer = Unread
      /\ IF At(s, i, OPEN.object) THEN Open("object", i) ELSE Refuse
  BY <1>1 DEF ReadBody
<1>3. CASE At(s, i, OPEN.object)
  <2>1. i # p
    BY <1>3, EscapeBytes DEF At
  <2>2. i < p
    BY <1>1, <2>1 DEF EscapeAt
  <2>3. answer'.ok = FALSE /\ at' <= p
    BY <1>2, <1>3, <2>2, EarlyOpen
  <2> QED BY <2>3 DEF Went, Underway
<1>4. CASE ~At(s, i, OPEN.object)
  BY <1>2, <1>4, RefuseWent
<1> QED BY <1>3, <1>4

\* Where a string that begins before the escape ends
LEMMA EarlyString ==
    ASSUME NEW s \in Seq(Byte), NEW p, EscapeAt(s, p),
           NEW i \in Nat \ {0}, i <= p, parse_json_string_value(s, i).ok
    PROVE  /\ parse_json_string_value(s, i).at \in Nat \ {0}
           /\ \/ parse_json_string_value(s, i).at <= p
              \/ parse_json_string_value(s, i).at = p + 2
<1>1. At(s, i, QUOTE)
  BY DEF parse_json_string_value, Refused
<1>2. i # p
  BY <1>1, EscapeBytes DEF At
<1>3. i + 1 \in 1..p
  BY <1>2 DEF EscapeAt
<1>4. parse_json_string_value(s, i) = StringRest(s)[i + 1]
  BY <1>1 DEF parse_json_string_value
<1>5. \/ StringRest(s)[i + 1].at <= p
      \/ StringRest(s)[i + 1].at = p + 2
  BY <1>3, <1>4, StringsEndAtColon
<1> QED BY <1>4, <1>5, BodyStrings

LEMMA ReadKeyWent ==
    ASSUME JsonInv, NEW s \in Seq(Byte), s = body, NEW p, EscapeAt(s, p), Went(s, p), ReadKey
    PROVE  Went(s, p)'
<1>0. at \in Nat \ {0}
  BY DEF JsonInv
<1>1. PICK i \in Nat \ {0} : i = skip_json_ws(s, at)
  BY <1>0, SkipsToPlace
<1>2. PICK key : key = parse_json_string_value(s, i)
  OBVIOUS
<1>3. PICK colon : colon = skip_json_ws(s, key.at)
  OBVIOUS
<1>4. /\ reading = "key" /\ answer = Unread
      /\ IF key.ok /\ At(s, colon, COLON)
         THEN at' = colon + 1 /\ reading' = "value" /\ answer' = answer
         ELSE Refuse
  BY <1>1, <1>2, <1>3 DEF ReadKey
<1>5. CASE ~(key.ok /\ At(s, colon, COLON))
  BY <1>4, <1>5, RefuseWent
<1>6. CASE key.ok /\ At(s, colon, COLON)
  <2>1. at <= p
    <3>1. at # Len(s) + 1
      BY <1>1, <1>2, <1>6, NothingBehind
    <3> QED BY <1>4, <3>1 DEF Went, Underway
  <2>2. i <= p
    <3>1. skip_json_ws(s, at) \in at..p
      BY <1>0, <2>1, EscapeBytes, SkipStays
    <3> QED BY <1>0, <1>1, <3>1
  <2>3. key.at \in Nat \ {0} /\ (key.at <= p \/ key.at = p + 2)
    BY <1>2, <1>6, <2>2, EarlyString
  <2>4. CASE key.at <= p
    <3>1. colon \in key.at..p
      BY <1>3, <2>3, <2>4, EscapeBytes, SkipStays
    <3>2. PICK k \in Nat : k = colon /\ k <= p
      BY <2>3, <3>1
    <3>3. p \in Nat \ {0}
      BY EscapeBytes
    <3>4. at' = k + 1 /\ reading' = "value" /\ answer' = Unread
      BY <1>4, <1>6, <3>2
    <3>5. k + 1 <= p \/ k + 1 = p + 1
      BY <3>2, <3>3
    <3>6. Underway(s, p)'
      BY <3>4, <3>5 DEF Underway
    <3> QED BY <3>4, <3>6 DEF Went, Unread
  <2>5. CASE key.at = p + 2
    <3>1. p + 2 \in Nat \ {0} /\ p + 2 <= p + 2
      BY EscapeBytes
    <3>2. colon \in p + 2..p + 2
      BY <1>3, <2>5, <3>1, EscapeBytes, SkipStays
    <3>3. colon = p + 2
      BY <3>1, <3>2
    <3> QED BY <1>6, <3>3, EscapeBytes DEF At
  <2> QED BY <2>3, <2>4, <2>5
<1> QED BY <1>5, <1>6

\* The escape is stored in the call that waits for it.
LEMMA EscapeStored ==
    ASSUME NEW s \in Seq(Byte), GoodCalls(calls), calls # <<>>,
           NEW v, Decode(v) = {Codepoint(s, Len(s) - 5)},
           calls' = Append(Front(calls), Store(Last(calls), <<"string", v>>))
    PROVE  (Last(calls).type = "object" => Spelled(s, Last(calls).items))'
<1>1. GoodCalls(Front(calls)) /\ GoodCall(Last(calls))
  BY CallsPop
<1>2. PICK value : value = <<"string", v>> /\ value[2] = v
  OBVIOUS
<1>3. PICK t, m, k : Last(calls) = [type |-> t, items |-> m, key |-> k]
  BY <1>1 DEF GoodCall
<1>4. PICK i : i = IF t = "array" THEN Append(m, value) ELSE StoreMember(m, k, value)
  OBVIOUS
<1>5. PICK call : call = Store(Last(calls), value)
  OBVIOUS
<1>6. call = [type |-> t, items |-> i, key |-> k]
  <2>1. PICK last : last = Last(calls)
    OBVIOUS
  <2>2. last = [type |-> t, items |-> m, key |-> k] /\ call = Store(last, value)
    BY <1>3, <1>5, <2>1
  <2> QED BY <1>4, <2>2 DEF Store
<1>7. Last(Append(Front(calls), call)) = call
  <2>1. PICK S : Front(calls) \in Seq(S)
    BY <1>1 DEF GoodCalls
  <2>2. PICK U : Front(calls) \in Seq(U) /\ call \in U
    <3>1. S \subseteq S \cup {call}
      OBVIOUS
    <3>2. Front(calls) \in Seq(S \cup {call})
      BY <2>1, <3>1, SeqMonotonic
    <3> QED BY <3>2
  <2>3. /\ Len(Append(Front(calls), call)) = Len(Front(calls)) + 1
        /\ Append(Front(calls), call)[Len(Front(calls)) + 1] = call
    BY <2>2, AppendProperties
  <2> QED BY <2>3 DEF Last
<1>8. calls' = Append(Front(calls), call)
  BY <1>2, <1>5
<1>9. Last(calls') = call
  BY <1>7, <1>8
<1>10. t = "object" => Spelled(s, i)
  <2> SUFFICES ASSUME t = "object"
               PROVE  Spelled(s, i)
    OBVIOUS
  <2>1. i = [x \in DOMAIN m \cup {k} |-> IF x = k THEN value ELSE m[x]]
    BY <1>4 DEF StoreMember
  <2>2. k \in DOMAIN i /\ i[k] = value
    BY <2>1
  <2> QED BY <1>2, <2>2 DEF Spelled
<1>11. Last(calls').type = "object" => Spelled(s, Last(calls').items)
  BY <1>6, <1>9, <1>10
<1> QED BY <1>11 DEF Last, Spelled

LEMMA ReadValueWent ==
    ASSUME JsonInv, NEW s \in Seq(Byte), s = body, NEW p, EscapeAt(s, p), Went(s, p), ReadValue
    PROVE  Went(s, p)'
<1>0. at \in Nat \ {0}
  BY DEF JsonInv
<1>1. PICK i \in Nat \ {0} : i = skip_json_ws(s, at)
  BY <1>0, SkipsToPlace
<1>2. PICK string : string = parse_json_string_value(s, i)
  OBVIOUS
<1>3. /\ reading = "value" /\ answer = Unread
      /\ \/ string.ok /\ Return(calls, <<"string", string.value>>, string.at)
         \/ At(s, i, OPEN.object) /\ Open("object", i)
         \/ At(s, i, OPEN.array) /\ Open("array", i)
         \/ Refuse
  BY <1>1, <1>2 DEF ReadValue
<1>4. CASE at <= p
  <2>1. i <= p
    <3>1. skip_json_ws(s, at) \in at..p
      BY <1>0, <1>4, EscapeBytes, SkipStays
    <3> QED BY <1>0, <1>1, <3>1
  <2>2. ASSUME NEW type \in {"array", "object"}, At(s, i, OPEN[type]), Open(type, i)
        PROVE  Went(s, p)'
    <3>1. i # p
      BY <2>2, EscapeBytes DEF At
    <3>2. i < p
      BY <2>1, <3>1, EscapeBytes
    <3>3. answer'.ok = FALSE /\ at' <= p
      BY <1>3, <2>2, <3>2, EarlyOpen
    <3> QED BY <3>3 DEF Went, Underway
  <2>3. CASE string.ok /\ Return(calls, <<"string", string.value>>, string.at)
    <3>1. string.at \in Nat \ {0} /\ (string.at <= p \/ string.at = p + 2)
      BY <1>2, <2>1, <2>3, EarlyString
    <3>2. PICK value : value = <<"string", string.value>>
      OBVIOUS
    <3>3. PICK e \in Nat \ {0} : Return(calls, value, e) /\ (e <= p \/ e = p + 2)
      BY <2>3, <3>1, <3>2
    <3>4. answer'.ok = FALSE /\ at' = e /\ (answer' = Unread => reading' = "end")
      BY <1>3, <3>3, EarlyReturn
    <3> QED BY <3>3, <3>4 DEF Went, Underway
  <2>4. CASE Refuse
    BY <2>4, RefuseWent
  <2> QED BY <1>3, <2>2, <2>3, <2>4
<1>5. CASE at = p + 1
  <2>1. i = p + 1
    <3>1. p + 1 \in Nat \ {0} /\ p + 1 <= p + 1
      BY EscapeBytes
    <3>2. skip_json_ws(s, at) \in p + 1..p + 1
      BY <1>5, <3>1, EscapeBytes, SkipStays
    <3> QED BY <1>1, <3>1, <3>2
  <2>2. ~At(s, i, OPEN.object) /\ ~At(s, i, OPEN.array)
    <3>1. s[p + 1] # OPEN["object"] /\ s[p + 1] # OPEN["array"]
      BY EscapeBytes
    <3> QED BY <2>1, <3>1 DEF At
  <2>3. string = StringRest(s)[p + 2]
    <3>1. (p + 1) + 1 = p + 2 /\ p + 1 <= Len(s)
      BY EscapeBytes
    <3>2. At(s, i, QUOTE)
      BY <2>1, <3>1 DEF At, EscapeAt
    <3> QED BY <1>2, <2>1, <3>1, <3>2 DEF parse_json_string_value
  <2>4. CASE string.ok /\ Return(calls, <<"string", string.value>>, string.at)
    <3>1. /\ calls # <<>> /\ GoodCalls(calls)
      BY <1>3 DEF JsonInv
    <3>2. /\ calls' = Append(Front(calls), Store(Last(calls), <<"string", string.value>>))
          /\ at' = string.at /\ reading' = "end" /\ answer' = Unread
      BY <1>3, <2>4, <3>1 DEF Return
    <3>3. CASE /\ string.at = Len(s)
               /\ Decode(string.value) = {Codepoint(s, Len(s) - 5)}
      <4>1. (Last(calls).type = "object" => Spelled(s, Last(calls).items))'
        BY <3>1, <3>2, <3>3, EscapeStored
      <4>2. Underway(s, p)'
        BY <3>2, <3>3, <4>1 DEF Underway
      <4> QED BY <3>2, <4>2 DEF Went, Unread
    <3>4. CASE string.at = Len(s) + 1
      <4>1. Underway(s, p)'
        BY <3>2, <3>4 DEF Underway
      <4> QED BY <3>2, <4>1 DEF Went, Unread
    <3> QED BY <2>3, <2>4, <3>3, <3>4, EscapeRead
  <2> QED BY <1>3, <2>2, <2>4, RefuseWent
<1>6. CASE at = Len(s) + 1
  <2>1. Refuse
    BY <1>1, <1>2, <1>3, <1>6, NothingBehind
  <2> QED BY <2>1, RefuseWent
<1> QED BY <1>3, <1>4, <1>5, <1>6 DEF Went, Underway

LEMMA EndTurnWent ==
    ASSUME JsonInv, NEW s \in Seq(Byte), s = body, NEW p, EscapeAt(s, p), Went(s, p), EndTurn
    PROVE  Went(s, p)'
<1>0. at \in Nat \ {0}
  BY DEF JsonInv
<1>1. PICK i \in Nat \ {0} : i = skip_json_ws(s, at)
  BY <1>0, SkipsToPlace
<1>2. PICK call : call = Last(calls)
  OBVIOUS
<1>3. /\ reading = "end" /\ answer = Unread
      /\ \/ /\ At(s, i, CLOSE[call.type])
            /\ Return(Front(calls), <<call.type, call.items>>, i + 1)
         \/ /\ At(s, i, COMMA)
            /\ at' = i + 1 /\ reading' = Turn[call.type] /\ answer' = answer
         \/ Refuse
  BY <1>1, <1>2 DEF EndTurn
<1>4. /\ calls # <<>> /\ call.type \in {"array", "object"}
      /\ Front(calls) = <<>> => call.type = "object"
  <2>1. calls # <<>> /\ GoodCalls(calls)
    BY <1>3 DEF JsonInv
  <2> QED BY <1>2, <2>1, CallsPop DEF GoodCall
<1>5. PICK value : value = <<call.type, call.items>> /\ value[2] = call.items
  <2>1. PICK t, m : t = call.type /\ m = call.items
    OBVIOUS
  <2>2. <<t, m>>[2] = m
    OBVIOUS
  <2> QED BY <2>1, <2>2
<1>6. CASE at <= p
  <2>1. i <= p
    <3>1. skip_json_ws(s, at) \in at..p
      BY <1>0, <1>6, EscapeBytes, SkipStays
    <3> QED BY <1>0, <1>1, <3>1
  <2>2. CASE At(s, i, CLOSE[call.type]) /\ Return(Front(calls), value, i + 1)
    <3>1. i # p
      BY <1>4, <2>2, EscapeBytes DEF At
    <3>2. i + 1 <= p /\ i + 1 \in Nat \ {0}
      BY <2>1, <3>1, EscapeBytes
    <3>3. answer'.ok = FALSE /\ at' = i + 1
      BY <1>3, <2>2, <3>2, EarlyReturn
    <3>4. at' <= p
      BY <3>2, <3>3
    <3> QED BY <3>3, <3>4 DEF Went, Underway
  <2>3. CASE At(s, i, COMMA) /\ at' = i + 1 /\ answer' = answer
    <3>1. i # p
      BY <2>3, EscapeBytes DEF At
    <3>2. at' <= p
      BY <2>1, <2>3, <3>1, EscapeBytes
    <3> QED BY <1>3, <2>3, <3>2 DEF Went, Underway, Unread
  <2>4. CASE Refuse
    BY <2>4, RefuseWent
  <2> QED BY <1>3, <1>5, <2>2, <2>3, <2>4
<1>7. CASE at = p + 2
  <2>1. i = p + 2
    <3>1. p + 2 \in Nat \ {0} /\ p + 2 <= p + 2
      BY EscapeBytes
    <3>2. skip_json_ws(s, at) \in p + 2..p + 2
      BY <1>7, <3>1, EscapeBytes, SkipStays
    <3> QED BY <1>1, <3>1, <3>2
  <2>2. ~At(s, i, CLOSE[call.type]) /\ ~At(s, i, COMMA)
    BY <1>4, <2>1, EscapeBytes DEF At
  <2> QED BY <1>3, <2>2, RefuseWent
<1>8. CASE at = Len(s) /\ (call.type = "object" => Spelled(s, call.items))
  <2>1. PICK n \in Nat : n = Len(s) /\ n \in 1..n + 1
    BY EscapeBytes
  <2>2. i >= n
    BY <1>1, <1>8, <2>1, SkipsOn
  <2>3. ASSUME NEW ch, At(s, i, ch)
        PROVE  i + 1 = n + 1
    <3>1. i <= n
      BY <2>1, <2>3 DEF At
    <3> QED BY <2>2, <3>1
  <2>4. CASE At(s, i, CLOSE[call.type]) /\ Return(Front(calls), value, i + 1)
    <3>1. i + 1 = n + 1
      BY <2>3, <2>4
    <3>2. CASE Front(calls) # <<>>
      <4>1. at' = n + 1 /\ answer' = Unread
        BY <1>3, <2>4, <3>1, <3>2 DEF Return
      <4> QED BY <2>1, <4>1 DEF Went, Underway, Unread
    <3>3. CASE Front(calls) = <<>>
      <4>1. answer' = Parsed(value, i + 1) \/ answer' = Refused
        BY <2>4, <3>3 DEF Return
      <4>2. Spelled(s, value[2])
        BY <1>4, <1>5, <1>8, <3>3
      <4>3. CASE answer' = Refused
        <5>1. Refused.read /\ ~Unread.read /\ ~Refused.ok
          BY DEF Refused, Unread
        <5>2. answer' # Unread /\ ~answer'.ok
          BY <4>3, <5>1
        <5> QED BY <5>2 DEF Went
      <4>4. CASE answer' = Parsed(value, i + 1)
        <5>1. answer'.ok /\ answer'.value = value /\ ~Unread.ok
          BY <4>4 DEF Parsed, Unread
        <5>2. answer' # Unread
          BY <5>1
        <5>3. Spelled(s, answer'.value[2])
          BY <4>2, <5>1
        <5>4. Spelled(s, answer.value[2])'
          BY <5>3 DEF Spelled
        <5> QED BY <5>2, <5>4 DEF Went
      <4> QED BY <4>1, <4>3, <4>4
    <3> QED BY <3>2, <3>3
  <2>5. CASE At(s, i, COMMA) /\ at' = i + 1 /\ answer' = answer
    <3>1. at' = n + 1 /\ answer' = Unread
      BY <1>3, <2>3, <2>5
    <3> QED BY <2>1, <3>1 DEF Went, Underway, Unread
  <2>6. CASE Refuse
    BY <2>6, RefuseWent
  <2> QED BY <1>3, <1>5, <2>4, <2>5, <2>6
<1>9. CASE at = Len(s) + 1
  <2>1. Refuse
    BY <1>1, <1>3, <1>9, NothingBehind
  <2> QED BY <2>1, RefuseWent
<1> QED BY <1>2, <1>3, <1>6, <1>7, <1>8, <1>9 DEF Went, Underway

\* Once the parser has begun, it does not begin again.
LEMMA BegunOnce ==
    ASSUME JsonInv, ReadBody \/ ReadKey \/ ReadValue \/ EndTurn
    PROVE  answer' = Unread => reading' # "body"
<1>1. ASSUME NEW outer, NEW value, NEW i, answer = Unread, Return(outer, value, i)
      PROVE  answer' = Unread => reading' # "body"
  <2>1. CASE outer # <<>>
    BY <1>1, <2>1 DEF Return
  <2>2. CASE outer = <<>>
    <3>1. answer' = Parsed(value, i) \/ answer' = Refused
      BY <1>1, <2>2 DEF Return
    <3>2. Refused.read /\ ~Unread.read /\ Parsed(value, i).ok /\ ~Unread.ok
      BY DEF Refused, Unread, Parsed
    <3>3. answer' # Unread
      BY <3>1, <3>2
    <3> QED BY <3>3
  <2> QED BY <2>1, <2>2
<1>2. ASSUME NEW type \in {"array", "object"}, NEW i, answer = Unread, Open(type, i)
      PROVE  answer' = Unread => reading' # "body"
  <2>1. CASE reading' = Turn[type]
    BY <2>1 DEF Turn
  <2>2. CASE \E j : Return(calls, <<type, <<>>>>, j)
    BY <1>1, <1>2, <2>2
  <2> QED BY <1>2, <2>1, <2>2 DEF Open
<1>3. CASE Refuse
  BY <1>3, RefuseWent
<1>4. CASE ReadBody
  <2>1. answer = Unread /\ ((\E i : Open("object", i)) \/ Refuse)
    BY <1>4 DEF ReadBody
  <2> QED BY <1>2, <1>3, <2>1
<1>5. CASE ReadKey
  <2>1. reading' = "value" \/ Refuse
    BY <1>5 DEF ReadKey
  <2> QED BY <1>3, <2>1
<1>6. CASE ReadValue
  <2>1. /\ answer = Unread
        /\ \/ \E value, i : Return(calls, value, i)
           \/ \E i : Open("object", i) \/ Open("array", i)
           \/ Refuse
    BY <1>6 DEF ReadValue
  <2> QED BY <1>1, <1>2, <1>3, <2>1
<1>7. CASE EndTurn
  <2>1. /\ answer = Unread
        /\ \/ \E value, i : Return(Front(calls), value, i)
           \/ reading' = Turn[Last(calls).type]
           \/ Refuse
    BY <1>7 DEF EndTurn
  <2>2. Last(calls).type \in {"array", "object"}
    <3>1. calls # <<>> /\ GoodCalls(calls)
      BY <1>7 DEF EndTurn, JsonInv
    <3> QED BY <3>1, CallsPop DEF GoodCall
  <2>3. CASE reading' = Turn[Last(calls).type]
    BY <2>2, <2>3 DEF Turn
  <2> QED BY <1>1, <1>3, <2>1, <2>3
<1> QED BY <1>4, <1>5, <1>6, <1>7

\* Every body and every slip: the parser reads the escape, or refuses the body.
LEMMA EscapeInductive == JsonSpec => []EscapeInv
<1>1. JsonInit => EscapeInv
  <2> SUFFICES ASSUME JsonInit
               PROVE  EscapeInv
    OBVIOUS
  <2>1. body \in Seq(0..255)
    BY DocumentsAssumption DEF JsonInit
  <2>2. EscapeAtEnd(body) => at <= Len(body) - 9
    <3> SUFFICES ASSUME Len(body) > 9
                 PROVE  at <= Len(body) - 9
      BY DEF EscapeAtEnd
    <3>1. Len(body) \in Nat
      BY <2>1
    <3>2. 1 <= Len(body) - 9
      BY <3>1
    <3> QED BY <3>2 DEF JsonInit
  <2>3. ~answer.ok /\ at = 1
    BY DEF JsonInit, Unread
  <2> QED BY <2>2, <2>3 DEF EscapeInv, Underway
<1>2. JsonInv /\ JsonInv' /\ EscapeInv /\ [JsonNext]_json_vars => EscapeInv'
  <2> SUFFICES ASSUME JsonInv, JsonInv', EscapeInv, [JsonNext]_json_vars
               PROVE  EscapeInv'
    OBVIOUS
  <2>1. CASE UNCHANGED json_vars
    BY <2>1 DEF json_vars, EscapeInv, EscapeAtEnd, Underway, Spelled, Last
  <2>2. CASE Slip
    <3>1. reading = "body" /\ answer = Unread /\ at' = at /\ reading' = reading /\ answer' = answer
      BY <2>2 DEF Slip
    <3>2. at' = 1
      BY <3>1 DEF EscapeInv
    <3>3. (EscapeAtEnd(body) => at <= Len(body) - 9)'
      <4> SUFFICES ASSUME Len(body') > 9
                   PROVE  at' <= Len(body') - 9
        BY DEF EscapeAtEnd
      <4>1. PICK n \in Nat : n = Len(body')
        <5>1. body' \in Seq(Byte)
          BY DEF JsonInv
        <5> QED BY <5>1
      <4>2. 1 <= n - 9
        BY <4>1
      <4> QED BY <3>2, <4>1, <4>2
    <3> QED BY <3>1, <3>2, <3>3 DEF EscapeInv, Underway, Unread
  <2>3. CASE ReadBody \/ ReadKey \/ ReadValue \/ EndTurn
    <3>1. answer' = Unread => reading' # "body"
      BY <2>3, BegunOnce
    <3>2. body' = body
      BY <2>3 DEF ReadBody, ReadKey, ReadValue, EndTurn
    <3>3. ASSUME EscapeAtEnd(body)
          PROVE  /\ answer' = Unread => (Underway(body, Len(body) - 9))'
                 /\ answer'.ok => Spelled(body, answer.value[2])'
      <4>1. PICK s \in Seq(Byte) : s = body
        BY DEF JsonInv
      <4>2. PICK p : p = Len(s) - 9
        OBVIOUS
      <4>3. EscapeAt(s, p)
        BY <3>3, <4>1, <4>2, EscapePlace
      <4>4. Went(s, p)
        BY <3>3, <4>1, <4>2 DEF EscapeInv, Went
      <4>5. ReadBody => at = 1
        BY DEF ReadBody, EscapeInv
      <4>6. Went(s, p)'
        BY <2>3, <4>1, <4>3, <4>4, <4>5, ReadBodyWent, ReadKeyWent, ReadValueWent, EndTurnWent
      <4>7. s = body' /\ p = Len(body') - 9
        BY <3>2, <4>1, <4>2
      <4> QED BY <4>6, <4>7 DEF Went, Underway, Spelled
    <3>4. EscapeAtEnd(body)' => EscapeAtEnd(body)
      BY <3>2 DEF EscapeAtEnd
    <3> QED BY <3>1, <3>3, <3>4 DEF EscapeInv
  <2> QED BY <2>1, <2>2, <2>3 DEF JsonNext
<1> QED BY <1>1, <1>2, JsonInductive, PTL DEF JsonSpec

\* A \u escape that is a whole value, at the end of whatever body, is read as the
\* shortest UTF-8 of its code point: append_utf8_codepoint, as
\* parse_json_string_value calls it for what parse_json_object_value stores.
THEOREM EscapesAreRead == JsonSpec => []EscapesAreUtf8
<1>1. EscapeInv => EscapesAreUtf8
  BY DEF EscapeInv, EscapesAreUtf8, EscapeAtEnd, Spelled
<1> QED BY <1>1, EscapeInductive, PTL
=============================================================================
