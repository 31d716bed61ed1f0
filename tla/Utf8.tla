---------------------------------- MODULE Utf8 ----------------------------------
(***************************************************************************)
(* ttytk::utf8 and ttytk::cp, with the two other decoders the library has:    *)
(* grapheme's and charwidth's next_codepoint().  Bytes and code points are     *)
(* numbers; the tables of the code are given by their values for a sample.     *)
(***************************************************************************)
EXTENDS Naturals, SequencesExt

CONSTANTS
  Cp437,       \* a part of cp437_upper: a function from bytes to code points
  ZeroWidth, Ambiguous,   \* code points of a sample in charwidth's tables
  Wide(_)                 \* the intervals of the third one

Replacement == 65533
Surrogate(c) == c >= 55296 /\ c <= 57343

Continuation(byte) == byte \div 64 = 2

-----------------------------------------------------------------------------

\* The length a first byte announces, 0 for none; its own bits; the least code point that
\* needs the length.
Announced(byte) ==
  CASE byte \in 194..223 -> 2 [] byte \in 224..239 -> 3 [] byte \in 240..244 -> 4 [] OTHER -> 0

FirstBits(byte, length) == byte % (CASE length = 2 -> 32 [] length = 3 -> 16 [] length = 4 -> 8)

Minimum(length) == CASE length = 2 -> 128 [] length = 3 -> 2048 [] length = 4 -> 65536

\* The bits of length bytes from at on, continuation bytes taken for granted.
Bits(input, at, length) ==
  LET code[n \in 1..length] ==
        IF n = 1 THEN FirstBits(input[at], length) ELSE code[n - 1] * 64 + (input[at + n - 1] % 64)
  IN  code[length]

\* Mutant of Acceptable: surrogates are let through.
AcceptableSurrogates(code, length) == code >= Minimum(length) /\ code <= 1114111

Acceptable(code, length) == code >= Minimum(length) /\ code <= 1114111 /\ ~ Surrogate(code)

\* decode_one(): the code point at a place and the bytes it takes, or U+FFFD for one byte.
DecodeOne(input, at) ==
  LET length == Announced(input[at])
      code == Bits(input, at, length)
  IN  IF input[at] <= 127 THEN [code |-> input[at], used |-> 1]
      ELSE IF /\ length > 0 /\ at + length - 1 <= Len(input)
              /\ \A i \in at + 1..at + length - 1 : Continuation(input[i])
              /\ Acceptable(code, length)
           THEN [code |-> code, used |-> length]
           ELSE [code |-> Replacement, used |-> 1]

\* decode()
Decode(input) ==
  LET from[at \in 1..Len(input) + 1] ==
        IF at > Len(input) THEN <<>>
        ELSE <<DecodeOne(input, at).code>> \o from[at + DecodeOne(input, at).used]
  IN  from[1]

\* encode() of one code point
Encode(codepoint) ==
  LET scalar == IF codepoint > 1114111 \/ Surrogate(codepoint) THEN Replacement ELSE codepoint
      tail(unit) == 128 + ((scalar \div unit) % 64)
  IN  IF scalar <= 127 THEN <<scalar>>
      ELSE IF scalar <= 2047 THEN <<192 + scalar \div 64, tail(1)>>
      ELSE IF scalar <= 65535 THEN <<224 + scalar \div 4096, tail(64), tail(1)>>
      ELSE <<240 + scalar \div 262144, tail(4096), tail(64), tail(1)>>

EncodeAll(codepoints) == FlattenSeq([i \in DOMAIN codepoints |-> Encode(codepoints[i])])

\* validate()
Validate(input) ==
  LET from[at \in 1..Len(input) + 1] ==
        \/ at > Len(input)
        \/ LET one == DecodeOne(input, at)
           IN  /\ ~ (one.code = Replacement /\ input[at] # 239)
               /\ ~ (one.used = 1 /\ input[at] >= 128)
               /\ from[at + one.used]
  IN  from[1]

-----------------------------------------------------------------------------

\* cp::decode_byte(), to_utf8() and from_utf8()
DecodeByte(byte, page) == IF byte < 128 \/ page = "latin1" THEN byte ELSE Cp437[byte]

ToUtf8(input, page) == FlattenSeq([i \in DOMAIN input |-> Encode(DecodeByte(input[i], page))])

ByteOf(codepoint, page) ==
  LET places == {b \in DOMAIN Cp437 : Cp437[b] = codepoint}
  IN  IF codepoint <= 127 \/ (page = "latin1" /\ codepoint <= 255) THEN codepoint
      ELSE IF page = "cp437" /\ places # {} THEN Min(places) ELSE 63

FromUtf8(input, page) ==
  LET codes == Decode(input) IN [i \in DOMAIN codes |-> ByteOf(codes[i], page)]

-----------------------------------------------------------------------------

\* grapheme::detail::next_codepoint(): the part of the length announced, decoded if valid.
GraphemeNext(input, at) ==
  LET length == IF Announced(input[at]) = 0 THEN 1 ELSE Announced(input[at])
      part == SubSeq(input, at, at + length - 1)
  IN  IF at + length - 1 <= Len(input) /\ Validate(part)
      THEN [code |-> Decode(part)[1], used |-> length]
      ELSE [code |-> Replacement, used |-> 1]

\* charwidth::detail::next_codepoint(): a byte that should continue and does not is
\* swallowed; overlong forms and surrogates pass.
WidthNext(input, at) ==
  LET length == IF input[at] < 224 THEN 2 ELSE IF input[at] < 240 THEN 3 ELSE 4
      last == IF at + length - 1 <= Len(input) THEN at + length - 1 ELSE Len(input)
      bad == {i \in at + 1..last : ~ Continuation(input[i])}
  IN  IF input[at] < 128 THEN [code |-> input[at], used |-> 1]
      ELSE IF bad # {} THEN [code |-> Replacement, used |-> Min(bad) - at + 1]
      ELSE IF last < at + length - 1 THEN [code |-> Replacement, used |-> last - at + 1]
      ELSE [code |-> Bits(input, at, length), used |-> length]

\* charwidth::of() and of_string()
Of(codepoint, ambiguousIsWide) ==
  IF codepoint = 0 \/ codepoint \in ZeroWidth THEN 0
  ELSE IF Wide(codepoint) \/ (ambiguousIsWide /\ codepoint \in Ambiguous) THEN 2
  ELSE 1

OfString(input, ambiguousIsWide) ==
  LET from[at \in 1..Len(input) + 1] ==
        IF at > Len(input) THEN 0
        ELSE Of(WidthNext(input, at).code, ambiguousIsWide) + from[at + WidthNext(input, at).used]
  IN  from[1]

-----------------------------------------------------------------------------

\* The well-formed sequences by the table of the Unicode standard, not by decoding: the
\* second byte is limited after E0, ED, F0 and F4.
WellFormedAt(input, at, length) ==
  LET first == input[at]
      least == IF first = 224 THEN 160 ELSE IF first = 240 THEN 144 ELSE 128
      most == IF first = 237 THEN 159 ELSE IF first = 244 THEN 143 ELSE 191
  IN  /\ length = Announced(first) /\ at + length - 1 <= Len(input)
      /\ least <= input[at + 1] /\ input[at + 1] <= most
      /\ \A i \in at + 2..at + length - 1 : 128 <= input[i] /\ input[i] <= 191

\* Whatever the bytes: a code point is taken exactly where the table has a sequence;
\* validate() is true of a text decode() can be undone for, and only of those; grapheme
\* clusters are cut where decode() cuts; the width is that of the decoded text if it is
\* valid; and both code pages come back as they were.
DecodersAgree(input) ==
  /\ \A at \in 1..Len(input) :
       LET one == DecodeOne(input, at)
       IN  /\ input[at] >= 128 =>
                (one.used > 1 <=> \E length \in 2..4 : WellFormedAt(input, at, length))
           /\ GraphemeNext(input, at) = one
  /\ Validate(input) <=> EncodeAll(Decode(input)) = input
  /\ \A ambiguous \in BOOLEAN :
       Validate(input) => OfString(input, ambiguous) =
         FoldLeft(LAMBDA n, c : n + Of(c, ambiguous), 0, Decode(input))
  /\ FromUtf8(ToUtf8(input, "latin1"), "latin1") = input
  /\ (\A i \in DOMAIN input : input[i] < 128 \/ input[i] \in DOMAIN Cp437) =>
       FromUtf8(ToUtf8(input, "cp437"), "cp437") = input

=================================================================================
