------------------------------ MODULE Encodings ------------------------------
(***************************************************************************)
(* The two decoders of UTF-8: the classifier of utf8.cpp, with what is     *)
(* built on it, and EncodeToUTF16 of Encoding.h, which was to replace it.  *)
(* All of it is from before the project's reset and commented out at this  *)
(* commit.  A text grows by a byte at a time; a position is a byte's       *)
(* index.  A bit test on a byte is written as the range that passes it.    *)
(***************************************************************************)
EXTENDS Naturals, Sequences

CONSTANTS
  CodeUnits, \* the bytes of which texts are made
  MaxBytes   \* bound: the length of a text

Byte   == 0 .. 255
Char16 == 0 .. 256 * 256 - 1

ASSUME CodeUnitsAssumption == CodeUnits \subseteq Byte

VARIABLE text

Replacement   == 65533  \* 0xfffd
HighSurrogate == 55296  \* 0xd800
LowSurrogate  == 56320  \* 0xdc00

(* The n-th byte after position i exists and is 10xxxxxx. *)
HasTail(s, i, n) == i + n <= Len(s) /\ s[i + n] \in 128 .. 191

(* The bits that the n-th byte after position i contributes. *)
Six(s, i, n) == s[i + n] % 64

(* A loop over n bytes, from each position: it adds the units of the       *)
(* position and goes that many bytes forward.                              *)
Walk(n, units, bytes) ==
  LET from[i \in 1 .. n + 1] == IF i > n THEN <<>> ELSE units[i] \o from[i + bytes[i]]
  IN  from
-----------------------------------------------------------------------------
(* utf8.cpp *)
ClassifyCodeUnit_Slip(s, i) ==  \* no limit above 0x10ffff
  LET c == s[i] IN
  IF c < 128 THEN "ASCII"
  ELSE IF c < 194 \/ ~HasTail(s, i, 1) THEN "INVALID"
  ELSE IF c < 224 THEN (IF c < 196 THEN "LATIN1" ELSE "TWOBYTE")
  ELSE IF (c = 224 /\ s[i + 1] < 160) \/ c = 237 \/ ~HasTail(s, i, 2) THEN "INVALID"
  ELSE IF c < 240 THEN "THREEBYTE"
  ELSE IF c > 244 \/ ~HasTail(s, i, 3) \/ (c = 240 /\ s[i + 1] < 144) THEN "INVALID"
  ELSE "FOURBYTE"

(* Of 0xed every second byte is turned away: none has the bit 0x40. *)
ClassifyCodeUnit(s, i) ==
  LET c == s[i] IN
  IF c < 128 THEN "ASCII"
  ELSE IF c < 194 \/ ~HasTail(s, i, 1) THEN "INVALID"
  ELSE IF c < 224 THEN (IF c < 196 THEN "LATIN1" ELSE "TWOBYTE")
  ELSE IF (c = 224 /\ s[i + 1] < 160) \/ c = 237 \/ ~HasTail(s, i, 2) THEN "INVALID"
  ELSE IF c < 240 THEN "THREEBYTE"
  ELSE IF c > 244 \/ ~HasTail(s, i, 3) THEN "INVALID"
  ELSE IF (c = 240 /\ s[i + 1] < 144) \/ (c = 244 /\ s[i + 1] >= 144) THEN "INVALID"
  ELSE "FOURBYTE"

OffsetForClassification ==
  [ASCII |-> 1, LATIN1 |-> 2, TWOBYTE |-> 2, THREEBYTE |-> 3, FOURBYTE |-> 4, INVALID |-> 1]

Utf16CountForClassification_Slip == [class \in DOMAIN OffsetForClassification |-> 1]

Utf16CountForClassification ==
  [class \in DOMAIN OffsetForClassification |-> IF class = "FOURBYTE" THEN 2 ELSE 1]

Utf8ToLatin1_Slip(first, second) == second % 64  \* the top two bits are lost

Utf8ToLatin1(first, second) == 64 * (first % 4) + (second % 64)

HasBOM(s) == Len(s) >= 3 /\ SubSeq(s, 1, 3) = <<239, 187, 191>>

Utf8ToUtf16(s, i, class) ==
  CASE class = "ASCII"                   -> s[i]
    [] class \in {"LATIN1", "TWOBYTE"}   -> 64 * (s[i] % 32) + Six(s, i, 1)
    [] class = "THREEBYTE"               -> 4096 * (s[i] % 16) + 64 * Six(s, i, 1) + Six(s, i, 2)
    [] OTHER                             -> Replacement

(* The low surrogate has the last ten bits; of those above 64 is taken     *)
(* away, which is 0x10000 shifted by ten.                                  *)
SurrogatePair(s, i) ==
  LET top == 256 * (s[i] % 16) + 4 * Six(s, i, 1) + (Six(s, i, 2) \div 16)
      low == 64 * (Six(s, i, 2) % 16) + Six(s, i, 3)
  IN  <<HighSurrogate + (top - 64), LowSurrogate + low>>

First(s) == IF HasBOM(s) THEN 4 ELSE 1
Offsets(s) == [i \in DOMAIN s |-> OffsetForClassification[ClassifyCodeUnit(s, i)]]

(* Where each character begins. *)
Starts(s) == Walk(Len(s), [i \in DOMAIN s |-> <<i>>], Offsets(s))[First(s)]

NeedsEncodingForSpiderMonkey(s) == \E i \in First(s) .. Len(s) : s[i] >= 128

CanEncodeToLatin1(s) ==
  \A k \in DOMAIN Starts(s) : ClassifyCodeUnit(s, Starts(s)[k]) \in {"ASCII", "LATIN1"}

(* The first pass of Utf16Encode, to size the buffer, and the second. *)
Char16Count(s) ==
  LET from[i \in 1 .. Len(s) + 1] ==
        IF i > Len(s) THEN 0
        ELSE Utf16CountForClassification[ClassifyCodeUnit(s, i)] + from[i + Offsets(s)[i]]
  IN  from[First(s)]

Utf16At(s, i) ==
  LET class == ClassifyCodeUnit(s, i)
  IN  IF class = "FOURBYTE" THEN SurrogatePair(s, i) ELSE <<Utf8ToUtf16(s, i, class)>>

Utf16Encode(s) == Walk(Len(s), [i \in DOMAIN s |-> Utf16At(s, i)], Offsets(s))[First(s)]

(* Throws unless CanEncodeToLatin1.  One byte for each character. *)
Latin1At(s, i) ==
  IF ClassifyCodeUnit(s, i) = "ASCII" THEN s[i] ELSE Utf8ToLatin1(s[i], s[i + 1])

Latin1Encode(s) == Walk(Len(s), [i \in DOMAIN s |-> <<Latin1At(s, i)>>], Offsets(s))[First(s)]
-----------------------------------------------------------------------------
(* Encoding.h: what cannot follow a lead byte whatever comes after. *)
IllFormed_Slip(c, c2) ==  \* surrogates pass
  (c = 224 /\ c2 < 160) \/ (c = 240 /\ c2 < 144) \/ (c = 244 /\ c2 >= 144)

IllFormed(c, c2) ==
  \/ c = 224 /\ c2 < 160
  \/ c = 237 /\ c2 >= 160
  \/ c = 240 /\ c2 < 144
  \/ c = 244 /\ c2 >= 144

(* One turn of the loop: how many bytes it goes forward, and what it adds. *)
Turn(s, i) ==
  LET c    == s[i]
      bad  == [bytes |-> 1, units |-> <<Replacement>>]
      good(n, units) == [bytes |-> n, units |-> units]
  IN
  IF c < 128 THEN good(1, <<c>>)
  ELSE IF c < 194 \/ c > 244 \/ ~HasTail(s, i, 1) THEN bad
  ELSE IF IllFormed(c, s[i + 1]) THEN bad
  ELSE IF c < 224 THEN good(2, <<64 * (c % 32) + Six(s, i, 1)>>)
  ELSE IF ~HasTail(s, i, 2) THEN bad
  ELSE IF c < 240 THEN good(3, <<4096 * (c % 16) + 64 * Six(s, i, 1) + Six(s, i, 2)>>)
  ELSE IF ~HasTail(s, i, 3) THEN bad
  ELSE good(4, SurrogatePair(s, i))

Terminated(s) == IF s # <<>> /\ s[Len(s)] = 0 THEN <<>> ELSE <<0>>

(* Two null pointers, which isDegenerate looks for, are the empty text. *)
EncodeToUTF16(s) ==
  Walk(Len(s), [i \in DOMAIN s |-> Turn(s, i).units], [i \in DOMAIN s |-> Turn(s, i).bytes])[1]
    \o Terminated(s)
-----------------------------------------------------------------------------
EncodingsInit == text = <<>>

AppendByte == Len(text) < MaxBytes /\ \E b \in CodeUnits : text' = Append(text, b)

EncodingsNext == AppendByte

EncodingsSpec == EncodingsInit /\ [][EncodingsNext]_text
-----------------------------------------------------------------------------
(* UTF-8 as Unicode defines it: the shortest form of a scalar value.       *)
Leads == <<0 .. 127, 192 .. 223, 224 .. 239, 240 .. 247>>
Least == <<0, 128, 2048, 65536>>

LastScalar == 1114111
Surrogates == HighSurrogate .. LowSurrogate + 1023

Scalar(s, i, n) ==
  CASE n = 1 -> s[i]
    [] n = 2 -> 64 * (s[i] - 192) + Six(s, i, 1)
    [] n = 3 -> 4096 * (s[i] - 224) + 64 * Six(s, i, 1) + Six(s, i, 2)
    [] n = 4 -> 262144 * (s[i] - 240) + 4096 * Six(s, i, 1) + 64 * Six(s, i, 2) + Six(s, i, 3)

WellFormed(s, i, n) ==
  /\ s[i] \in Leads[n]
  /\ \A k \in 1 .. n - 1 : HasTail(s, i, k)
  /\ Scalar(s, i, n) \in Least[n] .. LastScalar
  /\ Scalar(s, i, n) \notin Surrogates

Utf16Of(scalar) ==
  IF scalar < 65536 THEN <<scalar>>
  ELSE <<HighSurrogate + ((scalar - 65536) \div 1024),
         LowSurrogate + ((scalar - 65536) % 1024)>>

(* Each byte that begins nothing well-formed is replaced. *)
Character(s, i) ==
  IF \E n \in 1 .. 4 : WellFormed(s, i, n)
  THEN LET n == CHOOSE n \in 1 .. 4 : WellFormed(s, i, n)
       IN  [bytes |-> n, units |-> Utf16Of(Scalar(s, i, n))]
  ELSE [bytes |-> 1, units |-> <<Replacement>>]

UnicodeDecode(s, start) ==
  Walk(Len(s), [i \in DOMAIN s |-> Character(s, i).units],
       [i \in DOMAIN s |-> Character(s, i).bytes])[start]

(* EncodeToUTF16 decodes UTF-8: overlong forms, surrogates, what is beyond *)
(* 0x10ffff and what is cut off by another character or the end are        *)
(* replaced byte by byte, and no byte of what follows is swallowed.        *)
DecodesUnicode == EncodeToUTF16(text) = UnicodeDecode(text, 1) \o Terminated(text)

(* So does Utf16Encode of the older classifier, after a BOM, except that   *)
(* it also replaces U+D000 to U+D7FF, as if they were surrogates.          *)
OlderDecodesUnicode(s) ==
  (\A i \in DOMAIN s : s[i] # 237) =>
    Utf16Encode(s) = UnicodeDecode(s, First(s))

(* The second pass of Utf16Encode writes exactly as many units as the      *)
(* first counted, by another table: never past the buffer it allocated.    *)
(* There are no more of them than bytes, as who copies a string assumes.   *)
WritesFitCount(s) ==
  /\ Utf16Encode(s) \in Seq(Char16)
  /\ Len(Utf16Encode(s)) = Char16Count(s)
  /\ Char16Count(s) <= Len(s)

(* A string has the same characters whether it is kept as Latin-1 or as    *)
(* UTF-16, and plain ASCII is always kept as Latin-1.                      *)
Latin1KeepsText(s) ==
  /\ CanEncodeToLatin1(s) => Latin1Encode(s) = Utf16Encode(s)
  /\ ~NeedsEncodingForSpiderMonkey(s) => CanEncodeToLatin1(s)

KeepsText(s) == OlderDecodesUnicode(s) /\ WritesFitCount(s) /\ Latin1KeepsText(s)

(* The older code keeps the text, in either encoding, in the room it       *)
(* counted for it.                                                         *)
EncodersKeepText == KeepsText(text)
=============================================================================
