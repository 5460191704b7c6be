--------------------------- MODULE EncodedStrings ---------------------------
(***************************************************************************)
(* SMEncodedString of string.cpp: a text in one of two encodings, in an    *)
(* array of its own, and what construction, copy, move and destruction do  *)
(* with the array.  From before the project's reset, commented out at this *)
(* commit.  An array is its cells, the terminating zero included.          *)
(***************************************************************************)
EXTENDS Encodings, Functions

CONSTANTS
  StringPlaces,  \* where a string can live
  Arrays,        \* where an array can live
  NoArray,       \* a null pointer to one
  ByteTexts,     \* UTF-8, as a client hands it over; 0xed is misread (Encodings)
  WideTexts,     \* the same for UTF-16, without a zero in it
  Garbage        \* what is read beyond the end of an array

ASSUME NoArrayIsNull == NoArray \notin Arrays
ASSUME TextsAssumption ==
  /\ \A bytes \in ByteTexts : bytes \in Seq(Byte) /\ \A i \in DOMAIN bytes : bytes[i] # 237
  /\ \A units \in WideTexts : units \in Seq(Char16 \ {0})

VARIABLES
  strings,  \* the strings that are alive
  cells,    \* the arrays that are allocated
  origin    \* history: what each string was made from, as a C string

stringVars == <<strings, cells, origin>>

EncodedString ==
  [encoding : {"UNKNOWN", "LATIN1", "UTF16"},
   asLatin1 : Arrays \cup {NoArray}, asUtf16 : Arrays \cup {NoArray}, length : Nat]

StringsTypeOK ==
  /\ DOMAIN strings \subseteq StringPlaces
  /\ \A p \in DOMAIN strings : strings[p] \in EncodedString
  /\ DOMAIN cells \subseteq Arrays
  /\ DOMAIN origin = DOMAIN strings

With(f, x, y) == [z \in DOMAIN f \cup {x} |-> IF z = x THEN y ELSE f[z]]

(* What Latin1Encoding() or Utf16Encoding() shows: the cells before the    *)
(* first zero.                                                             *)
CString(c) == SubSeq(c, 1, (CHOOSE n \in DOMAIN c : c[n] = 0 /\ \A k \in 1 .. n - 1 : c[k] # 0) - 1)

EncodedIn(encoding, array, length) ==
  [encoding |-> encoding,
   asLatin1 |-> IF encoding = "LATIN1" THEN array ELSE NoArray,
   asUtf16  |-> IF encoding = "UTF16"  THEN array ELSE NoArray,
   length   |-> length]

ArrayOf(s) == IF s.encoding = "LATIN1" THEN s.asLatin1 ELSE s.asUtf16

StringsInit == strings = <<>> /\ cells = <<>> /\ origin = <<>>

(* A string in place p, in a new array with these contents. *)
NewString(p, encoding, contents, length) ==
  \E b \in Arrays \ DOMAIN cells :
    /\ strings' = With(strings, p, EncodedIn(encoding, b, length))
    /\ cells' = With(cells, b, contents)

(* From UTF-8.  The length stays that of the bytes, which may be more than *)
(* the characters in the array.                                            *)
FromBytes(p, bytes) ==
  /\ p \in StringPlaces \ DOMAIN strings
  /\ IF CanEncodeToLatin1(bytes)
     THEN NewString(p, "LATIN1", Latin1Encode(bytes) \o <<0>>, Len(bytes))
     ELSE NewString(p, "UTF16", Utf16Encode(bytes) \o <<0>>, Len(bytes))
  /\ origin' = With(origin, p, CString(UnicodeDecode(bytes, First(bytes)) \o <<0>>))

(* From UTF-16.  The cell after the last is read as well, and replaced. *)
FromUnits(p, units) ==
  /\ p \in StringPlaces \ DOMAIN strings
  /\ NewString(p, "UTF16", units \o <<0>>, Len(units))
  /\ origin' = With(origin, p, units)

Copied_Slip(c, n) ==  \* the last character gives way to the zero
  [k \in 1 .. n |-> IF k = n THEN 0 ELSE IF k \in DOMAIN c THEN c[k] ELSE Garbage]

(* As many cells as length says, though the array may have fewer, and a    *)
(* zero.                                                                   *)
Copied(c, n) == [k \in 1 .. n |-> IF k \in DOMAIN c THEN c[k] ELSE Garbage] \o <<0>>

(* An ASSERT stops whoever copies or moves what was moved before. *)
CopyString(p, q) ==
  /\ p \in StringPlaces \ DOMAIN strings
  /\ q \in DOMAIN strings /\ strings[q].encoding # "UNKNOWN"
  /\ NewString(p, strings[q].encoding, Copied(cells[ArrayOf(strings[q])], strings[q].length),
               strings[q].length)
  /\ origin' = With(origin, p, origin[q])

MovedAway_Slip(s) == [s EXCEPT !.encoding = "UNKNOWN"]  \* both own the array

MovedAway(s) ==
  IF s.encoding = "LATIN1" THEN [s EXCEPT !.encoding = "UNKNOWN", !.asLatin1 = NoArray]
                           ELSE [s EXCEPT !.encoding = "UNKNOWN", !.asUtf16 = NoArray]

MoveString(p, q) ==
  /\ p \in StringPlaces \ DOMAIN strings
  /\ q \in DOMAIN strings /\ strings[q].encoding # "UNKNOWN"
  /\ strings' = With([strings EXCEPT ![q] = MovedAway(@)], p, strings[q])
  /\ origin' = With(origin, p, origin[q])
  /\ UNCHANGED cells

DestroyString_Slip(p) ==  \* only one of the arrays is freed
  /\ p \in DOMAIN strings
  /\ cells' = Restrict(cells, DOMAIN cells \ {strings[p].asLatin1})
  /\ strings' = Restrict(strings, DOMAIN strings \ {p})
  /\ origin' = Restrict(origin, DOMAIN origin \ {p})

(* The internal tests' build spoils the first cell before it frees the     *)
(* array, which shows only if somebody else has it.                        *)
DestroyString(p) ==
  /\ p \in DOMAIN strings
  /\ cells' = Restrict(cells, DOMAIN cells \ {strings[p].asLatin1, strings[p].asUtf16})
  /\ strings' = Restrict(strings, DOMAIN strings \ {p})
  /\ origin' = Restrict(origin, DOMAIN origin \ {p})

StringsNext ==
  \E p \in StringPlaces :
    \/ \E bytes \in ByteTexts : FromBytes(p, bytes)
    \/ \E units \in WideTexts : FromUnits(p, units)
    \/ \E q \in StringPlaces : CopyString(p, q) \/ MoveString(p, q)
    \/ DestroyString(p)

StringsSpec == StringsInit /\ [][StringsNext]_stringVars
-----------------------------------------------------------------------------
(* Every array that is allocated belongs to exactly one string, which has  *)
(* it under the pointer of its encoding; a string that was moved has none, *)
(* so that whichever is destroyed first frees nothing of the other.        *)
ArraysOwnedOnce ==
  /\ \A p \in DOMAIN strings :
       LET s == strings[p] IN
       /\ s.asLatin1 # NoArray <=> s.encoding = "LATIN1"
       /\ s.asUtf16 # NoArray <=> s.encoding = "UTF16"
  /\ \A p \in DOMAIN strings : strings[p].encoding # "UNKNOWN" => ArrayOf(strings[p]) \in DOMAIN cells
  /\ \A b \in DOMAIN cells : \E p \in DOMAIN strings : ArrayOf(strings[p]) = b
  /\ \A p, q \in DOMAIN strings :
       ArrayOf(strings[p]) = ArrayOf(strings[q]) /\ ArrayOf(strings[p]) # NoArray => p = q

(* A string shows the characters it was made from, however often it was    *)
(* copied and moved, though copies take the number of bytes for that of    *)
(* the characters, and nothing that lies beyond the end of an array.       *)
TextKept ==
  \A p \in DOMAIN strings :
    strings[p].encoding # "UNKNOWN" => CString(cells[ArrayOf(strings[p])]) = origin[p]

(* Strings own their arrays alone, and show what they were made from. *)
StringsKeepText == StringsTypeOK /\ ArraysOwnedOnce /\ TextKept
=============================================================================
