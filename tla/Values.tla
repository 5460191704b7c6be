------------------------------- MODULE Values -------------------------------
(***************************************************************************)
(* Numbers, booleans, undefined and null, and how one is converted to      *)
(* another: V8Number and its classification (number.cpp), the conversions  *)
(* and comparisons of value.cpp.  All of it is from before the project's   *)
(* reset and commented out at this commit.                                 *)
(*                                                                         *)
(* The widths of the integers are those of the code relative to Small,     *)
(* which is 0x10000000 there: 2^31 is 8 times that, 2^32 is 16 times that, *)
(* and 2^63 is 2^32 times 2^31.  A double is special or a whole number of  *)
(* halves.  A cast that C++ leaves undefined gives what x86-64 gives:      *)
(* cvttsd2si of 32 or 64 bits, and the low half of the latter for an       *)
(* unsigned.                                                               *)
(***************************************************************************)
EXTENDS Integers

CONSTANTS
  Small,    \* 0x10000000: numbers below it are tagged as both kinds of integer
  Doubles,  \* the doubles that the client makes numbers of
  Slots     \* the client's handles

ASSUME SmallAssumption == Small \in Nat \ {0}

Half   == 8 * Small     \* an int32_t is below it,
Size   == 16 * Small    \* a uint32_t below this,
Half64 == Size * Half   \* and an int64_t below this

VARIABLE slotValue  \* what each handle refers to

Real(halves) == [special |-> "none", halves |-> halves]
Special(s)   == [special |-> s, halves |-> 0]
NaN          == Special("nan")
NegZero      == Special("-0")
Infinities   == {Special("inf"), Special("-inf")}

(* The doubles, each written in one way. *)
IsDouble(d)  == d \in {NaN, NegZero} \cup Infinities \/ (d.halves \in Int /\ d = Real(d.halves))
ASSUME DoublesAssumption == \A d \in Doubles : IsDouble(d)

Is0(d)       == d \in {Real(0), NegZero}
IsFinite(d)  == d \notin {NaN} \cup Infinities

(* The whole part of a finite double. *)
Whole(d) == IF d.halves >= 0 THEN d.halves \div 2 ELSE -((-d.halves) \div 2)

InRange(n, half) == -half <= n /\ n < half

CastInt(d, half) == IF IsFinite(d) /\ InRange(Whole(d), half) THEN Whole(d) ELSE -half
CastInt32(d)     == CastInt(d, Half)
CastInt64(d)     == CastInt(d, Half64)
CastUint32(d)    == CastInt64(d) % Size
Signed(u)        == IF u < Half THEN u ELSE u - Size

(* value < 0x10000000 *)
IsSmall(d) == d.halves < 2 * Small
-----------------------------------------------------------------------------
ClassifyNumber_Slip(d) ==  \* UINT32 is not told apart
  IF IsFinite(d) /\ d # NegZero /\ Real(2 * CastInt32(d)) = d THEN "VAL32" ELSE "NUMBER"

ClassifyNumber(d) ==
  IF ~IsFinite(d) \/ d = NegZero THEN "NUMBER"
  ELSE IF Real(2 * CastUint32(d)) = d THEN (IF IsSmall(d) THEN "VAL32" ELSE "UINT32")
  ELSE IF Real(2 * CastInt32(d)) = d THEN "INT32"
  ELSE "NUMBER"

NewNumber(d)  == [type |-> "number", double |-> d, tag |-> ClassifyNumber(d)]
NewInteger(n) == NewNumber(Real(2 * n))
NewBoolean(b) == [type |-> "boolean", double |-> Real(IF b THEN 2 ELSE 0), tag |-> "none"]
Undefined     == [type |-> "undefined", double |-> NaN, tag |-> "none"]
Null          == [type |-> "null", double |-> Real(0), tag |-> "none"]
NoValue       == [type |-> "empty", double |-> NaN, tag |-> "none"]

IsNumber(v)  == v.type = "number"
IsBoolean(v) == v.type = "boolean"
IsInt32(v)   == v.tag \in {"VAL32", "INT32"}
IsUint32(v)  == v.tag \in {"VAL32", "UINT32"}
-----------------------------------------------------------------------------
(* Of a boolean 0 or 1, of undefined NaN, of null 0. *)
NumberValue(v) == v.double

IntegerValue(v) == IF v.type = "undefined" THEN 0 ELSE CastInt64(v.double)

DoubleToUint32(d) == IF ~IsFinite(d) \/ Is0(d) THEN 0 ELSE CastUint32(d)
DoubleToInt32(d)  == Signed(DoubleToUint32(d))

Int32Value_Slip(v) ==  \* cast at once, for whatever number
  IF v.type = "undefined" THEN 0 ELSE CastInt32(v.double)

Int32Value(v) == DoubleToInt32(v.double)

Uint32Value(v) ==
  IF IsInt32(v) \/ IsUint32(v) THEN DoubleToUint32(v.double)
  ELSE DoubleToInt32(v.double) % Size

BooleanValue(v) ==
  /\ v.type \in {"number", "boolean"}
  /\ v.double # NaN /\ ~Is0(v.double)
-----------------------------------------------------------------------------
(* The conversions to another handle.  Small integers return the original. *)
Unscathed(v) == (IsInt32(v) \/ IsUint32(v)) /\ IsSmall(v.double)

ToNumber(v) == IF IsNumber(v) THEN v ELSE NewNumber(NumberValue(v))

ToInteger_Slip(v) ==  \* an unsigned is made an int32_t as the others are
  IF ~IsNumber(v) THEN NewInteger(IntegerValue(v))
  ELSE IF Unscathed(v) \/ ~IsFinite(v.double) THEN v
  ELSE NewInteger(CastInt32(v.double))

ToInteger(v) ==
  IF ~IsNumber(v) THEN NewInteger(IntegerValue(v))
  ELSE IF Unscathed(v) \/ ~IsFinite(v.double) THEN v
  ELSE NewInteger(IF IsUint32(v) THEN CastUint32(v.double) ELSE CastInt32(v.double))

ToInt32(v) ==
  IF Unscathed(v) THEN v
  ELSE NewInteger(IF IsNumber(v) THEN DoubleToInt32(v.double) ELSE Int32Value(v))

ToUint32(v) ==
  IF Unscathed(v) THEN v
  ELSE NewInteger(IF IsNumber(v) THEN DoubleToUint32(v.double) ELSE Uint32Value(v))

ToArrayIndex_Slip(v) ==  \* negative numbers are not turned away
  IF v.double = NegZero THEN NewInteger(0)
  ELSE IF v.type \in {"undefined", "null"} \/ v.tag = "NUMBER" THEN NoValue
  ELSE ToUint32(v)

ToArrayIndex(v) ==
  IF v.double = NegZero THEN NewInteger(0)
  ELSE IF v.type \in {"undefined", "null"} \/ v.tag = "NUMBER" \/ v.double.halves < 0 THEN NoValue
  ELSE ToUint32(v)

ToBoolean(v) == IF IsBoolean(v) THEN v ELSE NewBoolean(BooleanValue(v))
-----------------------------------------------------------------------------
SameNumber(d, e) ==
  /\ NaN \notin {d, e}
  /\ d = e \/ (Is0(d) /\ Is0(e))

NumbersEqual(v, w) == SameNumber(NumberValue(v), NumberValue(w))

Equals_Slip(v, w) ==  \* a number is not equal to a boolean
  CASE IsNumber(v)  -> IsNumber(w) /\ NumbersEqual(v, w)
    [] IsBoolean(v) -> /\ IsNumber(w) \/ IsBoolean(w)
                       /\ NumbersEqual(v, w)
    [] OTHER        -> w.type \in {"undefined", "null"}

Equals(v, w) ==
  CASE IsNumber(v) \/ IsBoolean(v)       -> /\ IsNumber(w) \/ IsBoolean(w)
                                            /\ NumbersEqual(v, w)
    [] v.type \in {"undefined", "null"}  -> w.type \in {"undefined", "null"}

StrictEquals_Slip(s, t) ==  \* identity first
  LET v == slotValue[s] w == slotValue[t]
  IN  \/ s = t
      \/ v.type = w.type /\ (IsNumber(v) \/ IsBoolean(v)) /\ NumbersEqual(v, w)

(* Other values than numbers and booleans are equal if the handles' slots  *)
(* are: every copy of a handle to undefined is unlike it.                  *)
StrictEquals(s, t) ==
  LET v == slotValue[s] w == slotValue[t]
  IN  IF v.type = w.type /\ (IsNumber(v) \/ IsBoolean(v)) THEN NumbersEqual(v, w) ELSE s = t
-----------------------------------------------------------------------------
Conversions(v) ==
  {ToNumber(v), ToInteger(v), ToInt32(v), ToUint32(v), ToArrayIndex(v), ToBoolean(v)}

Made == {NewNumber(d) : d \in Doubles} \cup {NewBoolean(TRUE), NewBoolean(FALSE), Undefined, Null}

ValuesInit == slotValue = [s \in Slots |-> NoValue]

(* A handle to a new value, or to what another handle's is converted to. *)
NewValue(s) == \E v \in Made : slotValue' = [slotValue EXCEPT ![s] = v]

Convert(s, from) ==
  /\ slotValue[from] # NoValue
  /\ \E v \in Conversions(slotValue[from]) : slotValue' = [slotValue EXCEPT ![s] = v]

ValuesNext == \E s \in Slots : NewValue(s) \/ \E from \in Slots : Convert(s, from)

ValuesSpec == ValuesInit /\ [][ValuesNext]_slotValue
-----------------------------------------------------------------------------
Referred == {slotValue[s] : s \in Slots} \ {NoValue}

(* ECMA-262 9.5 and 9.6, of the doubles whose whole part is an int64_t. *)
EcmaToUint32(d) == IF IsFinite(d) THEN Whole(d) % Size ELSE 0
HasInt64(d)     == IsFinite(d) => InRange(Whole(d), Half64)

IsWhole(d)    == d # NegZero /\ IsFinite(d) /\ Real(2 * Whole(d)) = d
FitsUint32(d) == IsWhole(d) /\ Whole(d) \in 0 .. Size - 1
FitsInt32(d)  == IsWhole(d) /\ InRange(Whole(d), Half)

(* Whatever way a number came about, IsUint32 says exactly whether it is a *)
(* whole number of that type.  IsInt32 never says so wrongly, and fails to *)
(* say so of none below 2^28.  Above it v8.h 1644 asks for the same, and   *)
(* nothing is said here: V8Number denies those in [2^28, 2^31).            *)
ClassificationRight ==
  \A v \in Referred :
    IsNumber(v) =>
      /\ IsUint32(v) <=> FitsUint32(v.double)
      /\ IsInt32(v) => FitsInt32(v.double)
      /\ FitsInt32(v.double) /\ Whole(v.double) < Small => IsInt32(v)

(* Int32Value and Uint32Value are ToInt32 and ToUint32 of ECMA-262 for     *)
(* every number whose whole part is an int64_t, though each casts on two   *)
(* paths, one of them by way of the other's type.                          *)
ValuesFollowECMA ==
  \A v \in Referred :
    HasInt64(v.double) =>
      /\ Uint32Value(v) = EcmaToUint32(v.double)
      /\ Int32Value(v)  = Signed(EcmaToUint32(v.double))

(* What a conversion returns has the value it was converted to, small      *)
(* integers that come back unscathed included: read back through the       *)
(* accessors of Int32, Uint32 and Integer.  ToInteger keeps its promise    *)
(* only for a whole part that is an int32_t or a uint32_t: any other       *)
(* becomes INT32_MIN (value.cpp 259).                                      *)
ConversionsReadBack ==
  \A v \in Referred :
    /\ CastInt64(ToInt32(v).double) = Int32Value(v)
    /\ CastInt64(ToUint32(v).double) % Size = EcmaToUint32(v.double) \/ ~HasInt64(v.double)
    /\ \/ CastInt64(ToInteger(v).double) = IntegerValue(v)
       \/ IsFinite(v.double) /\ ~InRange(Whole(v.double), Half) /\ ~IsUint32(v)

(* An array index is the number it was made of, or is not there. *)
IndexIsTheNumber ==
  \A v \in Referred :
    ToArrayIndex(v) # NoValue => IsUint32(ToArrayIndex(v)) /\ NumbersEqual(ToArrayIndex(v), v)

(* Of every value, and of all that it is converted to in any sequence, the *)
(* type tests, the numbers read from it and its conversions agree.         *)
ConversionsRight ==
  ClassificationRight /\ ValuesFollowECMA /\ ConversionsReadBack /\ IndexIsTheNumber

(* Equals is symmetric, though it decides by the type of its receiver, and *)
(* a comparison of the values' numbers wherever both have one.             *)
EqualsSymmetric ==
  \A v, w \in Referred :
    /\ Equals(v, w) = Equals(w, v)
    /\ NumbersEqual(v, w) => Equals(v, w) \/ "null" \in {v.type, w.type}

(* StrictEquals is no wider than Equals: not even a number that is equal   *)
(* to nothing is equal to itself for being the same handle.                *)
StrictImpliesEqual ==
  \A s, t \in Slots :
    NoValue \notin {slotValue[s], slotValue[t]} /\ StrictEquals(s, t) =>
      Equals(slotValue[s], slotValue[t])

(* The two comparisons agree with each other, and in both orders.          *)
ComparisonsAgree == EqualsSymmetric /\ StrictImpliesEqual
=============================================================================
