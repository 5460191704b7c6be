------------------------------ MODULE MCLibrary ------------------------------
(* The parts of the library that work by themselves, for TLC.  They share  *)
(* no state, so a behaviour moves one of them and leaves the others as     *)
(* they begin: one run explores the state space of each.                   *)
EXTENDS PlatformHandles, IsolateLocks, LocalHandles, WeakHandles, IsolateRooters, DestructList,
        Values, EncodedStrings

VARIABLE part

libraryVars == <<part, platformVars, lockVars, handleVars, weakVars, rootVars, listVars,
                 slotValue, text, stringVars>>

LibraryInit ==
  /\ part \in {"platform", "locks", "handles", "weak", "rooters", "list", "values", "encodings",
              "strings"}
  /\ PlatformInit /\ LockInit /\ HandleInit /\ WeakInit
  /\ RootInit /\ ListInit /\ ValuesInit /\ EncodingsInit /\ StringsInit

Others(name, vars) == part # name => UNCHANGED vars

LibraryNext ==
  /\ UNCHANGED part
  /\ Others("platform", platformVars)
  /\ Others("locks", lockVars)
  /\ Others("handles", handleVars)
  /\ Others("weak", weakVars)
  /\ Others("rooters", rootVars)
  /\ Others("list", listVars)
  /\ Others("values", slotValue)
  /\ Others("encodings", text)
  /\ Others("strings", stringVars)
  /\ \/ part = "platform"  /\ PlatformNext
     \/ part = "locks"     /\ LockNext
     \/ part = "handles"   /\ HandleNext
     \/ part = "weak"      /\ WeakNext
     \/ part = "rooters"   /\ RootNext
     \/ part = "list"      /\ ListNext
     \/ part = "values"    /\ ValuesNext
     \/ part = "encodings" /\ EncodingsNext
     \/ part = "strings"   /\ StringsNext

LibrarySpec == LibraryInit /\ [][LibraryNext]_libraryVars

(* On both sides of each boundary, and between: 0, 2^28, 2^31, 2^32, 2^63. *)
Boundaries == {0, Small, Half, Size, Half64}
MCDoubles ==
  {Real(sign * 2 * b + e) : sign \in {-1, 1}, b \in Boundaries, e \in -2 .. 2}
    \cup {NaN, NegZero} \cup Infinities

(* Each is among the first or last bytes of its kind, or of a BOM. *)
MCCodeUnits == {0, 65, 128, 144, 160, 187, 191, 193, 195, 197, 224, 237, 239, 240, 244, 245}

(* Empty, ASCII with a zero inside, a BOM, Latin-1 of half as many          *)
(* characters, and one character of three bytes, of four, and cut off.     *)
MCByteTexts ==
  {<<>>, <<65, 0, 66>>, <<239, 187, 191, 65>>, <<195, 160, 195, 160>>, <<224, 160, 128>>,
   <<240, 144, 128, 128>>, <<195>>}

MCWideTexts == {<<>>, <<224, 55296>>}

(* The parts share the model values that are alike, to keep this small. *)
LibrarySymmetry == Permutations(PlatformObjects) \cup Permutations(NativeHandles)
=============================================================================
