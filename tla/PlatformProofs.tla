--------------------------- MODULE PlatformProofs ---------------------------
(***************************************************************************)
(* Theorems about the native handles, for any number of places and of      *)
(* handles: who owns a mutex and a key, wherever objects are moved.        *)
(***************************************************************************)
EXTENDS PlatformHandles, FiniteSetTheorems, TLAPS

(* An object has the handle, and it is one of its class.                   *)
Holds(o, class, h) == object[o].class = class /\ object[o].privateData = h

(* Each native handle of a kind has one owner of its class, and an object  *)
(* that is no owner of it holds none.                                      *)
Owned(class, kind) ==
  \A h \in NativeHandles :
    /\ native[h] = kind => \E o \in PlatformObjects : Holds(o, class, h)
    /\ \A o \in PlatformObjects : Holds(o, class, h) => native[h] = kind
    /\ \A o, p \in PlatformObjects : Holds(o, class, h) /\ Holds(p, class, h) => o = p

(* A Mutex that was moved from holds nothing.  A TLSKey always holds a     *)
(* key's number, so its class is part of the invariant only until a move.  *)
HandleInv ==
  /\ PlatformTypeOK
  /\ Owned("Mutex", "mutex")
  /\ "TLSKey" \notin movedClasses => Owned("TLSKey", "key")

LEMMA Counted ==
  ASSUME NEW class, NEW kind, Owned(class, kind)
  PROVE  OwnedOnce(class, kind)
<1> SUFFICES ASSUME NEW h \in NativeHandles
             PROVE  Cardinality(HoldersOf(class, h)) = IF native[h] = kind THEN 1 ELSE 0
  BY DEF OwnedOnce
<1>1. CASE native[h] = kind
  <2>1. PICK o \in PlatformObjects : Holds(o, class, h)
    BY <1>1 DEF Owned
  <2>2. HoldersOf(class, h) = {o}
    BY <2>1 DEF Owned, Holds, HoldersOf
  <2> QED BY <1>1, <2>2, FS_Singleton
<1>2. CASE native[h] # kind
  <2>1. HoldersOf(class, h) = {}
    BY <1>2 DEF Owned, Holds, HoldersOf
  <2> QED BY <1>2, <2>1, FS_EmptySet
<1> QED BY <1>1, <1>2

LEMMA ObjectTypes ==
  ASSUME PlatformTypeOK, NEW o \in PlatformObjects
  PROVE  /\ object[o].class \in PlatformClasses \cup {"none"}
         /\ object[o].privateData \in NativeHandles \cup {NullHandle}
         /\ object[o].hasExecuted \in BOOLEAN /\ object[o].hasFunction \in BOOLEAN
BY DEF PlatformTypeOK

LEMMA HandleInvInit == PlatformInit => HandleInv
<1> SUFFICES ASSUME PlatformInit PROVE HandleInv
  OBVIOUS
<1>1. PlatformTypeOK
  BY DEF PlatformInit, PlatformTypeOK, EmptyPlace, Constructed, PlatformClasses
<1>2. \A o \in PlatformObjects : object[o].class = "none"
  BY DEF PlatformInit, EmptyPlace, Constructed
<1>3. \A h \in NativeHandles : native[h] = "free"
  BY DEF PlatformInit
<1>4. Owned("Mutex", "mutex") /\ Owned("TLSKey", "key")
  BY <1>2, <1>3 DEF Owned, Holds
<1> QED BY <1>1, <1>4 DEF HandleInv

-----------------------------------------------------------------------------
(* What the steps do to the ownership of a class.                          *)

(* Objects of the class, and handles of the kind, stay as they are.        *)
LEMMA OthersKeepOwned ==
  ASSUME NEW class, NEW kind, Owned(class, kind),
         \A o \in PlatformObjects, h \in NativeHandles :
           Holds(o, class, h)' <=> Holds(o, class, h),
         \A h \in NativeHandles : native'[h] = kind <=> native[h] = kind
  PROVE  Owned(class, kind)'
<1> QED BY DEF Owned

(* An object without a handle gets one that nobody had.                    *)
LEMMA AcquireKeepsOwned ==
  ASSUME NEW class, NEW kind, Owned(class, kind),
         NEW o \in PlatformObjects, NEW g \in NativeHandles,
         native[g] # kind, object[o].class # class,
         \A h \in NativeHandles : h # g => native'[h] = native[h],
         native'[g] = kind,
         object'[o].class = class, object'[o].privateData = g,
         \A p \in PlatformObjects : p # o => object'[p] = object[p]
  PROVE  Owned(class, kind)'
<1>1. \A p \in PlatformObjects, h \in NativeHandles :
        Holds(p, class, h)' <=> (Holds(p, class, h) \/ (p = o /\ h = g))
  BY DEF Holds
<1>2. \A p \in PlatformObjects : ~Holds(p, class, g)
  BY DEF Owned
<1>3. \A h \in NativeHandles : ~Holds(o, class, h)
  BY DEF Holds
<1> QED BY <1>1, <1>2, <1>3 DEF Owned

(* One object gives its handle to another that has none.                   *)
LEMMA MoveKeepsOwned ==
  ASSUME NEW class, NEW kind, Owned(class, kind), native' = native,
         NEW o \in PlatformObjects, NEW from \in PlatformObjects, o # from,
         \A h \in NativeHandles :
           /\ ~Holds(o, class, h)
           /\ Holds(o, class, h)' <=> Holds(from, class, h)
           /\ ~Holds(from, class, h)',
         \A p \in PlatformObjects \ {o, from} : object'[p] = object[p]
  PROVE  Owned(class, kind)'
<1>1. \A p \in PlatformObjects \ {o, from}, h \in NativeHandles :
        Holds(p, class, h)' <=> Holds(p, class, h)
  BY DEF Holds
<1>2. ASSUME NEW h \in NativeHandles, native[h] = kind
      PROVE  \E p \in PlatformObjects : Holds(p, class, h)'
  <2>1. PICK p \in PlatformObjects : Holds(p, class, h)
    BY <1>2 DEF Owned
  <2>2. CASE p = from
    BY <2>1, <2>2
  <2>3. CASE p # from
    BY <1>1, <2>1, <2>3
  <2> QED BY <2>2, <2>3
<1>3. ASSUME NEW h \in NativeHandles, NEW p \in PlatformObjects, Holds(p, class, h)'
      PROVE  native[h] = kind
  <2>1. CASE p = o
    BY <1>3, <2>1 DEF Owned
  <2>2. CASE p # o
    BY <1>1, <1>3, <2>2 DEF Owned
  <2> QED BY <2>1, <2>2
<1>4. ASSUME NEW h \in NativeHandles, NEW p \in PlatformObjects, NEW q \in PlatformObjects,
             Holds(p, class, h)', Holds(q, class, h)'
      PROVE  p = q
  <2>1. p # from /\ q # from
    BY <1>4
  <2>2. CASE p = o /\ q # o
    <3>1. Holds(from, class, h) /\ Holds(q, class, h)
      BY <1>1, <1>4, <2>1, <2>2
    <3> QED BY <2>1, <3>1 DEF Owned
  <2>3. CASE p # o /\ q = o
    <3>1. Holds(from, class, h) /\ Holds(p, class, h)
      BY <1>1, <1>4, <2>1, <2>3
    <3> QED BY <2>1, <3>1 DEF Owned
  <2>4. CASE p # o /\ q # o
    BY <1>1, <1>4, <2>1, <2>4 DEF Owned
  <2> QED BY <2>2, <2>3, <2>4
<1> QED BY <1>2, <1>3, <1>4 DEF Owned

(* An object goes, and what it owned with it.                              *)
LEMMA ReleaseKeepsOwned ==
  ASSUME NEW class, NEW kind, kind # "free", Owned(class, kind),
         NEW o \in PlatformObjects, object[o].class = class,
         object'[o].class # class,
         \A p \in PlatformObjects : p # o => object'[p] = object[p],
         \A h \in NativeHandles :
           native'[h] = IF Holds(o, class, h) THEN "free" ELSE native[h]
  PROVE  Owned(class, kind)'
<1>1. \A p \in PlatformObjects, h \in NativeHandles :
        Holds(p, class, h)' <=> (p # o /\ Holds(p, class, h))
  BY DEF Holds
<1> QED BY <1>1 DEF Owned

-----------------------------------------------------------------------------
(* The steps.                                                              *)

LEMMA EndKeeps ==
  ASSUME HandleInv, object' = object, native' = native, movedClasses' = movedClasses,
         process' \in {"running", "aborted", "terminated", "undefined"}
  PROVE  HandleInv'
<1>1. PlatformTypeOK'
  BY DEF HandleInv, PlatformTypeOK
<1>2. \A o \in PlatformObjects, h \in NativeHandles :
        /\ Holds(o, "Mutex", h)' <=> Holds(o, "Mutex", h)
        /\ Holds(o, "TLSKey", h)' <=> Holds(o, "TLSKey", h)
  BY DEF Holds
<1> QED BY <1>1, <1>2, OthersKeepOwned DEF HandleInv

LEMMA AcquireKeeps ==
  ASSUME HandleInv, NEW o \in PlatformObjects,
         NEW class \in PlatformClasses, NEW kind,
         <<class, kind>> \in {<<"Mutex", "mutex">>, <<"TLSKey", "key">>},
         AcquireNative(o, class, kind)
  PROVE  HandleInv'
<1>1. CASE ProcessEnds("terminated")
  BY <1>1, EndKeeps DEF ProcessEnds
<1>2. CASE ~ProcessEnds("terminated")
  <2>1. PICK g \in NativeHandles :
          /\ object[o].class = "none" /\ native[g] = "free"
          /\ native' = [native EXCEPT ![g] = kind]
          /\ object' = [object EXCEPT ![o] = Constructed(class, g)]
          /\ process' = process /\ movedClasses' = movedClasses
    BY <1>2 DEF AcquireNative, HoldsA
  <2>2. /\ object \in [PlatformObjects -> [class       : PlatformClasses \cup {"none"},
                                           privateData : NativeHandles \cup {NullHandle},
                                           hasExecuted : BOOLEAN,
                                           hasFunction : BOOLEAN]]
        /\ native \in [NativeHandles -> {"free", "mutex", "key", "thread", "ended"}]
    BY DEF HandleInv, PlatformTypeOK
  <2>3. /\ \A p \in PlatformObjects : p # o => object'[p] = object[p]
        /\ object'[o] = Constructed(class, g)
        /\ \A h \in NativeHandles : h # g => native'[h] = native[h]
        /\ native'[g] = kind
    BY <2>1, <2>2
  <2>4. object'[o].class = class /\ object'[o].privateData = g
    BY <2>3 DEF Constructed
  <2>5. PlatformTypeOK'
    <3>1. Constructed(class, g) \in [class       : PlatformClasses \cup {"none"},
                                     privateData : NativeHandles \cup {NullHandle},
                                     hasExecuted : BOOLEAN,
                                     hasFunction : BOOLEAN]
      BY DEF Constructed
    <3>2. kind \in {"free", "mutex", "key", "thread", "ended"}
      OBVIOUS
    <3> QED BY <2>1, <2>2, <3>1, <3>2 DEF HandleInv, PlatformTypeOK
  <2>6. CASE class = "Mutex" /\ kind = "mutex"
    <3>1. Owned("Mutex", "mutex")'
      BY <2>1, <2>3, <2>4, <2>6, AcquireKeepsOwned DEF HandleInv
    <3>2. \A p \in PlatformObjects, h \in NativeHandles :
            Holds(p, "TLSKey", h)' <=> Holds(p, "TLSKey", h)
      BY <2>1, <2>3, <2>4, <2>6 DEF Holds
    <3>3. \A h \in NativeHandles : native'[h] = "key" <=> native[h] = "key"
      BY <2>1, <2>3, <2>6
    <3>4. Owned("TLSKey", "key") => Owned("TLSKey", "key")'
      BY <3>2, <3>3, OthersKeepOwned
    <3> QED BY <2>1, <2>5, <3>1, <3>4 DEF HandleInv
  <2>7. CASE class = "TLSKey" /\ kind = "key"
    <3>1. Owned("TLSKey", "key") => Owned("TLSKey", "key")'
      BY <2>1, <2>3, <2>4, <2>7, AcquireKeepsOwned
    <3>2. \A p \in PlatformObjects, h \in NativeHandles :
            Holds(p, "Mutex", h)' <=> Holds(p, "Mutex", h)
      BY <2>1, <2>3, <2>4, <2>7 DEF Holds
    <3>3. \A h \in NativeHandles : native'[h] = "mutex" <=> native[h] = "mutex"
      BY <2>1, <2>3, <2>7
    <3>4. Owned("Mutex", "mutex")'
      BY <3>2, <3>3, OthersKeepOwned DEF HandleInv
    <3> QED BY <2>1, <2>5, <3>1, <3>4 DEF HandleInv
  <2> QED BY <2>6, <2>7
<1> QED BY <1>1, <1>2

(* A step of a OneShot or a Thread, in place o if anywhere: native threads *)
(* come and go, mutexes and keys do not.                                   *)
LEMMA ThreadsKeep ==
  ASSUME HandleInv, PlatformTypeOK', movedClasses' = movedClasses,
         NEW o \in PlatformObjects,
         object[o].class \notin {"Mutex", "TLSKey"},
         object'[o].class \notin {"Mutex", "TLSKey"},
         \A p \in PlatformObjects : p # o => object'[p] = object[p],
         \A h \in NativeHandles :
           \/ native'[h] = native[h]
           \/ {native[h], native'[h]} \subseteq {"free", "thread", "ended"}
  PROVE  HandleInv'
<1>1. \A p \in PlatformObjects, h \in NativeHandles :
        /\ Holds(p, "Mutex", h)' <=> Holds(p, "Mutex", h)
        /\ Holds(p, "TLSKey", h)' <=> Holds(p, "TLSKey", h)
  BY DEF Holds
<1>2. \A h \in NativeHandles :
        /\ native'[h] = "mutex" <=> native[h] = "mutex"
        /\ native'[h] = "key" <=> native[h] = "key"
  OBVIOUS
<1> QED BY <1>1, <1>2, OthersKeepOwned DEF HandleInv

Object == [class       : PlatformClasses \cup {"none"},
           privateData : NativeHandles \cup {NullHandle},
           hasExecuted : BOOLEAN,
           hasFunction : BOOLEAN]

Kinds == {"free", "mutex", "key", "thread", "ended"}

LEMMA PlatformTypes ==
  PlatformTypeOK <=>
    /\ object \in [PlatformObjects -> Object]
    /\ native \in [NativeHandles -> Kinds]
    /\ process \in {"running", "aborted", "terminated", "undefined"}
    /\ movedClasses \subseteq PlatformClasses
BY DEF PlatformTypeOK, Object, Kinds

LEMMA ConstructedType ==
  ASSUME NEW class \in PlatformClasses \cup {"none"}, NEW h \in NativeHandles \cup {NullHandle}
  PROVE  Constructed(class, h) \in Object /\ Constructed(class, h).class = class
BY DEF Constructed, Object

(* Construction of a Thread or a OneShot.                                  *)
LEMMA NewKeeps ==
  ASSUME HandleInv, NEW o \in PlatformObjects, NewThread(o) \/ NewOneShot(o)
  PROVE  HandleInv'
<1>1. PICK class \in {"Thread", "OneShot"} :
        /\ object[o].class = "none"
        /\ object' = [object EXCEPT ![o] = Constructed(class, NullHandle)]
        /\ native' = native /\ process' = process /\ movedClasses' = movedClasses
  BY DEF NewThread, NewOneShot, HoldsA
<1>2. class \in PlatformClasses
  BY DEF PlatformClasses
<1>3. /\ Constructed(class, NullHandle) \in Object
      /\ Constructed(class, NullHandle).class = class
  BY <1>2, ConstructedType
<1>4. object \in [PlatformObjects -> Object] /\ PlatformTypeOK
  BY PlatformTypes DEF HandleInv
<1>5. object' \in [PlatformObjects -> Object]
  BY <1>1, <1>3, <1>4
<1>6. PlatformTypeOK'
  BY <1>1, <1>4, <1>5, PlatformTypes DEF PlatformTypeOK, Object
<1>7. /\ object'[o].class = class
      /\ \A p \in PlatformObjects : p # o => object'[p] = object[p]
  BY <1>1, <1>3, <1>4
<1> QED BY <1>1, <1>6, <1>7, ThreadsKeep

LEMMA RunOneShotKeeps ==
  ASSUME HandleInv, NEW o \in PlatformObjects, RunOneShot(o)
  PROVE  HandleInv'
<1>1. CASE ProcessEnds("undefined")
  BY <1>1, EndKeeps DEF ProcessEnds
<1>2. CASE ~ProcessEnds("undefined")
  <2>1. /\ object[o].class = "OneShot"
        /\ object' = [object EXCEPT ![o].hasExecuted = TRUE]
        /\ native' = native /\ process' = process /\ movedClasses' = movedClasses
    BY <1>2 DEF RunOneShot, HoldsA
  <2>2. object \in [PlatformObjects -> Object] /\ PlatformTypeOK
    BY PlatformTypes DEF HandleInv
  <2>3. object' \in [PlatformObjects -> Object]
    BY <2>1, <2>2 DEF Object
  <2>4. PlatformTypeOK'
    BY <2>1, <2>2, <2>3 DEF PlatformTypeOK, Object
  <2>5. /\ object'[o].class = "OneShot"
        /\ \A p \in PlatformObjects : p # o => object'[p] = object[p]
    BY <2>1, <2>2 DEF Object
  <2> QED BY <2>1, <2>4, <2>5, ThreadsKeep
<1> QED BY <1>1, <1>2

(* RunThread says where a native thread comes from.                        *)
LEMMA RunThreadIs ==
  ASSUME PlatformTypeOK, NEW o \in PlatformObjects, RunThread(o)
  PROVE  \/ \E how \in {"aborted", "undefined"} : ProcessEnds(how)
         \/ /\ object[o].class = "Thread" /\ ~object[o].hasExecuted
            /\ process' = process /\ movedClasses' = movedClasses
            /\ PlatformTypeOK'
            /\ object'[o].class = "Thread" /\ object'[o].hasExecuted
            /\ \A p \in PlatformObjects : p # o => object'[p] = object[p]
            /\ \/ native' = native
               \/ \E h \in NativeHandles :
                    /\ native[h] = "free"
                    /\ native' = [native EXCEPT ![h] = "thread"]
                    /\ object'[o].privateData = h
<1>1. object \in [PlatformObjects -> Object] /\ native \in [NativeHandles -> Kinds]
  BY PlatformTypes
<1>2. CASE \E how \in {"aborted", "undefined"} : ProcessEnds(how)
  BY <1>2
<1>3. CASE ~\E how \in {"aborted", "undefined"} : ProcessEnds(how)
  <2>1. /\ object[o].class = "Thread" /\ ~object[o].hasExecuted
        /\ process' = process /\ movedClasses' = movedClasses
    BY <1>3 DEF RunThread, HoldsA
  <2>2. CASE /\ object' = [object EXCEPT ![o].hasExecuted = TRUE]
             /\ native' = native
    <3>1. object' \in [PlatformObjects -> Object]
      BY <1>1, <2>2 DEF Object
    <3>2. /\ object'[o].class = "Thread" /\ object'[o].hasExecuted
          /\ \A p \in PlatformObjects : p # o => object'[p] = object[p]
      BY <1>1, <2>1, <2>2 DEF Object
    <3> QED BY <2>1, <2>2, <3>1, <3>2 DEF PlatformTypeOK, Object
  <2>3. CASE \E h \in NativeHandles :
               /\ native[h] = "free"
               /\ native' = [native EXCEPT ![h] = "thread"]
               /\ object' = [object EXCEPT ![o].hasExecuted = TRUE, ![o].privateData = h]
    <3>1. PICK h \in NativeHandles :
               /\ native[h] = "free"
               /\ native' = [native EXCEPT ![h] = "thread"]
               /\ object' = [object EXCEPT ![o].hasExecuted = TRUE, ![o].privateData = h]
      BY <2>3
    <3>2. object' \in [PlatformObjects -> Object]
      BY <1>1, <3>1 DEF Object
    <3>3. /\ object'[o].class = "Thread" /\ object'[o].hasExecuted
          /\ object'[o].privateData = h
          /\ \A p \in PlatformObjects : p # o => object'[p] = object[p]
      BY <1>1, <2>1, <3>1 DEF Object
    <3>4. native' \in [NativeHandles -> Kinds]
      BY <1>1, <3>1 DEF Kinds
    <3> QED BY <2>1, <3>1, <3>2, <3>3, <3>4 DEF PlatformTypeOK, Object, Kinds
  <2> QED BY <1>3, <2>1, <2>2, <2>3 DEF RunThread
<1> QED BY <1>2, <1>3

LEMMA RunThreadKeeps ==
  ASSUME HandleInv, NEW o \in PlatformObjects, RunThread(o)
  PROVE  HandleInv'
<1>1. PlatformTypeOK
  BY DEF HandleInv
<1>2. CASE \E how \in {"aborted", "undefined"} : ProcessEnds(how)
  BY <1>2, EndKeeps DEF ProcessEnds
<1>3. CASE ~\E how \in {"aborted", "undefined"} : ProcessEnds(how)
  <2>1. /\ object[o].class = "Thread" /\ object'[o].class = "Thread"
        /\ movedClasses' = movedClasses /\ PlatformTypeOK'
        /\ \A p \in PlatformObjects : p # o => object'[p] = object[p]
    BY <1>1, <1>3, RunThreadIs
  <2>2. \A h \in NativeHandles :
          \/ native'[h] = native[h]
          \/ {native[h], native'[h]} \subseteq {"free", "thread", "ended"}
    <3>1. native \in [NativeHandles -> Kinds]
      BY <1>1, PlatformTypes
    <3>2. \/ native' = native
          \/ \E h \in NativeHandles :
               native[h] = "free" /\ native' = [native EXCEPT ![h] = "thread"]
      BY <1>1, <1>3, RunThreadIs
    <3> QED BY <3>1, <3>2
  <2> QED BY <2>1, <2>2, ThreadsKeep
<1> QED BY <1>2, <1>3

(* A native thread ends, or is joined.                                     *)
LEMMA NativeThreadKeeps ==
  ASSUME HandleInv, object' = object, process' = process, movedClasses' = movedClasses,
         NEW h \in NativeHandles, NEW kind \in {"free", "ended"},
         native[h] \in {"thread", "ended"}, native' = [native EXCEPT ![h] = kind]
  PROVE  HandleInv'
<1>1. native \in [NativeHandles -> Kinds] /\ PlatformTypeOK
  BY PlatformTypes DEF HandleInv
<1>2. native' \in [NativeHandles -> Kinds]
  BY <1>1 DEF Kinds
<1>3. PlatformTypeOK'
  BY <1>1, <1>2 DEF PlatformTypeOK, Kinds
<1>4. \A g \in NativeHandles :
        /\ native'[g] = "mutex" <=> native[g] = "mutex"
        /\ native'[g] = "key" <=> native[g] = "key"
  BY <1>1
<1>5. \A o \in PlatformObjects, g \in NativeHandles :
        /\ Holds(o, "Mutex", g)' <=> Holds(o, "Mutex", g)
        /\ Holds(o, "TLSKey", g)' <=> Holds(o, "TLSKey", g)
  BY DEF Holds
<1> QED BY <1>3, <1>4, <1>5, OthersKeepOwned DEF HandleInv

LEMMA JoinThreadKeeps ==
  ASSUME HandleInv, NEW o \in PlatformObjects, JoinThread(o)
  PROVE  HandleInv'
<1>1. CASE \E how \in {"aborted", "undefined"} : ProcessEnds(how)
  BY <1>1, EndKeeps DEF ProcessEnds
<1>2. CASE ~\E how \in {"aborted", "undefined"} : ProcessEnds(how)
  <2>1. PICK h \in NativeHandles :
          /\ native[h] = "ended" /\ native' = [native EXCEPT ![h] = "free"]
          /\ object' = object /\ process' = process /\ movedClasses' = movedClasses
    BY <1>2 DEF JoinThread
  <2> QED BY <2>1, NativeThreadKeeps
<1> QED BY <1>1, <1>2

(* A move: only that of a key leaves two that hold the same.               *)
LEMMA MoveIs ==
  ASSUME PlatformTypeOK, NEW o \in PlatformObjects, NEW from \in PlatformObjects,
         o # from, object[from].class # "none", MoveState(o, from)
  PROVE  /\ PlatformTypeOK'
         /\ native' = native /\ process' = process
         /\ movedClasses' = movedClasses \cup {object[from].class}
         /\ \A p \in PlatformObjects \ {o, from} : object'[p] = object[p]
         /\ object'[o].class = object[from].class
         /\ object'[o].privateData = object[from].privateData
         /\ object'[from].class = object[from].class
         /\ object[from].class # "TLSKey" => object'[from].privateData = NullHandle
<1>1. object \in [PlatformObjects -> Object] /\ object[o] \in Object /\ object[from] \in Object
  BY PlatformTypes
<1>2. /\ object' = [object EXCEPT ![o]    = MovedInto(object[o], object[from]),
                                  ![from] = MovedFrom(object[from])]
      /\ movedClasses' = movedClasses \cup {object[from].class}
      /\ native' = native /\ process' = process
  BY DEF MoveState
<1>3. /\ MovedInto(object[o], object[from]) \in Object
      /\ MovedInto(object[o], object[from]).class = object[from].class
      /\ MovedInto(object[o], object[from]).privateData = object[from].privateData
  BY <1>1 DEF MovedInto, Object
<1>4. /\ MovedFrom(object[from]) \in Object
      /\ MovedFrom(object[from]).class = object[from].class
      /\ object[from].class # "TLSKey" => MovedFrom(object[from]).privateData = NullHandle
  BY <1>1 DEF MovedFrom, Object
<1>5. /\ object'[o] = MovedInto(object[o], object[from])
      /\ object'[from] = MovedFrom(object[from])
      /\ \A p \in PlatformObjects \ {o, from} : object'[p] = object[p]
      /\ object' \in [PlatformObjects -> Object]
  BY <1>1, <1>2, <1>3, <1>4
<1>6. object[from].class \in PlatformClasses
  BY <1>1 DEF Object
<1>7. PlatformTypeOK'
  BY <1>2, <1>5, <1>6 DEF PlatformTypeOK, Object
<1> QED BY <1>2, <1>3, <1>4, <1>5, <1>7

LEMMA MoveKeeps ==
  ASSUME HandleInv, NEW o \in PlatformObjects, NEW from \in PlatformObjects,
         o # from, object[from].class # "none", MoveState(o, from),
         \/ object[o].class = "none"
         \/ object[o].class = object[from].class /\ ~Occupied(o)
  PROVE  HandleInv'
<1>1. /\ PlatformTypeOK' /\ native' = native
      /\ movedClasses' = movedClasses \cup {object[from].class}
      /\ \A p \in PlatformObjects \ {o, from} : object'[p] = object[p]
      /\ object'[o].class = object[from].class
      /\ object'[o].privateData = object[from].privateData
      /\ object'[from].class = object[from].class
      /\ object[from].class # "TLSKey" => object'[from].privateData = NullHandle
  BY MoveIs DEF HandleInv
<1>2. Owned("Mutex", "mutex")'
  <2>1. CASE object[from].class = "Mutex"
    <3>1. \A h \in NativeHandles : ~Holds(o, "Mutex", h)
      BY <2>1, NullIsNoHandle DEF Occupied, Holds
    <3>2. \A h \in NativeHandles :
            /\ Holds(o, "Mutex", h)' <=> Holds(from, "Mutex", h)
            /\ ~Holds(from, "Mutex", h)'
      BY <1>1, <2>1, NullIsNoHandle DEF Holds
    <3> QED BY <1>1, <3>1, <3>2, MoveKeepsOwned DEF HandleInv
  <2>2. CASE object[from].class # "Mutex"
    <3>1. \A p \in PlatformObjects, h \in NativeHandles :
            Holds(p, "Mutex", h)' <=> Holds(p, "Mutex", h)
      <4>1. ASSUME NEW p \in PlatformObjects, NEW h \in NativeHandles
            PROVE  Holds(p, "Mutex", h)' <=> Holds(p, "Mutex", h)
        <5>1. CASE p \in {o, from}
          BY <1>1, <2>2, <5>1 DEF Holds
        <5>2. CASE p \notin {o, from}
          BY <1>1, <5>2 DEF Holds
        <5> QED BY <5>1, <5>2
      <4> QED BY <4>1
    <3> QED BY <1>1, <3>1, OthersKeepOwned DEF HandleInv
  <2> QED BY <2>1, <2>2
<1>3. ASSUME "TLSKey" \notin movedClasses' PROVE Owned("TLSKey", "key")'
  <2>1. object[from].class # "TLSKey" /\ "TLSKey" \notin movedClasses
    BY <1>1, <1>3
  <2>2. \A p \in PlatformObjects, h \in NativeHandles :
          Holds(p, "TLSKey", h)' <=> Holds(p, "TLSKey", h)
    <3>1. ASSUME NEW p \in PlatformObjects, NEW h \in NativeHandles
          PROVE  Holds(p, "TLSKey", h)' <=> Holds(p, "TLSKey", h)
      <4>1. CASE p \in {o, from}
        BY <1>1, <2>1, <4>1 DEF Holds
      <4>2. CASE p \notin {o, from}
        BY <1>1, <4>2 DEF Holds
      <4> QED BY <4>1, <4>2
    <3> QED BY <3>1
  <2> QED BY <1>1, <2>1, <2>2, OthersKeepOwned DEF HandleInv
<1> QED BY <1>1, <1>2, <1>3 DEF HandleInv

(* Where a move can be, and what it does if it ends the process.           *)
LEMMA MovesKeep ==
  ASSUME HandleInv, NEW o \in PlatformObjects, NEW from \in PlatformObjects,
         MoveConstruct(o, from) \/ MoveAssign(o, from)
  PROVE  HandleInv'
<1>1. CASE ProcessEnds("aborted")
  BY <1>1, EndKeeps DEF ProcessEnds
<1>2. CASE ~ProcessEnds("aborted")
  <2>1. /\ o # from /\ object[from].class # "none" /\ MoveState(o, from)
        /\ \/ object[o].class = "none"
           \/ object[o].class = object[from].class /\ ~Occupied(o)
    BY <1>2 DEF MoveConstruct, MoveAssign, HoldsA
  <2> QED BY <2>1, MoveKeeps
<1> QED BY <1>1, <1>2

(* ~Mutex releases what its object owns, and ~PlatformTLSKey a key.        *)
LEMMA DestroyIs ==
  ASSUME PlatformTypeOK, NEW o \in PlatformObjects, DestroyObject(o)
  PROVE  \/ ProcessEnds("aborted")
         \/ /\ native' = Released(o) /\ process' = process /\ movedClasses' = movedClasses
            /\ object[o].class # "none"
            /\ object[o].class = "Mutex" => object[o].privateData \in NativeHandles
            /\ object'[o] = EmptyPlace /\ EmptyPlace.class = "none"
            /\ \A p \in PlatformObjects : p # o => object'[p] = object[p]
            /\ PlatformTypeOK'
<1>1. CASE ProcessEnds("aborted")
  BY <1>1
<1>2. CASE ~ProcessEnds("aborted")
  <2>1. /\ native' = Released(o) /\ process' = process /\ movedClasses' = movedClasses
        /\ object[o].class # "none"
        /\ object[o].class = "Mutex" => object[o].privateData # NullHandle
        /\ object' = [object EXCEPT ![o] = EmptyPlace]
    BY <1>2 DEF DestroyObject
  <2>2. object \in [PlatformObjects -> Object] /\ native \in [NativeHandles -> Kinds]
    BY PlatformTypes
  <2>3. EmptyPlace \in Object /\ EmptyPlace.class = "none"
    BY ConstructedType DEF EmptyPlace
  <2>4. /\ object'[o] = EmptyPlace
        /\ \A p \in PlatformObjects : p # o => object'[p] = object[p]
        /\ object' \in [PlatformObjects -> Object]
    BY <2>1, <2>2, <2>3
  <2>5. object[o].privateData \in NativeHandles \cup {NullHandle}
    BY ObjectTypes
  <2>6. native' \in [NativeHandles -> Kinds]
    BY <2>1, <2>2 DEF Released, Kinds
  <2>7. PlatformTypeOK'
    BY <2>1, <2>4, <2>6 DEF PlatformTypeOK, Object, Kinds
  <2> QED BY <2>1, <2>3, <2>4, <2>5, <2>7
<1> QED BY <1>1, <1>2

LEMMA DestroyKeeps ==
  ASSUME HandleInv, NEW o \in PlatformObjects, DestroyObject(o)
  PROVE  HandleInv'
<1>1. PlatformTypeOK
  BY DEF HandleInv
<1>2. CASE ProcessEnds("aborted")
  BY <1>2, EndKeeps DEF ProcessEnds
<1>3. CASE ~ProcessEnds("aborted")
  <2>1. /\ native' = Released(o) /\ movedClasses' = movedClasses
        /\ object[o].class = "Mutex" => object[o].privateData \in NativeHandles
        /\ object'[o].class = "none"
        /\ \A p \in PlatformObjects : p # o => object'[p] = object[p]
        /\ PlatformTypeOK'
    BY <1>1, <1>3, DestroyIs
  <2>2. native \in [NativeHandles -> Kinds]
    BY <1>1, PlatformTypes
  <2>3. \A class \in {"Mutex", "TLSKey"} : object[o].class # class =>
          \A p \in PlatformObjects, h \in NativeHandles : Holds(p, class, h)' <=> Holds(p, class, h)
    BY <2>1 DEF Holds
  <2>4. CASE object[o].class = "Mutex"
    <3>1. \A h \in NativeHandles :
            native'[h] = IF Holds(o, "Mutex", h) THEN "free" ELSE native[h]
      BY <2>1, <2>2, <2>4 DEF Released, Holds
    <3>2. Owned("Mutex", "mutex")'
      BY <2>1, <2>4, <3>1, ReleaseKeepsOwned DEF HandleInv
    <3>3. \A h \in NativeHandles : native'[h] = "key" <=> native[h] = "key"
      BY <3>1 DEF HandleInv, Owned
    <3>4. Owned("TLSKey", "key") => Owned("TLSKey", "key")'
      BY <2>3, <2>4, <3>3, OthersKeepOwned
    <3> QED BY <2>1, <3>2, <3>4 DEF HandleInv
  <2>5. CASE object[o].class = "TLSKey"
    <3>1. \A h \in NativeHandles :
            native'[h] = IF Holds(o, "TLSKey", h) /\ native[h] = "key" THEN "free" ELSE native[h]
      BY <2>1, <2>2, <2>5 DEF Released, Holds
    <3>2. Owned("TLSKey", "key") => Owned("TLSKey", "key")'
      <4>1. ASSUME Owned("TLSKey", "key") PROVE Owned("TLSKey", "key")'
        <5>1. \A h \in NativeHandles : Holds(o, "TLSKey", h) => native[h] = "key"
          BY <4>1 DEF Owned
        <5> QED BY <2>1, <2>5, <3>1, <4>1, <5>1, ReleaseKeepsOwned
      <4> QED BY <4>1
    <3>3. \A h \in NativeHandles : native'[h] = "mutex" <=> native[h] = "mutex"
      BY <3>1
    <3>4. Owned("Mutex", "mutex")'
      BY <2>3, <2>5, <3>3, OthersKeepOwned DEF HandleInv
    <3> QED BY <2>1, <3>2, <3>4 DEF HandleInv
  <2>6. CASE object[o].class \notin {"Mutex", "TLSKey"}
    <3>1. native' = native
      BY <2>1, <2>6 DEF Released
    <3> QED BY <2>1, <2>6, <3>1, ThreadsKeep
  <2> QED BY <2>4, <2>5, <2>6
<1> QED BY <1>2, <1>3

LEMMA HandleInvNext ==
  ASSUME HandleInv, PlatformNext
  PROVE  HandleInv'
<1>1. ASSUME NEW o \in PlatformObjects, NewMutex(o) PROVE HandleInv'
  BY <1>1, AcquireKeeps DEF NewMutex, PlatformClasses
<1>2. ASSUME NEW o \in PlatformObjects, NewTLSKey(o) PROVE HandleInv'
  BY <1>2, AcquireKeeps DEF NewTLSKey, PlatformClasses
<1>3. ASSUME NEW o \in PlatformObjects, NewThread(o) \/ NewOneShot(o) PROVE HandleInv'
  BY <1>3, NewKeeps
<1>4. ASSUME NEW o \in PlatformObjects, UseMutex(o) PROVE HandleInv'
  BY <1>4, EndKeeps DEF UseMutex, ProcessEnds
<1>5. ASSUME NEW h \in NativeHandles, ThreadEnds(h) PROVE HandleInv'
  BY <1>5, NativeThreadKeeps DEF ThreadEnds
<1> QED BY <1>1, <1>2, <1>3, <1>4, <1>5, RunOneShotKeeps, RunThreadKeeps, JoinThreadKeeps,
           DestroyKeeps, MovesKeep DEF PlatformNext

(* In every program made of these four classes, a native mutex has exactly *)
(* one owner and a Mutex never points to one that was destroyed; keys are  *)
(* the same as long as no TLSKey was moved (platform.h, platform.cpp).     *)
THEOREM HandlesOwnedOnceAlways == PlatformSpec => []HandlesOwnedOnce
<1>1. HandleInv /\ [PlatformNext]_platformVars => HandleInv'
  <2>1. HandleInv /\ UNCHANGED platformVars => HandleInv'
    BY EndKeeps DEF platformVars, HandleInv, PlatformTypeOK
  <2> QED BY <2>1, HandleInvNext
<1>2. HandleInv => HandlesOwnedOnce
  BY Counted DEF HandleInv, HandlesOwnedOnce
<1> QED BY <1>1, <1>2, HandleInvInit, PTL DEF PlatformSpec
=============================================================================
