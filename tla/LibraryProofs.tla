----------------------------- MODULE LibraryProofs -----------------------------
(***************************************************************************)
(* Proofs about the small parts of the library: what is rooted for the     *)
(* collector, destructing lists, the decoding of UTF-8, encoded strings,   *)
(* values, and the local handles of scopes, which implement what           *)
(* HandleStack promises.  Each part has theorems of its own, for any       *)
(* values of its constants.                                                *)
(***************************************************************************)
EXTENDS IsolateRooters, DestructList, EncodedStrings, Values, LocalHandles, FiniteSetTheorems,
        FunctionTheorems, WellFoundedInduction, TLAPS

(* IsolateRooters: for any isolates, runtimes and data.                    *)

Tracer(g) == [runtime |-> g.runtime, data |-> g.data]

DataTellsApart == \A g, h \in registrations : g.data = h.data => g = h
PairTellsApart ==
  \A g, h \in registrations : g.isolate = h.isolate /\ g.runtime = h.runtime => g = h
TracedAsRegistered == tracers = {Tracer(g) : g \in registrations}
BothAlive ==
  \A g \in registrations : g.isolate \in liveIsolates /\ g.runtime \in liveRuntimes

(* Dispose of an isolate whose flag is not set has nothing to remove.      *)
FlagCovers == \A g \in registrations : g.isolate \in registeredForGC

(* Who is inside an isolate, or was when it made what is still there, is   *)
(* registered.                                                             *)
PairsRegistered ==
  \A p \in inside \cup handles :
    \E g \in registrations : g.isolate = p.isolate /\ g.runtime = p.runtime

(* The inductive invariant: the vector, SpiderMonkey's table and the data  *)
(* that is allocated are three views of one set, of things that are alive; *)
(* and whatever must be found there is.                                    *)
RootInv ==
  /\ RootTypeOK
  /\ DataOwned
  /\ DataTellsApart
  /\ PairTellsApart
  /\ TracedAsRegistered
  /\ BothAlive
  /\ FlagCovers
  /\ PairsRegistered

-----------------------------------------------------------------------------
(* RootInv is stronger than what IsolateRooters states. *)
LEMMA RootInvSuffices == RootInv => RegistryAgrees
<1> SUFFICES ASSUME RootInv PROVE TracersUsable /\ RootedOnce /\ ObjectsTraced
  BY DEF RootInv, RegistryAgrees
<1>1. TracersUsable
  <2> SUFFICES ASSUME NEW tr \in tracers
               PROVE /\ tr.data \in tracerData
                     /\ \E g \in registrations :
                          /\ g.data = tr.data /\ g.runtime = tr.runtime
                          /\ g.isolate \in liveIsolates /\ g.runtime \in liveRuntimes
                          /\ \A h \in registrations : h.data = tr.data => h = g
    BY DEF TracersUsable
  <2>1. PICK g \in registrations : tr = Tracer(g)
    BY DEF RootInv, TracedAsRegistered
  <2>2. tr.data = g.data /\ tr.runtime = g.runtime
    BY <2>1 DEF Tracer
  <2> QED BY <2>2 DEF RootInv, DataOwned, BothAlive, DataTellsApart
<1>2. RootedOnce
  BY DEF RootInv, RootedOnce, PairTellsApart, TracedAsRegistered, Tracer
<1>3. ObjectsTraced
  <2> SUFFICES ASSUME NEW h \in handles PROVE \E tr \in tracers : Traces(tr, h)
    BY DEF ObjectsTraced
  <2>1. PICK g \in registrations : g.isolate = h.isolate /\ g.runtime = h.runtime
    BY DEF RootInv, PairsRegistered
  <2>2. Tracer(g) \in tracers /\ Tracer(g).runtime = h.runtime /\ Tracer(g).data = g.data
    BY <2>1 DEF RootInv, TracedAsRegistered, Tracer
  <2> QED BY <2>1, <2>2 DEF Traces
<1> QED BY <1>1, <1>2, <1>3

(* It holds of an empty registry. *)
LEMMA RootInvInit == RootInit => RootInv
BY DEF RootInit, RootInv, RootTypeOK, DataOwned, DataTellsApart, PairTellsApart,
       TracedAsRegistered, BothAlive, FlagCovers, PairsRegistered

(* Both ways to remove registrations: what is left is as before, and only  *)
(* what has registrations left must go on living, and keep its flag, and   *)
(* only what has them may be visited or referred to.                       *)
LEMMA DeregisteredKeeps ==
  ASSUME RootInv, NEW gone \in SUBSET registrations, Deregistered(gone),
         liveIsolates' \subseteq liveIsolates, liveRuntimes' \subseteq liveRuntimes,
         registeredForGC' \subseteq registeredForGC,
         inside' \subseteq inside, handles' \subseteq handles,
         \A g \in registrations \ gone :
           g.isolate \in liveIsolates' \cap registeredForGC' /\ g.runtime \in liveRuntimes',
         \A p \in inside' \cup handles', g \in gone :
           ~(g.isolate = p.isolate /\ g.runtime = p.runtime)
  PROVE  RootInv'
<1>1. registrations' = registrations \ gone
  BY DEF Deregistered
<1>2. RootTypeOK'
  BY DEF RootInv, RootTypeOK, Deregistered
<1>3. DataTellsApart' /\ PairTellsApart' /\ BothAlive' /\ FlagCovers'
  BY <1>1 DEF RootInv, DataTellsApart, PairTellsApart, BothAlive, FlagCovers
<1>4. DataOwned'
  <2>1. \A g \in registrations, h \in gone : g.data = h.data => g \in gone
    BY DEF RootInv, DataTellsApart
  <2>2. tracerData' = {g.data : g \in registrations} \ {g.data : g \in gone}
    BY DEF RootInv, DataOwned, Deregistered
  <2> QED BY <1>1, <2>1, <2>2 DEF DataOwned
<1>5. TracedAsRegistered'
  <2>1. \A g \in registrations, h \in gone : Tracer(g) = Tracer(h) => g \in gone
    BY DEF RootInv, DataTellsApart, Tracer
  <2>2. tracers' = {Tracer(g) : g \in registrations} \ {Tracer(g) : g \in gone}
    BY DEF RootInv, TracedAsRegistered, Deregistered, Tracer
  <2> QED BY <1>1, <2>1, <2>2 DEF TracedAsRegistered
<1>6. PairsRegistered'
  BY <1>1 DEF RootInv, PairsRegistered
<1> QED BY <1>2, <1>3, <1>4, <1>5, <1>6 DEF RootInv

(* A registration that is new brings data that is new; otherwise there was *)
(* one.                                                                    *)
LEMMA EnterKeeps ==
  ASSUME RootInv, NEW i \in RootIsolates, NEW r \in RootRuntimes, NEW d \in RootData,
         EnterRooted(i, r, d)
  PROVE  RootInv'
<1> DEFINE new == [isolate |-> i, runtime |-> r, data |-> d]
<1>0. /\ i \in liveIsolates /\ r \in liveRuntimes /\ d \notin tracerData
      /\ AddIsolateRooter(i, r, d)
      /\ registeredForGC' = registeredForGC \cup {i}
      /\ inside' = inside \cup {Pair(i, r)}
      /\ UNCHANGED <<liveIsolates, liveRuntimes, handles>>
      /\ Pair(i, r) \in IsolateRuntime /\ Pair(i, r).isolate = i /\ Pair(i, r).runtime = r
  BY DEF EnterRooted, Pair, IsolateRuntime
<1>1. CASE Same(i, r) # {}
  <2>1. PICK g \in registrations : g.isolate = i /\ g.runtime = r
    BY <1>1 DEF Same
  <2>2. \A h \in Same(i, r) : h = g
    BY <2>1 DEF Same, RootInv, PairTellsApart
  <2>3. g \in Same(i, r)
    BY <2>1 DEF Same
  <2>4. tracerData' = tracerData /\ UNCHANGED <<registrations, tracers>>
    BY <1>0, <1>1 DEF AddIsolateRooter
  <2>5. FlagCovers'
    BY <1>0, <2>4 DEF RootInv, FlagCovers
  <2>6. PairsRegistered'
    BY <1>0, <2>1, <2>4 DEF RootInv, PairsRegistered
  <2>7. RootTypeOK'
    BY <1>0, <2>4 DEF RootInv, RootTypeOK
  <2> QED
    BY <1>0, <2>4, <2>5, <2>6, <2>7
    DEF RootInv, DataOwned, DataTellsApart, PairTellsApart, TracedAsRegistered, BothAlive
<1>2. CASE Same(i, r) = {}
  <2>1. /\ registrations' = registrations \cup {new}
        /\ tracers' = tracers \cup {Tracer(new)}
        /\ tracerData' = tracerData \cup {d}
    BY <1>0, <1>2 DEF AddIsolateRooter, Tracer
  <2>2. \A g \in registrations : g.data # d
    BY <1>0 DEF RootInv, DataOwned
  <2>3. \A g \in registrations : ~(g.isolate = i /\ g.runtime = r)
    BY <1>2 DEF Same
  <2>4. new.isolate = i /\ new.runtime = r /\ new.data = d /\ new \in Registration
    BY DEF Registration
  <2>5. RootTypeOK'
    BY <1>0, <2>1, <2>4 DEF RootInv, RootTypeOK, Tracer
  <2>6. DataOwned' /\ TracedAsRegistered'
    BY <2>1, <2>4 DEF RootInv, DataOwned, TracedAsRegistered
  <2>7. DataTellsApart' /\ PairTellsApart'
    BY <2>1, <2>2, <2>3, <2>4 DEF RootInv, DataTellsApart, PairTellsApart
  <2>8. BothAlive' /\ FlagCovers'
    BY <1>0, <2>1, <2>4 DEF RootInv, BothAlive, FlagCovers
  <2>9. PairsRegistered'
    BY <1>0, <2>1, <2>4 DEF RootInv, PairsRegistered
  <2> QED BY <2>5, <2>6, <2>7, <2>8, <2>9 DEF RootInv
<1> QED BY <1>1, <1>2

(* Every step keeps it. *)
LEMMA RootInvStep == RootInv /\ [RootNext]_rootVars => RootInv'
<1> SUFFICES ASSUME RootInv, [RootNext]_rootVars PROVE RootInv'
  OBVIOUS
<1>1. ASSUME NEW i \in RootIsolates, NewRootIsolate(i) PROVE RootInv'
  BY <1>1 DEF NewRootIsolate, registryVars, RootInv, RootTypeOK, DataOwned, DataTellsApart,
              PairTellsApart, TracedAsRegistered, BothAlive, FlagCovers, PairsRegistered
<1>2. ASSUME NEW r \in RootRuntimes, NewRootRuntime(r) PROVE RootInv'
  BY <1>2 DEF NewRootRuntime, registryVars, RootInv, RootTypeOK, DataOwned, DataTellsApart,
              PairTellsApart, TracedAsRegistered, BothAlive, FlagCovers, PairsRegistered
<1>3. ASSUME NEW i \in RootIsolates, DisposeRooted(i) PROVE RootInv'
  <2> DEFINE gone == {g \in registrations : g.isolate = i}
  <2>1. /\ \A v \in inside : v.isolate # i
        /\ liveIsolates' = liveIsolates \ {i}
        /\ registeredForGC' = registeredForGC \ {i}
        /\ handles' = {h \in handles : h.isolate # i}
        /\ UNCHANGED <<liveRuntimes, inside>>
    BY <1>3 DEF DisposeRooted
  <2>2. Deregistered(gone)
    <3>1. CASE i \in registeredForGC
      BY <1>3, <3>1 DEF DisposeRooted
    <3>2. CASE i \notin registeredForGC
      <4>1. gone = {}
        BY <3>2 DEF RootInv, FlagCovers
      <4> QED BY <1>3, <3>2, <4>1 DEF DisposeRooted, Deregistered, registryVars
    <3> QED BY <3>1, <3>2
  <2>3. \A g \in registrations \ gone :
          g.isolate \in liveIsolates' \cap registeredForGC' /\ g.runtime \in liveRuntimes'
    BY <2>1 DEF RootInv, BothAlive, FlagCovers
  <2>4. \A p \in inside' \cup handles', g \in gone :
          ~(g.isolate = p.isolate /\ g.runtime = p.runtime)
    BY <2>1
  <2>5. /\ gone \in SUBSET registrations
        /\ liveIsolates' \subseteq liveIsolates /\ liveRuntimes' \subseteq liveRuntimes
        /\ registeredForGC' \subseteq registeredForGC
        /\ inside' \subseteq inside /\ handles' \subseteq handles
    BY <2>1
  <2> HIDE DEF gone
  <2> QED BY <2>2, <2>3, <2>4, <2>5, DeregisteredKeeps
<1>4. ASSUME NEW r \in RootRuntimes, RemoveRuntime(r) PROVE RootInv'
  <2> DEFINE gone == {g \in registrations : g.runtime = r}
  <2>1. /\ \A v \in inside : v.runtime # r
        /\ Deregistered(gone)
        /\ liveRuntimes' = liveRuntimes \ {r}
        /\ handles' = {h \in handles : h.runtime # r}
        /\ UNCHANGED <<liveIsolates, registeredForGC, inside>>
    BY <1>4 DEF RemoveRuntime
  <2>2. \A g \in registrations \ gone :
          g.isolate \in liveIsolates' \cap registeredForGC' /\ g.runtime \in liveRuntimes'
    BY <2>1 DEF RootInv, BothAlive, FlagCovers
  <2>3. \A p \in inside' \cup handles', g \in gone :
          ~(g.isolate = p.isolate /\ g.runtime = p.runtime)
    BY <2>1
  <2>4. /\ gone \in SUBSET registrations
        /\ liveIsolates' \subseteq liveIsolates /\ liveRuntimes' \subseteq liveRuntimes
        /\ registeredForGC' \subseteq registeredForGC
        /\ inside' \subseteq inside /\ handles' \subseteq handles
    BY <2>1
  <2> HIDE DEF gone
  <2> QED BY <2>1, <2>2, <2>3, <2>4, DeregisteredKeeps
<1>5. ASSUME NEW i \in RootIsolates, NEW r \in RootRuntimes, NEW d \in RootData,
             EnterRooted(i, r, d)
      PROVE  RootInv'
  BY <1>5, EnterKeeps
<1>6. ASSUME NEW i \in RootIsolates, NEW r \in RootRuntimes,
             ExitRooted(i, r) \/ AddObject(i, r) \/ ReleaseObjects(i, r)
      PROVE  RootInv'
  <2>1. /\ UNCHANGED <<registrations, tracers, tracerData, liveIsolates, liveRuntimes,
                      registeredForGC>>
        /\ inside' \subseteq inside /\ inside' \cup handles' \subseteq inside \cup handles
        /\ handles' \subseteq handles \cup inside
    BY <1>6 DEF ExitRooted, AddObject, ReleaseObjects, registryVars
  <2>2. RootTypeOK'
    BY <2>1 DEF RootInv, RootTypeOK
  <2>3. PairsRegistered'
    BY <2>1 DEF RootInv, PairsRegistered
  <2> QED
    BY <2>1, <2>2, <2>3 DEF RootInv, DataOwned, DataTellsApart, PairTellsApart,
                            TracedAsRegistered, BothAlive, FlagCovers
<1>7. CASE UNCHANGED rootVars
  BY <1>7 DEF rootVars, RootInv, RootTypeOK, DataOwned, DataTellsApart,
              PairTellsApart, TracedAsRegistered, BothAlive, FlagCovers, PairsRegistered
<1> QED BY <1>1, <1>2, <1>3, <1>4, <1>5, <1>6, <1>7 DEF RootNext

(* However isolates, runtimes and registrations come and go, the registry  *)
(* agrees with SpiderMonkey's table and with what is allocated and alive.  *)
THEOREM RootInvAlways == RootSpec => []RootInv
BY RootInvInit, RootInvStep, PTL DEF RootSpec

(* No collection calls a tracer whose isolate, runtime or data is gone;    *)
(* no TracerData leaks, and none is deleted while it is in use; no isolate *)
(* is registered twice with a runtime; and every object that a handle      *)
(* refers to is traced by its own runtime.                                 *)
THEOREM RegistryAgreesAlways == RootSpec => []RegistryAgrees
BY RootInvAlways, RootInvSuffices, PTL
-----------------------------------------------------------------------------
(* EncodedStrings: who owns the array of a string, for any number of       *)
(* strings and arrays and any texts.  What the arrays hold plays no part.  *)

(* A string as the constructors, or a move from it, leave it. *)
Shaped(s) ==
  \E e \in {"UNKNOWN", "LATIN1", "UTF16"}, b \in Arrays : \E n : s = EncodedIn(e, b, n)

(* The pointers follow the encoding, they lead to what is allocated, no    *)
(* two lead to the same, and nothing is allocated without one.             *)
AllShaped == \A p \in DOMAIN strings : Shaped(strings[p])
LeadSomewhere ==
  \A p \in DOMAIN strings : strings[p].encoding # "UNKNOWN" => ArrayOf(strings[p]) \in DOMAIN cells
NothingLeaks == \A b \in DOMAIN cells : \E p \in DOMAIN strings : ArrayOf(strings[p]) = b
NothingShared ==
  \A p, q \in DOMAIN strings :
    ArrayOf(strings[p]) = ArrayOf(strings[q]) /\ ArrayOf(strings[p]) # NoArray => p = q

StringsInv ==
  /\ DOMAIN cells \subseteq Arrays
  /\ AllShaped
  /\ LeadSomewhere
  /\ NothingLeaks
  /\ NothingShared
-----------------------------------------------------------------------------
(* The pointers of a string with an encoding, and of one without. *)
LEMMA PointersOf ==
  ASSUME NEW e \in {"UNKNOWN", "LATIN1", "UTF16"}, NEW b \in Arrays, NEW n
  PROVE  LET s == EncodedIn(e, b, n) IN
         /\ s.encoding = e
         /\ s.asLatin1 = IF e = "LATIN1" THEN b ELSE NoArray
         /\ s.asUtf16 = IF e = "UTF16" THEN b ELSE NoArray
         /\ ArrayOf(s) = IF e = "UNKNOWN" THEN NoArray ELSE b
BY DEF EncodedIn, ArrayOf

(* So both pointers of a string are its array or null, the one of its      *)
(* encoding is not null, and a string without encoding has no array.       *)
LEMMA ShapedPointers ==
  ASSUME NEW s, Shaped(s)
  PROVE  /\ s.encoding \in {"UNKNOWN", "LATIN1", "UTF16"}
         /\ s.encoding = "UNKNOWN" <=> ArrayOf(s) = NoArray
         /\ ArrayOf(s) \in Arrays \cup {NoArray}
         /\ {s.asLatin1, s.asUtf16} \subseteq {ArrayOf(s), NoArray}
         /\ ArrayOf(s) \in {s.asLatin1, s.asUtf16}
         /\ s.asLatin1 # NoArray <=> s.encoding = "LATIN1"
         /\ s.asUtf16 # NoArray <=> s.encoding = "UTF16"
<1>1. PICK e \in {"UNKNOWN", "LATIN1", "UTF16"}, b \in Arrays : \E n : s = EncodedIn(e, b, n)
  BY DEF Shaped
<1>2. PICK n : s = EncodedIn(e, b, n)
  BY <1>1
<1>3. /\ s.encoding = e
      /\ s.asLatin1 = IF e = "LATIN1" THEN b ELSE NoArray
      /\ s.asUtf16 = IF e = "UTF16" THEN b ELSE NoArray
      /\ ArrayOf(s) = IF e = "UNKNOWN" THEN NoArray ELSE b
  BY <1>2, PointersOf
<1> QED BY <1>3, NoArrayIsNull

(* The moved string keeps no array and stays well-formed. *)
LEMMA MovedAwayHasNone ==
  ASSUME NEW s, Shaped(s), s.encoding # "UNKNOWN"
  PROVE  Shaped(MovedAway(s)) /\ ArrayOf(MovedAway(s)) = NoArray
<1>1. PICK e \in {"UNKNOWN", "LATIN1", "UTF16"}, b \in Arrays : \E n : s = EncodedIn(e, b, n)
  BY DEF Shaped
<1>2. PICK n : s = EncodedIn(e, b, n)
  BY <1>1
<1>3. MovedAway(s) = EncodedIn("UNKNOWN", b, n)
  BY <1>2 DEF MovedAway, EncodedIn
<1> QED BY <1>3, PointersOf DEF Shaped

(* The invariant is stronger than what EncodedStrings states. *)
LEMMA StringsInvSuffices == StringsInv => ArraysOwnedOnce
BY ShapedPointers
   DEF StringsInv, AllShaped, LeadSomewhere, NothingLeaks, NothingShared, ArraysOwnedOnce

(* It holds when there is no string. *)
LEMMA StringsInvInit == StringsInit => StringsInv
BY DEF StringsInit, StringsInv, AllShaped, LeadSomewhere, NothingLeaks, NothingShared
-----------------------------------------------------------------------------
(* A new string, whatever it holds, has an array that nobody else has. *)
LEMMA NewStringKeeps ==
  ASSUME StringsInv, NEW p, p \notin DOMAIN strings,
         NEW e \in {"LATIN1", "UTF16"}, NEW contents, NEW n, NewString(p, e, contents, n)
  PROVE  StringsInv'
<1>1. PICK b \in Arrays \ DOMAIN cells :
        /\ strings' = With(strings, p, EncodedIn(e, b, n))
        /\ cells' = With(cells, b, contents)
  BY DEF NewString
<1>2. /\ DOMAIN strings' = DOMAIN strings \cup {p}
      /\ \A q \in DOMAIN strings : strings'[q] = strings[q]
      /\ DOMAIN cells' = DOMAIN cells \cup {b}
  BY <1>1 DEF With
<1>3. /\ Shaped(strings'[p])
      /\ ArrayOf(strings'[p]) = b
  <2>1. strings'[p] = EncodedIn(e, b, n)
    BY <1>1 DEF With
  <2> QED BY <2>1, PointersOf DEF Shaped
<1>4. \A q \in DOMAIN strings : ArrayOf(strings[q]) # b
  BY ShapedPointers, NoArrayIsNull DEF StringsInv, AllShaped, LeadSomewhere
<1>5. (DOMAIN cells \subseteq Arrays)'
  BY <1>2 DEF StringsInv
<1>6. AllShaped'
  BY <1>2, <1>3 DEF StringsInv, AllShaped
<1>7. LeadSomewhere'
  BY <1>2, <1>3 DEF StringsInv, LeadSomewhere
<1>8. NothingLeaks'
  BY <1>2, <1>3 DEF StringsInv, NothingLeaks
<1>9. NothingShared'
  BY <1>2, <1>3, <1>4 DEF StringsInv, NothingShared
<1> QED BY <1>5, <1>6, <1>7, <1>8, <1>9 DEF StringsInv

(* A move takes the array along. *)
LEMMA MoveStringKeeps ==
  ASSUME StringsInv, NEW p, NEW q, MoveString(p, q)
  PROVE  StringsInv'
<1> DEFINE left == [strings EXCEPT ![q] = MovedAway(@)]
<1>1. /\ p \notin DOMAIN strings /\ q \in DOMAIN strings
      /\ strings[q].encoding # "UNKNOWN"
      /\ strings' = With(left, p, strings[q])
      /\ cells' = cells
  BY DEF MoveString
<1>2. /\ DOMAIN strings' = DOMAIN strings \cup {p}
      /\ strings'[p] = strings[q]
      /\ strings'[q] = MovedAway(strings[q])
      /\ \A r \in DOMAIN strings : r # q => strings'[r] = strings[r]
  BY <1>1 DEF With
<1>3. /\ Shaped(strings'[p]) /\ Shaped(strings'[q])
      /\ ArrayOf(strings'[q]) = NoArray
      /\ ArrayOf(strings'[p]) = ArrayOf(strings[q])
      /\ ArrayOf(strings[q]) # NoArray
  BY <1>1, <1>2, MovedAwayHasNone, ShapedPointers DEF StringsInv, AllShaped
<1>4. AllShaped'
  BY <1>2, <1>3 DEF StringsInv, AllShaped
<1>5. LeadSomewhere'
  <2> SUFFICES ASSUME NEW r \in DOMAIN strings', strings'[r].encoding # "UNKNOWN"
               PROVE  ArrayOf(strings'[r]) \in DOMAIN cells
    BY <1>1 DEF LeadSomewhere
  <2>1. r # q
    BY <1>3, ShapedPointers
  <2> QED BY <1>1, <1>2, <2>1 DEF StringsInv, LeadSomewhere
<1>6. NothingLeaks'
  <2> SUFFICES ASSUME NEW b \in DOMAIN cells
               PROVE  \E r \in DOMAIN strings' : ArrayOf(strings'[r]) = b
    BY <1>1 DEF NothingLeaks
  <2>1. PICK r \in DOMAIN strings : ArrayOf(strings[r]) = b
    BY DEF StringsInv, NothingLeaks
  <2>2. CASE r = q
    BY <1>2, <1>3, <2>1, <2>2
  <2>3. CASE r # q
    BY <1>2, <2>1, <2>3
  <2> QED BY <2>2, <2>3
<1>7. NothingShared'
  <2> SUFFICES ASSUME NEW r \in DOMAIN strings', NEW s \in DOMAIN strings',
                      ArrayOf(strings'[r]) = ArrayOf(strings'[s]), ArrayOf(strings'[r]) # NoArray
               PROVE  r = s
    BY DEF NothingShared
  <2> DEFINE before(x) == IF x = p THEN q ELSE x
  <2>1. r # q /\ s # q
    BY <1>3
  <2>2. /\ before(r) \in DOMAIN strings /\ ArrayOf(strings[before(r)]) = ArrayOf(strings'[r])
        /\ before(s) \in DOMAIN strings /\ ArrayOf(strings[before(s)]) = ArrayOf(strings'[s])
    BY <1>1, <1>2, <2>1
  <2>3. before(r) = before(s)
    BY <2>2 DEF StringsInv, NothingShared
  <2> QED BY <2>1, <2>3
<1> QED BY <1>1, <1>4, <1>5, <1>6, <1>7 DEF StringsInv

(* The destructor frees the array of the string and no other. *)
LEMMA DestroyStringKeeps ==
  ASSUME StringsInv, NEW p, DestroyString(p)
  PROVE  StringsInv'
<1>1. /\ p \in DOMAIN strings
      /\ DOMAIN strings' = DOMAIN strings \ {p}
      /\ \A q \in DOMAIN strings' : strings'[q] = strings[q]
      /\ DOMAIN cells' = DOMAIN cells \ {strings[p].asLatin1, strings[p].asUtf16}
  BY DEF DestroyString, Restrict
<1>2. DOMAIN cells' = DOMAIN cells \ {ArrayOf(strings[p])}
  <2>1. /\ {strings[p].asLatin1, strings[p].asUtf16} \subseteq {ArrayOf(strings[p]), NoArray}
        /\ ArrayOf(strings[p]) \in {strings[p].asLatin1, strings[p].asUtf16}
    BY <1>1, ShapedPointers DEF StringsInv, AllShaped
  <2>2. NoArray \notin DOMAIN cells
    BY NoArrayIsNull DEF StringsInv
  <2> QED BY <1>1, <2>1, <2>2
<1>3. (DOMAIN cells \subseteq Arrays)' /\ AllShaped'
  BY <1>1, <1>2 DEF StringsInv, AllShaped
<1>4. LeadSomewhere'
  <2> SUFFICES ASSUME NEW q \in DOMAIN strings', strings'[q].encoding # "UNKNOWN"
               PROVE  ArrayOf(strings'[q]) \in DOMAIN cells'
    BY DEF LeadSomewhere
  <2>1. q \in DOMAIN strings /\ q # p /\ strings'[q] = strings[q]
    BY <1>1
  <2>2. ArrayOf(strings[q]) \in DOMAIN cells
    BY <2>1 DEF StringsInv, LeadSomewhere
  <2>3. ArrayOf(strings[q]) # NoArray
    BY <2>2, NoArrayIsNull DEF StringsInv
  <2>4. ArrayOf(strings[q]) # ArrayOf(strings[p])
    BY <1>1, <2>1, <2>3 DEF StringsInv, NothingShared
  <2> QED BY <1>2, <2>1, <2>2, <2>4
<1>5. NothingLeaks'
  <2> SUFFICES ASSUME NEW b \in DOMAIN cells'
               PROVE  \E q \in DOMAIN strings' : ArrayOf(strings'[q]) = b
    BY DEF NothingLeaks
  <2>1. PICK q \in DOMAIN strings : ArrayOf(strings[q]) = b
    BY <1>2 DEF StringsInv, NothingLeaks
  <2>2. q # p
    BY <1>2, <2>1
  <2> QED BY <1>1, <2>1, <2>2
<1>6. NothingShared'
  BY <1>1 DEF StringsInv, NothingShared
<1> QED BY <1>3, <1>4, <1>5, <1>6 DEF StringsInv
-----------------------------------------------------------------------------
(* Every step keeps the invariant. *)
LEMMA StringsInvStep == StringsInv /\ [StringsNext]_stringVars => StringsInv'
<1> SUFFICES ASSUME StringsInv, [StringsNext]_stringVars PROVE StringsInv'
  OBVIOUS
<1>1. CASE UNCHANGED stringVars
  BY <1>1 DEF stringVars, StringsInv, AllShaped, LeadSomewhere, NothingLeaks, NothingShared
<1>2. ASSUME NEW p \in StringPlaces, NEW bytes \in ByteTexts, FromBytes(p, bytes)
      PROVE  StringsInv'
  <2>1. CASE CanEncodeToLatin1(bytes)
    <3>1. NewString(p, "LATIN1", Latin1Encode(bytes) \o <<0>>, Len(bytes))
      BY <1>2, <2>1 DEF FromBytes
    <3> QED BY <1>2, <3>1, NewStringKeeps DEF FromBytes
  <2>2. CASE ~CanEncodeToLatin1(bytes)
    <3>1. NewString(p, "UTF16", Utf16Encode(bytes) \o <<0>>, Len(bytes))
      BY <1>2, <2>2 DEF FromBytes
    <3> QED BY <1>2, <3>1, NewStringKeeps DEF FromBytes
  <2> QED BY <2>1, <2>2
<1>3. ASSUME NEW p \in StringPlaces, NEW units \in WideTexts, FromUnits(p, units)
      PROVE  StringsInv'
  BY <1>3, NewStringKeeps DEF FromUnits
<1>4. ASSUME NEW p \in StringPlaces, NEW q \in StringPlaces, CopyString(p, q)
      PROVE  StringsInv'
  <2>1. strings[q].encoding \in {"LATIN1", "UTF16"}
    BY <1>4, ShapedPointers DEF CopyString, StringsInv, AllShaped
  <2> QED BY <1>4, <2>1, NewStringKeeps DEF CopyString
<1>5. ASSUME NEW p \in StringPlaces, NEW q \in StringPlaces, MoveString(p, q)
      PROVE  StringsInv'
  BY <1>5, MoveStringKeeps
<1>6. ASSUME NEW p \in StringPlaces, DestroyString(p)
      PROVE  StringsInv'
  BY <1>6, DestroyStringKeeps
<1> QED BY <1>1, <1>2, <1>3, <1>4, <1>5, <1>6 DEF StringsNext

(* StringsInv is an invariant of encoded strings. *)
THEOREM StringsInvAlways == StringsSpec => []StringsInv
<1> QED BY StringsInvInit, StringsInvStep, PTL DEF StringsSpec

(* However strings are made, copied, moved and destroyed, an array belongs *)
(* to exactly one of them: none leaks and none is freed twice.             *)
THEOREM ArraysOwnedOnceAlways == StringsSpec => []ArraysOwnedOnce
<1> QED BY StringsInvAlways, StringsInvSuffices, PTL
-----------------------------------------------------------------------------
(* Encodings: for any text of bytes, one character at a time.  The bytes   *)
(* that begin a well-formed character of each length.                      *)
LEMMA TailOf ==
  ASSUME NEW s \in Seq(Byte), NEW i \in DOMAIN s, NEW n \in 1 .. 3
  PROVE  /\ HasTail(s, i, n) \in BOOLEAN
         /\ HasTail(s, i, n) => /\ s[i + n] \in 128 .. 191 /\ i + n <= Len(s)
                                /\ Six(s, i, n) = s[i + n] - 128
<1>1. SUFFICES ASSUME HasTail(s, i, n)
               PROVE  Six(s, i, n) = s[i + n] - 128
  BY Zenon DEF HasTail
<1>2. PICK c \in 128 .. 191 : c = s[i + n]
  BY <1>1, Zenon DEF HasTail
<1>3. c % 64 = c - 128
  OBVIOUS
<1>4. QED BY <1>2, <1>3, Zenon DEF Six

LEMMA SixOf ==
  ASSUME NEW s \in Seq(Byte), NEW i \in DOMAIN s, NEW n \in 1 .. 3, HasTail(s, i, n)
  PROVE  Six(s, i, n) \in 0 .. 63
<1>1. PICK x \in 128 .. 191 : Six(s, i, n) = x - 128
  BY TailOf, Zenon
<1>2. x - 128 \in 0 .. 63
  OBVIOUS
<1>3. QED BY <1>1, <1>2, Zenon

LEMMA LeadOf ==
  ASSUME NEW s \in Seq(Byte), NEW i \in DOMAIN s
  PROVE  i \in 1 .. Len(s) /\ Len(s) \in Nat /\ s[i] \in 0 .. 255 /\ s[i] \in Nat
<1>1. i \in 1 .. Len(s) /\ Len(s) \in Nat /\ s[i] \in Byte
  OBVIOUS
<1>2. \A c \in 0 .. 255 : c \in Nat
  OBVIOUS
<1>3. QED BY <1>1, <1>2, Zenon DEF Byte

LEMMA LeadsAre ==
  \A c \in Nat :
    /\ c \in Leads[1] <=> c < 128
    /\ c \in Leads[2] <=> 192 <= c /\ c < 224
    /\ c \in Leads[3] <=> 224 <= c /\ c < 240
    /\ c \in Leads[4] <=> 240 <= c /\ c <= 247
BY DEF Leads

(* A scalar value that fits into no fewer bytes than n.                    *)
IsScalar(n, x) == x \in Least[n] .. LastScalar /\ x \notin Surrogates

LEMMA ScalarsAre ==
  \A x \in Int :
    /\ IsScalar(1, x) <=> 0 <= x /\ x <= 1114111 /\ ~ (55296 <= x /\ x <= 57343)
    /\ IsScalar(2, x) <=> 128 <= x /\ x <= 1114111 /\ ~ (55296 <= x /\ x <= 57343)
    /\ IsScalar(3, x) <=> 2048 <= x /\ x <= 1114111 /\ ~ (55296 <= x /\ x <= 57343)
    /\ IsScalar(4, x) <=> 65536 <= x /\ x <= 1114111 /\ ~ (55296 <= x /\ x <= 57343)
<1>1. Least[1] = 0 /\ Least[2] = 128 /\ Least[3] = 2048 /\ Least[4] = 65536
  BY SMT DEF Least
<1>2. LastScalar = 1114111 /\ HighSurrogate = 55296 /\ LowSurrogate + 1023 = 57343
  BY SMT DEF LastScalar, HighSurrogate, LowSurrogate
<1>3. /\ \A n \in 1 .. 4 : Least[n] \in Int
      /\ LastScalar \in Int /\ HighSurrogate \in Int /\ LowSurrogate + 1023 \in Int
  <2>1. \A n \in 1 .. 4 : n = 1 \/ n = 2 \/ n = 3 \/ n = 4
    OBVIOUS
  <2>2. QED BY <1>1, <1>2, <2>1, SMT
<1>4. \A a, b, x \in Int : x \in a .. b <=> a <= x /\ x <= b
  OBVIOUS
<1>5. \A n \in 1 .. 4 : \A x \in Int :
        IsScalar(n, x) <=> /\ Least[n] <= x /\ x <= LastScalar
                           /\ ~ (HighSurrogate <= x /\ x <= LowSurrogate + 1023)
  BY <1>3, <1>4, SMT DEF IsScalar, Surrogates
<1>6. 1 \in 1 .. 4 /\ 2 \in 1 .. 4 /\ 3 \in 1 .. 4 /\ 4 \in 1 .. 4
  OBVIOUS
<1>7. QED BY <1>1, <1>2, <1>5, <1>6, SMT

LEMMA WellFormedIs ==
  ASSUME NEW s, NEW i, NEW n
  PROVE  WellFormed(s, i, n) <=>
           s[i] \in Leads[n] /\ (\A k \in 1 .. n - 1 : HasTail(s, i, k)) /\ IsScalar(n, Scalar(s, i, n))
BY Zenon DEF WellFormed, IsScalar

(* What follows a lead byte, for each length.                              *)
LEMMA Tails ==
  ASSUME NEW s, NEW i
  PROVE  /\ \A k \in 1 .. 1 - 1 : HasTail(s, i, k)
         /\ (\A k \in 1 .. 2 - 1 : HasTail(s, i, k)) <=> HasTail(s, i, 1)
         /\ (\A k \in 1 .. 3 - 1 : HasTail(s, i, k)) <=> HasTail(s, i, 1) /\ HasTail(s, i, 2)
         /\ (\A k \in 1 .. 4 - 1 : HasTail(s, i, k))
              <=> HasTail(s, i, 1) /\ HasTail(s, i, 2) /\ HasTail(s, i, 3)
<1>1. 1 .. 1 - 1 = {} /\ 1 .. 2 - 1 = {1} /\ 1 .. 3 - 1 = {1, 2} /\ 1 .. 4 - 1 = {1, 2, 3}
  OBVIOUS
<1>2. QED BY <1>1, Zenon

(* What is read of a well-formed character of two, three or four bytes.    *)
ReadTwo(c, s, i) == 194 <= c /\ c < 224 /\ HasTail(s, i, 1)

ReadThree(c, d, s, i) ==
  /\ 224 <= c /\ c < 240 /\ HasTail(s, i, 1) /\ HasTail(s, i, 2)
  /\ ~ (c = 224 /\ d < 160) /\ ~ (c = 237 /\ d >= 160)

ReadFour(c, d, s, i) ==
  /\ 240 <= c /\ c <= 244
  /\ HasTail(s, i, 1) /\ HasTail(s, i, 2) /\ HasTail(s, i, 3)
  /\ ~ (c = 240 /\ d < 144) /\ ~ (c = 244 /\ d >= 144)

(* The scalar, of the bits of each byte.                                   *)
BitsOfTwo(c, x)         == 64 * (c - 192) + x
BitsOfThree(c, x, y)    == 4096 * (c - 224) + 64 * x + y
BitsOfFour(c, x, y, z)  == 262144 * (c - 240) + 4096 * x + 64 * y + z

LEMMA ScalarIs ==
  ASSUME NEW s, NEW i
  PROVE  /\ Scalar(s, i, 1) = s[i]
         /\ Scalar(s, i, 2) = BitsOfTwo(s[i], Six(s, i, 1))
         /\ Scalar(s, i, 3) = BitsOfThree(s[i], Six(s, i, 1), Six(s, i, 2))
         /\ Scalar(s, i, 4) = BitsOfFour(s[i], Six(s, i, 1), Six(s, i, 2), Six(s, i, 3))
BY SMT DEF Scalar, BitsOfTwo, BitsOfThree, BitsOfFour

LEMMA OneByte ==
  ASSUME NEW s \in Seq(Byte), NEW i \in DOMAIN s
  PROVE  WellFormed(s, i, 1) <=> s[i] < 128
<1>1. PICK c \in Nat : c = s[i]
  BY LeadOf, Zenon
<1>2. Scalar(s, i, 1) = c
  BY <1>1, ScalarIs, Zenon
<1>3. WellFormed(s, i, 1) <=> s[i] \in Leads[1] /\ IsScalar(1, Scalar(s, i, 1))
  BY WellFormedIs, Tails, Zenon
<1>4. c \in Leads[1] <=> c < 128
  BY LeadsAre
<1>5. c < 128 => IsScalar(1, c)
  BY ScalarsAre, SMT
<1>6. QED BY <1>1, <1>2, <1>3, <1>4, <1>5, Zenon

LEMMA TwoBytes ==
  ASSUME NEW s \in Seq(Byte), NEW i \in DOMAIN s
  PROVE  WellFormed(s, i, 2) <=> ReadTwo(s[i], s, i)
<1>1. PICK c \in Nat : c = s[i]
  BY LeadOf, Zenon
<1>2. Scalar(s, i, 2) = BitsOfTwo(c, Six(s, i, 1))
  BY <1>1, ScalarIs, Zenon
<1>3. WellFormed(s, i, 2) <=> s[i] \in Leads[2] /\ HasTail(s, i, 1) /\ IsScalar(2, Scalar(s, i, 2))
  BY WellFormedIs, Tails, Zenon
<1>4. s[i] \in Leads[2] <=> 192 <= c /\ c < 224
  <2>1. c \in Leads[2] <=> 192 <= c /\ c < 224
    BY LeadsAre
  <2>2. QED BY <1>1, <2>1, Zenon
<1>5. ASSUME HasTail(s, i, 1), 192 <= c, c < 224
      PROVE  IsScalar(2, Scalar(s, i, 2)) <=> 194 <= c
  <2>1. PICK x \in 128 .. 191 : Six(s, i, 1) = x - 128
    <3>1. 1 \in 1 .. 3
      OBVIOUS
    <3>2. QED BY <1>5, <3>1, TailOf, Zenon
  <2>2. IsScalar(2, BitsOfTwo(c, x - 128)) <=> 194 <= c
    <3>1. PICK n \in Int : n = BitsOfTwo(c, x - 128)
      BY SMT DEF BitsOfTwo
    <3>2. 128 <= n /\ n <= 1114111 /\ ~ (55296 <= n /\ n <= 57343) <=> 194 <= c
      BY <1>5, <3>1, SMT DEF BitsOfTwo
    <3>3. IsScalar(2, n) <=> 194 <= c
      BY <3>2, ScalarsAre, SMT
    <3>4. QED BY <3>1, <3>3, Zenon
  <2>3. QED BY <1>2, <2>1, <2>2, Zenon
<1>6. 194 <= c => 192 <= c
  OBVIOUS
<1>7. WellFormed(s, i, 2) <=> ReadTwo(c, s, i)
  BY <1>3, <1>4, <1>5, <1>6, Zenon DEF ReadTwo
<1>8. QED BY <1>1, <1>7, Zenon

LEMMA ThreeBytes ==
  ASSUME NEW s \in Seq(Byte), NEW i \in DOMAIN s
  PROVE  WellFormed(s, i, 3) <=> ReadThree(s[i], s[i + 1], s, i)
<1>1. PICK c \in Nat : c = s[i]
  BY LeadOf, Zenon
<1>2. WellFormed(s, i, 3) <=>
        s[i] \in Leads[3] /\ HasTail(s, i, 1) /\ HasTail(s, i, 2) /\ IsScalar(3, Scalar(s, i, 3))
  BY WellFormedIs, Tails, Zenon
<1>3. s[i] \in Leads[3] <=> 224 <= c /\ c < 240
  <2>1. c \in Leads[3] <=> 224 <= c /\ c < 240
    BY LeadsAre
  <2>2. QED BY <1>1, <2>1, Zenon
<1>4. ASSUME HasTail(s, i, 1), HasTail(s, i, 2), 224 <= c, c < 240
      PROVE  IsScalar(3, Scalar(s, i, 3))
               <=> ~ (c = 224 /\ s[i + 1] < 160) /\ ~ (c = 237 /\ s[i + 1] >= 160)
  <2>1. 1 \in 1 .. 3 /\ 2 \in 1 .. 3
    OBVIOUS
  <2>2. PICK x \in 128 .. 191 : x = s[i + 1] /\ Six(s, i, 1) = x - 128
    BY <1>4, <2>1, TailOf, Zenon
  <2>3. PICK y \in 128 .. 191 : Six(s, i, 2) = y - 128
    BY <1>4, <2>1, TailOf, Zenon
  <2>4. PICK n \in Int : n = BitsOfThree(c, x - 128, y - 128)
    BY SMT DEF BitsOfThree
  <2>5. IsScalar(3, n) <=> ~ (c = 224 /\ x < 160) /\ ~ (c = 237 /\ x >= 160)
    <3>1. 2048 <= n <=> ~ (c = 224 /\ x < 160)
      BY <1>4, <2>4, SMT DEF BitsOfThree
    <3>2. 55296 <= n /\ n <= 57343 <=> c = 237 /\ x >= 160
      BY <1>4, <2>4, SMT DEF BitsOfThree
    <3>3. n <= 1114111
      BY <1>4, <2>4, SMT DEF BitsOfThree
    <3>4. QED BY <3>1, <3>2, <3>3, ScalarsAre, SMT
  <2>6. Scalar(s, i, 3) = n
    BY <1>1, <2>2, <2>3, <2>4, ScalarIs, Zenon
  <2>7. QED BY <2>2, <2>5, <2>6, Zenon
<1>5. WellFormed(s, i, 3) <=> ReadThree(c, s[i + 1], s, i)
  BY <1>2, <1>3, <1>4, Zenon DEF ReadThree
<1>6. QED BY <1>1, <1>5, Zenon

LEMMA FourBytes ==
  ASSUME NEW s \in Seq(Byte), NEW i \in DOMAIN s
  PROVE  WellFormed(s, i, 4) <=> ReadFour(s[i], s[i + 1], s, i)
<1>1. PICK c \in Nat : c = s[i]
  BY LeadOf, Zenon
<1>2. WellFormed(s, i, 4) <=>
        /\ s[i] \in Leads[4] /\ HasTail(s, i, 1) /\ HasTail(s, i, 2) /\ HasTail(s, i, 3)
        /\ IsScalar(4, Scalar(s, i, 4))
  BY WellFormedIs, Tails, Zenon
<1>3. s[i] \in Leads[4] <=> 240 <= c /\ c <= 247
  <2>1. c \in Leads[4] <=> 240 <= c /\ c <= 247
    BY LeadsAre
  <2>2. QED BY <1>1, <2>1, Zenon
<1>4. ASSUME HasTail(s, i, 1), HasTail(s, i, 2), HasTail(s, i, 3), 240 <= c, c <= 247
      PROVE  IsScalar(4, Scalar(s, i, 4))
               <=> c <= 244 /\ ~ (c = 240 /\ s[i + 1] < 144) /\ ~ (c = 244 /\ s[i + 1] >= 144)
  <2>1. 1 \in 1 .. 3 /\ 2 \in 1 .. 3 /\ 3 \in 1 .. 3
    OBVIOUS
  <2>2. PICK x \in 128 .. 191 : x = s[i + 1] /\ Six(s, i, 1) = x - 128
    BY <1>4, <2>1, TailOf, Zenon
  <2>3. PICK y \in 128 .. 191 : Six(s, i, 2) = y - 128
    BY <1>4, <2>1, TailOf, Zenon
  <2>4. PICK z \in 128 .. 191 : Six(s, i, 3) = z - 128
    BY <1>4, <2>1, TailOf, Zenon
  <2>5. PICK n \in Int : n = BitsOfFour(c, x - 128, y - 128, z - 128)
    BY SMT DEF BitsOfFour
  <2>6. IsScalar(4, n) <=> c <= 244 /\ ~ (c = 240 /\ x < 144) /\ ~ (c = 244 /\ x >= 144)
    <3>1. 65536 <= n <=> ~ (c = 240 /\ x < 144)
      BY <1>4, <2>5, SMT DEF BitsOfFour
    <3>2. n <= 1114111 <=> c <= 244 /\ ~ (c = 244 /\ x >= 144)
      BY <1>4, <2>5, SMT DEF BitsOfFour
    <3>3. QED BY <3>1, <3>2, ScalarsAre, SMT
  <2>7. Scalar(s, i, 4) = n
    BY <1>1, <2>2, <2>3, <2>4, <2>5, ScalarIs, ZenonT(30)
  <2>8. QED BY <2>2, <2>6, <2>7, Zenon
<1>5. c <= 244 => c <= 247
  OBVIOUS
<1>6. WellFormed(s, i, 4) <=> ReadFour(c, s[i + 1], s, i)
  BY <1>2, <1>3, <1>4, <1>5, Zenon DEF ReadFour
<1>7. QED BY <1>1, <1>6, Zenon

(* The character at a position is of the one length that is well-formed.   *)
LEMMA CharacterIs ==
  ASSUME NEW s \in Seq(Byte), NEW i \in DOMAIN s
  PROVE  /\ \A n \in 1 .. 4 : WellFormed(s, i, n) =>
              Character(s, i) = [bytes |-> n, units |-> Utf16Of(Scalar(s, i, n))]
         /\ (\A n \in 1 .. 4 : ~ WellFormed(s, i, n)) =>
              Character(s, i) = [bytes |-> 1, units |-> <<Replacement>>]
<1>1. ASSUME NEW n \in 1 .. 4, WellFormed(s, i, n)
      PROVE  Character(s, i) = [bytes |-> n, units |-> Utf16Of(Scalar(s, i, n))]
  <2>1. ASSUME NEW m \in 1 .. 4, WellFormed(s, i, m) PROVE m = n
    <3>1. PICK c \in 0 .. 255 : c = s[i]
      BY LeadOf, Zenon
    <3>2. \A k \in 1 .. 4 : WellFormed(s, i, k) =>
            /\ k = 1 <=> c < 128
            /\ k = 2 <=> 128 <= c /\ c < 224
            /\ k = 3 <=> 224 <= c /\ c < 240
            /\ k = 4 <=> 240 <= c
      <4>1. ASSUME NEW k \in 1 .. 4, WellFormed(s, i, k)
            PROVE  /\ k = 1 => c < 128
                   /\ k = 2 => 128 <= c /\ c < 224
                   /\ k = 3 => 224 <= c /\ c < 240
                   /\ k = 4 => 240 <= c
        BY <3>1, <4>1, OneByte, TwoBytes, ThreeBytes, FourBytes DEF ReadTwo, ReadThree, ReadFour
      <4>2. QED BY <4>1
    <3>3. QED BY <1>1, <2>1, <3>2
  <2>2. (CHOOSE m \in 1 .. 4 : WellFormed(s, i, m)) = n
    BY <1>1, <2>1
  <2>3. QED BY <1>1, <2>2 DEF Character
<1>2. ASSUME \A n \in 1 .. 4 : ~ WellFormed(s, i, n)
      PROVE  Character(s, i) = [bytes |-> 1, units |-> <<Replacement>>]
  BY <1>2 DEF Character
<1>3. QED BY <1>1, <1>2

(* A pair stands for the scalar of its four bytes.                         *)
LEMMA PairOf ==
  ASSUME NEW s \in Seq(Byte), NEW i \in DOMAIN s, WellFormed(s, i, 4)
  PROVE  SurrogatePair(s, i) = Utf16Of(Scalar(s, i, 4))
<1>1. PICK c \in 240 .. 244 : c = s[i]
  <2>1. PICK c \in 0 .. 255 : c = s[i]
    BY LeadOf, Zenon
  <2>2. 240 <= c /\ c <= 244
    BY <2>1, FourBytes, ZenonT(30) DEF ReadFour
  <2>3. c \in 240 .. 244
    BY <2>2
  <2>4. QED BY <2>1, <2>3, Zenon
<1>2. HasTail(s, i, 1) /\ HasTail(s, i, 2) /\ HasTail(s, i, 3)
  BY FourBytes, ZenonT(30) DEF ReadFour
<1>3. PICK a \in 0 .. 63, b \in 0 .. 63, d \in 0 .. 63 :
        a = Six(s, i, 1) /\ b = Six(s, i, 2) /\ d = Six(s, i, 3)
  <2>1. 1 \in 1 .. 3 /\ 2 \in 1 .. 3 /\ 3 \in 1 .. 3
    OBVIOUS
  <2>2. QED BY <1>2, <2>1, SixOf, Zenon
<1>4. PICK h \in 0 .. 4 : h = c - 240
  OBVIOUS
<1>5. c % 16 = h
  BY <1>4
<1>6. PICK x \in Int : x = BitsOfFour(c, a, b, d)
  BY SMT DEF BitsOfFour
<1>7. Scalar(s, i, 4) = x
  BY <1>1, <1>3, <1>6, ScalarIs, Zenon
<1>8. 65536 <= x
  <2>1. IsScalar(4, x)
    BY <1>7, WellFormedIs, Zenon
  <2>2. QED BY <2>1, ScalarsAre, SMT
<1>9. /\ (x - 65536) \div 1024 = 256 * h + 4 * a + (b \div 16) - 64
      /\ (x - 65536) % 1024 = 64 * (b % 16) + d
  <2>1. PICK q \in 0 .. 3, r \in 0 .. 15 : b = 16 * q + r /\ b \div 16 = q /\ b % 16 = r
    <3>1. b \div 16 \in 0 .. 3 /\ b % 16 \in 0 .. 15 /\ b = 16 * (b \div 16) + (b % 16)
      OBVIOUS
    <3>2. QED BY <3>1, SMT
  <2>2. PICK t \in Int, l \in 0 .. 1023 : t = 256 * h + 4 * a + q - 64 /\ l = 64 * r + d
    OBVIOUS
  <2>3. x - 65536 = 1024 * t + l
    BY <1>4, <1>6, <2>1, <2>2, SMT DEF BitsOfFour
  <2>4. (x - 65536) \div 1024 = t /\ (x - 65536) % 1024 = l
    BY <2>3, SMT
  <2>5. QED BY <2>1, <2>2, <2>4, SMT
<1>10. Utf16Of(x) = <<HighSurrogate + ((x - 65536) \div 1024), LowSurrogate + ((x - 65536) % 1024)>>
  BY <1>8, SMT DEF Utf16Of
<1>11. SurrogatePair(s, i) =
         <<HighSurrogate + ((256 * h + 4 * a + (b \div 16)) - 64), LowSurrogate + (64 * (b % 16) + d)>>
  BY <1>1, <1>3, <1>5, Zenon DEF SurrogatePair
<1>12. HighSurrogate + ((256 * h + 4 * a + (b \div 16)) - 64) = HighSurrogate + (256 * h + 4 * a + (b \div 16) - 64)
  BY SMT
<1>13. QED BY <1>7, <1>9, <1>10, <1>11, <1>12, SMT

(* What is in one unit is in its scalar.                                   *)
UnitOfTwo(c, x)      == 64 * (c % 32) + x
UnitOfThree(c, x, y) == 4096 * (c % 16) + 64 * x + y

LEMMA UnitOf ==
  ASSUME NEW s \in Seq(Byte), NEW i \in DOMAIN s, NEW n \in 1 .. 3, WellFormed(s, i, n)
  PROVE  /\ Scalar(s, i, n) \in Int /\ 0 <= Scalar(s, i, n) /\ Scalar(s, i, n) < 65536
         /\ Utf16Of(Scalar(s, i, n)) = <<Scalar(s, i, n)>>
         /\ n = 1 => Scalar(s, i, n) = s[i]
         /\ n = 2 => Scalar(s, i, n) = UnitOfTwo(s[i], Six(s, i, 1))
         /\ n = 3 => Scalar(s, i, n) = UnitOfThree(s[i], Six(s, i, 1), Six(s, i, 2))
<1>1. PICK c \in 0 .. 255 : c = s[i]
  BY LeadOf, Zenon
<1>2. 1 \in 1 .. 3 /\ 2 \in 1 .. 3
  OBVIOUS
<1>3. ASSUME NEW k \in Int, 0 <= k, k < 65536, k = Scalar(s, i, n)
      PROVE  /\ Scalar(s, i, n) \in Int /\ 0 <= Scalar(s, i, n) /\ Scalar(s, i, n) < 65536
             /\ Utf16Of(Scalar(s, i, n)) = <<Scalar(s, i, n)>>
  BY <1>3, SMT DEF Utf16Of
<1>4. CASE n = 1
  <2>1. Scalar(s, i, n) = s[i]
    BY <1>4, ScalarIs, Zenon
  <2>2. QED BY <1>1, <1>3, <1>4, <2>1, SMT
<1>5. CASE n = 2
  <2>1. 194 <= c /\ c < 224 /\ HasTail(s, i, 1)
    BY <1>1, <1>5, TwoBytes, Zenon DEF ReadTwo
  <2>2. PICK x \in 0 .. 63 : x = Six(s, i, 1)
    BY <1>2, <2>1, SixOf, Zenon
  <2>3. c % 32 = c - 192
    BY <2>1, SMT
  <2>4. PICK k \in Int : k = 64 * (c - 192) + x /\ 0 <= k /\ k < 65536
    BY <2>1, SMT
  <2>5. Scalar(s, i, n) = BitsOfTwo(c, x) /\ BitsOfTwo(c, x) = k
    <3>1. BitsOfTwo(c, x) = k
      BY <2>4, SMT DEF BitsOfTwo
    <3>2. QED BY <1>1, <1>5, <2>2, <3>1, ScalarIs, Zenon
  <2>6. Scalar(s, i, n) = k /\ UnitOfTwo(s[i], Six(s, i, 1)) = k
    <3>1. UnitOfTwo(c, x) = k
      BY <2>3, <2>4, SMT DEF UnitOfTwo
    <3>2. QED BY <1>1, <2>2, <2>5, <3>1, Zenon
  <2>7. QED BY <1>3, <1>5, <2>4, <2>6, SMT
<1>6. CASE n = 3
  <2>1. 224 <= c /\ c < 240 /\ HasTail(s, i, 1) /\ HasTail(s, i, 2)
    BY <1>1, <1>6, ThreeBytes, ZenonT(30) DEF ReadThree
  <2>2. PICK x \in 0 .. 63 : x = Six(s, i, 1)
    BY <1>2, <2>1, SixOf, Zenon
  <2>3. PICK y \in 0 .. 63 : y = Six(s, i, 2)
    BY <1>2, <2>1, SixOf, Zenon
  <2>4. c % 16 = c - 224
    BY <2>1, SMT
  <2>5. PICK k \in Int : k = 4096 * (c - 224) + 64 * x + y /\ 0 <= k /\ k < 65536
    BY <2>1, SMT
  <2>6. Scalar(s, i, n) = BitsOfThree(c, x, y) /\ BitsOfThree(c, x, y) = k
    <3>1. BitsOfThree(c, x, y) = k
      BY <2>5, SMT DEF BitsOfThree
    <3>2. QED BY <1>1, <1>6, <2>2, <2>3, <3>1, ScalarIs, Zenon
  <2>7. Scalar(s, i, n) = k /\ UnitOfThree(s[i], Six(s, i, 1), Six(s, i, 2)) = k
    <3>1. UnitOfThree(c, x, y) = k
      BY <2>4, <2>5, SMT DEF UnitOfThree
    <3>2. QED BY <1>1, <2>2, <2>3, <2>6, <3>1, Zenon
  <2>8. QED BY <1>3, <1>6, <2>5, <2>7, SMT
<1>7. QED
  <2>1. n = 1 \/ n = 2 \/ n = 3
    OBVIOUS
  <2>2. QED BY <1>4, <1>5, <1>6, <2>1, SMT

(* The turn of the loop, of what its guards read and what it yields.       *)
TurnOf(c, d, s, i, bad, one, two, three, four) ==
  IF c < 128 THEN one
  ELSE IF c < 194 \/ c > 244 \/ ~HasTail(s, i, 1) THEN bad
  ELSE IF IllFormed(c, d) THEN bad
  ELSE IF c < 224 THEN two
  ELSE IF ~HasTail(s, i, 2) THEN bad
  ELSE IF c < 240 THEN three
  ELSE IF ~HasTail(s, i, 3) THEN bad
  ELSE four

LEMMA TurnsOf ==
  ASSUME NEW c \in Nat, NEW d, NEW s, NEW i, NEW bad, NEW one, NEW two, NEW three, NEW four
  PROVE  /\ c < 128 => TurnOf(c, d, s, i, bad, one, two, three, four) = one
         /\ ReadTwo(c, s, i) => TurnOf(c, d, s, i, bad, one, two, three, four) = two
         /\ ReadThree(c, d, s, i) => TurnOf(c, d, s, i, bad, one, two, three, four) = three
         /\ ReadFour(c, d, s, i) => TurnOf(c, d, s, i, bad, one, two, three, four) = four
         /\ ~ (c < 128) /\ ~ ReadTwo(c, s, i) /\ ~ ReadThree(c, d, s, i) /\ ~ ReadFour(c, d, s, i)
              => TurnOf(c, d, s, i, bad, one, two, three, four) = bad
BY DEF TurnOf, IllFormed, ReadTwo, ReadThree, ReadFour

(* A turn of the loop of EncodeToUTF16 reads what Unicode says is there.   *)
LEMMA TurnIs ==
  ASSUME NEW s \in Seq(Byte), NEW i \in DOMAIN s
  PROVE  Turn(s, i) = Character(s, i)
<1>1. PICK c \in Nat : c = s[i]
  BY LeadOf, Zenon
<1>2. PICK bad, one, two :
        /\ bad = [bytes |-> 1, units |-> <<Replacement>>]
        /\ one = [bytes |-> 1, units |-> <<s[i]>>]
        /\ two = [bytes |-> 2, units |-> <<UnitOfTwo(s[i], Six(s, i, 1))>>]
  BY Zenon
<1>3. PICK unit : unit = UnitOfThree(s[i], Six(s, i, 1), Six(s, i, 2))
  OBVIOUS
<1>4. PICK three, four :
        /\ three = [bytes |-> 3, units |-> <<unit>>]
        /\ four = [bytes |-> 4, units |-> SurrogatePair(s, i)]
  BY Zenon
<1>5. Turn(s, i) = TurnOf(c, s[i + 1], s, i, bad, one, two, three, four)
  <2>1. Turn(s, i) =
          TurnOf(s[i], s[i + 1], s, i, [bytes |-> 1, units |-> <<Replacement>>],
                 [bytes |-> 1, units |-> <<s[i]>>],
                 [bytes |-> 2, units |-> <<UnitOfTwo(s[i], Six(s, i, 1))>>],
                 [bytes |-> 3, units |-> <<UnitOfThree(s[i], Six(s, i, 1), Six(s, i, 2))>>],
                 [bytes |-> 4, units |-> SurrogatePair(s, i)])
    BY Zenon DEF Turn, TurnOf, UnitOfTwo, UnitOfThree
  <2>2. QED BY <1>1, <1>2, <1>3, <1>4, <2>1
<1>6. /\ WellFormed(s, i, 1) => Turn(s, i) = one
      /\ WellFormed(s, i, 2) => Turn(s, i) = two
      /\ WellFormed(s, i, 3) => Turn(s, i) = three
      /\ WellFormed(s, i, 4) => Turn(s, i) = four
      /\ ~ WellFormed(s, i, 1) /\ ~ WellFormed(s, i, 2) /\ ~ WellFormed(s, i, 3)
           /\ ~ WellFormed(s, i, 4) => Turn(s, i) = bad
  <2>1. PICK d, turn : d = s[i + 1] /\ turn = TurnOf(c, d, s, i, bad, one, two, three, four)
    OBVIOUS
  <2>2. /\ c < 128 => turn = one
        /\ ReadTwo(c, s, i) => turn = two
        /\ ReadThree(c, d, s, i) => turn = three
        /\ ReadFour(c, d, s, i) => turn = four
        /\ ~ (c < 128) /\ ~ ReadTwo(c, s, i) /\ ~ ReadThree(c, d, s, i) /\ ~ ReadFour(c, d, s, i)
             => turn = bad
    BY <2>1, TurnsOf
  <2>3. Turn(s, i) = turn
    BY <1>5, <2>1, Zenon
  <2>4. /\ WellFormed(s, i, 1) <=> c < 128
        /\ WellFormed(s, i, 2) <=> ReadTwo(c, s, i)
        /\ WellFormed(s, i, 3) <=> ReadThree(c, d, s, i)
        /\ WellFormed(s, i, 4) <=> ReadFour(c, d, s, i)
    BY <1>1, <2>1, OneByte, TwoBytes, ThreeBytes, FourBytes, Zenon
  <2>5. QED BY <2>2, <2>3, <2>4, Zenon
<1>7. CASE WellFormed(s, i, 1)
  BY <1>2, <1>6, <1>7, UnitOf, CharacterIs, SMT
<1>8. CASE WellFormed(s, i, 2)
  BY <1>2, <1>6, <1>8, UnitOf, CharacterIs, SMT
<1>9. CASE WellFormed(s, i, 3)
  <2>1. Utf16Of(Scalar(s, i, 3)) = <<unit>>
    BY <1>3, <1>9, UnitOf, SMT
  <2>2. QED BY <1>4, <1>6, <1>9, <2>1, CharacterIs, SMT
<1>10. CASE WellFormed(s, i, 4)
  BY <1>4, <1>6, <1>10, PairOf, CharacterIs
<1>11. ASSUME ~ WellFormed(s, i, 1), ~ WellFormed(s, i, 2),
              ~ WellFormed(s, i, 3), ~ WellFormed(s, i, 4)
       PROVE  Turn(s, i) = Character(s, i)
  <2>1. \A n \in 1 .. 4 : ~ WellFormed(s, i, n)
    <3>1. \A n \in 1 .. 4 : n = 1 \/ n = 2 \/ n = 3 \/ n = 4
      OBVIOUS
    <3>2. QED BY <1>11, <3>1
  <2>2. QED BY <1>2, <1>6, <1>11, <2>1, CharacterIs
<1>12. QED BY <1>7, <1>8, <1>9, <1>10, <1>11, Zenon

LEMMA DecodesAll ==
  ASSUME NEW s \in Seq(Byte)
  PROVE  EncodeToUTF16(s) = UnicodeDecode(s, 1) \o Terminated(s)
<1>1. /\ [i \in DOMAIN s |-> Turn(s, i).units] = [i \in DOMAIN s |-> Character(s, i).units]
      /\ [i \in DOMAIN s |-> Turn(s, i).bytes] = [i \in DOMAIN s |-> Character(s, i).bytes]
  BY TurnIs
<1>2. QED BY <1>1, Zenon DEF EncodeToUTF16, UnicodeDecode

BytesOnly == text \in Seq(CodeUnits)

LEMMA BytesOnlyAlways == EncodingsSpec => []BytesOnly
<1>1. EncodingsInit => BytesOnly
  BY DEF EncodingsInit, BytesOnly
<1>2. BytesOnly /\ [EncodingsNext]_text => BytesOnly'
  BY DEF EncodingsNext, AppendByte, BytesOnly
<1>3. QED BY <1>1, <1>2, PTL DEF EncodingsSpec

LEMMA BytesAreBytes == BytesOnly => text \in Seq(Byte)
<1>1. CodeUnits \subseteq Byte
  BY CodeUnitsAssumption DEF CodeUnitsAssumption
<1>2. QED BY <1>1 DEF BytesOnly

(* EncodeToUTF16 decodes UTF-8, whatever the bytes and however many.       *)
THEOREM DecodesUnicodeAlways == EncodingsSpec => []DecodesUnicode
<1>1. BytesOnly => DecodesUnicode
  BY BytesAreBytes, DecodesAll DEF DecodesUnicode
<1>2. QED BY <1>1, BytesOnlyAlways, PTL

(* The classifier, of what it reads.                                       *)
ClassOf(c, d, s, i) ==
  IF c < 128 THEN "ASCII"
  ELSE IF c < 194 \/ ~HasTail(s, i, 1) THEN "INVALID"
  ELSE IF c < 224 THEN (IF c < 196 THEN "LATIN1" ELSE "TWOBYTE")
  ELSE IF (c = 224 /\ d < 160) \/ c = 237 \/ ~HasTail(s, i, 2) THEN "INVALID"
  ELSE IF c < 240 THEN "THREEBYTE"
  ELSE IF c > 244 \/ ~HasTail(s, i, 3) THEN "INVALID"
  ELSE IF (c = 240 /\ d < 144) \/ (c = 244 /\ d >= 144) THEN "INVALID"
  ELSE "FOURBYTE"

LEMMA ClassesOf ==
  ASSUME NEW c \in Nat, NEW d, NEW s, NEW i
  PROVE  /\ ClassOf(c, d, s, i) \in {"ASCII", "LATIN1", "TWOBYTE", "THREEBYTE", "FOURBYTE", "INVALID"}
         /\ ClassOf(c, d, s, i) = "ASCII" <=> c < 128
         /\ ClassOf(c, d, s, i) \in {"LATIN1", "TWOBYTE"} <=> ReadTwo(c, s, i)
         /\ ClassOf(c, d, s, i) = "LATIN1" => c < 196
         /\ ClassOf(c, d, s, i) = "THREEBYTE" => ReadThree(c, d, s, i)
         /\ ClassOf(c, d, s, i) = "FOURBYTE" <=> ReadFour(c, d, s, i)
         /\ ReadThree(c, d, s, i) => ClassOf(c, d, s, i) = "THREEBYTE" \/ c = 237
BY DEF ClassOf, ReadTwo, ReadThree, ReadFour

(* What the older classifier says of a byte, in the words of Unicode.      *)
LEMMA ClassIs ==
  ASSUME NEW s \in Seq(Byte), NEW i \in DOMAIN s
  PROVE  /\ ClassifyCodeUnit(s, i) = "ASCII" <=> WellFormed(s, i, 1)
         /\ ClassifyCodeUnit(s, i) = "LATIN1" => WellFormed(s, i, 2) /\ s[i] < 196
         /\ ClassifyCodeUnit(s, i) = "TWOBYTE" => WellFormed(s, i, 2)
         /\ ClassifyCodeUnit(s, i) = "THREEBYTE" => WellFormed(s, i, 3)
         /\ ClassifyCodeUnit(s, i) = "FOURBYTE" => WellFormed(s, i, 4)
         /\ ClassifyCodeUnit(s, i) = "INVALID" =>
              s[i] = 237 \/ \A n \in 1 .. 4 : ~ WellFormed(s, i, n)
         /\ ClassifyCodeUnit(s, i)
              \in {"ASCII", "LATIN1", "TWOBYTE", "THREEBYTE", "FOURBYTE", "INVALID"}
         /\ s[i] < 128 => ClassifyCodeUnit(s, i) = "ASCII"
<1>1. PICK c \in Nat : c = s[i]
  BY LeadOf, Zenon
<1>2. PICK d : d = s[i + 1]
  OBVIOUS
<1>3. PICK class : class = ClassOf(c, d, s, i)
  OBVIOUS
<1>4. ClassifyCodeUnit(s, i) = class
  <2>1. ClassifyCodeUnit(s, i) = ClassOf(s[i], s[i + 1], s, i)
    BY Zenon DEF ClassifyCodeUnit, ClassOf
  <2>2. QED BY <1>1, <1>2, <1>3, <2>1, Zenon
<1>5. /\ WellFormed(s, i, 1) <=> c < 128
      /\ WellFormed(s, i, 2) <=> ReadTwo(c, s, i)
      /\ WellFormed(s, i, 3) <=> ReadThree(c, d, s, i)
      /\ WellFormed(s, i, 4) <=> ReadFour(c, d, s, i)
  BY <1>1, <1>2, OneByte, TwoBytes, ThreeBytes, FourBytes, Zenon
<1>6. /\ class \in {"ASCII", "LATIN1", "TWOBYTE", "THREEBYTE", "FOURBYTE", "INVALID"}
      /\ class = "ASCII" <=> c < 128
      /\ class \in {"LATIN1", "TWOBYTE"} <=> ReadTwo(c, s, i)
      /\ class = "LATIN1" => c < 196
      /\ class = "THREEBYTE" => ReadThree(c, d, s, i)
      /\ class = "FOURBYTE" <=> ReadFour(c, d, s, i)
      /\ ReadThree(c, d, s, i) => class = "THREEBYTE" \/ c = 237
  BY <1>3, ClassesOf
<1>7. ASSUME class = "INVALID", c # 237
      PROVE  \A n \in 1 .. 4 : ~ WellFormed(s, i, n)
  <2>1. ~ WellFormed(s, i, 1) /\ ~ WellFormed(s, i, 2) /\ ~ WellFormed(s, i, 3) /\ ~ WellFormed(s, i, 4)
    BY <1>5, <1>6, <1>7
  <2>2. \A n \in 1 .. 4 : n = 1 \/ n = 2 \/ n = 3 \/ n = 4
    OBVIOUS
  <2>3. QED BY <2>1, <2>2
<1>8. /\ class = "ASCII" <=> WellFormed(s, i, 1)
      /\ class = "LATIN1" => WellFormed(s, i, 2) /\ c < 196
      /\ class = "TWOBYTE" => WellFormed(s, i, 2)
      /\ class = "THREEBYTE" => WellFormed(s, i, 3)
      /\ class = "FOURBYTE" => WellFormed(s, i, 4)
      /\ c < 128 => class = "ASCII"
  BY <1>5, <1>6
<1>9. class = "INVALID" => c = 237 \/ \A n \in 1 .. 4 : ~ WellFormed(s, i, n)
  BY <1>7, Zenon
<1>10. QED BY <1>1, <1>4, <1>6, <1>8, <1>9, Zenon

LEMMA Char16Is == \A k \in Int : 0 <= k /\ k < 65536 => k \in Char16
<1>1. PICK last \in Int : last = 256 * 256 - 1
  BY SMT
<1>2. \A k \in Int : k < 65536 => k <= last
  BY <1>1, SMT
<1>3. \A k \in Int : 0 <= k /\ k <= last => k \in 0 .. last
  OBVIOUS
<1>4. Char16 = 0 .. last
  BY <1>1, Zenon DEF Char16
<1>5. QED BY <1>2, <1>3, <1>4, SMT

LEMMA ClassesHave ==
  /\ DOMAIN OffsetForClassification =
       {"ASCII", "LATIN1", "TWOBYTE", "THREEBYTE", "FOURBYTE", "INVALID"}
  /\ OffsetForClassification["ASCII"] = 1 /\ OffsetForClassification["INVALID"] = 1
  /\ OffsetForClassification["LATIN1"] = 2 /\ OffsetForClassification["TWOBYTE"] = 2
  /\ OffsetForClassification["THREEBYTE"] = 3 /\ OffsetForClassification["FOURBYTE"] = 4
  /\ \A class \in DOMAIN OffsetForClassification :
       Utf16CountForClassification[class] = IF class = "FOURBYTE" THEN 2 ELSE 1
BY DEF OffsetForClassification, Utf16CountForClassification

(* A character of one unit, as the older code writes it.                   *)
LEMMA OneUnitAt ==
  ASSUME NEW s \in Seq(Byte), NEW i \in DOMAIN s, NEW n \in 1 .. 3, WellFormed(s, i, n),
         n = 1 => ClassifyCodeUnit(s, i) = "ASCII",
         n = 2 => ClassifyCodeUnit(s, i) \in {"LATIN1", "TWOBYTE"},
         n = 3 => ClassifyCodeUnit(s, i) = "THREEBYTE"
  PROVE  /\ Utf16At(s, i) = <<Scalar(s, i, n)>> /\ Scalar(s, i, n) \in Char16
         /\ Character(s, i) = [bytes |-> n, units |-> <<Scalar(s, i, n)>>]
<1>1. Utf16At(s, i) = <<Utf8ToUtf16(s, i, ClassifyCodeUnit(s, i))>>
  <2>1. ClassifyCodeUnit(s, i) # "FOURBYTE"
    <3>1. n = 1 \/ n = 2 \/ n = 3
      OBVIOUS
    <3>2. QED BY <3>1
  <2>2. QED BY <2>1 DEF Utf16At
<1>2. Utf8ToUtf16(s, i, ClassifyCodeUnit(s, i)) = Scalar(s, i, n)
  <2>1. CASE n = 1
    BY <2>1, UnitOf, SMT DEF Utf8ToUtf16
  <2>2. CASE n = 2
    <3>1. Utf8ToUtf16(s, i, ClassifyCodeUnit(s, i)) = UnitOfTwo(s[i], Six(s, i, 1))
      BY <2>2, SMT DEF Utf8ToUtf16, UnitOfTwo
    <3>2. QED BY <2>2, <3>1, UnitOf, SMT
  <2>3. CASE n = 3
    <3>1. Utf8ToUtf16(s, i, ClassifyCodeUnit(s, i)) = UnitOfThree(s[i], Six(s, i, 1), Six(s, i, 2))
      BY <2>3, SMT DEF Utf8ToUtf16, UnitOfThree
    <3>2. QED BY <2>3, <3>1, UnitOf, SMT
  <2>4. QED BY <2>1, <2>2, <2>3
<1>3. Scalar(s, i, n) \in Char16
  BY UnitOf, Char16Is, SMT
<1>4. Character(s, i) = [bytes |-> n, units |-> <<Scalar(s, i, n)>>]
  BY UnitOf, CharacterIs, SMT
<1>5. QED BY <1>1, <1>2, <1>3, <1>4

LEMMA EndsInText ==
  ASSUME NEW s \in Seq(Byte), NEW i \in DOMAIN s, NEW n \in 1 .. 4, WellFormed(s, i, n)
  PROVE  i + n <= Len(s) + 1
<1>1. i \in Int /\ Len(s) \in Int /\ i <= Len(s)
  BY LeadOf
<1>2. CASE n = 1
  BY <1>1, <1>2
<1>3. CASE n > 1
  <2>1. HasTail(s, i, n - 1)
    <3>1. \A k \in 1 .. n - 1 : HasTail(s, i, k)
      BY Zenon DEF WellFormed
    <3>2. n - 1 \in 1 .. n - 1
      BY <1>3
    <3>3. QED BY <3>1, <3>2, Zenon
  <2>2. i + (n - 1) <= Len(s)
    BY <2>1 DEF HasTail
  <2>3. QED BY <1>1, <2>2
<1>4. QED BY <1>2, <1>3

(* What the older code reads at a position: how far it goes, and what it   *)
(* writes, which is what Unicode says unless the byte is 0xed.             *)
LEMMA OlderAt ==
  ASSUME NEW s \in Seq(Byte), NEW i \in DOMAIN s
  PROVE  /\ Offsets(s)[i] \in Nat \ {0} /\ i + Offsets(s)[i] <= Len(s) + 1
         /\ Utf16At(s, i) \in Seq(Char16)
         /\ Len(Utf16At(s, i)) = Utf16CountForClassification[ClassifyCodeUnit(s, i)]
         /\ Len(Utf16At(s, i)) <= Offsets(s)[i]
         /\ s[i] # 237 => Character(s, i) = [bytes |-> Offsets(s)[i], units |-> Utf16At(s, i)]
<1> DEFINE class == ClassifyCodeUnit(s, i)
<1>1. class \in DOMAIN OffsetForClassification /\ Offsets(s)[i] = OffsetForClassification[class]
  BY ClassIs, ClassesHave DEF Offsets
<1>2. ASSUME NEW n \in 1 .. 3, WellFormed(s, i, n), Offsets(s)[i] = n,
             n = 1 => class = "ASCII", n = 2 => class \in {"LATIN1", "TWOBYTE"},
             n = 3 => class = "THREEBYTE"
      PROVE  /\ Utf16At(s, i) \in Seq(Char16) /\ Len(Utf16At(s, i)) = 1
             /\ i + n <= Len(s) + 1
             /\ Character(s, i) = [bytes |-> n, units |-> Utf16At(s, i)]
  <2>1. /\ Utf16At(s, i) = <<Scalar(s, i, n)>> /\ Scalar(s, i, n) \in Char16
        /\ Character(s, i) = [bytes |-> n, units |-> <<Scalar(s, i, n)>>]
    BY <1>2, OneUnitAt
  <2>2. i + n <= Len(s) + 1
    BY <1>2, EndsInText
  <2>3. QED BY <2>1, <2>2
<1>3. CASE class \in {"ASCII", "LATIN1", "TWOBYTE", "THREEBYTE"}
  <2>1. PICK n \in 1 .. 3 :
          /\ WellFormed(s, i, n) /\ Offsets(s)[i] = n
          /\ n = 1 => class = "ASCII"
          /\ n = 2 => class \in {"LATIN1", "TWOBYTE"}
          /\ n = 3 => class = "THREEBYTE"
    BY <1>1, <1>3, ClassIs, ClassesHave
  <2>2. Utf16CountForClassification[class] = 1
    BY <1>1, <1>3, ClassesHave
  <2>3. /\ Utf16At(s, i) \in Seq(Char16) /\ Len(Utf16At(s, i)) = 1
        /\ i + n <= Len(s) + 1
        /\ Character(s, i) = [bytes |-> n, units |-> Utf16At(s, i)]
    BY <1>2, <2>1
  <2>4. n \in Nat \ {0} /\ 1 <= n
    OBVIOUS
  <2>5. QED BY <2>1, <2>2, <2>3, <2>4, Zenon
<1>4. CASE class = "FOURBYTE"
  <2>1. WellFormed(s, i, 4) /\ Offsets(s)[i] = 4 /\ Utf16CountForClassification[class] = 2
    BY <1>1, <1>4, ClassIs, ClassesHave
  <2>2. Utf16At(s, i) = Utf16Of(Scalar(s, i, 4))
    BY <1>4, <2>1, PairOf DEF Utf16At
  <2>3. PICK x \in Int : x = Scalar(s, i, 4)
    <3>1. HasTail(s, i, 1) /\ HasTail(s, i, 2) /\ HasTail(s, i, 3)
      BY <2>1, FourBytes, ZenonT(30) DEF ReadFour
    <3>2. Six(s, i, 1) \in Int /\ Six(s, i, 2) \in Int /\ Six(s, i, 3) \in Int /\ s[i] \in Int
      <4>1. \A m \in 0 .. 63 : m \in Int
        OBVIOUS
      <4>2. \A m \in Nat : m \in Int
        OBVIOUS
      <4>3. 1 \in 1 .. 3 /\ 2 \in 1 .. 3 /\ 3 \in 1 .. 3
        OBVIOUS
      <4>4. QED BY <3>1, <4>1, <4>2, <4>3, SixOf, LeadOf, ZenonT(30)
    <3>3. \A c, x, y, z \in Int : BitsOfFour(c, x, y, z) \in Int
      BY SMT DEF BitsOfFour
    <3>4. QED BY <3>2, <3>3, ScalarIs, ZenonT(30)
  <2>4. 65536 <= x /\ x <= 1114111
    <3>1. IsScalar(4, x)
      BY <2>1, <2>3, WellFormedIs, Zenon
    <3>2. QED BY <3>1, ScalarsAre, SMT
  <2>5. PICK q \in Int, r \in Int :
          /\ q = (x - 65536) \div 1024 /\ r = (x - 65536) % 1024
          /\ 0 <= q /\ q <= 1023 /\ 0 <= r /\ r <= 1023
    BY <2>4, SMT
  <2>6. Utf16At(s, i) = <<HighSurrogate + q, LowSurrogate + r>>
    BY <2>2, <2>3, <2>4, <2>5, SMTT(30) DEF Utf16Of
  <2>7. HighSurrogate + q \in Char16 /\ LowSurrogate + r \in Char16
    BY <2>5, Char16Is, SMT DEF HighSurrogate, LowSurrogate
  <2>8. Character(s, i) = [bytes |-> 4, units |-> Utf16At(s, i)]
    BY <2>1, <2>2, CharacterIs, SMT
  <2>9. i + 4 <= Len(s) + 1
    BY <2>1, EndsInText, SMT
  <2>10. Utf16At(s, i) \in Seq(Char16) /\ Len(Utf16At(s, i)) = 2
    BY <2>6, <2>7, SMT
  <2>11. QED BY <2>1, <2>8, <2>9, <2>10, SMT
<1>5. CASE class = "INVALID"
  <2>1. Offsets(s)[i] = 1 /\ Utf16CountForClassification[class] = 1
    BY <1>1, <1>5, ClassesHave
  <2>2. Utf16At(s, i) = <<Replacement>>
    BY <1>5, SMT DEF Utf16At, Utf8ToUtf16
  <2>3. Replacement \in Char16
    BY Char16Is, SMT DEF Replacement
  <2>4. s[i] # 237 => Character(s, i) = [bytes |-> 1, units |-> <<Replacement>>]
    BY <1>5, ClassIs, CharacterIs
  <2>5. i + 1 <= Len(s) + 1
    BY LeadOf
  <2>6. <<Replacement>> \in Seq(Char16) /\ Len(<<Replacement>>) = 1
    BY <2>3
  <2>7. QED BY <2>1, <2>2, <2>4, <2>5, <2>6
<1>6. QED BY <1>1, <1>3, <1>4, <1>5, ClassesHave

(* A byte for a unit, for the first 256 characters.                        *)
LEMMA Latin1AtIs ==
  ASSUME NEW s \in Seq(Byte), NEW i \in DOMAIN s, ClassifyCodeUnit(s, i) \in {"ASCII", "LATIN1"}
  PROVE  <<Latin1At(s, i)>> = Utf16At(s, i)
<1>1. CASE ClassifyCodeUnit(s, i) = "ASCII"
  <2>1. Utf16At(s, i) = <<s[i]>>
    BY <1>1, SMT DEF Utf16At, Utf8ToUtf16
  <2>2. QED BY <1>1, <2>1, SMT DEF Latin1At
<1>2. CASE ClassifyCodeUnit(s, i) = "LATIN1"
  <2>1. WellFormed(s, i, 2) /\ s[i] < 196
    BY <1>2, ClassIs, SMT
  <2>2. PICK c \in 0 .. 255 : c = s[i]
    BY LeadOf, Zenon
  <2>3. 194 <= c /\ c < 196
    <3>1. ReadTwo(c, s, i) /\ c < 196
      BY <2>1, <2>2, TwoBytes, Zenon
    <3>2. QED BY <3>1, SMT DEF ReadTwo
  <2>4. c % 32 = c % 4
    BY <2>3, SMT
  <2>5. Utf16At(s, i) = <<64 * (c % 32) + Six(s, i, 1)>>
    BY <1>2, <2>2, SMT DEF Utf16At, Utf8ToUtf16
  <2>6. Latin1At(s, i) = 64 * (c % 4) + (s[i + 1] % 64)
    BY <1>2, <2>2, SMT DEF Latin1At, Utf8ToLatin1
  <2>7. QED BY <2>4, <2>5, <2>6, Zenon DEF Six
<1>3. QED BY <1>1, <1>2, SMT

LEMMA OlderDecodesAll ==
  ASSUME NEW s \in Seq(Byte)
  PROVE  OlderDecodesUnicode(s)
<1>1. SUFFICES ASSUME \A i \in DOMAIN s : s[i] # 237
               PROVE  Utf16Encode(s) = UnicodeDecode(s, First(s))
  BY DEF OlderDecodesUnicode
<1>2. \A i \in DOMAIN s : Utf16At(s, i) = Character(s, i).units
                          /\ Offsets(s)[i] = Character(s, i).bytes
  BY <1>1, OlderAt
<1>3. Offsets(s) = [i \in DOMAIN s |-> Offsets(s)[i]]
  BY DEF Offsets
<1>4. /\ [i \in DOMAIN s |-> Utf16At(s, i)] = [i \in DOMAIN s |-> Character(s, i).units]
      /\ Offsets(s) = [i \in DOMAIN s |-> Character(s, i).bytes]
  BY <1>2, <1>3
<1>5. QED BY <1>4, Zenon DEF Utf16Encode, UnicodeDecode

(* From the end of a text to its beginning.                                *)
LEMMA Downwards ==
  ASSUME NEW n \in Nat, NEW P,
         \A i \in 1 .. n + 1 : (\A j \in 1 .. n + 1 : j > i => j \in P) => i \in P
  PROVE  \A i \in 1 .. n + 1 : i \in P
<1> DEFINE Bad == {m \in Nat : m <= n /\ n + 1 - m \notin P}
<1>1. ASSUME Bad # {} PROVE FALSE
  <2>1. PICK m \in Bad : \A k \in Bad : ~ (<<k, m>> \in OpToRel(<, Nat))
    <3>1. Bad \subseteq Nat
      OBVIOUS
    <3> HIDE DEF Bad
    <3>2. QED BY <1>1, <3>1, NatLessThanWellFounded, WFMin, Zenon
  <2>2. PICK i \in 1 .. n + 1 : i = n + 1 - m /\ i \notin P /\ m \in Nat
    OBVIOUS
  <2>3. ASSUME NEW j \in 1 .. n + 1, j > i PROVE j \in P
    <3>1. PICK k \in Nat : k = n + 1 - j /\ k < m /\ k <= n /\ j = n + 1 - k
      BY <2>2, <2>3
    <3>2. <<k, m>> \in OpToRel(<, Nat)
      BY <2>2, <3>1 DEF OpToRel
    <3>3. k \notin Bad
      BY <2>1, <3>2, Zenon
    <3>4. QED BY <3>1, <3>3
  <2>4. QED BY <2>2, <2>3
<1>2. SUFFICES ASSUME NEW i \in 1 .. n + 1, i \notin P PROVE FALSE
  OBVIOUS
<1>3. PICK m \in Nat : m = n + 1 - i /\ m <= n /\ i = n + 1 - m
  BY <1>2
<1>4. m \in Bad
  BY <1>2, <1>3
<1>5. QED BY <1>1, <1>4

(* A loop that always goes forward computes something from each position.  *)
Forward(n, bytes) == \A i \in 1 .. n : bytes[i] \in Nat \ {0} /\ i + bytes[i] <= n + 1

Steps(n, S, step) == step \in [1 .. n -> [S -> S]]

Computes(f, n, S, zero, step, bytes) ==
  /\ f \in [1 .. n + 1 -> S]
  /\ \A i \in 1 .. n + 1 : f[i] = IF i > n THEN zero ELSE step[i][f[i + bytes[i]]]

LEMMA LoopEnds ==
  ASSUME NEW n \in Nat, NEW S, NEW zero \in S, NEW step, Steps(n, S, step),
         NEW bytes, Forward(n, bytes)
  PROVE  \E f : Computes(f, n, S, zero, step, bytes)
<1> USE DEF Forward, Steps
<1> DEFINE Solves(f, i) == /\ f \in [i .. n + 1 -> S]
                           /\ \A k \in i .. n + 1 :
                                f[k] = IF k > n THEN zero ELSE step[k][f[k + bytes[k]]]
           P == {i \in 1 .. n + 1 : \E f : Solves(f, i)}
<1> HIDE DEF P
<1>1. ASSUME NEW i \in 1 .. n + 1, \A j \in 1 .. n + 1 : j > i => j \in P PROVE i \in P
  <2>1. CASE i = n + 1
    <3> DEFINE f == [k \in i .. n + 1 |-> zero]
    <3>1. f \in [i .. n + 1 -> S]
      OBVIOUS
    <3>2. \A k \in i .. n + 1 : k > n /\ f[k] = zero
      BY <2>1
    <3>3. Solves(f, i)
      BY <3>1, <3>2
    <3> HIDE DEF f, Solves
    <3>4. QED BY <3>3 DEF P
  <2>2. CASE i <= n
    <3>1. i + 1 \in 1 .. n + 1 /\ i + 1 > i /\ i \in 1 .. n /\ i \in Int
      BY <2>2
    <3>2. PICK g : Solves(g, i + 1)
      <4>1. i + 1 \in P
        BY <1>1, <3>1
      <4> HIDE DEF Solves
      <4>2. QED BY <4>1, Zenon DEF P
    <3>3. i + bytes[i] \in i + 1 .. n + 1 /\ step[i] \in [S -> S]
      BY <3>1
    <3> DEFINE f == [k \in i .. n + 1 |-> IF k = i THEN step[i][g[i + bytes[i]]] ELSE g[k]]
    <3>4. \A k \in i + 1 .. n + 1 : f[k] = g[k] /\ g[k] \in S
      BY <3>1, <3>2
    <3>5. f[i] = step[i][g[i + bytes[i]]] /\ f[i] \in S
      <4>1. f[i] = step[i][g[i + bytes[i]]]
        BY <3>1
      <4>2. g[i + bytes[i]] \in S
        BY <3>3, <3>4
      <4> HIDE DEF f
      <4>3. QED BY <3>3, <4>1, <4>2
    <3>6. \A k \in i .. n + 1 : k = i \/ k \in i + 1 .. n + 1
      BY <3>1
    <3>7. f \in [i .. n + 1 -> S]
      BY <3>4, <3>5, <3>6
    <3>8. ASSUME NEW k \in i .. n + 1
          PROVE  f[k] = IF k > n THEN zero ELSE step[k][f[k + bytes[k]]]
      <4>1. CASE k = i
        BY <2>2, <3>3, <3>4, <3>5, <4>1
      <4>2. CASE k \in i + 1 .. n + 1
        <5>1. f[k] = IF k > n THEN zero ELSE step[k][g[k + bytes[k]]]
          BY <3>2, <3>4, <4>2
        <5>2. k <= n => k + bytes[k] \in i + 1 .. n + 1
          <6>1. SUFFICES ASSUME k <= n PROVE k + bytes[k] \in i + 1 .. n + 1
            OBVIOUS
          <6>2. k \in 1 .. n /\ bytes[k] \in Nat \ {0} /\ k + bytes[k] <= n + 1
            BY <3>1, <4>2, <6>1
          <6>3. QED BY <3>1, <4>2, <6>2
        <5>3. QED BY <3>1, <3>4, <4>2, <5>1, <5>2
      <4>3. QED BY <3>6, <4>1, <4>2
    <3>9. Solves(f, i)
      BY <3>7, <3>8
    <3> HIDE DEF f, Solves
    <3>10. QED BY <3>9 DEF P
  <2>3. QED BY <2>1, <2>2
<1>2. 1 \in P
  <2>1. \A i \in 1 .. n + 1 : i \in P
    BY <1>1, Downwards
  <2>2. QED BY <2>1
<1>3. PICK f : Solves(f, 1)
  BY <1>2 DEF P
<1>4. Computes(f, n, S, zero, step, bytes)
  BY <1>3 DEF Computes
<1>5. QED BY <1>4

(* What a walk returns: nothing from the end, and from elsewhere the units *)
(* of the position and what it returns from the next.                      *)
Walks(w, n, T, units, bytes) ==
  /\ \A i \in 1 .. n + 1 : w[i] \in Seq(T)
  /\ w[n + 1] = <<>>
  /\ \A i \in 1 .. n : w[i] = units[i] \o w[i + bytes[i]]

LEMMA WalkIs ==
  ASSUME NEW n \in Nat, NEW T, NEW units, \A i \in 1 .. n : units[i] \in Seq(T),
         NEW bytes, Forward(n, bytes)
  PROVE  Walks(Walk(n, units, bytes), n, T, units, bytes)
<1> DEFINE Is(f) == f = [i \in 1 .. n + 1 |-> IF i > n THEN <<>> ELSE units[i] \o f[i + bytes[i]]]
           w == Walk(n, units, bytes)
<1>1. \E f : Is(f)
  <2> DEFINE step == [i \in 1 .. n |-> [x \in Seq(T) |-> units[i] \o x]]
  <2>1. Steps(n, Seq(T), step) /\ <<>> \in Seq(T)
    BY DEF Steps
  <2>2. PICK f : Computes(f, n, Seq(T), <<>>, step, bytes)
    <3> HIDE DEF step
    <3>1. QED BY <2>1, LoopEnds, Zenon
  <2>3. ASSUME NEW i \in 1 .. n + 1
        PROVE  f[i] = IF i > n THEN <<>> ELSE units[i] \o f[i + bytes[i]]
    <3>1. CASE i > n
      BY <2>2, <3>1 DEF Computes
    <3>2. CASE ~ (i > n)
      <4>1. i \in 1 .. n /\ i + bytes[i] \in 1 .. n + 1
        BY <3>2 DEF Forward
      <4>2. f[i] = step[i][f[i + bytes[i]]]
        BY <2>2, <3>2 DEF Computes
      <4>3. f[i + bytes[i]] \in Seq(T)
        BY <2>2, <4>1 DEF Computes
      <4>4. step[i][f[i + bytes[i]]] = units[i] \o f[i + bytes[i]]
        BY <4>1, <4>3
      <4>5. QED BY <3>2, <4>2, <4>4
    <3>3. QED BY <3>1, <3>2
  <2>4. f = [i \in 1 .. n + 1 |-> f[i]]
    BY <2>2 DEF Computes
  <2>5. Is(f)
    BY <2>3, <2>4
  <2> HIDE DEF Is
  <2>6. QED BY <2>5
<1>2. w = CHOOSE f : Is(f)
  BY DEF Walk
<1>3. Is(w)
  <2> HIDE DEF Is, w
  <2>1. QED BY <1>1, <1>2, Zenon
<1> HIDE DEF w
<1>4. w[n + 1] = <<>> /\ \A i \in 1 .. n : w[i] = units[i] \o w[i + bytes[i]]
  <2>1. \A i \in 1 .. n + 1 : w[i] = IF i > n THEN <<>> ELSE units[i] \o w[i + bytes[i]]
    BY <1>3
  <2>2. n + 1 > n /\ n + 1 \in 1 .. n + 1 /\ \A i \in 1 .. n : i \in 1 .. n + 1 /\ ~ (i > n)
    OBVIOUS
  <2>3. QED BY <2>1, <2>2
<1> HIDE DEF Is
<1> DEFINE P == {i \in 1 .. n + 1 : w[i] \in Seq(T)}
<1>5. ASSUME NEW i \in 1 .. n + 1, \A j \in 1 .. n + 1 : j > i => j \in P PROVE i \in P
  <2>1. CASE i = n + 1
    <3>1. <<>> \in Seq(T)
      OBVIOUS
    <3>2. QED BY <1>4, <2>1, <3>1
  <2>2. CASE i \in 1 .. n
    <3>1. i + bytes[i] \in 1 .. n + 1 /\ i + bytes[i] > i
      BY <2>2 DEF Forward
    <3>2. w[i + bytes[i]] \in Seq(T) /\ units[i] \in Seq(T)
      BY <1>5, <2>2, <3>1
    <3>3. units[i] \o w[i + bytes[i]] \in Seq(T)
      BY <3>2
    <3>4. QED BY <1>4, <2>2, <3>3
  <2>3. QED BY <2>1, <2>2
<1>6. \A i \in 1 .. n + 1 : i \in P
  <2> HIDE DEF P
  <2>1. QED BY <1>5, Downwards
<1>7. QED BY <1>4, <1>6 DEF w, Walks

LEMMA FirstIn == ASSUME NEW s \in Seq(Byte) PROVE First(s) \in 1 .. Len(s) + 1
BY DEF First, HasBOM

LEMMA OffsetsForward == ASSUME NEW s \in Seq(Byte) PROVE Forward(Len(s), Offsets(s))
<1>1. \A i \in 1 .. Len(s) : i \in DOMAIN s
  OBVIOUS
<1>2. QED BY <1>1, OlderAt DEF Forward

(* The counting pass, from each position.                                  *)
LEMMA CountIs ==
  ASSUME NEW s \in Seq(Byte)
  PROVE  \E count :
           /\ Char16Count(s) = count[First(s)] /\ count[Len(s) + 1] = 0
           /\ \A i \in 1 .. Len(s) : count[i] =
                Utf16CountForClassification[ClassifyCodeUnit(s, i)] + count[i + Offsets(s)[i]]
<1> DEFINE n == Len(s)
           of(i) == Utf16CountForClassification[ClassifyCodeUnit(s, i)]
           Is(f) == f = [i \in 1 .. n + 1 |-> IF i > n THEN 0 ELSE of(i) + f[i + Offsets(s)[i]]]
           count == CHOOSE f : Is(f)
           step == [i \in 1 .. n |-> [x \in Nat |-> of(i) + x]]
<1>1. n \in Nat /\ Forward(n, Offsets(s)) /\ \A i \in 1 .. n : of(i) \in Nat
  <2>1. \A i \in 1 .. n : i \in DOMAIN s
    OBVIOUS
  <2>2. \A i \in 1 .. n : of(i) = 1 \/ of(i) = 2
    BY <2>1, ClassIs, ClassesHave
  <2>3. QED BY <2>2, OffsetsForward
<1>2. Char16Count(s) = count[First(s)]
  BY DEF Char16Count
<1> HIDE DEF n, of
<1>3. Is(count)
  <2>1. Steps(n, Nat, step)
    BY <1>1 DEF Steps
  <2>2. PICK f : Computes(f, n, Nat, 0, step, Offsets(s))
    <3> HIDE DEF step
    <3>1. 0 \in Nat
      OBVIOUS
    <3>2. QED BY <1>1, <2>1, <3>1, LoopEnds, Zenon
  <2>3. ASSUME NEW i \in 1 .. n + 1
        PROVE  f[i] = IF i > n THEN 0 ELSE of(i) + f[i + Offsets(s)[i]]
    <3>1. CASE i > n
      BY <2>2, <3>1 DEF Computes
    <3>2. CASE ~ (i > n)
      <4>1. i \in 1 .. n /\ i + Offsets(s)[i] \in 1 .. n + 1
        BY <1>1, <3>2 DEF Forward
      <4>2. f[i] = step[i][f[i + Offsets(s)[i]]] /\ f[i + Offsets(s)[i]] \in Nat
        BY <2>2, <3>2, <4>1 DEF Computes
      <4>3. step[i][f[i + Offsets(s)[i]]] = of(i) + f[i + Offsets(s)[i]]
        BY <4>1, <4>2
      <4>4. QED BY <3>2, <4>2, <4>3
    <3>3. QED BY <3>1, <3>2
  <2>4. f = [i \in 1 .. n + 1 |-> f[i]]
    BY <2>2 DEF Computes
  <2>5. Is(f)
    BY <2>3, <2>4
  <2> HIDE DEF Is
  <2>6. QED BY <2>5, Zenon
<1> HIDE DEF count
<1>4. count[n + 1] = 0 /\ \A i \in 1 .. n : count[i] = of(i) + count[i + Offsets(s)[i]]
  <2>1. \A i \in 1 .. n + 1 : count[i] = IF i > n THEN 0 ELSE of(i) + count[i + Offsets(s)[i]]
    BY <1>3
  <2>2. n + 1 > n /\ n + 1 \in 1 .. n + 1 /\ \A i \in 1 .. n : i \in 1 .. n + 1 /\ ~ (i > n)
    BY <1>1
  <2>3. QED BY <2>1, <2>2
<1>5. QED BY <1>2, <1>4, Zenon DEF n, of

(* The two passes agree, from each position on.                            *)
LEMMA WritesAll ==
  ASSUME NEW s \in Seq(Byte)
  PROVE  WritesFitCount(s)
<1> DEFINE n == Len(s)
           w == Walk(Len(s), [i \in DOMAIN s |-> Utf16At(s, i)], Offsets(s))
<1>1. n \in Nat /\ DOMAIN s = 1 .. n /\ First(s) \in 1 .. n + 1 /\ Forward(n, Offsets(s))
  BY FirstIn, OffsetsForward
<1>2. PICK count :
        /\ Char16Count(s) = count[First(s)] /\ count[n + 1] = 0
        /\ \A i \in 1 .. n : count[i] =
             Utf16CountForClassification[ClassifyCodeUnit(s, i)] + count[i + Offsets(s)[i]]
  BY CountIs
<1>3. /\ \A i \in 1 .. n + 1 : w[i] \in Seq(Char16)
      /\ w[n + 1] = <<>>
      /\ \A i \in 1 .. n : w[i] = Utf16At(s, i) \o w[i + Offsets(s)[i]]
  <2> DEFINE units == [i \in DOMAIN s |-> Utf16At(s, i)]
  <2>1. \A i \in 1 .. n : units[i] = Utf16At(s, i) /\ units[i] \in Seq(Char16)
    BY <1>1, OlderAt
  <2>2. w = Walk(n, units, Offsets(s))
    OBVIOUS
  <2> HIDE DEF n, w, units
  <2>3. Walks(w, n, Char16, units, Offsets(s))
    BY <1>1, <2>1, <2>2, WalkIs, Zenon
  <2>4. QED BY <2>1, <2>3 DEF Walks
<1>4. \A i \in 1 .. n :
        /\ Utf16At(s, i) \in Seq(Char16)
        /\ Len(Utf16At(s, i)) = Utf16CountForClassification[ClassifyCodeUnit(s, i)]
        /\ Len(Utf16At(s, i)) <= Offsets(s)[i]
  BY <1>1, OlderAt
<1>5. Utf16Encode(s) = w[First(s)]
  BY DEF Utf16Encode
<1> HIDE DEF n, w
<1> DEFINE P == {i \in 1 .. n + 1 : Len(w[i]) = count[i] /\ count[i] <= n + 1 - i}
<1>6. ASSUME NEW i \in 1 .. n + 1, \A j \in 1 .. n + 1 : j > i => j \in P PROVE i \in P
  <2>1. CASE i = n + 1
    BY <1>1, <1>2, <1>3, <2>1
  <2>2. CASE i \in 1 .. n
    <3>1. PICK k \in Nat : k = Offsets(s)[i] /\ k > 0 /\ i + k <= n + 1
      BY <1>1, <2>2, SMTT(30) DEF Forward
    <3>2. i + k \in 1 .. n + 1 /\ i + k > i
      BY <2>2, <3>1
    <3>3. Len(w[i + k]) = count[i + k] /\ count[i + k] <= n + 1 - (i + k)
      BY <1>6, <3>2
    <3>4. w[i + k] \in Seq(Char16) /\ Utf16At(s, i) \in Seq(Char16)
      BY <1>3, <1>4, <2>2, <3>2
    <3>5. PICK l \in Nat, c \in Nat : l = Len(w[i + k]) /\ c = Len(Utf16At(s, i))
      BY <3>4
    <3>6. Len(w[i]) = c + l
      <4>1. w[i] = Utf16At(s, i) \o w[i + k]
        BY <1>3, <2>2, <3>1
      <4>2. QED BY <3>4, <3>5, <4>1
    <3>7. count[i] = c + l /\ c <= k /\ l <= n + 1 - (i + k)
      BY <1>2, <1>4, <2>2, <3>1, <3>3, <3>5
    <3>8. c + l <= n + 1 - i
      BY <1>1, <2>2, <3>1, <3>7, SMTT(30)
    <3>9. QED BY <3>6, <3>7, <3>8
  <2>3. QED
    <3>1. i = n + 1 \/ i \in 1 .. n
      BY <1>1
    <3> HIDE DEF P
    <3>2. QED BY <2>1, <2>2, <3>1
<1>7. First(s) \in P
  <2> HIDE DEF P
  <2>1. \A i \in 1 .. n + 1 : i \in P
    BY <1>1, <1>6, Downwards
  <2>2. QED BY <1>1, <2>1
<1>8. PICK f \in 1 .. n + 1 : f = First(s)
  BY <1>1
<1>9. w[f] \in Seq(Char16) /\ Len(w[f]) = count[f] /\ count[f] <= n + 1 - f
  BY <1>3, <1>7, <1>8
<1>10. count[f] <= n
  BY <1>1, <1>8, <1>9
<1>11. QED BY <1>2, <1>5, <1>8, <1>9, <1>10 DEF WritesFitCount, n

(* Where the characters begin, from each position on.                      *)
LEMMA StartsIs ==
  ASSUME NEW s \in Seq(Byte)
  PROVE  LET w == Walk(Len(s), [i \in DOMAIN s |-> <<i>>], Offsets(s)) IN
         /\ \A i \in 1 .. Len(s) + 1 : w[i] \in Seq(Int)
         /\ w[Len(s) + 1] = <<>>
         /\ \A i \in 1 .. Len(s) : w[i] = <<i>> \o w[i + Offsets(s)[i]]
         /\ \A i \in 1 .. Len(s) + 1 : \A k \in DOMAIN w[i] : w[i][k] \in i .. Len(s)
<1> DEFINE n == Len(s)
           units == [i \in DOMAIN s |-> <<i>>]
           w == Walk(n, units, Offsets(s))
<1>1. n \in Nat /\ DOMAIN s = 1 .. n /\ Forward(n, Offsets(s))
  BY OffsetsForward
<1>2. \A i \in 1 .. n : units[i] = <<i>> /\ units[i] \in Seq(Int)
  BY <1>1
<1> HIDE DEF n, units
<1>3. /\ \A i \in 1 .. n + 1 : w[i] \in Seq(Int)
      /\ w[n + 1] = <<>>
      /\ \A i \in 1 .. n : w[i] = <<i>> \o w[i + Offsets(s)[i]]
  <2>1. Walks(w, n, Int, units, Offsets(s))
    BY <1>1, <1>2, WalkIs, Zenon
  <2> HIDE DEF w
  <2>2. QED BY <1>2, <2>1 DEF Walks
<1> HIDE DEF w
<1> DEFINE P == {i \in 1 .. n + 1 : \A k \in DOMAIN w[i] : w[i][k] \in i .. n}
<1>4. ASSUME NEW i \in 1 .. n + 1, \A j \in 1 .. n + 1 : j > i => j \in P PROVE i \in P
  <2>1. CASE i = n + 1
    BY <1>3, <2>1
  <2>2. CASE i \in 1 .. n
    <3>1. PICK m \in 1 .. n + 1 : m = i + Offsets(s)[i] /\ m > i
      BY <1>1, <2>2, SMTT(30) DEF Forward
    <3>2. \A k \in DOMAIN w[m] : w[m][k] \in m .. n
      BY <1>4, <3>1
    <3>3. PICK v \in Seq(Int) : v = w[m]
      BY <1>3
    <3>4. w[i] = <<i>> \o v
      BY <1>3, <2>2, <3>1, <3>3
    <3>5. ASSUME NEW k \in DOMAIN w[i] PROVE w[i][k] \in i .. n
      <4>1. CASE k = 1
        BY <1>1, <2>2, <3>3, <3>4, <4>1
      <4>2. CASE k # 1
        <5>1. k - 1 \in DOMAIN v /\ w[i][k] = v[k - 1]
          BY <3>3, <3>4, <3>5, <4>2, SMTT(30)
        <5>2. v[k - 1] \in m .. n
          BY <3>2, <3>3, <5>1
        <5>3. QED BY <1>1, <2>2, <3>1, <5>1, <5>2
      <4>3. QED BY <4>1, <4>2
    <3>6. QED BY <3>5
  <2>3. QED
    <3>1. i = n + 1 \/ i \in 1 .. n
      BY <1>1
    <3> HIDE DEF P
    <3>2. QED BY <2>1, <2>2, <3>1
<1>5. \A i \in 1 .. n + 1 : i \in P
  <2> HIDE DEF P
  <2>1. QED BY <1>1, <1>4, Downwards
<1>6. QED BY <1>3, <1>5 DEF n, units, w

(* Where every character is one of the first 256, the two encodings write  *)
(* the same; where every byte is ASCII, every character is.                *)
LEMMA Latin1All ==
  ASSUME NEW s \in Seq(Byte)
  PROVE  Latin1KeepsText(s)
<1> DEFINE n == Len(s)
           units == [i \in DOMAIN s |-> Utf16At(s, i)]
           bytes == [i \in DOMAIN s |-> <<Latin1At(s, i)>>]
           w == Walk(n, units, Offsets(s))
           l == Walk(n, bytes, Offsets(s))
           at == Walk(n, [i \in DOMAIN s |-> <<i>>], Offsets(s))
           Early(i) == ClassifyCodeUnit(s, i) \in {"ASCII", "LATIN1"}
<1>1. n \in Nat /\ DOMAIN s = 1 .. n /\ First(s) \in 1 .. n + 1 /\ Forward(n, Offsets(s))
  BY FirstIn, OffsetsForward
<1>2. /\ Utf16Encode(s) = w[First(s)] /\ Latin1Encode(s) = l[First(s)] /\ Starts(s) = at[First(s)]
      /\ CanEncodeToLatin1(s) <=> \A k \in DOMAIN Starts(s) : Early(Starts(s)[k])
  BY DEF Utf16Encode, Latin1Encode, Starts, CanEncodeToLatin1
<1>3. /\ \A i \in 1 .. n + 1 : at[i] \in Seq(Int)
      /\ at[n + 1] = <<>>
      /\ \A i \in 1 .. n : at[i] = <<i>> \o at[i + Offsets(s)[i]]
      /\ \A i \in 1 .. n + 1 : \A k \in DOMAIN at[i] : at[i][k] \in i .. n
  BY StartsIs
<1>4. \A i \in 1 .. n : Early(i) => <<Latin1At(s, i)>> = Utf16At(s, i)
  BY <1>1, Latin1AtIs
<1>5. \A i \in 1 .. n : s[i] < 128 => Early(i)
  BY <1>1, ClassIs
<1>6. w[n + 1] = <<>> /\ \A i \in 1 .. n : w[i] = Utf16At(s, i) \o w[i + Offsets(s)[i]]
  <2>1. \A i \in 1 .. n : units[i] = Utf16At(s, i) /\ units[i] \in Seq(Char16)
    BY <1>1, OlderAt
  <2> HIDE DEF n, units
  <2>2. Walks(w, n, Char16, units, Offsets(s))
    BY <1>1, <2>1, WalkIs, Zenon
  <2> HIDE DEF w
  <2>3. QED BY <2>1, <2>2 DEF Walks
<1>7. l[n + 1] = <<>> /\ \A i \in 1 .. n : l[i] = <<Latin1At(s, i)>> \o l[i + Offsets(s)[i]]
  <2> DEFINE T == {Latin1At(s, i) : i \in DOMAIN s}
  <2>1. \A i \in 1 .. n : bytes[i] = <<Latin1At(s, i)>> /\ bytes[i] \in Seq(T)
    <3>1. \A i \in 1 .. n : Latin1At(s, i) \in T
      BY <1>1
    <3> HIDE DEF T
    <3>2. QED BY <1>1, <3>1
  <2> HIDE DEF n, bytes, T
  <2>2. Walks(l, n, T, bytes, Offsets(s))
    BY <1>1, <2>1, WalkIs, Zenon
  <2> HIDE DEF l
  <2>3. QED BY <2>1, <2>2 DEF Walks
<1> HIDE DEF n, units, bytes, w, l, at, Early
<1> DEFINE P == {i \in 1 .. n + 1 : (\A k \in DOMAIN at[i] : Early(at[i][k])) => l[i] = w[i]}
<1>8. ASSUME NEW i \in 1 .. n + 1, \A j \in 1 .. n + 1 : j > i => j \in P PROVE i \in P
  <2>1. CASE i = n + 1
    BY <1>6, <1>7, <2>1
  <2>2. CASE i \in 1 .. n
    <3>1. SUFFICES ASSUME \A k \in DOMAIN at[i] : Early(at[i][k]) PROVE l[i] = w[i]
      BY <2>2
    <3>2. PICK m \in 1 .. n + 1 : m = i + Offsets(s)[i] /\ m > i
      BY <1>1, <2>2, SMTT(30) DEF Forward
    <3>3. PICK v \in Seq(Int) : v = at[m]
      BY <1>3
    <3>4. at[i] = <<i>> \o v
      BY <1>3, <2>2, <3>2, <3>3
    <3>5. Early(i)
      <4>1. 1 \in DOMAIN at[i] /\ at[i][1] = i
        BY <3>3, <3>4
      <4>2. QED BY <3>1, <4>1
    <3>6. \A k \in DOMAIN at[m] : Early(at[m][k])
      <4>1. \A k \in DOMAIN v : k + 1 \in DOMAIN at[i] /\ at[i][k + 1] = v[k]
        BY <3>3, <3>4, SMTT(30)
      <4>2. QED BY <3>1, <3>3, <4>1
    <3>7. l[m] = w[m]
      BY <1>8, <3>2, <3>6
    <3>8. QED BY <1>4, <1>6, <1>7, <2>2, <3>2, <3>5, <3>7
  <2>3. QED
    <3>1. i = n + 1 \/ i \in 1 .. n
      BY <1>1
    <3> HIDE DEF P
    <3>2. QED BY <2>1, <2>2, <3>1
<1>9. \A i \in 1 .. n + 1 : i \in P
  <2> HIDE DEF P
  <2>1. QED BY <1>1, <1>8, Downwards
<1>10. CanEncodeToLatin1(s) => Latin1Encode(s) = Utf16Encode(s)
  BY <1>1, <1>2, <1>9
<1>11. ASSUME ~ NeedsEncodingForSpiderMonkey(s) PROVE CanEncodeToLatin1(s)
  <2>1. \A i \in First(s) .. n : s[i] < 128
    <3>1. \A i \in First(s) .. n : ~ (s[i] >= 128)
      BY <1>11 DEF NeedsEncodingForSpiderMonkey, n
    <3>2. \A i \in 1 .. n : s[i] \in Int
      <4>1. \A m \in Nat : m \in Int
        OBVIOUS
      <4>2. \A i \in DOMAIN s : s[i] \in Nat
        BY LeadOf, Zenon
      <4>3. QED BY <1>1, <4>1, <4>2, Zenon
    <3>3. \A i \in First(s) .. n : i \in 1 .. n
      BY <1>1
    <3>4. QED BY <3>1, <3>2, <3>3
  <2>2. ASSUME NEW k \in DOMAIN Starts(s) PROVE Early(Starts(s)[k])
    <3>1. Starts(s)[k] \in First(s) .. n
      BY <1>1, <1>2, <1>3
    <3>2. Starts(s)[k] \in 1 .. n
      BY <1>1, <3>1
    <3>3. QED BY <1>5, <2>1, <3>1, <3>2
  <2>3. QED BY <1>2, <2>2
<1>12. QED BY <1>10, <1>11 DEF Latin1KeepsText

LEMMA KeepsAll == ASSUME NEW s \in Seq(Byte) PROVE KeepsText(s)
BY OlderDecodesAll, WritesAll, Latin1All DEF KeepsText

(* The older code keeps every text, in the room it counted for it.         *)
THEOREM EncodersKeepTextAlways == EncodingsSpec => []EncodersKeepText
<1>1. BytesOnly => EncodersKeepText
  BY BytesAreBytes, KeepsAll DEF EncodersKeepText
<1>2. QED BY <1>1, BytesOnlyAlways, PTL
-----------------------------------------------------------------------------
(* The front of a sequence, as a function. *)
LEMMA SubSeqIs ==
  ASSUME NEW q, \E S : q \in Seq(S), NEW n \in Nat, n <= Len(q)
  PROVE  SubSeq(q, 1, n) = [i \in 1 .. n |-> q[i]]
<1>1. PICK S : q \in Seq(S)
  OBVIOUS
<1> DEFINE a == SubSeq(q, 1, n)
<1>2. a \in Seq(S) /\ Len(a) = n /\ \A i \in 1 .. n : a[i] = q[i]
  BY <1>1
<1> HIDE DEF a
<1>3. a = [i \in 1 .. n |-> a[i]]
  BY <1>2
<1>4. QED BY <1>2, <1>3 DEF a

(* EncodedStrings: the text.  A string shows the first n of its cells, if  *)
(* the cell after them is the first that is zero.                          *)
IsArray(c) == \E S : c \in Seq(S)
FirstZero(c, z) == z \in 1 .. Len(c) /\ c[z] = 0 /\ \A k \in 1 .. z - 1 : c[k] # 0

LEMMA ShowsBeforeZero ==
  ASSUME NEW c, IsArray(c), NEW z, FirstZero(c, z)
  PROVE  CString(c) = [k \in 1 .. z - 1 |-> c[k]]
<1>1. DOMAIN c = 1 .. Len(c) /\ Len(c) \in Nat /\ z \in Nat
  BY DEF IsArray, FirstZero
<1> DEFINE IsIt(n) == n \in DOMAIN c /\ c[n] = 0 /\ \A k \in 1 .. n - 1 : c[k] # 0
<1>2. IsIt(z)
  BY <1>1 DEF FirstZero
<1>3. ASSUME NEW n, IsIt(n) PROVE n = z
  <2>1. n \in 1 .. Len(c) /\ z \in 1 .. Len(c)
    BY <1>1, <1>2, <1>3
  <2>2. ~(n < z) /\ ~(z < n)
    BY <1>1, <1>2, <1>3, <2>1
  <2>3. QED BY <1>1, <2>1, <2>2
<1>4. (CHOOSE n \in DOMAIN c : c[n] = 0 /\ \A k \in 1 .. n - 1 : c[k] # 0) = z
  BY <1>2, <1>3
<1>5. CString(c) = SubSeq(c, 1, z - 1)
  BY <1>4 DEF CString
<1>6. z - 1 \in Nat /\ z - 1 <= Len(c)
  BY <1>1, <1>2
<1>7. QED BY <1>5, <1>6, SubSeqIs DEF IsArray

(* What a string shows when its array is c: the text t, which ends within  *)
(* its length.                                                             *)
Shows(c, length, t) ==
  /\ IsArray(c) /\ length \in Nat
  /\ \E z \in 1 .. length + 1 : FirstZero(c, z)
  /\ CString(c) = t

(* A text that a zero was put behind, of no more than so many characters.  *)
LEMMA TerminatedShows ==
  ASSUME NEW c, IsArray(c), NEW length \in Nat, Len(c) <= length
  PROVE  Shows(c \o <<0>>, length, CString(c \o <<0>>))
<1>1. PICK S : c \in Seq(S)
  BY DEF IsArray
<1>2. PICK d : d = c \o <<0>>
  OBVIOUS
<1>3. /\ d \in Seq(S \cup {0}) /\ Len(c) \in Nat /\ Len(d) = Len(c) + 1
      /\ d[Len(c) + 1] = 0
  BY <1>1, <1>2
<1> DEFINE Zeros == {k \in 1 .. Len(d) : d[k] = 0}
<1>4. PICK z \in Zeros : \A k \in Zeros : ~ (<<k, z>> \in OpToRel(<, Nat))
  <2>1. Zeros \subseteq Nat
    OBVIOUS
  <2>2. Len(c) + 1 \in Zeros
    BY <1>3
  <2> HIDE DEF Zeros
  <2>3. QED BY <2>1, <2>2, NatLessThanWellFounded, WFMin, Zenon
<1>5. z \in 1 .. Len(d) /\ d[z] = 0 /\ z \in Nat
  BY <1>3
<1>6. ASSUME NEW k \in 1 .. z - 1 PROVE d[k] # 0
  <2>1. k \in Nat /\ k < z /\ k \in 1 .. Len(d)
    BY <1>3, <1>5
  <2>2. <<k, z>> \in OpToRel(<, Nat)
    BY <1>5, <2>1 DEF OpToRel
  <2>3. QED BY <1>4, <2>1, <2>2
<1>7. FirstZero(d, z) /\ z \in 1 .. length + 1
  BY <1>3, <1>5, <1>6 DEF FirstZero
<1>8. QED BY <1>2, <1>3, <1>7 DEF Shows, IsArray

(* A copy shows the same, though it has as many cells as the length says   *)
(* and what is read beyond the end of the array is anything.               *)
LEMMA CopiedShows ==
  ASSUME NEW c, NEW length, NEW t, Shows(c, length, t)
  PROVE  Shows(Copied(c, length), length, t)
<1>1. IsArray(c) /\ length \in Nat /\ Len(c) \in Nat /\ DOMAIN c = 1 .. Len(c)
  BY DEF Shows, IsArray
<1>2. PICK z \in 1 .. length + 1 : FirstZero(c, z)
  BY DEF Shows
<1>3. PICK front : front = [k \in 1 .. length |-> IF k \in DOMAIN c THEN c[k] ELSE Garbage]
  OBVIOUS
<1>4. PICK d : d = Copied(c, length)
  OBVIOUS
<1>5. front \in Seq({front[k] : k \in 1 .. length}) /\ Len(front) = length
  BY <1>1, <1>3
<1>6. d = front \o <<0>>
  BY <1>3, <1>4 DEF Copied
<1>7. /\ IsArray(d) /\ Len(d) = length + 1 /\ d[length + 1] = 0
      /\ \A k \in 1 .. length : d[k] = front[k]
  <2> DEFINE S == {front[k] : k \in 1 .. length}
  <2>1. front \in Seq(S \cup {0}) /\ <<0>> \in Seq(S \cup {0}) /\ Len(<<0>>) = 1 /\ <<0>>[1] = 0
    BY <1>5
  <2> HIDE DEF S
  <2>2. d \in Seq(S \cup {0}) /\ Len(d) = length + 1
    BY <1>1, <1>5, <1>6, <2>1
  <2>3. d[length + 1] = 0 /\ \A k \in 1 .. length : d[k] = front[k]
    BY <1>1, <1>5, <1>6, <2>1
  <2>4. QED BY <2>2, <2>3 DEF IsArray
<1>8. z \in 1 .. Len(c) /\ c[z] = 0 /\ \A k \in 1 .. z - 1 : c[k] # 0
  BY <1>2 DEF FirstZero
<1>9. ASSUME NEW k \in 1 .. z - 1 PROVE d[k] = c[k]
  <2>1. k \in 1 .. length /\ k \in DOMAIN c
    BY <1>1, <1>8
  <2>2. QED BY <1>3, <1>7, <2>1
<1>10. d[z] = 0
  <2>1. CASE z = length + 1
    BY <1>7, <2>1
  <2>2. CASE z # length + 1
    <3>1. z \in 1 .. length /\ z \in DOMAIN c
      BY <1>1, <1>8, <2>2
    <3>2. QED BY <1>3, <1>7, <1>8, <3>1
  <2>3. QED BY <2>1, <2>2
<1>11. FirstZero(d, z)
  BY <1>1, <1>7, <1>8, <1>9, <1>10 DEF FirstZero
<1>12. CString(d) = [k \in 1 .. z - 1 |-> d[k]] /\ CString(c) = [k \in 1 .. z - 1 |-> c[k]]
  BY <1>1, <1>2, <1>7, <1>11, ShowsBeforeZero
<1>13. CString(d) = CString(c)
  BY <1>9, <1>12
<1>14. QED BY <1>1, <1>4, <1>7, <1>11, <1>13 DEF Shows

(* What the two constructors put into a new array.                         *)
LEMMA BytesShow ==
  ASSUME NEW bytes \in ByteTexts
  PROVE  LET t == CString(UnicodeDecode(bytes, First(bytes)) \o <<0>>) IN
         /\ Len(bytes) \in Nat
         /\ CanEncodeToLatin1(bytes) => Shows(Latin1Encode(bytes) \o <<0>>, Len(bytes), t)
         /\ Shows(Utf16Encode(bytes) \o <<0>>, Len(bytes), t)
<1>1. /\ bytes \in Seq(Byte) /\ Len(bytes) \in Nat /\ \A i \in DOMAIN bytes : bytes[i] # 237
      /\ KeepsText(bytes)
  BY TextsAssumption, KeepsAll DEF TextsAssumption
<1>2. PICK c : c = Utf16Encode(bytes)
  OBVIOUS
<1>3. c = UnicodeDecode(bytes, First(bytes))
  BY <1>1, <1>2 DEF KeepsText, OlderDecodesUnicode
<1>4. c \in Seq(Char16) /\ Len(c) <= Len(bytes)
  BY <1>1, <1>2 DEF KeepsText, WritesFitCount
<1>5. Shows(c \o <<0>>, Len(bytes), CString(c \o <<0>>))
  BY <1>1, <1>4, TerminatedShows DEF IsArray
<1>6. CanEncodeToLatin1(bytes) => Latin1Encode(bytes) = c
  BY <1>1, <1>2 DEF KeepsText, Latin1KeepsText
<1>7. QED BY <1>1, <1>2, <1>3, <1>5, <1>6

LEMMA UnitsShow ==
  ASSUME NEW units \in WideTexts
  PROVE  Len(units) \in Nat /\ Shows(units \o <<0>>, Len(units), units)
<1>1. units \in Seq(Char16 \ {0})
  BY TextsAssumption DEF TextsAssumption
<1>2. PICK n \in Nat : n = Len(units)
  BY <1>1
<1>3. PICK d : d = units \o <<0>>
  OBVIOUS
<1>4. /\ IsArray(units) /\ d \in Seq(Char16 \cup {0}) /\ Len(d) = n + 1 /\ d[n + 1] = 0
      /\ \A k \in 1 .. n : d[k] = units[k] /\ units[k] # 0
  BY <1>1, <1>2, <1>3 DEF IsArray
<1>5. FirstZero(d, n + 1)
  BY <1>4 DEF FirstZero
<1>6. CString(d) = [k \in 1 .. n |-> d[k]]
  <2>1. IsArray(d) /\ n + 1 - 1 = n
    BY <1>4 DEF IsArray
  <2>2. CString(d) = [k \in 1 .. n + 1 - 1 |-> d[k]]
    BY <1>5, <2>1, ShowsBeforeZero
  <2>3. QED BY <2>1, <2>2
<1>7. units = [k \in 1 .. n |-> units[k]]
  BY <1>1, <1>2
<1>8. CString(d) = units
  BY <1>4, <1>6, <1>7
<1>9. QED BY <1>2, <1>3, <1>4, <1>8, TerminatedShows

(* The inductive invariant: what a string's array shows is what the string *)
(* was made from.                                                          *)
TextsShown ==
  \A p \in DOMAIN strings :
    strings[p].encoding # "UNKNOWN" =>
      Shows(cells[ArrayOf(strings[p])], strings[p].length, origin[p])

TextInv == StringsInv /\ StringsTypeOK /\ TextsShown

LEMMA ShownIsKept == TextInv => StringsKeepText
BY StringsInvSuffices DEF TextInv, TextsShown, Shows, StringsKeepText, TextKept

LEMMA TextInvInit == StringsInit => TextInv
BY StringsInvInit DEF StringsInit, TextInv, StringsTypeOK, TextsShown

LEMMA NewTextKept ==
  ASSUME TextInv, NEW p \in StringPlaces \ DOMAIN strings, NEW e \in {"LATIN1", "UTF16"},
         NEW contents, NEW n \in Nat, NEW t, NewString(p, e, contents, n),
         Shows(contents, n, t), origin' = With(origin, p, t)
  PROVE  TextInv'
<1>1. PICK b \in Arrays \ DOMAIN cells :
        /\ strings' = With(strings, p, EncodedIn(e, b, n))
        /\ cells' = With(cells, b, contents)
  BY DEF NewString
<1>2. /\ DOMAIN strings' = DOMAIN strings \cup {p} /\ strings'[p] = EncodedIn(e, b, n)
      /\ DOMAIN cells' = DOMAIN cells \cup {b} /\ cells'[b] = contents
      /\ DOMAIN origin' = DOMAIN origin \cup {p} /\ origin'[p] = t
      /\ \A a \in DOMAIN cells : cells'[a] = cells[a]
  BY <1>1 DEF With
<1>3. \A q \in DOMAIN strings : strings'[q] = strings[q] /\ origin'[q] = origin[q]
  BY <1>1 DEF With, TextInv, StringsTypeOK
<1>4. EncodedIn(e, b, n) \in EncodedString
  BY DEF EncodedIn, EncodedString
<1>5. ArrayOf(strings'[p]) = b /\ strings'[p].length = n
  BY <1>2 DEF ArrayOf, EncodedIn
<1>6. StringsInv'
  BY NewStringKeeps DEF TextInv
<1>7. StringsTypeOK'
  BY <1>2, <1>3, <1>4 DEF TextInv, StringsTypeOK
<1>8. TextsShown'
  <2> SUFFICES ASSUME NEW q \in DOMAIN strings', strings'[q].encoding # "UNKNOWN"
               PROVE  Shows(cells'[ArrayOf(strings'[q])], strings'[q].length, origin'[q])
    BY DEF TextsShown
  <2>1. CASE q = p
    BY <1>2, <1>5, <2>1
  <2>2. CASE q # p
    <3>1. q \in DOMAIN strings /\ strings'[q] = strings[q] /\ origin'[q] = origin[q]
      BY <1>2, <1>3, <2>2
    <3>2. ArrayOf(strings[q]) \in DOMAIN cells
      BY <3>1 DEF TextInv, StringsInv, LeadSomewhere
    <3>3. QED BY <1>2, <3>1, <3>2 DEF TextInv, TextsShown
  <2>3. QED BY <2>1, <2>2
<1>9. QED BY <1>6, <1>7, <1>8 DEF TextInv

LEMMA FromBytesShows ==
  ASSUME TextInv, NEW p \in StringPlaces, NEW bytes \in ByteTexts, FromBytes(p, bytes)
  PROVE  TextInv'
<1>1. PICK t : t = CString(UnicodeDecode(bytes, First(bytes)) \o <<0>>)
  OBVIOUS
<1>2. /\ Len(bytes) \in Nat /\ Shows(Utf16Encode(bytes) \o <<0>>, Len(bytes), t)
      /\ CanEncodeToLatin1(bytes) => Shows(Latin1Encode(bytes) \o <<0>>, Len(bytes), t)
  BY <1>1, BytesShow
<1>3. p \notin DOMAIN strings /\ origin' = With(origin, p, t)
  BY <1>1 DEF FromBytes
<1>4. CASE CanEncodeToLatin1(bytes)
  <2>1. NewString(p, "LATIN1", Latin1Encode(bytes) \o <<0>>, Len(bytes))
    BY <1>4 DEF FromBytes
  <2>2. QED BY <1>2, <1>3, <1>4, <2>1, NewTextKept
<1>5. CASE ~CanEncodeToLatin1(bytes)
  <2>1. NewString(p, "UTF16", Utf16Encode(bytes) \o <<0>>, Len(bytes))
    BY <1>5 DEF FromBytes
  <2>2. QED BY <1>2, <1>3, <2>1, NewTextKept
<1>6. QED BY <1>4, <1>5

LEMMA CopyShows ==
  ASSUME TextInv, NEW p \in StringPlaces, NEW q, CopyString(p, q)
  PROVE  TextInv'
<1>1. /\ p \notin DOMAIN strings /\ q \in DOMAIN strings
      /\ strings[q].encoding \in {"LATIN1", "UTF16"}
  BY ShapedPointers DEF CopyString, TextInv, StringsInv, AllShaped
<1>2. PICK c, n, t : c = cells[ArrayOf(strings[q])] /\ n = strings[q].length /\ t = origin[q]
  OBVIOUS
<1>3. Shows(c, n, t)
  BY <1>1, <1>2 DEF TextInv, TextsShown
<1>4. Shows(Copied(c, n), n, t) /\ n \in Nat
  BY <1>3, CopiedShows DEF Shows
<1>5. NewString(p, strings[q].encoding, Copied(c, n), n) /\ origin' = With(origin, p, t)
  BY <1>2 DEF CopyString
<1>6. QED BY <1>1, <1>4, <1>5, NewTextKept

LEMMA MoveShows ==
  ASSUME TextInv, NEW p \in StringPlaces, NEW q, MoveString(p, q)
  PROVE  TextInv'
<1>1. /\ p \notin DOMAIN strings /\ q \in DOMAIN strings
      /\ strings[q].encoding # "UNKNOWN" /\ cells' = cells
      /\ strings' = With([strings EXCEPT ![q] = MovedAway(@)], p, strings[q])
      /\ origin' = With(origin, p, origin[q])
      /\ DOMAIN origin = DOMAIN strings
  BY DEF MoveString, TextInv, StringsTypeOK
<1>2. /\ DOMAIN strings' = DOMAIN strings \cup {p} /\ DOMAIN origin' = DOMAIN strings'
      /\ strings'[p] = strings[q] /\ origin'[p] = origin[q]
      /\ strings'[q] = MovedAway(strings[q])
      /\ \A r \in DOMAIN strings : r # q => strings'[r] = strings[r]
      /\ \A r \in DOMAIN strings : origin'[r] = origin[r]
  BY <1>1 DEF With
<1>3. /\ MovedAway(strings[q]) \in EncodedString /\ strings[q] \in EncodedString
      /\ MovedAway(strings[q]).encoding = "UNKNOWN"
  <2>1. strings[q] \in EncodedString
    BY <1>1 DEF TextInv, StringsTypeOK
  <2>2. QED BY <2>1 DEF MovedAway, EncodedString
<1>4. StringsInv'
  BY MoveStringKeeps DEF TextInv
<1>5. StringsTypeOK'
  BY <1>1, <1>2, <1>3 DEF TextInv, StringsTypeOK
<1>6. TextsShown'
  BY <1>1, <1>2, <1>3 DEF TextInv, TextsShown
<1>7. QED BY <1>4, <1>5, <1>6 DEF TextInv

LEMMA DestroyShows ==
  ASSUME TextInv, NEW p, DestroyString(p)
  PROVE  TextInv'
<1>1. /\ p \in DOMAIN strings /\ DOMAIN strings' = DOMAIN strings \ {p}
      /\ DOMAIN origin' = DOMAIN strings \ {p}
      /\ \A q \in DOMAIN strings' : strings'[q] = strings[q] /\ origin'[q] = origin[q]
      /\ DOMAIN cells' \subseteq DOMAIN cells /\ \A a \in DOMAIN cells' : cells'[a] = cells[a]
  BY DEF DestroyString, Restrict, TextInv, StringsTypeOK
<1>2. StringsInv'
  BY DestroyStringKeeps DEF TextInv
<1>3. StringsTypeOK'
  BY <1>1 DEF TextInv, StringsTypeOK
<1>4. TextsShown'
  <2> SUFFICES ASSUME NEW q \in DOMAIN strings', strings'[q].encoding # "UNKNOWN"
               PROVE  Shows(cells'[ArrayOf(strings'[q])], strings'[q].length, origin'[q])
    BY DEF TextsShown
  <2>1. ArrayOf(strings'[q]) \in DOMAIN cells'
    BY <1>2 DEF StringsInv, LeadSomewhere
  <2>2. QED BY <1>1, <2>1 DEF TextInv, TextsShown
<1>5. QED BY <1>2, <1>3, <1>4 DEF TextInv

LEMMA TextInvStep == TextInv /\ [StringsNext]_stringVars => TextInv'
<1> SUFFICES ASSUME TextInv, [StringsNext]_stringVars PROVE TextInv'
  OBVIOUS
<1>1. CASE UNCHANGED stringVars
  <2>1. StringsInv'
    BY <1>1, StringsInvStep DEF TextInv
  <2>2. QED BY <1>1, <2>1 DEF stringVars, TextInv, StringsTypeOK, TextsShown
<1>2. ASSUME NEW p \in StringPlaces, NEW bytes \in ByteTexts, FromBytes(p, bytes)
      PROVE  TextInv'
  BY <1>2, FromBytesShows
<1>3. ASSUME NEW p \in StringPlaces, NEW units \in WideTexts, FromUnits(p, units)
      PROVE  TextInv'
  BY <1>3, UnitsShow, NewTextKept DEF FromUnits
<1>4. QED BY <1>1, <1>2, <1>3, CopyShows, MoveShows, DestroyShows DEF StringsNext

(* Every string shows the text it was made from, however it is copied and  *)
(* moved, and owns its array: that a copy takes the number of bytes for    *)
(* that of characters does no harm.                                        *)
THEOREM StringsKeepTextAlways == StringsSpec => []StringsKeepText
<1> QED BY TextInvInit, TextInvStep, ShownIsKept, PTL DEF StringsSpec
-----------------------------------------------------------------------------
(* Values: what is read, converted and compared, for any width of the      *)
(* integers, any doubles and any sequence of conversions.                  *)

(* Division with a remainder: there is one, and no other.                  *)
LEMMA ModOf ==
  ASSUME NEW n \in Int, NEW m \in Nat \ {0}
  PROVE  n % m \in 0 .. m - 1 /\ n \div m \in Int /\ n = m * (n \div m) + (n % m)
OBVIOUS

LEMMA ModIs ==
  ASSUME NEW m \in Nat \ {0}, NEW q \in Int, NEW r \in 0 .. m - 1
  PROVE  (m * q + r) % m = r
<1> DEFINE n == m * q + r
<1>1. n \in Int
  OBVIOUS
<1>2. n % m \in 0 .. m - 1 /\ n \div m \in Int /\ n = m * (n \div m) + (n % m)
  BY <1>1, ModOf
<1>3. m * (q - n \div m) = (n % m) - r
  BY <1>2
<1>4. PICK e \in Int : e = q - n \div m
  BY <1>2
<1>5. m * e = (n % m) - r /\ (n % m) - r < m /\ (n % m) - r > -m
  BY <1>2, <1>3, <1>4
<1>6. ~(e >= 1)
  <2>1. e >= 1 => m * e >= m
    OBVIOUS
  <2>2. QED BY <1>2, <1>5, <2>1
<1>7. ~(e <= -1)
  <2>1. e <= -1 => m * e <= -m
    OBVIOUS
  <2>2. QED BY <1>2, <1>5, <2>1
<1>8. e = 0
  BY <1>6, <1>7
<1>9. QED BY <1>2, <1>5, <1>8

LEMMA Sizes ==
  /\ Small \in Nat \ {0} /\ Half \in Nat \ {0} /\ Size \in Nat \ {0} /\ Half64 \in Nat \ {0}
  /\ Half = 8 * Small /\ Size = 2 * Half /\ Half64 >= Size
<1>1. /\ Small \in Nat \ {0} /\ Half \in Nat \ {0} /\ Size \in Nat \ {0}
      /\ Half = 8 * Small /\ Size = 2 * Half
  BY SmallAssumption DEF Half, Size
<1>2. Half64 = Size * Half
  BY DEF Half64
<1>3. Half64 \in Nat /\ Half64 >= Size
  BY <1>1, <1>2
<1>4. QED BY <1>1, <1>3

(* The unsigned with the same low bits, and the way back.                  *)
LEMMA ModSize ==
  /\ \A n \in Int : n % Size \in 0 .. Size - 1
  /\ \A n \in 0 .. Size - 1 : n % Size = n
  /\ \A n \in -Half .. Half - 1 : Signed(n % Size) = n
  /\ \A n \in 0 .. Size - 1 : Signed(n) \in -Half .. Half - 1 /\ Signed(n) % Size = n
<1>1. ASSUME NEW n \in Int PROVE n % Size \in 0 .. Size - 1
  BY Sizes, ModOf
<1>2. ASSUME NEW n \in 0 .. Size - 1 PROVE n % Size = n
  <2>1. Size * 0 + n = n /\ 0 \in Int
    BY Sizes
  <2>2. QED BY <2>1, Sizes, ModIs
<1>3. ASSUME NEW n \in -Half .. -1 PROVE n % Size = n + Size
  <2>1. n + Size \in 0 .. Size - 1 /\ Size * (-1) + (n + Size) = n /\ -1 \in Int
    BY Sizes
  <2>2. QED BY <2>1, Sizes, ModIs
<1>4. ASSUME NEW n \in -Half .. Half - 1 PROVE Signed(n % Size) = n
  <2>1. CASE n >= 0
    <3>1. n \in 0 .. Size - 1
      BY <2>1, Sizes
    <3>2. QED BY <1>2, <3>1, Sizes DEF Signed
  <2>2. CASE n < 0
    <3>1. n \in -Half .. -1
      BY <2>2, Sizes
    <3>2. QED BY <1>3, <3>1, Sizes DEF Signed
  <2>3. QED BY <2>1, <2>2, Sizes
<1>5. ASSUME NEW n \in 0 .. Size - 1
      PROVE  Signed(n) \in -Half .. Half - 1 /\ Signed(n) % Size = n
  <2>1. CASE n < Half
    BY <1>2, <2>1, Sizes DEF Signed
  <2>2. CASE n >= Half
    <3>1. Signed(n) = n - Size /\ n - Size \in -Half .. -1 /\ n - Size + Size = n
      BY <2>2, Sizes DEF Signed
    <3>2. QED BY <1>3, <3>1, Sizes
  <2>3. QED BY <2>1, <2>2, Sizes
<1>6. QED BY <1>1, <1>2, <1>4, <1>5

(* The whole part of a double, and of one that is an integer.              *)
LEMMA WholeOf ==
  ASSUME NEW d, IsDouble(d)
  PROVE  /\ d.halves \in Int /\ Whole(d) \in Int
         /\ IsWhole(d) => d.halves = 2 * Whole(d)
         /\ d.halves >= 0 => Whole(d) >= 0
         /\ Is0(d) => IsFinite(d) /\ Whole(d) = 0
<1>1. d.halves \in Int
  BY DEF IsDouble, NaN, NegZero, Infinities, Special
<1>2. Whole(d) \in Int /\ (d.halves >= 0 => Whole(d) >= 0)
  BY <1>1 DEF Whole
<1>3. IsWhole(d) => d.halves = 2 * Whole(d)
  BY <1>2 DEF IsWhole, Real
<1>4. Is0(d) => IsFinite(d) /\ Whole(d) = 0
  <2>1. ASSUME Is0(d) PROVE IsFinite(d) /\ d.halves = 0
    BY <2>1 DEF Is0, IsFinite, Real, NegZero, NaN, Infinities, Special
  <2>2. QED BY <2>1 DEF Whole
<1>5. QED BY <1>1, <1>2, <1>3, <1>4

LEMMA RealOf ==
  ASSUME NEW n \in Int
  PROVE  /\ IsDouble(Real(2 * n)) /\ IsWhole(Real(2 * n)) /\ Whole(Real(2 * n)) = n
         /\ IsFinite(Real(2 * n)) /\ Real(2 * n).halves = 2 * n
<1>1. Real(2 * n).halves = 2 * n /\ Real(2 * n).special = "none" /\ 2 * n \in Int
  BY DEF Real
<1>2. Whole(Real(2 * n)) = n
  BY <1>1 DEF Whole
<1>3. IsDouble(Real(2 * n))
  BY <1>1 DEF IsDouble
<1>4. Real(2 * n) # NegZero /\ IsFinite(Real(2 * n))
  BY <1>1 DEF NegZero, NaN, Infinities, Special, IsFinite
<1>5. QED BY <1>1, <1>2, <1>3, <1>4 DEF IsWhole

(* What the casts give.                                                    *)
LEMMA CastsFit ==
  ASSUME NEW d, IsDouble(d)
  PROVE  /\ CastInt32(d) \in -Half .. Half - 1 /\ CastInt64(d) \in Int
         /\ CastUint32(d) \in 0 .. Size - 1 /\ DoubleToUint32(d) \in 0 .. Size - 1
         /\ IsFinite(d) /\ InRange(Whole(d), Half) => CastInt32(d) = Whole(d)
         /\ IsFinite(d) /\ InRange(Whole(d), Half64) => CastInt64(d) = Whole(d)
         /\ IsFinite(d) /\ Whole(d) \in 0 .. Size - 1 => CastUint32(d) = Whole(d)
         /\ HasInt64(d) => DoubleToUint32(d) = EcmaToUint32(d)
<1>1. Whole(d) \in Int
  BY WholeOf
<1>2. CastInt32(d) \in -Half .. Half - 1
  BY <1>1, Sizes DEF CastInt32, CastInt, InRange
<1>3. CastInt64(d) \in Int
  BY <1>1, Sizes DEF CastInt64, CastInt
<1>4. CastUint32(d) \in 0 .. Size - 1
  BY <1>3, ModSize DEF CastUint32
<1>5. DoubleToUint32(d) \in 0 .. Size - 1
  BY <1>4, Sizes DEF DoubleToUint32
<1>6. /\ IsFinite(d) /\ InRange(Whole(d), Half) => CastInt32(d) = Whole(d)
      /\ IsFinite(d) /\ InRange(Whole(d), Half64) => CastInt64(d) = Whole(d)
  BY DEF CastInt32, CastInt64, CastInt
<1>7. ASSUME IsFinite(d), Whole(d) \in 0 .. Size - 1 PROVE CastUint32(d) = Whole(d)
  <2>1. InRange(Whole(d), Half64)
    BY <1>7, Sizes DEF InRange
  <2>2. QED BY <1>6, <1>7, <2>1, ModSize DEF CastUint32
<1>8. ASSUME HasInt64(d) PROVE DoubleToUint32(d) = EcmaToUint32(d)
  <2>1. CASE ~IsFinite(d)
    BY <2>1 DEF DoubleToUint32, EcmaToUint32
  <2>2. CASE Is0(d)
    <3>1. IsFinite(d) /\ Whole(d) = 0 /\ 0 % Size = 0
      BY <2>2, WholeOf, ModSize, Sizes
    <3>2. QED BY <2>2, <3>1 DEF DoubleToUint32, EcmaToUint32
  <2>3. CASE IsFinite(d) /\ ~Is0(d)
    BY <1>6, <1>8, <2>3 DEF HasInt64, DoubleToUint32, EcmaToUint32, CastUint32
  <2>4. QED BY <2>1, <2>2, <2>3
<1>9. QED BY <1>2, <1>3, <1>4, <1>5, <1>6, <1>7, <1>8

(* What V8Number's tag says of the number.                                 *)
LEMMA Classified ==
  ASSUME NEW d, IsDouble(d)
  PROVE  /\ IsUint32(NewNumber(d)) <=> IsWhole(d) /\ Whole(d) \in 0 .. Size - 1
         /\ IsInt32(NewNumber(d)) <=> /\ IsWhole(d) /\ InRange(Whole(d), Half)
                                      /\ Whole(d) \notin Small .. Half - 1
         /\ NewNumber(d).tag = "NUMBER" <=> ~(IsUint32(NewNumber(d)) \/ IsInt32(NewNumber(d)))
<1> DEFINE v == NewNumber(d)
<1>1. v.tag = ClassifyNumber(d)
  BY DEF NewNumber
<1>2. v.tag = "NUMBER" <=> ~(IsUint32(v) \/ IsInt32(v))
  BY <1>1 DEF ClassifyNumber, IsUint32, IsInt32
<1>3. CASE ~IsFinite(d) \/ d = NegZero
  <2>1. v.tag = "NUMBER" /\ ~IsWhole(d)
    BY <1>1, <1>3 DEF ClassifyNumber, IsWhole
  <2>2. QED BY <1>2, <2>1
<1>4. CASE IsFinite(d) /\ d # NegZero
  <2>1. Whole(d) \in Int /\ d.halves \in Int
    BY WholeOf
  <2>2. \A n \in Int : Real(2 * n) = d <=> IsWhole(d) /\ Whole(d) = n
    BY <1>4, RealOf DEF IsWhole
  <2>3. Real(2 * CastUint32(d)) = d <=> IsWhole(d) /\ Whole(d) \in 0 .. Size - 1
    <3>1. CastUint32(d) \in 0 .. Size - 1 /\ CastUint32(d) \in Int
      BY CastsFit, Sizes
    <3>2. QED BY <1>4, <2>2, <3>1, CastsFit
  <2>4. Real(2 * CastInt32(d)) = d <=> IsWhole(d) /\ InRange(Whole(d), Half)
    <3>1. CastInt32(d) \in -Half .. Half - 1 /\ CastInt32(d) \in Int
      BY CastsFit, Sizes
    <3>2. InRange(CastInt32(d), Half)
      BY <3>1, Sizes DEF InRange
    <3>3. QED BY <1>4, <2>2, <3>1, <3>2, CastsFit
  <2>5. CASE Real(2 * CastUint32(d)) = d
    <3>1. IsWhole(d) /\ Whole(d) \in 0 .. Size - 1 /\ d.halves = 2 * Whole(d)
      BY <2>3, <2>5, WholeOf
    <3>2. IsUint32(v) /\ (IsInt32(v) <=> Whole(d) < Small)
      BY <1>1, <1>4, <2>1, <2>5, <3>1, Sizes
         DEF ClassifyNumber, IsUint32, IsInt32, IsSmall
    <3>3. Whole(d) < Small <=> InRange(Whole(d), Half) /\ Whole(d) \notin Small .. Half - 1
      BY <2>1, <3>1, Sizes DEF InRange
    <3>4. QED BY <1>2, <3>1, <3>2, <3>3
  <2>6. CASE Real(2 * CastUint32(d)) # d
    <3>1. ~IsUint32(v) /\ (IsInt32(v) <=> Real(2 * CastInt32(d)) = d)
      BY <1>1, <1>4, <2>6 DEF ClassifyNumber, IsUint32, IsInt32
    <3>2. ~(IsWhole(d) /\ Whole(d) \in 0 .. Size - 1)
      BY <2>3, <2>6
    <3>3. IsWhole(d) /\ InRange(Whole(d), Half) => Whole(d) \notin Small .. Half - 1
      BY <2>1, <3>2, Sizes DEF InRange
    <3>4. QED BY <1>2, <2>4, <3>1, <3>2, <3>3
  <2>7. QED BY <2>5, <2>6
<1>5. QED BY <1>3, <1>4

(* The values there can be: a number is tagged as the constructor does it. *)
Possible(v) ==
  \/ v \in {NoValue, Undefined, Null, NewBoolean(TRUE), NewBoolean(FALSE)}
  \/ \E d : IsDouble(d) /\ v = NewNumber(d)

AllPossible == DOMAIN slotValue = Slots /\ \A s \in Slots : Possible(slotValue[s])

(* A number, or another value, which has no tag.                           *)
LEMMA NumberOrNot ==
  ASSUME NEW v, Possible(v)
  PROVE  /\ IsDouble(v.double)
         /\ IsNumber(v) => v = NewNumber(v.double)
         /\ ~IsNumber(v) => /\ v.tag = "none" /\ v.double \in {NaN, Real(0), Real(2)}
                            /\ v.double = NaN <=> v.type \in {"undefined", "empty"}
         /\ v # NoValue => v.type # "empty"
<1>1. CASE v \in {NoValue, Undefined, Null, NewBoolean(TRUE), NewBoolean(FALSE)}
  <2>1. v.double \in {NaN, Real(0), Real(2)} /\ v.tag = "none" /\ ~IsNumber(v)
    BY <1>1 DEF NoValue, Undefined, Null, NewBoolean, IsNumber
  <2>2. v.double = NaN <=> v.type \in {"undefined", "empty"}
    BY <1>1 DEF NoValue, Undefined, Null, NewBoolean, NaN, Real, Special
  <2>3. v # NoValue => v.type # "empty"
    BY <1>1 DEF NoValue, Undefined, Null, NewBoolean
  <2>4. IsDouble(v.double)
    BY <2>1 DEF IsDouble, Real
  <2>5. QED BY <2>1, <2>2, <2>3, <2>4
<1>2. CASE \E d : IsDouble(d) /\ v = NewNumber(d)
  <2>1. PICK d : IsDouble(d) /\ v = NewNumber(d)
    BY <1>2
  <2>2. v.double = d /\ v.type = "number"
    BY <2>1 DEF NewNumber
  <2>3. QED BY <2>1, <2>2 DEF IsNumber
<1>3. QED BY <1>1, <1>2 DEF Possible

(* An integer is read back as it was made, if it is an int64_t.            *)
LEMMA IntegersRead ==
  ASSUME NEW n \in Int
  PROVE  /\ Possible(NewInteger(n)) /\ NewInteger(n) # NoValue
         /\ NewInteger(n).double = Real(2 * n) /\ IsDouble(Real(2 * n))
         /\ n \in -Half .. Size - 1 => CastInt64(NewInteger(n).double) = n
         /\ n \in 0 .. Size - 1 => IsUint32(NewInteger(n))
<1>1. NewInteger(n) = NewNumber(Real(2 * n)) /\ NewInteger(n).double = Real(2 * n)
  BY DEF NewInteger, NewNumber
<1>2. IsDouble(Real(2 * n)) /\ IsWhole(Real(2 * n)) /\ Whole(Real(2 * n)) = n
      /\ IsFinite(Real(2 * n))
  BY RealOf
<1>3. Possible(NewInteger(n))
  BY <1>1, <1>2 DEF Possible
<1>4. NewInteger(n) # NoValue
  BY DEF NewInteger, NewNumber, NoValue
<1>5. ASSUME n \in -Half .. Size - 1 PROVE CastInt64(NewInteger(n).double) = n
  <2>1. InRange(n, Half64)
    BY <1>5, Sizes DEF InRange
  <2>2. QED BY <1>1, <1>2, <2>1, CastsFit
<1>6. n \in 0 .. Size - 1 => IsUint32(NewInteger(n))
  BY <1>1, <1>2, Classified
<1>7. QED BY <1>1, <1>2, <1>3, <1>4, <1>5, <1>6

(* What an accessor gives is of its type.                                  *)
LEMMA ValuesRead ==
  ASSUME NEW v, Possible(v)
  PROVE  /\ Int32Value(v) \in -Half .. Half - 1 /\ Int32Value(v) = DoubleToInt32(v.double)
         /\ Uint32Value(v) = DoubleToUint32(v.double) /\ Uint32Value(v) \in 0 .. Size - 1
         /\ IntegerValue(v) \in Int
<1>1. IsDouble(v.double)
  BY NumberOrNot
<1>2. PICK u \in 0 .. Size - 1 : u = DoubleToUint32(v.double)
  BY <1>1, CastsFit
<1>3. Int32Value(v) = Signed(u) /\ Int32Value(v) = DoubleToInt32(v.double)
  BY <1>2 DEF Int32Value, DoubleToInt32
<1>4. Signed(u) \in -Half .. Half - 1 /\ Signed(u) % Size = u
  BY ModSize
<1>5. Uint32Value(v) = u
  BY <1>2, <1>4 DEF Uint32Value, DoubleToInt32
<1>6. IntegerValue(v) \in Int
  BY <1>1, CastsFit DEF IntegerValue
<1>7. QED BY <1>2, <1>3, <1>4, <1>5, <1>6

(* Whatever is converted, a possible value results.                        *)
LEMMA ConversionsPossible ==
  ASSUME NEW v, Possible(v)
  PROVE  \A w \in Conversions(v) : Possible(w)
<1>1. /\ IsDouble(v.double) /\ Int32Value(v) \in Int /\ Uint32Value(v) \in Int
      /\ IntegerValue(v) \in Int /\ DoubleToInt32(v.double) \in Int
      /\ DoubleToUint32(v.double) \in Int
  BY NumberOrNot, ValuesRead, Sizes
<1>2. CastUint32(v.double) \in Int /\ CastInt32(v.double) \in Int
  BY <1>1, CastsFit, Sizes
<1>3. Possible(ToNumber(v))
  BY <1>1 DEF ToNumber, NumberValue, Possible
<1>4. Possible(ToInteger(v))
  BY <1>1, <1>2, IntegersRead DEF ToInteger
<1>5. Possible(ToInt32(v))
  BY <1>1, IntegersRead DEF ToInt32
<1>6. Possible(ToUint32(v))
  BY <1>1, IntegersRead DEF ToUint32
<1>7. Possible(ToArrayIndex(v))
  <2>1. Possible(NewInteger(0))
    BY IntegersRead
  <2>2. Possible(NoValue)
    BY DEF Possible
  <2>3. QED BY <1>6, <2>1, <2>2 DEF ToArrayIndex
<1>8. Possible(ToBoolean(v))
  <2>1. BooleanValue(v) \in BOOLEAN
    BY DEF BooleanValue
  <2>2. QED BY <2>1 DEF ToBoolean, Possible
<1>9. QED BY <1>3, <1>4, <1>5, <1>6, <1>7, <1>8 DEF Conversions

LEMMA AllPossibleInit == ValuesInit => AllPossible
BY DEF ValuesInit, AllPossible, Possible

LEMMA AllPossibleStep == AllPossible /\ [ValuesNext]_slotValue => AllPossible'
<1> SUFFICES ASSUME AllPossible, [ValuesNext]_slotValue PROVE AllPossible'
  OBVIOUS
<1>1. ASSUME NEW s \in Slots, NEW v, Possible(v), slotValue' = [slotValue EXCEPT ![s] = v]
      PROVE  AllPossible'
  BY <1>1 DEF AllPossible
<1>2. ASSUME NEW s \in Slots, NewValue(s) PROVE AllPossible'
  <2>1. \A v \in Made : Possible(v)
    BY DoublesAssumption DEF Made, Possible
  <2>2. QED BY <1>1, <1>2, <2>1 DEF NewValue
<1>3. ASSUME NEW s \in Slots, NEW from \in Slots, Convert(s, from) PROVE AllPossible'
  <2>1. Possible(slotValue[from])
    BY DEF AllPossible
  <2>2. PICK v \in Conversions(slotValue[from]) : slotValue' = [slotValue EXCEPT ![s] = v]
    BY <1>3 DEF Convert
  <2>3. QED BY <1>1, <2>1, <2>2, ConversionsPossible
<1>4. CASE UNCHANGED slotValue
  BY <1>4 DEF AllPossible
<1>5. QED BY <1>2, <1>3, <1>4 DEF ValuesNext

LEMMA AllPossibleAlways == ValuesSpec => []AllPossible
<1>1. QED BY AllPossibleInit, AllPossibleStep, PTL DEF ValuesSpec

(* What is read from a number that a conversion returns as it is.          *)
LEMMA UnscathedRead ==
  ASSUME NEW v, Possible(v), Unscathed(v)
  PROVE  /\ v = NewNumber(v.double) /\ IsFinite(v.double) /\ IsWhole(v.double)
         /\ Whole(v.double) \in -Half .. Size - 1 /\ Whole(v.double) < Small
         /\ CastInt64(v.double) = Whole(v.double)
         /\ DoubleToUint32(v.double) = Whole(v.double) % Size
         /\ DoubleToInt32(v.double) = Whole(v.double)
<1> DEFINE d == v.double
<1>1. IsDouble(d) /\ v = NewNumber(d)
  <2>1. v.tag # "none"
    BY DEF Unscathed, IsInt32, IsUint32
  <2>2. QED BY <2>1, NumberOrNot
<1>2. PICK w \in Int : w = Whole(d)
  BY <1>1, WholeOf
<1>3. IsWhole(d) /\ (w \in 0 .. Size - 1 \/ InRange(w, Half)) /\ d.halves < 2 * Small
  BY <1>1, <1>2, Classified DEF Unscathed, IsSmall
<1>4. IsFinite(d) /\ d.halves = 2 * w
  BY <1>1, <1>2, <1>3, WholeOf DEF IsWhole
<1>5. w < Small /\ w \in -Half .. Size - 1 /\ w \in -Half .. Half - 1
  BY <1>3, <1>4, Sizes DEF InRange
<1>6. InRange(w, Half64)
  BY <1>5, Sizes DEF InRange
<1>7. CastInt64(d) = w /\ DoubleToUint32(d) = w % Size
  BY <1>1, <1>2, <1>4, <1>6, CastsFit DEF HasInt64, EcmaToUint32
<1>8. DoubleToInt32(d) = w
  BY <1>5, <1>7, ModSize DEF DoubleToInt32
<1>9. QED BY <1>1, <1>2, <1>3, <1>4, <1>5, <1>7, <1>8

LEMMA ReadsBack ==
  ASSUME NEW v, Possible(v), v # NoValue
  PROVE  /\ CastInt64(ToInt32(v).double) = Int32Value(v)
         /\ HasInt64(v.double) => CastInt64(ToUint32(v).double) % Size = EcmaToUint32(v.double)
         /\ \/ CastInt64(ToInteger(v).double) = IntegerValue(v)
            \/ IsFinite(v.double) /\ ~InRange(Whole(v.double), Half) /\ ~IsUint32(v)
<1> DEFINE d == v.double
<1>1. /\ IsDouble(d) /\ Whole(d) \in Int
      /\ IsNumber(v) => v = NewNumber(d)
      /\ ~IsNumber(v) => /\ v.tag = "none" /\ d \in {NaN, Real(0), Real(2)}
                         /\ d = NaN <=> v.type \in {"undefined", "empty"}
  BY NumberOrNot, WholeOf
<1>2. /\ Int32Value(v) \in -Half .. Size - 1 /\ Int32Value(v) = DoubleToInt32(d)
      /\ Uint32Value(v) \in 0 .. Size - 1 /\ Uint32Value(v) = DoubleToUint32(d)
  BY ValuesRead, Sizes
<1>3. \A n \in -Half .. Size - 1 : CastInt64(NewInteger(n).double) = n
  BY IntegersRead, Sizes
<1>4. CastInt64(ToInt32(v).double) = Int32Value(v)
  <2>1. CASE Unscathed(v)
    BY <1>2, <2>1, UnscathedRead DEF ToInt32
  <2>2. CASE ~Unscathed(v)
    <3>1. ToInt32(v) = NewInteger(Int32Value(v))
      BY <1>2, <2>2 DEF ToInt32
    <3>2. QED BY <1>2, <1>3, <3>1
  <2>3. QED BY <2>1, <2>2
<1>5. ASSUME HasInt64(d) PROVE CastInt64(ToUint32(v).double) % Size = EcmaToUint32(d)
  <2>1. DoubleToUint32(d) = EcmaToUint32(d)
    BY <1>1, <1>5, CastsFit
  <2>2. CASE Unscathed(v)
    BY <2>1, <2>2, UnscathedRead DEF ToUint32
  <2>3. CASE ~Unscathed(v)
    <3>1. ToUint32(v) = NewInteger(DoubleToUint32(d))
      BY <1>2, <2>3 DEF ToUint32
    <3>2. CastInt64(ToUint32(v).double) = DoubleToUint32(d)
      BY <1>2, <1>3, <3>1, Sizes
    <3>3. DoubleToUint32(d) % Size = DoubleToUint32(d)
      BY <1>2, ModSize
    <3>4. QED BY <2>1, <3>2, <3>3
  <2>4. QED BY <2>2, <2>3
<1>6. ASSUME ~(IsFinite(d) /\ ~InRange(Whole(d), Half) /\ ~IsUint32(v))
      PROVE  CastInt64(ToInteger(v).double) = IntegerValue(v)
  <2>1. CASE ~IsNumber(v)
    <3>1. ToInteger(v) = NewInteger(IntegerValue(v))
      BY <2>1 DEF ToInteger
    <3>2. CASE d = NaN
      <4>1. v.type = "undefined"
        BY <1>1, <2>1, <3>2, NumberOrNot
      <4>2. QED BY <1>3, <3>1, <4>1, Sizes DEF IntegerValue
    <3>3. CASE d \in {Real(2 * 0), Real(2 * 1)}
      <4>1. PICK n \in {0, 1} : d = Real(2 * n)
        BY <3>3
      <4>2. IsFinite(d) /\ Whole(d) \in {0, 1}
        BY <4>1, RealOf
      <4>3. InRange(Whole(d), Half64)
        BY <4>2, Sizes DEF InRange
      <4>4. IntegerValue(v) \in {0, 1}
        BY <1>1, <4>2, <4>3, CastsFit DEF IntegerValue
      <4>5. QED BY <1>3, <3>1, <4>4, Sizes
    <3>4. QED BY <1>1, <2>1, <3>2, <3>3
  <2>2. CASE IsNumber(v) /\ (Unscathed(v) \/ ~IsFinite(d))
    <3>1. ToInteger(v) = v /\ IntegerValue(v) = CastInt64(d)
      BY <2>2 DEF ToInteger, IntegerValue, IsNumber
    <3>2. QED BY <3>1
  <2>3. CASE IsNumber(v) /\ ~Unscathed(v) /\ IsFinite(d)
    <3>1. IsUint32(v) => Whole(d) \in 0 .. Size - 1
      BY <1>1, <2>3, Classified
    <3>2. Whole(d) \in 0 .. Size - 1 \/ InRange(Whole(d), Half)
      BY <1>6, <2>3, <3>1
    <3>3. Whole(d) \in -Half .. Size - 1 /\ InRange(Whole(d), Half64)
      BY <1>1, <3>2, Sizes DEF InRange
    <3>4. ToInteger(v) = NewInteger(Whole(d))
      BY <1>1, <1>6, <2>3, <3>1, CastsFit DEF ToInteger
    <3>5. IntegerValue(v) = Whole(d)
      BY <1>1, <2>3, <3>3, CastsFit DEF IntegerValue, IsNumber
    <3>6. QED BY <1>3, <3>3, <3>4, <3>5
  <2>4. QED BY <2>1, <2>2, <2>3
<1>7. QED BY <1>4, <1>5, <1>6

LEMMA IndexKept ==
  ASSUME NEW v, Possible(v), v # NoValue, ToArrayIndex(v) # NoValue
  PROVE  IsUint32(ToArrayIndex(v)) /\ NumbersEqual(ToArrayIndex(v), v)
<1> DEFINE d == v.double
<1>1. IsDouble(d) /\ Whole(d) \in Int /\ d.halves \in Int
  BY NumberOrNot, WholeOf
<1>2. \A n \in 0 .. Size - 1 : IsUint32(NewInteger(n)) /\ NewInteger(n).double = Real(2 * n)
  BY IntegersRead, Sizes
<1>3. CASE d = NegZero
  <2>1. ToArrayIndex(v) = NewInteger(0) /\ 0 \in 0 .. Size - 1
    BY <1>3, Sizes DEF ToArrayIndex
  <2>2. IsUint32(ToArrayIndex(v)) /\ ToArrayIndex(v).double = Real(0)
    BY <1>2, <2>1
  <2>3. NumbersEqual(ToArrayIndex(v), v)
    BY <1>3, <2>2 DEF NumbersEqual, NumberValue, SameNumber, Is0, NaN, NegZero, Real, Special
  <2>4. QED BY <2>2, <2>3
<1>4. CASE d # NegZero
  <2>1. /\ v.type \notin {"undefined", "null"} /\ v.tag # "NUMBER" /\ d.halves >= 0
        /\ ToArrayIndex(v) = ToUint32(v)
    BY <1>1, <1>4 DEF ToArrayIndex
  <2>2. /\ Whole(d) \in 0 .. Size - 1 /\ d = Real(2 * Whole(d))
        /\ IsNumber(v) => IsUint32(v)
    <3>1. CASE IsNumber(v)
      <4>1. v = NewNumber(d) /\ (IsUint32(v) \/ IsInt32(v)) /\ Whole(d) >= 0
        BY <2>1, <3>1, NumberOrNot, Classified, WholeOf
      <4>2. IsWhole(d) /\ Whole(d) \in 0 .. Size - 1
        BY <1>1, <4>1, Classified, Sizes DEF InRange
      <4>3. QED BY <1>1, <4>1, <4>2, Classified DEF IsWhole
    <3>2. CASE ~IsNumber(v)
      <4>1. d \in {Real(2 * 0), Real(2 * 1)}
        BY <2>1, <3>2, NumberOrNot
      <4>2. \A n \in {0, 1} : Whole(Real(2 * n)) = n
        BY RealOf
      <4>3. \E n \in {0, 1} : d = Real(2 * n)
        BY <4>1
      <4>4. QED BY <3>2, <4>2, <4>3, Sizes
    <3>3. QED BY <3>1, <3>2
  <2> DEFINE n == Whole(d)
  <2>3. IsFinite(d) /\ d # NaN /\ InRange(n, Half64)
    BY <1>1, <2>2, RealOf, Sizes DEF IsFinite, InRange
  <2>4. CASE Unscathed(v)
    <3>1. ToArrayIndex(v) = v /\ IsNumber(v)
      BY <2>1, <2>4, NumberOrNot DEF ToUint32, Unscathed, IsUint32, IsInt32
    <3>2. QED BY <2>2, <2>3, <3>1 DEF NumbersEqual, NumberValue, SameNumber
  <2>5. CASE ~Unscathed(v)
    <3>1. ToArrayIndex(v) = NewInteger(DoubleToUint32(d))
      BY <2>1, <2>5, ValuesRead DEF ToUint32
    <3>2. DoubleToUint32(d) = n
      BY <1>1, <2>2, <2>3, CastsFit, ModSize DEF HasInt64, EcmaToUint32
    <3>3. QED BY <1>2, <2>2, <2>3, <3>1, <3>2 DEF NumbersEqual, NumberValue, SameNumber
  <2>6. QED BY <2>4, <2>5
<1>5. QED BY <1>3, <1>4

LEMMA PossibleRight == AllPossible => ConversionsRight
<1> SUFFICES ASSUME AllPossible PROVE ConversionsRight
  OBVIOUS
<1>1. \A v \in Referred : Possible(v) /\ v # NoValue
  BY DEF AllPossible, Referred
<1>2. ClassificationRight
  <2> SUFFICES ASSUME NEW v \in Referred, IsNumber(v)
               PROVE  /\ IsUint32(v) <=> FitsUint32(v.double)
                      /\ IsInt32(v) => FitsInt32(v.double)
                      /\ FitsInt32(v.double) /\ Whole(v.double) < Small => IsInt32(v)
    BY DEF ClassificationRight
  <2>1. v = NewNumber(v.double) /\ IsDouble(v.double)
    BY <1>1, NumberOrNot
  <2>2. /\ IsUint32(v) <=> IsWhole(v.double) /\ Whole(v.double) \in 0 .. Size - 1
        /\ IsInt32(v) <=> /\ IsWhole(v.double) /\ InRange(Whole(v.double), Half)
                          /\ Whole(v.double) \notin Small .. Half - 1
    BY <2>1, Classified
  <2>3. Whole(v.double) < Small => Whole(v.double) \notin Small .. Half - 1
    BY <2>1, WholeOf, Sizes
  <2>4. QED BY <2>2, <2>3 DEF FitsUint32, FitsInt32
<1>3. ValuesFollowECMA
  <2> SUFFICES ASSUME NEW v \in Referred, HasInt64(v.double)
               PROVE  /\ Uint32Value(v) = EcmaToUint32(v.double)
                      /\ Int32Value(v)  = Signed(EcmaToUint32(v.double))
    BY DEF ValuesFollowECMA
  <2>1. IsDouble(v.double) /\ Possible(v)
    BY <1>1, NumberOrNot
  <2>2. DoubleToUint32(v.double) = EcmaToUint32(v.double)
    BY <2>1, CastsFit
  <2>3. QED BY <2>1, <2>2, ValuesRead DEF DoubleToInt32
<1>4. ConversionsReadBack
  BY <1>1, ReadsBack DEF ConversionsReadBack
<1>5. IndexIsTheNumber
  BY <1>1, IndexKept DEF IndexIsTheNumber
<1>6. QED BY <1>2, <1>3, <1>4, <1>5 DEF ConversionsRight

(* For integers of any width, any doubles and any sequence of conversions: *)
(* the tags, the accessors and the conversions agree with each other and   *)
(* with ECMA-262, which is ConversionsRight.                               *)
THEOREM ConversionsRightAlways == ValuesSpec => []ConversionsRight
<1>1. QED BY AllPossibleAlways, PossibleRight, PTL
-----------------------------------------------------------------------------
Kinds == {"number", "boolean", "undefined", "null", "empty"}

(* What the comparisons rely on: a value has one of the types, undefined   *)
(* has no number, and there is one empty value.                            *)
Fits(v) ==
  /\ v.type \in Kinds
  /\ v.type = "undefined" => v.double = NaN
  /\ v.type = "empty" => v = NoValue

AllFit ==
  /\ DOMAIN slotValue = Slots
  /\ \A s \in Slots : Fits(slotValue[s])

LEMMA PossibleFits == AllPossible => AllFit
<1> SUFFICES ASSUME AllPossible PROVE AllFit
  OBVIOUS
<1>1. ASSUME NEW v, Possible(v) PROVE Fits(v)
  BY <1>1 DEF Possible, NewNumber, NewBoolean, Undefined, Null, NoValue, Fits, Kinds
<1>2. QED BY <1>1 DEF AllPossible, AllFit
-----------------------------------------------------------------------------
(* The comparison of numbers is symmetric, and nothing is equal to NaN. *)
LEMMA NumbersSymmetric ==
  ASSUME NEW v, NEW w
  PROVE  /\ NumbersEqual(v, w) <=> NumbersEqual(w, v)
         /\ NumbersEqual(v, w) => v.double # NaN /\ w.double # NaN
BY DEF NumbersEqual, SameNumber, NumberValue

(* Equals as it is for two values that are there: it depends on neither's  *)
(* being the receiver.                                                     *)
LEMMA EqualsOfTwo ==
  ASSUME NEW v, NEW w, Fits(v), Fits(w), v # NoValue, w # NoValue
  PROVE  /\ Equals(v, w) \in BOOLEAN
         /\ Equals(v, w) <=> \/ /\ {v.type, w.type} \subseteq {"number", "boolean"}
                              /\ NumbersEqual(v, w)
                           \/ {v.type, w.type} \subseteq {"undefined", "null"}
<1>1. CASE v.type \in {"number", "boolean"}
  <2>1. Equals(v, w) = ((IsNumber(w) \/ IsBoolean(w)) /\ NumbersEqual(v, w))
    BY <1>1 DEF Equals, IsNumber, IsBoolean
  <2>2. ~({v.type, w.type} \subseteq {"undefined", "null"})
    BY <1>1
  <2>3. {v.type, w.type} \subseteq {"number", "boolean"} <=> IsNumber(w) \/ IsBoolean(w)
    BY <1>1 DEF IsNumber, IsBoolean
  <2>4. Equals(v, w) \in BOOLEAN
    BY <2>1
  <2>5. Equals(v, w) <=> (IsNumber(w) \/ IsBoolean(w)) /\ NumbersEqual(v, w)
    BY <2>1
  <2> QED BY <2>2, <2>3, <2>4, <2>5
<1>2. CASE v.type \in {"undefined", "null"}
  <2>1. ~(IsNumber(v) \/ IsBoolean(v))
    BY <1>2 DEF IsNumber, IsBoolean
  <2>2. Equals(v, w) = (w.type \in {"undefined", "null"})
    BY <1>2, <2>1 DEF Equals
  <2>3. ~({v.type, w.type} \subseteq {"number", "boolean"})
    BY <1>2
  <2>4. {v.type, w.type} \subseteq {"undefined", "null"} <=> w.type \in {"undefined", "null"}
    BY <1>2
  <2>5. Equals(v, w) \in BOOLEAN
    BY <2>2
  <2>6. Equals(v, w) <=> w.type \in {"undefined", "null"}
    BY <2>2
  <2> QED BY <2>3, <2>4, <2>5, <2>6
<1> QED BY <1>1, <1>2 DEF Fits, Kinds

LEMMA ComparisonsFollow == AllFit => ComparisonsAgree
<1> SUFFICES ASSUME AllFit PROVE EqualsSymmetric /\ StrictImpliesEqual
  BY DEF ComparisonsAgree
<1>1. ASSUME NEW v \in Referred, NEW w \in Referred
      PROVE  /\ Equals(v, w) = Equals(w, v)
             /\ NumbersEqual(v, w) => Equals(v, w) \/ "null" \in {v.type, w.type}
  <2>1. Fits(v) /\ Fits(w) /\ v # NoValue /\ w # NoValue
    BY <1>1 DEF Referred, AllFit
  <2>2. Equals(v, w) = Equals(w, v)
    BY <2>1, EqualsOfTwo, NumbersSymmetric
  <2>3. ASSUME NumbersEqual(v, w), "null" \notin {v.type, w.type}
        PROVE  Equals(v, w)
    <3>1. {v.type, w.type} \subseteq {"number", "boolean"}
      BY <2>1, <2>3, NumbersSymmetric DEF Fits, Kinds
    <3> QED BY <2>1, <2>3, <3>1, EqualsOfTwo
  <2> QED BY <2>2, <2>3
<1>2. ASSUME NEW s \in Slots, NEW t \in Slots,
             NoValue \notin {slotValue[s], slotValue[t]}, StrictEquals(s, t)
      PROVE  Equals(slotValue[s], slotValue[t])
  <2> DEFINE v == slotValue[s]
             w == slotValue[t]
  <2>1. Fits(v) /\ Fits(w) /\ v # NoValue /\ w # NoValue
    BY <1>2 DEF AllFit
  <2>2. CASE v.type = w.type /\ (IsNumber(v) \/ IsBoolean(v))
    <3>1. NumbersEqual(v, w)
      BY <1>2, <2>2 DEF StrictEquals
    <3> QED BY <2>1, <2>2, <3>1, EqualsOfTwo DEF IsNumber, IsBoolean
  <2>3. CASE ~(v.type = w.type /\ (IsNumber(v) \/ IsBoolean(v)))
    <3>1. s = t
      BY <1>2, <2>3 DEF StrictEquals
    <3>2. v.type \in {"undefined", "null"} /\ w = v
      BY <2>1, <2>3, <3>1 DEF IsNumber, IsBoolean, Fits, Kinds
    <3> QED BY <2>1, <3>2, EqualsOfTwo
  <2> QED BY <2>2, <2>3
<1> QED BY <1>1, <1>2 DEF EqualsSymmetric, StrictImpliesEqual

(* Equals is symmetric and follows the numbers, StrictEquals is no wider,  *)
(* for whatever values a client makes and converts: ComparisonsAgree.      *)
THEOREM ComparisonsAgreeAlways == ValuesSpec => []ComparisonsAgree
<1>1. AllPossible => ComparisonsAgree
  BY PossibleFits, ComparisonsFollow
<1>2. QED BY <1>1, AllPossibleAlways, PTL
-----------------------------------------------------------------------------
(* DestructList: for any elements and values, however often they come.     *)

(* The way back is the inverse of the way on, and both stay in the list.   *)
Chained ==
  /\ head # NoElem => head \in DOMAIN elem
  /\ \A e \in DOMAIN elem :
       /\ elem[e].prev = NoElem <=> e = head
       /\ elem[e].next # NoElem =>
            elem[e].next \in DOMAIN elem /\ elem[elem[e].next].prev = e
       /\ elem[e].prev # NoElem =>
            elem[e].prev \in DOMAIN elem /\ elem[elem[e].prev].next = e

ValuesDiffer == \A d, e \in DOMAIN elem : elem[d].value = elem[e].value => d = e

Contained == {elem[e].value : e \in DOMAIN elem}

(* The inductive invariant.  That all elements are reached also says that  *)
(* the way on has no circle apart from the list.                           *)
ListInv ==
  /\ ListTypeOK
  /\ Chained
  /\ Reached = DOMAIN elem
  /\ ValuesDiffer
  /\ members = Contained
  /\ DestroyedOnce

LEMMA ListInvSuffices == ListInv => ListKeepsBooks
<1> SUFFICES ASSUME ListInv PROVE ListKeepsBooks
  OBVIOUS
<1> DEFINE D == DOMAIN elem
           f == [e \in D |-> elem[e].value]
<1>1. IsFiniteSet(D)
  <2>1. D \in SUBSET Elems
    BY DEF ListInv, ListTypeOK
  <2>2. QED BY <2>1, ListAssumption, FS_Subset
<1>2. f \in [D -> members]
  BY DEF ListInv, Contained
<1>3. \A d, e \in D : f[d] = f[e] => d = e
  BY DEF ListInv, ValuesDiffer
<1>4. \A v \in members : \E e \in D : f[e] = v
  BY DEF ListInv, Contained
<1>5. f \in Bijection(D, members)
  <2> HIDE DEF f, D
  <2>1. QED BY <1>2, <1>3, <1>4, Fun_IsBij
<1>6. ExistsBijection(D, members)
  BY <1>5 DEF ExistsBijection
<1>7. Cardinality(D) = Cardinality(members)
  BY <1>1, <1>6, FS_Bijection
<1>8. {elem[e].value : e \in Reached} = members
  BY DEF ListInv, Contained
<1>9. \A e \in Reached : /\ elem[e].prev = NoElem <=> e = head
                         /\ elem[e].next # NoElem => elem[elem[e].next].prev = e
  BY DEF ListInv, Chained
<1>10. WellLinked
  BY <1>7, <1>8, <1>9 DEF WellLinked, ListInv
<1>11. QED BY <1>10 DEF ListKeepsBooks, ListInv

LEMMA ListInvInit == ListInit => ListInv
<1> SUFFICES ASSUME ListInit PROVE ListInv
  OBVIOUS
<1>1. DOMAIN elem = {} /\ head = NoElem /\ members = {}
  BY DEF ListInit
<1>2. Reached = {}
  <2>1. Closed({})
    BY <1>1 DEF Closed
  <2>2. QED BY <2>1 DEF Reached
<1>3. ListTypeOK
  BY <1>1, ListAssumption DEF ListInit, ListTypeOK
<1>4. DestroyedOnce
  BY DEF ListInit, DestroyedOnce
<1>5. QED BY <1>1, <1>2, <1>3, <1>4 DEF ListInv, Chained, ValuesDiffer, Contained

(* A value that is in no element comes in at the head.                     *)
LEMMA AddKeeps ==
  ASSUME ListInv, NEW p \in Pointers, Add(p)
  PROVE  ListInv'
<1> DEFINE D == DOMAIN elem
<1>1. PICK e \in Elems \ D :
        /\ elem' = [x \in D \cup {e} |->
                     CASE x = e    -> [value |-> p, prev |-> NoElem, next |-> head]
                       [] x = head -> [elem[x] EXCEPT !.prev = e]
                       [] OTHER    -> elem[x]]
        /\ head' = e
  BY DEF Add
<1>2. /\ D \subseteq Elems /\ \A x \in D : elem[x] \in Elem
      /\ head \in Elems \cup {NoElem} /\ head # e
      /\ Reached = D
  BY <1>1, ListAssumption DEF ListInv, ListTypeOK, Chained
<1>3. /\ DOMAIN elem' = D \cup {e}
      /\ elem'[e] \in Elem
      /\ elem'[e].value = p /\ elem'[e].prev = NoElem /\ elem'[e].next = head
  BY <1>1, <1>2 DEF Elem
<1>4. \A x \in D : /\ elem'[x] \in Elem
                   /\ elem'[x].value = elem[x].value /\ elem'[x].next = elem[x].next
                   /\ elem'[x].prev = IF x = head THEN e ELSE elem[x].prev
  <2> SUFFICES ASSUME NEW x \in D
               PROVE  /\ elem'[x] \in Elem
                      /\ elem'[x].value = elem[x].value /\ elem'[x].next = elem[x].next
                      /\ elem'[x].prev = IF x = head THEN e ELSE elem[x].prev
    OBVIOUS
  <2>1. x # e /\ elem[x] \in Elem
    BY <1>1, <1>2
  <2>2. CASE x = head
    <3>1. elem'[x] = [elem[x] EXCEPT !.prev = e]
      BY <1>1, <2>1, <2>2
    <3>2. QED BY <1>1, <2>1, <2>2, <3>1 DEF Elem
  <2>3. CASE x # head
    <3>1. elem'[x] = elem[x]
      BY <1>1, <2>1, <2>3
    <3>2. QED BY <2>1, <2>3, <3>1
  <2>4. QED BY <2>2, <2>3
<1>5. /\ p \notin members /\ members = Contained /\ stores[p] < MaxStores
      /\ members' = members \cup {p} /\ stores' = [stores EXCEPT ![p] = @ + 1]
      /\ destroyed' = destroyed
  BY <1>2 DEF Add, Find, ListInv, Contained
<1>6. e # NoElem /\ NoElem \notin D
  BY <1>1, <1>2, ListAssumption
<1> HIDE DEF D
<1>7. Chained'
  <2>1. ASSUME NEW x \in D
        PROVE  /\ elem'[x].prev = NoElem <=> x = head'
               /\ elem'[x].next # NoElem =>
                    elem'[x].next \in DOMAIN elem' /\ elem'[elem'[x].next].prev = x
               /\ elem'[x].prev # NoElem =>
                    elem'[x].prev \in DOMAIN elem' /\ elem'[elem'[x].prev].next = x
    <3>1. /\ elem[x].prev = NoElem <=> x = head
          /\ elem[x].next # NoElem => elem[x].next \in D /\ elem[elem[x].next].prev = x
          /\ elem[x].prev # NoElem => elem[x].prev \in D /\ elem[elem[x].prev].next = x
      BY DEF ListInv, Chained, D
    <3>2. elem'[x].prev = NoElem <=> x = head'
      BY <1>1, <1>4, <1>6, <3>1
    <3>3. elem'[x].next # NoElem =>
            elem'[x].next \in DOMAIN elem' /\ elem'[elem'[x].next].prev = x
      <4>1. head # NoElem => elem[head].prev = NoElem
        BY DEF ListInv, Chained
      <4>2. QED BY <1>3, <1>4, <1>6, <3>1, <4>1
    <3>4. elem'[x].prev # NoElem =>
            elem'[x].prev \in DOMAIN elem' /\ elem'[elem'[x].prev].next = x
      BY <1>3, <1>4, <3>1
    <3>5. QED BY <3>2, <3>3, <3>4
  <2>2. head # NoElem => head \in D
    BY DEF ListInv, Chained, D
  <2>3. head # NoElem => elem'[head].prev = e
    BY <1>4, <2>2
  <2>4. ASSUME NEW x \in DOMAIN elem', x \notin D
        PROVE  /\ elem'[x].prev = NoElem <=> x = head'
               /\ elem'[x].next # NoElem =>
                    elem'[x].next \in DOMAIN elem' /\ elem'[elem'[x].next].prev = x
               /\ elem'[x].prev # NoElem =>
                    elem'[x].prev \in DOMAIN elem' /\ elem'[elem'[x].prev].next = x
    <3>1. x = e
      BY <1>3, <2>4
    <3>2. QED BY <1>1, <1>3, <2>2, <2>3, <3>1
  <2>5. head' \in DOMAIN elem'
    BY <1>1, <1>3
  <2>6. QED BY <2>1, <2>4, <2>5 DEF Chained
<1>8. Reached' = D \cup {e}
  <2> PICK T : T = D \cup {e}
    OBVIOUS
  <2>1. T \in SUBSET Elems /\ Closed(T)'
    BY <1>1, <1>2, <1>3, <1>4 DEF Closed, ListInv, Chained, D
  <2>2. Reached' \subseteq D \cup {e}
    BY <2>1 DEF Reached
  <2>3. ASSUME NEW S \in SUBSET Elems, Closed(S)' PROVE D \cup {e} \subseteq S
    <3>1. e \in S /\ (head # NoElem => head \in S)
      BY <1>1, <1>3, <1>6, <2>3 DEF Closed
    <3>2. \A x \in S \cap D : elem[x].next # NoElem => elem[x].next \in S
      BY <1>3, <1>4, <2>3 DEF Closed
    <3>3. Closed(S)
      BY <3>1, <3>2 DEF Closed, D
    <3>4. Reached \subseteq S
      BY <3>3 DEF Reached
    <3>5. QED BY <1>2, <3>1, <3>4
  <2>4. D \cup {e} \subseteq Reached'
    BY <1>1, <1>2, <2>3 DEF Reached
  <2>5. QED BY <2>2, <2>4
<1>9. Contained' = members' /\ ValuesDiffer'
  <2>1. \A x \in D : elem[x].value \in members
    BY <1>5 DEF Contained, D
  <2>2. Contained' = {elem[x].value : x \in D} \cup {p}
    BY <1>3, <1>4 DEF Contained
  <2>3. ValuesDiffer'
    BY <1>3, <1>4, <1>5, <2>1 DEF ValuesDiffer, ListInv, D
  <2>4. QED BY <1>5, <2>2, <2>3 DEF Contained, D
<1>10. ListTypeOK'
  BY <1>1, <1>2, <1>3, <1>4, <1>5, ListAssumption DEF ListTypeOK, ListInv
<1>11. DestroyedOnce'
  BY <1>5 DEF DestroyedOnce, ListInv, ListTypeOK
<1>12. QED BY <1>3, <1>7, <1>8, <1>9, <1>10, <1>11 DEF ListInv

(* No element follows itself: the way on would never come to it.           *)
LEMMA NoLoop ==
  ASSUME ListInv, NEW e \in DOMAIN elem
  PROVE  elem[e].next # e /\ elem[e].prev # e
<1>1. DOMAIN elem \subseteq Elems /\ e # NoElem
  BY ListAssumption DEF ListInv, ListTypeOK
<1>2. SUFFICES ASSUME elem[e].next = e \/ elem[e].prev = e PROVE FALSE
  OBVIOUS
<1>3. elem[e].next = e /\ elem[e].prev = e /\ e # head
  BY <1>1, <1>2 DEF ListInv, Chained
<1>4. Closed(DOMAIN elem \ {e})
  BY <1>1, <1>3 DEF ListInv, Chained, Closed
<1>5. e \notin Reached
  BY <1>1, <1>4 DEF Reached
<1>6. QED BY <1>5 DEF ListInv

(* An element is taken out, and its neighbours become each other's.        *)
LEMMA DeleteKeeps ==
  ASSUME ListInv, NEW p \in Pointers, Delete(p)
  PROVE  ListInv'
<1> DEFINE D == DOMAIN elem
<1>1. PICK e \in Find(p) :
        /\ elem' = Unlinked(e)
        /\ head' = IF head = e THEN elem[e].next ELSE head
  BY DEF Delete
<1>2. /\ D \subseteq Elems /\ \A x \in D : elem[x] \in Elem
      /\ Reached = D /\ NoElem \notin D
      /\ e \in D /\ elem[e].value = p
  BY <1>1, ListAssumption DEF ListInv, ListTypeOK, Find
<1> PICK a : a = elem[e].prev
  OBVIOUS
<1> PICK b : b = elem[e].next
  OBVIOUS
<1>3. DOMAIN elem' = D \ {e}
  BY <1>1 DEF Unlinked
<1>4. \A x \in D \ {e} : /\ elem'[x] \in Elem
                         /\ elem'[x].value = elem[x].value
                         /\ elem'[x].next = IF x = a THEN b ELSE elem[x].next
                         /\ elem'[x].prev = IF x = b THEN a ELSE elem[x].prev
  <2> SUFFICES ASSUME NEW x \in D \ {e}
               PROVE  /\ elem'[x] \in Elem
                      /\ elem'[x].value = elem[x].value
                      /\ elem'[x].next = IF x = a THEN b ELSE elem[x].next
                      /\ elem'[x].prev = IF x = b THEN a ELSE elem[x].prev
    OBVIOUS
  <2> PICK next : next = IF x = a THEN b ELSE elem[x].next
    OBVIOUS
  <2> PICK prev : prev = IF x = b THEN a ELSE elem[x].prev
    OBVIOUS
  <2>1. elem[x] \in Elem /\ elem[e] \in Elem
    BY <1>2
  <2>2. next \in Elems \cup {NoElem} /\ prev \in Elems \cup {NoElem}
    BY <2>1 DEF Elem
  <2>3. elem'[x] = [elem[x] EXCEPT !.next = next, !.prev = prev]
    BY <1>1 DEF Unlinked
  <2>4. QED BY <2>1, <2>2, <2>3 DEF Elem
<1>5. /\ a # e /\ b # e
      /\ a # NoElem => a \in D /\ elem[a].next = e
      /\ b # NoElem => b \in D /\ elem[b].prev = e
      /\ a = NoElem <=> e = head
      /\ head # NoElem => head \in D
  BY <1>2, NoLoop DEF ListInv, Chained
<1>6. \A x \in D :
        /\ elem[x].prev = NoElem <=> x = head
        /\ elem[x].next # NoElem => elem[x].next \in D /\ elem[elem[x].next].prev = x
        /\ elem[x].prev # NoElem => elem[x].prev \in D /\ elem[elem[x].prev].next = x
  BY DEF ListInv, Chained
<1>7. head' = IF head = e THEN b ELSE head
  BY <1>1
<1> HIDE DEF D
<1>8. Chained'
  <2>1. head' # NoElem => head' \in DOMAIN elem'
    BY <1>3, <1>5, <1>7
  <2>2. ASSUME NEW x \in D \ {e}
        PROVE  /\ elem'[x].prev = NoElem <=> x = head'
               /\ elem'[x].next # NoElem =>
                    elem'[x].next \in DOMAIN elem' /\ elem'[elem'[x].next].prev = x
               /\ elem'[x].prev # NoElem =>
                    elem'[x].prev \in DOMAIN elem' /\ elem'[elem'[x].prev].next = x
    <3>1. elem'[x].prev = NoElem <=> x = head'
      BY <1>2, <1>4, <1>5, <1>6, <1>7
    <3>2. elem'[x].next # NoElem =>
            elem'[x].next \in DOMAIN elem' /\ elem'[elem'[x].next].prev = x
      <4>1. CASE x = a
        BY <1>2, <1>3, <1>4, <1>5, <4>1
      <4>2. CASE x # a
        BY <1>2, <1>3, <1>4, <1>5, <1>6, <4>2
      <4>3. QED BY <4>1, <4>2
    <3>3. elem'[x].prev # NoElem =>
            elem'[x].prev \in DOMAIN elem' /\ elem'[elem'[x].prev].next = x
      <4>1. CASE x = b
        BY <1>2, <1>3, <1>4, <1>5, <4>1
      <4>2. CASE x # b
        BY <1>2, <1>3, <1>4, <1>5, <1>6, <4>2
      <4>3. QED BY <4>1, <4>2
    <3>4. QED BY <3>1, <3>2, <3>3
  <2>3. QED BY <1>3, <2>1, <2>2 DEF Chained
<1>9. Reached' = D \ {e}
  <2> PICK T : T = D \ {e}
    OBVIOUS
  <2>1. T \in SUBSET Elems /\ Closed(T)'
    <3>1. head' # NoElem => head' \in D \ {e}
      BY <1>3, <1>8 DEF Chained
    <3>2. \A x \in D \ {e} : elem'[x].next # NoElem => elem'[x].next \in D \ {e}
      BY <1>3, <1>8 DEF Chained
    <3>3. QED BY <1>2, <1>3, <3>1, <3>2 DEF Closed
  <2>2. Reached' \subseteq D \ {e}
    BY <2>1 DEF Reached
  <2>3. ASSUME NEW S \in SUBSET Elems, Closed(S)' PROVE D \ {e} \subseteq S
    <3>1. /\ head' # NoElem => head' \in S
          /\ \A x \in S \cap (D \ {e}) : elem'[x].next # NoElem => elem'[x].next \in S
      BY <1>3, <2>3 DEF Closed
    <3>2. CASE a = NoElem \/ a \in S
      <4>1. b # NoElem => b \in S
        BY <1>2, <1>4, <1>5, <1>7, <3>1, <3>2
      <4>2. Closed(S \cup {e})
        BY <1>2, <1>4, <1>5, <1>7, <3>1, <4>1 DEF Closed, D
      <4>3. Reached \subseteq S \cup {e}
        BY <1>2, <4>2 DEF Reached
      <4>4. QED BY <1>2, <4>3
    <3>3. CASE a # NoElem /\ a \notin S
      <4>1. Closed(S \ {e})
        BY <1>2, <1>4, <1>5, <1>6, <1>7, <3>1, <3>3 DEF Closed, D
      <4>2. Reached \subseteq S \ {e}
        BY <4>1 DEF Reached
      <4>3. QED BY <1>2, <4>2
    <3>4. QED BY <3>2, <3>3
  <2>4. D \ {e} \subseteq Reached'
    BY <1>2, <2>3 DEF Reached
  <2>5. QED BY <2>2, <2>4
<1>10. /\ members = Contained /\ members' = members \ {p} /\ stores' = stores
       /\ destroyed' = [destroyed EXCEPT ![p] = @ + 1]
  BY DEF Delete, ListInv
<1>11. \A d, x \in D : elem[d].value = elem[x].value => d = x
  BY DEF ListInv, ValuesDiffer, D
<1>12. Contained' = members' /\ ValuesDiffer'
  <2>1. Contained' = {elem[x].value : x \in D \ {e}}
    BY <1>3, <1>4 DEF Contained
  <2>2. members = {elem[x].value : x \in D}
    BY <1>10 DEF Contained, D
  <2>3. ValuesDiffer'
    BY <1>3, <1>4, <1>11 DEF ValuesDiffer
  <2>4. QED BY <1>2, <1>10, <1>11, <2>1, <2>2, <2>3
<1>13. ListTypeOK'
  <2>1. head' \in Elems \cup {NoElem}
    BY <1>2, <1>3, <1>8 DEF Chained
  <2>2. QED BY <1>2, <1>3, <1>4, <1>10, <2>1 DEF ListTypeOK, ListInv
<1>14. DestroyedOnce'
  <2>1. p \in members
    BY <1>2, <1>10 DEF Contained, D
  <2>2. QED BY <1>10, <2>1 DEF DestroyedOnce, ListInv, ListTypeOK
<1>15. QED BY <1>3, <1>8, <1>9, <1>12, <1>13, <1>14 DEF ListInv

(* The destructor destroys what is left, each value once.                  *)
LEMMA DestroyListKeeps ==
  ASSUME ListInv, DestroyList
  PROVE  ListInv'
<1>1. /\ destroyed' = [p \in Pointers |-> destroyed[p] + Cardinality(Find(p))]
      /\ elem' = Restrict(elem, DOMAIN elem \ Reached)
      /\ head' = NoElem /\ members' = {} /\ stores' = stores
  BY DEF DestroyList
<1>2. DOMAIN elem' = {}
  BY <1>1 DEF ListInv, Restrict
<1>3. Reached' = {}
  <2>1. Closed({})'
    BY <1>1, <1>2 DEF Closed
  <2>2. QED BY <2>1 DEF Reached
<1>4. \A p \in Pointers : Cardinality(Find(p)) = IF p \in members THEN 1 ELSE 0
  <2> SUFFICES ASSUME NEW p \in Pointers
               PROVE  Cardinality(Find(p)) = IF p \in members THEN 1 ELSE 0
    OBVIOUS
  <2>1. CASE p \in members
    <3>1. PICK e \in DOMAIN elem : elem[e].value = p
      BY <2>1 DEF ListInv, Contained
    <3>2. Find(p) = {e}
      BY <3>1 DEF ListInv, ValuesDiffer, Find
    <3>3. QED BY <2>1, <3>2, FS_Singleton
  <2>2. CASE p \notin members
    <3>1. Find(p) = {}
      BY <2>2 DEF ListInv, Contained, Find
    <3>2. QED BY <2>2, <3>1, FS_EmptySet
  <2>3. QED BY <2>1, <2>2
<1>5. ListTypeOK'
  <2>1. destroyed' \in [Pointers -> Nat]
    BY <1>1, <1>4 DEF ListTypeOK, ListInv
  <2>2. QED BY <1>1, <1>2, <2>1 DEF ListTypeOK, ListInv
<1>6. DestroyedOnce'
  BY <1>1, <1>4 DEF DestroyedOnce, ListInv, ListTypeOK
<1>7. Chained' /\ ValuesDiffer'
  BY <1>1, <1>2 DEF Chained, ValuesDiffer
<1>8. Contained' = {}
  BY <1>2 DEF Contained
<1>9. QED BY <1>1, <1>2, <1>3, <1>5, <1>6, <1>7, <1>8 DEF ListInv

LEMMA ListInvStep == ListInv /\ [ListNext]_listVars => ListInv'
<1> SUFFICES ASSUME ListInv, [ListNext]_listVars PROVE ListInv'
  OBVIOUS
<1>1. CASE UNCHANGED listVars
  BY <1>1 DEF listVars, ListInv, ListTypeOK, Chained, Reached, Closed, ValuesDiffer, Contained,
              DestroyedOnce
<1>2. QED BY <1>1, AddKeeps, DeleteKeeps, DestroyListKeeps DEF ListNext

(* Head, elements and history fit together at every step.                  *)
THEOREM ListInvAlways == ListSpec => []ListInv
<1>1. QED BY ListInvInit, ListInvStep, PTL DEF ListSpec

(* A destructing list can be walked both ways and holds what was added,    *)
(* and what was in it met the deletion function once.                      *)
THEOREM ListKeepsBooksAlways == ListSpec => []ListKeepsBooks
<1>1. QED BY ListInvAlways, ListInvSuffices, PTL
-----------------------------------------------------------------------------
(* LocalHandles: for any number of objects, smart pointers, slots and      *)
(* scopes.                                                                 *)

(* Only the last slab has room, and none is empty.                         *)
SlabsFit(block) ==
  \A k \in 1 .. Len(block) :
    /\ Len(block[k]) \in 1 .. SlabSize
    /\ k # Len(block) => Len(block[k]) = SlabSize

IsBlock(block) == block \in Seq(Seq(HandleObjects)) /\ SlabsFit(block)

(* Where the block ended when it was shorter, or ends.                     *)
IsEndIn(block, l) ==
  \/ l = NoLimits
  \/ /\ l.next.slab \in 1 .. Len(block)
     /\ l.next.slot \in 1 .. Len(block[l.next.slab])
     /\ l.limit = [slab |-> l.next.slab, slot |-> SlabSize]

NotAfter(p, q) == p.slab < q.slab \/ (p.slab = q.slab /\ p.slot <= q.slot)

EndsKept == \A i \in DOMAIN openScopes : IsEndIn(slabs, openScopes[i])
EndsRise ==
  \A i, j \in DOMAIN openScopes :
    i < j => NotAfter(openScopes[i].next, openScopes[j].next)

(* The inductive invariant: what AccountsAgree says, and that each scope   *)
(* can be gone back to, however many of those above it are left first.     *)
HandleInv ==
  /\ HandleTypeOK
  /\ SlabsFit(slabs)
  /\ limits = LimitsOf(slabs)
  /\ EndsKept
  /\ EndsRise
  /\ RefCountsAgree

-----------------------------------------------------------------------------
(* The slots of n full slabs and of m more in a slab after them.           *)
Shape(n, m) == ((1 .. n) \X (1 .. SlabSize)) \cup ({n + 1} \X (1 .. m))

LEMMA FilledShape ==
  ASSUME NEW b, NEW n \in Nat, NEW m \in 0 .. SlabSize,
         \A k \in 1 .. n : Len(b[k]) = SlabSize,
         \/ Len(b) = n /\ m = 0
         \/ Len(b) = n + 1 /\ Len(b[n + 1]) = m
  PROVE  Filled(b) = Shape(n, m)
<1> USE SlabAssumption
<1>1. CASE Len(b) = n /\ m = 0
  BY <1>1 DEF Filled, Shape
<1>2. CASE Len(b) = n + 1 /\ Len(b[n + 1]) = m
  <2>1. Filled(b) \subseteq Shape(n, m)
    BY <1>2 DEF Filled, Shape
  <2>2. Shape(n, m) \subseteq Filled(b)
    <3>1. \A s \in Shape(n, m) : s \in (1 .. n + 1) \X (1 .. SlabSize)
      BY DEF Shape
    <3>2. \A s \in Shape(n, m) : s[2] <= Len(b[s[1]])
      BY <1>2 DEF Shape
    <3>3. QED BY <1>2, <3>1, <3>2 DEF Filled
  <2>3. QED BY <2>1, <2>2
<1>3. QED BY <1>1, <1>2

LEMMA ShapeGrows ==
  ASSUME NEW n \in Nat, NEW m \in 0 .. SlabSize
  PROVE  /\ Shape(n, m + 1) = Shape(n, m) \cup {<<n + 1, m + 1>>}
         /\ <<n + 1, m + 1>> \notin Shape(n, m)
<1> USE SlabAssumption
<1>1. 1 .. m + 1 = (1 .. m) \cup {m + 1} /\ m + 1 \notin 1 .. m /\ n + 1 \notin 1 .. n
  OBVIOUS
<1>2. QED BY <1>1 DEF Shape

LEMMA ShapeCut ==
  ASSUME NEW n \in Nat, NEW h \in 1 .. SlabSize,
         NEW k, k - 1 \in 0 .. n, NEW j \in 1 .. SlabSize, k \in Nat, k - 1 = n => j <= h
  PROVE  Shape(k - 1, j) = {s \in Shape(n, h) : ~ (s[1] > k \/ (s[1] = k /\ s[2] > j))}
<1> USE SlabAssumption
<1>1. k - 1 + 1 = k /\ k \in 1 .. n + 1
  OBVIOUS
<1>2. ASSUME NEW s \in Shape(k - 1, j)
      PROVE  s \in Shape(n, h) /\ ~ (s[1] > k \/ (s[1] = k /\ s[2] > j))
  <2>1. CASE s \in (1 .. k - 1) \X (1 .. SlabSize)
    BY <1>1, <2>1 DEF Shape
  <2>2. CASE s \in {k} \X (1 .. j)
    <3>1. CASE k = n + 1
      BY <2>2, <3>1 DEF Shape
    <3>2. CASE k \in 1 .. n
      BY <2>2, <3>2 DEF Shape
    <3>3. QED BY <1>1, <3>1, <3>2
  <2>3. QED BY <1>1, <2>1, <2>2 DEF Shape
<1>3. ASSUME NEW s \in Shape(n, h), ~ (s[1] > k \/ (s[1] = k /\ s[2] > j))
      PROVE  s \in Shape(k - 1, j)
  <2>1. s = <<s[1], s[2]>> /\ s[1] \in 1 .. n + 1 /\ s[2] \in 1 .. SlabSize
    BY DEF Shape
  <2>2. CASE s[1] = k
    BY <1>1, <1>3, <2>1, <2>2 DEF Shape
  <2>3. CASE s[1] # k
    <3>1. s[1] \in 1 .. k - 1
      BY <1>1, <1>3, <2>1, <2>3
    <3>2. QED BY <2>1, <3>1 DEF Shape
  <2>4. QED BY <2>2, <2>3
<1>4. QED BY <1>2, <1>3

LEMMA ShapeCounted ==
  ASSUME NEW n \in Nat, NEW m \in 0 .. SlabSize
  PROVE  IsFiniteSet(Shape(n, m)) /\ Cardinality(Shape(n, m)) = SlabSize * n + m
<1> USE SlabAssumption
<1> DEFINE low == (1 .. n) \X (1 .. SlabSize)
           top == {n + 1} \X (1 .. m)
<1>1. IsFiniteSet(low) /\ Cardinality(low) = n * SlabSize
  <2> DEFINE ks == 1 .. n
             js == 1 .. SlabSize
  <2>1. IsFiniteSet(ks) /\ Cardinality(ks) = n /\ IsFiniteSet(js) /\ Cardinality(js) = SlabSize
    BY FS_Interval
  <2> HIDE DEF ks, js
  <2>2. IsFiniteSet(ks \X js) /\ Cardinality(ks \X js) = n * SlabSize
    BY <2>1, FS_Product
  <2>3. QED BY <2>2 DEF ks, js
<1>2. IsFiniteSet(top) /\ Cardinality(top) = m
  <2> DEFINE ks == {n + 1}
             js == 1 .. m
  <2>1. IsFiniteSet(js) /\ Cardinality(js) = m
    BY FS_Interval
  <2>2. IsFiniteSet(ks) /\ Cardinality(ks) = 1
    BY FS_Singleton
  <2> HIDE DEF ks, js
  <2>3. IsFiniteSet(ks \X js) /\ Cardinality(ks \X js) = 1 * m
    BY <2>1, <2>2, FS_Product
  <2>4. QED BY <2>3 DEF ks, js
<1>3. low \cap top = {}
  OBVIOUS
<1> HIDE DEF low, top
<1>4. Cardinality(low \cap top) = 0
  BY <1>3, FS_EmptySet
<1>5. /\ IsFiniteSet(low \cup top)
      /\ Cardinality(low \cup top) = Cardinality(low) + Cardinality(top) - 0
  BY <1>1, <1>2, <1>4, FS_Union
<1>6. n * SlabSize = SlabSize * n /\ SlabSize * n \in Nat
  OBVIOUS
<1>7. QED BY <1>1, <1>2, <1>5, <1>6 DEF Shape, low, top

(* A block of n full slabs and one more, as Add and Delete make it.        *)
LEMMA Stacked ==
  ASSUME NEW b, IsBlock(b), NEW n \in Nat, n <= Len(b),
         \A k \in 1 .. n : Len(b[k]) = SlabSize,
         NEW top \in Seq(HandleObjects), Len(top) \in 1 .. SlabSize
  PROVE  LET c == Append(SubSeq(b, 1, n), top)
         IN  /\ IsBlock(c)
             /\ Len(c) = n + 1 /\ c[n + 1] = top /\ \A k \in 1 .. n : c[k] = b[k]
             /\ Filled(c) = Shape(n, Len(top))
<1> USE SlabAssumption
<1> DEFINE c == Append(SubSeq(b, 1, n), top)
<1>1. b \in Seq(Seq(HandleObjects))
  BY DEF IsBlock
<1>2. /\ SubSeq(b, 1, n) \in Seq(Seq(HandleObjects)) /\ Len(SubSeq(b, 1, n)) = n
      /\ \A k \in 1 .. n : SubSeq(b, 1, n)[k] = b[k]
  BY <1>1
<1>3. c \in Seq(Seq(HandleObjects)) /\ Len(c) = n + 1 /\ c[n + 1] = top
  BY <1>2
<1>4. \A k \in 1 .. n : c[k] = b[k]
  BY <1>2
<1> HIDE DEF c
<1>5. \A k \in 1 .. n : Len(c[k]) = SlabSize
  BY <1>4
<1>6. SlabsFit(c)
  <2> SUFFICES ASSUME NEW k \in 1 .. n + 1
               PROVE  Len(c[k]) \in 1 .. SlabSize /\ (k # n + 1 => Len(c[k]) = SlabSize)
    BY <1>3 DEF SlabsFit
  <2>1. CASE k = n + 1
    BY <1>3, <2>1
  <2>2. CASE k \in 1 .. n
    BY <1>5, <2>2
  <2>3. QED BY <2>1, <2>2
<1>7. Filled(c) = Shape(n, Len(top))
  BY <1>3, <1>5, FilledShape
<1>8. QED BY <1>3, <1>4, <1>6, <1>7 DEF IsBlock, c

(* A block is empty or has a last slab; its slots are a Shape.             *)
LEMMA BlockShape ==
  ASSUME NEW b, IsBlock(b), b # <<>>
  PROVE  /\ Len(b) \in Nat \ {0} /\ b[Len(b)] \in Seq(HandleObjects)
         /\ Len(b[Len(b)]) \in 1 .. SlabSize
         /\ \A k \in 1 .. Len(b) - 1 : b[k] \in Seq(HandleObjects) /\ Len(b[k]) = SlabSize
         /\ Filled(b) = Shape(Len(b) - 1, Len(b[Len(b)]))
<1> USE SlabAssumption
<1> DEFINE n == Len(b) - 1
           m == Len(b[n + 1])
<1>1. b \in Seq(Seq(HandleObjects)) /\ Len(b) \in Nat \ {0} /\ n \in Nat /\ Len(b) = n + 1
  BY DEF IsBlock
<1> HIDE DEF n
<1>2. /\ b[n + 1] \in Seq(HandleObjects) /\ m \in 1 .. SlabSize
      /\ \A k \in 1 .. n : b[k] \in Seq(HandleObjects) /\ Len(b[k]) = SlabSize
  <2>1. \A k \in 1 .. n + 1 : b[k] \in Seq(HandleObjects) /\ Len(b[k]) \in 1 .. SlabSize
    BY <1>1 DEF IsBlock, SlabsFit
  <2>2. \A k \in 1 .. n : k \in 1 .. n + 1 /\ Len(b[k]) = SlabSize
    BY <1>1 DEF IsBlock, SlabsFit
  <2>3. QED BY <1>1, <2>1, <2>2
<1>3. n + 1 = Len(b)
  BY <1>1
<1>4. Filled(b) = Shape(n, m)
  <2> DEFINE q == m
  <2>1. q \in 0 .. SlabSize /\ Len(b[n + 1]) = q
    BY <1>2
  <2> HIDE DEF q
  <2>2. Filled(b) = Shape(n, q)
    BY <1>1, <1>2, <2>1, FilledShape
  <2>3. QED BY <2>2 DEF q
<1>5. QED BY <1>1, <1>2, <1>3, <1>4 DEF n

(* NumberOfItems counts the slots in use: all of those of every slab but   *)
(* the last, and the last's.                                               *)
LEMMA FilledCounted ==
  ASSUME NEW b, IsBlock(b)
  PROVE  IsFiniteSet(Filled(b)) /\ Cardinality(Filled(b)) = NumberOfItems(b)
<1> USE SlabAssumption
<1>1. CASE b = <<>>
  <2>1. Filled(b) = {}
    BY <1>1 DEF Filled
  <2>2. QED BY <1>1, <2>1, FS_EmptySet DEF NumberOfItems
<1>2. CASE b # <<>>
  <2> DEFINE n == Len(b) - 1
             m == Len(b[Len(b)])
  <2>1. n \in Nat /\ m \in 0 .. SlabSize /\ Filled(b) = Shape(n, m)
    BY <1>2, BlockShape
  <2>2. NumberOfItems(b) = SlabSize * n + m
    BY <1>2 DEF NumberOfItems, Last
  <2> HIDE DEF n, m
  <2>3. QED BY <2>1, <2>2, ShapeCounted
<1>3. QED BY <1>1, <1>2

(* Add fills one more slot, which is then the last, and moves none.        *)
LEMMA AddFills ==
  ASSUME NEW b, IsBlock(b), NEW o \in HandleObjects
  PROVE  LET c == AddTo(b, o)
             s == <<Len(c), Len(c[Len(c)])>>
         IN  /\ IsBlock(c) /\ c # <<>>
             /\ Filled(c) = Filled(b) \cup {s} /\ s \notin Filled(b)
             /\ c[s[1]][s[2]] = o
             /\ \A t \in Filled(b) : c[t[1]][t[2]] = b[t[1]][t[2]]
             /\ \A l : IsEndIn(b, l) => IsEndIn(c, l)
<1> USE SlabAssumption
<1> DEFINE c == AddTo(b, o)
           r == Len(b)
<1>1. b \in Seq(Seq(HandleObjects)) /\ r \in Nat
  BY DEF IsBlock
<1>2. \E n \in Nat, m \in 0 .. SlabSize - 1, top \in Seq(HandleObjects) :
        /\ n <= Len(b) /\ \A k \in 1 .. n : Len(b[k]) = SlabSize
        /\ Filled(b) = Shape(n, m)
        /\ Len(top) = m + 1 /\ top[m + 1] = o
        /\ m # 0 => Len(b) = n + 1 /\ Len(b[n + 1]) = m /\ \A j \in 1 .. m : top[j] = b[n + 1][j]
        /\ m = 0 => Len(b) = n
        /\ c = Append(SubSeq(b, 1, n), top)
  <2>1. CASE b = <<>> \/ Len(b[r]) = SlabSize
    <3>1. \A k \in 1 .. r : Len(b[k]) = SlabSize
      BY <2>1, BlockShape
    <3>2. Filled(b) = Shape(r, 0)
      BY <1>1, <3>1, FilledShape
    <3>3. c = Append(SubSeq(b, 1, r), <<o>>)
      <4>1. c = Append(b, <<o>>)
        BY <2>1 DEF AddTo, Last
      <4>2. b = SubSeq(b, 1, r)
        BY <1>1
      <4>3. QED BY <4>1, <4>2
    <3>4. <<o>> \in Seq(HandleObjects) /\ Len(<<o>>) = 1 /\ <<o>>[1] = o
      OBVIOUS
    <3>5. 0 \in 0 .. SlabSize - 1 /\ r <= Len(b)
      BY <1>1
    <3> HIDE DEF c
    <3> WITNESS r \in Nat, 0 \in 0 .. SlabSize - 1, <<o>> \in Seq(HandleObjects)
    <3>6. QED BY <3>1, <3>2, <3>3, <3>4, <3>5
  <2>2. CASE b # <<>> /\ Len(b[r]) # SlabSize
    <3> DEFINE n == Len(b) - 1
               m == Len(b[Len(b)])
               top == Append(b[Len(b)], o)
    <3>1. /\ n \in Nat /\ m \in 1 .. SlabSize - 1 /\ n <= Len(b) /\ Len(b) = n + 1
          /\ \A k \in 1 .. n : Len(b[k]) = SlabSize
          /\ Filled(b) = Shape(n, m)
          /\ b[Len(b)] \in Seq(HandleObjects)
      BY <2>2, BlockShape
    <3>2. c = Append(SubSeq(b, 1, n), top)
      BY <2>2 DEF AddTo, Last, Front
    <3>3. /\ top \in Seq(HandleObjects) /\ Len(top) = m + 1 /\ top[m + 1] = o
          /\ \A j \in 1 .. m : top[j] = b[Len(b)][j]
      BY <3>1
    <3>4. b[Len(b)] = b[n + 1] /\ Len(b[n + 1]) = m
      BY <3>1
    <3>5. m \in 0 .. SlabSize - 1 /\ m # 0
      BY <3>1
    <3> HIDE DEF c, n, m, top
    <3> n \in Nat /\ m \in 0 .. SlabSize - 1 /\ top \in Seq(HandleObjects)
      BY <3>1, <3>3, <3>5
    <3> WITNESS n \in Nat, m \in 0 .. SlabSize - 1, top \in Seq(HandleObjects)
    <3>6. QED BY <3>1, <3>2, <3>3, <3>4, <3>5
  <2>3. QED BY <2>1, <2>2
<1> HIDE DEF c
<1>3. PICK n \in Nat, m \in 0 .. SlabSize - 1, top \in Seq(HandleObjects) :
        /\ n <= Len(b) /\ \A k \in 1 .. n : Len(b[k]) = SlabSize
        /\ Filled(b) = Shape(n, m)
        /\ Len(top) = m + 1 /\ top[m + 1] = o
        /\ m # 0 => Len(b) = n + 1 /\ Len(b[n + 1]) = m /\ \A j \in 1 .. m : top[j] = b[n + 1][j]
        /\ m = 0 => Len(b) = n
        /\ c = Append(SubSeq(b, 1, n), top)
  BY <1>2
<1>4. /\ IsBlock(c) /\ Len(c) = n + 1 /\ c[n + 1] = top /\ \A k \in 1 .. n : c[k] = b[k]
      /\ Filled(c) = Shape(n, m + 1)
  <2>1. Len(top) \in 1 .. SlabSize /\ Len(top) = m + 1
    BY <1>3
  <2>2. n <= Len(b) /\ \A k \in 1 .. n : Len(b[k]) = SlabSize
    BY <1>3
  <2>3. c = Append(SubSeq(b, 1, n), top)
    BY <1>3
  <2>4. LET a == Append(SubSeq(b, 1, n), top)
        IN  /\ IsBlock(a) /\ Len(a) = n + 1 /\ a[n + 1] = top /\ \A k \in 1 .. n : a[k] = b[k]
            /\ Filled(a) = Shape(n, Len(top))
    BY <2>1, <2>2, Stacked
  <2>5. QED BY <2>1, <2>3, <2>4
<1>5. /\ Len(c[n + 1]) = m + 1 /\ c[n + 1][m + 1] = o /\ c # <<>>
      /\ \A j \in 1 .. m : c[n + 1][j] = b[n + 1][j]
  <2>1. Len(c[n + 1]) = m + 1 /\ c[n + 1][m + 1] = o /\ c # <<>>
    <3>1. Len(c[n + 1]) = m + 1 /\ c[n + 1][m + 1] = o
      BY <1>3, <1>4
    <3>2. Len(c) > 0 /\ Len(<<>>) = 0
      BY <1>4
    <3>3. QED BY <3>1, <3>2
  <2>2. ASSUME NEW j \in 1 .. m PROVE c[n + 1][j] = b[n + 1][j]
    <3>1. m # 0
      OBVIOUS
    <3>2. QED BY <1>3, <1>4, <3>1
  <2>3. QED BY <2>1, <2>2
<1>6. Filled(c) = Filled(b) \cup {<<n + 1, m + 1>>} /\ <<n + 1, m + 1>> \notin Filled(b)
  <2>1. m \in 0 .. SlabSize
    OBVIOUS
  <2>2. QED BY <1>3, <1>4, <2>1, ShapeGrows
<1>7. ASSUME NEW t \in Filled(b)
      PROVE  c[t[1]][t[2]] = b[t[1]][t[2]]
  <2>1. t[1] \in 1 .. n \/ (t[1] = n + 1 /\ t[2] \in 1 .. m)
    BY <1>3 DEF Shape
  <2>2. CASE t[1] \in 1 .. n
    BY <1>4, <2>2
  <2>3. CASE t[1] = n + 1 /\ t[2] \in 1 .. m
    BY <1>5, <2>3
  <2>4. QED BY <2>1, <2>2, <2>3
<1>8. ASSUME NEW l, IsEndIn(b, l)
      PROVE  IsEndIn(c, l)
  <2> DEFINE k == l.next.slab
             j == l.next.slot
  <2>1. CASE l = NoLimits
    BY <2>1 DEF IsEndIn
  <2>2. CASE l # NoLimits
    <3>1. k \in 1 .. Len(b) /\ j \in 1 .. Len(b[k]) /\ l.limit = [slab |-> k, slot |-> SlabSize]
      BY <1>8, <2>2 DEF IsEndIn
    <3> HIDE DEF k, j
    <3>2. k \in 1 .. n + 1 /\ j \in 1 .. Len(c[k])
      <4>1. CASE k \in 1 .. n
        <5>1. c[k] = b[k]
          BY <1>4, <4>1
        <5>2. QED BY <3>1, <4>1, <5>1
      <4>2. CASE k \notin 1 .. n
        <5>1. k = n + 1 /\ m # 0
          BY <1>3, <3>1, <4>2
        <5>2. j \in 1 .. m
          BY <1>3, <3>1, <5>1
        <5>3. QED BY <1>5, <5>1, <5>2
      <4>3. QED BY <4>1, <4>2
    <3>3. QED BY <1>4, <3>1, <3>2 DEF IsEndIn, k, j
  <2>3. QED BY <2>1, <2>2
<1>9. QED BY <1>4, <1>5, <1>6, <1>7, <1>8 DEF c

(* Delete leaves the slots up to where it is told to end, which is where   *)
(* the block then ends; the ends before that one are still in the block.   *)
LEMMA BeforeKeeps ==
  ASSUME NEW b, IsBlock(b), NEW l \in Limits, IsEndIn(b, l)
  PROVE  LET c == Before(b, l.next)
         IN  /\ IsBlock(c) /\ l = LimitsOf(c)
             /\ Filled(c) = Filled(b) \ From(b, l.next)
             /\ \A t \in Filled(c) : c[t[1]][t[2]] = b[t[1]][t[2]]
             /\ \A m : IsEndIn(b, m) /\ NotAfter(m.next, l.next) => IsEndIn(c, m)
<1> USE SlabAssumption
<1> DEFINE p == l.next
           c == Before(b, p)
<1>1. CASE l = NoLimits
  <2>1. c = <<>> /\ p = NullPtr
    BY <1>1 DEF Before, NoLimits
  <2>2. From(b, p) = Filled(b) /\ Filled(c) = {}
    BY <2>1 DEF From, Filled
  <2>3. IsBlock(c) /\ l = LimitsOf(c)
    BY <1>1, <2>1 DEF IsBlock, SlabsFit, LimitsOf
  <2>4. \A m : IsEndIn(b, m) /\ NotAfter(m.next, l.next) => IsEndIn(c, m)
    BY <2>1 DEF IsEndIn, NotAfter, NullPtr
  <2>5. QED BY <2>2, <2>3, <2>4
<1>2. CASE l # NoLimits
  <2> DEFINE k == p.slab
             j == p.slot
  <2>1. /\ k \in 1 .. Len(b) /\ j \in 1 .. Len(b[k])
        /\ l = [next |-> [slab |-> k, slot |-> j], limit |-> [slab |-> k, slot |-> SlabSize]]
    BY <1>2 DEF IsEndIn, Limits, Pointer
  <2>2. /\ Len(b) \in Nat /\ b[k] \in Seq(HandleObjects) /\ Len(b[k]) \in 1 .. SlabSize
        /\ \A i \in 1 .. k - 1 : b[i] \in Seq(HandleObjects) /\ Len(b[i]) = SlabSize
    BY <2>1 DEF IsBlock, SlabsFit
  <2>3. p # NullPtr
    BY <2>1 DEF NullPtr
  <2>4. c = Append(SubSeq(b, 1, k - 1), SubSeq(b[k], 1, j))
    BY <2>3 DEF Before
  <2>5. /\ SubSeq(b[k], 1, j) \in Seq(HandleObjects) /\ Len(SubSeq(b[k], 1, j)) = j
        /\ \A i \in 1 .. j : SubSeq(b[k], 1, j)[i] = b[k][i]
    BY <2>1, <2>2
  <2> HIDE DEF c, p, k, j
  <2>6. /\ IsBlock(c) /\ Len(c) = k /\ c[k] = SubSeq(b[k], 1, j)
        /\ \A i \in 1 .. k - 1 : c[i] = b[i]
        /\ Filled(c) = Shape(k - 1, j)
    <3>1. /\ k - 1 \in Nat /\ k - 1 <= Len(b) /\ k - 1 + 1 = k
          /\ \A i \in 1 .. k - 1 : Len(b[i]) = SlabSize
          /\ Len(SubSeq(b[k], 1, j)) \in 1 .. SlabSize
      BY <2>1, <2>2, <2>5
    <3> DEFINE q == k - 1
               top == SubSeq(b[k], 1, j)
    <3>2. /\ q \in Nat /\ q <= Len(b) /\ \A i \in 1 .. q : Len(b[i]) = SlabSize
          /\ top \in Seq(HandleObjects) /\ Len(top) \in 1 .. SlabSize /\ Len(top) = j
          /\ c = Append(SubSeq(b, 1, q), top)
      BY <2>4, <2>5, <3>1
    <3> HIDE DEF q, top
    <3>3. /\ IsBlock(c) /\ Len(c) = q + 1 /\ c[q + 1] = top /\ \A i \in 1 .. q : c[i] = b[i]
          /\ Filled(c) = Shape(q, Len(top))
      BY <3>2, Stacked
    <3>4. q + 1 = k
      BY <3>1 DEF q
    <3>5. QED BY <3>2, <3>3, <3>4 DEF q, top
  <2>7. Len(c[k]) = j
    BY <2>5, <2>6
  <2>8. l = LimitsOf(c)
    BY <2>1, <2>6, <2>7 DEF LimitsOf, Last
  <2> DEFINE n == Len(b) - 1
             h == Len(b[Len(b)])
  <2>9. /\ n \in Nat /\ k \in Nat /\ k - 1 \in 0 .. n /\ j \in 1 .. SlabSize /\ h \in 1 .. SlabSize
        /\ k - 1 = n => j <= h
        /\ Filled(b) = Shape(n, h)
    <3>1. b # <<>>
      BY <2>1
    <3>2. QED BY <2>1, <2>2, <3>1, BlockShape
  <2> HIDE DEF n, h
  <2>10. Filled(c) = Filled(b) \ From(b, p)
    <3>1. From(b, p) = {s \in Filled(b) : s[1] > k \/ (s[1] = k /\ s[2] > j)}
      BY <2>3 DEF From, k, j
    <3>2. Shape(k - 1, j) = {s \in Shape(n, h) : ~ (s[1] > k \/ (s[1] = k /\ s[2] > j))}
      BY <2>9, ShapeCut
    <3>3. QED BY <2>6, <2>9, <3>1, <3>2
  <2>11. ASSUME NEW t \in Filled(c)
         PROVE  c[t[1]][t[2]] = b[t[1]][t[2]]
    <3>1. \/ t[1] \in 1 .. k - 1
          \/ t[1] = k /\ t[2] \in 1 .. j
      BY <2>1, <2>6 DEF Shape
    <3>2. QED BY <2>5, <2>6, <3>1
  <2>12. ASSUME NEW m, IsEndIn(b, m), NotAfter(m.next, p)
         PROVE  IsEndIn(c, m)
    <3>1. CASE m = NoLimits
      BY <3>1 DEF IsEndIn
    <3>2. CASE m # NoLimits
      <4>1. /\ m.next.slab \in 1 .. Len(b) /\ m.next.slot \in 1 .. Len(b[m.next.slab])
            /\ m.limit = [slab |-> m.next.slab, slot |-> SlabSize]
        BY <2>12, <3>2 DEF IsEndIn
      <4>2. m.next.slab < k \/ (m.next.slab = k /\ m.next.slot <= j)
        BY <2>12 DEF NotAfter, k, j
      <4>3. CASE m.next.slab < k
        <5>1. m.next.slab \in 1 .. k - 1 /\ m.next.slab \in 1 .. k
          BY <2>1, <2>2, <4>1, <4>3
        <5>2. c[m.next.slab] = b[m.next.slab]
          BY <2>6, <5>1
        <5>3. QED BY <2>6, <4>1, <5>1, <5>2 DEF IsEndIn
      <4>4. CASE m.next.slab = k /\ m.next.slot <= j
        <5>1. m.next.slot \in 1 .. j /\ k \in 1 .. k
          BY <2>1, <2>2, <4>1, <4>4
        <5>2. QED BY <2>6, <2>7, <4>1, <4>4, <5>1 DEF IsEndIn
      <4>5. QED BY <4>2, <4>3, <4>4
    <3>3. QED BY <3>1, <3>2
  <2>13. QED BY <2>6, <2>8, <2>10, <2>11, <2>12 DEF c, p
<1>3. QED BY <1>1, <1>2
(* What an object is held by: the slots among S, and the smart pointers.   *)
HeldIn(block, S, o) == {s \in S : block[s[1]][s[2]] = o}
HeldBy(o) == {p \in SmartPtrs : smart[p] = o}

LEMMA HeldByFinite == \A o : IsFiniteSet(HeldBy(o)) /\ Cardinality(HeldBy(o)) \in Nat
<1>1. QED BY SmartPtrsAssumption, FS_Subset, FS_CardinalityType DEF HeldBy

LEMMA OccurrencesFinite ==
  ASSUME NEW b, NEW S, IsFiniteSet(S), NEW o
  PROVE  IsFiniteSet(HeldIn(b, S, o)) /\ Occurrences(b, S, o) = Cardinality(HeldIn(b, S, o))
         /\ Occurrences(b, S, o) \in Nat
<1>1. HeldIn(b, S, o) \in SUBSET S
  BY DEF HeldIn
<1>2. QED BY <1>1, FS_Subset, FS_CardinalityType DEF HeldIn, Occurrences

(* Equal contents count alike. *)
LEMMA OccurrencesSame ==
  ASSUME NEW b, NEW c, NEW S, \A s \in S : b[s[1]][s[2]] = c[s[1]][s[2]], NEW o
  PROVE  Occurrences(b, S, o) = Occurrences(c, S, o)
<1>1. {s \in S : b[s[1]][s[2]] = o} = {s \in S : c[s[1]][s[2]] = o}
  OBVIOUS
<1>2. QED BY <1>1 DEF Occurrences

LEMMA OccurrencesAdded ==
  ASSUME NEW b, NEW S, IsFiniteSet(S), NEW s, s \notin S, NEW o
  PROVE  Occurrences(b, S \cup {s}, o) =
           Occurrences(b, S, o) + (IF b[s[1]][s[2]] = o THEN 1 ELSE 0)
<1>1. /\ IsFiniteSet(HeldIn(b, S, o)) /\ Occurrences(b, S, o) = Cardinality(HeldIn(b, S, o))
      /\ Occurrences(b, S, o) \in Nat
  BY OccurrencesFinite
<1>2. s \notin HeldIn(b, S, o)
  BY DEF HeldIn
<1>3. Occurrences(b, S \cup {s}, o) = Cardinality(HeldIn(b, S \cup {s}, o))
  BY DEF HeldIn, Occurrences
<1>4. CASE b[s[1]][s[2]] = o
  <2>1. HeldIn(b, S \cup {s}, o) = HeldIn(b, S, o) \cup {s}
    BY <1>4 DEF HeldIn
  <2>2. Cardinality(HeldIn(b, S, o) \cup {s}) = Cardinality(HeldIn(b, S, o)) + 1
    BY <1>1, <1>2, FS_AddElement
  <2>3. QED BY <1>1, <1>3, <1>4, <2>1, <2>2
<1>5. CASE b[s[1]][s[2]] # o
  <2>1. HeldIn(b, S \cup {s}, o) = HeldIn(b, S, o)
    BY <1>5 DEF HeldIn
  <2>2. QED BY <1>1, <1>3, <1>5, <2>1
<1>6. QED BY <1>4, <1>5

LEMMA OccurrencesSplit ==
  ASSUME NEW b, NEW S, IsFiniteSet(S), NEW T \in SUBSET S, NEW o
  PROVE  Occurrences(b, S, o) = Occurrences(b, S \ T, o) + Occurrences(b, T, o)
<1> DEFINE H == HeldIn(b, S, o)
           K == HeldIn(b, T, o)
<1>1. /\ IsFiniteSet(H) /\ Occurrences(b, S, o) = Cardinality(H) /\ Occurrences(b, S, o) \in Nat
  BY OccurrencesFinite
<1>2. IsFiniteSet(T)
  BY FS_Subset
<1>3. /\ IsFiniteSet(K) /\ Occurrences(b, T, o) = Cardinality(K) /\ Occurrences(b, T, o) \in Nat
  BY <1>2, OccurrencesFinite
<1>4. H \ K = HeldIn(b, S \ T, o) /\ H \cap K = K
  BY DEF HeldIn
<1>5. Occurrences(b, S \ T, o) = Cardinality(H \ K)
  BY <1>4 DEF HeldIn, Occurrences
<1> HIDE DEF H, K
<1>6. Cardinality(H \ K) = Cardinality(H) - Cardinality(K)
  <2>1. H \cap K = K
    BY <1>4
  <2>2. Cardinality(H \ K) = Cardinality(H) - Cardinality(H \cap K)
    BY <1>1, FS_Difference
  <2>3. QED BY <2>1, <2>2
<1>7. QED BY <1>1, <1>3, <1>5, <1>6

-----------------------------------------------------------------------------
LEMMA HandleInvSuffices == HandleInv => AccountsAgree
<1> SUFFICES ASSUME HandleInv PROVE AccountsAgree
  OBVIOUS
<1> USE SlabAssumption
<1>1. IsBlock(slabs) /\ limits = LimitsOf(slabs)
  BY DEF HandleInv, HandleTypeOK, IsBlock
<1>2. NumberOfItems(slabs) = Cardinality(Filled(slabs))
  BY <1>1, FilledCounted
<1>3. NumberOfHandles = NumberOfItems(slabs)
  <2>1. CASE slabs = <<>>
    BY <1>1, <2>1 DEF NumberOfHandles, NumberOfItems, LimitsOf
  <2>2. CASE slabs # <<>>
    <3> DEFINE n == Len(slabs)
               m == Len(slabs[Len(slabs)])
    <3>1. n \in Nat \ {0} /\ m \in 1 .. SlabSize
      BY <1>1, <2>2, BlockShape
    <3>2. /\ limits.limit.slab = n /\ limits.limit.slot = SlabSize /\ limits.next.slot = m
          /\ limits.next.slab = n
      BY <1>1, <2>2 DEF LimitsOf, Last
    <3>3. limits # NoLimits
      BY <3>1, <3>2 DEF NoLimits, NullPtr
    <3>4. NumberOfItems(slabs) = SlabSize * (n - 1) + m
      BY <2>2 DEF NumberOfItems, Last
    <3>5. NumberOfHandles = n * SlabSize - (SlabSize - m)
      BY <3>2, <3>3 DEF NumberOfHandles
    <3> HIDE DEF n, m
    <3>6. n * SlabSize = SlabSize * (n - 1) + SlabSize /\ SlabSize * (n - 1) \in Nat
      BY <3>1
    <3>7. QED BY <3>1, <3>4, <3>5, <3>6
  <2>3. QED BY <2>1, <2>2
<1>4. QED BY <1>1, <1>2, <1>3 DEF HandleInv, AccountsAgree, LimitsAgree

LEMMA HandleInvInit == HandleInit => HandleInv
<1> SUFFICES ASSUME HandleInit PROVE HandleInv
  OBVIOUS
<1> USE SlabAssumption DEF HandleInit
<1>1. HandleTypeOK
  <2>1. limits \in Limits
    BY DEF Limits, Pointer, NoLimits, NullPtr
  <2>2. slabs \in Seq(Seq(HandleObjects)) /\ openScopes \in Seq(Limits)
    OBVIOUS
  <2>3. QED BY <2>1, <2>2 DEF HandleTypeOK
<1>2. SlabsFit(slabs) /\ limits = LimitsOf(slabs) /\ EndsKept /\ EndsRise
  BY DEF SlabsFit, LimitsOf, EndsKept, EndsRise
<1>3. RefCountsAgree
  <2> SUFFICES ASSUME NEW o \in HandleObjects
               PROVE  0 = Occurrences(slabs, Filled(slabs), o) + Cardinality(HeldBy(o))
    BY DEF RefCountsAgree, HeldBy
  <2>1. HeldBy(o) = {} /\ HeldIn(slabs, Filled(slabs), o) = {}
    BY DEF HeldBy, HeldIn, Filled
  <2>2. Occurrences(slabs, Filled(slabs), o) = Cardinality({})
    BY <2>1 DEF Occurrences, HeldIn
  <2>3. Cardinality({}) = 0 /\ Cardinality(HeldBy(o)) = Cardinality({})
    BY <2>1, FS_EmptySet
  <2>4. QED BY <2>2, <2>3
<1>4. QED BY <1>1, <1>2, <1>3 DEF HandleInv

(* Where the block ends is after every end that a scope kept. *)
LEMMA EndsBeforeLimits ==
  ASSUME NEW b, IsBlock(b), NEW l, IsEndIn(b, l)
  PROVE  NotAfter(l.next, LimitsOf(b).next) /\ IsEndIn(b, LimitsOf(b)) /\ LimitsOf(b) \in Limits
<1> USE SlabAssumption
<1>1. CASE b = <<>>
  BY <1>1 DEF LimitsOf, IsEndIn, NoLimits, NullPtr, NotAfter, Limits, Pointer
<1>2. CASE b # <<>>
  <2> DEFINE n == Len(b)
             m == Len(b[Len(b)])
  <2>1. n \in Nat \ {0} /\ m \in 1 .. SlabSize
    BY <1>2, BlockShape
  <2>2. LimitsOf(b) = [next |-> [slab |-> n, slot |-> m], limit |-> [slab |-> n, slot |-> SlabSize]]
    BY <1>2 DEF LimitsOf, Last
  <2>3. IsEndIn(b, LimitsOf(b)) /\ LimitsOf(b) \in Limits
    BY <2>1, <2>2 DEF IsEndIn, Limits, Pointer
  <2>4. NotAfter(l.next, LimitsOf(b).next)
    <3>1. CASE l = NoLimits
      BY <2>1, <2>2, <3>1 DEF NoLimits, NullPtr, NotAfter
    <3>2. CASE l # NoLimits
      BY <2>1, <2>2, <3>2 DEF IsEndIn, NotAfter
    <3>3. QED BY <3>1, <3>2
  <2>5. QED BY <2>3, <2>4
<1>3. QED BY <1>1, <1>2

LEMMA OpenKeeps ==
  ASSUME HandleInv, OpenHandleScope
  PROVE  HandleInv'
<1> USE SlabAssumption
<1>1. /\ openScopes' = Append(openScopes, limits) /\ scopeSeen' = TRUE
      /\ slabs' = slabs /\ limits' = limits /\ refCount' = refCount /\ smart' = smart
  BY DEF OpenHandleScope
<1>2. openScopes \in Seq(Limits) /\ limits \in Limits /\ limits = LimitsOf(slabs)
  BY DEF HandleInv, HandleTypeOK
<1> DEFINE d == Len(openScopes)
<1>3. /\ openScopes' \in Seq(Limits) /\ d \in Nat
      /\ DOMAIN openScopes = 1 .. d /\ DOMAIN openScopes' = 1 .. d + 1
      /\ openScopes'[d + 1] = limits
      /\ \A i \in 1 .. d : openScopes'[i] = openScopes[i]
  BY <1>1, <1>2
<1> HIDE DEF d
<1>4. IsBlock(slabs)
  BY DEF HandleInv, HandleTypeOK, IsBlock
<1>5. IsEndIn(slabs, NoLimits)
  BY DEF IsEndIn
<1>6. IsEndIn(slabs, limits)
  BY <1>2, <1>4, <1>5, EndsBeforeLimits
<1>7. EndsKept'
  BY <1>1, <1>3, <1>6 DEF HandleInv, EndsKept
<1>8. EndsRise'
  <2> SUFFICES ASSUME NEW i \in 1 .. d + 1, NEW j \in 1 .. d + 1, i < j
               PROVE  NotAfter(openScopes'[i].next, openScopes'[j].next)
    BY <1>3 DEF EndsRise
  <2>1. CASE j \in 1 .. d
    BY <1>3, <2>1 DEF HandleInv, EndsRise
  <2>2. CASE j = d + 1
    <3>1. i \in 1 .. d
      BY <1>3, <2>2
    <3>2. IsEndIn(slabs, openScopes[i])
      BY <1>3, <3>1 DEF HandleInv, EndsKept
    <3>3. QED BY <1>2, <1>3, <1>4, <2>2, <3>1, <3>2, EndsBeforeLimits
  <2>3. QED BY <1>3, <2>1, <2>2
<1>9. HandleTypeOK'
  BY <1>1, <1>3 DEF HandleInv, HandleTypeOK
<1>10. SlabsFit(slabs)' /\ (limits = LimitsOf(slabs))'
  BY <1>1 DEF HandleInv
<1>11. RefCountsAgree'
  BY <1>1 DEF HandleInv, RefCountsAgree
<1>12. QED BY <1>7, <1>8, <1>9, <1>10, <1>11 DEF HandleInv
LEMMA CreateKeeps ==
  ASSUME HandleInv, NEW o \in HandleObjects, CreateHandle(o)
  PROVE  HandleInv'
<1> USE SlabAssumption
<1> DEFINE c == AddTo(slabs, o)
           s == <<Len(c), Len(c[Len(c)])>>
<1>1. /\ slabs' = c /\ limits' = LimitsOf(c) /\ refCount' = [refCount EXCEPT ![o] = @ + 1]
      /\ scopeSeen' = scopeSeen /\ openScopes' = openScopes /\ smart' = smart
  BY DEF CreateHandle
<1>2. IsBlock(slabs) /\ o \in HandleObjects
  BY DEF HandleInv, HandleTypeOK, IsBlock
<1>3. /\ IsBlock(c) /\ c # <<>>
      /\ Filled(c) = Filled(slabs) \cup {s} /\ s \notin Filled(slabs)
      /\ c[s[1]][s[2]] = o
      /\ \A t \in Filled(slabs) : c[t[1]][t[2]] = slabs[t[1]][t[2]]
      /\ \A l : IsEndIn(slabs, l) => IsEndIn(c, l)
  BY <1>2, AddFills
<1>4. IsFiniteSet(Filled(slabs))
  BY <1>2, FilledCounted
<1> HIDE DEF c, s
<1>5. LimitsOf(c) \in Limits
  BY <1>3, EndsBeforeLimits DEF IsEndIn
<1>6. HandleTypeOK'
  BY <1>1, <1>3, <1>5 DEF HandleInv, HandleTypeOK, IsBlock
<1>7. SlabsFit(slabs)' /\ (limits = LimitsOf(slabs))' /\ EndsKept' /\ EndsRise'
  BY <1>1, <1>3 DEF HandleInv, IsBlock, EndsKept, EndsRise
<1>8. RefCountsAgree'
  <2> SUFFICES ASSUME NEW x \in HandleObjects
               PROVE  refCount'[x] = Occurrences(c, Filled(c), x) + Cardinality(HeldBy(x))
    BY <1>1 DEF RefCountsAgree, HeldBy
  <2>1. refCount[x] = Occurrences(slabs, Filled(slabs), x) + Cardinality(HeldBy(x))
    BY DEF HandleInv, RefCountsAgree, HeldBy
  <2>2. Occurrences(c, Filled(slabs), x) = Occurrences(slabs, Filled(slabs), x)
    BY <1>3, OccurrencesSame
  <2>3. Occurrences(c, Filled(c), x) =
          Occurrences(c, Filled(slabs), x) + (IF o = x THEN 1 ELSE 0)
    BY <1>3, <1>4, OccurrencesAdded
  <2>4. refCount'[x] = refCount[x] + (IF o = x THEN 1 ELSE 0)
    BY <1>1 DEF HandleInv, HandleTypeOK
  <2>5. Occurrences(slabs, Filled(slabs), x) \in Nat /\ Cardinality(HeldBy(x)) \in Nat
    BY <1>4, OccurrencesFinite, HeldByFinite
  <2>6. QED BY <2>1, <2>2, <2>3, <2>4, <2>5
<1>9. QED BY <1>6, <1>7, <1>8 DEF HandleInv

(* What leaving a scope does to the books: the ends that the scopes below  *)
(* kept are in the block it leaves.                                        *)
LEMMA LeaveEnds ==
  ASSUME HandleInv, openScopes # <<>>, openScopes' = Front(openScopes)
  PROVE  LET prev == Last(openScopes)
             c    == Before(slabs, prev.next)
         IN  /\ prev \in Limits /\ IsEndIn(slabs, prev)
             /\ openScopes' \in Seq(Limits) /\ EndsRise'
             /\ \A i \in DOMAIN openScopes' :
                  IsEndIn(slabs, openScopes'[i]) /\ IsEndIn(c, openScopes'[i])
<1> USE SlabAssumption
<1> DEFINE prev == Last(openScopes)
           c == Before(slabs, prev.next)
           d == Len(openScopes)
<1>1. openScopes \in Seq(Limits) /\ IsBlock(slabs)
  BY DEF HandleInv, HandleTypeOK, IsBlock
<1>2. /\ d \in Nat \ {0} /\ prev = openScopes[d] /\ DOMAIN openScopes = 1 .. d
      /\ prev \in Limits
  BY <1>1 DEF Last
<1>3. /\ openScopes' \in Seq(Limits) /\ DOMAIN openScopes' = 1 .. d - 1
      /\ \A i \in 1 .. d - 1 : openScopes'[i] = openScopes[i]
  BY <1>1, <1>2 DEF Front
<1> HIDE DEF d, prev, c
<1>4. EndsRise'
  BY <1>2, <1>3 DEF HandleInv, EndsRise
<1>5. IsEndIn(slabs, prev)
  BY <1>2 DEF HandleInv, EndsKept
<1>6. ASSUME NEW i \in DOMAIN openScopes'
      PROVE  IsEndIn(slabs, openScopes'[i]) /\ IsEndIn(c, openScopes'[i])
  <2>1. /\ i \in 1 .. d /\ d \in 1 .. d /\ i < d /\ openScopes'[i] = openScopes[i]
    BY <1>2, <1>3
  <2>2. IsEndIn(slabs, openScopes[i]) /\ NotAfter(openScopes[i].next, prev.next)
    BY <1>2, <2>1 DEF HandleInv, EndsKept, EndsRise
  <2>3. IsEndIn(c, openScopes[i])
    BY <1>1, <1>2, <1>5, <2>2, BeforeKeeps DEF c
  <2>4. QED BY <2>1, <2>2, <2>3
<1>7. QED BY <1>2, <1>3, <1>4, <1>5, <1>6 DEF c, prev

LEMMA DestroyKeeps ==
  ASSUME HandleInv, DestroyHandleScope
  PROVE  HandleInv'
<1> USE SlabAssumption
<1> DEFINE prev == Last(openScopes)
           c == Before(slabs, prev.next)
           gone == From(slabs, prev.next)
<1>1. /\ openScopes # <<>> /\ openScopes' = Front(openScopes)
      /\ limits' = prev /\ scopeSeen' = scopeSeen /\ smart' = smart
      /\ limits = prev => slabs' = slabs /\ refCount' = refCount
      /\ limits # prev => slabs' = c /\ refCount' = ReleasedFrom(slabs, prev.next)
  BY DEF DestroyHandleScope, Leave
<1>2. IsBlock(slabs) /\ limits = LimitsOf(slabs)
  BY DEF HandleInv, HandleTypeOK, IsBlock
<1>3. /\ prev \in Limits /\ IsEndIn(slabs, prev)
      /\ openScopes' \in Seq(Limits) /\ EndsRise'
      /\ \A i \in DOMAIN openScopes' :
           IsEndIn(slabs, openScopes'[i]) /\ IsEndIn(c, openScopes'[i])
  BY <1>1, LeaveEnds
<1> HIDE DEF prev, c
<1>4. CASE limits = prev
  <2>1. HandleTypeOK'
    BY <1>1, <1>3, <1>4 DEF HandleInv, HandleTypeOK
  <2>2. SlabsFit(slabs)' /\ (limits = LimitsOf(slabs))' /\ EndsKept' /\ RefCountsAgree'
    BY <1>1, <1>2, <1>3, <1>4 DEF HandleInv, EndsKept, RefCountsAgree
  <2>3. QED BY <1>3, <2>1, <2>2 DEF HandleInv
<1>5. CASE limits # prev
  <2>1. /\ IsBlock(c) /\ prev = LimitsOf(c) /\ Filled(c) = Filled(slabs) \ gone
        /\ \A t \in Filled(c) : c[t[1]][t[2]] = slabs[t[1]][t[2]]
    BY <1>2, <1>3, BeforeKeeps DEF c
  <2>2. gone \in SUBSET Filled(slabs) /\ IsFiniteSet(Filled(slabs))
    BY <1>2, FilledCounted DEF From
  <2>3. IsFiniteSet(Filled(c))
    BY <2>1, FilledCounted
  <2>4. ASSUME NEW x \in HandleObjects
        PROVE  refCount'[x] = Occurrences(c, Filled(c), x) + Cardinality(HeldBy(x))
    <3>1. refCount[x] = Occurrences(slabs, Filled(slabs), x) + Cardinality(HeldBy(x))
      BY DEF HandleInv, RefCountsAgree, HeldBy
    <3>2. refCount'[x] = refCount[x] - Occurrences(slabs, gone, x)
      BY <1>1, <1>5 DEF ReleasedFrom
    <3>3. Occurrences(slabs, Filled(slabs), x) =
            Occurrences(slabs, Filled(c), x) + Occurrences(slabs, gone, x)
      BY <2>1, <2>2, OccurrencesSplit
    <3>4. Occurrences(c, Filled(c), x) = Occurrences(slabs, Filled(c), x)
      BY <2>1, OccurrencesSame
    <3>5. /\ Occurrences(slabs, Filled(c), x) \in Nat /\ Occurrences(slabs, gone, x) \in Nat
          /\ Cardinality(HeldBy(x)) \in Nat
      BY <2>2, <2>3, FS_Subset, OccurrencesFinite, HeldByFinite
    <3>6. QED BY <3>1, <3>2, <3>3, <3>4, <3>5
  <2>5. RefCountsAgree'
    BY <1>1, <1>5, <2>4 DEF RefCountsAgree, HeldBy
  <2>6. refCount' \in [HandleObjects -> Nat]
    <3>1. ASSUME NEW x \in HandleObjects PROVE refCount'[x] \in Nat
      BY <2>3, <2>4, OccurrencesFinite, HeldByFinite
    <3>2. refCount' = [x \in HandleObjects |-> refCount'[x]]
      BY <1>1, <1>5 DEF ReleasedFrom
    <3>3. QED BY <3>1, <3>2
  <2>7. HandleTypeOK'
    BY <1>1, <1>3, <1>5, <2>1, <2>6 DEF HandleInv, HandleTypeOK, IsBlock
  <2>8. SlabsFit(slabs)' /\ (limits = LimitsOf(slabs))' /\ EndsKept'
    BY <1>1, <1>3, <1>5, <2>1 DEF EndsKept, IsBlock
  <2>9. QED BY <1>3, <2>5, <2>7, <2>8 DEF HandleInv
<1>6. QED BY <1>4, <1>5

(* A handle of the scope that closes is after its end: the scope is not    *)
(* empty, and what it leaves is released, all but the value that escapes.  *)
LEMMA CloseKeeps ==
  ASSUME HandleInv, NEW k \in DOMAIN slabs, NEW n \in DOMAIN slabs[k], CloseHandleScope(k, n)
  PROVE  HandleInv'
<1> USE SlabAssumption
<1> DEFINE prev == Last(openScopes)
           p == [slab |-> k, slot |-> n]
           s == <<k, n>>
           v == slabs[k][n]
           esc == Escaping(p)
           c == Before(slabs, prev.next)
           e == AddTo(c, v)
           new == <<Len(e), Len(e[Len(e)])>>
           gone == From(slabs, prev.next)
<1>1. /\ openScopes # <<>> /\ InScope(p) /\ openScopes' = Front(openScopes)
      /\ limits = prev => refCount' = refCount
      /\ limits # prev => refCount' = ReleasedFrom(esc, prev.next)
      /\ slabs' = e /\ limits' = LimitsOf(e) /\ scopeSeen' = scopeSeen /\ smart' = smart
  BY DEF CloseHandleScope, Leave
<1>2. IsBlock(slabs) /\ slabs \in Seq(Seq(HandleObjects)) /\ limits = LimitsOf(slabs)
  BY DEF HandleInv, HandleTypeOK, IsBlock
<1>3. /\ prev \in Limits /\ IsEndIn(slabs, prev)
      /\ openScopes' \in Seq(Limits) /\ EndsRise'
      /\ \A i \in DOMAIN openScopes' :
           IsEndIn(slabs, openScopes'[i]) /\ IsEndIn(c, openScopes'[i])
  BY <1>1, LeaveEnds
<1>4. /\ k \in 1 .. Len(slabs) /\ n \in 1 .. Len(slabs[k]) /\ n \in 1 .. SlabSize
      /\ v \in HandleObjects
      /\ slabs[k] \in Seq(HandleObjects)
  BY <1>2 DEF IsBlock, SlabsFit
<1>5. s \in Filled(slabs) /\ s[1] = k /\ s[2] = n
  BY <1>4 DEF Filled
<1>6. k > prev.next.slab \/ (k = prev.next.slab /\ n > prev.next.slot)
  BY <1>1 DEF InScope
<1>7. s \in gone
  BY <1>5, <1>6 DEF From
<1>8. limits # prev
  <2> SUFFICES ASSUME limits = prev PROVE FALSE
    OBVIOUS
  <2>1. slabs # <<>>
    BY <1>4
  <2>2. prev.next.slab = Len(slabs) /\ prev.next.slot = Len(slabs[Len(slabs)])
    BY <1>2, <2>1 DEF LimitsOf, Last
  <2>3. Len(slabs) \in Nat /\ Len(slabs[k]) \in Nat
    BY <1>2, <1>4
  <2> HIDE DEF prev
  <2>4. QED BY <1>4, <1>6, <2>2, <2>3
<1>9. /\ DOMAIN esc = DOMAIN slabs /\ Len(esc) = Len(slabs)
      /\ \A i \in 1 .. Len(slabs) : Len(esc[i]) = Len(slabs[i])
      /\ \A i \in 1 .. Len(slabs) : i # k => esc[i] = slabs[i]
      /\ esc[k] = [slabs[k] EXCEPT ![n] = NoObject]
  BY <1>2, <1>4 DEF Escaping
<1>10. /\ esc[k][n] = NoObject
       /\ \A t \in Filled(slabs) : t # s => esc[t[1]][t[2]] = slabs[t[1]][t[2]]
  <2>1. esc[k][n] = NoObject
    BY <1>4, <1>9
  <2>2. ASSUME NEW t \in Filled(slabs), t # s
        PROVE  esc[t[1]][t[2]] = slabs[t[1]][t[2]]
    <3>1. /\ t = <<t[1], t[2]>> /\ t[1] \in 1 .. Len(slabs)
      BY DEF Filled
    <3>2. CASE t[1] # k
      BY <1>9, <3>1, <3>2
    <3>3. CASE t[1] = k
      <4>1. t[2] # n
        BY <2>2, <3>1, <3>3
      <4>2. t[2] \in DOMAIN slabs[k]
        BY <1>4, <3>3 DEF Filled
      <4>3. esc[k][t[2]] = slabs[k][t[2]]
        BY <1>9, <4>1, <4>2
      <4>4. QED BY <3>3, <4>3
    <3>4. QED BY <3>2, <3>3
  <2>3. QED BY <2>1, <2>2
<1>11. Filled(esc) = Filled(slabs)
  BY <1>9 DEF Filled
<1>12. From(esc, prev.next) = gone
  BY <1>11 DEF From
<1> HIDE DEF prev, esc, c, v, e, new, gone, s
<1>13. /\ IsBlock(c) /\ Filled(c) = Filled(slabs) \ gone
       /\ \A t \in Filled(c) : c[t[1]][t[2]] = slabs[t[1]][t[2]]
  BY <1>2, <1>3, BeforeKeeps DEF c, gone
<1>14. /\ IsBlock(e) /\ e # <<>>
       /\ Filled(e) = Filled(c) \cup {new} /\ new \notin Filled(c)
       /\ e[new[1]][new[2]] = v
       /\ \A t \in Filled(c) : e[t[1]][t[2]] = c[t[1]][t[2]]
       /\ \A l : IsEndIn(c, l) => IsEndIn(e, l)
  BY <1>4, <1>13, AddFills DEF e, new
<1>15. gone \in SUBSET Filled(slabs) /\ IsFiniteSet(Filled(slabs)) /\ IsFiniteSet(gone)
  BY <1>2, FilledCounted, FS_Subset DEF From, gone
<1>16. IsFiniteSet(Filled(c)) /\ IsFiniteSet(Filled(e))
  BY <1>13, <1>14, FilledCounted
<1>17. ASSUME NEW x \in HandleObjects
       PROVE  refCount'[x] = Occurrences(e, Filled(e), x) + Cardinality(HeldBy(x))
  <2> DEFINE rest == gone \ {s}
             one == IF v = x THEN 1 ELSE 0
  <2>1. refCount[x] = Occurrences(slabs, Filled(slabs), x) + Cardinality(HeldBy(x))
    BY DEF HandleInv, RefCountsAgree, HeldBy
  <2>2. refCount'[x] = refCount[x] - Occurrences(esc, gone, x)
    BY <1>1, <1>8, <1>12 DEF ReleasedFrom
  <2>3. Occurrences(slabs, Filled(slabs), x) =
          Occurrences(slabs, Filled(c), x) + Occurrences(slabs, gone, x)
    BY <1>13, <1>15, OccurrencesSplit
  <2>4. IsFiniteSet(rest) /\ s \notin rest /\ gone = rest \cup {s}
    BY <1>7, <1>15, FS_RemoveElement
  <2>5. slabs[s[1]][s[2]] = v /\ esc[s[1]][s[2]] = NoObject
    BY <1>10 DEF s, v
  <2> HIDE DEF rest, one
  <2>6. Occurrences(slabs, gone, x) = Occurrences(slabs, rest, x) + one
    BY <2>4, <2>5, OccurrencesAdded DEF one
  <2>7. Occurrences(esc, gone, x) = Occurrences(esc, rest, x) + 0
    <3>1. NoObject # x
      OBVIOUS
    <3>2. Occurrences(esc, rest \cup {s}, x) =
            Occurrences(esc, rest, x) + (IF esc[s[1]][s[2]] = x THEN 1 ELSE 0)
      BY <2>4, OccurrencesAdded
    <3>3. (IF esc[s[1]][s[2]] = x THEN 1 ELSE 0) = 0
      BY <2>5, <3>1
    <3>4. QED BY <2>4, <3>2, <3>3
  <2>8. Occurrences(esc, rest, x) = Occurrences(slabs, rest, x)
    <3>1. \A t \in rest : esc[t[1]][t[2]] = slabs[t[1]][t[2]]
      BY <1>10, <1>15 DEF rest
    <3>2. QED BY <3>1, OccurrencesSame
  <2>9. Occurrences(e, Filled(e), x) = Occurrences(e, Filled(c), x) + one
    BY <1>14, <1>16, OccurrencesAdded DEF one
  <2>10. Occurrences(e, Filled(c), x) = Occurrences(slabs, Filled(c), x)
    <3>1. \A t \in Filled(c) : e[t[1]][t[2]] = slabs[t[1]][t[2]]
      BY <1>13, <1>14
    <3>2. QED BY <3>1, OccurrencesSame
  <2>11. /\ Occurrences(slabs, Filled(c), x) \in Nat /\ Occurrences(slabs, rest, x) \in Nat
         /\ Cardinality(HeldBy(x)) \in Nat /\ one \in Nat
    BY <1>16, <2>4, OccurrencesFinite, HeldByFinite DEF one
  <2>12. QED BY <2>1, <2>2, <2>3, <2>6, <2>7, <2>8, <2>9, <2>10, <2>11
<1>18. RefCountsAgree'
  BY <1>1, <1>17 DEF RefCountsAgree, HeldBy
<1>19. refCount' \in [HandleObjects -> Nat]
  <2>1. ASSUME NEW x \in HandleObjects PROVE refCount'[x] \in Nat
    BY <1>16, <1>17, OccurrencesFinite, HeldByFinite
  <2>2. refCount' = [x \in HandleObjects |-> refCount'[x]]
    BY <1>1, <1>8 DEF ReleasedFrom
  <2>3. QED BY <2>1, <2>2
<1>20. LimitsOf(e) \in Limits
  BY <1>14, EndsBeforeLimits DEF IsEndIn
<1>21. HandleTypeOK'
  BY <1>1, <1>3, <1>14, <1>19, <1>20 DEF HandleInv, HandleTypeOK, IsBlock
<1>22. SlabsFit(slabs)' /\ (limits = LimitsOf(slabs))' /\ EndsKept'
  BY <1>1, <1>3, <1>14 DEF EndsKept, IsBlock
<1>23. QED BY <1>3, <1>18, <1>21, <1>22 DEF HandleInv

LEMMA SetSmartPtrKeeps ==
  ASSUME HandleInv, NEW p \in SmartPtrs, NEW o \in HandleObjects \cup {NoObject}, SetSmartPtr(p, o)
  PROVE  HandleInv'
<1> USE SlabAssumption
<1> DEFINE old == smart[p]
           Held(x) == {q \in SmartPtrs : smart'[q] = x}
<1>1. /\ o # old /\ smart' = [smart EXCEPT ![p] = o]
      /\ refCount' = [x \in HandleObjects |-> refCount[x] + (IF x = o   THEN 1 ELSE 0)
                                                          - (IF x = old THEN 1 ELSE 0)]
      /\ slabs' = slabs /\ limits' = limits /\ scopeSeen' = scopeSeen /\ openScopes' = openScopes
  BY DEF SetSmartPtr
<1>2. smart \in [SmartPtrs -> HandleObjects \cup {NoObject}] /\ refCount \in [HandleObjects -> Nat]
  BY DEF HandleInv, HandleTypeOK
<1>3. \A q \in SmartPtrs : smart'[q] = IF q = p THEN o ELSE smart[q]
  BY <1>1, <1>2
<1>4. IsFiniteSet(Filled(slabs))
  BY FilledCounted DEF HandleInv, HandleTypeOK, IsBlock
<1>5. ASSUME NEW x \in HandleObjects
      PROVE  /\ refCount'[x] = Occurrences(slabs, Filled(slabs), x) + Cardinality(Held(x))
             /\ refCount'[x] \in Nat
  <2>1. refCount[x] = Occurrences(slabs, Filled(slabs), x) + Cardinality(HeldBy(x))
    BY DEF HandleInv, RefCountsAgree, HeldBy
  <2>2. Occurrences(slabs, Filled(slabs), x) \in Nat
    BY <1>4, OccurrencesFinite
  <2>3. IsFiniteSet(HeldBy(x)) /\ Cardinality(HeldBy(x)) \in Nat
    BY HeldByFinite
  <2>4. CASE x = o
    <3>1. Held(x) = HeldBy(x) \cup {p} /\ p \notin HeldBy(x)
      BY <1>1, <1>3, <2>4 DEF HeldBy
    <3>2. Cardinality(HeldBy(x) \cup {p}) = Cardinality(HeldBy(x)) + 1
      BY <2>3, <3>1, FS_AddElement
    <3>3. refCount'[x] = refCount[x] + 1
      BY <1>1, <1>2, <2>4
    <3> HIDE DEF Held
    <3>4. QED BY <2>1, <2>2, <2>3, <3>1, <3>2, <3>3
  <2>5. CASE x = old
    <3>1. Held(x) = HeldBy(x) \ {p} /\ p \in HeldBy(x)
      BY <1>1, <1>3, <2>5 DEF HeldBy
    <3>2. Cardinality(HeldBy(x) \ {p}) = Cardinality(HeldBy(x)) - 1
      BY <2>3, <3>1, FS_RemoveElement
    <3>3. refCount'[x] = refCount[x] - 1
      BY <1>1, <1>2, <2>5
    <3>4. Cardinality(HeldBy(x) \ {p}) \in Nat
      BY <2>3, FS_RemoveElement, FS_CardinalityType
    <3> HIDE DEF Held
    <3>5. QED BY <2>1, <2>2, <2>3, <3>1, <3>2, <3>3, <3>4
  <2>6. CASE x # o /\ x # old
    <3>1. Held(x) = HeldBy(x)
      BY <1>1, <1>3, <2>6 DEF HeldBy
    <3>2. refCount'[x] = refCount[x]
      BY <1>1, <1>2, <2>6
    <3> HIDE DEF Held
    <3>3. QED BY <2>1, <2>2, <2>3, <3>1, <3>2
  <2>7. QED BY <2>4, <2>5, <2>6
<1>6. RefCountsAgree'
  BY <1>1, <1>5 DEF RefCountsAgree
<1>7. refCount' \in [HandleObjects -> Nat]
  <2>1. refCount' = [x \in HandleObjects |-> refCount'[x]]
    BY <1>1
  <2>2. QED BY <1>5, <2>1
<1>8. smart' \in [SmartPtrs -> HandleObjects \cup {NoObject}]
  BY <1>1, <1>2
<1>9. HandleTypeOK'
  BY <1>1, <1>7, <1>8 DEF HandleInv, HandleTypeOK
<1>10. SlabsFit(slabs)' /\ (limits = LimitsOf(slabs))' /\ EndsKept' /\ EndsRise'
  BY <1>1 DEF HandleInv, EndsKept, EndsRise
<1>11. QED BY <1>6, <1>9, <1>10 DEF HandleInv

LEMMA HandleInvStep == HandleInv /\ [HandleNext]_handleVars => HandleInv'
<1> SUFFICES ASSUME HandleInv, [HandleNext]_handleVars PROVE HandleInv'
  OBVIOUS
<1>1. CASE UNCHANGED handleVars
  BY <1>1 DEF handleVars, HandleInv, HandleTypeOK, EndsKept, EndsRise, RefCountsAgree
<1>2. CASE HandleNext
  BY <1>2, OpenKeeps, DestroyKeeps, CreateKeeps, CloseKeeps, SetSmartPtrKeeps DEF HandleNext
<1>3. QED BY <1>1, <1>2

(* Slabs, limits, what the scopes kept and reference counts fit together   *)
(* at every step.                                                          *)
THEOREM HandleInvAlways == HandleSpec => []HandleInv
<1>1. QED BY HandleInvInit, HandleInvStep, PTL DEF HandleSpec

(* However scopes nest, cross slabs and let values escape, the block ends  *)
(* where the limits say, both ways to count handles find what is there,    *)
(* and each object counts its slots and smart pointers.                    *)
THEOREM AccountsAgreeAlways == HandleSpec => []AccountsAgree
<1>1. QED BY HandleInvAlways, HandleInvSuffices, PTL
-----------------------------------------------------------------------------
(* That LocalHandles keeps the promise of HandleStack.                     *)

(* Where a frame begins: its scope kept these limits.                      *)
BeginLimits(f) == IF f = 1 THEN NoLimits ELSE openScopes[f - 1]

LEMMA BeginsInBlock ==
  ASSUME HandleInv
  PROVE  /\ IsBlock(slabs) /\ Len(openScopes) \in Nat
         /\ \A f \in 1 .. Len(openScopes) + 1 :
              /\ BeginLimits(f) \in Limits /\ IsEndIn(slabs, BeginLimits(f))
              /\ Begin(f) = BeginLimits(f).next /\ Begin(f) \in Pointer
         /\ \A f, g \in 1 .. Len(openScopes) + 1 : f < g => NotAfter(Begin(f), Begin(g))
<1> DEFINE d == Len(openScopes)
<1>1. /\ openScopes \in Seq(Limits) /\ d \in Nat /\ DOMAIN openScopes = 1 .. d
  BY DEF HandleInv, HandleTypeOK
<1>2. IsBlock(slabs)
  BY DEF HandleInv, HandleTypeOK, IsBlock
<1>3. \A f \in 1 .. d : openScopes[f] \in Limits /\ IsEndIn(slabs, openScopes[f])
  BY <1>1 DEF HandleInv, EndsKept
<1>4. \A f, g \in 1 .. d : f < g => NotAfter(openScopes[f].next, openScopes[g].next)
  BY <1>1 DEF HandleInv, EndsRise
<1> HIDE DEF d
<1>5. NoLimits \in Limits /\ IsEndIn(slabs, NoLimits) /\ NoLimits.next = NullPtr
  BY DEF NoLimits, NullPtr, Limits, Pointer, IsEndIn
<1>6. ASSUME NEW f \in 1 .. d + 1
      PROVE  /\ BeginLimits(f) \in Limits /\ IsEndIn(slabs, BeginLimits(f))
             /\ Begin(f) = BeginLimits(f).next /\ Begin(f) \in Pointer
  <2>1. CASE f = 1
    BY <1>5, <2>1 DEF BeginLimits, Begin, Limits
  <2>2. CASE f # 1
    <3>1. f - 1 \in 1 .. d
      BY <1>1, <2>2
    <3>2. openScopes[f - 1] \in Limits /\ IsEndIn(slabs, openScopes[f - 1])
      BY <1>3, <3>1
    <3>3. QED BY <2>2, <3>2 DEF BeginLimits, Begin, Limits
  <2>3. QED BY <2>1, <2>2
<1>7. ASSUME NEW f \in 1 .. d + 1, NEW g \in 1 .. d + 1, f < g
      PROVE  NotAfter(Begin(f), Begin(g))
  <2>1. g # 1 /\ g - 1 \in 1 .. d
    BY <1>1, <1>7
  <2>2. CASE f = 1
    <3>1. Begin(f) = NullPtr /\ Begin(g) \in Pointer
      BY <1>6, <2>2 DEF Begin
    <3>2. QED BY <3>1 DEF NotAfter, NullPtr, Pointer
  <2>3. CASE f # 1
    <3>1. f - 1 \in 1 .. d /\ f - 1 < g - 1
      BY <1>1, <1>7, <2>3
    <3>2. Begin(f) = openScopes[f - 1].next /\ Begin(g) = openScopes[g - 1].next
      BY <2>1, <2>3 DEF Begin
    <3>3. QED BY <1>4, <2>1, <3>1, <3>2
  <2>4. QED BY <2>2, <2>3
<1>8. QED BY <1>1, <1>2, <1>6, <1>7 DEF d

LEMMA FramesSeq ==
  ASSUME Len(openScopes) \in Nat
  PROVE  /\ Len(Frames) = Len(openScopes) + 1 /\ DOMAIN Frames = 1 .. Len(openScopes) + 1
         /\ \A f \in 1 .. Len(openScopes) + 1 :
              Frames[f] = [s \in FrameSlots(f) |-> slabs[s[1]][s[2]]]
         /\ \E S : Frames \in Seq(S)
<1> DEFINE d == Len(openScopes)
           S == {Frames[f] : f \in 1 .. d + 1}
<1>1. /\ DOMAIN Frames = 1 .. d + 1 /\ Frames = [f \in 1 .. d + 1 |-> Frames[f]]
      /\ \A f \in 1 .. d + 1 : Frames[f] = [s \in FrameSlots(f) |-> slabs[s[1]][s[2]]]
  BY DEF Frames
<1>2. Frames \in [1 .. d + 1 -> S]
  BY <1>1
<1> HIDE DEF d, S
<1>3. Frames \in Seq(S) /\ Len(Frames) = d + 1
  BY <1>1, <1>2 DEF d
<1>4. QED BY <1>1, <1>3 DEF d

(* Slots that come after q come after each p that q does not precede.      *)
LEMMA FromFalls ==
  ASSUME NEW b, NEW p \in Pointer, NEW q \in Pointer, NotAfter(p, q)
  PROVE  From(b, q) \subseteq From(b, p)
<1> SUFFICES ASSUME NEW s \in From(b, q) PROVE s \in From(b, p)
  OBVIOUS
<1>1. s \in Filled(b) /\ s[1] \in Nat /\ s[2] \in Nat
  BY DEF From, Filled
<1>2. p.slab \in Nat /\ p.slot \in Nat /\ q.slab \in Nat /\ q.slot \in Nat
  BY DEF Pointer
<1>3. CASE q = NullPtr
  <2>1. p = NullPtr
    BY <1>2, <1>3 DEF NullPtr, NotAfter, Pointer
  <2>2. QED BY <1>1, <2>1 DEF From
<1>4. CASE q # NullPtr
  <2>1. s[1] > q.slab \/ (s[1] = q.slab /\ s[2] > q.slot)
    BY <1>4 DEF From
  <2>2. s[1] > p.slab \/ (s[1] = p.slab /\ s[2] > p.slot)
    BY <1>1, <1>2, <2>1 DEF NotAfter
  <2>3. QED BY <1>1, <2>2 DEF From
<1>5. QED BY <1>3, <1>4

(* No slot comes after where the block ends.                               *)
LEMMA NothingAfterEnd ==
  ASSUME NEW b, IsBlock(b)
  PROVE  From(b, LimitsOf(b).next) = {}
<1>1. CASE b = <<>>
  BY <1>1 DEF From, Filled
<1>2. CASE b # <<>>
  <2>1. Len(b) \in Nat \ {0} /\ Len(b[Len(b)]) \in Nat
    BY <1>2, BlockShape, SlabAssumption
  <2>2. LimitsOf(b).next.slab = Len(b) /\ LimitsOf(b).next.slot = Len(b[Len(b)])
    BY <1>2 DEF LimitsOf, Last
  <2>3. LimitsOf(b).next # NullPtr
    BY <2>1, <2>2 DEF NullPtr
  <2>4. QED BY <2>1, <2>2, <2>3 DEF From, Filled
<1>3. QED BY <1>1, <1>2

(* Each slot is in a frame, and a frame has only slots of the block.       *)
LEMMA FramesCover ==
  ASSUME HandleInv
  PROVE  /\ \A f \in 1 .. Len(openScopes) + 1 : FrameSlots(f) \subseteq Filled(slabs)
         /\ \A s \in Filled(slabs) : \E f \in 1 .. Len(openScopes) + 1 : s \in FrameSlots(f)
<1> DEFINE d == Len(openScopes)
<1>1. d \in Nat
  BY BeginsInBlock
<1>2. \A f \in 1 .. d + 1 : FrameSlots(f) \subseteq Filled(slabs)
  BY DEF FrameSlots, From
<1>3. ASSUME NEW s \in Filled(slabs)
      PROVE  \E f \in 1 .. d + 1 : s \in FrameSlots(f)
  <2> DEFINE T == {f \in 1 .. d + 1 : s \notin From(slabs, Begin(f))}
  <2>1. CASE T = {}
    <3>1. s \in From(slabs, Begin(d + 1)) /\ d + 1 \in 1 .. d + 1 /\ d + 1 > d
      BY <1>1, <2>1
    <3>2. QED BY <3>1 DEF FrameSlots
  <2>2. CASE T # {}
    <3>1. PICK f \in T : \A g \in T : ~ (<<g, f>> \in OpToRel(<, Nat))
      <4>1. T \subseteq Nat
        BY <1>1
      <4> HIDE DEF T
      <4>2. QED BY <2>2, <4>1, NatLessThanWellFounded, WFMin, Zenon
    <3>2. f \in 1 .. d + 1 /\ s \notin From(slabs, Begin(f)) /\ f \in Nat
      BY <1>1
    <3>3. f # 1
      BY <3>2 DEF Begin, From
    <3>4. f - 1 \in Nat /\ f - 1 \in 1 .. d + 1 /\ f - 1 < f /\ ~ (f - 1 > d) /\ f - 1 + 1 = f
      BY <1>1, <3>2, <3>3
    <3>5. f - 1 \notin T
      BY <3>1, <3>2, <3>4 DEF OpToRel
    <3>6. s \in From(slabs, Begin(f - 1))
      BY <3>4, <3>5
    <3>7. s \in FrameSlots(f - 1)
      BY <3>2, <3>4, <3>6 DEF FrameSlots
    <3>8. QED BY <3>4, <3>7
  <2>3. QED BY <2>1, <2>2
<1>4. QED BY <1>2, <1>3

(* The objects that exist are the ones a handle or a smart pointer refers  *)
(* to.                                                                     *)
ExistIfReferenced == {o \in HandleObjects : Exists(o)} = Promise!Referenced

LEMMA ReferencedExist == HandleInv => ExistIfReferenced
<1> SUFFICES ASSUME HandleInv PROVE ExistIfReferenced
  OBVIOUS
<1> USE SlabAssumption
<1> DEFINE d == Len(openScopes)
<1>1. /\ IsBlock(slabs) /\ d \in Nat /\ slabs \in Seq(Seq(HandleObjects))
      /\ smart \in [SmartPtrs -> HandleObjects \cup {NoObject}]
      /\ refCount \in [HandleObjects -> Nat]
  BY BeginsInBlock DEF HandleInv, HandleTypeOK
<1>2. IsFiniteSet(Filled(slabs))
  BY <1>1, FilledCounted
<1>3. ASSUME NEW o \in HandleObjects
      PROVE  Exists(o) <=> \/ \E s \in Filled(slabs) : slabs[s[1]][s[2]] = o
                           \/ \E p \in SmartPtrs : smart[p] = o
  <2> DEFINE H == HeldIn(slabs, Filled(slabs), o)
  <2>1. refCount[o] = Cardinality(H) + Cardinality(HeldBy(o))
    BY <1>2, OccurrencesFinite DEF HandleInv, RefCountsAgree, HeldBy
  <2>2. IsFiniteSet(H) /\ Cardinality(H) \in Nat
    BY <1>2, OccurrencesFinite, FS_CardinalityType
  <2>3. IsFiniteSet(HeldBy(o)) /\ Cardinality(HeldBy(o)) \in Nat
    BY HeldByFinite
  <2>4. H # {} <=> \E s \in Filled(slabs) : slabs[s[1]][s[2]] = o
    BY DEF HeldIn
  <2>5. HeldBy(o) # {} <=> \E p \in SmartPtrs : smart[p] = o
    BY DEF HeldBy
  <2> HIDE DEF H
  <2>6. (Cardinality(H) = 0 <=> H = {}) /\ (Cardinality(HeldBy(o)) = 0 <=> HeldBy(o) = {})
    BY <2>2, <2>3, FS_EmptySet
  <2>7. Exists(o) <=> H # {} \/ HeldBy(o) # {}
    BY <2>1, <2>2, <2>3, <2>6 DEF Exists
  <2>8. QED BY <2>4, <2>5, <2>7
<1>4. /\ \A f \in 1 .. d + 1 : FrameSlots(f) \subseteq Filled(slabs)
      /\ \A s \in Filled(slabs) : \E f \in 1 .. d + 1 : s \in FrameSlots(f)
  BY FramesCover
<1>5. /\ Len(Frames) = d + 1
      /\ \A f \in 1 .. d + 1 : Frames[f] = [s \in FrameSlots(f) |-> slabs[s[1]][s[2]]]
  BY <1>1, FramesSeq
<1>6. \A s \in Filled(slabs) : slabs[s[1]][s[2]] \in HandleObjects
  <2> SUFFICES ASSUME NEW s \in Filled(slabs) PROVE slabs[s[1]][s[2]] \in HandleObjects
    OBVIOUS
  <2>1. s[1] \in 1 .. Len(slabs) /\ s[2] \in Nat \ {0} /\ s[2] <= Len(slabs[s[1]])
    BY DEF Filled
  <2>2. slabs[s[1]] \in Seq(HandleObjects)
    BY <1>1, <2>1
  <2>3. QED BY <2>1, <2>2
<1> DEFINE Of(f) == {Frames[f][h] : h \in DOMAIN Frames[f]}
           InFirst(n) == UNION {Of(f) : f \in 1 .. n}
           InFrames == InFirst(d + 1)
           ByPointers == {smart[p] : p \in SmartPtrs} \ {NoObject}
<1>7. ASSUME NEW o
      PROVE  o \in InFrames <=> \E s \in Filled(slabs) : slabs[s[1]][s[2]] = o
  <2>1. o \in InFrames <=> \E f \in 1 .. d + 1 : \E h \in DOMAIN Frames[f] : Frames[f][h] = o
    <3>1. \A f : o \in Of(f) <=> \E h \in DOMAIN Frames[f] : Frames[f][h] = o
      OBVIOUS
    <3> HIDE DEF Of
    <3>2. o \in InFrames <=> \E f \in 1 .. d + 1 : o \in Of(f)
      OBVIOUS
    <3> HIDE DEF InFrames
    <3>3. QED BY <3>1, <3>2
  <2> HIDE DEF InFrames
  <2>2. \A f \in 1 .. d + 1 : DOMAIN Frames[f] = FrameSlots(f)
    BY <1>5
  <2>3. \A f \in 1 .. d + 1 : \A h \in FrameSlots(f) : Frames[f][h] = slabs[h[1]][h[2]]
    BY <1>5
  <2> HIDE DEF d
  <2>4. QED BY <1>4, <2>1, <2>2, <2>3
<1>8. Promise!Referenced = InFrames \cup ByPointers
  <2>1. Promise!Referenced =
          (UNION {Of(f) : f \in 1 .. Len(Frames)}) \cup ByPointers
    BY Zenon DEF Promise!Referenced, Promise!Top
  <2> HIDE DEF Of, ByPointers
  <2>2. Promise!Referenced = InFirst(Len(Frames)) \cup ByPointers
    BY <2>1 DEF InFirst
  <2> HIDE DEF InFirst
  <2>3. QED BY <1>5, <2>2
<1> HIDE DEF InFrames, ByPointers
<1>9. \A o \in HandleObjects : Exists(o) <=> o \in InFrames \cup ByPointers
  BY <1>3, <1>7 DEF ByPointers
<1>10. InFrames \cup ByPointers \subseteq HandleObjects
  <2>1. InFrames \subseteq HandleObjects
    BY <1>6, <1>7
  <2>2. ByPointers \subseteq HandleObjects
    BY <1>1 DEF ByPointers
  <2>3. QED BY <2>1, <2>2
<1>11. QED BY <1>8, <1>9, <1>10 DEF ExistIfReferenced
LEMMA AppendIs ==
  ASSUME NEW q, \E S : q \in Seq(S), NEW x
  PROVE  Append(q, x) =
           [i \in 1 .. Len(q) + 1 |-> IF i = Len(q) + 1 THEN x ELSE q[i]]
<1>1. PICK S : q \in Seq(S)
  OBVIOUS
<1>2. q \in Seq(S \cup {x}) /\ Len(q) \in Nat
  BY <1>1
<1>3. Append(q, x) \in Seq(S \cup {x}) /\ Len(Append(q, x)) = Len(q) + 1
  BY <1>2
<1>4. Append(q, x) = [i \in 1 .. Len(q) + 1 |-> Append(q, x)[i]]
  <2> DEFINE a == Append(q, x)
             n == Len(q) + 1
  <2>1. a \in Seq(S \cup {x}) /\ Len(a) = n
    BY <1>3
  <2> HIDE DEF a, n
  <2>2. a = [i \in 1 .. n |-> a[i]]
    BY <2>1
  <2>3. QED BY <2>2 DEF a, n
<1>5. \A i \in 1 .. Len(q) + 1 : Append(q, x)[i] = IF i = Len(q) + 1 THEN x ELSE q[i]
  BY <1>2
<1>6. QED BY <1>4, <1>5

(* An added slot comes after every end in the block.                       *)
LEMMA AddedFrom ==
  ASSUME NEW b, IsBlock(b), NEW o \in HandleObjects, NEW l \in Limits, IsEndIn(b, l)
  PROVE  LET c == AddTo(b, o)
             s == <<Len(c), Len(c[Len(c)])>>
         IN  From(c, l.next) = From(b, l.next) \cup {s}
<1> USE SlabAssumption
<1> DEFINE c == AddTo(b, o)
           s == <<Len(c), Len(c[Len(c)])>>
           p == l.next
<1>1. /\ IsBlock(c) /\ Filled(c) = Filled(b) \cup {s} /\ s \notin Filled(b) /\ IsEndIn(c, l)
  BY AddFills
<1> HIDE DEF c
<1>2. Len(c) \in Nat /\ s \in Filled(c) /\ s[1] = Len(c) /\ s[2] = Len(c[Len(c)])
  BY <1>1 DEF IsBlock
<1>3. s[1] \in Nat /\ s[2] \in 1 .. SlabSize
  BY <1>2 DEF Filled
<1>4. \/ p = NullPtr
      \/ s[1] > p.slab
      \/ s[1] = p.slab /\ s[2] > p.slot
  <2>1. CASE l = NoLimits
    BY <2>1 DEF NoLimits
  <2>2. CASE l # NoLimits
    <3>1. /\ p.slab \in 1 .. Len(b) /\ p.slot \in 1 .. Len(b[p.slab])
          /\ p.slab \in 1 .. Len(c)
      BY <1>1, <2>2 DEF IsEndIn
    <3>2. CASE p.slab = s[1]
      <4>1. ~ (s[2] <= Len(b[p.slab]))
        BY <1>1, <1>2, <1>3, <3>1, <3>2 DEF Filled
      <4>2. Len(b[p.slab]) \in Nat
        BY <3>1 DEF IsBlock
      <4>3. QED BY <1>3, <3>1, <3>2, <4>1, <4>2
    <3>3. CASE p.slab # s[1]
      BY <1>2, <3>1, <3>3
    <3>4. QED BY <3>2, <3>3
  <2>3. QED BY <2>1, <2>2
<1> HIDE DEF s, p
<1>5. From(c, p) = From(b, p) \cup {s}
  BY <1>1, <1>4 DEF From
<1>6. QED BY <1>5 DEF c, s, p

(* What leaving a scope takes away comes after every end before it.        *)
LEMMA BeforeFrom ==
  ASSUME NEW b, IsBlock(b), NEW l \in Limits, IsEndIn(b, l), NEW q
  PROVE  From(Before(b, l.next), q) = From(b, q) \ From(b, l.next)
<1>1. Filled(Before(b, l.next)) = Filled(b) \ From(b, l.next)
  BY BeforeKeeps
<1>2. \A c : From(c, q) = {s \in Filled(c) : \/ q = NullPtr \/ s[1] > q.slab
                                             \/ s[1] = q.slab /\ s[2] > q.slot}
  BY DEF From
<1>3. QED BY <1>1, <1>2

-----------------------------------------------------------------------------
LEMMA StackInitMaps == HandleInit => Promise!StackInit
<1> SUFFICES ASSUME HandleInit PROVE Promise!StackInit
  OBVIOUS
<1> USE DEF HandleInit
<1>1. FrameSlots(1) = {}
  BY DEF FrameSlots, From, Filled
<1>2. Frames = <<Promise!NoHandles>>
  <2>1. Len(openScopes) = 0 /\ 1 .. 1 = {1}
    OBVIOUS
  <2>2. [s \in FrameSlots(1) |-> slabs[s[1]][s[2]]] = Promise!NoHandles
    BY <1>1 DEF Promise!NoHandles
  <2>3. Len(Frames) = 1 /\ DOMAIN Frames = 1 .. 1 /\ Frames[1] = Promise!NoHandles
    BY <2>1, <2>2, FramesSeq
  <2>4. Frames = [f \in 1 .. 1 |-> Promise!NoHandles]
    BY <2>1, <2>2 DEF Frames
  <2>5. QED BY <2>4
<1>3. smart = [p \in SmartPtrs |-> NoObject] /\ {o \in HandleObjects : Exists(o)} = {}
  BY DEF Exists
<1>4. QED BY <1>2, <1>3 DEF Promise!StackInit

LEMMA OpenMaps ==
  ASSUME HandleInv, HandleInv', OpenHandleScope
  PROVE  Promise!OpenScope
<1>1. /\ openScopes' = Append(openScopes, limits) /\ slabs' = slabs /\ smart' = smart
  BY DEF OpenHandleScope
<1>2. openScopes \in Seq(Limits) /\ limits = LimitsOf(slabs) /\ IsBlock(slabs)
  BY BeginsInBlock DEF HandleInv, HandleTypeOK
<1>3. PICK d \in Nat :
        /\ Len(openScopes) = d /\ Len(openScopes') = d + 1
        /\ openScopes'[d + 1] = limits /\ \A i \in 1 .. d : openScopes'[i] = openScopes[i]
  BY <1>1, <1>2
<1>4. \A f \in 1 .. d + 1 : Begin(f)' = Begin(f)
  <2> SUFFICES ASSUME NEW f \in 1 .. d + 1 PROVE Begin(f)' = Begin(f)
    OBVIOUS
  <2>1. f = 1 \/ f - 1 \in 1 .. d
    BY <1>3
  <2>2. QED BY <1>3, <2>1 DEF Begin
<1>5. Begin(d + 2)' = limits.next
  <2>1. d + 2 # 1 /\ d + 2 - 1 = d + 1
    BY <1>3
  <2>2. QED BY <1>3, <2>1 DEF Begin
<1>6. From(slabs, limits.next) = {}
  BY <1>2, NothingAfterEnd
<1>7. \A f \in 1 .. d + 1 : FrameSlots(f)' = FrameSlots(f)
  <2> SUFFICES ASSUME NEW f \in 1 .. d + 1 PROVE FrameSlots(f)' = FrameSlots(f)
    OBVIOUS
  <2>1. CASE f \in 1 .. d
    <3>1. ~ (f > d) /\ ~ (f > d + 1) /\ f + 1 \in 1 .. d + 1
      BY <1>3, <2>1
    <3>2. QED BY <1>1, <1>3, <1>4, <3>1 DEF FrameSlots
  <2>2. CASE f = d + 1
    <3>1. f > d /\ ~ (f > d + 1) /\ f + 1 = d + 2
      BY <1>3, <2>2
    <3>2. FrameSlots(f) = From(slabs, Begin(f))
      BY <1>3, <3>1 DEF FrameSlots
    <3>3. FrameSlots(f)' = From(slabs, Begin(f)) \ From(slabs, limits.next)
      <4>1. Begin(f)' = Begin(f) /\ Begin(f + 1)' = limits.next /\ ~ (f > Len(openScopes'))
        BY <1>3, <1>4, <1>5, <3>1
      <4>2. QED BY <1>1, <4>1 DEF FrameSlots
    <3>4. QED BY <1>6, <3>2, <3>3
  <2>3. QED BY <1>3, <2>1, <2>2
<1>8. FrameSlots(d + 2)' = {}
  <2>1. d + 2 > d + 1
    BY <1>3
  <2>2. QED BY <1>1, <1>3, <1>5, <1>6, <2>1 DEF FrameSlots
<1>9. /\ Len(Frames) = d + 1 /\ DOMAIN Frames = 1 .. d + 1
      /\ \A f \in 1 .. d + 1 : Frames[f] = [s \in FrameSlots(f) |-> slabs[s[1]][s[2]]]
      /\ \E S : Frames \in Seq(S)
  BY <1>3, FramesSeq
<1>10. Frames' = [f \in 1 .. d + 2 |-> [s \in FrameSlots(f)' |-> slabs[s[1]][s[2]]]]
  BY <1>1, <1>3 DEF Frames
<1>11. Frames' = Append(Frames, Promise!NoHandles)
  <2>1. \A f \in 1 .. d + 1 : Frames'[f] = Frames[f]
    BY <1>3, <1>7, <1>9, <1>10
  <2>2. Frames'[d + 2] = Promise!NoHandles
    <3>1. Frames'[d + 2] = [s \in FrameSlots(d + 2)' |-> slabs[s[1]][s[2]]]
      BY <1>3, <1>10
    <3>2. QED BY <1>8, <3>1 DEF Promise!NoHandles
  <2>3. Frames' = [f \in 1 .. d + 2 |-> Frames'[f]]
    BY <1>10
  <2>4. Append(Frames, Promise!NoHandles) =
          [f \in 1 .. d + 2 |-> IF f = d + 2 THEN Promise!NoHandles ELSE Frames[f]]
    BY <1>3, <1>9, AppendIs
  <2>5. \A f \in 1 .. d + 2 : f = d + 2 \/ f \in 1 .. d + 1
    BY <1>3
  <2>6. QED BY <2>1, <2>2, <2>3, <2>4, <2>5
<1>12. QED BY <1>1, <1>11 DEF Promise!OpenScope
(* The slots of a frame if the block were b and d scopes open. *)
FrameIn(b, f, d) ==
  IF f = d + 1 THEN From(b, Begin(f)) ELSE From(b, Begin(f)) \ From(b, Begin(f + 1))

LEMMA FrameSlotsIn ==
  ASSUME NEW d \in Nat, Len(openScopes) = d, NEW f \in 1 .. d + 1
  PROVE  FrameSlots(f) = FrameIn(slabs, f, d)
<1>1. f > d <=> f = d + 1
  OBVIOUS
<1>2. QED BY <1>1 DEF FrameSlots, FrameIn

(* An added slot goes to the last frame. *)
LEMMA AddedFrames ==
  ASSUME NEW b, IsBlock(b), NEW o \in HandleObjects, NEW d \in Nat,
         \A f \in 1 .. d + 1 : /\ BeginLimits(f) \in Limits /\ IsEndIn(b, BeginLimits(f))
                               /\ Begin(f) = BeginLimits(f).next
  PROVE  LET c == AddTo(b, o)
             s == <<Len(c), Len(c[Len(c)])>>
         IN  /\ \A f \in 1 .. d : FrameIn(c, f, d) = FrameIn(b, f, d)
             /\ FrameIn(c, d + 1, d) = FrameIn(b, d + 1, d) \cup {s}
<1> DEFINE c == AddTo(b, o)
           s == <<Len(c), Len(c[Len(c)])>>
<1>1. s \notin Filled(b)
  BY AddFills
<1>2. \A f \in 1 .. d + 1 : From(c, Begin(f)) = From(b, Begin(f)) \cup {s}
  BY AddedFrom
<1> HIDE DEF c, s
<1>3. \A f \in 1 .. d + 1 : s \notin From(b, Begin(f))
  BY <1>1 DEF From
<1>4. \A f \in 1 .. d : f \in 1 .. d + 1 /\ f + 1 \in 1 .. d + 1 /\ f # d + 1
  OBVIOUS
<1>5. \A f \in 1 .. d : FrameIn(c, f, d) = FrameIn(b, f, d)
  BY <1>2, <1>3, <1>4 DEF FrameIn
<1>6. FrameIn(c, d + 1, d) = FrameIn(b, d + 1, d) \cup {s}
  BY <1>2 DEF FrameIn
<1>7. QED BY <1>5, <1>6 DEF c, s

(* The frames below the top are untouched when the scope on top is left.   *)
LEMMA LeftFrames ==
  ASSUME HandleInv, openScopes # <<>>, openScopes' = Front(openScopes)
  PROVE  LET prev == Last(openScopes)
             c    == Before(slabs, prev.next)
         IN  \E d \in Nat :
               /\ Len(openScopes) = d + 1 /\ Len(openScopes') = d
               /\ Begin(d + 2) = prev.next
               /\ \A f \in 1 .. d + 1 :
                    /\ Begin(f)' = Begin(f)
                    /\ FrameIn(c, f, d) = FrameSlots(f) /\ FrameSlots(f) \subseteq Filled(c)
                    /\ BeginLimits(f) \in Limits /\ IsEndIn(c, BeginLimits(f))
                    /\ Begin(f) = BeginLimits(f).next
<1> DEFINE prev == Last(openScopes)
           c == Before(slabs, prev.next)
           gone == From(slabs, prev.next)
<1>1. openScopes \in Seq(Limits) /\ IsBlock(slabs)
  BY BeginsInBlock DEF HandleInv, HandleTypeOK
<1>2. PICK d \in Nat : Len(openScopes) = d + 1
  <2>1. Len(openScopes) \in Nat \ {0}
    BY <1>1
  <2>2. Len(openScopes) - 1 \in Nat /\ Len(openScopes) = Len(openScopes) - 1 + 1
    BY <2>1
  <2>3. QED BY <2>2
<1>3. /\ Len(openScopes') = d /\ \A i \in 1 .. d : openScopes'[i] = openScopes[i]
      /\ prev = openScopes[d + 1]
  BY <1>1, <1>2 DEF Front, Last
<1>4. prev \in Limits /\ IsEndIn(slabs, prev)
  BY LeaveEnds
<1> HIDE DEF prev, c
<1>5. Begin(d + 2) = prev.next
  <2>1. d + 2 # 1 /\ d + 2 - 1 = d + 1
    OBVIOUS
  <2>2. QED BY <1>3, <2>1 DEF Begin
<1>6. \A f \in 1 .. d + 1 : Begin(f)' = Begin(f)
  <2> SUFFICES ASSUME NEW f \in 1 .. d + 1 PROVE Begin(f)' = Begin(f)
    OBVIOUS
  <2>1. f = 1 \/ f - 1 \in 1 .. d
    OBVIOUS
  <2>2. QED BY <1>3, <2>1 DEF Begin
<1>7. /\ \A f \in 1 .. d + 2 :
           /\ BeginLimits(f) \in Limits /\ IsEndIn(slabs, BeginLimits(f))
           /\ Begin(f) = BeginLimits(f).next /\ Begin(f) \in Pointer
      /\ \A f, g \in 1 .. d + 2 : f < g => NotAfter(Begin(f), Begin(g))
  <2>1. d + 1 + 1 = d + 2
    OBVIOUS
  <2>2. QED BY <1>2, <2>1, BeginsInBlock
<1>8. \A f \in 1 .. d + 1 : f \in 1 .. d + 2 /\ d + 2 \in 1 .. d + 2 /\ f < d + 2
  OBVIOUS
<1>9. ASSUME NEW f \in 1 .. d + 1
      PROVE  /\ gone \subseteq From(slabs, Begin(f))
             /\ From(c, Begin(f)) = From(slabs, Begin(f)) \ gone
             /\ IsEndIn(c, BeginLimits(f))
  <2>1. /\ NotAfter(Begin(f), prev.next) /\ Begin(f) \in Pointer /\ prev.next \in Pointer
        /\ Begin(f) = BeginLimits(f).next /\ IsEndIn(slabs, BeginLimits(f))
    BY <1>5, <1>7, <1>8
  <2>2. gone \subseteq From(slabs, Begin(f))
    BY <2>1, FromFalls
  <2>3. From(c, Begin(f)) = From(slabs, Begin(f)) \ gone
    BY <1>1, <1>4, BeforeFrom DEF c
  <2>4. IsEndIn(c, BeginLimits(f))
    BY <1>1, <1>4, <2>1, BeforeKeeps DEF c
  <2>5. QED BY <2>2, <2>3, <2>4
<1>10. Filled(c) = Filled(slabs) \ gone
  BY <1>1, <1>4, BeforeKeeps DEF c
<1>11. \A f \in 1 .. d + 1 :
         FrameSlots(f) = From(slabs, Begin(f)) \ From(slabs, Begin(f + 1))
  <2>1. \A f \in 1 .. d + 1 : ~ (f > d + 1)
    OBVIOUS
  <2>2. QED BY <1>2, <2>1 DEF FrameSlots
<1> HIDE DEF gone
<1>12. ASSUME NEW f \in 1 .. d + 1
       PROVE  FrameIn(c, f, d) = FrameSlots(f) /\ FrameSlots(f) \subseteq Filled(c)
  <2>1. gone \subseteq From(slabs, Begin(f + 1))
    <3>1. CASE f = d + 1
      <4>1. f + 1 = d + 2
        BY <3>1
      <4>2. QED BY <1>5, <4>1 DEF gone
    <3>2. CASE f # d + 1
      <4>1. f + 1 \in 1 .. d + 1
        BY <3>2
      <4>2. QED BY <1>9, <4>1
    <3>3. QED BY <3>1, <3>2
  <2>2. FrameSlots(f) = From(slabs, Begin(f)) \ From(slabs, Begin(f + 1))
    BY <1>11
  <2>3. FrameIn(c, f, d) = FrameSlots(f)
    <3>1. CASE f = d + 1
      <4>1. f + 1 = d + 2
        BY <3>1
      <4>2. Begin(f + 1) = prev.next
        BY <1>5, <4>1
      <4>3. FrameIn(c, f, d) = From(slabs, Begin(f)) \ gone
        BY <1>9, <3>1 DEF FrameIn
      <4>4. QED BY <2>2, <4>2, <4>3 DEF gone
    <3>2. CASE f # d + 1
      <4>1. f + 1 \in 1 .. d + 1
        BY <3>2
      <4>2. FrameIn(c, f, d) = From(c, Begin(f)) \ From(c, Begin(f + 1))
        BY <3>2 DEF FrameIn
      <4>3. /\ From(c, Begin(f)) = From(slabs, Begin(f)) \ gone
            /\ From(c, Begin(f + 1)) = From(slabs, Begin(f + 1)) \ gone
        BY <1>9, <4>1
      <4>4. QED BY <2>1, <2>2, <4>2, <4>3
    <3>3. QED BY <3>1, <3>2
  <2>4. FrameSlots(f) \subseteq Filled(c)
    <3>1. From(slabs, Begin(f)) \subseteq Filled(slabs)
      BY DEF From
    <3>2. QED BY <1>10, <2>1, <2>2, <3>1
  <2>5. QED BY <2>3, <2>4
<1>13. \A f \in 1 .. d + 1 :
         /\ Begin(f)' = Begin(f)
         /\ FrameIn(c, f, d) = FrameSlots(f) /\ FrameSlots(f) \subseteq Filled(c)
         /\ BeginLimits(f) \in Limits /\ IsEndIn(c, BeginLimits(f))
         /\ Begin(f) = BeginLimits(f).next
  BY <1>6, <1>7, <1>8, <1>9, <1>12
<1>14. QED BY <1>2, <1>3, <1>5, <1>13 DEF prev, c
LEMMA CreateMaps ==
  ASSUME HandleInv, HandleInv', NEW o \in HandleObjects, CreateHandle(o)
  PROVE  Promise!CreateHandle(o)
<1> USE SlabAssumption
<1> DEFINE c == AddTo(slabs, o)
           t == <<Len(c), Len(c[Len(c)])>>
<1>1. slabs' = c /\ openScopes' = openScopes /\ smart' = smart
  BY DEF CreateHandle
<1>2. PICK d \in Nat : Len(openScopes) = d
  BY BeginsInBlock
<1>3. /\ IsBlock(slabs)
      /\ \A f \in 1 .. d + 1 :
           /\ BeginLimits(f) \in Limits /\ IsEndIn(slabs, BeginLimits(f))
           /\ Begin(f) = BeginLimits(f).next
  BY <1>2, BeginsInBlock
<1>4. /\ Filled(c) = Filled(slabs) \cup {t} /\ t \notin Filled(slabs)
      /\ c[t[1]][t[2]] = o
      /\ \A s \in Filled(slabs) : c[s[1]][s[2]] = slabs[s[1]][s[2]]
  BY <1>3, AddFills
<1>5. /\ \A f \in 1 .. d : FrameIn(c, f, d) = FrameIn(slabs, f, d)
      /\ FrameIn(c, d + 1, d) = FrameIn(slabs, d + 1, d) \cup {t}
  BY <1>3, AddedFrames
<1> HIDE DEF c
<1>6. PICK new : new = t
  OBVIOUS
<1> HIDE DEF t
<1>7. \A f \in 1 .. d + 1 :
        FrameSlots(f) = FrameIn(slabs, f, d) /\ FrameSlots(f) \subseteq Filled(slabs)
  BY <1>2, FrameSlotsIn, FramesCover
<1>8. \A f \in 1 .. d + 1 : FrameSlots(f)' = FrameIn(c, f, d)
  <2>1. \A f : FrameSlots(f)' = IF f > d THEN From(c, Begin(f))
                                ELSE From(c, Begin(f)) \ From(c, Begin(f + 1))
    BY <1>1, <1>2 DEF FrameSlots, Begin
  <2>2. \A f \in 1 .. d + 1 : f > d <=> f = d + 1
    OBVIOUS
  <2>3. QED BY <2>1, <2>2 DEF FrameIn
<1>9. /\ Len(Frames) = d + 1 /\ DOMAIN Frames = 1 .. d + 1
      /\ \A f \in 1 .. d + 1 : Frames[f] = [s \in FrameSlots(f) |-> slabs[s[1]][s[2]]]
      /\ Frames = [f \in 1 .. d + 1 |-> Frames[f]]
  BY <1>2, FramesSeq DEF Frames
<1>10. /\ Frames' = [f \in 1 .. d + 1 |-> Frames'[f]] /\ Len(Frames') = d + 1
       /\ \A f \in 1 .. d + 1 : Frames'[f] = [s \in FrameSlots(f)' |-> c[s[1]][s[2]]]
  <2>1. Frames' = [f \in 1 .. d + 1 |-> [s \in FrameSlots(f)' |-> c[s[1]][s[2]]]]
    BY <1>1, <1>2 DEF Frames
  <2>2. QED BY <2>1
<1>11. \A f \in 1 .. d : Frames'[f] = Frames[f]
  <2> SUFFICES ASSUME NEW f \in 1 .. d PROVE Frames'[f] = Frames[f]
    OBVIOUS
  <2>1. f \in 1 .. d + 1 /\ FrameSlots(f)' = FrameSlots(f) /\ FrameSlots(f) \subseteq Filled(slabs)
    BY <1>5, <1>7, <1>8
  <2>2. QED BY <1>4, <1>9, <1>10, <2>1
<1>12. Frames'[d + 1] = Promise!WithHandle(Frames[d + 1], new, o)
  <2>1. d + 1 \in 1 .. d + 1
    OBVIOUS
  <2>2. FrameSlots(d + 1)' = FrameSlots(d + 1) \cup {new}
    BY <1>5, <1>6, <1>7, <1>8, <2>1
  <2>3. DOMAIN Frames[d + 1] = FrameSlots(d + 1)
    BY <1>9, <2>1
  <2>4. \A s \in FrameSlots(d + 1) : Frames[d + 1][s] = c[s[1]][s[2]] /\ s # new
    BY <1>4, <1>6, <1>7, <1>9, <2>1
  <2>5. Frames'[d + 1] = [s \in FrameSlots(d + 1) \cup {new} |-> c[s[1]][s[2]]]
    BY <1>10, <2>1, <2>2
  <2>6. c[new[1]][new[2]] = o
    BY <1>4, <1>6
  <2>7. \A s \in FrameSlots(d + 1) \cup {new} :
          c[s[1]][s[2]] = IF s = new THEN o ELSE Frames[d + 1][s]
    BY <2>4, <2>6
  <2>8. QED BY <2>3, <2>5, <2>7 DEF Promise!WithHandle
<1>13. Frames' = [Frames EXCEPT ![d + 1] = Promise!WithHandle(Frames[d + 1], new, o)]
  <2>1. PICK w : w = Promise!WithHandle(Frames[d + 1], new, o)
    OBVIOUS
  <2>2. [Frames EXCEPT ![d + 1] = w] = [f \in 1 .. d + 1 |-> IF f = d + 1 THEN w ELSE Frames[f]]
    BY <1>9
  <2>3. \A f \in 1 .. d + 1 : Frames'[f] = IF f = d + 1 THEN w ELSE Frames[f]
    BY <1>11, <1>12, <2>1
  <2>4. Frames' = [f \in 1 .. d + 1 |-> IF f = d + 1 THEN w ELSE Frames[f]]
    BY <1>10, <2>3
  <2>5. QED BY <2>1, <2>2, <2>4
<1>14. new \in DOMAIN Frames'[d + 1] /\ \A f \in 1 .. d + 1 : new \notin DOMAIN Frames[f]
  <2>1. new \in DOMAIN Frames'[d + 1]
    BY <1>12 DEF Promise!WithHandle
  <2>2. \A f \in 1 .. d + 1 : new \notin DOMAIN Frames[f]
    BY <1>4, <1>6, <1>7, <1>9
  <2>3. QED BY <2>1, <2>2
<1>15. new \notin Promise!InUse(d + 1)
  BY <1>14 DEF Promise!InUse
<1>16. Promise!Top = d + 1 /\ Promise!Top' = d + 1
  BY <1>9, <1>10 DEF Promise!Top
<1>17. QED BY <1>1, <1>13, <1>14, <1>15, <1>16 DEF Promise!CreateHandle

LEMMA PointMaps ==
  ASSUME HandleInv, NEW p \in SmartPtrs, NEW o \in HandleObjects \cup {NoObject}, SetSmartPtr(p, o)
  PROVE  Promise!Point(p, o)
<1>1. smart' = [smart EXCEPT ![p] = o] /\ slabs' = slabs /\ openScopes' = openScopes
  BY DEF SetSmartPtr
<1>2. Frames' = Frames
  BY <1>1 DEF Frames, FrameSlots, Begin
<1>3. QED BY <1>1, <1>2 DEF Promise!Point

(* After its scope is left, the frames but the top one are as they were.   *)
LEMMA DestroyMaps ==
  ASSUME HandleInv, HandleInv', DestroyHandleScope
  PROVE  Promise!LeaveScope
<1> USE SlabAssumption
<1> DEFINE prev == Last(openScopes)
           c == Before(slabs, prev.next)
           gone == From(slabs, prev.next)
<1>1. /\ openScopes # <<>> /\ openScopes' = Front(openScopes) /\ smart' = smart
      /\ limits = prev => slabs' = slabs
      /\ limits # prev => slabs' = c
  BY DEF DestroyHandleScope, Leave
<1>2. IsBlock(slabs) /\ limits = LimitsOf(slabs)
  BY BeginsInBlock DEF HandleInv
<1>3. prev \in Limits /\ IsEndIn(slabs, prev)
  BY <1>1, LeaveEnds
<1>4. PICK d \in Nat :
        /\ Len(openScopes) = d + 1 /\ Len(openScopes') = d
        /\ \A f \in 1 .. d + 1 :
             /\ Begin(f)' = Begin(f)
             /\ FrameIn(c, f, d) = FrameSlots(f) /\ FrameSlots(f) \subseteq Filled(c)
  BY <1>1, LeftFrames
<1>5. /\ Filled(c) = Filled(slabs) \ gone
      /\ \A s \in Filled(c) : c[s[1]][s[2]] = slabs[s[1]][s[2]]
  BY <1>2, <1>3, BeforeKeeps
<1> HIDE DEF c, prev, gone
<1>6. Filled(slabs') = Filled(c) /\ \A s \in Filled(c) : slabs'[s[1]][s[2]] = slabs[s[1]][s[2]]
  <2>1. CASE limits = prev
    <3>1. gone = {}
      BY <1>2, <2>1, NothingAfterEnd DEF gone
    <3>2. QED BY <1>1, <1>5, <2>1, <3>1
  <2>2. CASE limits # prev
    BY <1>1, <1>5, <2>2
  <2>3. QED BY <2>1, <2>2
<1>7. \A q : From(slabs', q) = From(c, q)
  BY <1>6 DEF From
<1>8. ASSUME NEW f \in 1 .. d + 1
      PROVE  FrameSlots(f)' = FrameSlots(f)
  <2>1. CASE f = d + 1
    <3>1. FrameSlots(f)' = From(slabs', Begin(f)')
      BY <1>4, <2>1 DEF FrameSlots
    <3>2. QED BY <1>4, <1>7, <2>1, <3>1 DEF FrameIn
  <2>2. CASE f # d + 1
    <3>1. ~ (f > d) /\ f + 1 \in 1 .. d + 1
      BY <2>2
    <3>2. FrameSlots(f)' = From(slabs', Begin(f)') \ From(slabs', Begin(f + 1)')
      BY <1>4, <3>1 DEF FrameSlots
    <3>3. QED BY <1>4, <1>7, <2>2, <3>1, <3>2 DEF FrameIn
  <2>3. QED BY <2>1, <2>2
<1>9. /\ Len(Frames) = d + 2 /\ \E S : Frames \in Seq(S)
      /\ \A f \in 1 .. d + 1 : Frames[f] = [s \in FrameSlots(f) |-> slabs[s[1]][s[2]]]
  <2>1. d + 1 + 1 = d + 2 /\ \A f \in 1 .. d + 1 : f \in 1 .. d + 2
    OBVIOUS
  <2>2. QED BY <1>4, <2>1, FramesSeq
<1>10. Frames' = [f \in 1 .. d + 1 |-> [s \in FrameSlots(f)' |-> slabs'[s[1]][s[2]]]]
  BY <1>4 DEF Frames
<1>11. \A f \in 1 .. d + 1 : [s \in FrameSlots(f)' |-> slabs'[s[1]][s[2]]] = Frames[f]
  BY <1>4, <1>6, <1>8, <1>9
<1>12. Frames' = [f \in 1 .. d + 1 |-> Frames[f]]
  BY <1>10, <1>11
<1>13. SubSeq(Frames, 1, d + 1) = [f \in 1 .. d + 1 |-> Frames[f]]
  BY <1>9, SubSeqIs
<1>14. Promise!Top = d + 2 /\ d + 2 - 1 = d + 1 /\ d + 2 > 1
  BY <1>9 DEF Promise!Top
<1>15. QED BY <1>1, <1>12, <1>13, <1>14 DEF Promise!LeaveScope

(* The value that escapes has a new handle in the frame below, and refers  *)
(* to what it did.                                                         *)
LEMMA CloseMaps ==
  ASSUME HandleInv, HandleInv', NEW k \in DOMAIN slabs, NEW n \in DOMAIN slabs[k],
         CloseHandleScope(k, n)
  PROVE  \E h \in DOMAIN Frames[Promise!Top] : Promise!CloseScope(h)
<1> USE SlabAssumption
<1> DEFINE prev == Last(openScopes)
           p == [slab |-> k, slot |-> n]
           v == slabs[k][n]
           c == Before(slabs, prev.next)
           e == AddTo(c, v)
           t == <<Len(e), Len(e[Len(e)])>>
           gone == From(slabs, prev.next)
<1>1. /\ openScopes # <<>> /\ InScope(p) /\ openScopes' = Front(openScopes)
      /\ slabs' = e /\ smart' = smart
  BY DEF CloseHandleScope, Leave
<1>2. IsBlock(slabs)
  BY BeginsInBlock
<1>3. prev \in Limits /\ IsEndIn(slabs, prev)
  BY <1>1, LeaveEnds
<1>4. PICK d \in Nat :
        /\ Len(openScopes) = d + 1 /\ Len(openScopes') = d
        /\ Begin(d + 2) = prev.next
        /\ \A f \in 1 .. d + 1 :
             /\ Begin(f)' = Begin(f)
             /\ FrameIn(c, f, d) = FrameSlots(f) /\ FrameSlots(f) \subseteq Filled(c)
             /\ BeginLimits(f) \in Limits /\ IsEndIn(c, BeginLimits(f))
             /\ Begin(f) = BeginLimits(f).next
  BY <1>1, LeftFrames
<1>5. /\ IsBlock(c) /\ Filled(c) = Filled(slabs) \ gone
      /\ \A s \in Filled(c) : c[s[1]][s[2]] = slabs[s[1]][s[2]]
  BY <1>2, <1>3, BeforeKeeps
<1>6. /\ k \in 1 .. Len(slabs) /\ n \in 1 .. Len(slabs[k]) /\ n \in 1 .. SlabSize
      /\ v \in HandleObjects
  BY <1>2 DEF IsBlock, SlabsFit
<1>7. PICK h : h = <<k, n>>
  OBVIOUS
<1>8. h \in gone /\ h[1] = k /\ h[2] = n
  <2>1. h \in Filled(slabs) /\ h[1] = k /\ h[2] = n
    BY <1>6, <1>7 DEF Filled
  <2>2. k > prev.next.slab \/ (k = prev.next.slab /\ n > prev.next.slot)
    BY <1>1 DEF InScope
  <2>3. QED BY <2>1, <2>2 DEF From
<1> HIDE DEF c, prev, gone, v
<1>9. /\ Filled(e) = Filled(c) \cup {t} /\ t \notin Filled(c) /\ e[t[1]][t[2]] = v
      /\ \A s \in Filled(c) : e[s[1]][s[2]] = c[s[1]][s[2]]
  BY <1>5, <1>6, AddFills
<1>10. /\ \A f \in 1 .. d : FrameIn(e, f, d) = FrameIn(c, f, d)
       /\ FrameIn(e, d + 1, d) = FrameIn(c, d + 1, d) \cup {t}
  BY <1>4, <1>5, <1>6, AddedFrames
<1> HIDE DEF e
<1>11. PICK new : new = t
  OBVIOUS
<1> HIDE DEF t
<1>12. ASSUME NEW f \in 1 .. d + 1
       PROVE  FrameSlots(f)' = FrameIn(e, f, d)
  <2>1. CASE f = d + 1
    <3>1. FrameSlots(f)' = From(slabs', Begin(f)')
      BY <1>4, <2>1 DEF FrameSlots
    <3>2. QED BY <1>1, <1>4, <2>1, <3>1 DEF FrameIn
  <2>2. CASE f # d + 1
    <3>1. ~ (f > d) /\ f + 1 \in 1 .. d + 1
      BY <2>2
    <3>2. FrameSlots(f)' = From(slabs', Begin(f)') \ From(slabs', Begin(f + 1)')
      BY <1>4, <3>1 DEF FrameSlots
    <3>3. QED BY <1>1, <1>4, <2>2, <3>1, <3>2 DEF FrameIn
  <2>3. QED BY <2>1, <2>2
<1>13. /\ Len(Frames) = d + 2 /\ \E S : Frames \in Seq(S)
       /\ \A f \in 1 .. d + 2 : Frames[f] = [s \in FrameSlots(f) |-> slabs[s[1]][s[2]]]
  <2>1. d + 1 + 1 = d + 2
    OBVIOUS
  <2>2. QED BY <1>4, <2>1, FramesSeq
<1>14. /\ Frames' = [f \in 1 .. d + 1 |-> Frames'[f]] /\ Len(Frames') = d + 1
       /\ \A f \in 1 .. d + 1 : Frames'[f] = [s \in FrameSlots(f)' |-> e[s[1]][s[2]]]
  <2>1. Frames' = [f \in 1 .. d + 1 |-> [s \in FrameSlots(f)' |-> e[s[1]][s[2]]]]
    BY <1>1, <1>4 DEF Frames
  <2>2. QED BY <2>1
<1>15. \A s \in Filled(c) : e[s[1]][s[2]] = slabs[s[1]][s[2]]
  BY <1>5, <1>9
<1>16. \A f \in 1 .. d + 1 : f \in 1 .. d + 2 /\ FrameSlots(f) \subseteq Filled(c)
  BY <1>4
<1>17. \A f \in 1 .. d : Frames'[f] = Frames[f]
  <2> SUFFICES ASSUME NEW f \in 1 .. d PROVE Frames'[f] = Frames[f]
    OBVIOUS
  <2>1. f \in 1 .. d + 1 /\ f \in 1 .. d + 2
    OBVIOUS
  <2>2. FrameSlots(f)' = FrameSlots(f) /\ FrameSlots(f) \subseteq Filled(c)
    BY <1>4, <1>10, <1>12, <2>1
  <2>3. /\ Frames'[f] = [s \in FrameSlots(f) |-> e[s[1]][s[2]]]
        /\ Frames[f] = [s \in FrameSlots(f) |-> slabs[s[1]][s[2]]]
    BY <1>13, <1>14, <2>1, <2>2
  <2>4. \A s \in FrameSlots(f) : e[s[1]][s[2]] = slabs[s[1]][s[2]]
    BY <1>15, <2>2
  <2>5. QED BY <2>3, <2>4
<1>18. Frames[d + 2][h] = v /\ h \in DOMAIN Frames[d + 2]
  <2>1. d + 2 > d + 1 /\ d + 2 \in 1 .. d + 2
    OBVIOUS
  <2>2. FrameSlots(d + 2) = gone
    BY <1>4, <2>1 DEF FrameSlots, gone
  <2>3. QED BY <1>8, <1>13, <2>1, <2>2 DEF v
<1>19. Frames'[d + 1] = Promise!WithHandle(Frames[d + 1], new, v)
  <2>1. d + 1 \in 1 .. d + 1 /\ d + 1 \in 1 .. d + 2
    OBVIOUS
  <2>2. FrameSlots(d + 1)' = FrameSlots(d + 1) \cup {new}
    BY <1>4, <1>10, <1>11, <1>12, <2>1
  <2>3. DOMAIN Frames[d + 1] = FrameSlots(d + 1)
    BY <1>13, <2>1
  <2>4. \A s \in FrameSlots(d + 1) : Frames[d + 1][s] = e[s[1]][s[2]] /\ s # new
    BY <1>9, <1>11, <1>13, <1>15, <1>16, <2>1
  <2>5. Frames'[d + 1] = [s \in FrameSlots(d + 1) \cup {new} |-> e[s[1]][s[2]]]
    BY <1>14, <2>1, <2>2
  <2>6. e[new[1]][new[2]] = v
    BY <1>9, <1>11
  <2>7. \A s \in FrameSlots(d + 1) \cup {new} :
          e[s[1]][s[2]] = IF s = new THEN v ELSE Frames[d + 1][s]
    BY <2>4, <2>6
  <2>8. QED BY <2>3, <2>5, <2>7 DEF Promise!WithHandle
<1> DEFINE below == SubSeq(Frames, 1, d + 1)
<1>20. below = [f \in 1 .. d + 1 |-> Frames[f]]
  BY <1>13, SubSeqIs
<1> HIDE DEF below
<1>21. Frames' = [below EXCEPT ![d + 1] = Promise!WithHandle(below[d + 1], new, Frames[d + 2][h])]
  BY <1>14, <1>17, <1>18, <1>19, <1>20
<1>22. new \in DOMAIN Frames'[d + 1] /\ new \notin Promise!InUse(d + 1)
  <2>1. new \in DOMAIN Frames'[d + 1]
    BY <1>19 DEF Promise!WithHandle
  <2>2. \A f \in 1 .. d + 1 : new \notin DOMAIN Frames[f]
    BY <1>9, <1>11, <1>13, <1>16
  <2>3. QED BY <2>1, <2>2 DEF Promise!InUse
<1>23. Promise!Top = d + 2 /\ Promise!Top' = d + 1 /\ d + 2 - 1 = d + 1 /\ d + 2 > 1
  BY <1>13, <1>14 DEF Promise!Top
<1>24. Promise!CloseScope(h)
  <2>1. /\ Promise!Top > 1 /\ h \in DOMAIN Frames[Promise!Top]
        /\ new \in DOMAIN Frames'[Promise!Top'] \ Promise!InUse(Promise!Top - 1)
    BY <1>18, <1>22, <1>23
  <2>2. Frames' = [SubSeq(Frames, 1, Promise!Top - 1) EXCEPT
                     ![Promise!Top - 1] = Promise!WithHandle(@, new, Frames[Promise!Top][h])]
    BY <1>21, <1>23 DEF below
  <2>3. QED BY <1>1, <2>1, <2>2 DEF Promise!CloseScope
<1>25. QED BY <1>18, <1>23, <1>24

LEMMA StackStepMaps ==
  ASSUME HandleInv, HandleInv', ExistIfReferenced', [HandleNext]_handleVars
  PROVE  [Promise!StackNext]_<<Frames, smart, {o \in HandleObjects : Exists(o)}>>
<1>1. CASE UNCHANGED handleVars
  BY <1>1 DEF handleVars, Frames, FrameSlots, Begin, Exists
<1>2. {o \in HandleObjects : Exists(o)}' = Promise!Referenced'
  BY DEF ExistIfReferenced
<1>3. CASE OpenHandleScope
  BY <1>2, <1>3, OpenMaps DEF Promise!StackNext
<1>4. CASE DestroyHandleScope
  BY <1>2, <1>4, DestroyMaps DEF Promise!StackNext
<1>5. ASSUME NEW o \in HandleObjects, CreateHandle(o)
      PROVE  Promise!StackNext
  BY <1>2, <1>5, CreateMaps DEF Promise!StackNext
<1>6. ASSUME NEW k \in DOMAIN slabs, NEW n \in DOMAIN slabs[k], CloseHandleScope(k, n)
      PROVE  Promise!StackNext
  BY <1>2, <1>6, CloseMaps DEF Promise!StackNext
<1>7. ASSUME NEW p \in SmartPtrs, NEW o \in HandleObjects \cup {NoObject}, SetSmartPtr(p, o)
      PROVE  Promise!StackNext
  BY <1>2, <1>7, PointMaps DEF Promise!StackNext
<1>8. QED BY <1>1, <1>3, <1>4, <1>5, <1>6, <1>7 DEF HandleNext

(* Slabs, limits and reference counts implement frames of handles: for any *)
(* sizes and any nesting, a handle refers to its object until its scope is *)
(* left, one can escape, and an object exists while it is referred to.     *)
THEOREM HandlesImplementStack == HandleSpec => ImplementsHandleStack
<1>1. HandleInv /\ HandleInv' /\ ExistIfReferenced' /\ [HandleNext]_handleVars
        => [Promise!StackNext]_<<Frames, smart, {o \in HandleObjects : Exists(o)}>>
  BY StackStepMaps
<1>2. QED BY <1>1, StackInitMaps, HandleInvAlways, ReferencedExist, PTL
      DEF HandleSpec, ImplementsHandleStack, Promise!StackSpec
=============================================================================
