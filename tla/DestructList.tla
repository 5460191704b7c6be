---------------------------- MODULE DestructList ----------------------------
(***************************************************************************)
(* DestructingList of destruct_list.h: a doubly linked list that holds     *)
(* each pointer at most once, null included, and destroys what it holds.   *)
(* From before the project's reset, commented out at this commit.          *)
(***************************************************************************)
EXTENDS Naturals, FiniteSets, Functions

CONSTANTS
  Elems,      \* where a DestructingListElem can live
  Pointers,   \* the values, one of them may be null
  NoElem,     \* a null pointer to an element
  MaxStores   \* bound: how often each value is added

ASSUME ListAssumption ==
  /\ NoElem \notin Elems /\ IsFiniteSet(Elems)
  /\ MaxStores \in Nat

VARIABLES
  head,
  elem,      \* the elements that are allocated: value, prev and next
  members,   \* history: the values added and not deleted since
  stores,    \* history: how often each value was added that was not there
  destroyed  \* history: how often each value was destroyed

listVars == <<head, elem, members, stores, destroyed>>

Elem == [value : Pointers, prev : Elems \cup {NoElem}, next : Elems \cup {NoElem}]

ListTypeOK ==
  /\ head \in Elems \cup {NoElem}
  /\ DOMAIN elem \subseteq Elems
  /\ \A e \in DOMAIN elem : elem[e] \in Elem
  /\ members \subseteq Pointers
  /\ stores \in [Pointers -> 0 .. MaxStores]
  /\ destroyed \in [Pointers -> Nat]

ListInit ==
  /\ head = NoElem
  /\ elem = <<>>
  /\ members = {}
  /\ stores = [p \in Pointers |-> 0]
  /\ destroyed = [p \in Pointers |-> 0]

(* The next pointers, from head, do not lead out of S. *)
Closed(S) ==
  /\ head # NoElem => head \in S
  /\ \A e \in S \cap DOMAIN elem : elem[e].next # NoElem => elem[e].next \in S

(* What a walk along the next pointers comes to. *)
Reached == {e \in Elems : \A S \in SUBSET Elems : Closed(S) => e \in S}

Find(p) == {e \in Reached : elem[e].value = p}

Add(p) ==
  /\ stores[p] < MaxStores
  /\ Find(p) = {}
  /\ \E e \in Elems \ DOMAIN elem :
       /\ elem' = [x \in DOMAIN elem \cup {e} |->
                     CASE x = e    -> [value |-> p, prev |-> NoElem, next |-> head]
                       [] x = head -> [elem[x] EXCEPT !.prev = e]
                       [] OTHER    -> elem[x]]
       /\ head' = e
  /\ members' = members \cup {p}
  /\ stores' = [stores EXCEPT ![p] = @ + 1]
  /\ UNCHANGED destroyed

Unlinked_Slip(e) ==  \* the way back is not mended
  [x \in DOMAIN elem \ {e} |->
     [elem[x] EXCEPT !.next = IF x = elem[e].prev THEN elem[e].next ELSE @]]

Unlinked(e) ==
  [x \in DOMAIN elem \ {e} |->
     [elem[x] EXCEPT !.next = IF x = elem[e].prev THEN elem[e].next ELSE @,
                     !.prev = IF x = elem[e].next THEN elem[e].prev ELSE @]]

Delete_Slip(p) ==  \* the deletion function is left to the destructor
  /\ \E e \in Find(p) :
       /\ elem' = Unlinked(e)
       /\ head' = IF head = e THEN elem[e].next ELSE head
  /\ members' = members \ {p}
  /\ UNCHANGED <<stores, destroyed>>

Delete(p) ==
  /\ \E e \in Find(p) :
       /\ elem' = Unlinked(e)
       /\ head' = IF head = e THEN elem[e].next ELSE head
  /\ members' = members \ {p}
  /\ destroyed' = [destroyed EXCEPT ![p] = @ + 1]
  /\ UNCHANGED stores

(* The destructor; another list may be made in the same place. *)
DestroyList ==
  /\ destroyed' = [p \in Pointers |-> destroyed[p] + Cardinality(Find(p))]
  /\ elem' = Restrict(elem, DOMAIN elem \ Reached)
  /\ head' = NoElem
  /\ members' = {}
  /\ UNCHANGED stores

ListNext == (\E p \in Pointers : Add(p) \/ Delete(p)) \/ DestroyList

ListSpec == ListInit /\ [][ListNext]_listVars
-----------------------------------------------------------------------------
(* The list can be walked: forwards it reaches every element allocated,    *)
(* each way back is the inverse of the way forward, and it holds each      *)
(* value that was added and not deleted, once.                             *)
WellLinked ==
  /\ Reached = DOMAIN elem
  /\ \A e \in Reached :
       /\ elem[e].prev = NoElem <=> e = head
       /\ elem[e].next # NoElem => elem[elem[e].next].prev = e
  /\ {elem[e].value : e \in Reached} = members
  /\ Cardinality(Reached) = Cardinality(members)

(* The deletion function is called once for each time a value came in: by  *)
(* Delete, or at the end by the destructor, and never by both.             *)
DestroyedOnce ==
  \A p \in Pointers : stores[p] = destroyed[p] + (IF p \in members THEN 1 ELSE 0)

(* What is in the list can be found, once; what was in it was destroyed,   *)
(* once.                                                                   *)
ListKeepsBooks == ListTypeOK /\ WellLinked /\ DestroyedOnce
=============================================================================
