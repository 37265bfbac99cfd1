----------------------------- MODULE LinkedList -----------------------------
(***************************************************************************)
(* A List as threads/list.cc keeps it: ListElements on the heap, linked    *)
(* from first to last.  An address is free until new hands it out and      *)
(* after delete.  Nobody interrupts an operation: the kernel's callers run *)
(* with interrupts off or hold a lock.                                     *)
(***************************************************************************)
EXTENDS NachosList

CONSTANTS
  ListItems, Keys,
  MaxElements      \* bound on the elements on the list at a time

ASSUME ListAssumption == MaxElements \in Nat \ {0} /\ Keys \subseteq Int

VARIABLES
  first, last, numInList,
  heap,        \* address -> ListElement or Freed
  returned     \* what the last operation handed back

listVars == <<first, last, numInList, heap, returned>>

NULL == 0
Addresses == 1 .. MaxElements

\* The constructor of a ListElement.
ListElement(item, key) == [item |-> item, key |-> key, next |-> NULL]
Freed == ListElement("freed", 0)
Nothing == [item |-> "NULL", key |-> 0]
Aborted == [item |-> "aborted", key |-> 0]

Allocated == {a \in Addresses : heap[a] # Freed}

\* The element new allocates, when there is memory.
CanAllocate == Allocated # Addresses
NewElement == CHOOSE a \in Addresses \ Allocated : \A b \in Addresses \ Allocated : a <= b

IsEmpty == first = NULL

\* The elements a walk along next meets, as in Mapcar: at most MaxElements + 1
\* of them, so that a walk that goes in circles can be seen.
Walk ==
  LET step[n \in 0 .. MaxElements] ==
        IF n = 0 THEN first
        ELSE IF step[n - 1] = NULL THEN NULL ELSE heap[step[n - 1]].next
  IN  SelectSeq([n \in 1 .. MaxElements + 1 |-> step[n - 1]], LAMBDA a : a # NULL)

\* List::List.
ListInit ==
  /\ first = NULL /\ last = NULL /\ numInList = 0
  /\ heap = [a \in Addresses |-> Freed]
  /\ returned = Nothing

\* Put element e, with its fields set, into the memory at hand.
Linked(e, item, key, next) == [heap EXCEPT ![e] = [ListElement(item, key) EXCEPT !.next = next]]

AddOnly(e, item, key) ==
  /\ IsEmpty
  /\ heap' = Linked(e, item, key, NULL) /\ first' = e /\ last' = e

AddFirst(e, item, key) ==
  /\ ~IsEmpty
  /\ heap' = Linked(e, item, key, first) /\ first' = e /\ UNCHANGED last

AddLast(e, item, key) ==
  /\ ~IsEmpty
  /\ heap' = [Linked(e, item, key, NULL) EXCEPT ![last].next = e] /\ last' = e
  /\ UNCHANGED first

Counted == numInList' = numInList + 1 /\ returned' = Nothing

\* List::Append.
ListAppend(item) ==
  /\ CanAllocate
  /\ AddOnly(NewElement, item, 0) \/ AddLast(NewElement, item, 0)
  /\ Counted

\* List::Prepend.
ListPrepend(item) ==
  /\ CanAllocate
  /\ AddOnly(NewElement, item, 0) \/ AddFirst(NewElement, item, 0)
  /\ Counted

\* Mutant: an item goes in before the items with an equal key.
InsertAfterBigger(key) ==
  {i \in 1 .. Len(Walk) - 1 :
     /\ key <= heap[Walk[i + 1]].key
     /\ \A j \in 2 .. i : key > heap[Walk[j]].key}

\* The loop of List::SortedInsert: ptr's successor is the first, of those
\* after the first element, with a bigger key.
InsertAfter(key) ==
  {i \in 1 .. Len(Walk) - 1 :
     /\ key < heap[Walk[i + 1]].key
     /\ \A j \in 2 .. i : key >= heap[Walk[j]].key}

AddSorted(e, item, key) ==
  \/ AddOnly(e, item, key)
  \/ ~IsEmpty /\ key < heap[first].key /\ AddFirst(e, item, key)
  \/ /\ ~IsEmpty /\ key >= heap[first].key
     /\ \E i \in InsertAfter(key) :
          heap' = [Linked(e, item, key, heap[Walk[i]].next) EXCEPT ![Walk[i]].next = e]
     /\ UNCHANGED <<first, last>>
  \/ ~IsEmpty /\ key >= heap[first].key /\ InsertAfter(key) = {} /\ AddLast(e, item, key)

\* List::SortedInsert.
ListSortedInsert(item, key) ==
  /\ CanAllocate
  /\ AddSorted(NewElement, item, key)
  /\ Counted

\* The first element is unlinked and deleted.
DropFirst ==
  /\ IF first = last
     THEN first' = NULL /\ last' = NULL
     ELSE first' = heap[first].next /\ UNCHANGED last
  /\ heap' = [heap EXCEPT ![first] = Freed]
  /\ numInList' = numInList - 1

\* List::SortedRemove, and List::Remove, which ignores the key.
SortedRemove ==
  IF IsEmpty
  THEN UNCHANGED <<first, last, numInList, heap>> /\ returned' = Nothing
  ELSE DropFirst /\ returned' = [item |-> heap[first].item, key |-> heap[first].key]

\* The loop of List::Remove(item) has found the item in the i-th element.
Unlink(i) ==
  /\ heap' = [heap EXCEPT ![Walk[i - 1]].next = heap[Walk[i]].next, ![Walk[i]] = Freed]
  /\ last' = IF heap[Walk[i]].next = NULL THEN Walk[i - 1] ELSE last
  /\ numInList' = numInList - 1
  /\ UNCHANGED first

\* List::Remove(item).  An item that is not on the list stops Nachos: an empty
\* list has no first to look at, and at the end of a list the ASSERT fails.
RemoveThe(item) ==
  \/ \E i \in DOMAIN Walk :
       /\ heap[Walk[i]].item = item /\ \A j \in 1 .. i - 1 : heap[Walk[j]].item # item
       /\ returned' = Nothing
       /\ IF i = 1 THEN DropFirst ELSE Unlink(i)
  \/ /\ \A i \in DOMAIN Walk : heap[Walk[i]].item # item
     /\ returned' = Aborted
     /\ UNCHANGED <<first, last, numInList, heap>>

\* List::~List, which removes until the list is empty, and a new list; also
\* the next run of Nachos.
Destroy ==
  /\ heap' = [a \in Addresses |-> IF a \in Items(Walk) THEN Freed ELSE heap[a]]
  /\ first' = NULL /\ last' = NULL /\ numInList' = 0 /\ returned' = Nothing

ListNext ==
  \/ /\ returned # Aborted
     /\ \/ \E item \in ListItems :
             \/ ListAppend(item) \/ ListPrepend(item) \/ RemoveThe(item)
             \/ \E key \in Keys : ListSortedInsert(item, key)
        \/ SortedRemove
  \/ Destroy

\* -------------------------------- properties -------------------------------

\* The elements allocated are those between first and last, in a chain that
\* ends: the list leaks none and refers to none it has deleted; numInList
\* counts them.
ListWellFormed ==
  /\ NoDuplicates(Walk) /\ Items(Walk) = Allocated
  /\ last = IF Walk = <<>> THEN NULL ELSE Walk[Len(Walk)]
  /\ numInList = Len(Walk)

Sequence ==
  INSTANCE ListAbs WITH
    entries <- [i \in DOMAIN Walk |-> [item |-> heap[Walk[i]].item, key |-> heap[Walk[i]].key]],
    got <- returned

\* The pointers implement the sequence the kernel's other modules take a list
\* for, in the order list.cc documents for its insertions, and stay well formed.
ImplementsList == Sequence!Spec /\ []ListWellFormed
=============================================================================
