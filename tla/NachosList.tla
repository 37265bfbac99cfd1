----------------------------- MODULE NachosList -----------------------------
(***************************************************************************)
(* The operations of threads/list.cc the kernel's queues rely on.  A List  *)
(* is the sequence of its items.  A key is a function from items to        *)
(* integers: every user of SortedInsert in the kernel inserts an item with *)
(* a key that never changes while the item is on the list.                 *)
(***************************************************************************)
EXTENDS Integers, Sequences

Items(list) == {list[i] : i \in DOMAIN list}

NoDuplicates(list) ==
  \A i, j \in DOMAIN list : list[i] = list[j] => i = j

IsSorted(list, key) ==
  \A i, j \in DOMAIN list : i < j => key[list[i]] <= key[list[j]]

\* The place SortedInsert's walk stops at: before the first element whose key
\* is bigger, or at the end.  Items with an equal key stay in front.
InsertPosition(list, item, key) ==
  CHOOSE p \in 1 .. Len(list) + 1 :
    /\ \A i \in 1 .. p - 1 : key[list[i]] <= key[item]
    /\ p <= Len(list) => key[item] < key[list[p]]

SortedInsert(list, item, key) ==
  LET p == InsertPosition(list, item, key)
  IN  [i \in 1 .. Len(list) + 1 |->
        IF i < p THEN list[i] ELSE IF i = p THEN item ELSE list[i - 1]]

\* List::Remove(item) unlinks the first element holding item; the walk must
\* find one (ASSERT(ptr != NULL)).
RemovePosition(list, item) ==
  CHOOSE p \in DOMAIN list :
    list[p] = item /\ \A i \in 1 .. p - 1 : list[i] # item

RemoveItem(list, item) ==
  LET p == RemovePosition(list, item)
  IN  [i \in 1 .. Len(list) - 1 |-> IF i < p THEN list[i] ELSE list[i + 1]]
=============================================================================
