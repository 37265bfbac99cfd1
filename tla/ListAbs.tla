------------------------------- MODULE ListAbs ------------------------------
(***************************************************************************)
(* What threads/list.h promises of a List: "a dumping ground for items",   *)
(* a sequence of entries, each an item with its key, put on at either end  *)
(* or in sorted order and taken off the front or by name.  The other       *)
(* modules use the kernel's lists as these sequences.                      *)
(***************************************************************************)
EXTENDS NachosList

CONSTANTS ListItems, Keys, MaxElements

VARIABLES
  entries,
  got        \* the entry the last operation handed back, or Nothing

Nothing == [item |-> "NULL", key |-> 0]
Aborted == [item |-> "aborted", key |-> 0]
Entry(item, key) == [item |-> item, key |-> key]

KeyOf(list) == [e \in list |-> e.key]

Init == entries = <<>> /\ got = Nothing

Room == Len(entries) < MaxElements

PutLast(item) ==
  Room /\ entries' = Append(entries, Entry(item, 0)) /\ got' = Nothing
PutFirst(item) ==
  Room /\ entries' = <<Entry(item, 0)>> \o entries /\ got' = Nothing
PutSorted(item, key) ==
  /\ Room /\ got' = Nothing
  /\ LET e == Entry(item, key)
     IN  entries' = SortedInsert(entries, e, KeyOf(Items(entries) \union {e}))

TakeFirst ==
  IF entries = <<>> THEN entries' = entries /\ got' = Nothing
  ELSE entries' = Tail(entries) /\ got' = Head(entries)

\* The first entry of the item goes, wherever it is; there must be one.
TakeNamed(item) ==
  \/ \E p \in DOMAIN entries :
       /\ entries[p].item = item /\ \A i \in 1 .. p - 1 : entries[i].item # item
       /\ entries' = RemoveItem(entries, entries[p])
       /\ got' = Nothing
  \/ /\ \A p \in DOMAIN entries : entries[p].item # item
     /\ entries' = entries /\ got' = Aborted

Empty == entries' = <<>> /\ got' = Nothing

Next ==
  \/ \E item \in ListItems :
       \/ PutLast(item) \/ PutFirst(item) \/ TakeNamed(item)
       \/ \E key \in Keys : PutSorted(item, key)
  \/ TakeFirst \/ Empty

Spec == Init /\ [][Next]_<<entries, got>>
=============================================================================
