-------------------------- MODULE NachosListProofs --------------------------
(***************************************************************************)
(* What the operations of threads/list.cc preserve, for every list: the    *)
(* facts the proofs about the kernel's queues rest on.                     *)
(***************************************************************************)
EXTENDS NachosList, TLAPS

\* Least elements exist.  Taken as a hypothesis here and proved where theorems
\* are stated, after the library module it comes from is instantiated.
NatWellOrdered == \A T \in SUBSET Nat : T # {} => \E n \in T : \A k \in T : n <= k

\* SortedInsert's walk always finds a place, and that place separates the
\* keys up to the new item's from the bigger ones (list.cc:194-205).
LEMMA InsertPositionFound ==
  ASSUME NatWellOrdered, NEW S, NEW list \in Seq(S), NEW item \in S, NEW key \in [S -> Int]
  PROVE  LET p == InsertPosition(list, item, key)
         IN  /\ p \in 1 .. Len(list) + 1
             /\ \A i \in 1 .. p - 1 : key[list[i]] <= key[item]
             /\ p <= Len(list) => key[item] < key[list[p]]
<1> DEFINE Stops == {q \in 1 .. Len(list) + 1 :
                       q <= Len(list) => key[item] < key[list[q]]}
<1>1. Stops \in SUBSET Nat /\ Stops # {}
  <2>1. Len(list) + 1 \in Stops
    OBVIOUS
  <2> QED
    BY <2>1
<1>2. PICK q \in Stops : \A r \in Stops : q <= r
  BY <1>1, Zenon DEF NatWellOrdered
<1>3. \A i \in 1 .. q - 1 : key[list[i]] <= key[item]
  <2> SUFFICES ASSUME NEW i \in 1 .. q - 1 PROVE key[list[i]] <= key[item]
    BY Zenon
  <2>1. i \in 1 .. Len(list) /\ i \notin Stops
    BY <1>2
  <2>2. list[i] \in S
    BY <2>1
  <2> QED
    BY <2>1, <2>2
<1> QED
  BY <1>2, <1>3, Zenon DEF InsertPosition

\* Inserting adds the item and keeps every other one (list.cc:182-207).
LEMMA SortedInsertItems ==
  ASSUME NatWellOrdered, NEW S, NEW list \in Seq(S), NEW item \in S, NEW key \in [S -> Int]
  PROVE  /\ SortedInsert(list, item, key) \in Seq(S)
         /\ Len(SortedInsert(list, item, key)) = Len(list) + 1
         /\ Items(SortedInsert(list, item, key)) = Items(list) \cup {item}
<1> DEFINE p == InsertPosition(list, item, key)
           new == SortedInsert(list, item, key)
<1>1. p \in 1 .. Len(list) + 1
  BY InsertPositionFound, Zenon
<1>2. new = [i \in 1 .. Len(list) + 1 |->
               IF i < p THEN list[i] ELSE IF i = p THEN item ELSE list[i - 1]]
  BY Zenon DEF SortedInsert
<1> HIDE DEF p, new
<1>3. new \in Seq(S) /\ Len(new) = Len(list) + 1
  <2>1. \A i \in 1 .. Len(list) + 1 : new[i] \in S
    BY <1>1, <1>2
  <2> QED
    BY <1>2, <2>1
<1>4. ASSUME NEW x \in Items(list) \cup {item} PROVE x \in Items(new)
  <2>1. CASE x = item
    <3>1. p \in DOMAIN new /\ new[p] = item
      BY <1>1, <1>2, <1>3
    <3> QED
      BY <2>1, <3>1, Zenon DEF Items
  <2>2. CASE x \in Items(list)
    <3>1. PICK i \in 1 .. Len(list) : x = list[i]
      BY <2>2 DEF Items
    <3>2. CASE i < p
      <4>1. i \in DOMAIN new /\ new[i] = x
        BY <1>1, <1>2, <1>3, <3>1, <3>2
      <4> QED
        BY <4>1, Zenon DEF Items
    <3>3. CASE ~(i < p)
      <4>1. i + 1 \in DOMAIN new /\ new[i + 1] = x
        BY <1>1, <1>2, <1>3, <3>1, <3>3
      <4> QED
        BY <4>1, Zenon DEF Items
    <3> QED
      BY <3>2, <3>3, Zenon
  <2> QED
    BY <1>4, <2>1, <2>2, Zenon
<1>5. ASSUME NEW x \in Items(new) PROVE x \in Items(list) \cup {item}
  <2>1. PICK i \in 1 .. Len(list) + 1 : x = new[i]
    BY <1>3, <1>5 DEF Items
  <2> QED
    BY <1>1, <1>2, <2>1 DEF Items
<1> QED
  BY <1>3, <1>4, <1>5, Zenon DEF new

\* Inserting a new item into a sorted list without duplicates gives another
\* one: SortedInsert never breaks the order it depends on.
LEMMA SortedInsertOrder ==
  ASSUME NatWellOrdered, NEW S, NEW list \in Seq(S), NEW item \in S, NEW key \in [S -> Int]
  PROVE  LET new == SortedInsert(list, item, key)
         IN  /\ IsSorted(list, key) => IsSorted(new, key)
             /\ NoDuplicates(list) /\ item \notin Items(list)
                  => NoDuplicates(new)
<1> DEFINE p == InsertPosition(list, item, key)
           new == SortedInsert(list, item, key)
<1>1. /\ p \in 1 .. Len(list) + 1
      /\ \A i \in 1 .. p - 1 : key[list[i]] <= key[item]
      /\ p <= Len(list) => key[item] < key[list[p]]
  BY InsertPositionFound, Zenon
<1>2. new = [i \in 1 .. Len(list) + 1 |->
               IF i < p THEN list[i] ELSE IF i = p THEN item ELSE list[i - 1]]
  BY Zenon DEF SortedInsert
<1>3. \A i \in 1 .. Len(list) : list[i] \in S
  OBVIOUS
<1>4. key[item] \in Int /\ \A i \in 1 .. Len(list) : key[list[i]] \in Int
  BY <1>3, Zenon
<1>a. DOMAIN list = 1 .. Len(list) /\ Len(list) \in Nat
  OBVIOUS
<1> HIDE DEF p, new
<1>5. ASSUME IsSorted(list, key) PROVE IsSorted(new, key)
  <2> SUFFICES ASSUME NEW i \in 1 .. Len(list) + 1, NEW j \in 1 .. Len(list) + 1,
                      i < j
               PROVE  key[new[i]] <= key[new[j]]
    BY <1>2, Zenon DEF IsSorted
  <2>1. \A m \in p .. Len(list) : key[item] < key[list[m]]
    <3> SUFFICES ASSUME NEW m \in p .. Len(list) PROVE key[item] < key[list[m]]
      BY Zenon
    <3>1. p \in 1 .. Len(list) /\ m \in 1 .. Len(list)
      BY <1>1
    <3>2. p = m \/ p < m
      BY <1>1
    <3>3. p < m => key[list[p]] <= key[list[m]]
      BY <1>5, <1>a, <3>1, Zenon DEF IsSorted
    <3> QED
      BY <1>1, <1>4, <3>1, <3>2, <3>3
  <2>2. \A m, n \in 1 .. Len(list) : m < n => key[list[m]] <= key[list[n]]
    BY <1>5, <1>a, Zenon DEF IsSorted
  <2>3. CASE j < p
    <3>1. i \in 1 .. Len(list) /\ j \in 1 .. Len(list)
      BY <1>1, <2>3
    <3>2. new[i] = list[i] /\ new[j] = list[j]
      BY <1>1, <1>2, <2>3
    <3>3. key[list[i]] <= key[list[j]]
      BY <2>2, <3>1, Zenon
    <3> QED
      BY <3>2, <3>3, Zenon
  <2>4. CASE j = p
    BY <1>1, <1>2, <2>4
  <2>5. CASE p < j /\ i < p
    <3>1. i \in 1 .. Len(list) /\ j - 1 \in 1 .. Len(list) /\ p <= j - 1
      BY <1>1, <2>5
    <3>2. key[list[i]] <= key[item] /\ key[item] < key[list[j - 1]]
      BY <1>1, <2>1, <2>5, <3>1
    <3> QED
      BY <1>1, <1>2, <1>4, <2>5, <3>1, <3>2, SMTT(30)
  <2>6. CASE i = p
    <3>1. j - 1 \in p .. Len(list) /\ j - 1 \in 1 .. Len(list)
      BY <1>1, <2>6
    <3>2. key[item] < key[list[j - 1]]
      BY <2>1, <3>1, Zenon
    <3> QED
      BY <1>1, <1>2, <1>4, <2>6, <3>1, <3>2
  <2>7. CASE p < i
    <3>1. i - 1 \in 1 .. Len(list) /\ j - 1 \in 1 .. Len(list)
      BY <1>1, <2>7
    <3>2. new[i] = list[i - 1] /\ new[j] = list[j - 1]
      BY <1>1, <1>2, <2>7, SMTT(30)
    <3>3. i - 1 < j - 1
      OBVIOUS
    <3>4. key[list[i - 1]] <= key[list[j - 1]]
      BY <2>2, <3>1, <3>3, Zenon
    <3> QED
      BY <3>2, <3>4, Zenon
  <2> QED
    BY <1>1, <2>3, <2>4, <2>5, <2>6, <2>7
<1>6. ASSUME NoDuplicates(list), item \notin Items(list) PROVE NoDuplicates(new)
  <2>1. \A m \in 1 .. Len(list) : list[m] # item
    BY <1>6, <1>a, Zenon DEF Items
  <2>2. \A m, n \in 1 .. Len(list) : list[m] = list[n] => m = n
    BY <1>6, <1>a, Zenon DEF NoDuplicates
  <2> SUFFICES ASSUME NEW i \in 1 .. Len(list) + 1, NEW j \in 1 .. Len(list) + 1,
                      new[i] = new[j]
               PROVE  i = j
    BY <1>2 DEF NoDuplicates
  <2>3. /\ i < p => i \in 1 .. Len(list) /\ new[i] = list[i]
        /\ i = p => new[i] = item
        /\ p < i => i - 1 \in 1 .. Len(list) /\ new[i] = list[i - 1]
    BY <1>1, <1>2
  <2>4. /\ j < p => j \in 1 .. Len(list) /\ new[j] = list[j]
        /\ j = p => new[j] = item
        /\ p < j => j - 1 \in 1 .. Len(list) /\ new[j] = list[j - 1]
    BY <1>1, <1>2
  <2>5. CASE i < p /\ p < j
    <3>1. list[i] = list[j - 1] /\ i # j - 1
      BY <1>1, <2>3, <2>4, <2>5
    <3> QED
      BY <2>2, <2>3, <2>4, <2>5, <3>1, Zenon
  <2>6. CASE j < p /\ p < i
    <3>1. list[j] = list[i - 1] /\ j # i - 1
      BY <1>1, <2>3, <2>4, <2>6
    <3> QED
      BY <2>2, <2>3, <2>4, <2>6, <3>1, Zenon
  <2>7. CASE i = p \/ j = p
    BY <1>1, <2>1, <2>3, <2>4, <2>7, SMTT(30)
  <2>8. CASE i < p /\ j < p
    BY <2>2, <2>3, <2>4, <2>8, Zenon
  <2>9. CASE p < i /\ p < j
    <3>1. i - 1 = j - 1
      BY <2>2, <2>3, <2>4, <2>9, Zenon
    <3> QED
      BY <3>1
  <2> QED
    BY <1>1, <2>5, <2>6, <2>7, <2>8, <2>9
<1> QED
  BY <1>5, <1>6, Zenon DEF new

\* Removing an item of a list without duplicates removes just that item and
\* keeps the order of the others (list.cc:247-275).
LEMMA RemoveItemItems ==
  ASSUME NEW S, NEW list \in Seq(S), NEW item \in Items(list),
         NoDuplicates(list), NEW key \in [S -> Int]
  PROVE  LET new == RemoveItem(list, item)
         IN  /\ new \in Seq(S)
             /\ Items(new) = Items(list) \ {item}
             /\ NoDuplicates(new)
             /\ IsSorted(list, key) => IsSorted(new, key)
<1> DEFINE p == RemovePosition(list, item)
           new == RemoveItem(list, item)
<1>a. DOMAIN list = 1 .. Len(list) /\ Len(list) \in Nat
  OBVIOUS
<1>1. p \in 1 .. Len(list) /\ list[p] = item
  <2>1. PICK q \in 1 .. Len(list) : list[q] = item
    BY <1>a, Zenon DEF Items
  <2>2. \A i \in 1 .. q - 1 : list[i] # item
    BY <1>a, <2>1 DEF NoDuplicates
  <2> QED
    BY <1>a, <2>1, <2>2, Zenon DEF RemovePosition
<1>2. new = [i \in 1 .. Len(list) - 1 |-> IF i < p THEN list[i] ELSE list[i + 1]]
  BY Zenon DEF RemoveItem
<1> HIDE DEF p, new
<1>3. new \in Seq(S) /\ Len(new) = Len(list) - 1
  <2>1. \A i \in 1 .. Len(list) - 1 : new[i] \in S
    BY <1>1, <1>2
  <2>2. Len(list) - 1 \in Nat
    BY <1>1
  <2> QED
    BY <1>2, <2>1, <2>2
<1>4. \A i, j \in 1 .. Len(list) : list[i] = list[j] => i = j
  BY <1>a, Zenon DEF NoDuplicates
<1>5. ASSUME NEW x \in Items(list) \ {item} PROVE x \in Items(new)
  <2>1. PICK i \in 1 .. Len(list) : x = list[i]
    BY <1>a, <1>5, Zenon DEF Items
  <2>2. i # p
    BY <1>1, <1>5, <2>1, Zenon
  <2>3. CASE i < p
    <3>1. i \in DOMAIN new /\ new[i] = x
      BY <1>1, <1>2, <1>3, <2>1, <2>3
    <3> QED
      BY <3>1, Zenon DEF Items
  <2>4. CASE p < i
    <3>1. i - 1 \in DOMAIN new /\ new[i - 1] = x
      BY <1>1, <1>2, <1>3, <2>1, <2>4
    <3> QED
      BY <3>1, Zenon DEF Items
  <2> QED
    BY <1>1, <2>2, <2>3, <2>4
<1>6. ASSUME NEW x \in Items(new) PROVE x \in Items(list) \ {item}
  <2>1. PICK i \in 1 .. Len(list) - 1 : x = new[i]
    BY <1>2, <1>6, Zenon DEF Items
  <2>2. CASE i < p
    BY <1>1, <1>2, <1>4, <1>a, <2>1, <2>2, SMTT(30) DEF Items
  <2>3. CASE ~(i < p)
    BY <1>1, <1>2, <1>4, <1>a, <2>1, <2>3, SMTT(30) DEF Items
  <2> QED
    BY <2>2, <2>3, Zenon
<1>b. \A i \in 1 .. Len(list) - 1 :
        /\ i < p => i \in 1 .. Len(list) /\ new[i] = list[i]
        /\ ~(i < p) => i + 1 \in 1 .. Len(list) /\ new[i] = list[i + 1]
  BY <1>1, <1>2
<1>7. NoDuplicates(new)
  <2> SUFFICES ASSUME NEW i \in 1 .. Len(list) - 1, NEW j \in 1 .. Len(list) - 1,
                      new[i] = new[j]
               PROVE  i = j
    BY <1>2 DEF NoDuplicates
  <2> QED
    BY <1>1, <1>4, <1>b, SMTT(30)
<1>8. ASSUME IsSorted(list, key) PROVE IsSorted(new, key)
  <2>1. \A m, n \in 1 .. Len(list) : m < n => key[list[m]] <= key[list[n]]
    BY <1>8, <1>a, Zenon DEF IsSorted
  <2> SUFFICES ASSUME NEW i \in 1 .. Len(list) - 1, NEW j \in 1 .. Len(list) - 1,
                      i < j
               PROVE  key[new[i]] <= key[new[j]]
    BY <1>2, Zenon DEF IsSorted
  <2>2. CASE j < p
    <3>1. /\ i \in 1 .. Len(list) /\ new[i] = list[i]
          /\ j \in 1 .. Len(list) /\ new[j] = list[j]
      BY <1>1, <1>b, <2>2
    <3> QED
      BY <2>1, <3>1, Zenon
  <2>3. CASE i < p /\ ~(j < p)
    <3>1. /\ i \in 1 .. Len(list) /\ new[i] = list[i]
          /\ j + 1 \in 1 .. Len(list) /\ new[j] = list[j + 1]
          /\ i < j + 1
      BY <1>1, <1>b, <2>3
    <3> QED
      BY <2>1, <3>1, Zenon
  <2>4. CASE ~(i < p)
    <3>1. /\ i + 1 \in 1 .. Len(list) /\ new[i] = list[i + 1]
          /\ j + 1 \in 1 .. Len(list) /\ new[j] = list[j + 1]
          /\ i + 1 < j + 1
      BY <1>1, <1>b, <2>4
    <3> QED
      BY <2>1, <3>1, Zenon
  <2> QED
    BY <1>1, <2>2, <2>3, <2>4, Zenon
<1> QED
  BY <1>3, <1>5, <1>6, <1>7, <1>8, Zenon DEF new

\* List::Append of a new item.
LEMMA AppendNew ==
  ASSUME NEW S, NEW list \in Seq(S), NEW item \in S,
         NoDuplicates(list), item \notin Items(list)
  PROVE  /\ Append(list, item) \in Seq(S)
         /\ NoDuplicates(Append(list, item))
         /\ Items(Append(list, item)) = Items(list) \cup {item}
<1> DEFINE new == Append(list, item)
<1>1. /\ new \in Seq(S) /\ DOMAIN new = 1 .. Len(list) + 1
      /\ DOMAIN list = 1 .. Len(list) /\ Len(list) \in Nat
      /\ new[Len(list) + 1] = item /\ \A k \in 1 .. Len(list) : new[k] = list[k]
  OBVIOUS
<1> HIDE DEF new
<1>2. \A k \in 1 .. Len(list) : list[k] # item
  BY <1>1, Zenon DEF Items
<1>3. NoDuplicates(new)
  BY <1>1, <1>2 DEF NoDuplicates
<1>4. Items(new) = Items(list) \cup {item}
  BY <1>1 DEF Items
<1> QED
  BY <1>1, <1>3, <1>4, Zenon DEF new

\* List::Remove of the first item.
LEMMA RemoveFirst ==
  ASSUME NEW S, NEW list \in Seq(S), NoDuplicates(list), list # <<>>
  PROVE  /\ Head(list) \in Items(list) /\ Head(list) \in S
         /\ Tail(list) \in Seq(S) /\ NoDuplicates(Tail(list))
         /\ Items(Tail(list)) = Items(list) \ {Head(list)}
<1> DEFINE rest == Tail(list)
<1>1. /\ Len(list) \in Nat \ {0} /\ DOMAIN list = 1 .. Len(list)
      /\ Head(list) = list[1] /\ list[1] \in S
  OBVIOUS
<1>2. /\ rest \in Seq(S) /\ DOMAIN rest = 1 .. Len(list) - 1
      /\ \A k \in 1 .. Len(list) - 1 : rest[k] = list[k + 1]
  BY <1>1
<1> HIDE DEF rest
<1>3. NoDuplicates(rest)
  <2> SUFFICES ASSUME NEW i \in DOMAIN rest, NEW j \in DOMAIN rest, rest[i] = rest[j]
               PROVE  i = j
    BY Zenon DEF NoDuplicates
  <2>1. /\ i + 1 \in DOMAIN list /\ j + 1 \in DOMAIN list /\ i \in Nat /\ j \in Nat
        /\ list[i + 1] = list[j + 1]
    BY <1>1, <1>2
  <2>2. i + 1 = j + 1
    BY <2>1, Zenon DEF NoDuplicates
  <2> QED
    BY <2>1, <2>2
<1>4. ASSUME NEW x \in Items(rest) PROVE x \in Items(list) \ {list[1]}
  <2>1. PICK k \in 1 .. Len(list) - 1 : x = list[k + 1]
    BY <1>2, <1>4, Zenon DEF Items
  <2>2. k + 1 \in DOMAIN list /\ 1 \in DOMAIN list /\ k + 1 # 1
    BY <1>1, <2>1
  <2> QED
    BY <2>1, <2>2, Zenon DEF Items, NoDuplicates
<1>5. ASSUME NEW x \in Items(list) \ {list[1]} PROVE x \in Items(rest)
  <2>1. PICK k \in 1 .. Len(list) : x = list[k]
    BY <1>1, <1>5, Zenon DEF Items
  <2>2. k - 1 \in DOMAIN rest /\ rest[k - 1] = x
    BY <1>1, <1>2, <1>5, <2>1
  <2> QED
    BY <2>2, Zenon DEF Items
<1>6. list[1] \in Items(list)
  BY <1>1 DEF Items
<1> QED
  BY <1>1, <1>2, <1>3, <1>4, <1>5, <1>6, Zenon DEF rest
=============================================================================
