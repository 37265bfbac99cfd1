------------------------------ MODULE FileHeader ------------------------------
(***************************************************************************)
(* The bitmap of sectors (userprog/bitmap.cc) and the file header          *)
(* (filesys/filehdr.cc) as operators.  A map is the set of its marked      *)
(* sectors.  A header holds the length in bytes, the number of data        *)
(* sectors and the array dataSectors: NumDirect data sectors, then         *)
(* NumSecondIndex index sectors that hold SecondDirect entries each.       *)
(***************************************************************************)
EXTENDS Integers, FiniteSets, TLC

CONSTANTS NumSectors, SectorSize, NumDirect, SecondDirect, NumSecondIndex

ASSUME HeaderConstants ==
    /\ {NumSectors, SectorSize, NumDirect, SecondDirect} \subseteq Nat \ {0}
    /\ NumSecondIndex \in Nat

Sectors == 0 .. NumSectors - 1
NoSector == -1
SlotIndices == 0 .. NumDirect + NumSecondIndex - 1
MaxSectors == NumDirect + NumSecondIndex * SecondDirect

divRoundUp(n, s) == (n + s - 1) \div s
Least(S) == CHOOSE x \in S : \A y \in S : x <= y

\* ------------------------------- BitMap -------------------------------

ClearBits(map) == Sectors \ map
NumClear(map) == Cardinality(ClearBits(map))

\* What the k-th of a row of Find calls returns: the k-th clear bit, or -1.
NthFind(map, k) ==
    IF k > NumClear(map) THEN NoSector
    ELSE CHOOSE s \in ClearBits(map) :
            Cardinality({t \in ClearBits(map) : t < s}) = k - 1

Find(map) == NthFind(map, 1)

\* Where FindN(cnt) may stop.  It tests cnt bits from every start in turn, so
\* when no run of more than one is clear it tests a bit past the end and Test's
\* ASSERT fails.
RunStarts(map, cnt) ==
    {i \in Sectors : i + cnt <= NumSectors /\ (i .. i + cnt - 1) \cap map = {}}

\* ---------------------------- FileHeader ------------------------------

NoSectors == [k \in SlotIndices |-> NoSector]
EmptyHeader == [numBytes |-> 0, numSectors |-> 0, dataSectors |-> NoSectors]
EmptyBlock == [o \in 0 .. SecondDirect - 1 |-> NoSector]

\* The index blocks started when the file grows from `from` to `to` sectors.
Opened(from, to) ==
    {i \in 0 .. NumSecondIndex - 1 :
        LET first == NumDirect + i * SecondDirect IN from <= first /\ first < to}

\* The index blocks written by the same growth.
Touched(from, to) ==
    {i \in 0 .. NumSecondIndex - 1 :
        LET first == NumDirect + i * SecondDirect
        IN  first < to /\ from < first + SecondDirect}

\* The turn of data sector j, and of index block i, among the sectors taken:
\* direct ones first, and every index sector just before its entries.
DataTurn(from, j) == j - from + 1 + Cardinality(Opened(from, j + 1))
IndexTurn(from, i) ==
    LET first == NumDirect + i * SecondDirect
    IN  first - from + Cardinality(Opened(from, first + 1))

\* The header grown to `to` sectors; `taken` lists the sectors in their turn.
Grow(hdr, to, taken) ==
    LET from == hdr.numSectors
        direct == [k \in {k \in SlotIndices : k < NumDirect /\ from <= k /\ k < to} |->
                      taken[DataTurn(from, k)]]
        index == [k \in {NumDirect + i : i \in Opened(from, to)} |->
                      taken[IndexTurn(from, k - NumDirect)]]
    IN  [hdr EXCEPT !.numSectors = to, !.dataSectors = direct @@ index @@ @]

\* The entries of index block i after the growth; `old` is what it held.
GrowBlock(from, to, i, old, taken) ==
    LET first == NumDirect + i * SecondDirect
    IN  [o \in {o \in DOMAIN old : from <= first + o /\ first + o < to} |->
            taken[DataTurn(from, first + o)]] @@ old

TakenCount(from, to) == to - from + Cardinality(Opened(from, to))

\* FileHeader::Allocate.  NSecIndex is read uninitialized when the file needs
\* no index sector: `garbage` is what it holds then.  The free space is tested
\* after FindN marked the run.
Allocate(map, size, garbage) ==
    LET n == divRoundUp(size, SectorSize)
        nSecIndex == IF n > NumDirect
                     THEN divRoundUp(n - NumDirect, SecondDirect)
                     ELSE garbage
        cnt == n + nSecIndex
        starts == RunStarts(map, cnt)
        beg == IF starts = {} THEN NoSector ELSE Least(starts)
        marked == IF starts = {} THEN map ELSE map \cup (beg .. beg + cnt - 1)
        taken == [k \in 1 .. TakenCount(0, n) |->
                    IF beg > 0 THEN beg + k - 1 ELSE NthFind(marked, k)]
    IN  IF starts = {} /\ cnt > 1 THEN [abort |-> TRUE]
        ELSE IF NumClear(marked) < n \/ size > MaxSectors * SectorSize
        THEN [abort |-> FALSE, ok |-> FALSE]
        ELSE [abort |-> FALSE, ok |-> TRUE,
              exact |-> cnt <= 0 \/ cnt = TakenCount(0, n),
              map |-> IF beg > 0 THEN marked
                      ELSE marked \cup {taken[k] : k \in DOMAIN taken},
              hdr |-> [Grow(EmptyHeader, n, taken) EXCEPT !.numBytes = size],
              blocks |-> [i \in Touched(0, n) |->
                            GrowBlock(0, n, i, EmptyBlock, taken)]]

\* FileHeader::extendLength.  Find's -1 is not tested: it is stored as a sector
\* number, and writing an index block to it aborts.  `block[s]` is the index
\* block in sector s.
extendLength(hdr, newNumBytes, sectorNum, map, block) ==
    LET from == hdr.numSectors
        want == from + sectorNum
        to == IF want <= from THEN from ELSE Least({want, MaxSectors})
        taken == [k \in 1 .. TakenCount(from, to) |-> NthFind(map, k)]
        grown == Grow(hdr, to, taken)
        touched == IF to = from THEN {} ELSE Touched(from, to)
    IN  [abort |-> \E i \in touched : grown.dataSectors[NumDirect + i] = NoSector,
         ok |-> want <= to,
         map |-> map \cup ({taken[k] : k \in DOMAIN taken} \ {NoSector}),
         hdr |-> IF want <= to THEN [grown EXCEPT !.numBytes = newNumBytes] ELSE grown,
         blocks |-> [i \in touched |->
                       GrowBlock(from, to, i,
                                 IF i \in Opened(from, to) THEN EmptyBlock
                                 ELSE block[hdr.dataSectors[NumDirect + i]], taken)]]

\* FileHeader::ByteToSector
ByteToSector(hdr, offset, block) ==
    LET j == offset \div SectorSize
        i == (j - NumDirect) \div SecondDirect
    IN  IF j < NumDirect THEN hdr.dataSectors[j]
        ELSE block[hdr.dataSectors[NumDirect + i]][(j - NumDirect) % SecondDirect]

\* The sectors Deallocate tests and clears, as <<kind, position, sector>>: the
\* data sectors and the index sectors of a header.
Owned(hdr, block) ==
    {<<"data", j, ByteToSector(hdr, j * SectorSize, block)>> : j \in 0 .. hdr.numSectors - 1}
      \cup {<<"index", i, hdr.dataSectors[NumDirect + i]>> : i \in Opened(0, hdr.numSectors)}

OwnedSectors(hdr, block) == {o[3] : o \in Owned(hdr, block)}

\* FileHeader::Deallocate: every sector must be marked, and is cleared, so a
\* sector that occurs twice fails the second test.
DeallocateAborts(hdr, map, block) ==
    \/ Cardinality(OwnedSectors(hdr, block)) < Cardinality(Owned(hdr, block))
    \/ ~ (OwnedSectors(hdr, block) \subseteq map)
DeallocateDataOnly(hdr, map, block) ==
    map \ {o[3] : o \in {p \in Owned(hdr, block) : p[1] = "data"}}
Deallocate(hdr, map, block) == map \ OwnedSectors(hdr, block)
===============================================================================
