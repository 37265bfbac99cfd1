------------------------------ MODULE FileSystem ------------------------------
(***************************************************************************)
(* The file system of the filesys build: Directory (filesys/directory.cc), *)
(* FileSystem (filesys/filesys.cc) and the operations of OpenFile          *)
(* (filesys/openfile.cc), called one at a time: "this implementation       *)
(* assumes there is no concurrent access" (filesys.cc:169).                *)
(*                                                                         *)
(* A sector holds one of: zeroes, a header, an index block, a directory    *)
(* table, the map, or data whose value is left out.  A path is the         *)
(* sequence of its components; the entry of a file holds its whole path,   *)
(* as the code stores it.  The table of a directory lies in the first of   *)
(* its data sectors.                                                       *)
(*                                                                         *)
(* `outcome` is "ok", or says why nothing more can be said of the machine: *)
(* an ASSERT failed ("abort"), memory outside an array was used            *)
(* ("undefined"), a plain file was read as a directory ("notDirectory").   *)
(* `faults` records the places where the code departs from its own         *)
(* structures; every invariant says that nothing else does.                *)
(***************************************************************************)
EXTENDS FileHeader, Sequences

LOCAL INSTANCE SequencesExt

CONSTANTS Paths, CallPaths, Handles, DirectoryFileSize, FreeMapFileSize, NumDirEntries,
          FileSizes, Transfers, Positions, Garbage

FreeMapSector == 0
DirectorySector == 1
NoEntry == [name |-> <<>>, sector |-> NoSector, isDir |-> FALSE]
NoFile == [sector |-> NoSector, hdr |-> EmptyHeader]
EmptyTable == [e \in 1 .. NumDirEntries |-> NoEntry]
Zero == [kind |-> "zero"]

VARIABLES disk, openerCnt, handles, outcome, faults, ret
vars == <<disk, openerCnt, handles, outcome, faults, ret>>

\* ------------------------ sectors as structures ------------------------

HeaderIn(d, s) == IF d[s].kind = "hdr" THEN d[s].v ELSE EmptyHeader
BlocksIn(d) ==
    [s \in Sectors \cup {NoSector} |->
        IF s \in Sectors /\ d[s].kind = "index" THEN d[s].v ELSE EmptyBlock]
TableSector(d, s) == HeaderIn(d, s).dataSectors[0]
TableIn(d, s) ==
    LET t == TableSector(d, s)
    IN  IF t \in Sectors /\ d[t].kind = "dir" THEN d[t].v ELSE EmptyTable
MapIn(d) == d[TableSector(d, FreeMapSector)].v
Put(d, s, k, x) == [d EXCEPT ![s] = [kind |-> k, v |-> x]]
PutMap(d, m) == Put(d, TableSector(d, FreeMapSector), "map", m)
PutBlocks(d, hdr, blocks) ==
    LET holder(s) == CHOOSE i \in DOMAIN blocks : hdr.dataSectors[NumDirect + i] = s
    IN  [s \in {hdr.dataSectors[NumDirect + i] : i \in DOMAIN blocks} |->
            [kind |-> "index", v |-> blocks[holder(s)]]] @@ d

\* Directory::FindIndex and Find: the first entry with the name.
FindIndex(table, name) ==
    LET hits == {e \in DOMAIN table : table[e].name = name}
    IN  IF hits = {} THEN 0 ELSE Least(hits)
DirFind(table, name) ==
    IF FindIndex(table, name) = 0 THEN NoEntry ELSE table[FindIndex(table, name)]

\* Directory::Add: the first unused entry; the table itself when it is full.
DirAdd(table, entry) ==
    LET free == {e \in DOMAIN table : table[e] = NoEntry}
    IN  IF free = {} THEN table ELSE [table EXCEPT ![Least(free)] = entry]
DirRemove(table, name) == [table EXCEPT ![FindIndex(table, name)] = NoEntry]

\* GetParentSector: the header sector of the directory that holds `name`,
\* -1 if its parent is missing.  A missing grandparent is not tested: -2
\* stands for OpenFile(-1).  A parent that is a plain file is not tested
\* either: -3.
RECURSIVE GetParentSector(_, _)
GetParentSector(d, name) ==
    IF Len(name) = 1 THEN DirectorySector
    ELSE LET grandpa == GetParentSector(d, Front(name))
             entry == DirFind(TableIn(d, grandpa), Front(name))
         IN  CASE grandpa = -1 -> -2
               [] grandpa < -1 -> grandpa
               [] grandpa >= 0 /\ entry = NoEntry -> -1
               [] OTHER -> IF entry.isDir THEN entry.sector ELSE -3

ParentOutcome(p) == CASE p = -2 -> "undefined" [] p = -3 -> "notDirectory" [] OTHER -> "ok"

\* -------------------- the machine between two calls --------------------

Machine == [disk |-> disk, openerCnt |-> openerCnt, outcome |-> outcome,
            faults |-> faults, ret |-> ret]
Become(st) ==
    /\ disk' = st.disk /\ openerCnt' = st.openerCnt /\ outcome' = st.outcome
    /\ faults' = st.faults /\ ret' = st.ret

Return(st, op, x) == [st EXCEPT !.ret = <<op, x>>]
Stop(st, why) == [st EXCEPT !.outcome = why]
Fault(st, f, happened) == IF happened THEN [st EXCEPT !.faults = @ \cup {f}] ELSE st

\* OpenFile::OpenFile and ~OpenFile: the count of openers.
OpenFileUncounted(st, s) == st
OpenFile(st, s) == [st EXCEPT !.openerCnt[s] = @ + 1]
CloseFile(st, s) == [st EXCEPT !.openerCnt[s] = @ - 1]

CreateFailedFlushed(st, sector, isDir) ==
    Return([st EXCEPT !.disk = PutMap(@, MapIn(@) \cup {sector})], "Create", FALSE)

\* Create: after a failure the new directory is still written, through
\* whatever header the sector found for it, which stays free, still holds.
CreateFailed(st, sector, isDir) ==
    CASE ~ isDir -> Return(st, "Create", FALSE)
      [] isDir /\ sector = NoSector -> Stop(st, "undefined")
      [] OTHER -> IF st.disk[sector].kind \in {"zero", "hdr"}
                       /\ HeaderIn(st.disk, sector).numBytes = 0
                  THEN Return(st, "Create", FALSE)
                  ELSE Stop(Fault(st, "staleDir", TRUE), "undefined")

CreateFlush(st, parent, sector, table, alloc, isDir) ==
    LET d1 == PutBlocks(st.disk, alloc.hdr, alloc.blocks)
        d2 == Put(d1, sector, "hdr", alloc.hdr)
        d3 == Put(d2, TableSector(d2, parent), "dir", table)
        d4 == PutMap(d3, alloc.map)
        d5 == IF isDir THEN Put(d4, alloc.hdr.dataSectors[0], "dir", EmptyTable) ELSE d4
    IN  Return(Fault([st EXCEPT !.disk = d5], "uninit", ~ alloc.exact), "Create", TRUE)

CreateIn(st, parent, name, size, isDir, garbage) ==
    LET table == TableIn(st.disk, parent)
        map == MapIn(st.disk)
        sector == Find(map)
        added == DirAdd(table, [name |-> name, sector |-> sector, isDir |-> isDir])
        alloc == Allocate(map \cup {sector}, size, garbage)
    IN  CASE DirFind(table, name) # NoEntry -> Return(st, "Create", FALSE)
          [] OTHER ->
             IF sector = NoSector \/ added = table THEN CreateFailed(st, sector, isDir)
             ELSE IF alloc.abort THEN Stop(st, "abort")
             ELSE IF ~ alloc.ok THEN CreateFailed(st, sector, isDir)
             ELSE CreateFlush(st, parent, sector, added, alloc, isDir)

Create(name, size, garbage) ==
    LET isDir == size < 0
        p == GetParentSector(disk, name)
    IN  /\ outcome = "ok"
        /\ Become(CASE p < -1 -> Stop(Machine, ParentOutcome(p))
                    [] p = -1 -> Return(Machine, "Create", FALSE)
                    [] OTHER -> CloseFile(
                        CreateIn(OpenFile(Machine, p), p, name,
                                 IF isDir THEN DirectoryFileSize ELSE size, isDir, garbage), p))
        /\ UNCHANGED handles

\* Remove: the children first, each by its own path; the first failure ends it.
RECURSIVE RemoveTree(_, _)
RemoveChildren(st, sector) ==
    LET table == TableIn(st.disk, sector)
        step(s, e) == IF table[e] = NoEntry \/ s.outcome # "ok" \/ ~ s.ret[2] THEN s
                      ELSE RemoveTree(s, table[e].name)
    IN  CloseFile(FoldLeft(step, Return(OpenFile(st, sector), "Remove", TRUE),
                           [e \in 1 .. NumDirEntries |-> e]), sector)

RemoveTree(st, name) ==
    LET p == GetParentSector(st.disk, name)
        table == TableIn(st.disk, p)
        entry == DirFind(table, name)
        opened == OpenFile(st, p)
        after == IF entry.isDir THEN RemoveChildren(opened, entry.sector)
                 ELSE Return(opened, "Remove", TRUE)
        hdr == HeaderIn(after.disk, entry.sector)
        block == BlocksIn(after.disk)
        map == Deallocate(hdr, MapIn(after.disk), block) \ {entry.sector}
    IN  IF p < -1 THEN Stop(st, ParentOutcome(p))
        ELSE IF p = -1 THEN Return(st, "Remove", FALSE)
        ELSE IF entry = NoEntry \/ opened.openerCnt[entry.sector] > 0
        THEN Return(CloseFile(opened, p), "Remove", FALSE)
        ELSE IF after.outcome # "ok" \/ ~ after.ret[2] THEN CloseFile(after, p)
        ELSE IF DeallocateAborts(hdr, MapIn(after.disk), block) THEN Stop(after, "abort")
        ELSE Return(CloseFile([after EXCEPT
                !.disk = Put(PutMap(@, map), TableSector(@, p), "dir", DirRemove(table, name))],
                p), "Remove", TRUE)

RemovePath(name) ==
    /\ outcome = "ok"
    /\ Become(RemoveTree(Machine, name))
    /\ UNCHANGED handles

\* FileSystem::Open (and GetHeaderSector, which looks the path up alike)
Lookup(d, name) ==
    LET p == GetParentSector(d, name)
    IN  IF p < 0 THEN NoEntry ELSE DirFind(TableIn(d, p), name)

Open(h, name) ==
    LET p == GetParentSector(disk, name)
        entry == Lookup(disk, name)
    IN  /\ outcome = "ok" /\ handles[h] = NoFile
        /\ IF p < -1 THEN Become(Stop(Machine, ParentOutcome(p))) /\ UNCHANGED handles
           ELSE IF entry = NoEntry
           THEN Become(Return(Machine, "Open", FALSE)) /\ UNCHANGED handles
           ELSE /\ Become(Return(OpenFile(Machine, entry.sector), "Open", TRUE))
                /\ handles' = [handles EXCEPT ![h] =
                       [sector |-> entry.sector, hdr |-> HeaderIn(disk, entry.sector)]]

Close(h) ==
    /\ outcome = "ok" /\ handles[h] # NoFile
    /\ Become(Return(CloseFile(Machine, handles[h].sector), "Close", TRUE))
    /\ handles' = [handles EXCEPT ![h] = NoFile]

\* -------------------------- OpenFile::ReadAt, WriteAt --------------------

IsDirectory(d, s) ==
    s \in {FreeMapSector, DirectorySector}
      \/ \E q \in Paths : Lookup(d, q).sector = s /\ Lookup(d, q).isDir

\* The data sectors of bytes position .. position + count - 1.
SectorsOf(d, hdr, position, count) ==
    {ByteToSector(hdr, i * SectorSize, BlocksIn(d)) :
        i \in position \div SectorSize .. (position + count - 1) \div SectorSize}

\* hdr->WriteBack: the handle's own copy of the header replaces the one on
\* disk, even when another handle has grown the file since it was fetched.
WriteBackHeader(st, sector, hdr, fetched) ==
    Fault([st EXCEPT !.disk = Put(@, sector, "hdr", hdr)],
          "staleHeader", fetched # HeaderIn(st.disk, sector))

ReadAt(st, f, numBytes, position) ==
    LET count == Least({numBytes, f.hdr.numBytes - position})
    IN  IF numBytes <= 0 \/ position >= f.hdr.numBytes THEN Return(st, "Read", 0)
        ELSE IF ~ (SectorsOf(st.disk, f.hdr, position, count) \subseteq Sectors)
        THEN Stop(st, "abort")
        ELSE Return(WriteBackHeader(st, f.sector, f.hdr, f.hdr), "Read", count)

\* ExtendWrapper: on success the header and the map are flushed; on failure
\* the copy in memory stays grown and only index blocks reached the disk.
Extended(st, f, ext) ==
    LET indexed == PutBlocks(st.disk, ext.hdr, ext.blocks)
    IN  IF ext.abort THEN [st |-> Stop(st, "abort"), hdr |-> f.hdr, ok |-> FALSE]
        ELSE IF ext.ok
        THEN [st |-> [WriteBackHeader(st, f.sector, ext.hdr, f.hdr)
                        EXCEPT !.disk = PutMap(Put(indexed, f.sector, "hdr", ext.hdr), ext.map)],
              hdr |-> ext.hdr, ok |-> TRUE]
        ELSE [st |-> Fault([st EXCEPT !.disk = indexed], "extend", ext.hdr # f.hdr),
              hdr |-> ext.hdr, ok |-> FALSE]
ExtendWrapper(st, f, newNumBytes, sectorNum) ==
    Extended(st, f, extendLength(f.hdr, newNumBytes, sectorNum, MapIn(st.disk),
                                 BlocksIn(st.disk)))

\* The partial sectors at both ends are read first; then the data sectors and
\* the header are written.  `ext` is the outcome of ExtendWrapper.
WriteSectors(st, f, count, position, ext) ==
    LET target == SectorsOf(ext.st.disk, ext.hdr, position, count)
        written == [s \in target |-> [kind |-> "data"]] @@ ext.st.disk
        stale == f.hdr # HeaderIn(st.disk, f.sector)
    IN  IF ext.st.outcome # "ok" THEN [st |-> ext.st, hdr |-> ext.hdr]
        ELSE IF ~ (target \subseteq Sectors)
        THEN [st |-> Stop(Fault(ext.st, "fullDisk", TRUE), "abort"), hdr |-> ext.hdr]
        ELSE [st |-> Return(Fault(Fault(
                        [ext.st EXCEPT !.disk = Put(written, f.sector, "hdr", ext.hdr)],
                        "staleHeader", stale), "dirAsFile", IsDirectory(st.disk, f.sector)),
                        "Write", count),
              hdr |-> ext.hdr]

WriteAt(st, f, numBytes, position) ==
    LET len == f.hdr.numBytes
        delta == divRoundUp(position + numBytes, SectorSize) - divRoundUp(len, SectorSize)
        after(ext) == WriteSectors(st, f, IF ext.ok THEN numBytes ELSE len - position,
                                   position, ext)
    IN  IF numBytes <= 0 \/ position >= len THEN [st |-> Return(st, "Write", 0), hdr |-> f.hdr]
        ELSE after(IF position + numBytes > len
                   THEN ExtendWrapper(st, f, position + numBytes, delta)
                   ELSE [st |-> st, hdr |-> f.hdr, ok |-> TRUE])

\* Read and Write transfer at seekPosition, which Seek sets to any value: the
\* position is an input.
Read(h, numBytes, position) ==
    /\ outcome = "ok" /\ handles[h] # NoFile
    /\ Become(ReadAt(Machine, handles[h], numBytes, position))
    /\ UNCHANGED handles

Write(h, numBytes, position) ==
    LET result(w) == Become(w.st) /\ handles' = [handles EXCEPT ![h].hdr = w.hdr]
    IN  /\ outcome = "ok" /\ handles[h] # NoFile
        /\ result(WriteAt(Machine, handles[h], numBytes, position))

\* FileSystem::FileSystem(TRUE): the map and the root directory, on a disk of
\* zeroes.  Both headers go through Allocate; ASSERT requires it to succeed.
Format(garbage1, garbage2) ==
    LET mapHdr == Allocate({FreeMapSector, DirectorySector}, FreeMapFileSize, garbage1)
        dirHdr == Allocate(mapHdr.map, DirectoryFileSize, garbage2)
        d1 == Put([s \in Sectors |-> Zero], FreeMapSector, "hdr", mapHdr.hdr)
        d2 == Put(PutBlocks(d1, dirHdr.hdr, dirHdr.blocks), DirectorySector, "hdr", dirHdr.hdr)
        d3 == Put(PutMap(d2, dirHdr.map), dirHdr.hdr.dataSectors[0], "dir", EmptyTable)
    IN  /\ disk = d3
        /\ faults = IF mapHdr.exact /\ dirHdr.exact THEN {} ELSE {"uninit"}

Init ==
    /\ \E g1, g2 \in Garbage : Format(g1, g2)
    /\ openerCnt = [s \in Sectors |-> IF s \in {FreeMapSector, DirectorySector} THEN 1 ELSE 0]
    /\ handles = [h \in Handles |-> NoFile]
    /\ outcome = "ok"
    /\ ret = <<"Format", TRUE>>

Next ==
    \/ \E name \in CallPaths, size \in FileSizes, g \in Garbage : Create(name, size, g)
    \/ \E name \in CallPaths : RemovePath(name)
    \/ \E h \in Handles, name \in CallPaths : Open(h, name)
    \/ \E h \in Handles : Close(h)
    \/ \E h \in Handles, n \in Transfers, position \in Positions : Read(h, n, position)
    \/ \E h \in Handles, n \in Transfers, position \in Positions : Write(h, n, position)

Spec == Init /\ [][Next]_vars

\* ------------------------------ properties ------------------------------

FilesIn(d) == {Lookup(d, q).sector : q \in Paths} \ {NoSector}
FilesHere == FilesIn(disk)
HeldBy(s) == {s} \cup OwnedSectors(HeaderIn(disk, s), BlocksIn(disk))
Sound == faults = {}
SystemSectors == {FreeMapSector, DirectorySector}

\* The state has its types (file headers, tables, counts of openers).
TypeOK ==
    /\ \A s \in Sectors : disk[s].kind \in {"zero", "hdr", "index", "dir", "map", "data"}
    /\ openerCnt \in [Sectors -> Nat]
    /\ \A h \in Handles : handles[h].sector \in Sectors \cup {NoSector}
    /\ outcome \in {"ok", "abort", "undefined", "notDirectory"}
    /\ faults \subseteq {"uninit", "extend", "staleHeader", "staleDir", "dirAsFile",
                       "fullDisk"}

\* The bitmap on disk marks exactly the sectors in use: the headers, data and
\* index sectors of the two system files and of every file in the tree.  No
\* sequence of Create, Remove, Write and extendLength, failed ones included,
\* leaks a sector or leaves a sector of a file clear, except through the
\* faults named in `faults`; this holds also on the disk that a failed ASSERT
\* leaves behind.
MapExact ==
    Sound => MapIn(disk) = UNION {HeldBy(s) : s \in FilesHere \cup SystemSectors}

\* No sector belongs to two files, or twice to one: Allocate, extendLength and
\* Deallocate agree on the layout of direct and index sectors.
OwnedOnce ==
    Sound =>
        LET files == FilesHere \cup SystemSectors
            hdr(s) == HeaderIn(disk, s)
        IN  /\ \A s, t \in files : s # t => HeldBy(s) \cap HeldBy(t) = {}
            /\ \A s \in files :
                  /\ Cardinality(HeldBy(s)) = 1 + TakenCount(0, hdr(s).numSectors)
                  /\ hdr(s).numSectors = divRoundUp(hdr(s).numBytes, SectorSize)

\* Every sector is accounted for: marked exactly when it is in use, and in use
\* by one file in one place.
SectorsAccounted == TypeOK /\ MapExact /\ OwnedOnce

\* A file that is open is still in the tree, its header sector counts exactly
\* its open handles, and every byte a handle can reach lies in a sector that
\* belongs to the file: Remove refuses an open file, and every early return of
\* Create, Open and Remove closes what it opened.
OpenFilesLive ==
    Sound /\ outcome = "ok" =>
        /\ \A s \in Sectors :
              openerCnt[s] = Cardinality({h \in Handles : handles[h].sector = s})
                             + (IF s \in SystemSectors THEN 1 ELSE 0)
        /\ \A h \in Handles : handles[h] # NoFile =>
              /\ handles[h].sector \in FilesHere
              /\ OwnedSectors(handles[h].hdr, BlocksIn(disk))
                    \subseteq HeldBy(handles[h].sector)

\* A Create that returns FALSE leaves the disk as it was: what it marked,
\* added and allocated existed only in memory.
FailedCreateChangesNothing ==
    [][ret' = <<"Create", FALSE>> /\ outcome' = "ok" => disk' = disk]_vars

\* A Remove that returns TRUE frees exactly the sectors of the files that left
\* the tree, and one that returns FALSE keeps every open file.
RemoveFreesExactly ==
    [][ret'[1] = "Remove" /\ outcome' = "ok" /\ faults' = {} =>
        LET gone == FilesHere \ FilesIn(disk')
        IN  /\ MapIn(disk') = MapIn(disk) \ UNION {HeldBy(s) : s \in gone}
            /\ \A h \in Handles : handles[h] # NoFile => handles[h].sector \notin gone]_vars

\* After a Write the handle's header equals the one on disk, and the file is
\* as long as it was or, if it had to grow, as long as the bytes written need.
WriteReachesDisk ==
    [][ret'[1] = "Write" /\ outcome' = "ok" /\ faults' = {} =>
        \A h \in Handles : handles'[h] # handles[h] =>
            /\ HeaderIn(disk', handles[h].sector) = handles'[h].hdr
            /\ handles'[h].hdr.numBytes > handles[h].hdr.numBytes
            /\ ret'[2] <= handles'[h].hdr.numBytes]_vars

\* What a call that returns has done to the disk, for Create, Remove and Write.
CallEffects == FailedCreateChangesNothing /\ RemoveFreesExactly /\ WriteReachesDisk
===============================================================================
