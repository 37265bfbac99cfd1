----------------------------- MODULE MCFileSystem -----------------------------
\* A disk of ten sectors, a directory, a file in it and a file beside it.
EXTENDS FileTests

MCCallPaths == {<<"d">>, <<"d", "x">>, <<"y">>}
MCPaths == MCCallPaths \cup {<<"d", "z">>, <<"w">>}
MCFileSizes == {-1, 1, 3}
MCTransfers == {3, 5}
MCUserTransfers == {3}
MCPositions == {0, 2}
MCCopySizes == 1 .. 5
MCGarbage == {-1, 0, 1}

\* A state reached through a fault is checked, and not continued.
NoFaultYet == faults = {}

\* What the next calls depend on.  The result of the last call is never read.
\* Of a sector that holds neither a header, an index block, a table nor the
\* map in use, only CreateFailed's test is ever made: has it been used before?
Structures ==
    LET files == SystemSectors \cup FilesHere
    IN  files \cup {TableSector(disk, s) : s \in {f \in files : IsDirectory(disk, f)}}
              \cup UNION {{HeaderIn(disk, s).dataSectors[NumDirect + i] :
                              i \in 0 .. NumSecondIndex - 1} : s \in files}
\* Which handle is which does not matter: they are interchangeable.
View ==
    LET held(h) == <<handles[h], seek[h]>>
    IN  <<[s \in Structures \cap Sectors |-> disk[s]],
          {s \in Sectors : disk[s] # Zero},
          [x \in {held(h) : h \in Handles} |-> Cardinality({h \in Handles : held(h) = x})],
          outcome, faults, client, script>>
===============================================================================
