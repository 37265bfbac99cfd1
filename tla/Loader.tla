------------------------------- MODULE Loader -------------------------------
(***************************************************************************)
(* A user program on its way into memory: bin/coff2noff.c copies the       *)
(* sections of a COFF file into a NOFF file, and the constructor of        *)
(* AddrSpace (userprog/addrspace.cc) reads that into vSpace.  The linker   *)
(* puts .text at 0 and the other sections behind it, as coff2noff assumes, *)
(* perhaps with padding.  The k-th byte of section i is <<i, k>>.          *)
(***************************************************************************)
EXTENDS Integers, Sequences, FiniteSets, TLC

CONSTANTS
  SectionSizes, Padding,   \* sizes of the sections, and of what the linker puts between
  MaxSections,
  NoffHeaderSize, UserStackSize, PageSize

ASSUME LoaderAssumption ==
  /\ SectionSizes \cup Padding \subseteq Nat
  /\ NoffHeaderSize \in Nat /\ UserStackSize \in Nat /\ PageSize \in Nat \ {0}

VARIABLES
  sections,     \* the COFF file
  status,       \* "opened", "converting", "converted", "failed" (no output), "loaded", "overrun"
  index,        \* the section coff2noff looks at
  noffH, inNoffFile, noffFile,
  vSpace

loaderVars == <<sections, status, index, noffH, inNoffFile, noffFile, vSpace>>

SectionNames == {".text", ".data", ".rdata", ".bss", ".sbss", ".lit8"}

\* What the linker makes of a list of names and sizes.
LinkedAt(names, sizes, pad) ==
  LET end[i \in 0 .. Len(names)] ==
        IF i = 0 THEN 0 ELSE end[i - 1] + sizes[i] + (IF i < Len(names) THEN pad ELSE 0)
  IN  [i \in 1 .. Len(names) |->
         [s_name |-> names[i], s_paddr |-> end[i - 1], s_size |-> sizes[i]]]

CoffFiles ==
  {LinkedAt(names, sizes, pad) :
     names \in {f \in UNION {[1 .. n -> SectionNames] : n \in 1 .. MaxSections} :
                  /\ \A i, j \in DOMAIN f : i # j => f[i] # f[j]
                  /\ \A i \in DOMAIN f : f[i] = ".text" => i = 1},
     sizes \in [1 .. MaxSections -> SectionSizes], pad \in Padding}

NoSegment == [virtualAddr |-> 0, inFileAddr |-> 0, size |-> 0]
NoHeader == [code |-> NoSegment, initData |-> NoSegment, uninitData |-> NoSegment]
NoBytes == <<>>

LoaderInit ==
  /\ sections \in CoffFiles
  /\ status = "opened" /\ index = 1
  /\ noffH = NoHeader /\ inNoffFile = NoffHeaderSize
  /\ noffFile = NoBytes /\ vSpace = NoBytes

\* -------------------------------- coff2noff --------------------------------

Section == sections[index]
Converting(names) ==
  /\ status = "converting" /\ index <= Len(sections)
  /\ Section.s_size > 0 /\ Section.s_name \in names
  /\ UNCHANGED <<sections, vSpace>>

Fail == status' = "failed" /\ noffFile' = NoBytes /\ UNCHANGED <<index, noffH, inNoffFile>>

\* Mutant: the place in the output file does not move on.
CopySegmentInPlace(segment) ==
  /\ noffH' = [noffH EXCEPT ![segment] =
       [virtualAddr |-> Section.s_paddr, inFileAddr |-> inNoffFile, size |-> Section.s_size]]
  /\ noffFile' = [a \in inNoffFile .. inNoffFile + Section.s_size - 1 |->
                    <<index, a - inNoffFile>>] @@ noffFile
  /\ index' = index + 1
  /\ UNCHANGED <<status, inNoffFile>>

CopySegment(segment) ==
  /\ noffH' = [noffH EXCEPT ![segment] =
       [virtualAddr |-> Section.s_paddr, inFileAddr |-> inNoffFile, size |-> Section.s_size]]
  /\ noffFile' = [a \in inNoffFile .. inNoffFile + Section.s_size - 1 |->
                    <<index, a - inNoffFile>>] @@ noffFile
  /\ inNoffFile' = inNoffFile + Section.s_size
  /\ index' = index + 1
  /\ UNCHANGED status

\* The magic numbers and the section headers.
ReadHeaders ==
  /\ status = "opened"
  /\ Fail \/ (status' = "converting" /\ UNCHANGED <<index, noffH, inNoffFile, noffFile>>)
  /\ UNCHANGED <<sections, vSpace>>

SkipEmpty ==
  /\ status = "converting" /\ index <= Len(sections) /\ Section.s_size = 0
  /\ index' = index + 1
  /\ UNCHANGED <<sections, status, noffH, inNoffFile, noffFile, vSpace>>

\* Copying fails when the COFF file is too short or the disk is full.
Text == Converting({".text"}) /\ (CopySegment("code") \/ Fail)

Data ==
  /\ Converting({".data", ".rdata"})
  /\ IF noffH.initData.size # 0 THEN Fail ELSE CopySegment("initData") \/ Fail

\* Two sections are refused when they are contiguous, and else counted as one.
Bss ==
  /\ Converting({".bss", ".sbss"})
  /\ LET old == noffH.uninitData
         grown == IF old.size # 0 THEN [old EXCEPT !.size = @ + Section.s_size]
                  ELSE [old EXCEPT !.virtualAddr = Section.s_paddr, !.size = Section.s_size]
     IN  IF old.size # 0 /\ Section.s_paddr = old.virtualAddr + old.size THEN Fail
         ELSE /\ noffH' = [noffH EXCEPT !.uninitData = grown]
              /\ index' = index + 1
              /\ UNCHANGED <<status, inNoffFile, noffFile>>

UnknownSection == Converting(SectionNames \ {".text", ".data", ".rdata", ".bss", ".sbss"}) /\ Fail

WriteHeader ==
  /\ status = "converting" /\ index > Len(sections)
  /\ Fail \/ (status' = "converted" /\ UNCHANGED <<index, noffH, inNoffFile, noffFile>>)
  /\ UNCHANGED <<sections, vSpace>>

\* --------------------------- AddrSpace::AddrSpace --------------------------

SpaceSize ==
  LET size == noffH.code.size + noffH.initData.size + noffH.uninitData.size + UserStackSize
  IN  ((size + PageSize - 1) \div PageSize) * PageSize

\* ReadAt of a segment to an address of vSpace.
ReadSegment(segment, to) ==
  [a \in to .. to + segment.size - 1 |-> noffFile[segment.inFileAddr + (a - to)]]

\* vSpace is not cleared: <<0, 0>> is a byte that nothing was read into.
Load ==
  /\ status = "converted"
  /\ vSpace' = ReadSegment(noffH.initData, noffH.initData.virtualAddr)
               @@ ReadSegment(noffH.code, 0)
               @@ [a \in 0 .. SpaceSize - 1 |-> <<0, 0>>]
  /\ status' = IF DOMAIN vSpace' = 0 .. SpaceSize - 1 THEN "loaded" ELSE "overrun"
  /\ UNCHANGED <<sections, index, noffH, inNoffFile, noffFile>>

\* coff2noff has exited without a file, or the program is in memory.
LoadingOver == status \in {"failed", "loaded", "overrun"} /\ UNCHANGED loaderVars

LoaderNext ==
  \/ ReadHeaders \/ SkipEmpty \/ Text \/ Data \/ Bss \/ UnknownSection \/ WriteHeader
  \/ Load \/ LoadingOver

\* -------------------------------- properties -------------------------------

Contiguous ==
  \A i \in 2 .. Len(sections) :
    sections[i].s_paddr = sections[i - 1].s_paddr + sections[i - 1].s_size

\* Every program coff2noff accepts is in memory where it was linked to be:
\* each byte of its code and data at its address, its uninitialized data apart
\* from both, and, without padding, all of it below the stack.
ImageExact ==
  status = "loaded" =>
    \A i \in DOMAIN sections : \A k \in 0 .. sections[i].s_size - 1 :
      LET address == sections[i].s_paddr + k
      IN  /\ address \in DOMAIN vSpace
          /\ vSpace[address] = IF sections[i].s_name \in {".bss", ".sbss"} THEN <<0, 0>> ELSE <<i, k>>
          /\ Contiguous => address < SpaceSize - UserStackSize
=============================================================================
