------------------------------ MODULE MCPaging ------------------------------
(***************************************************************************)
(* Address spaces and what is loaded into them, for TLC: the page tables,  *)
(* the ELF loader and init's way to the programs in the ramdisk.  Each     *)
(* behaviour exercises one of them; "part" says which.                     *)
(*                                                                         *)
(* The page tables are the specification this module extends.  Their       *)
(* tables have two entries.  Pages 0 = (0,0,0,0) and 2 = (0,0,1,0)        *)
(* share the tables of levels four and three; 8 = (1,0,0,0) and 9 =        *)
(* (1,0,0,1) are in the kernel's half.  There is memory for twelve tables, *)
(* so that the second space runs out of it in the middle of a mapping.     *)
(***************************************************************************)
EXTENDS PageTable, Sequences

PAGE_SIZE == 4
Frames == {3, 6}
Phdr(type, vaddr, offset, filesz, memsz) ==
  [type |-> type, vaddr |-> vaddr, offset |-> offset, filesz |-> filesz, memsz |-> memsz]
\* Contents and memory that end on, before and behind a page boundary.
SegmentSizes == {<<0, 0>>, <<0, 5>>, <<3, 4>>, <<4, 4>>, <<5, 5>>, <<5, 12>>, <<8, 9>>}
\* What service.ld lays out: the segments start on pages of their own and stand
\* in front of the other headers.
Files ==
  {[valid |-> v,
    phdrs |-> <<Phdr("PT_LOAD", 16, 4, s[1], s[2]), Phdr("PT_LOAD", 32, 20, t[1], t[2])>> \o more] :
     v \in BOOLEAN, s \in SegmentSizes, t \in SegmentSizes,
     more \in {<<>>, <<Phdr("PT_GNU_STACK", 0, 0, 0, 0)>>}}

PTR_DIGITS == 3
TAR_BLOCK_SIZE == 4
SIZE_DIGITS == 2
MAX_HEADERS == 3
Addresses == {10, 2744}
NameLengths == {1, 4}
Sizes == {0, 4, 9}

VARIABLES
  part,                                            \* what this behaviour is about
  file, i, phdr, j, frames, pmm_lock, space, epc,  \* ElfLoader
  ramdisk, argv, rpc, address, headers, started    \* Ramdisk

elfVars == <<file, i, phdr, j, frames, pmm_lock, space, epc>>
diskVars == <<ramdisk, argv, rpc, address, headers, started>>
pagingVars == <<part, vars, elfVars, diskVars>>

Elf == INSTANCE ElfLoader WITH pc <- epc
Disk == INSTANCE Ramdisk WITH pc <- rpc

ASSUME PageTableAssumption
ASSUME Elf!ElfAssumption /\ Disk!RamdiskAssumption
-----------------------------------------------------------------------------
PagingInit ==
  /\ part \in {"tables", "elf", "ramdisk"}
  /\ Init /\ Elf!Init
  /\ part # "elf" => frames = 3 /\ ~ file.valid /\ file = CHOOSE f \in Files : ~ f.valid
  /\ IF part = "ramdisk" THEN Disk!Init
     ELSE /\ ramdisk = [base |-> 10, files |-> <<>>]
          /\ argv = <<>> /\ rpc = "kern_main" /\ address = 0 /\ headers = <<>> /\ started = <<>>

StepOf(name, Step, others) == part = name /\ Step /\ UNCHANGED <<part, others>>

PagingNext ==
  \/ StepOf("tables", Next, <<elfVars, diskVars>>)
  \/ StepOf("elf", Elf!Next, <<vars, diskVars>>)
  \/ StepOf("ramdisk", Disk!Next, <<vars, elfVars>>)

\* The kernel is not preempted while it loads a file; the timer gives init its
\* turns.
PagingSpec ==
  /\ PagingInit /\ [][PagingNext]_pagingVars
  /\ WF_pagingVars(StepOf("elf", Elf!Next, <<vars, diskVars>>))
  /\ WF_pagingVars(StepOf("ramdisk", Disk!Next, <<vars, elfVars>>))
-----------------------------------------------------------------------------
\* A file that load_elf() has loaded with pages to spare is in memory byte by
\* byte, other mapped bytes are zero, a refused file maps nothing, and with
\* enough pages the call returns.
ElfImage ==
  /\ [](part = "elf" => Elf!LoadedImage /\ Elf!RestIsZero /\ Elf!RefusedMapsNothing)
  /\ part = "elf" => Elf!LoadReturns

\* The ramdisk's address survives its way through text, the walk over the archive
\* stays on headers in mapped memory, and each program is started once and in
\* order, if the names are long enough for the test of the archive's end.
ProgramsStarted ==
  /\ [](part = "ramdisk" => Disk!AddressArrives /\ Disk!ReadsMapped /\ Disk!HeadersInOrder)
  /\ part = "ramdisk" => Disk!EveryProgramStarted
=============================================================================
