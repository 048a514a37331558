----------------------------- MODULE ElfLoader ------------------------------
(***************************************************************************)
(* The ELF loader: service/execution-space/loader/elf.c.  A file is its    *)
(* header's validity and its program headers; the byte at offset o of the  *)
(* file is the value o + 1, and 0 is a zero byte, so that the image shows  *)
(* where each of its bytes comes from.  Addresses are in bytes with a      *)
(* small PAGE_SIZE.  The page allocator is the number of pages it has      *)
(* left; one that returns NULL keeps its lock, and the next call spins.    *)
(* Tables of the page map are not counted.                                 *)
(***************************************************************************)
EXTENDS Integers, Sequences, SequencesExt

CONSTANTS
  PAGE_SIZE,
  Files,        \* records: valid and phdrs, a sequence of program headers
  Frames        \* numbers of pages that the page allocator may have left

ElfAssumption ==
  /\ PAGE_SIZE \in Nat \ {0} /\ Frames \subseteq Nat
  /\ \A file \in Files : \A i \in DOMAIN file.phdrs :
       /\ file.phdrs[i].filesz \in 0 .. file.phdrs[i].memsz
       /\ file.phdrs[i].vaddr \in Nat /\ file.phdrs[i].offset \in Nat

VARIABLES
  file,         \* the file that is loaded
  i,            \* headers the loop has counted
  phdr,         \* the header it looks at
  j,            \* the next page of the header's segment
  frames,       \* pages left
  pmm_lock,     \* the page allocator's lock is held by nobody who frees it
  space,        \* the pages mapped, and the bytes of each
  pc            \* "start", "header", "page", "okay", "error" or "stuck"

vars == <<file, i, phdr, j, frames, pmm_lock, space, pc>>

ALIGN_UP(n) == ((n + PAGE_SIZE - 1) \div PAGE_SIZE) * PAGE_SIZE

Init ==
  /\ file \in Files /\ frames \in Frames
  /\ i = 0 /\ phdr = 1 /\ j = 0
  /\ pmm_lock = FALSE /\ space = <<>> /\ pc = "start"
-----------------------------------------------------------------------------

\* IS_ELF() and has_valid_attributes().
Accepted(f) == f.valid

load_elf ==
  /\ pc = "start"
  /\ pc' = IF Accepted(file) THEN "header" ELSE "error"
  /\ UNCHANGED <<file, i, phdr, j, frames, pmm_lock, space>>

Header == file.phdrs[phdr]

\* Mutant: the pages that the file fills are taken, and no more.
NumPages_File(h) == ALIGN_UP(h.filesz) \div PAGE_SIZE

NumPages(h) == ALIGN_UP(h.memsz) \div PAGE_SIZE

\* The loop goes on with the same header when it is not a PT_LOAD.
SkipHeader ==
  /\ pc = "header" /\ i < Len(file.phdrs) /\ Header.type # "PT_LOAD"
  /\ i' = i + 1
  /\ UNCHANGED <<file, phdr, j, frames, pmm_lock, space, pc>>

LoadHeader ==
  /\ pc = "header" /\ i < Len(file.phdrs) /\ Header.type = "PT_LOAD"
  /\ pc' = "page" /\ j' = 0
  /\ UNCHANGED <<file, i, phdr, frames, pmm_lock, space>>

EndOfHeader ==
  /\ pc = "page" /\ j = NumPages(Header)
  /\ i' = i + 1 /\ phdr' = phdr + 1 /\ pc' = "header"
  /\ UNCHANGED <<file, j, frames, pmm_lock, space>>

EndOfFile ==
  /\ pc = "header" /\ i = Len(file.phdrs)
  /\ pc' = "okay"
  /\ UNCHANGED <<file, i, phdr, j, frames, pmm_lock, space>>

\* The bytes of a page that are copied; the others are zeroed.
CopySize(h, page_offset) ==
  IF page_offset >= h.filesz THEN 0
  ELSE IF page_offset + PAGE_SIZE > h.filesz THEN h.filesz - page_offset
  ELSE PAGE_SIZE

PageBytes(h, page_offset) ==
  [b \in 0 .. PAGE_SIZE - 1 |->
     IF b < CopySize(h, page_offset) THEN h.offset + page_offset + b + 1 ELSE 0]

NextPage(n) == n + 1

\* load_segment(): a page for the segment's j-th page, mapped at the page of
\* its address in place of one that was mapped there.
load_segment ==
  /\ pc = "page" /\ j < NumPages(Header) /\ ~ pmm_lock /\ frames > 0
  /\ LET page == (Header.vaddr + j * PAGE_SIZE) \div PAGE_SIZE
         bytes == PageBytes(Header, j * PAGE_SIZE)
     IN  space' = [p \in DOMAIN space \cup {page} |->
                     IF p = page THEN bytes ELSE space[p]]
  /\ frames' = frames - 1
  /\ j' = NextPage(j)
  /\ UNCHANGED <<file, i, phdr, pmm_lock, pc>>

\* The error that load_segment() returns is lost: it has no result.
OutOfPages ==
  /\ pc = "page" /\ j < NumPages(Header)
  /\ \/ pmm_lock /\ pc' = "stuck" /\ UNCHANGED <<j, pmm_lock>>
     \/ ~ pmm_lock /\ frames = 0 /\ pmm_lock' = TRUE /\ j' = NextPage(j) /\ pc' = pc
  /\ UNCHANGED <<file, i, phdr, frames, space>>

Ended == pc \in {"okay", "error", "stuck"} /\ UNCHANGED vars

Next ==
  \/ load_elf \/ SkipHeader \/ LoadHeader \/ EndOfHeader \/ EndOfFile
  \/ load_segment \/ OutOfPages \/ Ended

\* The kernel is not preempted while it loads a file.
Spec == Init /\ [][Next]_vars /\ WF_vars(Next)
-----------------------------------------------------------------------------
Segments == {k \in DOMAIN file.phdrs : file.phdrs[k].type = "PT_LOAD"}
ByteAt(a) == space[a \div PAGE_SIZE][a % PAGE_SIZE]

\* The k-th byte of a segment: from the file, or zero behind its contents.
Wanted(h, k) == IF k < h.filesz THEN h.offset + k + 1 ELSE 0

\* Each byte of each PT_LOAD segment is at its address.
ImageComplete ==
  \A s \in Segments : LET h == file.phdrs[s] IN
    \A k \in 0 .. h.memsz - 1 :
      /\ (h.vaddr + k) \div PAGE_SIZE \in DOMAIN space
      /\ ByteAt(h.vaddr + k) = Wanted(h, k)

\* A file that load_elf() has loaded with pages to spare is in memory byte by
\* byte, whatever its segments' sizes and where the page boundaries fall.
LoadedImage == pc = "okay" /\ ~ pmm_lock => ImageComplete

\* A mapped byte that belongs to no segment is zero, while a file is loaded
\* and afterwards: no process sees what a page or the file held beside them.
RestIsZero ==
  \A p \in DOMAIN space : \A b \in 0 .. PAGE_SIZE - 1 :
    \/ space[p][b] = 0
    \/ \E s \in Segments : LET h == file.phdrs[s]
                               k == p * PAGE_SIZE + b - h.vaddr
                           IN  k \in 0 .. h.memsz - 1 /\ space[p][b] = Wanted(h, k)

\* A file that is not valid is never loaded, not even in part.
RefusedMapsNothing == ~ file.valid => space = <<>> /\ pc # "okay"

PagesNeeded == FoldLeft(LAMBDA n, h : IF h.type = "PT_LOAD" THEN n + NumPages(h) ELSE n,
                        0, file.phdrs)

\* With enough pages for its segments a file is loaded to the end: no page is
\* taken twice, and load_elf() does not wait for the page allocator.
LoadReturns == frames >= PagesNeeded => <>(pc \in {"okay", "error"})
=============================================================================
