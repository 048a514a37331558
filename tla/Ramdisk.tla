------------------------------ MODULE Ramdisk -------------------------------
(***************************************************************************)
(* How init finds the programs it starts: kern_main() writes the physical  *)
(* address of the ramdisk into an argument, as text, and maps the ramdisk; *)
(* init turns the text into an address again, walks the headers of the tar *)
(* archive there and creates a process per file.                           *)
(*                                                                         *)
(* Addresses are in units of a byte, with small blocks and short numbers.  *)
(* main() spins before it reads its arguments today (init.c:27); the model *)
(* takes up what follows.                                                  *)
(***************************************************************************)
EXTENDS Integers, Sequences, SequencesExt, FiniteSetsExt

CONSTANTS
  PTR_DIGITS,       \* hexadecimal digits of a pointer (16)
  TAR_BLOCK_SIZE,   \* 512
  SIZE_DIGITS,      \* octal digits of a size (11)
  MAX_HEADERS,      \* length of headers[] (32)
  Addresses,        \* where the ramdisk may be
  NameLengths,      \* lengths of file names
  Sizes             \* sizes of files

RamdiskAssumption ==
  /\ PTR_DIGITS \in Nat \ {0} /\ TAR_BLOCK_SIZE \in Nat \ {0} /\ MAX_HEADERS \in Nat
  /\ \A a \in Addresses : a < 16^PTR_DIGITS
  /\ Sizes \subseteq 0 .. 8^SIZE_DIGITS - 1

VARIABLES
  ramdisk,    \* [base, files]: the archive and its address
  argv,       \* argv[1], a sequence of characters, or <<>>
  pc,         \* where main() is
  address,    \* of the header to read next
  headers,    \* headers[], the part that is filled
  started     \* what syscall_create_process() was called with

vars == <<ramdisk, argv, pc, address, headers, started>>

Reversed(s) == [k \in DOMAIN s |-> s[Len(s) + 1 - k]]
RoundUp(n) == ((n + TAR_BLOCK_SIZE - 1) \div TAR_BLOCK_SIZE) * TAR_BLOCK_SIZE
-----------------------------------------------------------------------------
(* The archive as tar writes it: a header and whole blocks of contents per *)
(* file, and two blocks of zeroes.                                         *)

FileSpace(file) == TAR_BLOCK_SIZE + RoundUp(file.size)
HeaderAt(k) ==
  ramdisk.base + FoldLeft(LAMBDA n, file : n + FileSpace(file), 0, SubSeq(ramdisk.files, 1, k - 1))
Files == DOMAIN ramdisk.files
Zeroes == HeaderAt(Len(ramdisk.files) + 1)
Limit == Zeroes + 2 * TAR_BLOCK_SIZE

\* The characters of a size: octal digits with leading zeroes.
Octal(n) == Reversed([k \in 1 .. SIZE_DIGITS |-> (n \div 8^(k - 1)) % 8])

Headers == {HeaderAt(k) : k \in Files}
FileAt(a) == ramdisk.files[CHOOSE k \in Files : HeaderAt(k) = a]
-----------------------------------------------------------------------------
(* The address as text.                                                    *)

Lower == <<"a", "b", "c", "d", "e", "f">>
Upper == <<"A", "B", "C", "D", "E", "F">>
Decimal == <<"0", "1", "2", "3", "4", "5", "6", "7", "8", "9">>
DigitOf(v) == IF v < 10 THEN Decimal[v + 1] ELSE Upper[v - 9]

\* "%p": at least one digit, the last one first, then zeroes up to the width
_ntoa_long_long(value) ==
  LET used == Max({1} \cup {k \in 1 .. PTR_DIGITS : value >= 16^(k - 1)})
      buf  == [k \in 1 .. used |-> DigitOf((value \div 16^(k - 1)) % 16)]
  IN  buf \o [k \in 1 .. PTR_DIGITS - used |-> "0"]

buffer_size == PTR_DIGITS + 4
snprintf(count, text) == SubSeq(text, 1, Min({Len(text), count - 1}))
AddressText(a) == snprintf(buffer_size, <<"0", "x">> \o Reversed(_ntoa_long_long(a)))

\* 16 is no digit in any base.
DigitValue(c) ==
  CASE Contains(Decimal, c) -> SelectInSeq(Decimal, LAMBDA d : d = c) - 1
    [] Contains(Lower, c) -> SelectInSeq(Lower, LAMBDA d : d = c) + 9
    [] Contains(Upper, c) -> SelectInSeq(Upper, LAMBDA d : d = c) + 9
    [] OTHER -> 16

\* The digits up to the first character that is none.
strtoul(str) ==
  LET hex  == Len(str) > 1 /\ str[1] = "0" /\ str[2] \in {"x", "X"}
      base == IF hex THEN 16 ELSE 10
      ptr  == IF hex THEN SubSeq(str, 3, Len(str)) ELSE str
      stop == SelectInSeq(ptr, LAMBDA c : DigitValue(c) >= base)
  IN  FoldLeft(LAMBDA result, c : (result * base + DigitValue(c)) % 16^PTR_DIGITS, 0,
               IF stop = 0 THEN ptr ELSE SubSeq(ptr, 1, stop - 1))
-----------------------------------------------------------------------------
\* Archives of at most MAX_HEADERS files
Init ==
  /\ \E a \in Addresses, n \in 0 .. MAX_HEADERS :
       \E files \in [1 .. n -> [name : NameLengths, size : Sizes]] :
         ramdisk = [base |-> a, files |-> files]
  /\ argv = <<>> /\ pc = "kern_main" /\ address = 0 /\ headers = <<>> /\ started = <<>>

kern_main ==
  /\ pc = "kern_main" /\ pc' = "main"
  /\ argv' = AddressText(ramdisk.base)
  /\ UNCHANGED <<ramdisk, address, headers, started>>

main ==
  /\ pc = "main" /\ pc' = "parse"
  /\ address' = strtoul(argv)
  /\ UNCHANGED <<ramdisk, argv, headers, started>>

tar_get_content_size(in) ==
  FoldLeft(LAMBDA acc, j : [size  |-> acc.size + in[j] * acc.count, count |-> acc.count * 8],
           [size |-> 0, count |-> 1], Reversed([j \in DOMAIN in |-> j])).size

\* Mutant: a file that ends within a block takes no block for its rest.
NextAddress_NoRest(size) == address + (size \div TAR_BLOCK_SIZE + 1) * TAR_BLOCK_SIZE

NextAddress(size) ==
  address + (size \div TAR_BLOCK_SIZE + 1) * TAR_BLOCK_SIZE
  + (IF size % TAR_BLOCK_SIZE # 0 THEN TAR_BLOCK_SIZE ELSE 0)

\* The test for the end looks at character i of the i-th name.  Contents that
\* are read as a header pass for a name.
AtEnd(i) == address >= Zeroes \/ (address \in Headers /\ FileAt(address).name <= i)

\* An iteration of tar_parse_headers()
tar_parse_headers ==
  LET i == Len(headers)
  IN  /\ pc = "parse"
      /\ IF AtEnd(i) THEN pc' = "start" /\ UNCHANGED <<address, headers>>
         ELSE /\ headers' = Append(headers, address)
              /\ address' = NextAddress(IF address \in Headers
                                        THEN tar_get_content_size(Octal(FileAt(address).size))
                                        ELSE 0)
              /\ UNCHANGED pc
      /\ UNCHANGED <<ramdisk, argv, started>>

\* An iteration of the loop that starts the programs
CreateProcess ==
  /\ pc = "start" /\ Len(started) < Len(headers)
  /\ started' = Append(started, headers[Len(started) + 1] + TAR_BLOCK_SIZE)
  /\ UNCHANGED <<ramdisk, argv, pc, address, headers>>

AllStarted == pc = "start" /\ Len(started) = Len(headers) /\ UNCHANGED vars

Next == kern_main \/ main \/ tar_parse_headers \/ CreateProcess \/ AllStarted
Spec == Init /\ [][Next]_vars /\ WF_vars(Next)
-----------------------------------------------------------------------------
\* The text that kern_main() passes is read back as the same address, whatever
\* digits it has: "%p" writes capitals, strtoul() takes both, and the text and
\* its end fit the buffer.
AddressArrives == pc = "main" => strtoul(argv) = ramdisk.base

\* The walk reads headers only in the range that the kernel mapped.
ReadsMapped ==
  pc = "parse" => address >= ramdisk.base /\ address + TAR_BLOCK_SIZE <= Limit

\* Every entry of headers[] is the header of its file.
HeadersInOrder ==
  /\ Len(headers) <= Len(ramdisk.files)
  /\ \A i \in DOMAIN headers : headers[i] = HeaderAt(i)

\* A name is longer than the number of files before it.
NamesLong == \A k \in Files : ramdisk.files[k].name >= k

\* Each program is started, once and in order, from where its contents are, if
\* the names are long enough for the test of the archive's end.
EveryProgramStarted ==
  <>[](NamesLong => started = [k \in Files |-> HeaderAt(k) + TAR_BLOCK_SIZE])
=============================================================================
