------------------------------ MODULE StartProcess ------------------------------
(***************************************************************************)
(* start_process of userprog/process.c in hw3: load, with its helpers      *)
(* validate_segment, load_segment, setup_stack and install_page, and the   *)
(* arguments that parsing_filename leaves on the stack (module Arguments). *)
(*                                                                         *)
(* Addresses are numbers below AddressSpace (2^32 in the code), and        *)
(* sums of them wrap around.  Byte n of the executable is the number       *)
(* n + 1; a byte that has been zeroed is 0.  The program headers come from *)
(* the file one by one: any of the set Header.                             *)
(*                                                                         *)
(* What its parent waits for meanwhile is in module Process.               *)
(***************************************************************************)
EXTENDS Arguments

CONSTANTS
  PGSIZE, PHYS_BASE, AddressSpace,
  NumPages,      \* pages in the user pool
  FileLength,    \* of the executable
  Header,        \* its program headers of type PT_LOAD
  MaxHeaders,    \* 1024 in the code
  CommandLine    \* what process_execute may be given

ASSUME StartAssumption ==
  /\ PGSIZE \in Nat \ {0} /\ PGSIZE % 4 = 0 /\ NumPages \in Nat /\ FileLength \in Nat /\ MaxHeaders \in Nat
  /\ AddressSpace \in Nat
  /\ PHYS_BASE % PGSIZE = 0 /\ PHYS_BASE \in 2 * PGSIZE .. AddressSpace - 1
  /\ Header \subseteq [p_offset : Nat, p_vaddr : 0 .. AddressSpace - 1, p_filesz : Nat,
                       p_memsz : 0 .. AddressSpace - 1, writable : BOOLEAN]
  /\ CommandLine \subseteq Seq(Nat \ {0})

VARIABLES
  pc,
  pool,               \* the free pages of the user pool
  pagedir,            \* by user page: the page mapped there, its bytes, and whether it is writable
  phnum,              \* how many program headers are left
  segment,            \* load: the header being loaded
  upage, pos,         \* load_segment: the next user page; the position in the file
  read_bytes, zero_bytes,
  esp,
  line,               \* the command line, once start_process has come to its words
  segments            \* history: the headers of the segments loaded

segmentVars == <<segment, upage, pos, read_bytes, zero_bytes>>
vars == <<pc, pool, pagedir, phnum, segment, upage, pos, read_bytes, zero_bytes, esp, line, segments>>

(* pc: "load"     about to call load                                       *)
(*     "headers"  in load, about to read the next program header           *)
(*     "segment"  in the loop of load_segment                              *)
(*     "loaded", "failed"   load has returned                              *)
(*     "run"      in the user program                                      *)
(*     "abort"    in exit (-1), called or faulted into before the parent   *)
(*                was told anything                                        *)
(*     "dead"     past process_exit                                        *)
PC == {"load", "headers", "segment", "loaded", "failed", "run", "abort", "dead"}

Page == 1 .. NumPages
PageOf(address) == address \div PGSIZE
StackPage == PageOf(PHYS_BASE) - 1
NoMapping == << >>     \* the empty function
NoSegment == [p_offset |-> 0, p_vaddr |-> 0, p_filesz |-> 0, p_memsz |-> 0, writable |-> FALSE]

NoLoop == /\ segment' = NoSegment /\ upage' = 0 /\ pos' = 0
          /\ read_bytes' = 0 /\ zero_bytes' = 0

Init ==
  /\ pc = "load"
  /\ pool = Page /\ pagedir = NoMapping
  /\ phnum = 0
  /\ segment = NoSegment /\ upage = 0 /\ pos = 0 /\ read_bytes = 0 /\ zero_bytes = 0
  /\ esp = 0 /\ line = << >> /\ segments = << >>

\* palloc_get_page (PAL_USER), which takes the first free page, and install_page.
FirstFree == CHOOSE k \in pool : \A j \in pool : k <= j
Map(u, bytes, w) ==
  /\ pool' = pool \ {FirstFree}
  /\ pagedir' = [v \in DOMAIN pagedir \union {u} |->
                   IF v = u THEN [kpage |-> FirstFree, bytes |-> bytes, writable |-> w] ELSE pagedir[v]]

\* load without a page directory, without its file, or without an ELF header.
LoadFails ==
  /\ pc = "load"
  /\ pc' = "failed"
  /\ UNCHANGED <<pool, pagedir, phnum, segmentVars, esp, line, segments>>

ReadElfHeader ==
  /\ pc = "load"
  /\ phnum' \in 0 .. MaxHeaders
  /\ pc' = "headers"
  /\ UNCHANGED <<pool, pagedir, segmentVars, esp, line, segments>>

--------------------------------------------------------------------------------
(* Segments.                                                               *)

RoundUp(n) == ((n + PGSIZE - 1) \div PGSIZE) * PGSIZE

IsUser(address) == address < PHYS_BASE

\* (Mutant: validate_segment without the test for a region that wraps around.)
ValidUnwrapped(h) ==
  LET end == (h.p_vaddr + h.p_memsz) % AddressSpace
  IN  /\ h.p_offset % PGSIZE = h.p_vaddr % PGSIZE
      /\ h.p_offset <= FileLength
      /\ h.p_filesz <= h.p_memsz /\ h.p_memsz # 0
      /\ IsUser(h.p_vaddr) /\ IsUser(end)

\* What validate_segment asks before it comes to page 0.
Valid(h) ==
  LET end == (h.p_vaddr + h.p_memsz) % AddressSpace
  IN  /\ h.p_offset % PGSIZE = h.p_vaddr % PGSIZE
      /\ h.p_offset <= FileLength
      /\ h.p_filesz <= h.p_memsz /\ h.p_memsz # 0
      /\ IsUser(h.p_vaddr) /\ IsUser(end)
      /\ end >= h.p_vaddr

OnPage0(h) == h.p_vaddr < PGSIZE

\* A header of a type that load ignores.
IgnoreHeader ==
  /\ pc = "headers" /\ phnum > 0
  /\ phnum' = phnum - 1
  /\ UNCHANGED <<pc, pool, pagedir, segmentVars, esp, line, segments>>

\* A header that cannot be read, of a type that load refuses, or that is not valid; on page 0
\* validate_segment calls exit (-1).
RefuseHeader ==
  /\ pc = "headers" /\ phnum > 0
  /\ \/ pc' = "failed"
     \/ pc' = "abort" /\ \E h \in Header : Valid(h) /\ OnPage0(h)
  /\ phnum' = 0
  /\ UNCHANGED <<pool, pagedir, segmentVars, esp, line, segments>>

\* (Mutant: read_bytes without page_offset.)
LoadSegmentUnaligned ==
  /\ pc = "headers" /\ phnum > 0
  /\ \E h \in Header :
       LET page_offset == h.p_vaddr % PGSIZE IN
       /\ Valid(h) /\ ~OnPage0(h)
       /\ segment' = h
       /\ upage' = PageOf(h.p_vaddr)
       /\ pos' = h.p_offset - (h.p_offset % PGSIZE)
       /\ read_bytes' = h.p_filesz
       /\ zero_bytes' = RoundUp(page_offset + h.p_memsz) - read_bytes'
  /\ pc' = "segment" /\ phnum' = phnum - 1
  /\ UNCHANGED <<pool, pagedir, esp, line, segments>>

\* The call of load_segment.
LoadSegment ==
  /\ pc = "headers" /\ phnum > 0
  /\ \E h \in Header :
       LET page_offset == h.p_vaddr % PGSIZE IN
       /\ Valid(h) /\ ~OnPage0(h)
       /\ segment' = h
       /\ upage' = PageOf(h.p_vaddr)
       /\ pos' = h.p_offset - (h.p_offset % PGSIZE)
       /\ read_bytes' = IF h.p_filesz > 0 THEN page_offset + h.p_filesz ELSE 0
       /\ zero_bytes' = RoundUp(page_offset + h.p_memsz) - read_bytes'
  /\ pc' = "segment" /\ phnum' = phnum - 1
  /\ UNCHANGED <<pool, pagedir, esp, line, segments>>

\* (Mutant: page_read_bytes not limited to what is left.)
page_read_bytesWhole == IF read_bytes > 0 THEN PGSIZE ELSE 0

page_read_bytes == IF read_bytes < PGSIZE THEN read_bytes ELSE PGSIZE
InLoop == pc = "segment" /\ read_bytes + zero_bytes > 0

\* What file_read finds; the rest of the page is zeroed.
PageBytes == [i \in 0 .. PGSIZE - 1 |-> IF i < page_read_bytes THEN pos + i + 1 ELSE 0]

LoadPage ==
  /\ InLoop
  /\ pool # {} /\ pos + page_read_bytes <= FileLength /\ upage \notin DOMAIN pagedir
  /\ Map(upage, PageBytes, segment.writable)
  /\ read_bytes' = read_bytes - page_read_bytes
  /\ zero_bytes' = zero_bytes - (PGSIZE - page_read_bytes)
  /\ upage' = upage + 1 /\ pos' = pos + page_read_bytes
  /\ UNCHANGED <<pc, phnum, segment, esp, line, segments>>

\* (Mutant: load_segment without palloc_free_page.)
LoadPageFailsKeepingIt ==
  /\ InLoop
  /\ pool' = IF pool = {} THEN pool ELSE pool \ {FirstFree}
  /\ pc' = "failed" /\ phnum' = 0 /\ NoLoop
  /\ UNCHANGED <<pagedir, esp, line, segments>>

\* No page; a short file; a user page that is mapped; no page for the page table.  The page
\* that was taken, if any, is given back.
LoadPageFails ==
  /\ InLoop
  /\ pc' = "failed" /\ phnum' = 0 /\ NoLoop
  /\ UNCHANGED <<pool, pagedir, esp, line, segments>>

SegmentLoaded ==
  /\ pc = "segment" /\ read_bytes + zero_bytes = 0
  /\ segments' = Append(segments, segment)
  /\ pc' = "headers" /\ NoLoop
  /\ UNCHANGED <<pool, pagedir, phnum, esp, line>>

SetupStack ==
  /\ pc = "headers" /\ phnum = 0
  /\ \/ /\ pool # {} /\ StackPage \notin DOMAIN pagedir
        /\ Map(StackPage, [i \in 0 .. PGSIZE - 1 |-> 0], TRUE)
        /\ esp' = PHYS_BASE
        /\ pc' = "loaded"
     \/ pc' = "failed" /\ UNCHANGED <<pool, pagedir, esp>>
  /\ UNCHANGED <<phnum, segmentVars, line, segments>>

--------------------------------------------------------------------------------
(* The rest of start_process.                                              *)

\* Each command line's words, and the stack they make.
Argv == [cmd \in CommandLine |-> Words(SingleSpaced(cmd))]
StackOf == [cmd \in CommandLine |-> Stack(PHYS_BASE, Argv[cmd])]

\* parsing_filename on the command line without its doubled spaces.  Without a first word
\* there would have been no file to load.  It faults on the NULL that strtok_r returns after
\* a last space, and where the stack runs out of the memory that is mapped.
ParseArguments ==
  /\ pc = "loaded"
  /\ \E cmd \in CommandLine :
       LET stack == StackOf[cmd]
           Stacked(u) == [i \in 0 .. PGSIZE - 1 |->
                            LET a == PGSIZE * u + i
                            IN  IF a \in DOMAIN stack THEN stack[a] ELSE pagedir[u].bytes[i]]
           succeeds == /\ ~ReadsNull(SingleSpaced(cmd))
                       /\ \A u \in {PageOf(a) : a \in DOMAIN stack} :
                            u \in DOMAIN pagedir /\ pagedir[u].writable
       IN  /\ FirstWord(cmd) # << >>
           /\ line' = cmd
           /\ \/ ~succeeds /\ pc' = "abort" /\ UNCHANGED <<pagedir, esp>>
              \/ /\ succeeds /\ pc' = "run"
                 /\ pagedir' = [u \in DOMAIN pagedir |-> [pagedir[u] EXCEPT !.bytes = Stacked(u)]]
                 /\ esp' = FinalEsp(PHYS_BASE, Argv[cmd])
  /\ UNCHANGED <<pool, phnum, segmentVars, segments>>

\* pagedir_destroy, in process_exit, frees what is mapped.
Exit ==
  /\ pc \in {"failed", "abort", "run"}
  /\ pool' = pool \union {pagedir[u].kpage : u \in DOMAIN pagedir}
  /\ pagedir' = NoMapping
  /\ pc' = "dead" /\ esp' = 0 /\ line' = << >> /\ segments' = << >>
  /\ UNCHANGED <<phnum, segmentVars>>

Next == \/ LoadFails \/ ReadElfHeader \/ IgnoreHeader \/ RefuseHeader \/ LoadSegment \/ LoadPage
        \/ LoadPageFails \/ SegmentLoaded \/ SetupStack \/ ParseArguments \/ Exit

Spec == Init /\ [][Next]_vars

--------------------------------------------------------------------------------
(* Properties.                                                             *)

Byte(address) == pagedir[PageOf(address)].bytes[address % PGSIZE]
Fits(cmd) == PHYS_BASE - FinalEsp(PHYS_BASE, Words(cmd)) <= PGSIZE

\* Type invariant: every variable stays in its domain.
TypeOK ==
  /\ pc \in PC
  /\ pool \subseteq Page
  /\ \A u \in DOMAIN pagedir :
       /\ pagedir[u].kpage \in Page /\ pagedir[u].writable \in BOOLEAN
       /\ pagedir[u].bytes \in [0 .. PGSIZE - 1 -> Nat]
  /\ phnum \in 0 .. MaxHeaders
  /\ segment \in Header \union {NoSegment}
  /\ upage \in Nat /\ pos \in Nat /\ read_bytes \in Nat /\ zero_bytes \in Nat
  /\ esp \in 0 .. PHYS_BASE
  /\ line \in CommandLine \union {<< >>}
  /\ segments \in Seq(Header)

\* Whatever headers the file has, the program is mapped between page 0 and PHYS_BASE: no
\* address wraps around into what it must not see.
UserSpaceOnly == DOMAIN pagedir \subseteq 1 .. StackPage

\* No page is leaked or mapped twice: every page of the pool is free or mapped at one place,
\* however load ends; so after the process's death all are free.
PagesAccounted ==
  /\ pool \intersect {pagedir[u].kpage : u \in DOMAIN pagedir} = {}
  /\ pool \union {pagedir[u].kpage : u \in DOMAIN pagedir} = Page
  /\ \A u, v \in DOMAIN pagedir : pagedir[u].kpage = pagedir[v].kpage => u = v

\* What has been loaded is what the headers describe, for every alignment and size: p_filesz
\* bytes from p_offset at p_vaddr, zeros up to p_memsz, writable as the header says; arguments
\* that fit the stack's page have not changed it.
ImageIsExact ==
  pc = "loaded" \/ (pc = "run" /\ Fits(line)) =>
    \A n \in 1 .. Len(segments) :
      LET h == segments[n] IN
      \A i \in 0 .. h.p_memsz - 1 :
        /\ PageOf(h.p_vaddr + i) \in DOMAIN pagedir
        /\ Byte(h.p_vaddr + i) = IF i < h.p_filesz THEN h.p_offset + i + 1 ELSE 0
        /\ pagedir[PageOf(h.p_vaddr + i)].writable = h.writable

\* A program that has been loaded finds the words of its command line, wherever the spaces
\* are: argc of them, argv[j] pointing at a string that is the j-th, argv[argc] NULL, and esp
\* aligned.  It starts unless the command line ends in a space or its arguments are larger
\* than the stack's page.
ArgumentsAreWords ==
  /\ pc = "abort" /\ line # << >> => Last(line) = Space \/ ~Fits(line)
  /\ pc = "run" =>
       LET argc == Byte(esp + 4)
           argv == Byte(esp + 8)
       IN  /\ esp % 4 = 0 /\ Byte(esp) = 0
           /\ argc = Len(Words(line)) /\ Byte(argv + 4 * argc) = 0
           /\ \A j \in 1 .. argc :
                LET string == Byte(argv + 4 * (j - 1))
                    word == Words(line)[j]
                IN  /\ \A k \in 1 .. Len(word) : Byte(string + k - 1) = word[k]
                    /\ Byte(string + Len(word)) = 0
================================================================================
