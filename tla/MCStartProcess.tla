----------------------------- MODULE MCStartProcess -----------------------------
(* StartProcess on small instances: 8 pages of 32 bytes, the last 2 of the *)
(* kernel; an executable of 70 bytes.                                      *)
EXTENDS StartProcess

\* Pages' first bytes and bytes within; page 0, the middle, the stack's page, the kernel's;
\* sizes of nothing, within a page, across pages, and around the address space.
MCHeader ==
  [p_offset : {0, 37, 96}, p_vaddr : {5, 37, 64, 69, 165, 192}, p_filesz : {0, 3, 33, 60},
   p_memsz : {0, 3, 33, 60, 224}, writable : BOOLEAN]

MCSpace == 32
MCCommandLine == BoundedSeq({120, MCSpace}, 5)
================================================================================
