------------------------------- MODULE Arguments -------------------------------
(***************************************************************************)
(* The arguments of a program, in userprog/process.c of hw3: how           *)
(* process_execute and start_process take a command line apart, and how    *)
(* parsing_filename lays its words out on the new process's stack.         *)
(*                                                                         *)
(* Characters are numbers, 0 is '\0'.  An address is a number; a word of   *)
(* memory takes 4 addresses and is kept at the first of them.              *)
(***************************************************************************)
EXTENDS Integers, FiniteSets, SequencesExt

CONSTANT Space

\* The first word: what comes before the first space.
FirstWord(line) ==
  SubSeq(line, 1, SelectInSeq(line \o <<Space>>, LAMBDA c : c = Space) - 1)

\* dbl_delete, by how much of the line has been read: of a run of spaces only the first is kept.
KeptUpTo(line) ==
  LET kept[i \in 0 .. Len(line)] ==
        IF i = 0 THEN << >>
        ELSE IF line[i] = Space /\ i > 1 /\ line[i - 1] = Space THEN kept[i - 1]
        ELSE Append(kept[i - 1], line[i])
  IN  kept
SingleSpaced(line) == KeptUpTo(line)[Len(line)]

\* The words that strtok_r (line, " ") returns one after the other, by how much it has read:
\* a character after a space begins one.
WordsUpTo(line) ==
  LET words[i \in 0 .. Len(line)] ==
        IF i = 0 THEN << >>
        ELSE LET before == words[i - 1]
             IN  IF line[i] = Space THEN before
                 ELSE IF i = 1 \/ line[i - 1] = Space THEN Append(before, <<line[i]>>)
                 ELSE [before EXCEPT ![Len(before)] = Append(@, line[i])]
  IN  words
Words(line) == WordsUpTo(line)[Len(line)]

\* argc counts the spaces: the calls of strtok_r beyond the last word return NULL.
Argc(line) == 1 + Cardinality({i \in 1 .. Len(line) : line[i] = Space})
ReadsNull(line) == Argc(line) > Len(Words(line))

--------------------------------------------------------------------------------
(* The stack.  It grows downwards from top: the strings, the last argument *)
(* first; padding and argv[argc] = NULL; argv; its address; argc; and the  *)
(* return address.                                                         *)

\* Where each argument's string begins; below[argc + 1] = top.
StringsFrom(top, argv) ==
  LET below[j \in 1 .. Len(argv) + 1] ==
        IF j > Len(argv) THEN top ELSE below[j + 1] - (Len(argv[j]) + 1)
  IN  below

\* (Mutant: total_len counts no terminators.)
NullAtUnaligned(top, argv) ==
  LET total_len == top - StringsFrom(top, argv)[1] - Len(argv)
      padding == IF total_len % 4 # 0 THEN 4 - (total_len % 4) ELSE 0
  IN  StringsFrom(top, argv)[1] - padding - 4

NullAt(top, argv) ==
  LET total_len == top - StringsFrom(top, argv)[1]
      padding == IF total_len % 4 # 0 THEN 4 - (total_len % 4) ELSE 0
  IN  top - total_len - padding - 4

\* The value of *esp in the end.
FinalEsp(top, argv) == NullAt(top, argv) - 4 * Len(argv) - 12

\* What is written, by address.
Stack(top, argv) ==
  LET n == Len(argv)
      at == StringsFrom(top, argv)
      esp == FinalEsp(top, argv)
      words == [a \in {esp + 4 * k : k \in 0 .. n + 3} |->
                  CASE a = esp -> 0 [] a = esp + 4 -> n [] a = esp + 8 -> esp + 12
                    [] a = NullAt(top, argv) -> 0
                    [] OTHER -> at[(a - esp - 8) \div 4]]
      char(a) == LET j == CHOOSE j \in 1 .. n : at[j] <= a /\ a < at[j + 1]
                 IN  IF a - at[j] < Len(argv[j]) THEN argv[j][a - at[j] + 1] ELSE 0
  IN  [a \in DOMAIN words \union (at[1] .. top - 1) |-> IF a >= at[1] THEN char(a) ELSE words[a]]
================================================================================
