------------------------------ MODULE KernelList ------------------------------
(***************************************************************************)
(* The ordered-list operations of lib/kernel/list.c that threads/thread.c  *)
(* and threads/synch.c rely on.  A list of threads is a sequence of        *)
(* threads; the comparison function (compare_thread_priority,              *)
(* wake_time_compare, ...) is given by a key: the function key maps a list *)
(* element to an integer, and an element goes before another when its key  *)
(* is strictly larger.                                                     *)
(***************************************************************************)
EXTENDS Integers, Sequences, FiniteSets

ListElems(s) == {s[i] : i \in 1 .. Len(s)}

\* (Mutant: list_insert_ordered with <= for <, a new element goes before its equals.)
InsertBeforeEqual(s, x, key) ==
  CHOOSE i \in 1 .. Len(s) + 1 :
     /\ \A j \in 1 .. i - 1 : key[s[j]] > key[x]
     /\ i <= Len(s) => key[x] >= key[s[i]]

\* list_insert_ordered walks from the front to the first element that the new
\* one must precede, and inserts before it (at the end if there is none): a
\* new element goes after the elements of the same key.
InsertPosition(s, x, key) ==
  CHOOSE i \in 1 .. Len(s) + 1 :
     /\ \A j \in 1 .. i - 1 : key[s[j]] >= key[x]
     /\ i <= Len(s) => key[x] > key[s[i]]

InsertAtPosition(s, i, x) ==
  [k \in 1 .. Len(s) + 1 |-> IF k < i THEN s[k] ELSE IF k = i THEN x ELSE s[k - 1]]

InsertOrdered(s, x, key) == InsertAtPosition(s, InsertPosition(s, x, key), x)

\* list_sort is a stable merge sort: the element that ends up at place r is the
\* one with r - 1 elements before it, those of a larger key and those of the
\* same key that were already before it.
RankInSort(s, i, key) ==
  Cardinality({j \in 1 .. Len(s) : \/ key[s[j]] > key[s[i]]
                                   \/ key[s[j]] = key[s[i]] /\ j <= i})

ListSort(s, key) ==
  [r \in 1 .. Len(s) |-> s[CHOOSE i \in 1 .. Len(s) : RankInSort(s, i, key) = r]]

\* list_remove (&t->elem) on the list that holds t: what follows t moves up.
ListRemove(s, x) ==
  LET i == CHOOSE i \in 1 .. Len(s) : s[i] = x
  IN  [k \in 1 .. Len(s) - 1 |-> IF k < i THEN s[k] ELSE s[k + 1]]

SortedBy(s, key) == \A i, j \in 1 .. Len(s) : i < j => key[s[i]] >= key[s[j]]

NoDuplicates(s) == \A i, j \in 1 .. Len(s) : s[i] = s[j] => i = j
===============================================================================
