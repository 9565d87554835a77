---------------------------- MODULE PageBitmap ----------------------------
(***************************************************************************)
(* kernel/memory/page_bitmap.hpp and physical.cpp: the pages of physical   *)
(* memory, which of them are in use, and the search for a free one from a  *)
(* hint.  Only pages of RAM that nothing else occupies are managed; the    *)
(* others, Reserved, are in use from the start and are never given out.    *)
(***************************************************************************)
EXTENDS Integers, FiniteSets

CONSTANTS
    PageCount,    \* g_page_count
    Reserved      \* g_reserved, which nobody changes after initialize

ASSUME PagesAssumption ==
    /\ PageCount \in Nat \ {0}
    /\ Reserved \subseteq 0 .. PageCount - 1

Pages == 0 .. PageCount - 1

VARIABLES
    used,          \* the bits of g_used
    free_count,    \* g_used.free_count_
    next_hint      \* g_used.next_hint_

bitmap == <<used, free_count, next_hint>>

\* The first free page among begin .. end - 1.
first_free(begin, end, i) ==
    /\ i \in begin .. end - 1
    /\ i \notin used
    /\ \A j \in begin .. i - 1 : j \in used

none_free(begin, end) == begin .. end - 1 \subseteq used

\* The two passes of allocate.
found(i) ==
    \/ first_free(next_hint, PageCount, i)
    \/ none_free(next_hint, PageCount) /\ first_free(0, next_hint, i)

\* Mutant: the last page is not looked at.
exhausted_early ==
    \/ free_count = 0
    \/ none_free(next_hint, PageCount - 1) /\ none_free(0, next_hint)

\* allocate_page with the result i.  Its loop never goes round: a reserved
\* page is in use from the start, and free_page does not give it back.
allocate_page(i) ==
    /\ free_count # 0
    /\ found(i)
    /\ used' = used \cup {i}
    /\ free_count' = free_count - 1
    /\ next_hint' = IF i + 1 >= PageCount THEN 0 ELSE i + 1

\* allocate_page with the result kInvalidPhysicalAddress.
exhausted ==
    \/ free_count = 0
    \/ none_free(next_hint, PageCount) /\ none_free(0, next_hint)

\* free_page of every page of S, in any order: of those that are reserved or
\* not in use it is refused.
freed(S) == (S \cap used) \ Reserved
lowest(S, h) == h \in S /\ \A i \in S : h <= i
free_pages(S) ==
    /\ used' = used \ freed(S)
    /\ free_count' = free_count + Cardinality(freed(S))
    /\ \E h \in freed(S) \cup {next_hint} :
         next_hint' = h /\ lowest(freed(S) \cup {next_hint}, h)
=============================================================================
