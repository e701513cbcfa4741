-------------------------------- MODULE Pages --------------------------------
(***************************************************************************)
(* The arithmetic of pages: the offset and limit that PaginationParams     *)
(* compute from a page number and a page size, and the number of pages and *)
(* the flag that a ListResponseDto carries.  The query between the two     *)
(* belongs to whoever implements the repository trait and is not modelled. *)
(***************************************************************************)
EXTENDS Integers

CONSTANT PageRange  \* how many page numbers there are (2^32 in the code)

Least(a, b) == IF a < b THEN a ELSE b

\* saturating_sub, a product of the width of a page number, and only then the
\* cast to u64.
offset(page, per_page) ==
  ((IF page = 0 THEN 0 ELSE page - 1) * per_page) % PageRange

limit(per_page) == per_page

\* The quotient rounded up; the cast to u32 saturates.
total_pages(total, per_page) ==
  IF per_page = 0 THEN 0
  ELSE Least((total + per_page - 1) \div per_page, PageRange - 1)

has_next(page, total, per_page) == page < total_pages(total, per_page)

\* The places, counted from 1, that a page asks a query for.
Covered(page, per_page) ==
  offset(page, per_page) + 1 .. offset(page, per_page) + limit(per_page)
==============================================================================
