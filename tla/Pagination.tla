------------------------------ MODULE Pagination ------------------------------
(***************************************************************************)
(* The pages of a listing: which records SuiteCRM puts on a page, and the  *)
(* page numbers that response_schemas.py puts in the links of an answer.   *)
(* Records are numbers in the order the listing is sorted in, one order    *)
(* that never changes; how SuiteCRM sorts records of equal names, and      *)
(* whether always alike, nothing in the code says.                         *)
(***************************************************************************)
EXTENDS Integers, FiniteSets

NoPage == -1    \* a link that is null

\* Mutant: an empty listing has no page.
PagesOfAny(total, size) == -((-total) \div size)

\* max(1, -(-total // size)).
TotalPages(total, size) ==
    LET pages == -((-total) \div size) IN IF pages > 1 THEN pages ELSE 1

\* Mutant: the page itself in the link to the next one.
SamePage(page, total, size) == IF page < TotalPages(total, size) THEN page ELSE NoPage

NextPage(page, total, size) == IF page < TotalPages(total, size) THEN page + 1 ELSE NoPage

\* Mutant: the last page is its own previous one.
PrevPageOrLast(page, total, size) ==
    IF page <= 1 THEN NoPage
    ELSE IF page < TotalPages(total, size) THEN page - 1
    ELSE TotalPages(total, size)

\* A page beyond the end is followed back to the last one.
PrevPage(page, total, size) ==
    IF page <= 1 THEN NoPage
    ELSE IF page - 1 <= TotalPages(total, size) THEN page - 1
    ELSE TotalPages(total, size)

-----------------------------------------------------------------------------
(* SuiteCRM: a page of the records selected, in order.                     *)

Position(r, selected) == Cardinality({x \in selected : x <= r})

PageOf(selected, page, size) ==
    {r \in selected : /\ (page - 1) * size < Position(r, selected)
                      /\ Position(r, selected) <= page * size}
=============================================================================
