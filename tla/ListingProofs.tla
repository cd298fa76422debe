---------------------------- MODULE ListingProofs ----------------------------
(***************************************************************************)
(* What a walk through a listing can count on, for any records, page sizes *)
(* and changes between and during the requests.                            *)
(*                                                                         *)
(* The argument is about positions.  The position of a record that is not  *)
(* touched only falls while records are only taken away, and only rises    *)
(* while they are only added.  Forward, the records still to be seen lie   *)
(* beyond the pages that were read as long as none was taken away; and     *)
(* because the number of records is read after the page, a record that the *)
(* page did not have is counted, and there is a next page to look for it.  *)
(***************************************************************************)
EXTENDS Listings, FiniteSetTheorems, TLAPS

-----------------------------------------------------------------------------
(* Pages.                                                                  *)

LEMMA ProductGrows ==
    ASSUME NEW a \in Int, NEW b \in Int, a <= b, NEW size \in Nat \ {0}
    PROVE  a * size <= b * size
OBVIOUS

\* There are pages enough for the records: the round-up is up.
LEMMA PagesHoldAll ==
    ASSUME NEW total \in Nat, NEW size \in Nat \ {0}
    PROVE  /\ TotalPages(total, size) \in Nat \ {0}
           /\ total <= TotalPages(total, size) * size
<1> DEFINE q == (-total) \div size
<1>1. q \in Int /\ q * size <= -total
    OBVIOUS
<1>2. -q \in Int /\ total <= (-q) * size
    BY <1>1
<1>3. TotalPages(total, size) = IF -q > 1 THEN -q ELSE 1
    BY DEF TotalPages
<1> HIDE DEF q
<1>4. TotalPages(total, size) \in Nat \ {0} /\ -q <= TotalPages(total, size)
    BY <1>2, <1>3
<1>5. (-q) * size <= TotalPages(total, size) * size
    BY <1>2, <1>4, ProductGrows
<1>6. TotalPages(total, size) * size \in Int /\ (-q) * size \in Int
    BY <1>2, <1>4
<1> QED  BY <1>2, <1>4, <1>5, <1>6

\* Where the links lead.
LEMMA NextLink ==
    ASSUME NEW page \in Nat \ {0}, NEW total \in Nat, NEW size \in Nat \ {0}
    PROVE  \/ NextPage(page, total, size) = page + 1
           \/ NextPage(page, total, size) = NoPage /\ total <= page * size
<1>1. CASE page < TotalPages(total, size)
    BY <1>1 DEF NextPage
<1>2. CASE ~(page < TotalPages(total, size))
    <2>1. TotalPages(total, size) \in Nat \ {0} /\ TotalPages(total, size) <= page
        BY <1>2, PagesHoldAll
    <2>2. TotalPages(total, size) * size <= page * size
        BY <2>1, ProductGrows
    <2>3. total <= TotalPages(total, size) * size
        BY PagesHoldAll
    <2>4. page * size \in Int /\ TotalPages(total, size) * size \in Int
        BY <2>1
    <2>5. total <= page * size
        BY <2>2, <2>3, <2>4
    <2> QED  BY <1>2, <2>5 DEF NextPage
<1> QED  BY <1>1, <1>2

LEMMA PrevLink ==
    ASSUME NEW page \in Nat \ {0}, NEW total \in Nat, NEW size \in Nat \ {0}
    PROVE  \/ PrevPage(page, total, size) = NoPage /\ page = 1
           \/ /\ PrevPage(page, total, size) \in Nat \ {0}
              /\ PrevPage(page, total, size) <= page - 1
              /\ \/ PrevPage(page, total, size) = page - 1
                 \/ total <= PrevPage(page, total, size) * size
BY PagesHoldAll DEF PrevPage

-----------------------------------------------------------------------------
(* Positions.                                                              *)

LEMMA PositionRange ==
    ASSUME NEW S, IsFiniteSet(S), NEW r
    PROVE  /\ Position(r, S) \in Nat
           /\ Position(r, S) <= Cardinality(S)
           /\ r \in S /\ r \in Nat => Position(r, S) > 0
<1> DEFINE upto == {x \in S : x <= r}
<1>1. IsFiniteSet(upto) /\ Cardinality(upto) <= Cardinality(S)
    BY FS_Subset
<1>2. Cardinality(upto) \in Nat
    BY <1>1, FS_CardinalityType
<1>3. ASSUME r \in S, r \in Nat
      PROVE  Cardinality(upto) > 0
    <2>1. r \in upto  BY <1>3
    <2> QED  BY <1>1, <1>2, <2>1, FS_EmptySet
<1> QED  BY <1>1, <1>2, <1>3 DEF Position

LEMMA PositionGrows ==
    ASSUME NEW S, NEW T, S \subseteq T, IsFiniteSet(T), NEW r
    PROVE  Position(r, S) <= Position(r, T)
<1>1. {x \in S : x <= r} \subseteq {x \in T : x <= r}  OBVIOUS
<1>2. IsFiniteSet({x \in T : x <= r})  BY FS_Subset
<1> QED  BY <1>1, <1>2, FS_Subset DEF Position

-----------------------------------------------------------------------------
(* The invariant.                                                          *)

Busy == walk.pc \in {"asking", "serving"}

\* The two kinds of listing do their calls in this order.
CallsFit ==
    walk.pc = "serving" =>
        \/ walk.calls = <<>>
        \/ walk.kind = "counted" /\ walk.calls \in {<<"page", "count">>, <<"count">>}
        \/ walk.kind = "memberships" /\ walk.calls \in {<<"page_and_total", "roles">>, <<"roles">>}

\* How far a request has come: its page not read, read, and counted as well.
Unread ==
    \/ walk.pc = "asking"
    \/ walk.pc = "serving" /\ walk.calls \in {<<"page", "count">>, <<"page_and_total", "roles">>}

PageRead == walk.pc = "serving" /\ walk.calls = <<"count">>

Counted == walk.pc = "serving" /\ walk.calls \in {<<>>, <<"roles">>}

StayedListed == walk.stayed \subseteq Listed(walk.kind, selected, roles)

\* The records that the walk has still to come across.
Left == walk.stayed \ (walk.seen \cup walk.found)

Place(r) == Position(r, selected)

PageEnd == walk.page * walk.size

PageStart == (walk.page - 1) * walk.size

Forward ==
    walk.link = "next" /\ ~walk.shrunk =>
        /\ walk.pc = "done" => Left = {}
        /\ Unread => \A r \in Left : Place(r) > PageStart
        /\ PageRead \/ Counted => \A r \in Left : Place(r) > PageEnd
        /\ Counted => \A r \in Left : walk.total > PageEnd

Backward ==
    walk.link = "prev" /\ ~walk.grown =>
        /\ walk.pc = "done" => Left = {}
        /\ Unread => \A r \in Left : Place(r) <= PageEnd
        /\ PageRead \/ Counted => \A r \in Left : Place(r) <= PageStart
        /\ Counted => \A r \in Left : Place(r) <= walk.total

FoundOnce == ~walk.again /\ (Busy => walk.found \cap walk.seen = {})

ForwardOnce ==
    walk.link = "next" /\ ~walk.grown =>
        /\ FoundOnce
        /\ Busy => \A r \in walk.seen \cap selected : Place(r) <= PageStart
        /\ Busy => \A r \in walk.found \cap selected : Place(r) <= PageEnd

BackwardOnce ==
    walk.link = "prev" /\ ~walk.shrunk =>
        /\ FoundOnce
        /\ Busy => \A r \in walk.seen : r \in selected /\ Place(r) > PageEnd
        /\ Busy => \A r \in walk.found : r \in selected /\ Place(r) > PageStart

\* A page that is not read, or of a walk that is over, has no data.
NoData == Unread \/ ~Busy => walk.found = {}

IndInv ==
    /\ TypeOK /\ CallsFit /\ StayedListed /\ NoData
    /\ Forward /\ Backward /\ ForwardOnce /\ BackwardOnce

-----------------------------------------------------------------------------

LEMMA PlaceRange ==
    ASSUME TypeOK, NEW r
    PROVE  /\ Place(r) \in Nat /\ Place(r) <= Cardinality(selected) /\ Cardinality(selected) \in Nat
           /\ r \in selected => Place(r) > 0
<1>1. selected \subseteq Records /\ IsFiniteSet(selected)
    BY ListingAssumption, FS_Subset DEF TypeOK
<1>2. r \in selected => r \in Nat
    BY <1>1, ListingAssumption
<1> QED  BY <1>1, <1>2, PositionRange, FS_CardinalityType DEF Place

LEMMA PageRange ==
    ASSUME TypeOK
    PROVE  PageStart \in Int /\ PageEnd \in Int /\ PageStart <= PageEnd
<1>1. walk.page \in Nat \ {0} /\ walk.size \in Nat \ {0}
    BY ListingAssumption DEF TypeOK, Walk
<1>2. walk.page - 1 \in Int /\ walk.page - 1 <= walk.page /\ walk.page \in Int
    BY <1>1
<1>3. (walk.page - 1) * walk.size \in Int /\ walk.page * walk.size \in Int
    BY <1>1
<1>4. (walk.page - 1) * walk.size <= walk.page * walk.size
    BY <1>1, <1>2, ProductGrows
<1> QED  BY <1>3, <1>4 DEF PageStart, PageEnd

\* The records of the page that is read.
LEMMA OnPage ==
    ASSUME NEW r
    PROVE  r \in PageOf(selected, walk.page, walk.size)
                <=> r \in selected /\ PageStart < Place(r) /\ Place(r) <= PageEnd
BY DEF PageOf, PageStart, PageEnd, Place

-----------------------------------------------------------------------------
(* The steps of a request.                                                 *)

\* The lists of calls, and what is left of them.
LEMMA CallLists ==
    /\ <<"page", "count">> # <<"count">> /\ <<"page_and_total", "roles">> # <<"count">>
    /\ <<"page", "count">> # <<"roles">> /\ <<"page_and_total", "roles">> # <<"roles">>
    /\ <<"page", "count">> # <<>> /\ <<"page_and_total", "roles">> # <<>>
    /\ <<"count">> # <<>> /\ <<"roles">> # <<>> /\ <<"count">> # <<"roles">>
    /\ Head(<<"page", "count">>) = "page" /\ Tail(<<"page", "count">>) = <<"count">>
    /\ Head(<<"page_and_total", "roles">>) = "page_and_total"
    /\ Tail(<<"page_and_total", "roles">>) = <<"roles">>
    /\ Head(<<"count">>) = "count" /\ Tail(<<"count">>) = <<>>
    /\ Head(<<"roles">>) = "roles" /\ Tail(<<"roles">>) = <<>>
OBVIOUS

LEMMA CallListsType ==
    /\ <<"page", "count">> \in Seq(Calls) /\ <<"page_and_total", "roles">> \in Seq(Calls)
    /\ <<"count">> \in Seq(Calls) /\ <<"roles">> \in Seq(Calls) /\ <<>> \in Seq(Calls)
BY DEF Calls

\* The call that a request does next says how far it has come.
LEMMA NextCall ==
    ASSUME CallsFit, walk.pc = "serving"
    PROVE  /\ Calling("page") =>
                walk.kind = "counted" /\ walk.calls = <<"page", "count">> /\ Tail(walk.calls) = <<"count">>
           /\ Calling("count") =>
                walk.kind = "counted" /\ walk.calls = <<"count">> /\ Tail(walk.calls) = <<>>
           /\ Calling("page_and_total") =>
                /\ walk.kind = "memberships" /\ walk.calls = <<"page_and_total", "roles">>
                /\ Tail(walk.calls) = <<"roles">>
           /\ Calling("roles") =>
                walk.kind = "memberships" /\ walk.calls = <<"roles">> /\ Tail(walk.calls) = <<>>
BY CallLists DEF CallsFit, Calling

LEMMA AdmitKeepsInv == IndInv /\ Admit => IndInv'
<1> SUFFICES ASSUME IndInv, Admit PROVE IndInv'  OBVIOUS
<1>1. /\ walk \in Walk /\ walk.pc = "asking"
      /\ walk' = [walk EXCEPT !.pc = "serving", !.calls = CallsOf(walk.kind), !.total = 0]
      /\ UNCHANGED <<selected, roles>>
    BY DEF IndInv, TypeOK, Admit
<1>2. /\ walk'.pc = "serving" /\ walk'.calls = CallsOf(walk.kind) /\ walk'.total = 0
      /\ walk'.kind = walk.kind /\ walk'.link = walk.link /\ walk'.size = walk.size
      /\ walk'.page = walk.page /\ walk'.found = walk.found /\ walk'.seen = walk.seen
      /\ walk'.again = walk.again /\ walk'.stayed = walk.stayed
      /\ walk'.grown = walk.grown /\ walk'.shrunk = walk.shrunk
    BY <1>1 DEF Walk
<1>3. \/ walk.kind = "counted" /\ CallsOf(walk.kind) = <<"page", "count">>
      \/ walk.kind = "memberships" /\ CallsOf(walk.kind) = <<"page_and_total", "roles">>
    BY <1>1, ListingAssumption DEF Walk, CallsOf
<1>4. CallsOf(walk.kind) \in Seq(Calls)
    BY <1>3, CallListsType
<1>5. walk' \in Walk
    BY <1>1, <1>4 DEF Walk
<1>6. TypeOK' /\ StayedListed'
    BY <1>1, <1>2, <1>5 DEF IndInv, TypeOK, StayedListed, Listed
<1>7. CallsFit'
    BY <1>2, <1>3 DEF CallsFit
<1>8. Unread /\ Unread' /\ Busy /\ Busy' /\ ~PageRead' /\ ~Counted'
    BY <1>1, <1>2, <1>3, CallLists DEF Unread, Busy, PageRead, Counted
<1>9. Left' = Left /\ PageStart' = PageStart /\ PageEnd' = PageEnd /\ \A r : Place(r)' = Place(r)
    BY <1>1, <1>2 DEF Left, PageStart, PageEnd, Place
<1>10. NoData'
    BY <1>2, <1>8 DEF NoData, IndInv
<1>11. Forward' /\ Backward'
    BY <1>2, <1>8, <1>9 DEF Forward, Backward, IndInv
<1>12. ForwardOnce' /\ BackwardOnce'
    BY <1>1, <1>2, <1>8, <1>9 DEF ForwardOnce, BackwardOnce, FoundOnce, IndInv
<1> QED  BY <1>6, <1>7, <1>10, <1>11, <1>12 DEF IndInv

\* What reading the page finds: what it finds not is before it or after it.
LEMMA PageKeepsInv ==
    ASSUME IndInv, Unread, walk.pc = "serving", UNCHANGED <<selected, roles>>,
           walk'.pc = "serving", walk'.found = PageOf(selected, walk.page, walk.size),
           PageRead' \/ (Counted' /\ walk'.total = Cardinality(selected)),
           ~Unread', ~(PageRead' /\ Counted'),
           walk'.kind = walk.kind, walk'.link = walk.link, walk'.size = walk.size,
           walk'.page = walk.page, walk'.seen = walk.seen, walk'.again = walk.again,
           walk'.stayed = walk.stayed, walk'.grown = walk.grown, walk'.shrunk = walk.shrunk
    PROVE  /\ NoData' /\ StayedListed' /\ Forward' /\ Backward' /\ ForwardOnce' /\ BackwardOnce'
           /\ walk'.found \subseteq selected
<1>1. /\ PageStart' = PageStart /\ PageEnd' = PageEnd /\ Busy /\ Busy'
      /\ \A r : Place(r)' = Place(r)
    BY DEF PageStart, PageEnd, Place, Busy
<1>2. walk.found = {}
    BY DEF IndInv, NoData
<1>3. /\ PageStart \in Int /\ PageEnd \in Int /\ PageStart <= PageEnd
      /\ Cardinality(selected) \in Nat
      /\ \A r : Place(r) \in Nat /\ Place(r) <= Cardinality(selected)
    BY PageRange, PlaceRange DEF IndInv
<1>4. walk.stayed \subseteq selected
    BY DEF IndInv, StayedListed, Listed
<1>5. /\ Left' \subseteq Left
      /\ \A r \in Left' : r \in selected /\ (Place(r) <= PageStart \/ Place(r) > PageEnd)
    BY <1>2, <1>3, <1>4, OnPage DEF Left
<1>6. \A r \in walk'.found : r \in selected /\ PageStart < Place(r) /\ Place(r) <= PageEnd
    BY OnPage
<1>7. NoData' /\ StayedListed'
    BY <1>1 DEF NoData, StayedListed, Listed, IndInv
<1>8. Forward'
    <2> SUFFICES ASSUME walk'.link = "next", ~walk'.shrunk
                 PROVE  \A r \in Left' : Place(r)' > PageEnd' /\ (Counted' => walk'.total > PageEnd')
        BY DEF Forward
    <2> TAKE r \in Left'
    <2>1. Place(r) > PageStart
        BY <1>5 DEF Forward, IndInv
    <2>2. Place(r) > PageEnd
        BY <1>3, <1>5, <2>1
    <2>3. Cardinality(selected) > PageEnd
        BY <1>3, <2>2
    <2> QED  BY <1>1, <2>2, <2>3
<1>9. Backward'
    <2> SUFFICES ASSUME walk'.link = "prev", ~walk'.grown
                 PROVE  \A r \in Left' : Place(r)' <= PageStart' /\ (Counted' => Place(r)' <= walk'.total)
        BY DEF Backward
    <2> TAKE r \in Left'
    <2>1. Place(r) <= PageEnd
        BY <1>5 DEF Backward, IndInv
    <2>2. Place(r) <= PageStart
        BY <1>3, <1>5, <2>1
    <2> QED  BY <1>1, <1>3, <2>2
<1>10. ForwardOnce'
    <2> SUFFICES ASSUME walk'.link = "next", ~walk'.grown
                 PROVE  /\ FoundOnce'
                        /\ \A r \in walk'.seen \cap selected' : Place(r)' <= PageStart'
                        /\ \A r \in walk'.found \cap selected' : Place(r)' <= PageEnd'
        BY DEF ForwardOnce
    <2>1. ~walk.again /\ \A r \in walk.seen \cap selected : Place(r) <= PageStart
        BY <1>1 DEF ForwardOnce, FoundOnce, IndInv
    <2>2. walk'.found \cap walk.seen = {}
        BY <1>3, <1>6, <2>1
    <2> QED  BY <1>1, <1>6, <2>1, <2>2 DEF FoundOnce
<1>11. BackwardOnce'
    <2> SUFFICES ASSUME walk'.link = "prev", ~walk'.shrunk
                 PROVE  /\ FoundOnce'
                        /\ \A r \in walk'.seen : r \in selected' /\ Place(r)' > PageEnd'
                        /\ \A r \in walk'.found : r \in selected' /\ Place(r)' > PageStart'
        BY DEF BackwardOnce
    <2>1. ~walk.again /\ \A r \in walk.seen : r \in selected /\ Place(r) > PageEnd
        BY <1>1 DEF BackwardOnce, FoundOnce, IndInv
    <2>2. walk'.found \cap walk.seen = {}
        BY <1>3, <1>6, <2>1
    <2>3. \A r \in walk'.found : Place(r) > PageStart
        BY <1>3, <1>6
    <2> QED  BY <1>1, <1>6, <2>1, <2>2, <2>3 DEF FoundOnce
<1> QED  BY <1>6, <1>7, <1>8, <1>9, <1>10, <1>11

LEMMA ReadPageKeepsInv == IndInv /\ ReadPage => IndInv'
<1> SUFFICES ASSUME IndInv, ReadPage PROVE IndInv'  OBVIOUS
<1> DEFINE found == PageOf(selected, walk.page, walk.size)
<1>1. /\ walk \in Walk /\ walk.pc = "serving" /\ walk.kind = "counted"
      /\ walk.calls = <<"page", "count">> /\ Tail(walk.calls) = <<"count">>
      /\ walk' = [walk EXCEPT !.calls = Tail(@), !.found = found]
      /\ UNCHANGED <<selected, roles>>
    BY NextCall DEF IndInv, TypeOK, ReadPage, Calling
<1> HIDE DEF found
<1>2. /\ walk'.pc = "serving" /\ walk'.calls = <<"count">> /\ walk'.found = found
      /\ walk'.kind = walk.kind /\ walk'.link = walk.link /\ walk'.size = walk.size
      /\ walk'.page = walk.page /\ walk'.seen = walk.seen /\ walk'.again = walk.again
      /\ walk'.stayed = walk.stayed /\ walk'.grown = walk.grown /\ walk'.shrunk = walk.shrunk
    BY <1>1 DEF Walk
<1>3. Unread /\ ~Unread' /\ PageRead' /\ ~Counted'
    BY <1>1, <1>2, CallLists DEF Unread, PageRead, Counted
<1>4. /\ NoData' /\ StayedListed' /\ Forward' /\ Backward' /\ ForwardOnce' /\ BackwardOnce'
      /\ walk'.found \subseteq selected
    BY <1>1, <1>2, <1>3, PageKeepsInv DEF found
<1>5. TypeOK' /\ CallsFit'
    BY <1>1, <1>2, <1>4, CallListsType DEF IndInv, TypeOK, Walk, CallsFit
<1> QED  BY <1>4, <1>5 DEF IndInv

LEMMA ReadMembershipsKeepsInv == IndInv /\ ReadMemberships => IndInv'
<1> SUFFICES ASSUME IndInv, ReadMemberships PROVE IndInv'  OBVIOUS
<1> DEFINE found == PageOf(selected, walk.page, walk.size)
           total == Cardinality(selected)
<1>1. /\ walk \in Walk /\ walk.pc = "serving" /\ walk.kind = "memberships"
      /\ walk.calls = <<"page_and_total", "roles">> /\ Tail(walk.calls) = <<"roles">>
      /\ walk' = [walk EXCEPT !.calls = Tail(@), !.found = found, !.total = total]
      /\ UNCHANGED <<selected, roles>>
    BY NextCall DEF IndInv, TypeOK, ReadMemberships, Calling
<1> HIDE DEF found, total
<1>2. /\ walk'.pc = "serving" /\ walk'.calls = <<"roles">> /\ walk'.found = found
      /\ walk'.total = total
      /\ walk'.kind = walk.kind /\ walk'.link = walk.link /\ walk'.size = walk.size
      /\ walk'.page = walk.page /\ walk'.seen = walk.seen /\ walk'.again = walk.again
      /\ walk'.stayed = walk.stayed /\ walk'.grown = walk.grown /\ walk'.shrunk = walk.shrunk
    BY <1>1 DEF Walk
<1>3. Unread /\ ~Unread' /\ ~PageRead' /\ Counted'
    BY <1>1, <1>2, CallLists DEF Unread, PageRead, Counted
<1>4. /\ NoData' /\ StayedListed' /\ Forward' /\ Backward' /\ ForwardOnce' /\ BackwardOnce'
      /\ walk'.found \subseteq selected
    BY <1>1, <1>2, <1>3, PageKeepsInv DEF found, total
<1>5. total \in Nat
    BY PlaceRange DEF IndInv, total
<1>6. TypeOK' /\ CallsFit'
    BY <1>1, <1>2, <1>4, <1>5, CallListsType DEF IndInv, TypeOK, Walk, CallsFit
<1> QED  BY <1>4, <1>6 DEF IndInv

\* A record that the page did not have, forward, is counted; back, it is counted too.
LEMMA ReadCountKeepsInv == IndInv /\ ReadCount => IndInv'
<1> SUFFICES ASSUME IndInv, ReadCount PROVE IndInv'  OBVIOUS
<1> DEFINE total == Cardinality(selected)
<1>1. /\ walk \in Walk /\ walk.pc = "serving" /\ walk.kind = "counted"
      /\ walk.calls = <<"count">> /\ Tail(walk.calls) = <<>>
      /\ walk' = [walk EXCEPT !.calls = Tail(@), !.total = total]
      /\ UNCHANGED <<selected, roles>>
    BY NextCall DEF IndInv, TypeOK, ReadCount, Calling
<1> HIDE DEF total
<1>2. /\ walk'.pc = "serving" /\ walk'.calls = <<>> /\ walk'.found = walk.found
      /\ walk'.total = total
      /\ walk'.kind = walk.kind /\ walk'.link = walk.link /\ walk'.size = walk.size
      /\ walk'.page = walk.page /\ walk'.seen = walk.seen /\ walk'.again = walk.again
      /\ walk'.stayed = walk.stayed /\ walk'.grown = walk.grown /\ walk'.shrunk = walk.shrunk
    BY <1>1 DEF Walk
<1>3. PageRead /\ ~Unread /\ ~Unread' /\ ~PageRead' /\ Counted' /\ Busy /\ Busy'
    BY <1>1, <1>2, CallLists DEF Unread, PageRead, Counted, Busy
<1>4. /\ total \in Nat /\ PageStart \in Int /\ PageEnd \in Int
      /\ \A r : Place(r) \in Nat /\ Place(r) <= total
    BY PlaceRange, PageRange DEF IndInv, total
<1>5. /\ Left' = Left /\ PageStart' = PageStart /\ PageEnd' = PageEnd
      /\ \A r : Place(r)' = Place(r)
    BY <1>1, <1>2 DEF Left, PageStart, PageEnd, Place
<1>6. TypeOK' /\ CallsFit' /\ StayedListed' /\ NoData'
    BY <1>1, <1>2, <1>3, <1>4, CallListsType
    DEF IndInv, TypeOK, Walk, CallsFit, StayedListed, Listed, NoData
<1>7. Forward'
    <2> SUFFICES ASSUME walk'.link = "next", ~walk'.shrunk, NEW r \in Left'
                 PROVE  Place(r)' > PageEnd' /\ walk'.total > PageEnd'
        BY <1>2, <1>3 DEF Forward
    <2>1. Place(r) > PageEnd
        BY <1>2, <1>3, <1>5 DEF Forward, IndInv
    <2> QED  BY <1>2, <1>4, <1>5, <2>1
<1>8. Backward'
    <2> SUFFICES ASSUME walk'.link = "prev", ~walk'.grown, NEW r \in Left'
                 PROVE  Place(r)' <= PageStart' /\ Place(r)' <= walk'.total
        BY <1>2, <1>3 DEF Backward
    <2>1. Place(r) <= PageStart
        BY <1>2, <1>3, <1>5 DEF Backward, IndInv
    <2> QED  BY <1>2, <1>4, <1>5, <2>1
<1>9. ForwardOnce' /\ BackwardOnce'
    BY <1>1, <1>2, <1>3, <1>5 DEF ForwardOnce, BackwardOnce, FoundOnce, IndInv
<1> QED  BY <1>6, <1>7, <1>8, <1>9 DEF IndInv

\* What stayed listed has a role, and is not left out.
LEMMA ReadRolesKeepsInv == IndInv /\ ReadRoles => IndInv'
<1> SUFFICES ASSUME IndInv, ReadRoles PROVE IndInv'  OBVIOUS
<1>1. /\ walk \in Walk /\ walk.pc = "serving" /\ walk.kind = "memberships"
      /\ walk.calls = <<"roles">> /\ Tail(walk.calls) = <<>>
      /\ walk' = [walk EXCEPT !.calls = Tail(@), !.found = @ \cap roles]
      /\ UNCHANGED <<selected, roles>>
    BY NextCall DEF IndInv, TypeOK, ReadRoles, Calling
<1>2. /\ walk'.pc = "serving" /\ walk'.calls = <<>> /\ walk'.found = walk.found \cap roles
      /\ walk'.total = walk.total
      /\ walk'.kind = walk.kind /\ walk'.link = walk.link /\ walk'.size = walk.size
      /\ walk'.page = walk.page /\ walk'.seen = walk.seen /\ walk'.again = walk.again
      /\ walk'.stayed = walk.stayed /\ walk'.grown = walk.grown /\ walk'.shrunk = walk.shrunk
    BY <1>1 DEF Walk
<1>3. Counted /\ ~Unread /\ ~Unread' /\ ~PageRead' /\ Counted' /\ Busy /\ Busy'
    BY <1>1, <1>2, CallLists DEF Unread, PageRead, Counted, Busy
<1>4. walk.stayed \subseteq roles
    BY <1>1 DEF IndInv, StayedListed, Listed
<1>5. /\ Left' = Left /\ PageStart' = PageStart /\ PageEnd' = PageEnd
      /\ \A r : Place(r)' = Place(r)
    BY <1>1, <1>2, <1>4 DEF Left, PageStart, PageEnd, Place
<1>6. TypeOK' /\ CallsFit' /\ StayedListed' /\ NoData'
    BY <1>1, <1>2, <1>3, CallListsType
    DEF IndInv, TypeOK, Walk, CallsFit, StayedListed, Listed, NoData
<1>7. Forward' /\ Backward'
    BY <1>2, <1>3, <1>5 DEF Forward, Backward, IndInv
<1>8. ForwardOnce' /\ BackwardOnce'
    BY <1>1, <1>2, <1>3, <1>5 DEF ForwardOnce, BackwardOnce, FoundOnce, IndInv
<1> QED  BY <1>6, <1>7, <1>8 DEF IndInv

\* The link says the page after or one before, and what is left lies there.
LEMMA AnswerPageKeepsInv == IndInv /\ AnswerPage => IndInv'
<1> SUFFICES ASSUME IndInv, AnswerPage PROVE IndInv'  OBVIOUS
<1> DEFINE to == Linked(walk)
<1>1. /\ walk \in Walk /\ walk.pc = "serving" /\ walk.calls = <<>>
      /\ walk' = [walk EXCEPT !.pc = IF to = NoPage THEN "done" ELSE "asking",
                              !.page = IF to = NoPage THEN @ ELSE to,
                              !.found = {},
                              !.seen = @ \cup walk.found,
                              !.again = @ \/ walk.found \cap walk.seen # {}]
      /\ UNCHANGED <<selected, roles>>
    BY DEF IndInv, TypeOK, AnswerPage
<1>2. /\ walk.page \in Nat \ {0} /\ walk.size \in Nat \ {0} /\ walk.total \in Nat
      /\ walk.link \in {"next", "prev"} /\ walk.again \in BOOLEAN
    BY <1>1, ListingAssumption DEF Walk
<1>3. /\ walk.link = "next" => to = walk.page + 1 \/ (to = NoPage /\ walk.total <= PageEnd)
      /\ walk.link = "prev" =>
            \/ to = NoPage /\ walk.page = 1
            \/ /\ to \in Nat \ {0} /\ to <= walk.page - 1
               /\ to = walk.page - 1 \/ walk.total <= to * walk.size
    BY <1>2, NextLink, PrevLink DEF Linked, PageEnd
<1>4. to = NoPage \/ to \in Nat \ {0}
    BY <1>2, <1>3
<1> HIDE DEF to
<1>5. /\ walk'.pc = (IF to = NoPage THEN "done" ELSE "asking") /\ walk'.calls = <<>>
      /\ walk'.page = (IF to = NoPage THEN walk.page ELSE to)
      /\ walk'.found = {} /\ walk'.seen = walk.seen \cup walk.found
      /\ walk'.again = (walk.again \/ walk.found \cap walk.seen # {})
      /\ walk'.kind = walk.kind /\ walk'.link = walk.link /\ walk'.size = walk.size
      /\ walk'.total = walk.total
      /\ walk'.stayed = walk.stayed /\ walk'.grown = walk.grown /\ walk'.shrunk = walk.shrunk
    BY <1>1 DEF Walk
<1>6. Counted /\ ~Unread /\ Busy /\ ~PageRead' /\ ~Counted'
    BY <1>1, <1>5, CallLists DEF Unread, PageRead, Counted, Busy
<1>7. Left' = Left /\ \A r : Place(r)' = Place(r)
    BY <1>1, <1>5 DEF Left, Place
<1>8. /\ PageStart \in Int /\ PageEnd \in Int
      /\ \A r : Place(r) \in Nat /\ (r \in selected => Place(r) > 0)
    BY PlaceRange, PageRange DEF IndInv
<1>9. Left \subseteq selected
    BY DEF Left, IndInv, StayedListed, Listed
<1>10. TypeOK'
    BY <1>1, <1>4 DEF IndInv, TypeOK, Walk
<1>11. CallsFit' /\ StayedListed' /\ NoData'
    BY <1>1, <1>5 DEF IndInv, CallsFit, StayedListed, Listed, NoData
<1>12. CASE walk.link = "next"
    <2>1. ASSUME to # NoPage PROVE to = walk.page + 1 /\ PageStart' = PageEnd
        <3>1. to = walk.page + 1 /\ (walk.page + 1) - 1 = walk.page
            BY <1>2, <1>3, <1>12, <2>1
        <3> QED  BY <1>5, <2>1, <3>1 DEF PageStart, PageEnd
    <2>2. Forward'
        <3> SUFFICES ASSUME ~walk.shrunk
                     PROVE  IF to = NoPage THEN Left = {} ELSE \A r \in Left : Place(r) > PageStart'
            BY <1>5, <1>6, <1>7 DEF Forward, Unread
        <3>1. \A r \in Left : Place(r) > PageEnd /\ walk.total > PageEnd
            BY <1>6, <1>12 DEF Forward, IndInv
        <3>2. CASE to = NoPage
            <4>1. walk.total <= PageEnd  BY <1>2, <1>3, <1>12, <3>2 DEF NoPage
            <4> QED  BY <1>2, <1>8, <3>1, <3>2, <4>1
        <3> QED  BY <2>1, <3>1, <3>2
    <2>3. ForwardOnce'
        <3> SUFFICES ASSUME ~walk.grown
                     PROVE  /\ ~walk'.again
                            /\ to # NoPage => \A r \in walk'.seen \cap selected : Place(r) <= PageStart'
            BY <1>1, <1>5, <1>7 DEF ForwardOnce, FoundOnce, Busy
        <3>1. /\ ~walk.again /\ walk.found \cap walk.seen = {}
              /\ \A r \in walk.seen \cap selected : Place(r) <= PageStart
              /\ \A r \in walk.found \cap selected : Place(r) <= PageEnd
            BY <1>6, <1>12 DEF ForwardOnce, FoundOnce, IndInv
        <3>2. PageStart <= PageEnd
            BY PageRange DEF IndInv
        <3>3. \A r \in walk'.seen \cap selected : Place(r) <= PageEnd
            BY <1>5, <1>8, <3>1, <3>2
        <3> QED  BY <1>5, <2>1, <3>1, <3>3
    <2>4. Backward' /\ BackwardOnce'
        BY <1>5, <1>12 DEF Backward, BackwardOnce
    <2> QED  BY <1>10, <1>11, <2>2, <2>3, <2>4 DEF IndInv
<1>13. CASE walk.link = "prev"
    <2>1. ASSUME to # NoPage
          PROVE  /\ PageEnd' \in Int /\ PageEnd' <= PageStart
                 /\ PageEnd' = PageStart \/ walk.total <= PageEnd'
        <3>1. /\ to \in Nat \ {0} /\ to <= walk.page - 1 /\ walk.page - 1 \in Int
              /\ to = walk.page - 1 \/ walk.total <= to * walk.size
            BY <1>2, <1>3, <1>13, <2>1
        <3>2. to * walk.size \in Int /\ to * walk.size <= (walk.page - 1) * walk.size
            BY <1>2, <3>1, ProductGrows
        <3>3. PageEnd' = to * walk.size /\ PageStart = (walk.page - 1) * walk.size
            BY <1>5, <2>1 DEF PageEnd, PageStart
        <3> QED  BY <3>1, <3>2, <3>3
    <2>2. ASSUME to = NoPage PROVE PageStart = 0
        BY <1>2, <1>3, <1>13, <2>2 DEF NoPage, PageStart
    <2>3. Backward'
        <3> SUFFICES ASSUME ~walk.grown
                     PROVE  IF to = NoPage THEN Left = {} ELSE \A r \in Left : Place(r) <= PageEnd'
            BY <1>5, <1>6, <1>7 DEF Backward, Unread
        <3>1. \A r \in Left : Place(r) <= PageStart /\ Place(r) <= walk.total
            BY <1>6, <1>13 DEF Backward, IndInv
        <3>2. CASE to = NoPage
            BY <1>8, <1>9, <2>2, <3>1, <3>2
        <3>3. CASE to # NoPage
            BY <1>2, <1>8, <2>1, <3>1, <3>3
        <3> QED  BY <3>2, <3>3
    <2>4. BackwardOnce'
        <3> SUFFICES ASSUME ~walk.shrunk
                     PROVE  /\ ~walk'.again
                            /\ to # NoPage =>
                                \A r \in walk'.seen : r \in selected /\ Place(r) > PageEnd'
            BY <1>1, <1>5, <1>7 DEF BackwardOnce, FoundOnce, Busy
        <3>1. /\ ~walk.again /\ walk.found \cap walk.seen = {}
              /\ \A r \in walk.seen : r \in selected /\ Place(r) > PageEnd
              /\ \A r \in walk.found : r \in selected /\ Place(r) > PageStart
            BY <1>6, <1>13 DEF BackwardOnce, FoundOnce, IndInv
        <3>2. PageStart <= PageEnd
            BY PageRange DEF IndInv
        <3>3. \A r \in walk'.seen : r \in selected /\ Place(r) > PageStart
            BY <1>5, <1>8, <3>1, <3>2
        <3>4. to # NoPage => \A r \in walk'.seen : r \in selected /\ Place(r) > PageEnd'
            BY <1>8, <2>1, <3>3
        <3> QED  BY <1>5, <3>1, <3>4
    <2>5. Forward' /\ ForwardOnce'
        BY <1>5, <1>13 DEF Forward, ForwardOnce
    <2> QED  BY <1>10, <1>11, <2>3, <2>4, <2>5 DEF IndInv
<1> QED  BY <1>2, <1>12, <1>13

LEMMA RefuseKeepsInv == IndInv /\ Refuse => IndInv'
<1> SUFFICES ASSUME IndInv, Refuse PROVE IndInv'  OBVIOUS
<1>1. /\ walk \in Walk
      /\ walk' = [walk EXCEPT !.pc = "failed", !.calls = <<>>, !.found = {}]
      /\ UNCHANGED <<selected, roles>> /\ Busy
    BY DEF IndInv, TypeOK, Refuse, Busy
<1>2. /\ walk'.pc = "failed" /\ walk'.found = {}
      /\ walk'.kind = walk.kind /\ walk'.link = walk.link /\ walk'.size = walk.size
      /\ walk'.page = walk.page /\ walk'.seen = walk.seen /\ walk'.again = walk.again
      /\ walk'.stayed = walk.stayed /\ walk'.grown = walk.grown /\ walk'.shrunk = walk.shrunk
    BY <1>1 DEF Walk
<1>3. ~Unread' /\ ~PageRead' /\ ~Counted' /\ ~Busy'
    BY <1>2 DEF Unread, PageRead, Counted, Busy
<1>4. TypeOK' /\ CallsFit' /\ StayedListed' /\ NoData'
    BY <1>1, <1>2, CallListsType DEF IndInv, TypeOK, Walk, CallsFit, StayedListed, Listed, NoData
<1>5. Forward' /\ Backward' /\ ForwardOnce' /\ BackwardOnce'
    BY <1>2, <1>3 DEF IndInv, Forward, Backward, ForwardOnce, BackwardOnce, FoundOnce
<1> QED  BY <1>4, <1>5 DEF IndInv

-----------------------------------------------------------------------------
(* The changes between the requests and during them.                       *)

\* Records taken away leave the places of the others the same or lower.
LEMMA PlacesFall ==
    ASSUME TypeOK, selected' \subseteq selected, NEW r
    PROVE  Place(r)' <= Place(r) /\ Place(r)' \in Nat
<1>1. IsFiniteSet(selected) /\ IsFiniteSet(selected')
    BY ListingAssumption, FS_Subset DEF TypeOK
<1> QED  BY <1>1, PositionGrows, PositionRange DEF Place

LEMMA PlacesRise ==
    ASSUME TypeOK, selected' \subseteq Records, selected \subseteq selected', NEW r
    PROVE  Place(r) <= Place(r)' /\ Place(r)' \in Nat
<1>1. IsFiniteSet(selected')
    BY ListingAssumption, FS_Subset
<1> QED  BY <1>1, PositionGrows, PositionRange DEF Place

LEMMA ChangesKeepInv ==
    ASSUME IndInv, Observe, selected' \subseteq Records, roles' \subseteq Records
    PROVE  IndInv'
<1> DEFINE listed == Listed(walk.kind, selected', roles')
           grown == walk.grown \/ ~(selected' \subseteq selected)
           shrunk == walk.shrunk \/ ~(selected \subseteq selected')
<1>1. /\ walk \in Walk
      /\ walk' = [walk EXCEPT !.stayed = @ \cap listed, !.grown = grown, !.shrunk = shrunk]
    BY DEF IndInv, TypeOK, Observe
<1>2. walk.grown \in BOOLEAN /\ walk.shrunk \in BOOLEAN
    BY <1>1 DEF Walk
<1>3. /\ ~grown => ~walk.grown /\ selected' \subseteq selected
      /\ ~shrunk => ~walk.shrunk /\ selected \subseteq selected'
      /\ grown \in BOOLEAN /\ shrunk \in BOOLEAN
    BY <1>2
<1> HIDE DEF listed, grown, shrunk
<1>4. /\ walk'.stayed = walk.stayed \cap listed /\ walk'.grown = grown /\ walk'.shrunk = shrunk
      /\ walk'.pc = walk.pc /\ walk'.calls = walk.calls /\ walk'.total = walk.total
      /\ walk'.found = walk.found /\ walk'.kind = walk.kind /\ walk'.link = walk.link
      /\ walk'.size = walk.size /\ walk'.page = walk.page /\ walk'.seen = walk.seen
      /\ walk'.again = walk.again
    BY <1>1 DEF Walk
<1>5. TypeOK'
    BY <1>1, <1>3 DEF IndInv, TypeOK, Walk
<1>6. CallsFit' /\ StayedListed' /\ NoData'
    BY <1>4 DEF listed, IndInv, CallsFit, StayedListed, NoData, Unread, Busy
<1>7. /\ Unread' = Unread /\ PageRead' = PageRead /\ Counted' = Counted /\ Busy' = Busy
      /\ PageStart' = PageStart /\ PageEnd' = PageEnd /\ Left' \subseteq Left
    BY <1>4 DEF Unread, PageRead, Counted, Busy, PageStart, PageEnd, Left
<1>8. /\ PageStart \in Int /\ PageEnd \in Int /\ walk.total \in Nat
      /\ \A r : Place(r) \in Nat
    BY <1>1, PageRange, PlaceRange DEF IndInv, Walk
<1>9. ~grown => \A r : Place(r)' <= Place(r) /\ Place(r)' \in Nat
    BY <1>3, PlacesFall DEF IndInv
<1>10. ~shrunk => \A r : Place(r) <= Place(r)' /\ Place(r)' \in Nat
    BY <1>3, PlacesRise DEF IndInv
<1>11. Forward'
    <2> SUFFICES ASSUME walk.link = "next", ~shrunk
                 PROVE  /\ walk.pc = "done" => Left' = {}
                        /\ Unread => \A r \in Left' : Place(r)' > PageStart
                        /\ PageRead \/ Counted => \A r \in Left' : Place(r)' > PageEnd
                        /\ Counted => \A r \in Left' : walk.total > PageEnd
        BY <1>4, <1>7 DEF Forward
    <2>1. /\ walk.pc = "done" => Left = {}
          /\ Unread => \A r \in Left : Place(r) > PageStart
          /\ PageRead \/ Counted => \A r \in Left : Place(r) > PageEnd
          /\ Counted => \A r \in Left : walk.total > PageEnd
        BY <1>3 DEF Forward, IndInv
    <2> QED  BY <1>7, <1>8, <1>10, <2>1
<1>12. Backward'
    <2> SUFFICES ASSUME walk.link = "prev", ~grown
                 PROVE  /\ walk.pc = "done" => Left' = {}
                        /\ Unread => \A r \in Left' : Place(r)' <= PageEnd
                        /\ PageRead \/ Counted => \A r \in Left' : Place(r)' <= PageStart
                        /\ Counted => \A r \in Left' : Place(r)' <= walk.total
        BY <1>4, <1>7 DEF Backward
    <2>1. /\ walk.pc = "done" => Left = {}
          /\ Unread => \A r \in Left : Place(r) <= PageEnd
          /\ PageRead \/ Counted => \A r \in Left : Place(r) <= PageStart
          /\ Counted => \A r \in Left : Place(r) <= walk.total
        BY <1>3 DEF Backward, IndInv
    <2> QED  BY <1>7, <1>8, <1>9, <2>1
<1>13. ForwardOnce'
    <2> SUFFICES ASSUME walk.link = "next", ~grown
                 PROVE  /\ FoundOnce
                        /\ Busy => \A r \in walk.seen \cap selected' : Place(r)' <= PageStart
                        /\ Busy => \A r \in walk.found \cap selected' : Place(r)' <= PageEnd
        BY <1>4, <1>7 DEF ForwardOnce, FoundOnce
    <2>1. /\ FoundOnce
          /\ Busy => \A r \in walk.seen \cap selected : Place(r) <= PageStart
          /\ Busy => \A r \in walk.found \cap selected : Place(r) <= PageEnd
        BY <1>3 DEF ForwardOnce, IndInv
    <2> QED  BY <1>3, <1>8, <1>9, <2>1
<1>14. BackwardOnce'
    <2> SUFFICES ASSUME walk.link = "prev", ~shrunk
                 PROVE  /\ FoundOnce
                        /\ Busy => \A r \in walk.seen : r \in selected' /\ Place(r)' > PageEnd
                        /\ Busy => \A r \in walk.found : r \in selected' /\ Place(r)' > PageStart
        BY <1>4, <1>7 DEF BackwardOnce, FoundOnce
    <2>1. /\ FoundOnce
          /\ Busy => \A r \in walk.seen : r \in selected /\ Place(r) > PageEnd
          /\ Busy => \A r \in walk.found : r \in selected /\ Place(r) > PageStart
        BY <1>3 DEF BackwardOnce, IndInv
    <2> QED  BY <1>3, <1>8, <1>10, <2>1
<1> QED  BY <1>5, <1>6, <1>11, <1>12, <1>13, <1>14 DEF IndInv

\* A walk begins with everything that it is to list still ahead.
LEMMA StartKeepsInv == IndInv /\ Start => IndInv'
<1> SUFFICES ASSUME IndInv, Start PROVE IndInv'  OBVIOUS
<1>1. PICK kind \in Kinds, link \in {"next", "prev"}, size \in PageSizes,
           page \in 1..(Cardinality(Records) + 1) :
        /\ link = "next" => page = 1
        /\ walk' = [pc |-> "asking", kind |-> kind, link |-> link, size |-> size, page |-> page,
                    calls |-> <<>>, found |-> {}, total |-> 0,
                    seen |-> {}, again |-> FALSE,
                    stayed |-> {r \in Listed(kind, selected, roles) :
                                  link = "prev" => Position(r, selected) <= page * size},
                    grown |-> FALSE, shrunk |-> FALSE]
    BY DEF Start
<1>2. UNCHANGED <<selected, roles>>
    BY DEF Start
<1>3. page \in Nat \ {0} /\ size \in Nat \ {0}
    <2>1. Cardinality(Records) \in Nat
        BY ListingAssumption, FS_CardinalityType
    <2> QED  BY <2>1, ListingAssumption
<1>4. walk'.stayed \subseteq Listed(kind, selected, roles) /\ walk'.stayed \subseteq selected
    BY <1>1 DEF Listed
<1>5. TypeOK'
    BY <1>1, <1>2, <1>3, <1>4, CallListsType DEF IndInv, TypeOK, Walk
<1>6. CallsFit' /\ StayedListed' /\ NoData'
    BY <1>1, <1>2, <1>4 DEF CallsFit, StayedListed, NoData
<1>7. ~PageRead' /\ ~Counted' /\ walk'.pc = "asking"
    BY <1>1 DEF PageRead, Counted
<1>8. Forward'
    <2> SUFFICES ASSUME link = "next" PROVE \A r \in Left' : Place(r)' > PageStart'
        BY <1>1, <1>7 DEF Forward
    <2>1. page - 1 = 0 /\ PageStart' = (page - 1) * size
        BY <1>1 DEF PageStart
    <2>2. PageStart' = 0
        BY <1>3, <2>1
    <2>3. \A r \in Left' : r \in selected
        BY <1>4 DEF Left
    <2>4. \A r \in selected : Place(r) > 0 /\ Place(r)' = Place(r)
        BY <1>2, PlaceRange DEF IndInv, Place
    <2> QED  BY <2>2, <2>3, <2>4
<1>9. Backward'
    <2> SUFFICES ASSUME link = "prev" PROVE \A r \in Left' : Place(r)' <= PageEnd'
        BY <1>1, <1>7 DEF Backward
    <2>1. PageEnd' = page * size
        BY <1>1 DEF PageEnd
    <2>2. \A r \in Left' : Position(r, selected) <= page * size
        BY <1>1 DEF Left
    <2> QED  BY <1>2, <2>1, <2>2 DEF Place
<1>10. ForwardOnce' /\ BackwardOnce'
    BY <1>1 DEF ForwardOnce, BackwardOnce, FoundOnce
<1> QED  BY <1>5, <1>6, <1>8, <1>9, <1>10 DEF IndInv

-----------------------------------------------------------------------------

LEMMA InitInv == Init => IndInv
<1> SUFFICES ASSUME Init PROVE IndInv  OBVIOUS
<1>1. /\ walk.pc = "idle" /\ walk.kind \in Kinds /\ walk.link = "next" /\ walk.size \in PageSizes
      /\ walk.page = 1 /\ walk.calls = <<>> /\ walk.found = {} /\ walk.total = 0 /\ walk.seen = {}
      /\ walk.again = FALSE /\ walk.stayed = {} /\ walk.grown = FALSE /\ walk.shrunk = FALSE
    BY DEF Init
<1>2. TypeOK
    <2>1. PICK kind \in Kinds, size \in PageSizes :
            walk = [pc |-> "idle", kind |-> kind, link |-> "next", size |-> size, page |-> 1,
                    calls |-> <<>>, found |-> {}, total |-> 0, seen |-> {}, again |-> FALSE,
                    stayed |-> {}, grown |-> FALSE, shrunk |-> FALSE]
        BY <1>1 DEF Init
    <2>2. <<>> \in Seq(Calls) /\ {} \in SUBSET Records /\ 1 \in Nat \ {0} /\ 0 \in Nat
        BY CallListsType
    <2>3. walk \in Walk
        BY <2>1, <2>2 DEF Walk
    <2> QED  BY <2>3 DEF Init, TypeOK
<1>3. CallsFit /\ StayedListed /\ NoData
    BY <1>1 DEF CallsFit, StayedListed, NoData
<1>4. Forward /\ Backward /\ ForwardOnce /\ BackwardOnce
    BY <1>1 DEF Forward, Backward, ForwardOnce, BackwardOnce, FoundOnce, Left
<1> QED  BY <1>2, <1>3, <1>4 DEF IndInv

LEMMA NextInv == IndInv /\ [Next]_vars => IndInv'
<1> SUFFICES ASSUME IndInv, [Next]_vars PROVE IndInv'  OBVIOUS
<1>1. CASE Serve
    BY <1>1, AdmitKeepsInv, ReadPageKeepsInv, ReadCountKeepsInv, ReadMembershipsKeepsInv,
       ReadRolesKeepsInv, AnswerPageKeepsInv DEF Serve
<1>2. CASE RecordsChange
    <2>1. Observe /\ selected' \subseteq Records /\ roles' \subseteq Records
        BY <1>2 DEF RecordsChange, IndInv, TypeOK
    <2> QED  BY <2>1, ChangesKeepInv
<1>3. CASE RolesChange
    <2>1. Observe /\ selected' \subseteq Records /\ roles' \subseteq Records
        BY <1>3 DEF RolesChange, IndInv, TypeOK
    <2> QED  BY <2>1, ChangesKeepInv
<1>4. CASE UNCHANGED vars
    BY <1>4 DEF vars, IndInv, TypeOK, CallsFit, StayedListed, NoData, Forward, Backward,
       ForwardOnce, BackwardOnce, FoundOnce, Left, Place, PageStart, PageEnd, Unread, PageRead,
       Counted, Busy
<1> QED  BY <1>1, <1>2, <1>3, <1>4, StartKeepsInv, RefuseKeepsInv DEF Next

THEOREM Invariant == Spec => []IndInv
BY InitInv, NextInv, PTL DEF Spec

\* The data, the walk and the request it waits for keep their types.
THEOREM TypeCorrect == Spec => []TypeOK
<1>1. IndInv => TypeOK  BY DEF IndInv
<1> QED  BY <1>1, Invariant, PTL

\* Whoever follows the links to the end has seen all that was listed all the
\* time, in a listing of any size, with pages of any size, unless the changes
\* moved a record over to a page that was passed.
THEOREM AllIsSeen == Spec => []NothingMissed
<1>1. IndInv => NothingMissed
    <2> SUFFICES ASSUME IndInv, walk.pc = "done",
                        IF walk.link = "next" THEN ~walk.shrunk ELSE ~walk.grown
                 PROVE  walk.stayed \subseteq walk.seen
        BY DEF NothingMissed
    <2>1. walk.link \in {"next", "prev"}  BY DEF IndInv, TypeOK, Walk
    <2>2. Left = {}  BY <2>1 DEF IndInv, Forward, Backward
    <2>3. walk.found = {}  BY DEF IndInv, NoData, Busy
    <2> QED  BY <2>2, <2>3 DEF Left
<1> QED  BY <1>1, Invariant, PTL

\* And has seen nothing twice, unless they moved one to a page still to come.
THEOREM NoneIsSeenTwice == Spec => []NothingTwice
<1>1. IndInv => NothingTwice
    <2>1. IndInv => walk.link \in {"next", "prev"}  BY DEF IndInv, TypeOK, Walk
    <2> QED  BY <2>1 DEF IndInv, NothingTwice, ForwardOnce, BackwardOnce, FoundOnce
<1> QED  BY <1>1, Invariant, PTL
=============================================================================
