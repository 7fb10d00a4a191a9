-------------------------- MODULE PaginationProofs --------------------------
(***************************************************************************)
(* Proofs about the listings of Pagination, for services with listings of  *)
(* any length, any limits and page sizes and any number of pages.          *)
(***************************************************************************)
EXTENDS Pagination, TLAPS

ListingTypeOK ==
    /\ style \in Styles /\ full \in BOOLEAN
    /\ limit \in Int /\ size \in Int /\ count \in Nat /\ offset \in Int /\ page \in Nat
    /\ got \in Seq(Nat)
    /\ ended \in {"no", "error", "enough", "last", "pages"}

(* A page size is the tool's own or no more than the limit.                 *)
SizesOK == (limit > 0 => size > 0) /\ (style \notin Links => size <= limit)

(* The results are the first items, in their order, and some of them.       *)
GotOK == Len(got) <= count /\ \A i \in 1..Len(got) : got[i] = i

(* While the listing goes on, the next page begins where the results end,   *)
(* in whichever unit the offset counts, and there is not enough yet.        *)
GoesOn ==
    ended = "no" => /\ First = Len(got) /\ page < MaxPages
                    /\ Len(got) < limit \/ (got = <<>> /\ page = 0)

(* A service that fills its pages ends the listing where its items end.     *)
EndsWell ==
    /\ ended = "enough" => Len(got) >= limit
    /\ ended = "last" /\ full /\ limit > 0 => Len(got) = count

(* The inductive invariant.                                                 *)
IInv == ListingTypeOK /\ SizesOK /\ GotOK /\ GoesOn /\ EndsWell /\ PagesBounded

----------------------------------------------------------------------------
(* The lesser and the greater of two numbers.                               *)
LEMMA MinMaxFacts ==
    ASSUME NEW a \in Int, NEW b \in Int
    PROVE  /\ Min({a, b}) = IF a <= b THEN a ELSE b
           /\ Max({a, b}) = IF a >= b THEN a ELSE b
<1>1. \E x \in {a, b} : \A y \in {a, b} : x <= y
  OBVIOUS
<1>2. \E x \in {a, b} : \A y \in {a, b} : x >= y
  OBVIOUS
<1>3. Min({a, b}) \in {a, b} /\ \A y \in {a, b} : Min({a, b}) <= y
  BY <1>1 DEF Min
<1>4. Max({a, b}) \in {a, b} /\ \A y \in {a, b} : Max({a, b}) >= y
  BY <1>2 DEF Max
<1> QED
  BY <1>3, <1>4

(* A page holds no more than there is and, if its size makes sense, no more *)
(* than was asked for; a full one ends at its size or at the last item.     *)
LEMMA ServedFacts ==
    ASSUME IInv, ended = "no", NEW n \in Served
    PROVE  /\ First = Len(got) /\ Left = count - Len(got) /\ Left \in Nat
           /\ n \in 0..Left
           /\ size > 0 => n <= size /\ (full => n = size \/ n = Left)
<1>1. /\ First = Len(got) /\ Len(got) \in Nat /\ Len(got) <= count
      /\ count \in Nat /\ size \in Int /\ full \in BOOLEAN
  BY DEF IInv, GoesOn, GotOK, ListingTypeOK
<1>2. Left = count - Len(got) /\ Left \in Nat
  <2>1. count - First \in Int /\ 0 \in Int
    BY <1>1
  <2>2. Max({count - First, 0}) = IF count - First >= 0 THEN count - First ELSE 0
    BY <2>1, MinMaxFacts
  <2> QED
    BY <1>1, <2>2 DEF Left
<1>3. Min({size, Left}) = IF size <= Left THEN size ELSE Left
  BY <1>1, <1>2, MinMaxFacts
<1> QED
  BY <1>1, <1>2, <1>3 DEF Served

(* The elements of two sequences put together.                              *)
LEMMA ConcatFacts ==
    ASSUME NEW S, NEW s \in Seq(S), NEW t \in Seq(S)
    PROVE  /\ s \o t \in Seq(S) /\ Len(s \o t) = Len(s) + Len(t)
           /\ \A i \in 1..Len(s) : (s \o t)[i] = s[i]
           /\ \A i \in 1..Len(t) : (s \o t)[i + Len(s)] = t[i]
OBVIOUS

(* What a page adds to the results.                                         *)
LEMMA GotFacts ==
    ASSUME NEW g \in Seq(Nat), NEW n \in Nat, NEW f, f = Len(g), \A i \in 1..Len(g) : g[i] = i
    PROVE  LET h == g \o [i \in 1..n |-> f + i]
           IN h \in Seq(Nat) /\ Len(h) = Len(g) + n /\ \A i \in 1..Len(h) : h[i] = i
<1> DEFINE more == [i \in 1..n |-> f + i]
<1>1. more \in Seq(Nat) /\ Len(more) = n /\ \A i \in 1..n : more[i] = f + i
  OBVIOUS
<1> HIDE DEF more
<1>2. /\ g \o more \in Seq(Nat) /\ Len(g \o more) = Len(g) + Len(more)
      /\ \A i \in 1..Len(g) : (g \o more)[i] = g[i]
      /\ \A i \in 1..Len(more) : (g \o more)[i + Len(g)] = more[i]
  <2>1. ASSUME NEW s \in Seq(Nat), NEW t \in Seq(Nat)
        PROVE  /\ s \o t \in Seq(Nat) /\ Len(s \o t) = Len(s) + Len(t)
               /\ \A i \in 1..Len(s) : (s \o t)[i] = s[i]
               /\ \A i \in 1..Len(t) : (s \o t)[i + Len(s)] = t[i]
    BY ConcatFacts
  <2> QED
    BY <1>1, <2>1
<1>3. ASSUME NEW i \in 1..(Len(g) + n) PROVE (g \o more)[i] = i
  <2>1. CASE i <= Len(g)
    BY <1>2, <2>1
  <2>2. CASE i > Len(g)
    <3>1. i - Len(g) \in 1..n /\ (i - Len(g)) + Len(g) = i
      BY <2>2
    <3>2. (g \o more)[i] = more[i - Len(g)]
      BY <1>1, <1>2, <3>1
    <3> QED
      BY <1>1, <3>1, <3>2
  <2>3. i <= Len(g) \/ i > Len(g)
    <3>1. Len(g) \in Nat
      OBVIOUS
    <3> QED
      BY <3>1
  <2> QED
    BY <2>1, <2>2, <2>3
<1> QED
  BY <1>1, <1>2, <1>3 DEF more

(* A page keeps the invariant when an empty one is the last, when the next  *)
(* page begins where this one ends, and when a full one is the last only if *)
(* there are no more items.                                                 *)
LEMMA TakeStep ==
    ASSUME IInv, NEW n \in Served, NEW last \in BOOLEAN, NEW next \in Int, Take(n, last, next),
           n = 0 => last,
           ended' = "no" => First' = First + n,
           last /\ full /\ limit > 0 => n = Left
    PROVE  IInv'
<1>1. /\ ended = "no" /\ page' = page + 1 /\ got' = got \o Items(n) /\ offset' = next
      /\ ended' = IF Enough(n, got') THEN "enough"
                  ELSE IF last THEN "last"
                  ELSE IF page' = MaxPages THEN "pages" ELSE "no"
      /\ style' = style /\ limit' = limit /\ size' = size /\ count' = count /\ full' = full
  BY DEF Take, fixed
<1>2. /\ ListingTypeOK /\ SizesOK /\ GotOK /\ PagesBounded /\ Len(got) \in Nat
      /\ First = Len(got) /\ page < MaxPages
      /\ Len(got) < limit \/ (got = <<>> /\ page = 0)
      /\ MaxPages \in Nat
  BY <1>1, PaginationAssumption DEF IInv, GoesOn, ListingTypeOK
<1>3. /\ Left = count - Len(got) /\ Left \in Nat /\ n \in 0..Left
      /\ size > 0 => n <= size /\ (full => n = size \/ n = Left)
  BY <1>1, ServedFacts
<1>4. got' \in Seq(Nat) /\ Len(got') = Len(got) + n /\ \A i \in 1..Len(got') : got'[i] = i
  BY <1>1, <1>2, <1>3, GotFacts DEF Items, GotOK, ListingTypeOK
<1>5. limit \in Int /\ size \in Int /\ count \in Nat /\ page \in Nat /\ n \in Nat
  BY <1>2, <1>3 DEF ListingTypeOK
<1>6. ListingTypeOK'
  BY <1>1, <1>2, <1>4, <1>5 DEF ListingTypeOK
<1>7. SizesOK'
  BY <1>1, <1>2 DEF SizesOK
<1>8. GotOK'
  BY <1>1, <1>3, <1>4, <1>5 DEF GotOK
<1>9. GoesOn'
  <2>1. SUFFICES ASSUME ended' = "no"
                 PROVE  First' = Len(got') /\ page' < MaxPages' /\ Len(got') < limit'
    BY DEF GoesOn
  <2>2. n # 0 /\ ~(Len(got') >= limit) /\ page' # MaxPages
    BY <1>1, <1>3, <1>4, <2>1 DEF Enough
  <2> QED
    BY <1>1, <1>2, <1>4, <1>5, <2>1, <2>2
<1>10. EndsWell'
  <2>1. ended' = "enough" => Len(got') >= limit'
    BY <1>1, <1>4, <1>5 DEF Enough
  <2>2. ended' = "last" => last
    BY <1>1
  <2>3. ended' = "last" /\ full' /\ limit' > 0 => Len(got') = count'
    BY <1>1, <1>3, <1>4, <1>5, <2>2
  <2> QED
    BY <2>1, <2>3 DEF EndsWell
<1>11. PagesBounded'
  <2>1. Max({limit, 1}) = IF limit >= 1 THEN limit ELSE 1
    BY <1>5, MinMaxFacts
  <2>2. page' <= MaxPages
    BY <1>1, <1>2, <1>5
  <2>3. size > 0 => Len(got') < Max({limit, 1}) + size
    BY <1>2, <1>3, <1>4, <1>5, <2>1
  <2> QED
    BY <1>1, <2>2, <2>3 DEF PagesBounded
<1> QED
  BY <1>6, <1>7, <1>8, <1>9, <1>10, <1>11 DEF IInv

(* Next links, query cursors and nextRecordsUrl go on where the page ended. *)
LEMMA LinkStep ==
    ASSUME IInv, style \in Links, NEW n \in Served, NEW last \in BOOLEAN,
           Take(n, last, offset + n), n = 0 => last, last => n = 0 \/ n >= Left
    PROVE  IInv'
<1>1. ended = "no" /\ offset' = offset + n /\ style' = style
  BY DEF Take, fixed
<1>2. /\ Left \in Nat /\ n \in 0..Left
      /\ size > 0 => n <= size /\ (full => n = size \/ n = Left)
  BY <1>1, ServedFacts
<1>3. offset \in Int /\ limit \in Int /\ size \in Int /\ SizesOK
  BY DEF IInv, ListingTypeOK
<1>4. First' = First + n
  BY <1>1 DEF First, Links
<1>5. last /\ full /\ limit > 0 => n = Left
  BY <1>2, <1>3 DEF SizesOK
<1>6. offset + n \in Int
  BY <1>2, <1>3
<1> QED
  BY <1>4, <1>5, <1>6, TakeStep

(* A short page is the last; one that is full is followed by the next, at   *)
(* an offset of as many items or of one page.                               *)
LEMMA OffsetStep ==
    ASSUME IInv, OffsetPage
    PROVE  IInv'
<1>1. PICK n \in Served, total \in BOOLEAN :
         Take(n, Short(n) \/ (total /\ Len(got) + n >= count), offset + Step)
  BY DEF OffsetPage
<1> DEFINE last == Short(n) \/ (total /\ Len(got) + n >= count)
<1>2. /\ ended = "no" /\ offset' = offset + Step /\ style' = style /\ size' = size
      /\ got' = got \o Items(n)
      /\ ended' = IF Enough(n, got') THEN "enough"
                  ELSE IF last THEN "last"
                  ELSE IF page' = MaxPages THEN "pages" ELSE "no"
  BY <1>1 DEF Take, fixed
<1>3. /\ First = Len(got) /\ Left = count - Len(got) /\ Left \in Nat /\ n \in 0..Left
      /\ size > 0 => n <= size /\ (full => n = size \/ n = Left)
  BY <1>2, ServedFacts
<1>4. /\ offset \in Int /\ limit \in Int /\ size \in Int /\ count \in Nat /\ SizesOK
      /\ got \in Seq(Nat) /\ Len(got) \in Nat /\ style \notin Links
      /\ \A i \in 1..Len(got) : got[i] = i
  BY DEF IInv, ListingTypeOK, GotOK, OffsetPage, Links
<1>5. last \in BOOLEAN /\ (n = 0 => last) /\ offset + Step \in Int
  BY <1>4 DEF Short, Step
<1>6. last /\ full /\ limit > 0 => n = Left
  BY <1>3, <1>4 DEF Short, SizesOK
<1>7. ASSUME ended' = "no" PROVE First' = First + n
  <2>1. Len(got') = Len(got) + n
    BY <1>2, <1>3, <1>4, GotFacts DEF Items
  <2>2. ~Short(n) /\ n > 0 /\ Len(got) + n < limit
    BY <1>2, <1>3, <1>4, <1>7, <2>1 DEF Enough, Short
  <2>3. n = size
    BY <1>3, <1>4, <2>2 DEF Short, SizesOK
  <2>4. CASE style = "pages"
    <3>1. offset' - 1 = offset
      BY <1>2, <1>4, <2>4 DEF Step
    <3>2. First' = offset * size /\ First = (offset - 1) * size
      BY <1>2, <2>4, <3>1 DEF First
    <3>3. offset * size = (offset - 1) * size + size
      BY <1>4
    <3> QED
      BY <2>3, <3>2, <3>3
  <2>5. CASE style # "pages"
    BY <1>2, <2>3, <2>5 DEF First, Step
  <2> QED
    BY <2>4, <2>5
<1> HIDE DEF last
<1>8. Take(n, last, offset + Step)
  BY <1>1 DEF last
<1> QED
  BY <1>5, <1>6, <1>7, <1>8, TakeStep

(* The pages of the other generators; those of Graph have no short page.    *)
LEMMA PageStep ==
    ASSUME IInv, Page
    PROVE  IInv'
<1>1. ASSUME OdataPage PROVE IInv'
  <2>1. PICK n \in Served, link \in BOOLEAN :
           (n < Left => link) /\ Take(n, n = 0 \/ ~link, offset + n)
    BY <1>1 DEF OdataPage
  <2>2. style \in Links /\ ended = "no"
    BY <1>1, <2>1 DEF OdataPage, Links, Take
  <2>3. Left \in Nat /\ n \in 0..Left
    BY <2>2, ServedFacts
  <2> DEFINE last == n = 0 \/ ~link
  <2>4. last \in BOOLEAN /\ (n = 0 => last) /\ (last => n = 0 \/ n >= Left)
    BY <2>1, <2>3
  <2>5. Take(n, last, offset + n)
    BY <2>1
  <2> HIDE DEF last
  <2> QED
    BY <2>2, <2>4, <2>5, LinkStep
<1>2. ASSUME CursorPage PROVE IInv'
  <2>1. PICK n \in Served, more \in BOOLEAN, cursor \in BOOLEAN :
           (n < Left => more /\ cursor) /\ Take(n, n = 0 \/ ~more \/ ~cursor, offset + n)
    BY <1>2 DEF CursorPage
  <2>2. style \in Links /\ ended = "no"
    BY <1>2, <2>1 DEF CursorPage, Links, Take
  <2>3. Left \in Nat /\ n \in 0..Left
    BY <2>2, ServedFacts
  <2> DEFINE last == n = 0 \/ ~more \/ ~cursor
  <2>4. last \in BOOLEAN /\ (n = 0 => last) /\ (last => n = 0 \/ n >= Left)
    BY <2>1, <2>3
  <2>5. Take(n, last, offset + n)
    BY <2>1
  <2> HIDE DEF last
  <2> QED
    BY <2>2, <2>4, <2>5, LinkStep
<1>3. ASSUME SalesforcePage PROVE IInv'
  <2>1. PICK n \in Served, done \in BOOLEAN :
           (n < Left => ~done) /\ Take(n, n = 0 \/ done, offset + n)
    BY <1>3 DEF SalesforcePage
  <2>2. style \in Links /\ ended = "no"
    BY <1>3, <2>1 DEF SalesforcePage, Links, Take
  <2>3. Left \in Nat /\ n \in 0..Left
    BY <2>2, ServedFacts
  <2> DEFINE last == n = 0 \/ done
  <2>4. last \in BOOLEAN /\ (n = 0 => last) /\ (last => n = 0 \/ n >= Left)
    BY <2>1, <2>3
  <2>5. Take(n, last, offset + n)
    BY <2>1
  <2> HIDE DEF last
  <2> QED
    BY <2>2, <2>4, <2>5, LinkStep
<1> QED
  BY <1>1, <1>2, <1>3, OffsetStep DEF Page

(* A page that fails leaves the results as they are.                        *)
LEMMA FailStep ==
    ASSUME IInv, Fail
    PROVE  IInv'
<1>1. /\ ended = "no" /\ page' = page + 1 /\ ended' = "error" /\ offset' = offset /\ got' = got
      /\ style' = style /\ limit' = limit /\ size' = size /\ count' = count /\ full' = full
  BY DEF Fail, fixed
<1>2. page < MaxPages /\ page \in Nat /\ MaxPages \in Nat
  BY <1>1, PaginationAssumption DEF IInv, GoesOn, ListingTypeOK
<1>3. ListingTypeOK' /\ SizesOK' /\ GotOK'
  BY <1>1, <1>2 DEF IInv, ListingTypeOK, SizesOK, GotOK
<1>4. GoesOn' /\ EndsWell'
  BY <1>1 DEF GoesOn, EndsWell
<1>5. PagesBounded'
  BY <1>1, <1>2 DEF IInv, PagesBounded
<1> QED
  BY <1>3, <1>4, <1>5 DEF IInv

(* Nothing has been asked for: the first page begins at the first item.     *)
LEMMA InitIInv ==
    ASSUME Init
    PROVE  IInv
<1>1. limit \in Int /\ PageSizes \subseteq Nat \ {0} /\ MaxPages \in Nat \ {0}
  BY PaginationAssumption DEF Init
<1>2. size \in Int /\ SizesOK
  <2>1. CASE size \in PageSizes /\ style \in Links
    BY <1>1, <2>1 DEF SizesOK
  <2>2. CASE \E s \in PageSizes : size = Min({limit, s})
    <3>1. PICK s \in PageSizes : size = Min({limit, s})
      BY <2>2
    <3>2. s \in Int /\ s > 0
      BY <1>1
    <3>3. size = IF limit <= s THEN limit ELSE s
      BY <1>1, <3>1, <3>2, MinMaxFacts
    <3> QED
      BY <1>1, <3>2, <3>3 DEF SizesOK
  <2> QED
    BY <2>1, <2>2 DEF Init
<1>3. /\ style \in Styles /\ count \in Nat /\ full \in BOOLEAN /\ page = 0 /\ ended = "no"
      /\ offset = IF style = "pages" THEN 1 ELSE 0
      /\ got = <<>>
  BY PaginationAssumption DEF Init
<1>4. got \in Seq(Nat) /\ Len(got) = 0
  BY <1>3
<1>5. ListingTypeOK
  BY <1>1, <1>2, <1>3, <1>4 DEF ListingTypeOK
<1>6. GotOK /\ EndsWell
  BY <1>3, <1>4 DEF GotOK, EndsWell
<1>7. GoesOn
  <2>1. First = 0
    BY <1>2, <1>3 DEF First
  <2> QED
    BY <1>1, <1>3, <1>4, <2>1 DEF GoesOn
<1>8. PagesBounded
  <2>1. Max({limit, 1}) = IF limit >= 1 THEN limit ELSE 1
    BY <1>1, MinMaxFacts
  <2> QED
    BY <1>1, <1>2, <1>3, <1>4, <2>1 DEF PagesBounded
<1> QED
  BY <1>2, <1>5, <1>6, <1>7, <1>8 DEF IInv

(* The invariant holds in every reachable state.                            *)
LEMMA AlwaysIInv == Spec => []IInv
<1>1. Init => IInv
  BY InitIInv
<1>2. IInv /\ [Next]_vars => IInv'
  <2>1. CASE UNCHANGED vars
    BY <2>1 DEF IInv, ListingTypeOK, SizesOK, GotOK, GoesOn, EndsWell, PagesBounded, First, vars
  <2> QED
    BY <2>1, PageStep, FailStep DEF Next
<1> QED
  BY <1>1, <1>2, PTL DEF Spec

----------------------------------------------------------------------------
(* However a listing ends, and however the service cuts its pages, the tool *)
(* reports the items from the first on, in their order, none twice and none *)
(* left out.                                                                *)
THEOREM ListingIsPrefix == Spec => []PrefixOfListing
<1>1. IInv => PrefixOfListing
  <2>1. SUFFICES ASSUME IInv PROVE \A i \in DOMAIN Answer : Answer[i] = i
    BY DEF PrefixOfListing
  <2>2. got \in Seq(Nat) /\ limit \in Int /\ Len(got) \in Nat /\ \A i \in 1..Len(got) : got[i] = i
    BY <2>1 DEF IInv, ListingTypeOK, GotOK
  <2> DEFINE upto == IF limit >= 0 THEN Min({limit, Len(got)}) ELSE Len(got) + limit
  <2>3. upto \in Int /\ upto <= Len(got)
    BY <2>2, MinMaxFacts
  <2>4. Answer = SubSeq(got, 1, upto)
    BY DEF Answer
  <2> HIDE DEF upto
  <2>5. DOMAIN Answer = 1..upto /\ \A i \in 1..upto : Answer[i] = got[i]
    BY <2>2, <2>3, <2>4
  <2> QED
    BY <2>2, <2>3, <2>5
<1> QED
  BY <1>1, AlwaysIInv, PTL

(* A service that fills its pages and does not fail is listed up to the     *)
(* limit, unless that takes more than MaxPages pages.                       *)
THEOREM ListingIsComplete == Spec => []CompleteIfServed
<1>1. IInv => CompleteIfServed
  <2>1. SUFFICES ASSUME IInv, full, limit > 0, ended \in {"enough", "last"}
                 PROVE  Len(Answer) = Min({limit, count})
    BY DEF CompleteIfServed
  <2>2. /\ got \in Seq(Nat) /\ limit \in Int /\ count \in Nat /\ Len(got) \in Nat
        /\ Len(got) <= count /\ EndsWell
    BY <2>1 DEF IInv, ListingTypeOK, GotOK
  <2>3. /\ Min({limit, Len(got)}) = IF limit <= Len(got) THEN limit ELSE Len(got)
        /\ Min({limit, count}) = IF limit <= count THEN limit ELSE count
    BY <2>2, MinMaxFacts
  <2>4. Answer = SubSeq(got, 1, Min({limit, Len(got)}))
    <3>1. limit >= 0
      BY <2>1, <2>2
    <3> QED
      BY <3>1 DEF Answer
  <2>5. Len(Answer) = Min({limit, Len(got)})
    BY <2>1, <2>2, <2>3, <2>4
  <2> QED
    BY <2>1, <2>2, <2>3, <2>5 DEF EndsWell
<1> QED
  BY <1>1, AlwaysIInv, PTL

(* No more than MaxPages pages are asked for, and none when there is enough *)
(* already: at most the last page goes beyond the limit.                    *)
THEOREM ListingIsBounded == Spec => []PagesBounded
<1>1. IInv => PagesBounded
  BY DEF IInv
<1> QED
  BY <1>1, AlwaysIInv, PTL
=============================================================================
