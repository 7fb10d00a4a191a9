----------------------------- MODULE Pagination -----------------------------
(***************************************************************************)
(* A tool's listing (src/asibot/connectors/pagination.py): collect asks a  *)
(* generator for pages until it has enough, and the generator asks the     *)
(* service.  One step is one page: the request, what the generator makes   *)
(* of the answer, and what collect does with the items.  The items of the  *)
(* service are 1..count and stay as they are; the service may give fewer   *)
(* items than it is asked for, and even none while there are more.         *)
(***************************************************************************)
EXTENDS Integers, Sequences, FiniteSetsExt

CONSTANTS
    MaxCount,   \* the longest listing of the service
    Limits,     \* limits asked for; some tools do not clamp theirs
    PageSizes,  \* the most items a tool asks for in a page
    MaxPages    \* DEFAULT_MAX_PAGES

ASSUME PaginationAssumption ==
    /\ MaxCount \in Nat /\ MaxPages \in Nat \ {0}
    /\ Limits \subseteq Int /\ PageSizes \subseteq Nat \ {0}

VARIABLES
    style,    \* the generator, and for paginate_offset what it counts
    limit,    \* collect's limit
    size,     \* page_size, $top, per_page...: at most the limit, if given
    count,    \* the number of items there are
    full,     \* whether the service fills its pages
    offset,   \* current_offset; of next links and cursors, what they stand for
    page,     \* pages asked for so far
    got,      \* results
    ended     \* why the loop ended, or "no"

vars == <<style, limit, size, count, full, offset, page, got, ended>>
fixed == <<style, limit, size, count, full>>

Links == {"odata", "cursor", "salesforce"}
Styles == Links \cup {"items", "pages"}

Init ==
    /\ style \in Styles
    /\ limit \in Limits
    /\ size \in {Min({limit, s}) : s \in PageSizes} \cup IF style \in Links THEN PageSizes ELSE {}
    /\ count \in 0..MaxCount
    /\ full \in BOOLEAN
    /\ offset = IF style = "pages" THEN 1 ELSE 0
    /\ page = 0
    /\ got = <<>>
    /\ ended = "no"

----------------------------------------------------------------------------
(* The service: where a page begins and how many items it may hold.  A page *)
(* size that makes no sense is the service's to interpret.                  *)
First == IF style = "pages" THEN (offset - 1) * size ELSE offset
Left == Max({count - First, 0})
Served == IF size <= 0 THEN 0..Left
          ELSE IF full THEN {Min({size, Left})} ELSE 0..Min({size, Left})

Items(n) == [i \in 1..n |-> First + i]

(* The error of a page is logged and the listing ends.                      *)
Fail ==
    /\ ended = "no"
    /\ page' = page + 1
    /\ ended' = "error"
    /\ UNCHANGED <<fixed, offset, got>>

(* Mutant: collect stops when it has more than enough.                      *)
BadEnough(n, results) == n > 0 /\ Len(results) > limit
Enough(n, results) == n > 0 /\ Len(results) >= limit

(* A page of n items.  collect stops first, as soon as it has enough; then  *)
(* the generator, if last, or for the number of its pages; next is where    *)
(* the page after it begins.                                                *)
Take(n, last, next) ==
    /\ ended = "no"
    /\ page' = page + 1
    /\ got' = got \o Items(n)
    /\ ended' = IF Enough(n, got') THEN "enough"
                ELSE IF last THEN "last"
                ELSE IF page' = MaxPages THEN "pages" ELSE "no"
    /\ offset' = next
    /\ UNCHANGED fixed

(* An empty page ends a listing, and so does one without a next link.  Some *)
(* services give a link also on their last page.                            *)
OdataPage ==
    /\ style = "odata"
    /\ \E n \in Served, link \in BOOLEAN :
           /\ n < Left => link
           /\ Take(n, n = 0 \/ ~link, offset + n)

(* has_more is looked at where the service gives it, then the cursor.       *)
CursorPage ==
    /\ style = "cursor"
    /\ \E n \in Served, more, cursor \in BOOLEAN :
           /\ n < Left => more /\ cursor
           /\ Take(n, n = 0 \/ ~more \/ ~cursor, offset + n)

SalesforcePage ==
    /\ style = "salesforce"
    /\ \E n \in Served, done \in BOOLEAN :
           /\ n < Left => ~done
           /\ Take(n, n = 0 \/ done, offset + n)

(* Mutant: a short page does not end the listing.                           *)
BadShort(n) == n = 0

(* Mutant: a page that is just full ends it too.                            *)
BadShortToo(n) == n <= size
Short(n) == n = 0 \/ n < size

Step == IF style = "pages" THEN 1 ELSE size

(* The offset counts items or pages.  A short page ends the listing, and a  *)
(* total, where the service gives one, once as many have been seen.         *)
OffsetPage ==
    /\ style \in {"items", "pages"}
    /\ \E n \in Served, total \in BOOLEAN :
           Take(n, Short(n) \/ (total /\ Len(got) + n >= count), offset + Step)

Page == OdataPage \/ CursorPage \/ SalesforcePage \/ OffsetPage
Next == Fail \/ Page

Spec == Init /\ [][Next]_vars

(* results[:limit], which for a negative limit leaves out the last items.   *)
Answer == SubSeq(got, 1, IF limit >= 0 THEN Min({limit, Len(got)}) ELSE Len(got) + limit)

----------------------------------------------------------------------------
(* Properties *)

(* However a listing ends, and however the service cuts its pages, the tool *)
(* reports the items from the first on, in their order, none twice and none *)
(* left out.                                                                *)
PrefixOfListing == \A i \in DOMAIN Answer : Answer[i] = i

(* A service that fills its pages and does not fail is listed up to the     *)
(* limit, unless that takes more than MaxPages pages.                       *)
CompleteIfServed ==
    full /\ limit > 0 /\ ended \in {"enough", "last"} => Len(Answer) = Min({limit, count})

(* No more than MaxPages pages are asked for, and none when there is enough *)
(* already: at most the last page goes beyond the limit.                    *)
PagesBounded ==
    /\ page <= MaxPages
    /\ size > 0 => Len(got) < Max({limit, 1}) + size
=============================================================================
