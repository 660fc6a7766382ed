------------------------------- MODULE Pages -------------------------------
(***************************************************************************)
(* Walking through the library: list_view of app/routes/library.py over    *)
(* list_books of app/services/db.py, and the Next links of                 *)
(* templates/library.html.  A page is made from two reads, COUNT and       *)
(* SELECT, each of which sees what the job running beside it has written   *)
(* so far.  `shelf` holds the books that match the walk's filters, which   *)
(* the links keep; uploads add to it, and a refresh may retitle a book or  *)
(* take it out of the filter.                                              *)
(***************************************************************************)
EXTENDS SequencesExt, Integers

CONSTANTS Shelves,     \* the shelves a walk may start from
          MaxBooks,    \* books there will ever be
          MaxChanges,  \* changes of the shelf during the walk
          PageSizes,   \* values of settings.page_size, any integers
          Offered,     \* the page sizes of the search form
          MaxPerPage   \* the largest per_page that list_view accepts

ASSUME PagesAssumption ==
  /\ MaxBooks \in Nat /\ MaxChanges \in Nat /\ MaxPerPage \in Nat
  /\ \A s \in Shelves : s \in Seq(1..MaxBooks) /\ IsInjective(s)
  /\ PageSizes \subseteq Int
  /\ Offered \subseteq 1..MaxPerPage   \* 12, 24, 48, 96, of at most 200

VARIABLES shelf,     \* the matching books in the order of their titles
          changes,   \* how often it has changed
          pageSize,  \* settings.page_size
          cookie,    \* PER_PAGE_COOKIE, 0 if there is none
          sort,      \* the walk's order
          page, per, \* the page asked for, and the resolved per_page
          read,      \* what the request has read, or where the walk stands
          total,     \* list_books' total
          start,     \* history: the shelf at the start
          seen,      \* history: the books shown
          moved,     \* history: the books that left or changed place
          slid,      \* history: a place on the pages passed became empty
          torn       \* history: books came between COUNT and SELECT of this page

request   == <<sort, page, per, read, total>>
history   == <<start, seen, moved, slid, torn>>
pagesVars == <<shelf, changes, pageSize, cookie, request, history>>

NBooks == 1..MaxBooks
Stages == {"nothing", "asked", "counted", "shown", "failed", "refused", "end"}

PagesTypeOK ==
  /\ shelf \in Seq(NBooks) /\ IsInjective(shelf)
  /\ changes \in 0..MaxChanges
  /\ pageSize \in PageSizes /\ cookie \in {0} \cup Offered \cup PageSizes
  /\ sort \in {"date_added", "title"}
  /\ page \in Nat /\ per \in Int /\ read \in Stages /\ total \in 0..MaxBooks
  /\ start \subseteq NBooks /\ seen \subseteq NBooks /\ moved \subseteq NBooks
  /\ slid \in BOOLEAN /\ torn \in BOOLEAN
  /\ read # "nothing" => page > 0

PagesInit ==
  /\ shelf \in Shelves /\ changes = 0
  /\ pageSize \in PageSizes /\ cookie = 0
  /\ sort \in {"date_added", "title"}
  /\ page = 0 /\ per = 0 /\ read = "nothing" /\ total = 0
  /\ start = {} /\ seen = {} /\ moved = {}
  /\ slid = FALSE /\ torn = FALSE

\* The request for page n reaches list_view, with per_page resolved to k.
Ask(n, k) ==
  /\ page' = n /\ per' = k /\ read' = "asked" /\ torn' = FALSE
  /\ UNCHANGED <<shelf, changes, pageSize, sort, total, seen, moved, slid>>

\* The walk starts without a query: page_size unless there is a cookie.
Visit ==
  /\ read = "nothing"
  /\ Ask(1, IF cookie # 0 THEN cookie ELSE pageSize)
  /\ start' = Range(shelf)
  /\ UNCHANGED cookie

\* It starts from the search form, whose choice is remembered.
Search ==
  /\ read = "nothing"
  /\ \E k \in Offered : Ask(1, k) /\ cookie' = k
  /\ start' = Range(shelf)

\* SELECT COUNT(*)
Count ==
  /\ read = "asked"
  /\ read' = "counted"
  /\ total' = Len(shelf)
  /\ UNCHANGED <<shelf, changes, pageSize, cookie, sort, page, per, history>>

\* A book's place by _SORT_SQL: "b.sort", or "b.id DESC".
Place(b) == IF sort = "title"
              THEN CHOOSE i \in 1..Len(shelf) : shelf[i] = b
              ELSE Cardinality({n \in Range(shelf) : n >= b})

\* list_books' own per_page, which it keeps above 0, and offset
Limit  == IF per > 1 THEN per ELSE 1
Offset == (page - 1) * Limit

\* SELECT ... ORDER BY ... LIMIT ... OFFSET ..., and the page is shown.
Select ==
  /\ read = "counted" /\ per # 0
  /\ read' = "shown"
  /\ seen' = seen \cup {b \in Range(shelf) : Place(b) > Offset /\ Place(b) <= Offset + Limit}
  /\ UNCHANGED <<shelf, changes, pageSize, cookie, sort, page, per, total, start, moved, slid, torn>>

\* list_view divides by its per_page once list_books has returned.
DivideByZero ==
  /\ read = "counted" /\ per = 0
  /\ read' = "failed"
  /\ UNCHANGED <<shelf, changes, pageSize, cookie, sort, page, per, total, history>>

\* Python's //, which rounds down whatever the signs; k is not 0.
FloorDiv(n, k) == IF k > 0 THEN n \div k ELSE (-n) \div (-k)

\* total_pages, from list_view's per_page
TotalPages ==
  LET pages == FloorDiv(total + per - 1, per) IN IF pages > 1 THEN pages ELSE 1

\* Mutant: the link leaves the page size to the cookie.
LinkedPerUnsaid == IF cookie # 0 THEN cookie ELSE pageSize

\* query_str: the link names the page size that this page was made with.
LinkedPer == per

\* list_view's bounds on per_page
Accepted(k) == k >= 1 /\ k <= MaxPerPage

\* The Next link is followed, and list_view accepts its query.
FollowNext ==
  /\ read = "shown" /\ page < TotalPages
  /\ Accepted(LinkedPer)
  /\ Ask(page + 1, LinkedPer)
  /\ cookie' = LinkedPer
  /\ UNCHANGED start

\* It answers 422.
NextRefused ==
  /\ read = "shown" /\ page < TotalPages
  /\ ~Accepted(LinkedPer)
  /\ read' = "refused"
  /\ UNCHANGED <<shelf, changes, pageSize, cookie, sort, page, per, total, history>>

\* There is no Next link.
LastPage ==
  /\ read = "shown" /\ page >= TotalPages
  /\ read' = "end"
  /\ UNCHANGED <<shelf, changes, pageSize, cookie, sort, page, per, total, history>>

\* Another tab of the browser chooses a page size.
OtherTab ==
  /\ cookie' \in Offered \ {cookie}
  /\ UNCHANGED <<shelf, changes, pageSize, request, history>>

\* The walk goes on while the shelf changes.
Change ==
  /\ read \in {"asked", "counted", "shown"} /\ changes < MaxChanges
  /\ changes' = changes + 1
  /\ UNCHANGED <<pageSize, cookie, request, start, seen>>

\* An upload adds a book, or a refresh lets one in; its title gives its place.
ComeIn ==
  /\ Change
  /\ \E n \in NBooks \ Range(shelf), i \in 1..(Len(shelf) + 1) : shelf' = InsertAt(shelf, i, n)
  /\ torn' = (torn \/ read = "counted")
  /\ UNCHANGED <<moved, slid>>

\* The number of places on the pages that the walk has passed.
Passed == IF read = "shown" THEN Offset + Limit ELSE Offset

\* A refresh gives a book another title.
Retitle ==
  /\ Change
  /\ \E i, k \in 1..Len(shelf) :
       /\ i # k
       /\ shelf' = InsertAt(RemoveAt(shelf, i), k, shelf[i])
       /\ IF sort = "title"
            THEN /\ moved' = moved \cup {shelf[i]}
                 /\ slid' = (slid \/ (i <= Passed /\ k > Passed))
            ELSE UNCHANGED <<moved, slid>>
  /\ UNCHANGED torn

\* A refresh changes what the filters ask for.
LeaveFilter ==
  /\ Change
  /\ \E i \in 1..Len(shelf) :
       /\ shelf' = RemoveAt(shelf, i)
       /\ moved' = moved \cup {shelf[i]}
       /\ slid' = (slid \/ Place(shelf[i]) <= Passed)
  /\ UNCHANGED torn

PagesNext ==
  \/ Visit \/ Search \/ Count \/ Select \/ DivideByZero
  \/ FollowNext \/ NextRefused \/ LastPage
  \/ OtherTab \/ ComeIn \/ Retitle \/ LeaveFilter

-----------------------------------------------------------------------------
Missed == (start \cap Range(shelf)) \ seen

\* Whoever follows the Next links to the end has been shown every book of the
\* shelf, whatever is added meanwhile and whatever page size other tabs choose
\* (db.py:212-225, library.py:52-84): unless the book changed place, one before
\* it went away, or one came between the two reads of the last page, or the walk
\* began with a setting below 1, which list_books raises to 1 and the count of the
\* pages takes as it is (db.py:215, library.py:65).  The application refuses a
\* link of its own, or fails on a page, only when it is configured with more books
\* to a page than it accepts, or fewer than one (library.py:26-30, 48-49, 65, 80;
\* config.py:34).
WalkMissesNothing ==
  /\ PagesTypeOK
  /\ read = "end" /\ per >= 1 /\ ~slid /\ ~torn => Missed \subseteq moved
  /\ read = "refused" => per = pageSize /\ ~Accepted(pageSize)
  /\ read = "failed" => per = pageSize /\ pageSize = 0
  /\ read = "end" /\ per < 1 => per = pageSize /\ page = 1
=============================================================================
