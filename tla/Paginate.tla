------------------------------- MODULE Paginate --------------------------------
(***************************************************************************)
(* KalshiClient.paginate() of api/client.py: one listing read page by      *)
(* page, from a server that is honest or answers whatever it likes.  An    *)
(* honest server may close its listing with no cursor or with a cursor to  *)
(* an empty page.                                                          *)
(***************************************************************************)
EXTENDS Integers, Sequences, SequencesExt

CONSTANTS
    Item,           \* what is listed
    Listing,        \* the pages of the honest server, none of them empty
    Cursor,         \* cursors the server can send; cursor i leads to page i + 1
    Fresh,          \* names for all other cursors, of which a server has no end: each
                    \* time one is sent it stands for a cursor never sent before
    PageLimits      \* values of max_pages tried, 0 for None

ASSUME ListingAssumption == Listing \in Seq(Seq(Item) \ {<<>>})
ASSUME CursorAssumption == Cursor \subseteq Nat \ {0} /\ DOMAIN Listing \subseteq Cursor
ASSUME FreshAssumption == Fresh \intersect Nat = {}
ASSUME PageLimitsAssumption == PageLimits \subseteq Nat

NoCursor == 0

VARIABLES
    server,         \* "honest", "trailing" (honest, with a last empty page) or "hostile"
    maxPages,
    pc,             \* "reading", "done", or "failed" by an exception of request()
    cursor,         \* query["cursor"]
    seen,           \* those of Cursor seen; a fresh one never comes again
    pages,          \* counted if there is a limit, which alone reads it
    yielded,        \* items given to the caller so far
    asked           \* history: the cursor of every request

vars == <<server, maxPages, pc, cursor, seen, pages, yielded, asked>>

TypeOK ==
    /\ server \in {"honest", "trailing", "hostile"}
    /\ maxPages \in PageLimits
    /\ pc \in {"reading", "done", "failed"}
    /\ cursor \in Cursor \union Fresh \union {NoCursor}
    /\ seen \subseteq Cursor
    /\ pages \in 0..maxPages
    /\ asked \in Seq(Cursor \union {NoCursor})

Init ==
    /\ server \in {"honest", "trailing", "hostile"}
    /\ maxPages \in PageLimits
    /\ pc = "reading"
    /\ cursor = NoCursor
    /\ seen = {}
    /\ pages = 0
    /\ yielded = <<>>
    /\ asked = <<>>

--------------------------------------------------------------------------------

\* The answers the server may give to the request in hand.  Of two fresh cursors in a
\* row the names differ, as the cursors do.
Honest(last) ==
    IF cursor >= Len(Listing)
    THEN [items |-> <<>>, cursor |-> NoCursor]
    ELSE [items |-> Listing[cursor + 1],
          cursor |-> IF cursor + 1 < Len(Listing) \/ last THEN cursor + 1 ELSE NoCursor]

Answers ==
    IF server = "hostile"
    THEN [items : {<<>>, <<"item">>}, cursor : Cursor \union {NoCursor} \union (Fresh \ {cursor})]
    ELSE {Honest(server = "trailing")}

LimitReachedLate == maxPages # 0 /\ pages >= maxPages
LimitReached == maxPages # 0 /\ pages + 1 >= maxPages

NothingMoreUnseen(answer) == answer.items = <<>> \/ answer.cursor = NoCursor
NothingMore(answer) ==
    answer.items = <<>> \/ answer.cursor = NoCursor \/ answer.cursor \in seen

\* Pages asked for by fresh cursors may be endless; what they add to the histories is
\* left out.
Ask == asked' = IF cursor \in Fresh THEN asked ELSE Append(asked, cursor)
Yield(items) == yielded' = IF cursor \in Fresh THEN yielded ELSE yielded \o items

\* One page: yield its items, then stop or ask for the next.
ReadPage ==
    /\ pc = "reading"
    /\ Ask
    /\ pages' = IF maxPages = 0 THEN 0 ELSE pages + 1
    /\ \E answer \in Answers :
         /\ Yield(answer.items)
         /\ \/ /\ LimitReached \/ NothingMore(answer)
               /\ pc' = "done"
               /\ UNCHANGED <<cursor, seen>>
            \/ /\ ~(LimitReached \/ NothingMore(answer))
               /\ seen' = seen \union ({answer.cursor} \ Fresh)
               /\ cursor' = answer.cursor
               /\ UNCHANGED pc
    /\ UNCHANGED <<server, maxPages>>

\* request() raises, and so does paginate().
Fail ==
    /\ pc = "reading"
    /\ Ask
    /\ pc' = "failed"
    /\ UNCHANGED <<server, maxPages, cursor, seen, pages, yielded>>

Next == ReadPage \/ Fail

Spec == Init /\ [][Next]_vars

--------------------------------------------------------------------------------
(* Properties *)

\* No page is asked for twice, whatever cursors the server sends: a cursor
\* that comes back ends the listing, however long the cycle it closes
\* (client.py:183-185).
NoCursorTwice == IsInjective(asked)

================================================================================
