----------------------------- MODULE QueryLists -----------------------------
(***************************************************************************)
(* The paged lists of queries and clients that the web interface reads     *)
(* (GET /api/domain and GET /api/client, db.rs and http_server_api.rs)     *)
(* while rows are inserted by the query pipeline and deleted by other      *)
(* requests.  The two lists differ in four ways, so that one module models *)
(* both and table, fixed at the start, tells which one is read:            *)
(*   - domain rows are always new (AUTOINCREMENT), a client is updated in  *)
(*     place when it is known and otherwise takes the largest id plus one; *)
(*   - an unfiltered domain list is ordered by time, a client list by id;  *)
(*   - only the domain list turns its order round for order=asc;           *)
(*   - only domain rows can be deleted before a time.                      *)
(* key stands for the value of an equality filter (client, group, reply    *)
(* code, address...), like for a pattern filter on the domain name, which  *)
(* leaves the order by time.                                               *)
(***************************************************************************)
EXTENDS Integers, Sequences, FiniteSets, SequencesExt, FiniteSetsExt

CONSTANTS Keys,       \* values a row can be filtered by; for clients, who it is
          PageSizes,  \* the page sizes a reader asks for
          MaxId,      \* bound: ids given out
          MaxTime     \* bound: the clock

ASSUME ListsAssumption ==
          /\ Keys # {}
          /\ PageSizes # {} /\ PageSizes \subseteq Nat \ {0}
          /\ MaxId \in Nat /\ MaxTime \in Nat \ {0}

None == 0     \* an optional request parameter that is not given

VARIABLES table,    \* "domain" or "client"
          rows,     \* the rows of the table
          last_id,  \* sqlite_sequence: the largest id ever given (domain)
          now,      \* the clock of the inserted rows
          browse    \* the reader: request, page shown, and what it has seen

vars == <<table, rows, last_id, now, browse>>

Row == [id : 1..MaxId, ts : 1..MaxTime, key : Keys]
Ids(R) == {r.id : r \in R}
-----------------------------------------------------------------------------
(***************************************************************************)
(* The query.                                                              *)
(***************************************************************************)
\* a cursor is built when an id or a total count is given
HasCursor(p) == p.cursor # None \/ p.total # -1
Asc(p)       == p.order = "asc"                             \* is_cursor_prev
DescOrder(p) == ~(HasCursor(p) /\ p.direction = "prev")     \* is_desc_order

\* the time bounds that a cursor id takes the place of
BeforeByCursor(p) == p.before # None /\ p.cursor # None /\ (DescOrder(p) \/ Asc(p))
AfterByCursor(p)  == p.after # None /\ p.cursor # None /\ (~DescOrder(p) \/ Asc(p))
CursorAlone(p)    == p.cursor # None /\ ~BeforeByCursor(p) /\ ~AfterByCursor(p)

IdBelow(p) == BeforeByCursor(p) \/ (CursorAlone(p) /\ Asc(p) # DescOrder(p))
IdAbove(p) == AfterByCursor(p)  \/ (CursorAlone(p) /\ Asc(p) = DescOrder(p))

\* the WHERE clause
Where(p, r) == /\ p.key \in {None, r.key}
               /\ p.before # None /\ ~BeforeByCursor(p) => r.ts <= p.before
               /\ p.after # None /\ ~AfterByCursor(p)   => r.ts >= p.after
               /\ IdBelow(p) => r.id < p.cursor
               /\ IdAbove(p) => r.id > p.cursor

\* the ORDER BY clause
OrderTimestampFirst(p) == /\ table = "domain" /\ p.cursor = None
                          /\ p.key = None \/ p.like
\* mutant: order=asc never turns the order of the queries round
OrderDescUnturned(p) == DescOrder(p)
OrderDesc(p) == IF table = "domain" THEN DescOrder(p) # Asc(p) ELSE DescOrder(p)
Less(p, a, b) == IF OrderTimestampFirst(p) /\ a.ts # b.ts THEN a.ts < b.ts
                                                          ELSE a.id < b.id
OrderBy(p, a, b) == IF OrderDesc(p) THEN Less(p, b, a) ELSE Less(p, a, b)

\* mutant: pages counted from zero
OffsetFromZero(p) == IF p.cursor # None THEN 0 ELSE p.page_num * p.page_size
Offset(p) == IF p.cursor # None THEN 0 ELSE (p.page_num - 1) * p.page_size

Selected(p) == {r \in rows : Where(p, r)}

\* the members of S one after another, in the order that the pairs of R give
Listing(S, R) == CHOOSE q \in [1..Cardinality(S) -> S] :
                     \A i, j \in 1..Cardinality(S) : i < j => <<q[i], q[j]>> \in R

Sorted(p)   == Listing(Selected(p), {w \in rows \X rows : OrderBy(p, w[1], w[2])})
Limited(p)  == SubSeq(Sorted(p), Offset(p) + 1,
                      Min({Len(Sorted(p)), Offset(p) + p.page_size}))
\* mutant: the page before is left in the order of its query
GetListUnreversed(p) == Limited(p)
GetList(p) == IF HasCursor(p) /\ p.direction = "prev" THEN Reverse(Limited(p)) ELSE Limited(p)

GetListCount(p) == Cardinality(Selected(p))
TotalPage(count, size) == count \div size + (IF count % size # 0 THEN 1 ELSE 0)
-----------------------------------------------------------------------------
(***************************************************************************)
(* The writers.  watched is the part of the first page's selection that no *)
(* write has touched since, top_deleted whether the client of the largest  *)
(* id was deleted since the page was read.                                 *)
(***************************************************************************)
MaxOf(S) == IF S = {} THEN 0 ELSE Max(S)
\* mutant: ids of queries used again too
NewIdMax == MaxOf(Ids(rows)) + 1
NewId == IF table = "domain" THEN last_id + 1 ELSE MaxOf(Ids(rows)) + 1

\* insert_domain, insert_client: the time is that of the query, which ends later
Insert(key, ts) ==
    LET known == {r \in rows : table = "client" /\ r.key = key}
    IN  /\ IF known = {}
             THEN /\ NewId <= MaxId
                  /\ rows' = rows \cup {[id |-> NewId, ts |-> ts, key |-> key]}
                  /\ last_id' = NewId
             ELSE /\ rows' = (rows \ known) \cup {[r EXCEPT !.ts = ts] : r \in known}
                  /\ UNCHANGED last_id
        /\ browse' = [browse EXCEPT !.watched = @ \ Ids(known)]
        /\ UNCHANGED <<table, now>>

DeleteRows(R) ==
    /\ rows' = rows \ R
    /\ browse' = [browse EXCEPT !.watched = @ \ Ids(R),
                                !.top_deleted = @ \/ MaxOf(Ids(rows)) \in Ids(R)]
    /\ UNCHANGED <<table, last_id, now>>

\* delete_domain_by_id, delete_client_by_id: the reader deletes a row it is shown
DeleteById(i) ==
    /\ i \in DOMAIN browse.page
    /\ DeleteRows({r \in rows : r.id = browse.page[i].id})

\* delete_client_by_id of another reader
DeleteOther(id) == id \in Ids(rows) /\ DeleteRows({r \in rows : r.id = id})

\* delete_domain_before_timestamp
DeleteBefore(time) ==
    /\ table = "domain"
    /\ \E r \in rows : r.ts <= time
    /\ DeleteRows({r \in rows : r.ts <= time})

Tick == now < MaxTime /\ now' = now + 1 /\ UNCHANGED <<table, rows, last_id, browse>>
-----------------------------------------------------------------------------
(***************************************************************************)
(* The reader.  The list and its count are two queries; a cursor brings    *)
(* the count along instead.                                                *)
(***************************************************************************)
Nobody == [pc |-> "idle", page |-> << >>, seen |-> {}, watched |-> {},
           twice |-> FALSE, ordered |-> FALSE, top_deleted |-> FALSE,
           p |-> [order |-> "desc", page_num |-> 1, page_size |-> Min(PageSizes),
                  key |-> None, like |-> FALSE, before |-> None, after |-> None,
                  cursor |-> None, direction |-> "next", total |-> -1]]

\* the ids are in the order of the times
Ordered(R) == \A a, b \in R : a.id < b.id => a.ts <= b.ts


\* seen and twice follow the pages read forward: going back begins them anew
Shown(p, page) ==
    LET ids   == Ids(Range(page))
        first == p.cursor = None
        back  == p.direction = "prev"
    IN  /\ browse' = [browse EXCEPT
              !.p = p, !.page = page, !.top_deleted = FALSE,
              !.pc      = IF HasCursor(p) THEN "shown" ELSE "count",
              !.seen    = IF back THEN {} ELSE IF first THEN ids ELSE @ \cup ids,
              !.twice   = ~back /\ ~first /\ (@ \/ browse.seen \cap ids # {}),
              !.ordered = IF first THEN Ordered(rows) ELSE @,
              !.watched = IF back THEN {} ELSE IF first THEN Ids(Selected(p)) ELSE @]
        /\ UNCHANGED <<table, rows, last_id, now>>

\* a request without a cursor
FirstPage(p) ==
    /\ browse.pc = "idle"
    /\ p.cursor = None /\ p.total = -1 /\ p.direction = "next"
    /\ Shown(p, GetList(p))

\* get_domain_list_count, get_client_list_count: the second query of that request
Count ==
    /\ browse.pc = "count"
    /\ browse' = [browse EXCEPT !.pc = "shown", !.p.total = GetListCount(browse.p)]
    /\ UNCHANGED <<table, rows, last_id, now>>

\* the page after, or before, the one shown
Step(direction) ==
    LET p == [browse.p EXCEPT !.direction = direction,
                 !.cursor = IF direction = "next" THEN Last(browse.page).id
                                                  ELSE Head(browse.page).id]
    IN  /\ browse.pc = "shown" /\ browse.page # << >>
        /\ Shown(p, GetList(p))

\* the reader starts again, with other parameters
Leave == /\ browse.pc = "shown"
         /\ browse' = Nobody
         /\ UNCHANGED <<table, rows, last_id, now>>
-----------------------------------------------------------------------------
\* what a reader asks for: an order, a page size, at most one filter, a window
Requests ==
    {p \in [order : {"asc", "desc"}, page_num : {1}, page_size : PageSizes,
            key : Keys \cup {None}, like : BOOLEAN,
            before : 0..MaxTime - 1, after : 0..MaxTime,
            cursor : {None}, direction : {"next"}, total : {-1}] :
        /\ p.like => p.key # None /\ table = "domain"
        /\ p.key # None => p.before = None /\ p.after = None}

ListsInit == /\ table \in {"domain", "client"}
             /\ rows = {} /\ last_id = 0 /\ now = 1
             /\ browse = Nobody

ListsNext ==
    \/ \E key \in Keys, ts \in {Max({1, now - 1}), now} : Insert(key, ts)
    \/ \E i \in DOMAIN browse.page : DeleteById(i)
    \/ \E id \in 1..MaxId : DeleteOther(id)
    \/ \E time \in 1..MaxTime : DeleteBefore(time)
    \/ \E p \in Requests : FirstPage(p)
    \/ \E direction \in {"next", "prev"} : Step(direction)
    \/ Tick \/ Count \/ Leave

ListsSpec == ListsInit /\ [][ListsNext]_vars
-----------------------------------------------------------------------------
\* The rows and the pages are well formed: no page is longer than was asked for
\* (LIMIT of get_domain_list and get_client_list).
ListsTypeOK ==
    /\ rows \subseteq Row
    /\ browse.pc \in {"idle", "count", "shown"}
    /\ browse.page \in Seq(Row) /\ Len(browse.page) <= browse.p.page_size
    /\ browse.watched \subseteq Ids(rows)
    /\ browse.p.total \in -1..MaxId

\* The orders and windows a cursor can be used with: order=asc turns the list of
\* clients no way round, and lets the cursor id stand for the wrong end of a window.
Supported(p) ==
    \/ p.order = "desc"
    \/ /\ table = "domain"
       /\ IF p.direction = "next" THEN p.before = None ELSE p.after = None

(***************************************************************************)
(* A reader that follows the cursor to a page that is not full has seen    *)
(* every row of its selection that nobody deleted or changed meanwhile,    *)
(* and no row was shown to it twice, whatever was inserted between two of  *)
(* its requests (get_domain_sql_where, get_client_sql_where).  The first   *)
(* page of an unfiltered list of queries is ordered by time and the next   *)
(* by id: there the ids must have been in the order of the times.          *)
(***************************************************************************)
OrderedByTime(p) == table = "domain" /\ (p.key = None \/ p.like)
BrowseComplete ==
    browse.pc = "shown" /\ Supported(browse.p)
                        /\ (browse.ordered \/ ~OrderedByTime(browse.p)) =>
        /\ ~browse.twice
        /\ Len(browse.page) < browse.p.page_size => browse.watched \subseteq browse.seen

(***************************************************************************)
(* A step of the cursor shows exactly the rows of the selection that come  *)
(* next after the last one shown, or just before the first one, in the     *)
(* order of the list: going back returns to what is left of the page one   *)
(* came from.  In a window of time the cursor id stands for one of its     *)
(* ends, which is right for queries whose ids are in the order of their    *)
(* times, and not for clients, whose times are those of their last query.  *)
(***************************************************************************)
Matches(p, r) == /\ p.key \in {None, r.key}
                 /\ p.before # None => r.ts <= p.before
                 /\ p.after # None => r.ts >= p.after
InOrder(p, a, b) == IF p.order = "asc" THEN a < b ELSE a > b
Neighbours(p) ==
    LET side  == {r \in rows : /\ Matches(p, r)
                               /\ IF p.direction = "next" THEN InOrder(p, p.cursor, r.id)
                                                          ELSE InOrder(p, r.id, p.cursor)}
        nearer(r) == {s \in side : IF p.direction = "next" THEN InOrder(p, s.id, r.id)
                                                           ELSE InOrder(p, r.id, s.id)}
    IN  Listing({r \in side : Cardinality(nearer(r)) < p.page_size},
                {w \in rows \X rows : InOrder(p, w[1].id, w[2].id)})
CursorExact ==
    [][(\E direction \in {"next", "prev"} : Step(direction)) =>
          LET p == browse'.p
              windowed == p.before # None \/ p.after # None
              ordered  == /\ table = "domain"
                          /\ Ordered(rows \cup Range(browse.page))
                          /\ \A r \in Range(browse.page) : Matches(p, r)
          IN  Supported(p) /\ (windowed => ordered) => browse'.page = Neighbours(p)]_vars

(***************************************************************************)
(* Pages asked for by number, 1 to the total the answer gives, show every  *)
(* row exactly once while the table does not change: each at one place of  *)
(* one page, and no page is empty (page_num, page_size and total_page of   *)
(* api_domain_get_list and api_client_get_list).                           *)
(***************************************************************************)
PagesPartition ==
    browse.pc = "shown" /\ browse.p.cursor = None /\ browse.p.total = GetListCount(browse.p) =>
        LET page(n) == GetList([browse.p EXCEPT !.page_num = n])
            pages   == TotalPage(browse.p.total, browse.p.page_size)
        IN  /\ UNION {Range(page(n)) : n \in 1..pages} = Selected(browse.p)
            /\ \A n \in 1..pages : page(n) # << >>
            /\ \A n, m \in 1..pages : \A i \in DOMAIN page(n), j \in DOMAIN page(m) :
                  page(n)[i] = page(m)[j] => n = m /\ i = j

(***************************************************************************)
(* Deleting a row of the page shown deletes that row or nothing.  For      *)
(* clients, whose ids are used again, this needs that no client with the   *)
(* largest id was deleted since the page was read.                         *)
(***************************************************************************)
DeletesShown ==
    [][\A i \in DOMAIN browse.page : DeleteById(i) /\ (table = "domain" \/ ~browse.top_deleted) =>
          \A r \in rows \ rows' : r.key = browse.page[i].key]_vars
=============================================================================
