-------------------------------- MODULE Listing --------------------------------
(* GET /v0/servers and the two version routes over mcp_servers, read by a     *)
(* client that follows nextCursor while the sync loop writes the table.  A    *)
(* request is one SELECT; the enrichment blocks that decorate its rows are    *)
(* read afterwards and change neither which rows are listed nor the cursor.   *)
(*                                                                            *)
(* Server names are numbered in the order the database sorts them.  A row     *)
(* keeps what the filters look at: its version, the status column, is_latest  *)
(* and whether the timestamps inside its envelope are at or after the         *)
(* updated_since of the client.                                               *)
EXTENDS Naturals, FiniteSets, SequencesExt

CONSTANTS
  NumNames,      \* server names, 1 .. NumNames
  Rows,          \* the rows upstream may have published, a set of records
  Queries,       \* the filters of the client
  Limits,        \* the limits it may send with a request, None for no limit
  DefaultLimit,  \* DEFAULT_PAGE_LIMIT
  MaxLimit,      \* MAX_PAGE_LIMIT
  Latest,        \* the reserved version selector
  MaxChanges,    \* bound: writes of the sync loop during the walk
  None

Names == 1 .. NumNames

\* What the routes look at in a row.
Versions == {r.version : r \in Rows}
Row == [version : Versions, deleted : BOOLEAN, latest : BOOLEAN, recent : BOOLEAN]

\* Upstream gives no version the reserved name, which this code does not check.
ASSUME ListingAssumption ==
  /\ NumNames \in Nat /\ MaxChanges \in Nat
  /\ DefaultLimit \in 1 .. MaxLimit /\ MaxLimit \in Nat
  /\ Limits \subseteq Nat \cup {None}
  /\ Rows \subseteq Row
  /\ Latest \notin Versions
  /\ None \notin Rows /\ None \notin Names \X Versions

VARIABLES
  table,    \* mcp_servers: the row of each name, or None
  changes,  \* writes so far
  query,    \* the filters the client sends with every request of its walk
  at,       \* "start", "paging", "done", "refused" or "missing"
  cursor,   \* the cursor of its next request, None for the first page
  seen,     \* the <<name, version>> pairs of the pages so far
  steady,   \* names listed at the start of the walk and not written since
  fresh,    \* names of seen that have not been written since they were listed
  asked     \* the name that the refused request was about

client == <<query, at, cursor, seen, asked>>
vars == <<table, changes, client, steady, fresh>>

Status == {"start", "paging", "done", "refused", "missing"}

Init ==
  /\ table \in [Names -> Rows \cup {None}]
  /\ query \in Queries
  /\ at = "start" /\ cursor = None /\ seen = <<>> /\ asked = None
  /\ steady = {} /\ fresh = {} /\ changes = 0

--------------------------------------------------------------------------------
Present == {n \in Names : table[n] # None}

\* $1::bool OR status <> 'deleted'.  The column decides, not the envelope, in
\* which a row that is marked deleted keeps the status upstream last gave it.
Shows(n, deleted) == deleted \/ ~table[n].deleted

\* include_deleted || updated_since.is_some()
IncludesDeleted(q) == q.deleted \/ q.since

\* The WHERE clause.  search stands for the names that contain the needle.
Matches(q, n) ==
  /\ n \in Present
  /\ Shows(n, IncludesDeleted(q))
  /\ n \in q.search
  /\ \/ q.version = None
     \/ q.version = Latest /\ table[n].latest
     \/ q.version = table[n].version
  /\ q.since => table[n].recent

\* ORDER BY name, version: a name has one row, so the names order the rows.
Listed(q) ==
  LET rows == {n \in Names : Matches(q, n)}
  IN  [i \in 1 .. Cardinality(rows) |->
         CHOOSE n \in rows : Cardinality({m \in rows : m <= n}) = i]

\* cursor_token: "{name}:{version}" of a row as it is now.
Token(n) == <<n, table[n].version>>

\* normalized_limit: unwrap_or(DEFAULT_PAGE_LIMIT).clamp(1, MAX_PAGE_LIMIT).
PageLimit(l) ==
  IF l = None THEN DefaultLimit
  ELSE IF l < 1 THEN 1 ELSE IF l > MaxLimit THEN MaxLimit ELSE l

\* Positions of the row whose token is the cursor, among the filtered rows.
Positions(rows) == {i \in DOMAIN rows : Token(rows[i]) = cursor}

\* Rows are skipped up to and including the row of the cursor.
After(rows) ==
  IF cursor = None THEN rows
  ELSE SubSeq(rows, 1 + CHOOSE i \in Positions(rows) : TRUE, Len(rows))

Page(rest, limit) == SubSeq(rest, 1, IF Len(rest) > limit THEN limit ELSE Len(rest))

\* Mutant of NextCursor: it names the first row that is not on the page.
CursorOfTheRest(rest, limit) ==
  IF Len(rest) > limit THEN Token(rest[limit + 1]) ELSE None

\* One more row than the page holds is read: it only says that more follows.
NextCursor(rest, limit) ==
  IF Len(rest) > limit THEN Token(rest[limit]) ELSE None

--------------------------------------------------------------------------------
\* list_servers, the page after the cursor.
ListServers(l) ==
  LET rows == Listed(query)
      rest == After(rows)
      limit == PageLimit(l)
      page == Page(rest, limit)
  IN
  /\ at \in {"start", "paging"}
  /\ cursor = None \/ Positions(rows) # {}
  /\ seen' = seen \o [i \in DOMAIN page |-> Token(page[i])]
  /\ cursor' = NextCursor(rest, limit)
  /\ at' = IF cursor' = None THEN "done" ELSE "paging"
  /\ steady' = IF at = "start" THEN ToSet(rows) ELSE steady
  /\ fresh' = fresh \cup ToSet(page)
  /\ UNCHANGED <<table, changes, query, asked>>

\* list_servers, ApiError::InvalidCursor.
InvalidCursor ==
  /\ at = "paging"
  /\ Positions(Listed(query)) = {}
  /\ at' = "refused"
  /\ asked' = cursor[1]
  /\ UNCHANGED <<table, changes, query, cursor, seen, steady, fresh>>

\* Mutant of GetVersion: the route of one version never shows a deleted row.
GetLiveVersion(n, v, deleted) ==
  {m \in Present \cap {n} :
     Shows(m, FALSE) /\ IF v = Latest THEN table[m].latest ELSE table[m].version = v}

\* get_version: the row of the name, by exact version or by is_latest.
GetVersion(n, v, deleted) ==
  {m \in Present \cap {n} :
     Shows(m, deleted) /\ IF v = Latest THEN table[m].latest ELSE table[m].version = v}

\* list_versions: every version the mirror holds of the name.
ListVersions(n, deleted) ==
  {table[m].version : m \in {k \in Present \cap {n} : Shows(k, deleted)}}

\* The client opens a row of its listing, by its version or by way of the list
\* of versions, and is told that there is none.
NotFound(i) ==
  LET n == seen[i][1]
      v == seen[i][2]
  IN
  /\ at \in {"paging", "done"}
  /\ \/ GetVersion(n, v, IncludesDeleted(query)) = {}
     \/ v \notin ListVersions(n, IncludesDeleted(query))
  /\ at' = "missing"
  /\ asked' = n
  /\ UNCHANGED <<table, changes, query, cursor, seen, steady, fresh>>

\* A statement of the sync loop that leaves another row, or none, under n.  What
\* was written before the first page is in the choice of the initial table.
Write(n, row) ==
  /\ changes < MaxChanges
  /\ at \in {"paging", "done"}
  /\ row # table[n]
  /\ table' = [table EXCEPT ![n] = row]
  /\ changes' = changes + 1
  /\ steady' = steady \ {n}
  /\ fresh' = fresh \ {n}
  /\ UNCHANGED client

\* upsert_server overwrites every column and undeletes.
Upsert(n, row) == Write(n, row)

\* mark_deleted sets the status column and leaves the envelope as it is, its
\* version, is_latest and timestamps included.
MarkDeleted(n) ==
  n \in Present /\ Write(n, [table[n] EXCEPT !.deleted = TRUE])

\* evict removes the row.
Evict(n) == n \in Present /\ table[n].deleted /\ Write(n, None)

Next ==
  \/ \E l \in Limits : ListServers(l)
  \/ InvalidCursor
  \/ \E i \in DOMAIN seen : NotFound(i)
  \/ \E n \in Names, row \in Rows : Upsert(n, row)
  \/ \E n \in Names : MarkDeleted(n) \/ Evict(n)

Spec == Init /\ [][Next]_vars

--------------------------------------------------------------------------------
SeenNames == {seen[i][1] : i \in DOMAIN seen}

\* A walk along the cursors, whatever is written between two pages: no name is
\* listed twice, and a row that nobody writes during the walk is not passed
\* over, neither behind the cursor nor at the end.
UnchangedIsListedOnce ==
  /\ \A i, j \in DOMAIN seen : i < j => seen[i][1] < seen[j][1]
  /\ at = "paging" => \A n \in steady : n <= cursor[1] => n \in SeenNames
  /\ at = "done" => steady \subseteq SeenNames

\* A client that did nothing but copy what it was given is refused, a cursor
\* as invalid or a listed version as not found, only if the sync loop has
\* written that very row since the row was listed.
RefusedOnlyWhenChanged ==
  at \in {"refused", "missing"} => asked \notin fresh
================================================================================
