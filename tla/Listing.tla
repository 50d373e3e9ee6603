------------------------------ MODULE Listing ------------------------------
(***************************************************************************)
(* The paged lists: GET /admin/users with filters and search, /roles and   *)
(* /permissions, walked page by page by one client over the tables of      *)
(* Provisioning while they change.  A page is two statements, findMany and *)
(* count, of one $transaction at READ COMMITTED: each sees its own moment. *)
(***************************************************************************)
EXTENDS Provisioning, SequencesExt

CONSTANTS Lists,              \* subset of {"users", "roles", "permissions"}
          Rank,               \* Rank[x]: place of a name in alphabetical order
          FilterableRoles,    \* enumValues of the role filter
          Queries,            \* sequences of filters [field, value] a client sends
          PageInputs, PerPageInputs,  \* integers, or NaN: absent or no number
          NaN,
          DefaultPerPage, MaxPerPage,
          MaxSkip             \* the largest offset the database takes

ASSUME ListingAssumption ==
  /\ Lists \subseteq {"users", "roles", "permissions"}
  /\ {DefaultPerPage, MaxPerPage} \subseteq Nat \ {0} /\ DefaultPerPage <= MaxPerPage
  /\ FilterableRoles \subseteq Roles /\ MaxSkip \in Nat
  /\ Rank \in [Names -> Nat]
  /\ (PageInputs \cup PerPageInputs) \ {NaN} \subseteq Int

VARIABLE walk   \* the client's walk: the request it waits for and what it saw

listVars == <<provVars, walk>>

-----------------------------------------------------------------------------
(* Math.max(1, parseInt(...) || DEFAULT_PAGE), the default being 1. *)
ParsePage(x) == IF x = NaN \/ x < 1 THEN 1 ELSE x

(* Mutant: the lower bound is forgotten. *)
ParsePerPageUnbounded(x) ==
  IF x = NaN \/ x = 0 THEN DefaultPerPage ELSE IF x > MaxPerPage THEN MaxPerPage ELSE x

(* 0 and what is no number give the default, not the nearest bound. *)
ParsePerPage(x) ==
  IF x = NaN \/ x = 0 THEN DefaultPerPage
  ELSE IF x < 1 THEN 1 ELSE IF x > MaxPerPage THEN MaxPerPage ELSE x

(* Mutant: pages are counted from 0. *)
SkipFromZero(page, perPage) == page * perPage

Skip(page, perPage) == (page - 1) * perPage

(* coerceFilterValue for the fields of getUsersConfig: a Boolean, one of   *)
(* the roles in the list, a date or a pair of dates; 400 for all else.     *)
ValueAllowed(f) ==
  CASE f.field = "isActive" -> f.value \in BOOLEAN
    [] f.field = "role" -> f.value \in FilterableRoles
    [] f.field = "createdAt" -> f.value # NaN
    [] f.field = "search" -> f.value \subseteq Emails
    [] OTHER -> FALSE

(* parseFilterSearch refuses the query for one bad filter; of two filters  *)
(* on a field the later one stays. *)
QueryAllowed(q) == \A i \in DOMAIN q : ValueAllowed(q[i])
Kept(q) == {q[i] : i \in {j \in DOMAIN q : \A k \in j + 1 .. Len(q) : q[k].field # q[j].field}}

(* The where of findAllUsers: no code clears isActive; a search finds the  *)
(* accounts whose text contains it; a single date has neither start nor    *)
(* end, and filters nothing.                                               *)
Meets(u, f) ==
  CASE f.field = "isActive" -> f.value
    [] f.field = "role" -> <<u, f.value>> \in member
    [] f.field = "createdAt" -> Len(f.value) = 1 \/ stamp[u] \in f.value[1] .. f.value[2]
    [] f.field = "search" -> email[u] \in f.value

(* The rows of a list, as pairs of name and id: a role made again is       *)
(* another row. *)
Listed(list, filters) ==
  CASE list = "users" -> {<<u, u>> : u \in {v \in user : \A f \in filters : Meets(v, f)}}
    [] list = "roles" -> {<<n, row[n]>> : n \in {m \in Roles : row[m] # None}}
    [] list = "permissions" -> {<<k, row[k]>> : k \in {m \in Keys : row[m] # None}}

(* The orderBy: users by createdAt, the newest first, which may tie; roles *)
(* and permissions by their unique name.                                   *)
Precedes(list, x, y) ==
  IF list = "users" THEN stamp[x[1]] > stamp[y[1]] ELSE Rank[x[1]] < Rank[y[1]]

(* Rows that tie come in any order, in each statement anew. *)
Ordered(list, S) ==
  {o \in SetToSeqs(S) : \A i, j \in DOMAIN o : i < j => ~Precedes(list, o[j], o[i])}

TotalPages(total, perPage) == Max({1, (total + perPage - 1) \div perPage})

-----------------------------------------------------------------------------
(* shown[x] counts how often the walk showed row x; came and went are the  *)
(* rows that entered and left the list meanwhile.  faithful: the walk      *)
(* began on page 1 and every page was asked for with the same filters.     *)
NoWalk == [pc |-> "idle", list |-> "users", filters |-> {}, page |-> 1, perPage |-> 1,
           shown |-> << >>, came |-> {}, went |-> {}, faithful |-> FALSE]

Times(x) == IF x \in DOMAIN walk.shown THEN walk.shown[x] ELSE 0

(* A page is asked for: parsePaginationQuery and parseFilterSearch.  The   *)
(* roles and permissions take no filters.  Walks begin after the seed.     *)
Ask(list, q, pageIn, perPageIn) ==
  /\ walk.pc = "idle" /\ seed.pc = "done"
  /\ list = "users" \/ q = << >>
  /\ QueryAllowed(q)
  /\ walk' = [NoWalk EXCEPT !.pc = "findMany", !.list = list, !.filters = Kept(q),
                !.page = ParsePage(pageIn), !.perPage = ParsePerPage(perPageIn),
                !.faithful = ParsePage(pageIn) = 1]
  /\ UNCHANGED provVars

(* findMany with skip and take.  An offset the database does not take      *)
(* throws: 500. *)
FindMany ==
  LET skip == Skip(walk.page, walk.perPage) IN
  /\ walk.pc = "findMany"
  /\ IF skip > MaxSkip THEN walk' = NoWalk
     ELSE \E o \in Ordered(walk.list, Listed(walk.list, walk.filters)) :
            LET items == {o[i] : i \in DOMAIN o \cap (skip + 1 .. skip + walk.perPage)} IN
            walk' = [walk EXCEPT !.pc = "count",
                       !.shown = [x \in DOMAIN walk.shown \cup items |->
                                    Times(x) + IF x \in items THEN 1 ELSE 0]]
  /\ UNCHANGED provVars

(* count, and buildPaginatedResponse: hasNextPage. *)
Count ==
  /\ walk.pc = "count"
  /\ walk' = [walk EXCEPT !.pc =
       IF walk.page < TotalPages(Cardinality(Listed(walk.list, walk.filters)), walk.perPage)
       THEN "next" ELSE "end"]
  /\ UNCHANGED provVars

(* The next page, asked for with the filters of this one, *)
AskNext ==
  /\ walk.pc = "next"
  /\ walk' = [walk EXCEPT !.pc = "findMany", !.page = @ + 1]
  /\ UNCHANGED provVars

(* or by links.next, which names page and perPage and nothing else: a      *)
(* filtered walk goes on in the whole list.                                *)
FollowLink ==
  /\ walk.pc = "next" /\ walk.filters # {}
  /\ walk' = [walk EXCEPT !.pc = "findMany", !.page = @ + 1, !.filters = {},
                          !.faithful = FALSE]
  /\ UNCHANGED provVars

(* The client has seen enough, or a request fails. *)
Stop ==
  /\ walk.pc # "idle"
  /\ walk' = NoWalk
  /\ UNCHANGED provVars

(* The tables change under the walk. *)
Shift ==
  \E before \in {Listed(walk.list, walk.filters)}, list \in {walk.list}, fs \in {walk.filters} :
    walk' = IF walk.pc = "idle" THEN walk
            ELSE [walk EXCEPT !.came = @ \cup (Listed(list, fs)' \ before),
                              !.went = @ \cup (before \ Listed(list, fs)')]

Walking ==
  \/ \E list \in Lists, q \in Queries, p \in PageInputs, n \in PerPageInputs : Ask(list, q, p, n)
  \/ FindMany \/ Count \/ AskNext \/ FollowLink \/ Stop

Init == ProvInit /\ walk = NoWalk

(* The seed is not run again under a walk: what its upserts add to a list  *)
(* is what CreateAccount and CreateRole add.                               *)
Next ==
  \/ Walking
  \/ Seeding /\ walk.pc = "idle" /\ UNCHANGED walk
  \/ (Administering \/ Joining) /\ Shift

Spec == Init /\ [][Next]_listVars

-----------------------------------------------------------------------------
(* The types, and the window asked of the database: never more than        *)
(* MaxPerPage rows, never a negative offset, whatever the client sends.    *)
TypeOK ==
  /\ ProvTypeOK
  /\ walk.pc \in {"idle", "findMany", "count", "next", "end"}
  /\ walk.list \in Lists \cup {"users"} /\ walk.faithful \in BOOLEAN
  /\ walk.page \in Nat \ {0} /\ walk.perPage \in 1 .. MaxPerPage
  /\ \A x \in DOMAIN walk.shown : walk.shown[x] \in Nat

(* A walk that ended showed each row that was in the list all along        *)
(* exactly once, while accounts and roles came and went between its pages. *)
(* It misses a row only when one sorted before it left the list, repeats a *)
(* row only when one sorted before it arrived; and all is lost for a row   *)
(* that ties with another.                                                 *)
WalkShowsEachOnce ==
  LET l == walk.list
      now == Listed(l, walk.filters)
      Moved(x, S) == \E y \in S : Precedes(l, y, x)
      Ties(x) == \E y \in (now \cup walk.came \cup walk.went) \ {x} :
                   ~Precedes(l, x, y) /\ ~Precedes(l, y, x)
  IN walk.pc = "end" /\ walk.faithful =>
       \A x \in now \ (walk.came \cup walk.went) :
         \/ Times(x) = 1
         \/ Times(x) = 0 /\ Moved(x, walk.went)
         \/ Times(x) > 1 /\ Moved(x, walk.came)
         \/ Ties(x)
=============================================================================
