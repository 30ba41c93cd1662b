---------------------------- MODULE RecordStore ----------------------------
(***************************************************************************)
(* How the store answers a filter (rust/ceres-database/src/store.rs): a    *)
(* listing under a subtree selector first discovers the addresses that     *)
(* carry records, one index seek after the other, and then runs one seek   *)
(* per address.  Writers and deletes of other clients come in between.     *)
(***************************************************************************)
EXTENDS Filters

CONSTANTS
  Row,        \* the rows that may be written, each with an id of its own
  Wire,       \* the wire filters that may be asked
  Changing,   \* the wire filters of deletes and updates
  Sets,       \* the values of updates, functions of columns
  LimitCap,   \* RecordTable::listing_cap
  Rank,       \* the code point order of the addresses
  BranchCap,  \* BRANCH_CAP
  MaxRows     \* bound: rows in the table

Addresses == {r.address : r \in Row}

\* The rows, and the values they may be set to, are of their columns' types.
Columns == {"id", "address", "ts", "level", "text"}

ASSUME StoreAssumption ==
  /\ \A r \in Row : /\ DOMAIN r = Columns
                    /\ r.address \in Seq(STRING) /\ r.ts \in Int
                    /\ r.level \in 1..Levels /\ (r.text = None \/ IsText(r.text))
  /\ \A w \in Wire \cup Changing : TypedWire(w)
  /\ \A set \in Sets : /\ "address" \in DOMAIN set => set["address"] \in Addresses
                       /\ "ts" \in DOMAIN set => set["ts"] \in Int
  /\ LimitCap \in Nat /\ BranchCap \in Nat /\ MaxRows \in Nat

\* What a client's filter is to the store: the command line takes it as it is parsed, a
\* listing route caps it.
Parsed == [w \in Wire \cup Changing |-> Parse(w)]
Asked == {Parsed[w] : w \in Wire}
Listed == Asked \cup {WithLimitCap(n, LimitCap) : n \in Asked}

\* The range of an unbounded scope, with neither floor nor ceiling.
Everything == [path |-> <<>>, anchored |-> TRUE, modifier |-> "all"]

\* The addresses under a prefix are one range of the order, which is what walk_distinct
\* relies on.
ASSUME RankAssumption ==
  /\ Rank \in [Addresses -> Nat]
  /\ \A a, b \in Addresses : Rank[a] = Rank[b] => a = b
  /\ \A a, b, c \in Addresses : \A n \in 1..Len(a) :
       /\ Below(SubSeq(a, 1, n), a) /\ Below(SubSeq(a, 1, n), c)
       /\ Rank[a] < Rank[b] /\ Rank[b] < Rank[c]
       => Below(SubSeq(a, 1, n), b)

VARIABLES
  stored,   \* the rows of a record table
  query,    \* the parsed filter of the request being answered
  phase,   \* "idle", "walk", "fetch", "done", "counted", "told" or "refused"
  ranges,  \* the segments whose prefixes discover_branches has not finished
  range,   \* the one walk_distinct is in, or None
  cursor,  \* the last address found there, or None
  found,   \* the branches discovered
  length,  \* how many were pushed, one reached by two ranges counting twice
  hops,    \* how many of them in this range
  page,    \* the rows, the count or the truth that is the answer
  stayed,  \* history: the rows there since the request began
  short    \* history: the walk stopped at the cap with fewer distinct branches than that

walk == <<ranges, range, cursor, found, length, hops>>
storeVars == <<stored, query, phase, walk, page, stayed, short>>

StoreInit ==
  /\ stored = {}
  /\ query = None
  /\ phase = "idle"
  /\ ranges = {} /\ range = None /\ cursor = None /\ found = {} /\ length = 0 /\ hops = 0
  /\ page = {} /\ stayed = {} /\ short = FALSE

\* Writers of other clients.
Insert(r) ==
  /\ phase \in {"idle", "walk", "fetch"}
  /\ Cardinality(stored) < MaxRows
  /\ \A x \in stored : x.id # r.id
  /\ stored' = stored \cup {r}
  /\ UNCHANGED <<query, phase, walk, page, stayed, short>>

\* Schema::set_clauses: the columns that identify a row cannot be set.
Fixed == {"id"}
Encoded(set) == IF \A c \in DOMAIN set : c \in Columns /\ (c = "level" => set[c] \in 1..Levels)
                THEN set ELSE Refused
SetClauses(set) == IF DOMAIN set = {} \/ DOMAIN set \cap Fixed # {} THEN Refused ELSE Encoded(set)

\* delete_matches and update_matches: a page, when there is one, names the keys; limit 0
\* answers before the database is asked.
Write(n, tables) ==
  /\ phase \in {"idle", "walk", "fetch"}
  /\ n # Refused
  /\ n.limit # 0
  /\ stored' \in tables
  /\ stayed' = stayed \cap stored'
  /\ UNCHANGED <<query, phase, walk, page, short>>

Delete(w) == Write(Parsed[w], DeleteStatement(Parsed[w], stored))
Update(w, set) ==
  /\ SetClauses(set) # Refused
  /\ Write(Parsed[w], UpdateStatement(Parsed[w], SetClauses(set), stored))

RefuseUpdate(set) ==
  /\ SetClauses(set) = Refused
  /\ phase' = "refused"
  /\ UNCHANGED <<stored, query, walk, page, stayed, short>>

\* fetch_filter and stream_matches up to the first query.
Refuse(n) ==
  /\ n = Refused
  /\ phase' = "refused"
  /\ UNCHANGED <<stored, query, walk, page, stayed, short>>

Request(n) ==
  LET scope == ExpansionScope(n)
  IN  /\ n # Refused
      /\ query' = n
      /\ stayed' = stored
      /\ phase' = CASE n.limit = 0 -> "done"
                    [] n.limit # 0 /\ scope = None -> "fetch"
                    [] OTHER -> "walk"
      /\ IF phase' # "walk" THEN UNCHANGED walk
         ELSE /\ ranges' = IF scope.unbounded THEN {Everything} ELSE scope.walks
              /\ range' \in ranges'
              /\ found' = IF scope.unbounded THEN {} ELSE scope.literals
              /\ length' = IF scope.unbounded THEN 0 ELSE scope.pushed
              /\ UNCHANGED <<cursor, hops>>
      /\ UNCHANGED <<stored, page, short>>

\* count_matches and any_matches: limit 0 is answered at once.
CountMatches(n) ==
  /\ n # Refused
  /\ query' = n
  /\ page' \in IF n.limit = 0 THEN {0} ELSE CountStatement(n, stored)
  /\ phase' = "counted"
  /\ UNCHANGED <<stored, walk, stayed, short>>

AnyMatches(n) ==
  /\ n # Refused
  /\ query' = n
  /\ page' = (n.limit # 0 /\ ExistsStatement(n, stored))
  /\ phase' = "told"
  /\ UNCHANGED <<stored, walk, stayed, short>>

\* walk_distinct: SELECT min(address) past the cursor, below the range's ceiling, until
\* nothing is left or the range alone is past the cap.
InRange(a) == range = Everything \/ Below(range.path, a)
Ahead == {r.address : r \in {x \in stored :
            InRange(x.address) /\ (cursor # None => Rank[x.address] > Rank[cursor])}}

Hop ==
  /\ phase = "walk"
  /\ range # None
  /\ hops <= BranchCap
  /\ Ahead # {}
  /\ LET next == CHOOSE a \in Ahead : \A b \in Ahead : Rank[a] <= Rank[b]
     IN  found' = found \cup {next} /\ cursor' = next
  /\ length' = length + 1 /\ hops' = hops + 1
  /\ UNCHANGED <<stored, query, phase, ranges, range, page, stayed, short>>

\* discover_branches: the next range, unless what was pushed is past the cap.

RangeDone ==
  /\ phase = "walk"
  /\ range # None
  /\ Ahead = {} \/ hops > BranchCap
  /\ ranges' = IF length > BranchCap THEN {} ELSE ranges \ {range}
  /\ range' \in IF ranges' = {} THEN {None} ELSE ranges'
  /\ short' = (ranges' # ranges \ {range} /\ Cardinality(found) <= BranchCap)
  /\ cursor' = None /\ hops' = 0
  /\ UNCHANGED <<stored, query, phase, found, length, page, stayed>>

\* listing_statement: nothing found, or too much, is answered by the plain statement.
Choose(branches) ==
  IF branches = {} \/ Cardinality(branches) > BranchCap THEN {} ELSE branches

Discovered ==
  /\ phase = "walk"
  /\ range = None
  /\ phase' = "fetch"
  /\ found' = Choose(found)
  /\ length' = 0
  /\ UNCHANGED <<stored, query, ranges, range, cursor, hops, page, stayed, short>>

Fetch ==
  /\ phase = "fetch"
  /\ phase' = "done"
  /\ page' \in IF found = {} THEN Statement(query, stored)
               ELSE StatementOver(query, stored, found)
  /\ UNCHANGED <<stored, query, walk, stayed, short>>

Answered ==
  /\ phase \in {"done", "counted", "told", "refused"}
  /\ phase' = "idle"
  /\ query' = None /\ found' = {} /\ page' = {} /\ stayed' = {} /\ short' = FALSE
  /\ UNCHANGED <<stored, ranges, range, cursor, length, hops>>

\* The client whose listings are followed asks one thing after the other.
Ask ==
  /\ phase = "idle"
  /\ \/ \E n \in Listed : Refuse(n) \/ Request(n)
     \/ \E n \in Asked : CountMatches(n) \/ AnyMatches(n)
     \/ \E set \in Sets : RefuseUpdate(set)

StoreNext ==
  \/ \E r \in Row : Insert(r)
  \/ Ask
  \/ \E w \in Changing : Delete(w) \/ \E set \in Sets : Update(w, set)
  \/ Hop \/ RangeDone \/ Discovered \/ Fetch \/ Answered

StoreSpec == StoreInit /\ [][StoreNext]_storeVars
-----------------------------------------------------------------------------
Owns(n) == {n.own} \cup {n.and[i] : i \in DOMAIN n.and} \cup {n.or[i] : i \in DOMAIN n.or}

Sampled(n) == \E own \in Owns(n) : Has(own, "subsample") \/ Has(own, "subsample_every")

\* A pattern of LIKE that holds its escape character, which like_escape leaves alone.
CaretedOwn(own) ==
  /\ Has(own, "text") /\ own["text"].like
  /\ \E p \in own["text"].patterns : \E i \in DOMAIN p : p[i] = "^"
Careted(n) == \E own \in Owns(n) : CaretedOwn(own)

\* Nothing but empty patterns, which the SQL takes to match NULL.
BlankOwn(own) == Has(own, "text") /\ \A p \in own["text"].patterns : p = <<>>
Blank(n) == \E own \in Owns(n) : BlankOwn(own)

\* A node whose only content is an `or` group: Matches and Condition part there.
OnlyOr(n) ==
  n.or # <<>> /\ \A own \in {n.own} \cup {n.and[i] : i \in DOMAIN n.and} : Conditions(own) = {}

\* The matcher that filters live streams and the SQL that filters queries agree on every
\* record (FilterNode::matches, combined_conditions).  They do not for a filter that consists
\* of an `or` group alone, for subsampling, which is defined over a table, for a LIKE pattern
\* that holds a `^` (filter.rs:2673), and for empty patterns on NULL (filter.rs:2754).
MatcherAgrees ==
  query # None /\ ~Sampled(query) /\ ~OnlyOr(query) /\ ~Careted(query) =>
    \A r \in Row : (r.text = None => ~Blank(query)) =>
      (Matches(query, r) <=> Condition(query, {}, r, TRUE))

\* Matching rows only are on the page, and a matching row that was there from the request
\* on and still is can be left out only by the limit or the offset.
Complete ==
  LET match == {r \in stored : Condition(query, stored, r, TRUE)}
      kept == stayed \cap match
      first(r) == {x \in kept : Precedes(query.order, x, r)}
  IN  /\ page \subseteq match
      /\ \A r \in kept \ page :
           \/ Cardinality(first(r)) < query.offset
           \/ /\ Cardinality(page) = query.limit
              /\ \A x \in page : ~Precedes(query.order, r, x)

\* Whatever is written between the seeks of a listing, its page is complete, unless
\* overlapping ranges pushed the walk past the cap (discover_branches, statement_over
\* against statement); a count and an existence check of the same filter, which compile
\* to statements of their own, say what a listing of that moment would hold.
NoneMissed ==
  /\ phase = "done" /\ query.limit # 0 /\ ~short => Complete
  /\ phase = "counted" => \A p \in Statement(query, stored) : Cardinality(p) = page
  /\ phase = "told" => \A p \in Statement(query, stored) : page <=> p # {}
=============================================================================
