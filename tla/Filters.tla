------------------------------ MODULE Filters ------------------------------
(***************************************************************************)
(* The record filter language (rust/ceres-database/src/filter.rs and       *)
(* selector.rs): how wire pairs parse into a tree, what a tree means to    *)
(* the in-memory matcher that filters live streams, and what it means as   *)
(* the SQL that queries, counts and deletes.                               *)
(*                                                                         *)
(* The own conditions of a node are a function from the keys that are set  *)
(* to their values.  Groups nest one level deep here.  An address is the   *)
(* sequence of its names, <<>> stands for `@` alone and Engine for `~`; a  *)
(* text is the sequence of its characters; a timestamp is a number of      *)
(* hours.  A query's answer is a set of rows: rows that tie in the order   *)
(* may come in either sequence.                                            *)
(***************************************************************************)
EXTENDS Integers, Sequences, FiniteSets

CONSTANTS
  Day,     \* hours of a day
  Levels,  \* number of levels, 1 being the least severe
  Now,     \* the clock a request resolves age-relative conditions against
  None,    \* no value
  Refused  \* a parse error

Modifiers == {"all", "children", "descendants"}
Segment == [path : Seq(STRING), anchored : BOOLEAN, modifier : Modifiers \cup {None}]

ASSUME FilterAssumption ==
  /\ Day \in Nat \ {0} /\ Levels \in Nat /\ Now \in Int
  /\ None \notin Int /\ None \notin STRING
  /\ None \notin Seq(STRING) /\ None \notin Segment

Engine == <<"~">>

MinOf(S) == CHOOSE x \in S : \A y \in S : x <= y
MaxOf(S) == CHOOSE x \in S : \A y \in S : x >= y
IsPrefixOf(p, s) == Len(p) <= Len(s) /\ SubSeq(s, 1, Len(p)) = p
Below(p, a) == a # Engine /\ IsPrefixOf(p, a) /\ Len(a) > Len(p)
-----------------------------------------------------------------------------
(* Address selectors.  A segment is [path, anchored, modifier], modifier   *)
(* None for a literal.                                                     *)

\* base and absolute_segment: relative segments hang off the root.
Base(root) == IF root \in {None, Engine} THEN <<>> ELSE root
Absolute(segment, root) ==
  [segment EXCEPT !.path = IF segment.anchored THEN @ ELSE Base(root) \o @]

\* segment_matches: the in-memory reading of an absolute segment.
SegmentMatches(s, a) ==
  IF s.modifier = None THEN a = s.path
  ELSE IF s.path = Engine THEN s.modifier = "all" \/ a # Engine
  ELSE IF s.path = <<>> THEN a # Engine /\ (s.modifier = "children" => Len(a) <= 1)
  ELSE \/ s.modifier = "all" /\ a = s.path
       \/ /\ Below(s.path, a)
          /\ s.modifier = "children" => Len(a) = Len(s.path) + 1

\* segment_condition: prefix patterns, one of them negated for `children`.
Prefixed(p, depth, a) == Below(p, a) /\ Len(a) >= Len(p) + depth

SegmentCondition(s, a) ==
  IF s.modifier = None THEN a = s.path
  ELSE IF s.path = Engine THEN s.modifier = "all" \/ a # Engine
  ELSE IF s.path = <<>>
    THEN IF s.modifier = "children" THEN a # Engine /\ ~(Len(a) > 1) ELSE a # Engine
  ELSE CASE s.modifier = "all" -> a = s.path \/ Prefixed(s.path, 1, a)
         [] s.modifier = "descendants" -> Prefixed(s.path, 1, a)
         [] s.modifier = "children" ->
              Prefixed(s.path, 1, a) /\ ~Prefixed(s.path, 2, a)

Selects(segments, root, a) ==
  \E s \in segments : SegmentMatches(Absolute(s, root), a)
SelectCondition(segments, root, a) ==
  \E s \in segments : SegmentCondition(Absolute(s, root), a)

\* AddressSelector::scope: literals to take and segments whose prefixes to walk; both
\* wildcards reach every address.  A literal is pushed by each of its segments.
Scope(segments, root) ==
  LET held == {Absolute(s, root) : s \in segments}
      wild == {s \in held : s.modifier # None}
  IN  [unbounded |-> \E s \in wild : s.path \in {<<>>, Engine},
       literals  |-> {s.path : s \in {h \in held : h.modifier \in {None, "all"}}},
       pushed    |-> Cardinality({s \in segments : s.modifier \in {None, "all"}}),
       walks     |-> wild]
-----------------------------------------------------------------------------
(* Patterns.  A pattern is kept as the sequence of what each character of  *)
(* the text becomes, itself or its escape.  Case is left out.              *)

IsText(t) == t \in Seq(STRING)
Unescaped(text) == [i \in DOMAIN text |-> <<text[i]>>]
like_escape(text) ==
  [i \in DOMAIN text |-> IF text[i] \in {"%", "_"} THEN <<"^", text[i]>> ELSE <<text[i]>>]
glob_escape(text) ==
  [i \in DOMAIN text |-> IF text[i] \in {"[", "*", "?"} THEN <<"[", text[i], "]">>
                         ELSE <<text[i]>>]
with_wildcards(escaped, kind, wildcard) ==
  CASE kind = "contains" -> <<wildcard>> \o escaped \o <<wildcard>>
    [] kind = "prefix" -> escaped \o <<wildcard>>
    [] kind = "suffix" -> <<wildcard>> \o escaped

\* LIKE ... ESCAPE '^' as the databases read it.  like_escape leaves a `^` of the text alone,
\* so it escapes what follows: the escape of the next character, or the wildcard at the end.
LikeCharacter(c, part) == c = "%" \/ (Len(part) = 1 /\ c = "_") \/ part = <<c>>
LikePart(piece, escaped, part) ==
  LET c == piece[Len(piece)]
  IN  IF Len(piece) = 2
        THEN IF escaped THEN Len(part) > 0 /\ part[1] = "^" /\ LikeCharacter(c, Tail(part))
             ELSE part = <<c>>
      ELSE IF escaped THEN part = <<c>>
      ELSE IF c = "^" THEN part = <<>>
      ELSE LikeCharacter(c, part)

\* The places after which an escape is pending; the text can then be cut so that every
\* piece has its part of it.  A pattern that ends in an escape matches nothing.
Like(p, t) ==
  \E pending \in [0..Len(p) -> BOOLEAN] :
    /\ ~pending[0] /\ ~pending[Len(p)]
    /\ \A i \in 1..Len(p) : pending[i] = (p[i] = <<"^">> /\ ~pending[i - 1])
    /\ \E cut \in [0..Len(p) -> 0..Len(t)] :
         /\ cut[0] = 0 /\ cut[Len(p)] = Len(t)
         /\ \A i \in 1..Len(p) :
              /\ cut[i - 1] <= cut[i]
              /\ LikePart(p[i], pending[i - 1], SubSeq(t, cut[i - 1] + 1, cut[i]))

\* GLOB: a class holds one character.
GlobPart(piece, part) ==
  IF Len(piece) = 3 THEN part = <<piece[2]>>
  ELSE piece = <<"*">> \/ (Len(part) = 1 /\ piece = <<"?">>) \/ part = piece
Glob(p, t) ==
  \E cut \in [0..Len(p) -> 0..Len(t)] :
    /\ cut[0] = 0 /\ cut[Len(p)] = Len(t)
    /\ \A i \in 1..Len(p) : /\ cut[i - 1] <= cut[i]
                           /\ GlobPart(p[i], SubSeq(t, cut[i - 1] + 1, cut[i]))

\* match_text_patterns: with nothing but empty patterns everything matches, NULL too.  GLOB
\* is for SQLite and a field that does not fold case; `like` says which of the two it is.
TextCondition(op, t) ==
  \/ \A p \in op.patterns : p = <<>>
  \/ /\ t # None
     /\ \E p \in op.patterns :
          IF op.like THEN Like(with_wildcards(like_escape(p), op.kind, <<"%">>), t)
          ELSE Glob(with_wildcards(glob_escape(p), op.kind, <<"*">>), t)

\* text_matches; a record without the value has nothing to match.
TextMatches(op, t) ==
  t # None /\ \E p \in op.patterns :
    CASE op.kind = "contains" ->
           \E i \in 0..(Len(t) - Len(p)) : SubSeq(t, i + 1, i + Len(p)) = p
      [] op.kind = "prefix" -> IsPrefixOf(p, t)
      [] op.kind = "suffix" -> Len(p) <= Len(t)
                                 /\ SubSeq(t, Len(t) - Len(p) + 1, Len(t)) = p
-----------------------------------------------------------------------------
(* Time.  `own` is a node's conditions.                                    *)

Has(own, k) == k \in DOMAIN own
Get(own, k, default) == IF Has(own, k) THEN own[k] ELSE default

\* timespan_bounds: anchored after, before, or at the clock, in that precedence.
SpanStart(own) ==
  IF ~Has(own, "timespan") \/ Has(own, "after") THEN {}
  ELSE {(IF Has(own, "before") THEN own["before"] ELSE Now) - own["timespan"]}
SpanEnd(own) ==
  IF ~Has(own, "timespan") THEN {}
  ELSE IF Has(own, "after") THEN {own["after"] + own["timespan"]}
  ELSE IF Has(own, "before") THEN {} ELSE {Now}

\* window_conditions; timestamp_matches tests the same bounds one after the other.
WindowCondition(own, ts) ==
  /\ Has(own, "after") => ts >= own["after"]
  /\ Has(own, "before") => ts < own["before"]
  /\ \A start \in SpanStart(own) : ts >= start
  /\ \A end \in SpanEnd(own) : ts < end
  /\ Has(own, "max_age") => ts > Now - own["max_age"]
  /\ Has(own, "min_age") => ts <= Now - own["min_age"]

\* clock_window: a lower bound above the upper wraps around midnight.
ClockWindow(own) ==
  LET minimum == Get(own, "after_hour", 0)
      maximum == Get(own, "before_hour", Day)
  IN  [minimum |-> minimum, maximum |-> maximum, contiguous |-> minimum <= maximum]

ClockCondition(own, ts) ==
  LET w == ClockWindow(own)
      hour == ts % Day
  IN  Has(own, "after_hour") \/ Has(own, "before_hour") =>
        IF w.contiguous THEN w.minimum <= hour /\ hour < w.maximum
        ELSE w.minimum <= hour \/ hour < w.maximum

TimestampMatches(own, ts) ==
  LET w == ClockWindow(own)
      above == ts % Day >= w.minimum
      under == ts % Day < w.maximum
  IN  ~ \/ Has(own, "after") /\ ts < own["after"]
        \/ Has(own, "before") /\ ts >= own["before"]
        \/ \E start \in SpanStart(own) : ts < start
        \/ \E end \in SpanEnd(own) : ts >= end
        \/ Has(own, "max_age") /\ ts <= Now - own["max_age"]
        \/ Has(own, "min_age") /\ ts > Now - own["min_age"]
        \/ (Has(own, "after_hour") \/ Has(own, "before_hour"))
             /\ ~(IF w.contiguous THEN above /\ under ELSE above \/ under)

\* time_bounds: the tightest bound on each side, None where there is none.
StartOf(own) ==
  LET s == {own[k] : k \in {"after"} \cap DOMAIN own} \cup SpanStart(own)
             \cup {Now - own[k] : k \in {"max_age"} \cap DOMAIN own}
  IN  IF s = {} THEN None ELSE MaxOf(s)
EndOf(own) ==
  LET s == {own[k] : k \in {"before"} \cap DOMAIN own} \cup SpanEnd(own)
             \cup {Now - own[k] : k \in {"min_age"} \cap DOMAIN own}
  IN  IF s = {} THEN None ELSE MinOf(s)

\* divide_rounding_half_even.
HalfEven(total, divisor) ==
  LET q == total \div divisor
      r == 2 * (total % divisor)
  IN  IF r > divisor \/ (r = divisor /\ q % 2 # 0) THEN q + 1 ELSE q

Bucket(ts, origin, width) == (ts - origin) \div width

\* subsample_conditions and bucket_condition: the buckets are measured over every row of
\* the table in the time range, whatever else the filter asks for.
Kept(own, table, origin, width, ts) ==
  LET start == StartOf(own)
      end == EndOf(own)
      peers == {r.ts : r \in {x \in table :
                  /\ start # None => x.ts >= start
                  /\ end # None => x.ts < end
                  /\ Bucket(x.ts, origin, width) = Bucket(ts, origin, width)}}
  IN  /\ peers # {}
      /\ ts = IF Get(own, "subsample_select", "first") = "first"
                THEN MinOf(peers) ELSE MaxOf(peers)

Origin(own) == IF StartOf(own) # None THEN StartOf(own) ELSE Now - (Now % Day)
Width(own) == LET w == HalfEven(EndOf(own) - StartOf(own), own["subsample"])
              IN IF w < 1 THEN 1 ELSE w

SubsampleCondition(own, table, ts) ==
  /\ Has(own, "subsample_every") =>
       Kept(own, table, Origin(own), own["subsample_every"], ts)
  /\ Has(own, "subsample") => Kept(own, table, StartOf(own), Width(own), ts)
-----------------------------------------------------------------------------
(* Nodes: [own, and, or], the groups being sequences of own conditions.    *)

\* conditions_with_address: everything a node asks for, as SQL.
OwnCondition(own, table, row, address) ==
  /\ ~Get(own, "impossible", FALSE)
  /\ \A k \in {"id", "ts", "level"} \cap DOMAIN own : row[k] \in own[k]
  /\ Has(own, "min_level") => row.level \in own["min_level"]..Levels
  /\ Has(own, "max_level") => row.level \in 1..own["max_level"]
  /\ Has(own, "text") => TextCondition(own["text"], row.text)
  /\ address /\ Has(own, "address") =>
       SelectCondition(own["address"], Get(own, "root", None), row.address)
  /\ WindowCondition(own, row.ts)
  /\ SubsampleCondition(own, table, row.ts)
  /\ ClockCondition(own, row.ts)

\* The keys that add a condition: a root, and a subsample's selection, add none.
Conditions(own) == DOMAIN own \ {"root", "subsample_select"}

\* combined_conditions_with_address: an `and` group extends the conditions, an `or` group
\* stands beside them; a node without conditions adds no term to an OR.
Condition(node, table, row, address) ==
  LET ands == OwnCondition(node.own, table, row, address)
                /\ \A i \in DOMAIN node.and : OwnCondition(node.and[i], table, row, TRUE)
      some == Conditions(node.own) \cup UNION {Conditions(node.and[i]) :
                                                 i \in DOMAIN node.and}
  IN  IF node.or = <<>> THEN ands
      ELSE \/ some # {} /\ ands
           \/ \E i \in DOMAIN node.or : OwnCondition(node.or[i], table, row, TRUE)

\* FilterNode::matches_own: the conditions on one record, subsampling left out.
MatchesOwn(own, row) ==
  /\ ~Get(own, "impossible", FALSE)
  /\ \A k \in {"id", "ts", "level"} \cap DOMAIN own : row[k] \in own[k]
  /\ Has(own, "text") => TextMatches(own["text"], row.text)
  /\ Has(own, "address") => Selects(own["address"], Get(own, "root", None), row.address)
  /\ TimestampMatches(own, row.ts)
  /\ Has(own, "min_level") => ~(row.level < own["min_level"])
  /\ Has(own, "max_level") => ~(row.level > own["max_level"])

\* FilterNode::matches.
Matches(node, row) ==
  \/ MatchesOwn(node.own, row) /\ \A i \in DOMAIN node.and : MatchesOwn(node.and[i], row)
  \/ \E i \in DOMAIN node.or : MatchesOwn(node.or[i], row)
-----------------------------------------------------------------------------
(* Keys: what a table's schema makes of the name in a pair.                *)

\* The fields that filter by equality, with their families; a particle's `class` is left
\* to Python; `text` stands for the operations that search within a field.
Family == [id |-> "uuid", ts |-> "timestamp", level |-> "level", address |-> "address",
           class |-> "type"]
Delegated == {"class"}
Operations == {"text"}
Windows == {"after", "before", "timespan", "max_age", "min_age"}
Samples == {"subsample_every", "subsample", "subsample_select"}
Clocks == {"after_hour", "before_hour"}
Bounds == {"min_level", "max_level"}
Groups == {"or", "and"}
Controls == {"order", "limit", "offset"}

\* Schema::filter_keys: the keys a parser is built from.
FilterKeys ==
  LET brought(family) == CASE family = "address" -> {"root"}
                           [] family = "timestamp" -> Windows \cup Clocks \cup Samples
                           [] family = "level" -> Bounds
                           [] OTHER -> {}
  IN  Operations \cup Controls \cup Groups
        \cup UNION {{f} \cup brought(Family[f]) : f \in DOMAIN Family \ Delegated}

\* Schema::resolve: what the compiler takes a key for.
RoleOf(k) ==
  CASE k \in Controls -> "query"
    [] k \in Groups -> "group"
    [] k \in DOMAIN Family \ Delegated -> "equality"
    [] k \in Operations -> "operation"
    [] k = "root" -> "root"
    [] k \in Windows -> "window"
    [] k \in Clocks -> "clock"
    [] k \in Samples -> "subsample"
    [] k \in Bounds -> "bound"
    [] OTHER -> Refused
-----------------------------------------------------------------------------
(* Parsing.  A wire filter is [pairs, and, or], the groups being sequences *)
(* of pairs, a pair <<key, value>>; a null value, and an element of a      *)
(* group that is not a mapping, is None.                                   *)

Typed(pair) ==
  LET k == pair[1]
      v == pair[2]
  IN  /\ k \in Windows \cup Clocks \cup Bounds \cup {"limit", "offset"} => v \in Int
      /\ k = "address" => v \subseteq Segment /\ IsFiniteSet(v)
      /\ k = "root" => v \in Seq(STRING)
      /\ k = "text" => /\ DOMAIN v = {"kind", "patterns", "like"}
                       /\ v.kind \in {"contains", "prefix", "suffix"} /\ v.like \in BOOLEAN
                       /\ \A p \in v.patterns : IsText(p)
TypedPairs(pairs) ==
  /\ DOMAIN pairs \subseteq Nat /\ IsFiniteSet(DOMAIN pairs)
  /\ \A i \in DOMAIN pairs : pairs[i][2] # None => Typed(pairs[i])
TypedWire(w) ==
  /\ DOMAIN w = {"pairs", "and", "or"}
  /\ TypedPairs(w.pairs) /\ \A i \in DOMAIN w.pairs : w.pairs[i][2] # None
  /\ IsFiniteSet(DOMAIN w.and)
  /\ \A i \in DOMAIN w.and : w.and[i] # None => TypedPairs(w.and[i])
  /\ \A i \in DOMAIN w.or : w.or[i] # None => TypedPairs(w.or[i])

\* Schema::group_children and Parsed::from_yaml: a null leaves its key unset.
FromYaml(pairs) == [i \in {j \in DOMAIN pairs : pairs[j][2] # None} |-> pairs[i]]
GroupChildren(group) == [i \in DOMAIN group |-> IF group[i] = None THEN None
                                                ELSE FromYaml(group[i])]

\* The places of a key, and the first of its values.
Places(pairs, k) == {i \in DOMAIN pairs : pairs[i][1] = k}
Values(pairs, k) == {pairs[i][2] : i \in Places(pairs, k)}
First(pairs, k) == pairs[MinOf(Places(pairs, k))][2]
Keys(pairs) == {pairs[i][1] : i \in DOMAIN pairs}

\* parse_duration: there is no negative one.
Duration(v) == v >= 0

\* The values Parsed::apply refuses.
Invalid(pair) ==
  LET k == pair[1]
      v == pair[2]
  IN  \/ RoleOf(k) = Refused
      \/ k = "level" /\ ~(v \subseteq 1..Levels)
      \/ RoleOf(k) = "bound" /\ v \notin 1..Levels
      \/ RoleOf(k) = "clock" /\ v \notin 0..Day
      \/ k \in {"timespan", "subsample_every", "subsample"} /\ ~(Duration(v) /\ v >= 1)
      \/ k \in {"max_age", "min_age"} /\ ~Duration(v)
      \/ k \in {"limit", "offset"} /\ v < 0

\* Parsed::apply: a field, and an operation, collects its values, and an empty list
\* matches nothing; orders follow one another; any other key is given once.
Single(k) == k # "order" /\ RoleOf(k) \notin {"equality", "operation"}
Repeated(pairs) == \E k \in Keys(pairs) : Single(k) /\ Cardinality(Places(pairs, k)) > 1
Empty(pairs) ==
  \E i \in DOMAIN pairs :
    \/ RoleOf(pairs[i][1]) = "equality" /\ pairs[i][2] = {}
    \/ RoleOf(pairs[i][1]) = "operation" /\ pairs[i][2].patterns = {}
Collect(pairs, k) ==
  LET given == Values(pairs, k)
  IN  CASE RoleOf(k) = "equality" -> UNION given
        [] RoleOf(k) = "operation" -> [(CHOOSE t \in given : TRUE) EXCEPT
                                          !.patterns = UNION {t.patterns : t \in given}]
        [] OTHER -> First(pairs, k)

Own(pairs) ==
  LET set == Keys(pairs) \ Controls
  IN  [k \in set \cup (IF Empty(pairs) THEN {"impossible"} ELSE {}) |->
         IF k = "impossible" THEN TRUE ELSE Collect(pairs, k)]

\* Parsed::finish: a counted subsample needs a bounded range, an `or` group carries no
\* controls, and the controls of an `and` group are hoisted: the last order, the tightest
\* limit and the deepest offset.
Unbounded(own) ==
  Has(own, "subsample") /\ (StartOf(own) = None \/ EndOf(own) = None)

Control(pairs, k) == IF Places(pairs, k) = {} THEN {} ELSE {First(pairs, k)}
Hoisted(wire, k) ==
  Control(wire.pairs, k) \cup UNION {Control(wire.and[i], k) : i \in DOMAIN wire.and}
LastOrder(wire) ==
  LET with == {i \in DOMAIN wire.and : Control(wire.and[i], "order") # {}}
  IN  IF with # {} THEN First(wire.and[MaxOf(with)], "order")
      ELSE IF Control(wire.pairs, "order") # {} THEN First(wire.pairs, "order")
      ELSE "asc"

\* The parsed filter: the tree and its controls.
Core(wire) ==
  [own |-> Own(wire.pairs),
   and |-> [i \in DOMAIN wire.and |-> Own(wire.and[i])],
   or |-> [i \in DOMAIN wire.or |-> Own(wire.or[i])],
   order |-> LastOrder(wire),
   limit |-> IF Hoisted(wire, "limit") = {} THEN None ELSE MinOf(Hoisted(wire, "limit")),
   offset |-> IF Hoisted(wire, "offset") = {} THEN 0 ELSE MaxOf(Hoisted(wire, "offset"))]

Parse(given) ==
  LET wire == [given EXCEPT !.and = GroupChildren(@), !.or = GroupChildren(@)]
      all == {wire.pairs} \cup {wire.and[i] : i \in DOMAIN wire.and}
               \cup {wire.or[i] : i \in DOMAIN wire.or}
  IN  IF \/ None \in all
         \/ \E p \in all : \/ \E i \in DOMAIN p : Invalid(p[i])
                           \/ Repeated(p) \/ Unbounded(Own(p))
         \/ \E i \in DOMAIN wire.or : Keys(wire.or[i]) \cap Controls # {}
      THEN Refused ELSE Core(wire)

\* FilterCore::with_limit_cap: what a listing route makes of it.
WithLimitCap(node, cap) ==
  CASE node = Refused -> Refused
    [] node # Refused /\ node.limit = None -> [node EXCEPT !.limit = cap]
    [] node # Refused /\ node.limit # None ->
         IF node.limit > cap THEN Refused ELSE node
-----------------------------------------------------------------------------
(* Statements.                                                             *)

Precedes(order, a, b) == IF order = "asc" THEN a.ts < b.ts ELSE a.ts > b.ts
Leading(order, part, rows) ==
  \A a \in part : \A b \in rows : Precedes(order, b, a) => b \in part

\* order_by and page: the sets of rows LIMIT and OFFSET may answer with.
Pages(rows, order, limit, offset) ==
  LET n == Cardinality(rows)
      skipped == IF offset < n THEN offset ELSE n
      taken == IF limit # None /\ limit < n - skipped THEN limit ELSE n - skipped
  IN  {p \in SUBSET rows :
         /\ Cardinality(p) = taken
         /\ \E s \in SUBSET (rows \ p) : /\ Cardinality(s) = skipped
                                         /\ Leading(order, s, rows)
                                         /\ Leading(order, s \cup p, rows)}

\* FilterCore::statement.
Matching(node, table) == {r \in table : Condition(node, table, r, TRUE)}
Statement(node, table) ==
  Pages(Matching(node, table), node.order, node.limit, node.offset)

\* FilterCore::count_statement: a page bounds the count.
HasPage(node) == node.limit # None \/ node.offset # 0
CountStatement(node, table) ==
  IF HasPage(node) THEN {Cardinality(p) : p \in Statement(node, table)}
  ELSE {Cardinality(Matching(node, table))}

\* FilterCore::exists_statement: the page without its order.
ExistsStatement(node, table) ==
  (node.limit # None => node.limit > 0) /\ Cardinality(Matching(node, table)) > node.offset

\* FilterCore::paged_keys, and what a delete or an update narrows on with it.
PagedKeys(node, table) == {{r.id : r \in p} : p \in Statement(node, table)}
Narrowed(node, table) ==
  IF HasPage(node) THEN {{r \in table : r.id \in keys} : keys \in PagedKeys(node, table)}
  ELSE {Matching(node, table)}

\* FilterCore::delete_statement and update_statement: the tables they may leave.
DeleteStatement(node, table) == {table \ p : p \in Narrowed(node, table)}
UpdateStatement(node, clauses, table) ==
  {(table \ p) \cup {[c \in DOMAIN r |-> IF c \in DOMAIN clauses THEN clauses[c] ELSE r[c]]
                      : r \in p} : p \in Narrowed(node, table)}

\* FilterCore::expansion_scope.
ExpansionScope(node) ==
  IF node.limit = None \/ node.or # <<>> \/ ~Has(node.own, "address") THEN None
  ELSE LET scope == Scope(node.own["address"], Get(node.own, "root", None))
       IN  IF scope.walks # {} \/ scope.unbounded THEN scope ELSE None

\* FilterCore::statement_over: one ordered, limited seek per admitted branch, merged.
DepthOfPage(node) == node.limit
Depth(node) == node.limit + node.offset

Admitted(node, branches) ==
  {b \in branches : Selects(node.own["address"], Get(node.own, "root", None), b)}

Seek(node, table, branch) ==
  Pages({r \in table : r.address = branch /\ Condition(node, table, r, FALSE)},
        node.order, Depth(node), 0)

StatementOver(node, table, branches) ==
  LET admitted == Admitted(node, branches)
      merged == {m \in SUBSET {r \in table : r.address \in admitted} :
                   \A b \in admitted : {r \in m : r.address = b} \in Seek(node, table, b)}
  IN  IF admitted = {} THEN Statement(node, table)
      ELSE UNION {Pages(m, node.order, node.limit, node.offset) : m \in merged}
=============================================================================
