----------------------------- MODULE MCDatabase -----------------------------
(***************************************************************************)
(* An instance of the record store and of the database under it; a         *)
(* behaviour is of one of the two.                                         *)
(*                                                                         *)
(* Of the store: rows at four addresses of a small tree and filters of     *)
(* every kind.  Of the database: two keys, batches of two rows, chunks of  *)
(* one; two migrations of two statements, of which one can be run again    *)
(* without failing.                                                        *)
(***************************************************************************)
EXTENDS RecordStore, Database, TLC

VARIABLE part   \* what a behaviour is about

MCRank == (<<"a">> :> 1) @@ (<<"a", "b">> :> 2) @@ (<<"a", "b", "c">> :> 3)
            @@ (<<"d", "e">> :> 4) @@ (<<"~">> :> 5)
R(id, address, ts, level, text) ==
  [id |-> id, address |-> address, ts |-> ts, level |-> level, text |-> text]
T(kind, patterns, like) == [kind |-> kind, patterns |-> patterns, like |-> like]
MCRow == {R(1, <<"a">>, 2, 1, <<"x">>), R(2, <<"a", "b">>, 1, 2, <<"x", "%">>),
          R(3, <<"a", "b", "c">>, 2, 2, <<"^", "%">>), R(4, <<"d", "e">>, 3, 1, None),
          R(5, <<"~">>, 0, 2, <<"?", "x">>), R(6, <<"a", "b">>, 5, 1, <<>>)}

S(path, anchored, modifier) ==
  [path |-> path, anchored |-> anchored, modifier |-> modifier]
Selectors == {{S(<<"a">>, TRUE, "all")}, {S(<<"a">>, TRUE, "children")},
              {S(<<"b">>, FALSE, "descendants")}, {S(<<>>, FALSE, "children")},
              {S(Engine, TRUE, "all")}, {S(Engine, TRUE, None)},
              {S(<<"d", "e">>, TRUE, None), S(<<"a", "b">>, TRUE, "all")},
              {S(<<"a">>, TRUE, "all"), S(<<"a", "b">>, TRUE, "descendants"),
               S(<<"d">>, TRUE, "children")}}
Scoped == {<< <<"address", s>> >> : s \in Selectors}
Rooted == {<< <<"address", s>>, <<"root", <<"a">> >>, <<"limit", 1>>, <<"offset", 1>> >> :
             s \in Selectors}
Paged == {<<>>, << <<"limit", 1>> >>, << <<"limit", 1>>, <<"offset", 1>> >>,
          << <<"limit", 2>>, <<"order", "desc">> >>, << <<"limit", 0>> >>,
          << <<"offset", 1>> >>}
Timed == {<< <<"after", 1>>, <<"timespan", 2>> >>, << <<"before", 3>>, <<"timespan", 2>> >>,
          << <<"timespan", 3>> >>, << <<"max_age", 3>>, <<"min_age", 1>> >>,
          << <<"after_hour", 3>>, <<"before_hour", 2>> >>, << <<"before_hour", 2>> >>,
          << <<"after", 1>>, <<"after", 2>> >>}
Sampling == {<< <<"subsample_every", 2>> >>, << <<"subsample_every", 2>>, <<"after", 1>> >>,
             << <<"subsample", 2>> >>,
             << <<"subsample", 2>>, <<"timespan", 5>>, <<"subsample_select", "last">> >>}
Plain == {<< <<"level", {2}>> >>, << <<"level", {}>> >>, << <<"min_level", 2>> >>,
          << <<"max_level", 1>> >>, << <<"min_level", 3>> >>, << <<"colour", {1}>> >>,
          << <<"class", {1}>> >>, << <<"id", {2, 4}>>, <<"limit", 1>> >>,
          << <<"id", {5}>>, <<"id", {1}>>, <<"ts", {0, 2}>> >>, << <<"max_age", -1>> >>,
          << <<"before_hour", 5>> >>, << <<"limit", 3>> >>,
          << <<"text", T("contains", {<<"%">>}, TRUE)>> >>,
          << <<"text", T("prefix", {<<"x", "_">>, <<"%">>}, TRUE)>> >>,
          << <<"text", T("suffix", {<<"x">>, <<"^", "%">>}, TRUE)>> >>,
          << <<"text", T("contains", {<<"?">>, <<"^">>}, FALSE)>> >>,
          << <<"text", T("prefix", {<<"x">>, <<"*">>}, FALSE)>> >>,
          << <<"text", T("suffix", {<<>>}, FALSE)>> >>,
          << <<"text", T("suffix", {}, FALSE)>> >>}
W(pairs, and, or) == [pairs |-> pairs, and |-> and, or |-> or]
MCWire ==
  {W(s \o p, <<>>, <<>>) : s \in Scoped, p \in Paged}
    \cup {W(p, <<>>, <<>>) : p \in Rooted \cup Timed \cup Sampling \cup Plain}
    \cup {W(t, <<p>>, <<>>) : t \in {<< <<"address", {S(<<"a">>, TRUE, "all")}>> >>},
                              p \in {<< <<"limit", 1>>, <<"level", {2}>> >>}}
    \cup {W(<< <<"address", {S(<<"a">>, TRUE, "all")}>>, <<"limit", 2>> >>, <<>>,
            << << <<"level", {1}>> >> >>),
          W(<<>>, << << <<"level", {1}>> >> >>, << << <<"address", {S(<<"d", "e">>, TRUE, None)}>> >> >>),
          W(<<>>, <<>>, << << <<"limit", 1>> >> >>), W(<<>>, <<None>>, <<>>),
          W(<<>>, << << <<"max_age", None>>, <<"level", {2}>> >> >>, <<>>)}
MCChanging == {W(<< <<"level", {2}>>, <<"limit", 1>> >>, <<>>, <<>>),
               W(<< <<"address", {S(<<"a">>, TRUE, "all")}>>, <<"offset", 1>> >>, <<>>, <<>>)}
MCSets == {[level |-> 2], [level |-> 3], [id |-> 1], [colour |-> 1], <<>>}

\* A parser is built from the keys the compiler takes (Schema::filter_keys "cannot
\* disagree with the compiler about what a key is").
ASSUME \A k \in FilterKeys \cup DOMAIN Family \cup {"colour"} :
         k \in FilterKeys <=> RoleOf(k) # Refused

----------------------------------------------------------------------------
JSON(form) == [family |-> "value", form |-> form]
RowOf(k, v) == [key |-> k, value |-> v]

MCFiles ==
  {<<>>,
   <<RowOf(1, JSON("one")), RowOf(2, JSON("half")), RowOf(1, JSON("null"))>>,
   <<RowOf(1, JSON("quoted")), RowOf(1, JSON("true"))>>,
   <<RowOf(2, JSON("one.0")), RowOf(1, JSON("word")), Bad>>,
   <<RowOf(1, JSON("word")), Unreadable, RowOf(2, JSON("one"))>>,
   <<RowOf(1, [family |-> "password", form |-> "plain"]),
     RowOf(2, [family |-> "password", form |-> "long"])>>,
   <<RowOf(2, [family |-> "password", form |-> "hashed"]),
     RowOf(1, [family |-> "text", form |-> "null"]),
     RowOf(2, [family |-> "email", form |-> "mixed"])>>}

MCBuffers ==
  {<<RowOf(2, JSON("true")), RowOf(1, JSON("half")), RowOf(2, JSON("word"))>>,
   <<RowOf(1, [family |-> "boolean", form |-> "false"])>>}

MCRerunnable == {<<1, 1>>, <<2, 2>>}

MCScenarios ==
  {{"load", "flush", "delete"}, {"load", "clear"}, {"cli", "engine", "clear"},
   {"load", "select"}, {"flush", "clear"}}

\* Every value of every family reads back on every backend, by both readers.
ASSUME \A b \in Backend, v \in Value : ReadsBack(b, v)

----------------------------------------------------------------------------
MCInit ==
  /\ part \in {"store", "database"}
  /\ StoreInit /\ DatabaseInit
  /\ part = "store" => /\ backend = "sqlite" /\ active = {"cli", "engine", "clear"}
                       /\ created /\ \A i \in Item : i[1] # 0 => db[i] = 0

MCNext ==
  /\ part' = part
  /\ \/ part = "store" /\ StoreNext /\ UNCHANGED databaseVars
     \/ part = "database" /\ DatabaseNext /\ UNCHANGED storeVars

MCSpec == MCInit /\ [][MCNext]_<<part, storeVars, databaseVars>>
=============================================================================
