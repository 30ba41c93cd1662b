------------------------------- MODULE Cells --------------------------------
(***************************************************************************)
(* How a value becomes what a database stores and comes back:              *)
(* rust/ceres-database/src/{writer,set,binder,turso,records,dynamic,load,  *)
(* credentials}.rs.                                                        *)
(*                                                                         *)
(* A value is its column's family and a form.  The forms of a JSON value   *)
(* are the ones some backend treats differently: null, a boolean, the      *)
(* integer 1, the number 1.0, a fraction, a word, and "quoted", the string *)
(* that reads as the integer 1 when it is parsed again.  A password's      *)
(* forms are a plain one, a hash of one and one that is too long; an       *)
(* address is mixed, folded as it is stored, or carries a display name.    *)
(***************************************************************************)
EXTENDS Naturals

Value ==
  {[family |-> "uuid", form |-> "id"], [family |-> "timestamp", form |-> "time"],
   [family |-> "bytes", form |-> "raw"], [family |-> "json", form |-> "object"],
   [family |-> "text", form |-> "word"], [family |-> "text", form |-> "null"],
   [family |-> "password", form |-> "hashed"], [family |-> "email", form |-> "folded"]}
    \cup [family : {"boolean"}, form : {"true", "false"}]
    \cup [family : {"value"},
          form : {"null", "true", "one", "one.0", "half", "word", "quoted"}]

Backend == {"sqlite", "postgres", "turso", "mvcc"}
Dialect(on) == IF on = "postgres" THEN "postgres" ELSE "sqlite"
Error == [family |-> "error", form |-> "error"]
-----------------------------------------------------------------------------
(* Reading what a file or an argument says.                                *)

\* is_password_hash
IsPasswordHash(form) == form = "hashed"

\* Credentials::password: a hash passes, a password that is accepted is hashed.
Password(form) ==
  CASE IsPasswordHash(form) -> form [] form = "plain" -> "hashed" [] OTHER -> "error"

\* normalize_email: folded to the stored form, a display form refused.
NormalizeEmail(form) == IF form = "display" THEN "error" ELSE "folded"

\* Credentials::apply
Apply(v) ==
  CASE v.family = "password" -> [v EXCEPT !.form = Password(v.form)]
    [] v.family = "email" -> [v EXCEPT !.form = NormalizeEmail(v.form)]
    [] OTHER -> v

\* EntityTable::yaml_columns: a string in a JSON column is parsed again as YAML.
YamlColumn(v) ==
  IF v.family = "value" /\ v.form = "quoted" THEN [v EXCEPT !.form = "one"] ELSE v

\* A row of a load, once completed and converted.
FromFile(v) == Apply(YamlColumn(v))
-----------------------------------------------------------------------------
(* Binding a value into a statement.                                       *)

\* json_text: JSON is bound as its text, on PostgreSQL under a cast.
JsonText(v, dialect) ==
  [kind |-> IF dialect = "postgres" THEN "Json" ELSE "String", form |-> v.form]

\* id_value and timestamp_value: text on the SQLite family.
Native(kind, v, dialect) ==
  [kind |-> IF dialect = "postgres" THEN kind ELSE "String", form |-> v.form]

RecordKind == [text |-> "String", bytes |-> "Bytes", boolean |-> "Bool",
               password |-> "String", email |-> "String"]

\* RowValues::row_values of the records and the entities.
RowValue(v, dialect) ==
  IF v.family \in {"json", "value"} THEN JsonText(v, dialect)
  ELSE IF v.family = "uuid" THEN Native("Uuid", v, dialect)
  ELSE IF v.family = "timestamp" THEN Native("Timestamp", v, dialect)
  ELSE IF v.form = "null" THEN [kind |-> "Null", form |-> "null"]
  ELSE [kind |-> RecordKind[v.family], form |-> v.form]

\* set.rs encode: the same for the value an update sets or an insert names.
Encode(v, dialect) ==
  IF v.form = "null" /\ v.family # "value"
  THEN [kind |-> "Null", form |-> "null"] ELSE RowValue(v, dialect)

\* SqlxValues as SQLite's arguments.
SqliteArguments(sea) ==
  [class |-> CASE sea.kind = "Bool" -> "integer" [] sea.kind = "Bytes" -> "blob"
               [] sea.kind = "Null" -> "null" [] OTHER -> "text",
   form |-> sea.form]

\* SqlxValues as PostgreSQL's arguments: the column keeps the type.
PgArguments(sea) == [class |-> sea.kind, form |-> sea.form]

\* turso.rs sea_value
SeaValue(sea) ==
  [class |-> CASE sea.kind = "Bool" -> "integer" [] sea.kind = "String" -> "text"
               [] sea.kind = "Bytes" -> "blob" [] sea.kind = "Null" -> "null",
   form |-> sea.form]

\* The affinity of a column declared JSON: text that reads as a number is stored as one,
\* and a real with an integer's value as that integer.
Affinity(family, s) ==
  IF ~(family \in {"json", "value"} /\ s.class = "text") THEN s
  ELSE IF s.form \in {"one", "one.0"} THEN [class |-> "integer", form |-> "one"]
  ELSE IF s.form = "half" THEN [class |-> "real", form |-> "half"]
  ELSE s

\* What a column holds of a bound value.
Held(on, family, sea) ==
  CASE on = "sqlite" -> Affinity(family, SqliteArguments(sea))
    [] on = "postgres" -> PgArguments(sea)
    [] OTHER -> Affinity(family, SeaValue(sea))

\* What it holds after a row was written, and after an update set it (Stored::prepare).
Store(on, v) == Held(on, v.family, RowValue(v, Dialect(on)))
Set(on, v) == Held(on, v.family, Encode(Apply(v), Dialect(on)))
-----------------------------------------------------------------------------
(* Reading it back: FieldRead into an entity, and a cell by column.        *)

Decoded(family, ok, s) ==
  IF ok THEN [family |-> family, form |-> s.form] ELSE Error

Class == [uuid |-> {"text"}, timestamp |-> {"text"}, bytes |-> {"blob"},
          boolean |-> {"integer"}, json |-> {"text"},
          value |-> {"text", "integer", "real", "null"},
          text |-> {"text", "null"}, password |-> {"text"}, email |-> {"text"}]

\* FieldRead for SqliteRow
SqliteField(family, s) == Decoded(family, s.class \in Class[family], s)

\* FieldRead for PgRow
PgField(family, s) ==
  Decoded(family, s.class \in {"Uuid", "Timestamp", "Bytes", "Bool", "Json", "String",
                               "Null"}, s)

\* FieldRead for turso's Fields
TursoField(family, s) == Decoded(family, s.class \in Class[family], s)

Field(on, family, s) ==
  CASE on = "sqlite" -> SqliteField(family, s)
    [] on = "postgres" -> PgField(family, s)
    [] OTHER -> TursoField(family, s)

\* sqlite_row, with json_cell for a JSON column.
SqliteCell(family, s) ==
  IF s.class = "null" THEN [family |-> family, form |-> "null"]
  ELSE Decoded(family, s.class \in Class[family], s)

\* postgres_row: the type the server reports decides.
PostgresCell(family, s) ==
  IF s.class = "Null" THEN [family |-> family, form |-> "null"]
  ELSE [family |-> family, form |-> s.form]

\* turso_row: a real in a JSON column comes back as a plain float.
TursoCell(family, s) ==
  IF s.class = "null" THEN [family |-> family, form |-> "null"]
  ELSE Decoded(family, s.class \in Class[family] \cup {"real"}, s)

Cell(on, family, s) ==
  CASE on = "sqlite" -> SqliteCell(family, s)
    [] on = "postgres" -> PostgresCell(family, s)
    [] OTHER -> TursoCell(family, s)
-----------------------------------------------------------------------------
\* The values a backend does not give back: 1.0 in a JSON column of the SQLite family is
\* the integer 1 from then on.
Lossy(on, v) ==
  on # "postgres" /\ v.family = "value" /\ v.form = "one.0"

\* A value reads back as it was written or set, by either reader, on every backend.
ReadsBack(on, v) ==
  ~Lossy(on, v) =>
    \A s \in {Store(on, v), Set(on, v)} :
      Field(on, v.family, s) = v /\ Cell(on, v.family, s) = v
=============================================================================
