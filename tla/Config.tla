------------------------------- MODULE Config -------------------------------
(***************************************************************************)
(* The engine-level sections of a project's configuration                  *)
(* (rust/ceres-config/src): how a file is read and validated, and how a    *)
(* running engine takes over the logging sections of a reloaded one.       *)
(*                                                                         *)
(* An omitted value is the empty set and a given one a singleton.  The     *)
(* problems of a section are the set of their locations.                   *)
(***************************************************************************)
EXTENDS Naturals, Sequences, SequencesExt

CONSTANTS
  Edits,       \* what one edit may write: <<section, text>> pairs
  MaxEdits     \* bound: edits of the file

ASSUME ConfigAssumption == MaxEdits \in Nat

VARIABLES
  file,     \* the sections of the configuration file
  edits,    \* how often it was edited
  read,     \* what `ConfigMeta::load` last answered
  logging   \* the logging settings in force: the engine's and a component's

configVars == <<file, edits, read, logging>>

None == {}
Some(value) == {value}
Or(option, default) == IF option = None THEN default ELSE CHOOSE value \in option : TRUE

----------------------------------------------------------------------------
\* Collecting problems.

Problem(wrong, field) == IF wrong THEN {<<field>>} ELSE {}

under(problems, parent) == {<<parent>> \o location : location \in problems}

into_result(value, problems) == [value |-> value, problems |-> problems]

\* A required text that is missing or blank.
require(text, field) == Problem(text = None \/ text = {"blank"}, field)

\* A nested section, as it was validated if it is there: one that is wrong is absent,
\* and its problems are the section's.
validate_nested(validated, section) ==
  into_result({nested.value : nested \in {n \in validated : n.problems = {}}},
              UNION {under(nested.problems, section) : nested \in validated})

\* A path as its components, "/" being the root an absolute one starts from.
Spell(path) ==
  CASE path = "server.crt" -> <<".ceres", "tls", "server.crt">>
    [] path = "server.key" -> <<".ceres", "tls", "server.key">>
    [] path = "ca.crt" -> <<".ceres", "tls", "ca.crt">>
    [] path = "ca.key" -> <<".ceres", "tls", "ca.key">>
    [] path = "dotted" -> <<".", ".ceres", "x", "..", "tls", "server.crt">>
    [] path = "climbing" -> <<"..", "site.key">>
    [] path = "looping" -> <<"a", "..", "..", "site.key">>
    [] path = "other" -> <<"site.key">>
    [] path = "absolute" -> <<"/", "srv", "project", "site.key">>
    [] path = "above" -> <<"/", "..", "srv", "project", "site.key">>
    [] path = "around" -> <<"..", "project", "site.key">>

\* `..` kept where it belongs, for comparison.
lexical_plain(path) == SelectSeq(path, LAMBDA component : component # ".")

\* `.` dropped, and `..` folded into the name before it.
lexical(path) ==
  LET fold(done, component) ==
        CASE component = "." -> done
          [] component = ".." /\ done # <<>> /\ Last(done) \notin {"..", "/"} -> Front(done)
          [] OTHER -> Append(done, component)
  IN FoldLeft(fold, <<>>, path)

----------------------------------------------------------------------------
\* The server section.

\* The certificate authority somebody supplies.
authority(raw) ==
  into_result([path |-> Or(raw.path, "ca.crt"), key |-> Or(raw.key, "ca.key")], {})

MAX_CERTIFICATE_DAYS == 825

\* How certificates are issued.
auto(raw) ==
  LET days == Or(raw.days, 365)
      ca == validate_nested({authority(text) : text \in raw.ca}, "ca")
  IN into_result([days |-> days,
                  authority |-> Or(ca.value, authority([path |-> None, key |-> None]).value)],
                 Problem(raw.dns = Some("invalid"), "dns")
                 \cup Problem(days \notin 1..MAX_CERTIFICATE_DAYS, "days") \cup ca.problems)

\* The certificate and its files, each of which holds one thing.
certificate(raw) ==
  LET nested == validate_nested({auto(text) : text \in raw.auto}, "auto")
      path == Or(raw.path, "server.crt")
      key == Or(raw.key, "server.key")
      files == << <<"path", path>>, <<"key", key>> >> \o
               (IF nested.value = None THEN <<>>
                ELSE LET ca == Or(nested.value, {}).authority IN
                     << <<"auto.ca.path", ca.path>>, <<"auto.ca.key", ca.key>> >>)
      same == {files[i][1] : i \in {i \in 1..Len(files) :
                 \E j \in 1..(i - 1) : lexical(Spell(files[i][2])) = lexical(Spell(files[j][2]))}}
  IN into_result([path |-> path, key |-> key, auto |-> nested.value],
                 nested.problems \cup {<<location>> : location \in same}
                 \cup Problem(raw.key_password # None /\ nested.value # None, "key_password"))

NoCertificate == [path |-> None, key |-> None, key_password |-> None, auto |-> None]
Automatic == [days |-> None, dns |-> None, ca |-> None]

\* `certificate` is also written `auto`, and its `auto` also as a switch.
auto_or_settings(text) ==
  CASE text.is = "off" -> None [] text.is = "on" -> Some(Automatic) [] OTHER -> Some(text.raw)
certificate_or_auto(text) ==
  IF text.is = "auto" THEN [NoCertificate EXCEPT !.auto = Some(Automatic)]
  ELSE [text.raw EXCEPT !.auto = UNION {auto_or_settings(switch) : switch \in @}]

https(raw) ==
  LET given == IF raw.certificate = None THEN Some(NoCertificate)
               ELSE {certificate_or_auto(text) : text \in raw.certificate}
      nested == validate_nested({certificate(text) : text \in given}, "certificate")
  IN into_result([port |-> Or(raw.port, 443), certificate |-> nested.value], nested.problems)

http(raw) == into_result([port |-> Or(raw.port, 80), redirect |-> Or(raw.redirect, FALSE)], {})

authentication(raw) == into_result(raw, require(raw.secret, "secret"))

cors(raw) ==
  into_result(raw, Problem(raw.allow_origin_regex = Some("invalid"), "allow_origin_regex")
                   \cup Problem(Or(raw.max_age, 600) = 0, "max_age"))

validate_level(level, default, field, range) == Problem(Or(level, default) \notin range, field)

compression(raw) ==
  into_result(raw, validate_level(raw.zstd_level, 1, "zstd_level", 1..22)
                   \cup validate_level(raw.brotli_quality, 4, "brotli_quality", 0..11)
                   \cup validate_level(raw.gzip_level, 1, "gzip_level", 0..9))

webrtc_section(raw) ==
  into_result(raw, Problem(Or(raw.max_sessions, 32) = 0, "max_sessions")
                   \cup Problem(Or(raw.no_ice_timeout, 10) = 0, "no_ice_timeout"))

\* Mount names and exclusion patterns have to be well formed.
files(raw) ==
  into_result(raw, Problem(raw.mounts = "misnamed", "mounts")
                   \cup Problem(raw.exclude = "unparsable", "exclude"))

\* The section as a whole, with what its listeners owe each other.
server_section(raw) ==
  LET secure == validate_nested({https(text) : text \in raw.https}, "https")
      plain == validate_nested({http(text) : text \in raw.http}, "http")
      rest == validate_nested({authentication(text) : text \in raw.authentication}, "authentication").problems
              \cup validate_nested({cors(text) : text \in raw.cors}, "cors").problems
              \cup validate_nested({compression(text) : text \in raw.compression}, "compression").problems
              \cup validate_nested({webrtc_section(text) : text \in raw.webrtc}, "webrtc").problems
              \cup validate_nested({files(text) : text \in raw.files}, "files").problems
      redirected == \E h \in plain.value : h.redirect
      shared == \E h \in plain.value, s \in secure.value : h.port = s.port /\ h.port # 0
  IN into_result([https |-> secure.value, http |-> plain.value],
                 Problem(raw.bind = Some("invalid"), "bind")
                 \cup secure.problems \cup plain.problems \cup rest
                 \cup under(Problem(redirected /\ secure.value = None, "redirect"), "http")
                 \cup under(Problem(shared, "port"), "http"))
----------------------------------------------------------------------------
\* The database section.

bcrypt(raw) == Problem(Or(raw.rounds, 12) < 4, "rounds")

argon2(raw) ==
  LET memory == Or(raw.memory_cost, 65536)
      lanes == Or(raw.parallelism, 4)
  IN Problem(Or(raw.time_cost, 3) < 1, "time_cost")
     \cup Problem(memory < 8, "memory_cost")
     \cup Problem(IF lanes < 1 THEN TRUE ELSE memory \div lanes < 8, "parallelism")
     \cup Problem(Or(raw.hash_length, 32) \notin 4..256, "hash_length")
     \cup Problem(Or(raw.salt_length, 16) \notin 8..64, "salt_length")

\* The settings every backend shares.
shared_database(raw) ==
  UNION { under(IF hashing.type = "bcrypt" THEN bcrypt(hashing) ELSE argon2(hashing), "hashing")
          : hashing \in raw.hashing }

\* SQLite and Turso keep a file, which `:memory:` does not name.
file_database(raw) ==
  into_result(raw, shared_database(raw) \cup Problem(raw.path = Some(":memory:"), "path"))

postgres(raw) ==
  into_result(raw, require(raw.host, "host") \cup require(raw.database, "database")
                   \cup require(raw.user, "user") \cup shared_database(raw))

database(raw) == IF raw.type = "postgres" THEN postgres(raw) ELSE file_database(raw)

\* The service section's names.
service(raw) == into_result(raw, Problem(raw.name = Some("invalid"), "name")
                                 \cup Problem(raw.user = Some("invalid"), "user"))

----------------------------------------------------------------------------
\* Reading a file.

Sections == {"service", "server", "database"}

\* One section: absent, of the wrong shape, or validated.
validate_section(section, text) ==
  LET try_from(raw) == CASE section = "service" -> service(raw)
                         [] section = "server" -> server_section(raw)
                         [] section = "database" -> database(raw)
  IN IF \E raw \in text : raw.shape = "wrong" THEN into_result(None, {<<section>>})
     ELSE validate_nested({try_from(raw.raw) : raw \in text}, section)

\* Every section is looked at, whatever is wrong with the others.
parse(text) ==
  LET sections == [s \in Sections |-> validate_section(s, text[s])]
      problems == UNION {sections[s].problems : s \in Sections}
  IN [problems |-> problems,
      meta |-> IF problems = {} THEN Some([s \in Sections |-> sections[s].value]) ELSE None]

load ==
  /\ read' = Some(parse(file))
  /\ UNCHANGED <<file, edits, logging>>

----------------------------------------------------------------------------
\* Logging.

LoggingFields == {"output", "events"}

\* What an unset field stands for.
Resolved(settings) ==
  [f \in LoggingFields |-> Or(settings[f], IF f = "output" THEN "info" ELSE "true")]

\* Two settings are equal when they resolve alike.
eq(left, right) == Resolved(left) = Resolved(right)

\* A reload takes the engine's section as it is, and a component's when it is not equal to
\* the one the component has.
reload ==
  /\ logging' = [engine |-> file.logging.engine,
                 component |-> IF eq(logging.component, file.logging.component)
                               THEN logging.component ELSE file.logging.component]
  /\ UNCHANGED <<file, edits, read>>

\* Somebody writes a section.
edit ==
  /\ edits < MaxEdits
  /\ \E change \in Edits :
       /\ file[change[1]] # change[2]
       /\ file' = [file EXCEPT ![change[1]] = change[2]]
  /\ edits' = edits + 1
  /\ read' = None
  /\ UNCHANGED logging

Unset == [f \in LoggingFields |-> None]

ConfigInit ==
  /\ file = [s \in Sections \cup {"logging"} |->
               IF s = "logging" THEN [engine |-> Unset, component |-> Unset] ELSE None]
  /\ edits = 0
  /\ read = None
  /\ logging = [engine |-> Unset, component |-> Unset]

ConfigNext == load \/ reload \/ edit

ConfigSpec == ConfigInit /\ [][ConfigNext]_configVars

----------------------------------------------------------------------------
\* Where a path leads from a directory, walked one component at a time.
Walk(directory, path) ==
  FoldLeft(LAMBDA at, component : CASE component = "." -> at
                                    [] component = "/" -> <<>>
                                    [] component = ".." -> IF at = <<>> THEN at ELSE Front(at)
                                    [] OTHER -> Append(at, component),
           directory, path)

\* Where the project may lie.
Directories == { <<"srv", "project">>, <<"home", "site">> }

\* A path that goes up from the root, which stays the root.
AboveRoot(path) == Len(lexical(path)) > 1 /\ SubSeq(lexical(path), 1, 2) = <<"/", "..">>

\* The files the HTTPS listener and its certificate authority keep.
Kept(https_) ==
  LET c == Or(https_.certificate, {}) IN
  << c.path, c.key >> \o
  (IF c.auto = None THEN <<>>
   ELSE << Or(c.auto, {}).authority.path, Or(c.auto, {}).authority.key >>)

\* A configuration that loads can be served: the two listeners take different ports, a
\* redirect leads to a listener there is, no two settings of certificates and keys name
\* one file wherever the project lies, and Argon2 has the memory its lanes need (the
\* TryFrom validators of the sections and lexical).  What lexical cannot see is left out:
\* two spellings that meet only because of where the project lies (an absolute path, or
\* one that climbs out of the project and names its directory again), and one that goes
\* up from the root.  Those load, and are one file.
Servable ==
  \A verdict \in read : \A meta \in verdict.meta :
    /\ \A s \in meta["server"] :
         /\ \A h \in s.http : h.redirect => s.https # None
         /\ \A h \in s.http, t \in s.https : h.port # t.port \/ h.port = 0
         /\ \A t \in s.https : LET paths == Kept(t) IN
              \A i, j \in 1..Len(paths) : i < j =>
                \/ AboveRoot(Spell(paths[i])) \/ AboveRoot(Spell(paths[j]))
                \/ \E directory \in Directories :
                     Walk(directory, Spell(paths[i])) # Walk(directory, Spell(paths[j]))
    /\ \A d \in meta["database"] : \A h \in d.hashing :
         h.type = "argon2" => Or(h.memory_cost, 65536) >= 8 * Or(h.parallelism, 4)
=============================================================================
