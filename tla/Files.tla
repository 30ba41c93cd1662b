------------------------------- MODULE Files -------------------------------
(***************************************************************************)
(* One mount of the console's file browser                                 *)
(* (rust/ceres-server/src/api/files.rs) and the exclusion of               *)
(* rust/ceres-config/src/files.rs, under concurrent requests, a crash of   *)
(* the machine and clients that leave.                                     *)
(*                                                                         *)
(* A path is a sequence of names.  A name is a number, ordered as listings *)
(* order names: a positive one is an ordinary name and -k is the part      *)
(* `.<name>.<uuid>.part` of request k, or one a client made up when no     *)
(* request has that number.  Name 0 in the root is what lies outside the   *)
(* mount, which no request can name and a symbolic link can lead to.       *)
(* `tree` maps the path of every entry to its metadata; two paths with the *)
(* same `id` are hard links to one file.                                   *)
(*                                                                         *)
(* An action is one filesystem operation, or checks that are made together *)
(* before one.  A request keeps the paths its checks resolved and every    *)
(* operation resolves them again.  A request that its checks refuse        *)
(* changes nothing and is not modelled as a step.                          *)
(***************************************************************************)
EXTENDS Integers, Sequences, SequencesExt, FiniteSets, FiniteSetsExt

CONSTANTS
  Slot,           \* requests that may run at once
  Asks,           \* the requests clients make
  Tree,           \* the mount before the first request
  ExcludedNames,  \* `exclude` patterns without a `/`
  ExcludedPaths,  \* `exclude` patterns with a `/`
  Limit,          \* max_upload
  Filesystems,    \* what a filesystem may support: hard links, exclusive renames
  MaxRequest,     \* bound: requests made
  MaxCrash        \* bound: crashes

ASSUME FilesAssumption ==
  /\ Limit \in Nat /\ MaxRequest \in Nat /\ MaxCrash \in Nat
  /\ Filesystems \subseteq [links : BOOLEAN, exclusive : BOOLEAN]

\* A listing shows parts, and a client may name one.
ASSUME AsksAssumption ==
  \A ask \in Asks :
    /\ ask.path \in Seq(Int \ {0})
    /\ ask.op \in {"rename", "copy"} => ask.to \in Seq(Int \ {0})

VARIABLES
  tree,     \* the entries below the mount's root
  fs,       \* what the filesystem supports
  request,  \* what each slot is doing
  made,     \* requests made
  fresh,    \* files and directories created, which names the next one
  crashes,  \* crashes so far
  swapped   \* whether a request has acted in a directory that was swapped after its checks

fileVars == <<tree, fs, request, made, fresh, crashes, swapped>>

Gone == <<0, 0>>  \* what a path that resolves to nothing resolves to
None == 0         \* no file
\* `loose`: a client took it, or what it is a copy of, out of a part
NoFile == [id |-> None, kind |-> "none", whole |-> TRUE, synced |-> TRUE,
           old |-> FALSE, copy |-> FALSE, loose |-> FALSE, to |-> Gone]
Idle == [pc |-> "idle", number |-> 0]

-----------------------------------------------------------------------------
(* Paths.                                                                  *)

excludes(path) ==
  \E i \in 1 .. Len(path) :
    path[i] \in ExcludedNames \/ SubSeq(path, 1, i) \in ExcludedPaths

is_part(name) == name < 0

Outside(path) == path # <<>> /\ path[1] = 0

\* What no request may reach.
Guarded(path) == excludes(path) \/ Outside(path)

\* The mount is a tree of whole files, and what is guarded has no other name.
ASSUME TreeAssumption ==
  /\ IsFiniteSet(DOMAIN Tree) /\ Gone \notin DOMAIN Tree
  /\ \A path \in DOMAIN Tree :
       /\ path \in Seq(Nat) /\ path # <<>>
       /\ \A i \in 1 .. Len(path) - 1 :
            SubSeq(path, 1, i) \in DOMAIN Tree /\ Tree[SubSeq(path, 1, i)].kind = "dir"
       /\ Tree[path] \in [id : Nat \ {0}, kind : {"file", "dir", "link"}, whole : {TRUE},
                          synced : {TRUE}, old : BOOLEAN, copy : BOOLEAN, loose : {FALSE},
                          to : Seq(Nat)]
       /\ Guarded(path) =>
            \A other \in DOMAIN Tree : Tree[other].id = Tree[path].id => other = path

Entry(path) == IF path \in DOMAIN tree THEN tree[path] ELSE NoFile

IsDir(path) == path = <<>> \/ Entry(path).kind = "dir"

\* One link, and the link it may lead to, followed; where a link leads, no directory is one.
Follow(path) ==
  LET once(p) == IF Entry(p).kind = "link" THEN Entry(p).to ELSE p
      end     == once(once(path))
  IN IF end = <<>> \/ (end \in DOMAIN tree /\ Entry(end).kind # "link") THEN end ELSE Gone

canonicalize(path) ==
  LET resolve[n \in 0 .. Len(path)] ==
        IF n = 0 THEN <<>>
        ELSE IF ~IsDir(resolve[n - 1]) THEN Gone
        ELSE Follow(Append(resolve[n - 1], path[n]))
  IN resolve[Len(path)]

\* Where an operation on `path` that does not follow its last name acts.
Where(path) == Append(canonicalize(Front(path)), Last(path))

Existing(path) == Entry(Where(path))

Inside(path) == path # Gone /\ ~Outside(path)

\* The canonical path behind `path`, Gone when it may not be served.
admit(path) ==
  LET canonical == canonicalize(path)
  IN IF Inside(canonical) /\ ~excludes(canonical) THEN canonical ELSE Gone

\* The entry a write names, in a parent directory that was admitted.
target(names) ==
  IF names = <<>> \/ excludes(names) THEN Gone
  ELSE LET parent == admit(Front(names))
           path   == Append(parent, Last(names))
       IN IF parent = Gone \/ ~IsDir(parent) \/ excludes(path) THEN Gone ELSE path

Below(directory) ==
  {path \in DOMAIN tree : /\ Len(path) > Len(directory) /\ IsPrefix(directory, path)
                          /\ Outside(path) => directory # <<>>}

-----------------------------------------------------------------------------
(* What a walk below a directory reaches.                                  *)

HasPart(path, above) == \E i \in Len(above) + 1 .. Len(path) : is_part(path[i])

\* What `path`, at or below `from`, is called when `from` is called `to`.
Rebased(path, from, to) == to \o SubSeq(path, Len(from) + 1, Len(path))

\* A walk of the directory that was found to be `relative`.
walk(directory, relative) ==
  {path \in Below(directory) :
     ~HasPart(path, directory) /\ ~excludes(Rebased(path, directory, relative))}

holds_excluded(directory) ==
  \E path \in Below(directory) : ~HasPart(path, directory) /\ excludes(path)

AnyBelow(path) == TRUE

refuse_excluded_below(path) ==
  Existing(path).kind = "dir" => ~holds_excluded(Where(path))

-----------------------------------------------------------------------------
(* Filesystem operations: the tree after one, the tree itself when it      *)
(* fails.                                                                  *)

Without(paths) == [p \in DOMAIN tree \ paths |-> tree[p]]

With(path, entry) ==
  [p \in DOMAIN tree \cup {path} |-> IF p = path THEN entry ELSE tree[p]]

Subtree(path) == {path} \cup Below(path)

MovedTo(from, to) ==
  LET moved  == Subtree(from)
      kept   == (DOMAIN tree \ Subtree(to)) \ moved
      new(p) == Rebased(p, from, to)
  IN [p \in kept \cup {new(q) : q \in moved} |->
        IF p \in kept THEN tree[p] ELSE tree[CHOOSE q \in moved : new(q) = p]]

\* rename(2) replaces a file by a file and an empty directory by a directory.
MayReplace(from, to) ==
  LET source == Entry(from)
      there  == Entry(to)
  IN \/ there.kind = "none"
     \/ source.kind # "dir" /\ there.kind # "dir"
     \/ source.kind = "dir" /\ there.kind = "dir" /\ Below(to) = {}

\* Whether rename(2) of `from` to `to` succeeds.
Renames(from, to) ==
  /\ from \in DOMAIN tree /\ IsDir(Front(to))
  /\ ~(from # to /\ IsPrefix(from, to))
  /\ MayReplace(from, to)

\* Two names of one file are left as they are.
Renamed(from, to) ==
  IF from = to \/ (Entry(from).id = Entry(to).id) THEN tree ELSE MovedTo(from, to)

\* Whether a rename that must replace nothing succeeds.
rename_without_replacing(from, to) ==
  /\ Renames(from, to)
  /\ fs.exclusive => to \notin DOMAIN tree

MoveAllowed(from, to, replace) ==
  IF replace THEN Renames(from, to) ELSE rename_without_replacing(from, to)

-----------------------------------------------------------------------------
(* Requests.                                                               *)

Running(s) == request[s].pc \notin {"idle", "done"}

\* Nobody knows the name of a part before it is written.
Known(names) ==
  \A i \in 1 .. Len(names) :
    names[i] < 0 /\ -names[i] <= MaxRequest =>
      /\ -names[i] <= made
      /\ \A s \in Slot : request[s].pc = "create" => request[s].number # -names[i]

Permits(ask) ==
  \/ ask.op \in {"read", "archive", "list"} /\ ask.access # "none"
  \/ ask.access = "edit"

Begin(s, state) ==
  /\ Permits(state.ask)
  /\ made' = made + 1
  /\ request' = [request EXCEPT ![s] = state]
  /\ UNCHANGED <<fs, crashes>>

Goto(s, pc) == request' = [request EXCEPT ![s].pc = pc]

Done(s) == Goto(s, "done")

Part(s) == -request[s].number

PartPath(s) == Append(Front(request[s].target), Part(s))

Quiet == UNCHANGED <<fs, made, crashes>>

-----------------------------------------------------------------------------
(* Reads.  A read admits a path, describes what is there and opens it      *)
(* without following a link; it serves the file it described.              *)

ReadAdmit(s, ask) ==
  /\ ask.op = "read" /\ ~excludes(ask.path)
  /\ LET canonical == admit(ask.path)
     IN /\ canonical # Gone
        /\ Begin(s, [pc |-> "describe", number |-> made + 1, ask |-> ask, target |-> canonical,
                     seen |-> None])
  /\ UNCHANGED <<tree, fresh>>

\* fs::metadata follows a link that has taken the path's place since.
ReadDescribe(s) ==
  /\ request[s].pc = "describe"
  /\ LET found == Entry(canonicalize(request[s].target))
     IN request' = [request EXCEPT ![s].pc = IF found.kind = "file" THEN "open" ELSE "done",
                                   ![s].seen = IF found.kind = "file" THEN found.id ELSE None]
  /\ UNCHANGED <<tree, fresh>> /\ Quiet

\* The file at a path when its last name must not be a link, None otherwise.
open_without_following(path) ==
  IF Existing(path).kind = "file" THEN Existing(path).id ELSE None

VerifiedOpen(walked, path) ==
  IF open_without_following(path) = walked THEN walked ELSE None

ReadOpen(s) ==
  /\ request[s].pc = "open"
  /\ request' = [request EXCEPT ![s].pc = "done",
                                ![s].seen = VerifiedOpen(@, request[s].target)]
  /\ UNCHANGED <<tree, fresh>> /\ Quiet

\* A download of a directory walks it, or the entries of it that the request selects, and
\* adds each file as it reaches it.
ArchiveStart(s, ask) ==
  /\ ask.op = "archive" /\ ~excludes(ask.path)
  /\ LET directory == admit(ask.path)
     IN /\ directory # Gone /\ IsDir(directory)
        /\ \A name \in ask.entries :
             LET path == Append(directory, name) IN ~excludes(path) /\ admit(path) # Gone
        /\ Begin(s, [pc |-> "walk", number |-> made + 1, ask |-> ask, target |-> directory,
                     seen |-> None])
  /\ UNCHANGED <<tree, fresh>>

\* The files a walk of `directory` reaches, a link's where it leads.
Reached(directory) ==
  LET real    == canonicalize(directory)
      called(p) == Rebased(p, real, directory)
      below   == IF IsDir(real) THEN walk(real, directory) ELSE {}
  IN {called(p) : p \in {q \in below : tree[q].kind = "file"}}
       \cup {admit(p) : p \in {q \in below : tree[q].kind = "link"}}

ArchiveReach(s) ==
  /\ request[s].pc = "walk"
  /\ LET directory == request[s].target
         selected  == {admit(Append(directory, name)) : name \in request[s].ask.entries}
         found     == IF selected = {} THEN Reached(directory)
                      ELSE selected \cup UNION {Reached(path) : path \in selected \ {Gone}}
     IN \E path \in found :
          /\ Entry(canonicalize(path)).kind = "file"
          /\ request' = [request EXCEPT ![s].pc = "member", ![s].target = path]
  /\ UNCHANGED <<tree, fresh>> /\ Quiet

ArchiveMember(s) ==
  /\ request[s].pc = "member"
  /\ request' = [request EXCEPT ![s].pc = "done",
                                ![s].seen = open_without_following(request[s].target)]
  /\ UNCHANGED <<tree, fresh>> /\ Quiet

\* The client leaves, or the walk ends.
ArchiveEnd(s) ==
  /\ request[s].pc = "walk"
  /\ Done(s)
  /\ UNCHANGED <<tree, fresh>> /\ Quiet

\* A listing removes the parts of files that nobody has written for an hour.
Stale(directory) ==
  {path \in Below(directory) :
     /\ Len(path) = Len(directory) + 1 /\ is_part(Last(path))
     /\ tree[path].kind = "file" /\ tree[path].old}

List(s, ask) ==
  /\ ask.op = "list" /\ ~excludes(ask.path)
  /\ LET directory == admit(ask.path)
     IN /\ directory # Gone /\ IsDir(directory)
        /\ Stale(directory) # {}
        /\ tree' = Without(Stale(directory))
        /\ Begin(s, [pc |-> "done", number |-> made + 1, ask |-> ask, target |-> directory])
  /\ UNCHANGED fresh

-----------------------------------------------------------------------------
(* Uploads.                                                                *)

\* UploadConditions::check, `If-None-Match: *` and `If-Match`.
Check(ask, existing) ==
  IF existing.kind = "none" THEN ask.if_match = {}
  ELSE /\ existing.kind = "file"
       /\ ~ask.create_only
       /\ ask.if_match # {} => existing.id \in ask.if_match

NewFile(whole) ==
  [id |-> fresh + 1, kind |-> "file", whole |-> whole, synced |-> FALSE,
   old |-> FALSE, copy |-> FALSE, loose |-> FALSE, to |-> Gone]
NewDirectory == [NewFile(TRUE) EXCEPT !.kind = "dir", !.synced = TRUE]

UploadStart(s, ask) ==
  /\ ask.op = "upload"
  /\ ask.declared => ask.size <= Limit
  /\ LET path == target(ask.path)
     IN /\ path # Gone /\ ~is_part(Last(path))
        /\ Check(ask, Existing(path))
        /\ tree' = With(Append(Front(path), -(made + 1)), NewFile(FALSE))
        /\ Begin(s, [pc |-> "body", number |-> made + 1, ask |-> ask, target |-> path,
                     id |-> fresh + 1])
  /\ fresh' = fresh + 1

\* The bytes go to the open file, wherever its name is by now.
Write(s, field) ==
  tree' = [path \in DOMAIN tree |->
             IF tree[path].id = request[s].id
             THEN [tree[path] EXCEPT ![field] = TRUE, !.old = FALSE]
             ELSE tree[path]]

UploadBodyUnsynced(s) ==
  /\ request[s].pc = "body"
  /\ request[s].ask.size <= Limit
  /\ Write(s, "whole")
  /\ Goto(s, "commit")
  /\ UNCHANGED fresh /\ Quiet

UploadBody(s) ==
  /\ request[s].pc = "body"
  /\ request[s].ask.size <= Limit
  /\ Write(s, "whole")
  /\ Goto(s, "sync")
  /\ UNCHANGED fresh /\ Quiet

\* The body is past the limit, fails, or its client leaves.
UploadCut(s) ==
  /\ request[s].pc \in {"body", "sync"}
  /\ Goto(s, "discard")
  /\ UNCHANGED <<tree, fresh>> /\ Quiet

UploadSync(s) ==
  /\ request[s].pc = "sync"
  /\ Write(s, "synced")
  /\ Goto(s, "commit")
  /\ UNCHANGED fresh /\ Quiet

CommitCheck(s) ==
  /\ request[s].pc = "commit"
  /\ Goto(s, IF Check(request[s].ask, Existing(request[s].target))
             THEN "place" ELSE "discard")
  /\ UNCHANGED <<tree, fresh>> /\ Quiet

CommitLinkOver(s) ==
  /\ request[s].pc = "place" /\ request[s].ask.op = "upload" /\ request[s].ask.create_only
  /\ LET part == Where(PartPath(s))
         path == Where(request[s].target)
     IN tree' = IF Renames(part, path) THEN Renamed(part, path) ELSE tree
  /\ Goto(s, "discard")
  /\ UNCHANGED fresh /\ Quiet

\* A link fails when the name exists and leaves the part for the discard.  Where none can
\* be made, of a directory that a client put in the part's place too, the rename follows.
CommitLink(s) ==
  /\ request[s].pc = "place" /\ request[s].ask.op = "upload" /\ request[s].ask.create_only
  /\ LET part  == Where(PartPath(s))
         path  == Where(request[s].target)
         links == fs.links /\ Entry(part).kind # "none"
     IN IF links /\ path \notin DOMAIN tree /\ Entry(part).kind # "dir"
        THEN tree' = With(path, tree[part]) /\ Goto(s, "discard")
        ELSE UNCHANGED tree /\ Goto(s, IF links /\ path \in DOMAIN tree THEN "discard" ELSE "rename")
  /\ UNCHANGED fresh /\ Quiet

CommitRename(s) ==
  /\ \/ request[s].pc = "rename"
     \/ /\ request[s].pc = "place" /\ request[s].ask.op = "upload"
        /\ ~request[s].ask.create_only
  /\ LET part == Where(PartPath(s))
         path == Where(request[s].target)
     IN IF Renames(part, path)
        THEN tree' = Renamed(part, path) /\ Done(s)
        ELSE UNCHANGED tree /\ Goto(s, "discard")
  /\ UNCHANGED fresh /\ Quiet

\* PartFile::discard, and its Drop when the request is dropped.
Discard(s) ==
  /\ request[s].pc = "discard"
  /\ tree' = Without(Subtree(Where(PartPath(s))))
  /\ Done(s)
  /\ UNCHANGED fresh /\ Quiet

-----------------------------------------------------------------------------
(* The other writes.                                                       *)

CreateDirectory(s, ask) ==
  /\ ask.op = "mkdir"
  /\ LET path == target(ask.path)
     IN /\ path # Gone /\ path \notin DOMAIN tree
        /\ tree' = With(path, NewDirectory)
        /\ Begin(s, [pc |-> "done", number |-> made + 1, ask |-> ask, target |-> path])
  /\ fresh' = fresh + 1

RenameCheck(s, ask) ==
  /\ ask.op = "rename"
  /\ LET source      == target(ask.path)
         destination == target(ask.to)
         moved       == Existing(source)
         there       == Existing(destination)
     IN /\ source # Gone /\ destination # Gone /\ ~is_part(Last(destination))
        /\ moved.kind # "none"
        /\ ~(moved.kind = "dir" /\ IsPrefix(source, Front(destination)))
        /\ \/ there.kind = "none"
           \/ there.id = moved.id /\ source = destination
           \/ there.id # moved.id /\ there.kind # "dir" /\ ask.overwrite
        /\ refuse_excluded_below(source)
        /\ Begin(s, [pc |-> "move", number |-> made + 1, ask |-> ask, target |-> source,
                     destination |-> destination, replace |-> there.kind # "none"])
  /\ UNCHANGED <<tree, fresh>>

\* What is at `top` and below it was taken out of a part.
Loosened(files, top) ==
  [p \in DOMAIN files |->
     IF IsPrefix(top, p) THEN [files[p] EXCEPT !.loose = TRUE] ELSE files[p]]

RenameMove(s) ==
  /\ request[s].pc = "move"
  /\ LET from == Where(request[s].target)
         to   == Where(request[s].destination)
     IN tree' = IF ~MoveAllowed(from, to, request[s].replace) THEN tree
                ELSE IF HasPart(from, <<>>) THEN Loosened(Renamed(from, to), to)
                ELSE Renamed(from, to)
  /\ Done(s)
  /\ UNCHANGED <<fs, made, fresh, crashes>>

CopyCheck(s, ask) ==
  /\ ask.op = "copy"
  /\ LET source      == target(ask.path)
         destination == target(ask.to)
         copied      == Existing(source)
         there       == Existing(destination)
     IN /\ source # Gone /\ destination # Gone /\ ~is_part(Last(destination))
        /\ copied.kind \in {"file", "dir"}
        /\ ~(copied.kind = "dir" /\ IsPrefix(source, Front(destination)))
        /\ \/ there.kind = "none"
           \/ /\ ask.overwrite /\ copied.kind = "file" /\ there.kind = "file"
              /\ there.id # copied.id
        /\ refuse_excluded_below(source)
        /\ Begin(s, [pc |-> "create", number |-> made + 1, ask |-> ask, source |-> source,
                     target |-> destination, kind |-> copied.kind,
                     replace |-> there.kind # "none", id |-> fresh + 1, whole |-> FALSE])
  /\ fresh' = fresh + 1
  /\ UNCHANGED tree

\* The part's file or directory, still without its contents.  A file's copy reads what its
\* name leads to by now.
CopyCreate(s) ==
  /\ request[s].pc = "create"
  /\ LET part == Where(PartPath(s))
         read == canonicalize(request[s].source)
         new  == [NewFile(FALSE) EXCEPT !.id = request[s].id, !.copy = TRUE]
     IN IF IsDir(Front(part)) /\ (request[s].kind = "file" => Entry(read).kind = "file")
        THEN /\ tree' = With(part, IF request[s].kind = "dir"
                                   THEN [new EXCEPT !.kind = "dir", !.whole = TRUE]
                                   ELSE [new EXCEPT !.loose = Entry(read).loose
                                                                \/ HasPart(read, <<>>)])
             /\ request' = [request EXCEPT ![s].pc = "copy",
                              ![s].whole = request[s].kind = "file" => Entry(read).whole]
        ELSE UNCHANGED tree /\ Done(s)
  /\ UNCHANGED fresh /\ Quiet

\* The files of a set, numbered.
Numbering(paths) == CHOOSE f \in [paths -> 1 .. Cardinality(paths)] : IsInjective(f)

\* The contents, which a directory's copy takes from a walk: a link, an
\* excluded entry and a part stay behind.  Where a client put an entry into the
\* part meanwhile, a file is written over and anything else ends the copy.
CopyContents(s) ==
  /\ request[s].pc = "copy"
  /\ LET part   == Where(PartPath(s))
         source == canonicalize(request[s].source)
         below  == {p \in walk(source, request[s].source) : tree[p].kind # "link"}
         new(p) == Rebased(p, source, part)
         number == Numbering(below)
         copied == {new(p) : p \in below}
         copy(p) == [tree[p] EXCEPT !.id = fresh + number[p], !.synced = FALSE, !.copy = TRUE,
                                    !.loose = @ \/ HasPart(source, <<>>)]
         clear(p) == new(p) \in DOMAIN tree =>
                       tree[new(p)].kind = "file" /\ tree[p].kind = "file"
     IN IF request[s].kind = "dir"
        THEN IF IsDir(source) /\ IsDir(part) /\ \A p \in below : clear(p)
             THEN /\ tree' = [q \in DOMAIN tree \cup copied |->
                               IF q \in copied THEN copy(CHOOSE p \in below : new(p) = q)
                               ELSE tree[q]]
                  /\ Goto(s, "place")
                  /\ fresh' = fresh + Cardinality(below)
             ELSE /\ Goto(s, "discard") /\ UNCHANGED <<tree, fresh>>
        ELSE /\ IF request[s].whole THEN Write(s, "whole") ELSE UNCHANGED tree
             /\ Goto(s, "place") /\ UNCHANGED fresh
  /\ Quiet

\* A read or a write fails partway.
CopyFails(s) ==
  /\ request[s].pc = "copy"
  /\ Goto(s, "discard")
  /\ UNCHANGED <<tree, fresh>> /\ Quiet

\* PartFile::place
Place(s) ==
  /\ request[s].pc = "place" /\ request[s].ask.op = "copy"
  /\ LET part == Where(PartPath(s))
         path == Where(request[s].target)
     IN IF MoveAllowed(part, path, request[s].replace)
        THEN tree' = Renamed(part, path) /\ Done(s)
        ELSE UNCHANGED tree /\ Goto(s, "discard")
  /\ UNCHANGED fresh /\ Quiet

DeleteCheck(s, ask) ==
  /\ ask.op = "delete"
  /\ LET path == target(ask.path)
     IN /\ path # Gone /\ Existing(path).kind # "none"
        /\ Existing(path).kind = "dir" /\ ask.recursive => refuse_excluded_below(path)
        /\ Begin(s, [pc |-> "remove", number |-> made + 1, ask |-> ask, target |-> path,
                     kind |-> Existing(path).kind])
  /\ UNCHANGED <<tree, fresh>>

DeleteRemove(s) ==
  /\ request[s].pc = "remove"
  /\ LET path    == Where(request[s].target)
         removes == IF request[s].kind # "dir" THEN Entry(path).kind \in {"file", "link"}
                    ELSE IF request[s].ask.recursive THEN Entry(path).kind \in {"dir", "link"}
                    ELSE Entry(path).kind = "dir" /\ Below(path) = {}
     IN tree' = IF removes THEN Without(Subtree(path)) ELSE tree
  /\ Done(s)
  /\ UNCHANGED fresh /\ Quiet

-----------------------------------------------------------------------------
(* The world.                                                              *)

\* An hour passes without a write to a part.
Age ==
  \E path \in DOMAIN tree :
    /\ is_part(Last(path)) /\ ~tree[path].old
    /\ tree' = [tree EXCEPT ![path].old = TRUE]
    /\ UNCHANGED <<fs, request, made, fresh, crashes>>

\* The machine stops: a file that was not synced loses its bytes.
Crash ==
  /\ crashes < MaxCrash
  /\ \E s \in Slot : Running(s)
  /\ crashes' = crashes + 1
  /\ tree' = [path \in DOMAIN tree |->
                IF tree[path].synced THEN tree[path]
                ELSE [tree[path] EXCEPT !.whole = FALSE]]
  /\ request' = [s \in Slot |-> Idle]
  /\ UNCHANGED <<fs, made, fresh>>

FilesInit ==
  /\ tree = Tree
  /\ fs \in Filesystems
  /\ request = [s \in Slot |-> Idle]
  /\ made = 0
  /\ fresh = Max({None} \cup {Tree[path].id : path \in DOMAIN Tree})
  /\ crashes = 0 /\ swapped = FALSE

Respond(s) ==
  /\ ~Running(s) /\ made < MaxRequest
  /\ \E ask \in Asks :
     /\ Known(ask.path) /\ (ask.op \in {"rename", "copy"} => Known(ask.to))
     /\ \/ ReadAdmit(s, ask) \/ ArchiveStart(s, ask) \/ List(s, ask)
        \/ UploadStart(s, ask) \/ CreateDirectory(s, ask) \/ RenameCheck(s, ask)
        \/ CopyCheck(s, ask) \/ DeleteCheck(s, ask)

Step(s) ==
  \/ ReadDescribe(s) \/ ReadOpen(s)
  \/ ArchiveReach(s) \/ ArchiveMember(s) \/ ArchiveEnd(s)
  \/ UploadBody(s) \/ UploadCut(s) \/ UploadSync(s)
  \/ CommitCheck(s) \/ CommitLink(s) \/ CommitRename(s) \/ Discard(s)
  \/ RenameMove(s) \/ CopyCreate(s) \/ CopyContents(s) \/ CopyFails(s) \/ Place(s)
  \/ DeleteRemove(s)

\* The directories the next step of a request acts in, as its checks resolved them.
ActsIn(s) ==
  LET r     == request[s]
      above == {Front(path) : path \in {r.target} \ {<<>>}}
  IN CASE r.pc = "walk"               -> {r.target}
       [] r.pc \in {"body", "sync"}   -> {}
       [] r.pc = "move"               -> above \cup {Front(r.destination)}
       [] r.pc \in {"create", "copy"} ->
            above \cup {IF r.kind = "dir" THEN r.source ELSE Front(r.source)}
       [] OTHER                       -> above

Swapped(s) == \E directory \in ActsIn(s) : canonicalize(directory) # directory

FilesNext ==
  \/ \E s \in Slot : Step(s) /\ swapped' = (swapped \/ Swapped(s))
  \/ ((\E s \in Slot : Respond(s)) \/ Age \/ Crash) /\ UNCHANGED swapped

FilesSpec == FilesInit /\ [][FilesNext]_fileVars

-----------------------------------------------------------------------------
(* Properties.                                                             *)

\* A name that is no part's never shows part of an upload: not while its body
\* arrives, not when the client leaves, and not after the machine stopped,
\* whatever is renamed, copied or swept meanwhile.  A copy is not synced before
\* it takes its name, so a copy is exempt from the last; and a client that
\* itself moves or copies a part, which a listing shows it (files.rs:370), or
\* what is below one, to another name sees what it took.
NeverTorn ==
  \A path \in DOMAIN tree :
    tree[path].kind = "file" /\ ~HasPart(path, <<>>) =>
      tree[path].whole \/ tree[path].loose \/ (crashes > 0 /\ tree[path].copy)

\* What stood at an excluded path or outside the mount stays there through every
\* request, and is never what a read or an archive hands over, through any link
\* and however files are swapped between the walk and the open; until a request
\* acts in a directory that was swapped for a link after its checks, which
\* escapes (the comment at files.rs:1410).
ExcludedKept ==
  ~swapped =>
    \A path \in DOMAIN Tree : Guarded(path) =>
      /\ Entry(path).id = Tree[path].id
      /\ \A s \in Slot :
           request[s].pc = "done" /\ request[s].ask.op \in {"read", "archive"} =>
             request[s].seen # Tree[path].id

Replaces(s) ==
  \/ request[s].ask.op = "upload" /\ (request[s].ask.create_only => request[s].pc = "rename")
  \/ request[s].ask.op \in {"rename", "copy"} /\ request[s].ask.overwrite
  \/ request[s].ask.op \in {"rename", "copy"} /\ ~fs.exclusive

\* A name that holds a file holds another one after a step only when the step
\* belongs to a request that asked to replace: an upload with
\* `If-None-Match: *` whose link is made, a move and a copy without `overwrite`
\* never take the place of a file that appeared after their checks.  What a
\* client put into the part of a directory's copy is the copy's to write over
\* (files.rs:614).
NoClobber ==
  [][\A path \in DOMAIN tree \cap DOMAIN tree' :
       ~HasPart(path, <<>>) /\ tree'[path].id # tree[path].id =>
         \E s \in Slot : request'[s] # request[s] /\ "ask" \in DOMAIN request[s]
                         /\ Replaces(s)]_fileVars
=============================================================================
