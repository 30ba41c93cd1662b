------------------------------- MODULE MCApi -------------------------------
(***************************************************************************)
(* An instance of the files API and of the requests that identify their    *)
(* caller; a behaviour is of one of them.  The names of the mount are:     *)
(*   1  a file;                                                            *)
(*   2  a directory with the file 2/1 and the excluded file 2/2;           *)
(*   3  a directory with the file 3/2;                                     *)
(*   4  a link to the excluded file;                                       *)
(*   5  a link to a directory outside the mount, which holds a file;       *)
(*   6  a name nothing has yet;                                            *)
(*   7  a link to directory 2;                                             *)
(*  -1  the part of the first request.                                     *)
(* The file requests are chosen so that every two of them meet at a name.  *)
(***************************************************************************)
EXTENDS Files, Requests, TLC

VARIABLE part   \* what a behaviour is about

CONSTANTS u, v

File(id) == [id |-> id, kind |-> "file", whole |-> TRUE, synced |-> TRUE,
             old |-> FALSE, copy |-> FALSE, loose |-> FALSE, to |-> Gone]
Directory(id) == [File(id) EXCEPT !.kind = "dir"]
Link(id, to) == [File(id) EXCEPT !.kind = "link", !.to = to]

MCTree ==
  (<<1>> :> File(1)) @@ (<<2>> :> Directory(2)) @@ (<<2, 1>> :> File(3))
    @@ (<<2, 2>> :> File(4)) @@ (<<3>> :> Directory(5)) @@ (<<3, 2>> :> File(6))
    @@ (<<4>> :> Link(7, <<2, 2>>)) @@ (<<5>> :> Link(8, <<0>>))
    @@ (<<7>> :> Link(9, <<2>>)) @@ (<<0>> :> Directory(10)) @@ (<<0, 1>> :> File(11))

MCExcludedPaths == {<<2, 2>>}

Read(op, path) == [op |-> op, path |-> path, access |-> "view", entries |-> {}]
Selected(path, entries) == [Read("archive", path) EXCEPT !.entries = entries]
Upload(path, create_only, if_match, size) ==
  [op |-> "upload", path |-> path, access |-> "edit", create_only |-> create_only,
   if_match |-> if_match, size |-> size, declared |-> FALSE]
Move(op, path, to, overwrite) ==
  [op |-> op, path |-> path, to |-> to, access |-> "edit", overwrite |-> overwrite]
Delete(path, recursive, access) ==
  [op |-> "delete", path |-> path, access |-> access, recursive |-> recursive]

MCAsks ==
  { Read("read", <<1>>), Read("read", <<3, 2>>), Read("read", <<2, 2>>),
    Read("read", <<4>>), Read("archive", <<>>), Read("archive", <<3>>),
    Read("list", <<>>), Read("list", <<3>>), Read("read", <<5, 1>>), Read("read", <<7, 2>>),
    Read("read", <<7, 1>>), Read("archive", <<7>>), Selected(<<>>, {2, -1}), Selected(<<2>>, {2}),
    Upload(<<7, 1>>, FALSE, {}, 1), Upload(<<7, 2>>, FALSE, {}, 1),
    Move("rename", <<-1>>, <<6>>, FALSE), Move("copy", <<-1>>, <<6>>, FALSE),
    Delete(<<-1>>, FALSE, "edit"), [op |-> "mkdir", path |-> <<-1>>, access |-> "edit"],
    Move("rename", <<7>>, <<3>>, FALSE), Delete(<<7>>, TRUE, "edit"),
    Upload(<<6>>, FALSE, {}, 1), Upload(<<6>>, TRUE, {}, 1), Upload(<<1>>, FALSE, {1}, 1),
    Upload(<<3, 2>>, FALSE, {}, 1), Upload(<<6>>, FALSE, {}, 3),
    [op |-> "mkdir", path |-> <<6>>, access |-> "edit"],
    Move("rename", <<3>>, <<6>>, FALSE), Move("rename", <<2>>, <<6>>, FALSE),
    Move("rename", <<4>>, <<3, 2>>, TRUE), Move("rename", <<1>>, <<6>>, FALSE),
    Move("rename", <<4>>, <<1>>, TRUE), Move("rename", <<1>>, <<3, 2>>, TRUE),
    Move("copy", <<1>>, <<6>>, FALSE), Move("copy", <<3>>, <<6>>, FALSE),
    Move("copy", <<1>>, <<3, 2>>, TRUE), Move("copy", <<2>>, <<6>>, FALSE),
    Delete(<<1>>, FALSE, "edit"), Delete(<<3>>, TRUE, "edit"), Delete(<<3>>, FALSE, "edit"),
    Delete(<<2>>, TRUE, "edit"), Delete(<<1>>, FALSE, "view") }

\* The third request: a directory is made in the place of the first request's part, or a
\* link takes the place of a directory that was moved away or deleted.
MCThird ==
  { [op |-> "mkdir", path |-> <<-1>>, access |-> "edit"], Move("rename", <<7>>, <<3>>, FALSE) }

MCBound == made' = 3 => \A s \in Slot : request'[s].number = 3 => request'[s].ask \in MCThird

Symmetry == Permutations(Slot)

MCFilesystems == {[links |-> TRUE, exclusive |-> TRUE], [links |-> FALSE, exclusive |-> FALSE]}

----------------------------------------------------------------------------
Section == Object([key_password |-> Leaf, port |-> Leaf])
Listed == Object([password |-> Leaf, kept |-> Array(<<Leaf>>)])

MCPayloads ==
  { Leaf, Unreadable, Array(<<Leaf>>), Section, Object([secret |-> Leaf, server |-> Section]),
    Listed, Array(<<Listed, Leaf>>) }

App(cli, auth, impersonate_, native, console) ==
  [cli |-> cli, auth |-> auth, impersonate |-> impersonate_, native |-> native,
   console |-> console]

MCApps ==
  { App(FALSE, TRUE, TRUE, TRUE, "built"), App(FALSE, TRUE, FALSE, FALSE, "unbuilt"),
    App(FALSE, FALSE, FALSE, FALSE, "built"), App(TRUE, FALSE, FALSE, TRUE, "none") }

MCInitially == [user \in Users |-> Account(user = u, FALSE, 0)]

----------------------------------------------------------------------------
MCInit ==
  /\ part \in {"files", "requests"}
  /\ FilesInit /\ (part # "files" => fs = CHOOSE f \in Filesystems : TRUE)
  /\ RequestsInit /\ (part # "requests" => app = CHOOSE a \in Apps : TRUE)

MCNext ==
  /\ part' = part
  /\ \/ part = "files" /\ FilesNext /\ MCBound /\ UNCHANGED requestVars
     \/ part = "requests" /\ RequestsNext /\ UNCHANGED fileVars

MCSpec == MCInit /\ [][MCNext]_<<part, fileVars, requestVars>>
=============================================================================
