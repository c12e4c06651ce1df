------------------------------- MODULE Workspace -------------------------------
(***************************************************************************)
(* The folder the operator allows and the three file tools that the Node   *)
(* runs on it (node/workspace.py, tools/paths.py).  Operators only: what a *)
(* call returns and what it leaves behind, for a given state of the        *)
(* folder.  ToolCalls uses them.                                           *)
(*                                                                         *)
(* A path is the sequence of names that workspace_relpath makes of what    *)
(* the agent wrote: the empty sequence is the folder itself, as file_list  *)
(* knows it ('', '.', '/workspace'); Up stands for any path that leads out *)
(* of it, or to the folder in another spelling, which is refused alike.    *)
(* Two levels are enough to have a link in the midst of a path.  A file is *)
(* its content.                                                            *)
(***************************************************************************)
EXTENDS Naturals, Sequences

CONSTANTS
  Names,     \* names of entries
  Contents,  \* contents of files
  Long,      \* contents whose hop is longer than a line may be
  Huge,      \* contents longer than READ_MAX
  Unencodable,  \* contents with a lone surrogate: JSON carries it, UTF-8 does not
  Foreign,   \* what a file outside the folder holds
  Partial    \* what is left of a file when writing it failed half-way

Up == "up"             \* a path out of the folder, or a detour to it
TooLong == "too_long"  \* a name that no file can have
Absent == "absent"
Dir == "dir"
LinkIn == "link_in"      \* a symbolic link to the folder itself
LinkOut == "link_out"    \* a link to a directory outside
LinkLoop == "link_loop"  \* a link to itself

Links == {LinkIn, LinkOut, LinkLoop}
Special == {Up, TooLong, Absent, Dir} \cup Links
Files == Contents \cup {Partial}

ASSUME NamesAssumption == Names \cap Special = {}
ASSUME ContentsAssumption ==
  /\ Long \subseteq Contents /\ Huge \subseteq Contents /\ Unencodable \subseteq Contents
  /\ Files \cap Special = {}
  /\ Foreign \notin Files \cup Special \cup [Names -> {"file", "symlink", Absent, Dir}]
  /\ Partial \notin Contents

(* up: the folder exists.  sub: the entries of a directory, kept Absent    *)
(* for what is none.  out: the file of any name beyond LinkOut.            *)
Trees ==
  [up : BOOLEAN,
   top : [Names -> {Absent, Dir} \cup Links \cup Files],
   sub : [Names -> [Names -> {Absent} \cup Files]],
   out : {Foreign} \cup Files]

Paths ==
  {<<>>, <<Up>>, <<TooLong>>} \cup {<<n>> : n \in Names}
  \cup {<<n, m>> : n \in Names, m \in Names}

Empty == [n \in Names |-> Absent]

-----------------------------------------------------------------------------
(* _target.  Operators marked "Defect" are not part of the specification.  *)
(* Each is a plausible mistake in the definition below it, which some      *)
(* property must notice (PROJECT.json, mutants).                           *)

Leads(t, p, link) == Len(p) = 2 /\ t.top[p[1]] = link

(* Where a path leads once the link in its midst is followed.              *)
Place(t, p) == IF Leads(t, p, LinkIn) THEN <<p[2]>> ELSE p

(* lstat of a name that is too long, and resolve() of a loop, raise; on a  *)
(* Python after 3.12 they may not.                                         *)
MayRaise(t, p) == p = <<TooLong>> \/ Leads(t, p, LinkLoop)

(* Defect: only the last component of a path is looked at.                 *)
RefusedIfLink(t, p) ==
  \/ p \in {<<>>, <<Up>>}
  \/ /\ p # <<TooLong>>
     /\ Len(Place(t, p)) = 1
     /\ t.top[Place(t, p)[1]] \in Links

(* path_escape: the path leads out, or names the folder, or its last       *)
(* component is a link, or it resolves outside.                            *)
Refused(t, p) ==
  \/ p \in {<<>>, <<Up>>}
  \/ Leads(t, p, LinkOut)
  \/ /\ p # <<TooLong>>
     /\ Len(Place(t, p)) = 1
     /\ t.top[Place(t, p)[1]] \in Links

(* What is at a place.                                                     *)
At(t, place) ==
  CASE place = <<TooLong>> -> Absent
    [] Leads(t, place, LinkOut) -> t.out
    [] Leads(t, place, Dir) -> t.sub[place[1]][place[2]]
    [] Len(place) = 2 /\ t.top[place[1]] \notin {Dir, LinkOut} -> Absent
    [] OTHER -> t.top[place[1]]

(* What a write puts there, the directory above it included.               *)
Put(t, place, content) ==
  CASE Len(place) = 1 -> [t EXCEPT !.top[place[1]] = content]
    [] Leads(t, place, LinkOut) -> [t EXCEPT !.out = content]
    [] OTHER -> [t EXCEPT !.top[place[1]] = Dir, !.sub[place[1]][place[2]] = content]

-----------------------------------------------------------------------------
(* The three tools.  An outcome is what the call returns and the folder it *)
(* leaves behind.                                                          *)

NoError == "no_error"
Result(error, value) == [error |-> error, value |-> value]
Outcome(result, t) == [result |-> result, tree |-> t]
Fails(error, t) == Outcome(Result(error, Absent), t)

(* The tool does not return: an exception leaves it.                       *)
Raised(t) == Fails("raised", t)

(* resolve_host_workspace, at the head of every call.                      *)
Missing(t) == Fails("workspace", t)

(* host_file_read.                                                         *)
ReadOutcome(t, p) ==
  LET found == At(t, Place(t, p))
  IN CASE Refused(t, p) -> Fails("path_escape", t)
       [] ~Refused(t, p) /\ found \in Huge -> Fails("too_large", t)
       [] ~Refused(t, p) /\ found \in ({Foreign} \cup Files) \ Huge ->
            Outcome(Result(NoError, found), t)
       [] OTHER -> Fails("not_found", t)

(* host_file_list: the kinds of the entries of one directory.              *)
Kind(entry) ==
  CASE entry \in Links -> "symlink"
    [] entry \in {Absent, Dir} -> entry
    [] OTHER -> "file"

Listing(entries) == Result(NoError, [n \in Names |-> Kind(entries[n])])

ListOutcome(t, p) ==
  LET found == At(t, Place(t, p))
  IN CASE p = <<>> -> Outcome(Listing(t.top), t)
       [] p # <<>> /\ Refused(t, p) -> Fails("path_escape", t)
       [] p # <<>> /\ ~Refused(t, p) /\ found = Dir ->
            Outcome(Listing(t.sub[Place(t, p)[1]]), t)
       [] p # <<>> /\ ~Refused(t, p) /\ found = Absent -> Fails("not_found", t)
       [] OTHER -> Fails("not_a_directory", t)

(* The parent of the place is no directory: mkdir fails.                   *)
NoParent(t, place) == Len(place) = 2 /\ t.top[place[1]] \in Files \cup {LinkLoop}

(* What the last steps of a write may come to.  The system may refuse any  *)
(* of them: after mkdir, or after the file was truncated.  Content that    *)
(* UTF-8 cannot encode makes write_text raise once the file is truncated,  *)
(* and the exception is no OSError.                                        *)
Writes(t, place, content) ==
  {Fails("os_error", Put(t, place, At(t, place)))}
  \cup IF content \in Unencodable
       THEN {Raised(Put(t, place, Partial))}
       ELSE {Fails("os_error", Put(t, place, Partial)),
             Outcome(Result(NoError, Absent), Put(t, place, content))}

(* host_file_write.                                                        *)
WriteOutcomes(t, p, content) ==
  LET place == Place(t, p)
  IN CASE Refused(t, p) -> {Fails("path_escape", t)}
       [] ~Refused(t, p) /\ NoParent(t, place) -> {Fails("os_error", t)}
       [] place = <<TooLong>> -> {Fails("os_error", t)}
       [] ~Refused(t, p) /\ ~NoParent(t, place) /\ At(t, place) = Dir ->
            {Fails("not_a_file", t)}
       [] OTHER -> Writes(t, place, content)
=============================================================================
