------------------------------- MODULE ToolCalls -------------------------------
(***************************************************************************)
(* The tool_call branch of a guest session (node/session.py, serve): a hop *)
(* is put on the audit record, judged by the filter, its verdict recorded, *)
(* the tool run on the operator's folder, the reply recorded and sent.     *)
(* Workspace says what the tools do, AuditChain what the file holds,       *)
(* Policy what the verdict is.                                             *)
(*                                                                         *)
(* Between any two steps the operator may change the folder, the host may  *)
(* change the audit file, and the Node may die.  A tool call is one step:  *)
(* what the operator does in the midst of one is not modelled.             *)
(***************************************************************************)
EXTENDS Workspace, AuditChain

CONSTANTS
  Launched,   \* the launches considered (Policy's Launches)
  Risky,      \* the risky ones of the file tools
  MaxCalls,   \* bound: tool calls of one VM
  MaxEdits,   \* bound: changes of the operator to the folder
  MaxConns,   \* bound: connections of the guest
  None        \* no call, no result

FileTools == {"file_read", "file_list", "file_write"}

VARIABLES
  tree,      \* the folder
  launch,    \* what the VM was launched with
  sess,      \* "read", "heard", "ruled", "acted" or "over"
  call,      \* the call being served
  verdict,   \* its verdict
  result,    \* its result
  heard,     \* calls read so far
  file,      \* the complete lines of the audit file
  torn,      \* a line was cut short; what is appended next goes on from there
  prev,      \* JsonlAuditStore._prev of this connection
  wrote,     \* the records this connection's store has appended, in order
  ran,       \* the calls whose tool ran
  conns,     \* connections so far; each has a store of its own
  alive,     \* the Node has not died
  lost,      \* the host died with it: lines at the end may be gone
  edits,
  tampered   \* the host has changed the audit file

Filter == INSTANCE Policy WITH Tools <- FileTools, ListTool <- "file_list",
                               request <- call

ASSUME LaunchedAssumption == Launched \subseteq Filter!Launches /\ Risky \subseteq FileTools
ASSUME BoundsAssumption == MaxCalls \in Nat \ {0} /\ {MaxEdits, MaxConns} \subseteq Nat

callVars == <<call, verdict, result>>
auditVars == <<file, torn, prev, wrote>>
hostVars == <<edits, tampered>>
nodeVars == <<conns, alive, lost>>
vars == <<tree, launch, sess, callVars, heard, auditVars, ran, nodeVars, hostVars>>

Calls ==
  [tool : {"file_read", "file_list"}, path : Paths, content : {Absent}]
  \cup [tool : {"file_write"}, path : Paths, content : Contents]

Numbers == 0..MaxCalls
Entries == [n : Numbers, what : {"hop", "reply", "allow", "deny", "elevate"}]
Decisions == {"allow", "deny", "elevate"}

NewTree == [up |-> TRUE, top |-> Empty, sub |-> [n \in Names |-> Empty], out |-> Foreign]

Init ==
  /\ tree = NewTree
  /\ launch \in Launched
  /\ sess = "read"
  /\ call = None /\ verdict = None /\ result = None
  /\ heard = 0
  /\ file = <<>> /\ torn = FALSE /\ prev = Zero /\ wrote = <<>>
  /\ ran = {}
  /\ conns = 1 /\ alive = TRUE /\ lost = FALSE
  /\ edits = 0 /\ tampered = FALSE

(* Operators marked "Defect" are not part of the specification.  Each is a *)
(* plausible mistake in the definition below it, which some property must  *)
(* notice (PROJECT.json, mutants).                                         *)

-----------------------------------------------------------------------------
(* The audit file.                                                         *)

(* Defect: the digest is not carried on.                                   *)
LogFromZero(n, what) ==
  LET record == [n |-> n, what |-> what]
  IN /\ file' = Append(file, Line(prev, record))
     /\ wrote' = Append(wrote, record)
     /\ UNCHANGED <<prev, torn>>

(* JsonlAuditStore.append.                                                 *)
Log(n, what) ==
  LET record == [n |-> n, what |-> what]
  IN /\ file' = Append(file, Line(prev, record))
     /\ prev' = Digest(prev, record)
     /\ wrote' = Append(wrote, record)
     /\ UNCHANGED torn

(* The file cannot be opened, or not all of the line is written; the       *)
(* exception ends the session.                                             *)
LogFails ==
  /\ torn' \in {torn, TRUE}
  /\ sess' = "over"
  /\ UNCHANGED <<file, prev, wrote>>

-----------------------------------------------------------------------------
(* A call.                                                                 *)

(* readline raises for a line beyond the limit of 64 KiB, on both ends.    *)
LineTooLong(content) == content \in Long \cup Huge

Hear(c) ==
  /\ sess = "read" /\ heard < MaxCalls
  /\ heard' = heard + 1
  /\ call' = c
  /\ \/ LineTooLong(c.content) /\ sess' = "over" /\ UNCHANGED auditVars
     \/ ~LineTooLong(c.content) /\ Log(heard + 1, "hop") /\ sess' = "heard"
     \/ ~LineTooLong(c.content) /\ LogFails
  /\ UNCHANGED <<tree, launch, verdict, result, ran, nodeVars, hostVars>>

(* What the filter sees of a call: workspace_relpath of its path.          *)
Hop(c) ==
  [source |-> "engine1", type |-> "tool_call", tool |-> c.tool,
   path |-> IF c.path = <<>> THEN "root" ELSE IF c.path = <<Up>> THEN "outside" ELSE "inside"]

Verdict(c) == Filter!Evaluate(launch, Hop(c)).decision

(* Defect: a record that cannot be written is skipped.                     *)
RuleUnrecorded ==
  /\ sess = "heard"
  /\ verdict' = Verdict(call)
  /\ sess' = "ruled"
  /\ \/ Log(heard, verdict')
     \/ UNCHANGED auditVars
  /\ UNCHANGED <<tree, launch, call, result, heard, ran, nodeVars, hostVars>>

(* The verdict and its record; a flag or an elevation adds to the record.  *)
Rule ==
  /\ sess = "heard"
  /\ verdict' = Verdict(call)
  /\ \/ Log(heard, verdict') /\ sess' = "ruled"
     \/ LogFails
  /\ UNCHANGED <<tree, launch, call, result, heard, ran, nodeVars, hostVars>>

(* _workspace_tool.  _target looks at the path outside any try.            *)
Outcomes(c) ==
  IF ~tree.up THEN {Missing(tree)}
  ELSE (IF MayRaise(tree, c.path) THEN {Raised(tree)} ELSE {})
       \cup
       CASE c.tool = "file_read" -> {ReadOutcome(tree, c.path)}
              [] c.tool = "file_list" -> {ListOutcome(tree, c.path)}
              [] c.tool = "file_write" -> WriteOutcomes(tree, c.path, c.content)

(* Defect: whatever is not denied runs.                                    *)
ActUnlessDenied ==
  /\ sess = "ruled"
  /\ \/ /\ verdict # "deny"
        /\ \E o \in Outcomes(call) :
             tree' = o.tree /\ result' = o.result
        /\ ran' = ran \cup {heard}
     \/ /\ verdict = "deny"
        /\ result' = Result(verdict, Absent)
        /\ UNCHANGED <<tree, ran>>
  /\ sess' = "acted"
  /\ UNCHANGED <<launch, call, verdict, heard, auditVars, nodeVars, hostVars>>

(* An allowed tool runs and returns, or an exception leaves it and ends    *)
(* the session; any other call is answered by its verdict.                 *)
Act ==
  /\ sess = "ruled"
  /\ \/ /\ verdict = "allow"
        /\ \E o \in Outcomes(call) :
             /\ tree' = o.tree /\ result' = o.result
             /\ sess' = IF o.result.error = "raised" THEN "over" ELSE "acted"
        /\ ran' = ran \cup {heard}
     \/ /\ verdict # "allow"
        /\ result' = Result(verdict, Absent)
        /\ sess' = "acted"
        /\ UNCHANGED <<tree, ran>>
  /\ UNCHANGED <<launch, call, verdict, heard, auditVars, nodeVars, hostVars>>

(* The reply is recorded and sent; the guest reads it, or cannot.          *)
Answer ==
  /\ sess = "acted"
  /\ \/ /\ Log(heard, "reply")
        /\ sess' = IF LineTooLong(result.value) THEN "over" ELSE "read"
     \/ LogFails
  /\ call' = None /\ verdict' = None /\ result' = None
  /\ UNCHANGED <<tree, launch, heard, ran, nodeVars, hostVars>>

(* The Node dies, perhaps in the midst of a line.  The lines it completed  *)
(* are the system's; append has not had them put on the disk, and if the   *)
(* host dies, those at the end go with it.                                 *)
Die ==
  /\ alive
  /\ alive' = FALSE
  /\ sess' = "over"
  /\ torn' \in {torn, TRUE}
  /\ \/ UNCHANGED <<file, lost>>
     \/ /\ \E k \in 0..Len(file) : file' = SubSeq(file, 1, k)
        /\ lost' = TRUE
  /\ call' = None /\ verdict' = None /\ result' = None
  /\ UNCHANGED <<tree, launch, heard, prev, wrote, ran, conns, hostVars>>

(* The guest connects once more, before the listener is closed: a new      *)
(* session with a new store over the same file.                            *)
Reconnect ==
  /\ sess = "over" /\ alive /\ conns < MaxConns
  /\ sess' = "read"
  /\ conns' = conns + 1
  /\ prev' = Zero /\ wrote' = <<>>
  /\ call' = None /\ verdict' = None /\ result' = None
  /\ UNCHANGED <<tree, launch, heard, file, torn, ran, alive, lost, hostVars>>

-----------------------------------------------------------------------------
(* The operator and the host.                                              *)

(* Nobody sees a change after the Node's death.                            *)
Edit ==
  /\ alive /\ edits < MaxEdits
  /\ edits' = edits + 1
  /\ \/ tree' = [NewTree EXCEPT !.up = ~tree.up, !.out = tree.out]
     \/ /\ tree.up
        /\ \E n \in Names, entry \in {Absent, Dir} \cup Links \cup (Contents \ Unencodable) :
             tree' = [tree EXCEPT !.top[n] = entry, !.sub[n] = Empty]
     \/ /\ tree.up
        /\ \E n, m \in Names, entry \in {Absent} \cup (Contents \ Unencodable) :
             /\ tree.top[n] = Dir
             /\ tree' = [tree EXCEPT !.sub[n][m] = entry]
  /\ UNCHANGED <<launch, sess, callVars, heard, auditVars, ran, nodeVars, tampered>>

(* A line is replaced, two are swapped, or a stretch of lines is removed   *)
(* or repeated.                                                            *)
Touched(i, j) ==
  {[file EXCEPT ![i].record = [n |-> 0, what |-> "hop"]],
   [file EXCEPT ![i] = file[j], ![j] = file[i]],
   SubSeq(file, 1, i - 1) \o SubSeq(file, j + 1, Len(file))}

(* While a session waits for the next call; the digests stay as they are,  *)
(* or are made anew.                                                       *)
Tamper ==
  /\ ~tampered /\ sess = "read"
  /\ tampered' = TRUE
  /\ \E i, j \in DOMAIN file : \E f \in Touched(i, j) : file' \in {f, Chain(Records(f))}
  /\ UNCHANGED <<tree, launch, sess, callVars, heard, torn, prev, wrote, ran, nodeVars, edits>>

Next ==
  \/ \E c \in Calls : Hear(c)
  \/ Rule \/ Act \/ Answer \/ Die \/ Reconnect \/ Edit \/ Tamper

Spec == Init /\ [][Next]_vars

-----------------------------------------------------------------------------
(* What a session promises of its tool calls.                              *)

(* Nothing outside the folder is read or written, wherever the operator    *)
(* puts links while the session goes on.                                   *)
StaysInside == tree.out = Foreign /\ (result # None => result.value # Foreign)

(* Write-ahead: whatever ran on the folder is on record in the audit file, *)
(* with the verdict that let it run, also when the Node died, the tool     *)
(* raised, the disk was full or the guest connected again: unless the host *)
(* itself died, for nothing has put the lines on its disk.                 *)
EffectIsRecorded ==
  ~tampered /\ ~lost =>
    \A n \in ran : \E i \in DOMAIN file : file[i].record = [n |-> n, what |-> "allow"]

(* verify_chain accepts what the store of the one connection has written,  *)
(* however its session ended, unless a line was cut short.                 *)
ChainHolds == ~tampered /\ conns = 1 /\ ~torn => Verifies(file)

(* Whoever changes the file can make its digests anew, and verify_chain    *)
(* accepts it; but the store goes on from the digest it remembers.  A file *)
(* that ends in a line of the session that runs is accepted only if it is  *)
(* all that session has recorded and nothing else: so the lines of an      *)
(* earlier connection are there only if verify_chain refuses the file.     *)
TamperShows ==
  Verifies(file) /\ file # <<>> /\ file[Len(file)].chain = prev => Records(file) = wrote

(* A call changes the folder only if it is an allowed write, and then only *)
(* if it succeeds, the system fails it, or its content cannot be encoded.  *)
RefusedChangesNothing ==
  [][Act /\ tree' # tree =>
       /\ launch.role = "operator" /\ call.tool \in launch.allowed /\ launch.workspace
       /\ call.tool = "file_write"
       /\ \/ result'.error \in {NoError, "os_error"}
          \/ result'.error = "raised" /\ call.content \in Unencodable]_vars
=============================================================================
