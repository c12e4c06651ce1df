--------------------------- MODULE LaunchRulesProofs ---------------------------
(***************************************************************************)
(* What an operator may rely on, proved for any operators, tools, folders  *)
(* and commands.                                                           *)
(***************************************************************************)
EXTENDS LaunchRules, TLAPS

-----------------------------------------------------------------------------
(* Types.                                                                  *)

LEMMA OverlayType ==
  ASSUME NEW found \in Rules, NEW c \in Commands PROVE Overlay(found, c) \in Rules
<1>1. /\ c.keys \in SUBSET Keys /\ c.rules \in Rules
  BY DEF Commands
<1>2. \A key \in Keys : Overlay(found, c)[key] \in {c.rules[key], found[key]}
  BY DEF Overlay
<1>3. Overlay(found, c) =
        [tools |-> Overlay(found, c)["tools"], folder |-> Overlay(found, c)["folder"]]
  BY DEF Overlay, Keys
<1> QED
  BY <1>1, <1>2, <1>3 DEF Rules, Keys

LEMMA FreshType == Fresh \in Rules
BY DEF Fresh, Rules

LEMMA LoadedType == file \in Rules \cup {Absent, Empty, Garbled} => Loaded \in Rules
BY FreshType DEF Loaded

(* A command that goes on is one that was issued.                          *)
CmdInv == \A o \in Operators : at[o] # "idle" => cmd[o] \in Issued

LEMMA IssueType ==
  ASSUME TypeOK, CmdInv, NEW o \in Operators, NEW c \in Issued, NEW dirs \in SUBSET Folders,
         NEW next \in {"truncate", "ensure", "ask", "status", "idle"},
         Issue(o, c, dirs, next), clash' \in BOOLEAN
  PROVE  TypeOK' /\ CmdInv'
<1>1. Overlay(Loaded, c) \in Rules /\ Overlay(intended, c) \in Rules
  BY OverlayType, LoadedType, IssuedAssumption DEF TypeOK
<1>2. /\ UNCHANGED <<file, nodeVars, bootVars, host, intended, excused>>
      /\ commands' = commands + 1 /\ folders' = dirs
      /\ cmd' = [cmd EXCEPT ![o] = c]
      /\ own' = [own EXCEPT ![o] = 0]
      /\ at' \in {at, [at EXCEPT ![o] = next]}
      /\ kept' \in {kept, [kept EXCEPT ![o] = Overlay(Loaded, c)]}
      /\ wanted' \in {wanted, [wanted EXCEPT ![o] = None],
                      [wanted EXCEPT ![o] = Overlay(intended, c)]}
  BY Zenon DEF Issue
<1> HIDE DEF Issue
<1> QED
  BY <1>1, <1>2, SMT DEF TypeOK, CmdInv, nodeVars, vmVars, onceVars, bootVars, Saving

LEMMA TypeNext == TypeOK /\ CmdInv /\ [Next]_vars => (TypeOK /\ CmdInv)'
<1> SUFFICES ASSUME TypeOK, CmdInv, [Next]_vars PROVE TypeOK' /\ CmdInv'
  OBVIOUS
<1>0. Ensured \in SUBSET Folders /\ folders \in SUBSET Folders
  BY FoldersAssumption DEF TypeOK, Ensured
<1>1. ASSUME NEW o \in Operators, NEW c \in Issued, Settings(o, c) PROVE TypeOK' /\ CmdInv'
  <2>1. clash' \in BOOLEAN
    BY <1>1 DEF Settings, TypeOK
  <2> QED
    BY <1>0, <1>1, <2>1, IssueType DEF Settings
<1>2. ASSUME NEW o \in Operators, NEW c \in Issued, StartCommand(o, c) PROVE TypeOK' /\ CmdInv'
  <2>1. clash' \in BOOLEAN
    BY <1>2 DEF StartCommand, TypeOK
  <2> QED
    BY <1>0, <1>2, <2>1, IssueType DEF StartCommand
<1>3. ASSUME NEW o \in Operators, NEW c \in Issued, VmStop(o, c) \/ Status(o, c)
      PROVE TypeOK' /\ CmdInv'
  BY <1>0, <1>3, SMT DEF VmStop, Status, Step, TypeOK, CmdInv, fileVars, nodeVars, vmVars,
     onceVars, bootVars, Saving
<1>4. ASSUME NEW o \in Operators, Truncate(o) PROVE TypeOK' /\ CmdInv'
  BY <1>4, SMT DEF Truncate, Step, TypeOK, CmdInv, nodeVars, vmVars, onceVars, bootVars, Saving
<1>5. ASSUME NEW o \in Operators, Write(o) PROVE TypeOK' /\ CmdInv'
  <2>1. Overlay(intended, cmd[o]) \in Rules
    BY <1>5, OverlayType, IssuedAssumption DEF Write, Step, TypeOK, CmdInv
  <2> QED
    BY <1>5, <2>1, SMT DEF Write, Step, TypeOK, CmdInv, nodeVars, vmVars, onceVars, bootVars, Saving
<1>6. ASSUME NEW o \in Operators, Show(o) PROVE TypeOK' /\ CmdInv'
  BY <1>0, <1>6, SMT DEF Show, Step, TypeOK, CmdInv, fileVars, nodeVars, vmVars, onceVars,
     bootVars, Saving
<1>7. ASSUME NEW o \in Operators, Ensure(o) PROVE TypeOK' /\ CmdInv'
  <2>1. /\ at' \in {[at EXCEPT ![o] = "ask"], [at EXCEPT ![o] = "idle"]} /\ at[o] = "ensure"
        /\ folders' = Ensured
        /\ UNCHANGED <<file, intended, boots, vm, waits, late, orphans, rules, granted, cmd, kept,
                       commands, host, wanted, own, excused>>
    BY <1>7, Zenon DEF Ensure, Step, fileVars, bootVars, vmVars, onceVars
  <2>2. node' \in BOOLEAN /\ clash' \in BOOLEAN
    BY <1>7, Zenon DEF Ensure, fileVars, TypeOK
  <2>3. TypeOK'
    BY <1>0, <2>1, <2>2, SMT DEF TypeOK, Saving
  <2>4. CmdInv'
    BY <2>1, SMT DEF TypeOK, CmdInv, Saving
  <2> QED
    BY <2>3, <2>4
<1>8. ASSUME NEW o \in Operators, Ask(o) PROVE TypeOK' /\ CmdInv'
  <2>1. /\ at[o] = "ask" /\ \E next \in {"idle", "leave", "started"} : at' = [at EXCEPT ![o] = next]
        /\ UNCHANGED <<file, intended, clash, folders, node, late, orphans, waits, cmd, kept,
                       commands, host, wanted>>
    BY <1>8, Zenon DEF Ask, After, Step, fileVars, nodeVars, vmVars, Node!Start
  <2>2. excused' \in {excused, [excused EXCEPT ![o] = Pending # {}]}
    BY <1>8, Zenon DEF Ask, onceVars
  <2>3. excused' \in [Operators -> BOOLEAN]
    <3>1. (Pending # {}) \in BOOLEAN
      OBVIOUS
    <3> HIDE DEF Pending
    <3> QED
      BY <2>2, <3>1, Zenon DEF TypeOK
  <2>4. \/ UNCHANGED <<boots, vm, rules, granted, own>>
        \/ /\ boots' = boots + 1 /\ vm' = boots'
           /\ rules' = kept[o] /\ granted' = wanted[o]
           /\ own' = [own EXCEPT ![o] = IF cmd[o].kind = "once" THEN boots' ELSE 0]
    BY <1>8, Zenon DEF Ask, Node!Start, nodeVars, vmVars, bootVars, onceVars
  <2>5. /\ vm' \in {0, boots'} /\ {boots', commands', host'} \subseteq Nat
        /\ waits' \in [Operators -> 0..boots'] /\ own' \in [Operators -> 0..boots']
        /\ {late', orphans'} \subseteq SUBSET (1..boots')
    <3>1. CASE UNCHANGED <<boots, vm, rules, granted, own>>
      BY <2>1, <3>1, Zenon DEF TypeOK
    <3>2. CASE boots' = boots + 1 /\ vm' = boots' /\
               own' = [own EXCEPT ![o] = IF cmd[o].kind = "once" THEN boots' ELSE 0]
      <4>1. \E v \in {0, boots'} : own' = [own EXCEPT ![o] = v]
        BY <3>2, Zenon
      <4> QED
        BY <2>1, <3>2, <4>1, SMT DEF TypeOK
    <3> QED
      BY <2>4, <3>1, <3>2
  <2>6. /\ {rules', intended'} \subseteq Rules /\ granted' \in Rules \cup {None}
        /\ at' \in [Operators -> Saving \cup {"idle", "shown", "ensure", "status", "ask", "started",
                                             "chat", "leave", "left"}]
    BY <2>1, <2>4, SMT DEF TypeOK
  <2>7. TypeOK'
    BY <2>1, <2>3, <2>5, <2>6, Zenon DEF TypeOK
  <2>8. CmdInv'
    BY <2>1, SMT DEF TypeOK, CmdInv, Saving
  <2> QED
    BY <2>7, <2>8
<1>9. ASSUME NEW o \in Operators, Answered(o) \/ OnceStatus(o) \/ OnceChat(o)
      PROVE TypeOK' /\ CmdInv'
  <2>1. /\ at[o] \in {"started", "status", "chat"}
        /\ \E next \in {"idle", "leave", "ask", "chat"} : at' = [at EXCEPT ![o] = next]
        /\ UNCHANGED <<file, intended, clash, folders, node, boots, vm, waits, orphans, rules,
                       granted, cmd, kept, commands, host, wanted, own, excused>>
        /\ late' = late \/ (vm # 0 /\ late' = late \cup {vm})
    <3>1. CASE Answered(o)
      <4>1. /\ at[o] = "started"
            /\ \E next \in {"idle", "leave", "chat"} : at' = [at EXCEPT ![o] = next]
        BY <3>1, Zenon DEF Answered, After, Step
      <4>2. /\ UNCHANGED <<file, intended, clash, folders, node, boots, vm, waits, orphans, rules,
                           granted, cmd, kept, commands, host, wanted, own, excused>>
            /\ late' = late \/ (vm # 0 /\ late' = late \cup {vm})
        BY <3>1, Zenon DEF Answered, fileVars, nodeVars, vmVars, bootVars, onceVars
      <4> QED
        BY <4>1, <4>2, Zenon
    <3>2. CASE OnceStatus(o) \/ OnceChat(o)
      BY <3>2, SMT DEF OnceStatus, OnceChat, Step, fileVars, nodeVars, vmVars, bootVars, onceVars
    <3> QED
      BY <1>9, <3>1, <3>2
  <2>2. TypeOK'
    BY <2>1, SMT DEF TypeOK, Saving
  <2>3. CmdInv'
    BY <2>1, SMT DEF TypeOK, CmdInv, Saving
  <2> QED
    BY <2>2, <2>3
<1>10. ASSUME NEW o \in Operators, Leave(o) \/ StopFails(o) \/ Left(o) PROVE TypeOK' /\ CmdInv'
  <2>1. CASE Leave(o)
    BY <2>1, SMT DEF Leave, Step, TypeOK, CmdInv, fileVars, nodeVars, vmVars, onceVars, bootVars,
       Saving, Node!AskStop, Node!MayEnd
  <2>2. CASE StopFails(o)
    <3>1. /\ at' = [at EXCEPT ![o] = "idle"] /\ late' = late \cup ({waits[o]} \ {0})
          /\ waits' = [waits EXCEPT ![o] = 0] /\ excused' = [excused EXCEPT ![o] = TRUE]
          /\ UNCHANGED <<file, intended, clash, folders, node, boots, vm, orphans, rules, granted,
                         cmd, kept, commands, host, wanted, own>>
      BY <2>2, Zenon DEF StopFails, Step, fileVars, bootVars
    <3> QED
      BY <3>1, SMT DEF TypeOK, CmdInv, Saving
  <2>3. CASE Left(o)
    <3>1. /\ at' = [at EXCEPT ![o] = "idle"]
          /\ waits' \in {waits, [waits EXCEPT ![o] = 0]}
          /\ vm' \in {vm, 0}
          /\ orphans' \in {orphans, orphans \cup ({vm} \ {0})}
          /\ UNCHANGED <<file, intended, clash, folders, node, boots, late, rules, granted,
                         cmd, kept, commands, host, wanted, own, excused>>
      BY <2>3, Zenon DEF Left, Forgets, Step, fileVars, bootVars, onceVars, Node!Stopped
    <3> QED
      BY <3>1, SMT DEF TypeOK, CmdInv, Saving
  <2> QED
    BY <1>10, <2>1, <2>2, <2>3
<1>11. ASSUME NEW o \in Operators, Killed(o) PROVE TypeOK' /\ CmdInv'
  BY <1>11, SMT DEF Killed, TypeOK, CmdInv, bootVars, Saving
<1>12. CASE Ends \/ LateStop
  BY <1>12, SMT DEF Ends, LateStop, Forgets, TypeOK, CmdInv, fileVars, bootVars, onceVars, Saving,
     Node!End, Node!MayEnd
<1>13. CASE NodeChanges \/ FolderChanges \/ Repair
  <2>1. /\ UNCHANGED <<boots, rules, granted, at, cmd, kept, commands, wanted, own, excused>>
        /\ host' = host + 1
        /\ file' \in {file, Absent} /\ intended' \in {intended, Fresh}
        /\ vm' \in {vm, 0} /\ waits' \in {waits, [o \in Operators |-> 0]}
        /\ late' \in {late, {}} /\ orphans' \in {orphans, {}}
    BY <1>13, Zenon DEF NodeChanges, FolderChanges, Repair, HostStep, fileVars, nodeVars, vmVars,
       onceVars, bootVars
  <2>2. node' \in BOOLEAN /\ clash' \in BOOLEAN
    BY <1>13, Zenon DEF NodeChanges, FolderChanges, Repair, fileVars, nodeVars, vmVars, onceVars,
       TypeOK
  <2>3. folders' \subseteq Folders
    BY <1>13, SMT DEF NodeChanges, FolderChanges, Repair, TypeOK
  <2>4. TypeOK'
    BY <2>1, <2>2, <2>3, FreshType, SMT DEF TypeOK
  <2>5. CmdInv'
    BY <2>1 DEF CmdInv
  <2> QED
    BY <2>4, <2>5
<1>14. CASE UNCHANGED vars
  <2>1. UNCHANGED <<file, folders, node, boots, vm, waits, late, orphans, rules, granted, at, cmd,
                    kept, commands, host, intended, clash, wanted, own, excused>>
    BY <1>14 DEF vars, nodeVars, vmVars, onceVars, bootVars
  <2>2. TypeOK'
    BY <2>1, Zenon DEF TypeOK
  <2>3. CmdInv'
    BY <2>1 DEF CmdInv
  <2> QED
    BY <2>2, <2>3
<1> QED
  BY <1>1, <1>2, <1>3, <1>4, <1>5, <1>6, <1>7, <1>8, <1>9, <1>10, <1>11, <1>12, <1>13, <1>14
     DEF Next

LEMMA InitType == Init => TypeOK /\ CmdInv
<1> SUFFICES ASSUME Init PROVE TypeOK /\ CmdInv
  OBVIOUS
<1>1. TypeOK
  <2>1. node \in BOOLEAN /\ clash \in BOOLEAN
    BY Zenon DEF Init
  <2>2. /\ file = Absent /\ folders = {} /\ boots = 0 /\ vm = 0 /\ waits = [p \in Operators |-> 0]
        /\ rules = Fresh /\ granted = None /\ commands = 0 /\ host = 0 /\ intended = Fresh
        /\ at = [o \in Operators |-> "idle"] /\ cmd = [o \in Operators |-> None]
        /\ kept = [o \in Operators |-> Fresh] /\ wanted = [o \in Operators |-> None]
        /\ own = [o \in Operators |-> 0] /\ excused = [o \in Operators |-> FALSE]
        /\ late = {} /\ orphans = {}
    BY DEF Init, Node!Init
  <2> QED
    BY <2>1, <2>2, FreshType, SMT DEF TypeOK
<1>2. CmdInv
  BY DEF Init, CmdInv
<1> QED
  BY <1>1, <1>2

(* Every state of launch.json, of the Node and of the commands is one that *)
(* the model knows.                                                        *)
THEOREM TypeCorrect == Spec => []TypeOK
BY TypeNext, InitType, PTL DEF Spec

-----------------------------------------------------------------------------
(* Saves.                                                                  *)

(* The inductive invariant: as long as no two saves overlap, the one save  *)
(* under way holds what it will amount to, and the file is empty exactly   *)
(* while it writes.                                                        *)
OneSave == \A o, p \in Operators : at[o] \in Saving /\ at[p] \in Saving => o = p
KeptIsMeant == \A o \in Operators : at[o] \in Saving => kept[o] = Overlay(intended, cmd[o])
EmptyInWrite == \A o \in Operators : at[o] = "write" => file = Empty
FileIsMeant ==
  (\A o \in Operators : at[o] # "write") => file \in Rules \cup {Absent} /\ Loaded = intended

SaveInv == ~clash => OneSave /\ KeptIsMeant /\ EmptyInWrite /\ FileIsMeant

(* A command that can load the file finds what the saves amount to.        *)
LEMMA LoadsMeant ==
  ASSUME TypeOK, SaveInv, ~clash, NEW dirs, Loads(dirs) PROVE Loaded = intended
BY FileAssumption, SMT DEF TypeOK, SaveInv, EmptyInWrite, FileIsMeant, Loads

LEMMA IssueSaves ==
  ASSUME TypeOK, SaveInv, NEW o \in Operators, NEW c \in Issued, NEW dirs,
         NEW next \in {"truncate", "ensure", "ask", "status", "idle"},
         Issue(o, c, dirs, next),
         clash => clash', next = "truncate" /\ at'[o] = "truncate" /\ Overlaps(o) => clash'
  PROVE  SaveInv'
<1> SUFFICES ASSUME ~clash' PROVE (OneSave /\ KeptIsMeant /\ EmptyInWrite /\ FileIsMeant)'
  BY DEF SaveInv
<1>1. /\ ~clash
      /\ file' = file /\ intended' = intended
      /\ at[o] = "idle" /\ cmd' = [cmd EXCEPT ![o] = c]
  BY Zenon DEF Issue
<1>2. OneSave /\ KeptIsMeant /\ EmptyInWrite /\ FileIsMeant
  BY <1>1 DEF SaveInv
<1>3. CASE ~Accepts(c, dirs)
  <2>1. at' = at /\ kept' = kept
    BY <1>3, Zenon DEF Issue
  <2> QED
    BY <1>1, <1>2, <2>1, SMT DEF OneSave, KeptIsMeant, EmptyInWrite, FileIsMeant, Loaded, Saving,
       TypeOK
<1>4. CASE Accepts(c, dirs)
  <2>1. at' = [at EXCEPT ![o] = next] /\ kept' = [kept EXCEPT ![o] = Overlay(Loaded, c)]
    BY <1>4, Zenon DEF Issue
  <2>2. Loaded = intended
    BY <1>1, <1>4, LoadsMeant DEF Accepts
  <2>3. next = "truncate" => \A q \in Operators \ {o} : at[q] \notin Saving
    <3>1. at'[o] = next
      BY <2>1 DEF TypeOK
    <3> QED
      BY <3>1 DEF Overlaps
  <2>4. \A q \in Operators : at'[q] = IF q = o THEN next ELSE at[q]
    BY <2>1 DEF TypeOK
  <2>5. OneSave'
    BY <1>2, <2>3, <2>4, SMT DEF OneSave, Saving
  <2>6. KeptIsMeant'
    BY <1>1, <1>2, <2>1, <2>2, <2>4, SMT DEF KeptIsMeant, Saving, TypeOK
  <2>7. EmptyInWrite' /\ FileIsMeant'
    BY <1>1, <1>2, <2>4, SMT DEF EmptyInWrite, FileIsMeant, Loaded
  <2> QED
    BY <2>5, <2>6, <2>7
<1> QED
  BY <1>3, <1>4

LEMMA SaveNext == TypeOK /\ CmdInv /\ SaveInv /\ [Next]_vars => SaveInv'
<1> SUFFICES ASSUME TypeOK, CmdInv, SaveInv, [Next]_vars PROVE SaveInv'
  OBVIOUS
<1> USE DEF SaveInv, OneSave, KeptIsMeant, EmptyInWrite, FileIsMeant, Loaded, Saving, TypeOK
<1>1. ASSUME NEW o \in Operators, NEW c \in Issued, Settings(o, c) \/ StartCommand(o, c)
      PROVE  SaveInv'
  <2>1. CASE Settings(o, c)
    <3>1. (clash => clash') /\ (at'[o] = "truncate" /\ Overlaps(o) => clash')
      BY <2>1, Zenon DEF Settings
    <3> QED
      BY <2>1, <3>1, IssueSaves DEF Settings
  <2>2. CASE StartCommand(o, c)
    <3>1. clash' = clash
      BY <2>2 DEF StartCommand
    <3> QED
      BY <2>2, <3>1, IssueSaves DEF StartCommand
  <2> QED
    BY <1>1, <2>1, <2>2
<1>2. ASSUME NEW o \in Operators, Truncate(o) PROVE SaveInv'
  BY <1>2, FileAssumption, SMT DEF Truncate, Step
<1>3. ASSUME NEW o \in Operators, Write(o) PROVE SaveInv'
  <2> SUFFICES ASSUME ~clash' PROVE (OneSave /\ KeptIsMeant /\ EmptyInWrite /\ FileIsMeant)'
    OBVIOUS
  <2>1. /\ ~clash /\ cmd' = cmd /\ kept' = kept
        /\ at[o] = "write" /\ at' = [at EXCEPT ![o] = "shown"]
        /\ file' \in (IF file = Empty THEN {kept[o]} ELSE {kept[o], Garbled})
        /\ intended' = Overlay(intended, cmd[o])
    BY <1>3, Zenon DEF Write, Step
  <2>2. file = Empty /\ kept[o] = Overlay(intended, cmd[o])
    BY <2>1
  <2>3. file' = intended' /\ file' \in Rules
    BY <2>1, <2>2
  <2>4. \A q \in Operators : at'[q] \notin Saving
    BY <2>1, SMT
  <2> QED
    BY <2>3, <2>4, SMT
<1>4. ASSUME NEW o \in Operators, Killed(o) PROVE SaveInv'
  <2> SUFFICES ASSUME ~clash' PROVE (OneSave /\ KeptIsMeant /\ EmptyInWrite /\ FileIsMeant)'
    OBVIOUS
  <2>1. /\ ~clash /\ at[o] # "write"
        /\ UNCHANGED <<file, intended, cmd, kept>> /\ at' = [at EXCEPT ![o] = "idle"]
    BY <1>4, Zenon DEF Killed
  <2> QED
    BY <2>1, SMT
<1>5. CASE Repair
  BY <1>5, FileAssumption, SMT DEF Repair
<1>6. ASSUME NEW o \in Operators,
             \/ Show(o) \/ Ensure(o) \/ Ask(o) \/ Answered(o) \/ OnceStatus(o) \/ OnceChat(o)
             \/ Leave(o) \/ StopFails(o) \/ Left(o)
             \/ \E c \in Issued : VmStop(o, c) \/ Status(o, c)
      PROVE  SaveInv'
  <2>1. /\ UNCHANGED <<file, intended, clash, kept>>
        /\ at[o] \notin Saving /\ (cmd' = cmd \/ \E c : cmd' = [cmd EXCEPT ![o] = c])
        /\ \/ at' = at
           \/ \E next \in {"idle", "ask", "leave", "started", "chat", "left"} :
                at' = [at EXCEPT ![o] = next]
    BY <1>6, Zenon DEF Show, Ensure, Ask, Answered, OnceStatus, OnceChat, Leave, StopFails,
       Left, VmStop, Status, Step, After, fileVars
  <2> QED
    BY <2>1, SMT
<1>7. CASE LateStop \/ Ends \/ NodeChanges \/ FolderChanges \/ UNCHANGED vars
  <2>1. UNCHANGED <<file, intended, clash, kept, at, cmd>>
    BY <1>7, Zenon DEF LateStop, Ends, NodeChanges, FolderChanges, vars, fileVars
  <2> QED
    BY <2>1, SMT
<1> QED
  BY <1>1, <1>2, <1>3, <1>4, <1>5, <1>6, <1>7, Zenon DEF Next

LEMMA InitSave == Init => SaveInv
BY FileAssumption, SMT DEF Init, SaveInv, OneSave, KeptIsMeant, EmptyInWrite, FileIsMeant,
   Loaded, Saving

(* Between saves launch.json says what the settings commands amount to,    *)
(* unless two of them overlapped or one was killed while it wrote.         *)
THEOREM NoSaveIsLost == Spec => []NoLostUpdate
<1>1. TypeOK /\ CmdInv /\ SaveInv /\ [Next]_vars => (TypeOK /\ CmdInv /\ SaveInv)'
  BY TypeNext, SaveNext
<1>2. SaveInv => NoLostUpdate
  BY DEF SaveInv, FileIsMeant, NoLostUpdate
<1> QED
  BY <1>1, <1>2, InitType, InitSave, PTL DEF Spec

-----------------------------------------------------------------------------
(* The rules of a VM.                                                      *)

WantedIsKept ==
  /\ \A o \in Operators : wanted[o] # None => wanted[o] = kept[o]
  /\ granted # None => rules = granted

LEMMA IssueWanted ==
  ASSUME TypeOK, SaveInv, WantedIsKept, NEW o \in Operators, NEW c, NEW dirs, NEW next,
         Issue(o, c, dirs, next)
  PROVE  WantedIsKept'
<1>1. UNCHANGED <<rules, granted>>
  BY DEF Issue, bootVars
<1>2. CASE ~Accepts(c, dirs)
  BY <1>1, <1>2, Zenon DEF Issue, WantedIsKept
<1>3. CASE Accepts(c, dirs)
  <2>1. /\ kept' = [kept EXCEPT ![o] = Overlay(Loaded, c)]
        /\ wanted' = [wanted EXCEPT ![o] = IF clash THEN None ELSE Overlay(intended, c)]
    BY <1>3, Zenon DEF Issue
  <2>2. ~clash => Loaded = intended
    BY <1>3, LoadsMeant DEF Accepts
  <2> QED
    BY <1>1, <2>1, <2>2, SMT DEF WantedIsKept, TypeOK
<1> QED
  BY <1>2, <1>3

LEMMA WantedNext == TypeOK /\ SaveInv /\ WantedIsKept /\ [Next]_vars => WantedIsKept'
<1> SUFFICES ASSUME TypeOK, SaveInv, WantedIsKept, [Next]_vars PROVE WantedIsKept'
  OBVIOUS
<1>1. ASSUME NEW o \in Operators, NEW c \in Issued, Settings(o, c) \/ StartCommand(o, c)
      PROVE  WantedIsKept'
  BY <1>1, IssueWanted DEF Settings, StartCommand
<1>2. ASSUME NEW o \in Operators, Ask(o) PROVE WantedIsKept'
  <2>1. /\ kept' = kept /\ wanted' = wanted
        /\ UNCHANGED bootVars \/ (rules' = kept[o] /\ granted' = wanted[o])
    BY <1>2, Zenon DEF Ask
  <2> QED
    BY <2>1 DEF WantedIsKept, bootVars
<1>3. ASSUME NEW o \in Operators,
             \/ Truncate(o) \/ Write(o) \/ Show(o) \/ Ensure(o) \/ Answered(o) \/ OnceStatus(o)
             \/ OnceChat(o) \/ Leave(o) \/ StopFails(o) \/ Left(o) \/ Killed(o)
             \/ \E c \in Issued : VmStop(o, c) \/ Status(o, c)
      PROVE  WantedIsKept'
  <2>1. UNCHANGED <<kept, wanted, bootVars>>
    BY <1>3, Zenon DEF Truncate, Write, Show, Ensure, Answered, OnceStatus, OnceChat, Leave,
       StopFails, Left, Killed, VmStop, Status
  <2> QED
    BY <2>1 DEF WantedIsKept, bootVars
<1>4. CASE LateStop \/ Ends \/ NodeChanges \/ FolderChanges \/ Repair \/ UNCHANGED vars
  <2>1. UNCHANGED <<kept, wanted, bootVars>>
    BY <1>4, Zenon DEF LateStop, Ends, NodeChanges, FolderChanges, Repair, vars
  <2> QED
    BY <2>1 DEF WantedIsKept, bootVars
<1> QED
  BY <1>1, <1>2, <1>3, <1>4, Zenon DEF Next

(* A VM runs with the rules that the settings commands amounted to when    *)
(* the command that started it read them, with its own flags laid over.    *)
THEOREM RulesAreInForce == Spec => []RulesInForce
<1>1. TypeOK /\ CmdInv /\ SaveInv /\ WantedIsKept /\ [Next]_vars
        => (TypeOK /\ CmdInv /\ SaveInv /\ WantedIsKept)'
  BY TypeNext, SaveNext, WantedNext
<1>2. Init => WantedIsKept
  BY DEF Init, WantedIsKept
<1>3. WantedIsKept => RulesInForce
  BY DEF WantedIsKept, RulesInForce
<1> QED
  BY <1>1, <1>2, <1>3, InitType, InitSave, PTL DEF Spec

-----------------------------------------------------------------------------
(* run --once.                                                             *)

(* A VM that run --once booted with no stop pending is not forgotten while *)
(* the Node waits for no other; as long as it is up, it is still to be     *)
(* stopped by the command, or the command's stop waits for this very VM.   *)
NoOtherAwaited == late \subseteq {vm} /\ \A p \in Operators : waits[p] \in {0, vm}

OnceInv ==
  /\ ~node => vm = 0
  /\ \A o \in Operators :
       own[o] # 0 /\ ~excused[o] =>
         /\ cmd[o].kind = "once"
         /\ own[o] \notin orphans
         /\ own[o] = vm =>
              /\ at[o] \in {"started", "chat", "leave"} \/ (at[o] = "left" /\ waits[o] = vm)
              /\ NoOtherAwaited

LEMMA OnceNext == TypeOK /\ OnceInv /\ [Next]_vars => OnceInv'
<1> SUFFICES ASSUME TypeOK, OnceInv, [Next]_vars PROVE OnceInv'
  OBVIOUS
<1> USE DEF OnceInv, NoOtherAwaited
<1>1. ASSUME NEW o \in Operators, NEW c \in Issued,
             Settings(o, c) \/ StartCommand(o, c) \/ VmStop(o, c) \/ Status(o, c)
      PROVE  OnceInv'
  <2>1. /\ UNCHANGED <<node, vm, waits, late, orphans, excused>>
        /\ at[o] = "idle" /\ own' = [own EXCEPT ![o] = 0]
        /\ cmd' = [cmd EXCEPT ![o] = c] /\ (at' = at \/ \E next : at' = [at EXCEPT ![o] = next])
    BY <1>1, Zenon DEF Settings, StartCommand, VmStop, Status, Issue, Step, nodeVars, vmVars
  <2> QED
    BY <2>1, SMT DEF TypeOK
<1>2. ASSUME NEW o \in Operators, Truncate(o) \/ Write(o) \/ Show(o) \/ Ensure(o) PROVE OnceInv'
  <2>1. node' = node \/ node' = TRUE
    BY <1>2, Zenon DEF Truncate, Write, Show, Ensure, nodeVars
  <2>2. UNCHANGED <<vm, waits, late, orphans, excused, own, cmd>>
        /\ at[o] \in {"truncate", "write", "shown", "ensure"}
        /\ \E next : at' = [at EXCEPT ![o] = next]
    BY <1>2, Zenon DEF Truncate, Write, Show, Ensure, Step, nodeVars, vmVars, onceVars
  <2>3. (~node => vm = 0)'
    BY <2>1, <2>2, Zenon
  <2> QED
    BY <2>2, <2>3, SMT DEF TypeOK
<1>3. ASSUME NEW o \in Operators, Ask(o) PROVE OnceInv'
  <2>1. CASE UNCHANGED <<nodeVars, bootVars, onceVars>>
    <3>1. at[o] = "ask" /\ (\E next : at' = [at EXCEPT ![o] = next]) /\ cmd' = cmd
      BY <1>3, Zenon DEF Ask, Step
    <3>2. UNCHANGED <<node, vm, waits, late, orphans, own, excused>>
      BY <2>1 DEF nodeVars, vmVars, onceVars
    <3> QED
      BY <3>1, <3>2, SMT DEF TypeOK
  <2>2. CASE Node!Start /\ node /\ UNCHANGED <<late, orphans>>
             /\ own' = [own EXCEPT ![o] = IF cmd[o].kind = "once" THEN boots' ELSE 0]
             /\ excused' = [excused EXCEPT ![o] = Pending # {}]
             /\ Step(o, "ask", "started") /\ UNCHANGED <<node, cmd>>
    <3>1. boots' = boots + 1 /\ vm' = boots' /\ waits' = waits /\ vm = 0
      BY <2>2 DEF Node!Start
    <3>2. ~excused'[o] => late = {} /\ \A p \in Operators : waits[p] = 0
      <4>1. excused'[o] = (Pending # {})
        BY <2>2, Zenon DEF TypeOK
      <4>2. 0 \notin late /\ \A p \in Operators : waits[p] \in {waits[q] : q \in Operators}
        BY SMT DEF TypeOK
      <4> QED
        BY <4>1, <4>2, Zenon DEF Pending
    <3>3. boots' \notin orphans
      BY <3>1, SMT DEF TypeOK
    <3>4. ASSUME NEW q \in Operators, q # o
          PROVE  UNCHANGED <<own[q], excused[q], at[q]>> /\ own[q] # vm'
      BY <2>2, <3>1, <3>4, SMT DEF Step, TypeOK
    <3>5. at'[o] = "started" /\ own'[o] \in {0, boots'} /\ (own'[o] # 0 => cmd[o].kind = "once")
      BY <2>2, SMT DEF Step, TypeOK
    <3> QED
      BY <2>2, <3>1, <3>2, <3>3, <3>4, <3>5, SMT
  <2> QED
    BY <1>3, <2>1, <2>2, Zenon DEF Ask
<1>4. ASSUME NEW o \in Operators, Answered(o) PROVE OnceInv'
  BY <1>4, SMT DEF Answered, After, Step, TypeOK, nodeVars, vmVars, onceVars
<1>5. ASSUME NEW o \in Operators, OnceStatus(o) \/ OnceChat(o) PROVE OnceInv'
  BY <1>5, SMT DEF OnceStatus, OnceChat, Step, TypeOK, nodeVars, vmVars, onceVars
<1>6. ASSUME NEW o \in Operators, Leave(o) PROVE OnceInv'
  BY <1>6, SMT DEF Leave, Step, TypeOK, nodeVars, vmVars, onceVars, Node!AskStop, Node!MayEnd
<1>7. ASSUME NEW o \in Operators, StopFails(o) PROVE OnceInv'
  BY <1>7, SMT DEF StopFails, Step, TypeOK
<1>8. ASSUME NEW o \in Operators, Left(o) PROVE OnceInv'
  BY <1>8, SMT DEF Left, Forgets, Step, TypeOK, onceVars, Node!Stopped, Node!MayEnd
<1>9. ASSUME NEW o \in Operators, Killed(o) PROVE OnceInv'
  BY <1>9, SMT DEF Killed, TypeOK
<1>10. CASE LateStop
  BY <1>10, SMT DEF LateStop, Forgets, TypeOK, onceVars, Node!End, Node!MayEnd
<1>11. CASE Ends
  BY <1>11, SMT DEF Ends, TypeOK, onceVars, Node!End, Node!MayEnd
<1>12. CASE NodeChanges
  BY <1>12, SMT DEF NodeChanges, TypeOK, onceVars
<1>13. CASE FolderChanges \/ Repair \/ UNCHANGED vars
  <2>1. UNCHANGED <<node, vm, waits, late, orphans, own, excused, cmd, at>>
    BY <1>13, Zenon DEF FolderChanges, Repair, vars, nodeVars, vmVars, onceVars
  <2> QED
    BY <2>1
<1> QED
  BY <1>1, <1>2, <1>3, <1>4, <1>5, <1>6, <1>7, <1>8, <1>9, <1>10, <1>11, <1>12, <1>13, Zenon
     DEF Next

(* run --once leaves no VM behind that it booted, whether or not the Node  *)
(* knows of it, unless the command was killed, its stop failed, or its     *)
(* start was accepted while the Node still waited for an earlier VM.       *)
THEOREM OnceCleansUp == Spec => []OnceLeavesNothing
<1>1. TypeOK /\ CmdInv /\ OnceInv /\ [Next]_vars => (TypeOK /\ CmdInv /\ OnceInv)'
  BY TypeNext, OnceNext
<1>2. Init => OnceInv
  BY SMT DEF Init, OnceInv, Node!Init
<1>3. OnceInv => OnceLeavesNothing
  BY DEF OnceInv, OnceLeavesNothing
<1> QED
  BY <1>1, <1>2, <1>3, InitType, PTL DEF Spec
=============================================================================
