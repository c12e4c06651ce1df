--------------------------- MODULE ToolCallsProofs ---------------------------
(***************************************************************************)
(* The audit record of the tool calls and the folder they run on, proved   *)
(* for any folder, any contents, any launches and any number of calls,     *)
(* connections and changes by the operator.                                *)
(***************************************************************************)
EXTENDS ToolCalls, WellFoundedInduction, TLAPS

-----------------------------------------------------------------------------
(* Verdicts.                                                               *)

(* A file tool is allowed only to the operator, if it was launched and     *)
(* there is a folder.                                                      *)
LEMMA VerdictGrants ==
  ASSUME NEW c \in Calls, launch \in Launched
  PROVE  /\ Verdict(c) \in Decisions
         /\ Verdict(c) = "allow" =>
              launch.role = "operator" /\ c.tool \in launch.allowed /\ launch.workspace
<1> DEFINE m == Hop(c)
           rules == Filter!Rules(launch)
           rule == CHOOSE r \in rules : Filter!Matches(r, m)
<1>1. launch \in [allowed : SUBSET FileTools, role : {"operator", "user"}, workspace : BOOLEAN]
  BY LaunchedAssumption DEF Filter!Launches
<1>2. c.tool \in FileTools
  BY DEF Calls, FileTools
<1>3. m.source = "engine1" /\ m.type = "tool_call" /\ m.tool = c.tool
  BY DEF Hop
<1>4. \A r \in rules : r.action \in Decisions
  BY SMT DEF Filter!Rules, Filter!ChatRules, Filter!ToolRules, Filter!Rule, Decisions
<1>5. \A r \in rules :
        Filter!Matches(r, m) /\ r.action = "allow" =>
          launch.role = "operator" /\ c.tool \in launch.allowed
  BY <1>1, <1>2, <1>3, SMT
     DEF Filter!Rules, Filter!ChatRules, Filter!ToolRules, Filter!Rule, Filter!Matches,
         Filter!NoTool, Filter!Any, FileTools
<1>6. ASSUME NEW r \in rules, Filter!Matches(r, m) PROVE rule \in rules /\ Filter!Matches(rule, m)
  BY <1>6, Zenon
<1>7. ~Filter!WrongPath(m)
  BY <1>3, SMT DEF Filter!WrongPath, Filter!AllowedOutbound
<1> HIDE DEF m, rules, rule
<1>8. CASE c.tool \notin launch.allowed \/ ~launch.workspace \/ Filter!Escapes(m)
  <2>1. Verdict(c) = "deny"
    BY <1>2, <1>3, <1>7, <1>8, SMT DEF Verdict, Filter!Evaluate, Filter!Verdict, m
  <2> QED
    BY <2>1 DEF Decisions
<1>9. CASE c.tool \in launch.allowed /\ launch.workspace /\ ~Filter!Escapes(m)
  <2>1. Verdict(c) = IF \E r \in rules : Filter!Matches(r, m) THEN rule.action ELSE "deny"
    BY <1>2, <1>3, <1>7, <1>9, SMT DEF Verdict, Filter!Evaluate, Filter!Verdict, m, rules, rule
  <2> QED
    BY <1>4, <1>5, <1>6, <1>9, <2>1, Zenon DEF Decisions
<1> QED
  BY <1>8, <1>9

-----------------------------------------------------------------------------
(* The audit file.                                                         *)

Lines == [record : Entries, chain : Seq(Entries)]
Kinds == {"hop", "reply"} \cup Decisions

(* Where a session is, and what it serves.                                 *)
Serves ==
  /\ launch \in Launched
  /\ heard \in Numbers
  /\ sess \in {"heard", "ruled"} => call \in Calls
  /\ sess = "ruled" => verdict = Verdict(call)
  /\ conns \in Nat \ {0}

LEMMA ServesNext == Serves /\ [Next]_vars => Serves'
<1> SUFFICES ASSUME Serves, [Next]_vars PROVE Serves'
  OBVIOUS
<1> USE DEF Serves, Numbers
<1>1. ASSUME NEW c \in Calls, Hear(c) PROVE Serves'
  <2>1. launch' = launch /\ conns' = conns /\ heard' = heard + 1 /\ heard < MaxCalls /\ call' = c
        /\ sess' \in {"over", "heard"}
    BY <1>1, Zenon DEF Hear, LogFails, nodeVars
  <2> QED
    BY <2>1, BoundsAssumption, SMT
<1>2. CASE Rule
  BY <1>2, SMT DEF Rule, LogFails, Verdict, nodeVars
<1>3. CASE Act
  <2>1. launch' = launch /\ conns' = conns /\ heard' = heard /\ sess' \in {"over", "acted"}
    BY <1>3, Zenon DEF Act, nodeVars
  <2> QED
    BY <2>1, SMT
<1>4. CASE Answer
  <2>1. launch' = launch /\ conns' = conns /\ heard' = heard /\ sess' \in {"over", "read"}
    BY <1>4, Zenon DEF Answer, LogFails, nodeVars
  <2> QED
    BY <2>1, SMT
<1>5. CASE Die
  BY <1>5, SMT DEF Die
<1>6. CASE Reconnect
  BY <1>6, SMT DEF Reconnect
<1>7. CASE Edit \/ Tamper \/ UNCHANGED vars
  <2>1. launch' = launch /\ conns' = conns /\ heard' = heard /\ sess' = sess /\ call' = call
        /\ verdict' = verdict
    BY <1>7, Zenon DEF Edit, Tamper, vars, callVars, nodeVars
  <2> QED
    BY <2>1, SMT DEF Verdict
<1> QED
  BY <1>1, <1>2, <1>3, <1>4, <1>5, <1>6, <1>7 DEF Next

TypeFile == file \in Seq(Lines) /\ prev \in Seq(Entries)

(* The digest of the last line.                                            *)
LastDigest == IF file = <<>> THEN Zero ELSE file[Len(file)].chain

Holds(f, n, what) == \E i \in DOMAIN f : f[i].record = [n |-> n, what |-> what]

Chained == Verifies(file) /\ prev = LastDigest

(* What an append does to the file.                                        *)
LEMMA LogExtends ==
  ASSUME TypeFile, NEW n \in Numbers, NEW what \in Kinds, Log(n, what)
  PROVE  /\ TypeFile'
         /\ Holds(file', n, what)
         /\ \A k, w : Holds(file, k, w) => Holds(file', k, w)
         /\ Chained => Chained'
<1> DEFINE record == [n |-> n, what |-> what]
           line == Line(prev, record)
<1>1. record \in Entries
  BY SMT DEF Entries, Kinds, Decisions
<1>2. Digest(prev, record) \in Seq(Entries)
  BY <1>1, SMT DEF TypeFile, Digest
<1>3. line \in Lines /\ line.record = record /\ line.chain = Digest(prev, record)
  BY <1>1, <1>2 DEF Line, Lines
<1>4. file' = Append(file, line) /\ prev' = Digest(prev, record)
  BY DEF Log
<1> HIDE DEF line
<1>5. TypeFile'
  BY <1>2, <1>3, <1>4, SMT DEF TypeFile
<1>6. /\ Len(file') = Len(file) + 1 /\ DOMAIN file' = 1..Len(file')
      /\ DOMAIN file = 1..Len(file) /\ Len(file) \in Nat
      /\ file'[Len(file')] = line
      /\ \A i \in 1..Len(file) : file'[i] = file[i]
  BY <1>3, <1>4, SMT DEF TypeFile
<1>7. Holds(file', n, what)
  BY <1>3, <1>6, SMT DEF Holds
<1>8. \A k, w : Holds(file, k, w) => Holds(file', k, w)
  BY <1>6, SMT DEF Holds
<1>9. ASSUME Chained PROVE Chained'
  <2>1. prev' = LastDigest'
    BY <1>3, <1>4, <1>6, SMT DEF LastDigest
  <2>2. ASSUME NEW i \in DOMAIN file'
        PROVE  file'[i].chain = Digest(Before(file', i), file'[i].record)
    <3>1. CASE i \in 1..Len(file)
      <4>1. Before(file', i) = Before(file, i)
        BY <1>6, <3>1, SMT DEF Before
      <4> QED
        BY <1>6, <1>9, <3>1, <4>1 DEF Chained, Verifies
    <3>2. CASE i = Len(file')
      <4>1. Before(file', i) = prev
        BY <1>6, <1>9, <3>2, SMT DEF Before, Chained, LastDigest, TypeFile
      <4> QED
        BY <1>3, <1>6, <3>2, <4>1
    <3> QED
      BY <1>6, <2>2, <3>1, <3>2, SMT
  <2> QED
    BY <2>1, <2>2 DEF Chained, Verifies
<1> QED
  BY <1>5, <1>7, <1>8, <1>9

(* What every action does to the file, as long as the host leaves it       *)
(* alone.                                                                  *)
Logs ==
  \/ UNCHANGED <<file, prev>>
  \/ \E n \in Numbers, what \in Kinds : Log(n, what)

LEMMA NextLogs ==
  ASSUME Serves, [Next]_vars, ~tampered', ~lost'
  PROVE  ~tampered /\ ~lost /\ (Logs \/ Reconnect)
<1>1. ASSUME NEW c \in Calls, Hear(c) PROVE UNCHANGED <<tampered, lost>> /\ Logs
  <2>1. heard + 1 \in Numbers
    BY <1>1, BoundsAssumption, SMT DEF Hear, Numbers, Serves
  <2> QED
    BY <1>1, <2>1, Zenon DEF Hear, LogFails, Logs, auditVars, nodeVars, hostVars, Kinds
<1>2. CASE Rule
  <2>1. verdict' \in Kinds
    BY <1>2, VerdictGrants DEF Rule, Serves, Kinds
  <2> QED
    BY <1>2, <2>1, Zenon DEF Rule, LogFails, Logs, nodeVars, hostVars, Serves
<1>3. CASE Answer
  BY <1>3, Zenon DEF Answer, LogFails, Logs, nodeVars, hostVars, Serves, Kinds
<1>4. CASE Act \/ Die \/ Edit \/ UNCHANGED vars
  <2>1. UNCHANGED <<file, prev, tampered, lost>>
    BY <1>4, Zenon DEF Act, Die, Edit, vars, auditVars, nodeVars, hostVars
  <2> QED
    BY <2>1 DEF Logs
<1>5. CASE Reconnect
  BY <1>5, Zenon DEF Reconnect, hostVars
<1>6. CASE Tamper
  BY <1>6 DEF Tamper
<1> QED
  BY <1>1, <1>2, <1>3, <1>4, <1>5, <1>6, Zenon DEF Next

(* The inductive invariant: the verdict that lets a tool run is on record  *)
(* before the tool runs, and the store of the first connection carries the *)
(* digest of the last line, for as long as the host lives; what is left    *)
(* when it has died is a start of the file.                                *)
RecordInv ==
  /\ lost => ~alive /\ sess = "over"
  /\ ~tampered =>
       /\ TypeFile
       /\ conns = 1 => Verifies(file)
       /\ ~lost =>
            /\ \A n \in ran : Holds(file, n, "allow")
            /\ sess = "ruled" => Holds(file, heard, verdict)
            /\ conns = 1 => Chained

LEMMA RecordLives ==
  ASSUME Serves, RecordInv, [Next]_vars, ~tampered', ~lost'
  PROVE  /\ TypeFile'
         /\ \A n \in ran' : Holds(file', n, "allow")
         /\ sess' = "ruled" => Holds(file', heard', verdict')
         /\ conns' = 1 => Chained'
<1>1. ~tampered /\ ~lost /\ (Logs \/ Reconnect)
  BY NextLogs
<1>2. /\ TypeFile
      /\ \A n \in ran : Holds(file, n, "allow")
      /\ sess = "ruled" => Holds(file, heard, verdict)
      /\ conns = 1 => Chained
  BY <1>1 DEF RecordInv
<1>3. /\ TypeFile'
      /\ \A n, what : Holds(file, n, what) => Holds(file', n, what)
      /\ ~Reconnect /\ Chained => Chained'
  <2>1. ASSUME NEW n \in Numbers, NEW what \in Kinds, Log(n, what)
        PROVE  /\ TypeFile' /\ (Chained => Chained')
               /\ \A k, w : Holds(file, k, w) => Holds(file', k, w)
    BY <1>2, <2>1, LogExtends
  <2>2. ASSUME UNCHANGED <<file, prev>>
        PROVE  /\ TypeFile' /\ (Chained => Chained')
               /\ \A k, w : Holds(file, k, w) => Holds(file', k, w)
    BY <1>2, <2>2 DEF TypeFile, Chained, LastDigest, Holds
  <2>3. CASE Reconnect
    BY <1>2, <2>3, SMT DEF Reconnect, TypeFile, Holds, Zero
  <2> QED
    BY <1>1, <2>1, <2>2, <2>3 DEF Logs
<1>4. \A n \in ran' : Holds(file', n, "allow")
  <2>1. ran' = ran \/ (sess = "ruled" /\ verdict = "allow" /\ ran' = ran \cup {heard})
    BY Zenon DEF Next, vars, Hear, Rule, Act, Answer, Die, Reconnect, Edit, Tamper
  <2> QED
    BY <1>2, <1>3, <2>1, Zenon
<1>5. ASSUME sess' = "ruled" PROVE Holds(file', heard', verdict')
  <2>1. CASE Rule
    <3>1. Log(heard, verdict') /\ heard' = heard
      BY <1>5, <2>1, SMT DEF Rule, LogFails
    <3>2. heard \in Numbers /\ verdict' \in Kinds
      BY <2>1, VerdictGrants DEF Rule, Serves, Kinds
    <3> QED
      BY <1>2, <3>1, <3>2, LogExtends
  <2>2. CASE ~Rule
    <3>1. \A c \in Calls : ~Hear(c)
      BY <1>5, SMT DEF Hear, LogFails
    <3>2. ~Act /\ ~Answer /\ ~Die /\ ~Reconnect
      BY <1>5, SMT DEF Act, Answer, Die, Reconnect, LogFails
    <3>3. Edit \/ Tamper \/ UNCHANGED vars
      BY <2>2, <3>1, <3>2 DEF Next
    <3>4. sess = "ruled" /\ heard' = heard /\ verdict' = verdict
      BY <1>5, <3>3, Zenon DEF Edit, Tamper, vars, callVars
    <3> QED
      BY <1>2, <1>3, <3>4
  <2> QED
    BY <2>1, <2>2
<1>6. ASSUME conns' = 1 PROVE Chained'
  <2>1. ~Reconnect /\ conns = 1
    <3>1. conns' = conns \/ (Reconnect /\ conns' = conns + 1)
      BY Zenon
         DEF Next, vars, nodeVars, Hear, Rule, Act, Answer, Die, Reconnect, Edit, Tamper
    <3> QED
      BY <1>6, <3>1, SMT DEF Serves, Reconnect
  <2> QED
    BY <1>2, <1>3, <2>1
<1> QED
  BY <1>3, <1>4, <1>5, <1>6

(* What the host's death leaves of the file.                               *)
LEMMA CutVerifies ==
  ASSUME NEW f \in Seq(Lines), NEW k \in 0..Len(f)
  PROVE  /\ SubSeq(f, 1, k) \in Seq(Lines)
         /\ Verifies(f) => Verifies(SubSeq(f, 1, k))
<1> DEFINE g == SubSeq(f, 1, k)
<1>1. /\ g \in Seq(Lines) /\ Len(g) = k /\ DOMAIN g = 1..k /\ DOMAIN f = 1..Len(f)
      /\ Len(f) \in Nat /\ \A i \in 1..k : g[i] = f[i]
  BY SMT
<1> HIDE DEF g
<1>2. ASSUME Verifies(f), NEW i \in DOMAIN g
      PROVE  g[i].chain = Digest(Before(g, i), g[i].record)
  <2>1. i \in DOMAIN f /\ g[i] = f[i]
    BY <1>1, <1>2, SMT
  <2>2. Before(g, i) = Before(f, i)
    BY <1>1, <1>2, SMT DEF Before
  <2> QED
    BY <1>2, <2>1, <2>2, Zenon DEF Verifies
<1>3. Verifies(f) => Verifies(g)
  BY <1>2, Zenon DEF Verifies
<1> QED
  BY <1>1, <1>3 DEF g

LEMMA RecordNext == Serves /\ RecordInv /\ [Next]_vars => RecordInv'
<1> SUFFICES ASSUME Serves, RecordInv, [Next]_vars PROVE RecordInv'
  OBVIOUS
<1>1. CASE lost
  <2>1. UNCHANGED vars
    BY <1>1, Zenon DEF RecordInv, Next, Hear, Rule, Act, Answer, Die, Reconnect, Edit, Tamper
  <2> QED
    BY <1>1, <2>1, Zenon
       DEF RecordInv, TypeFile, vars, auditVars, callVars, nodeVars, hostVars
<1>2. CASE ~lost /\ lost'
  <2>1. Die /\ \E k \in 0..Len(file) : file' = SubSeq(file, 1, k)
    BY <1>2, Zenon DEF Next, vars, nodeVars, Hear, Rule, Act, Answer, Die, Reconnect, Edit, Tamper
  <2>2. ~alive' /\ sess' = "over" /\ UNCHANGED <<prev, conns, tampered>>
    BY <2>1, Zenon DEF Die, hostVars
  <2>3. ~tampered => TypeFile' /\ (conns = 1 => Verifies(file'))
    BY <2>1, <2>2, CutVerifies, Zenon DEF RecordInv, TypeFile
  <2> QED
    BY <1>2, <2>2, <2>3, Zenon DEF RecordInv
<1>3. CASE ~lost'
  BY <1>3, RecordLives, Zenon DEF RecordInv, Chained
<1> QED
  BY <1>1, <1>2, <1>3, Zenon

LEMMA InitRecord == Init => Serves /\ RecordInv
<1> SUFFICES ASSUME Init PROVE Serves /\ RecordInv
  OBVIOUS
<1>1. Serves
  BY BoundsAssumption, SMT DEF Init, Serves, Numbers
<1>2. file = <<>> /\ prev = <<>> /\ ran = {} /\ sess = "read"
  BY DEF Init, Zero
<1>3. TypeFile
  BY <1>2, SMT DEF TypeFile
<1>4. Chained
  BY <1>2, SMT DEF Chained, Verifies, LastDigest, Zero
<1>5. ~lost
  BY DEF Init
<1> QED
  BY <1>1, <1>2, <1>3, <1>4, <1>5 DEF RecordInv, Chained

(* Write-ahead: whatever ran on the folder is on record with the verdict   *)
(* that let it run, through deaths of the Node, tools that raise, a full   *)
(* disk and any number of connections, unless the host has died.           *)
THEOREM RecordsEffects == Spec => []EffectIsRecorded
<1>1. Serves /\ RecordInv /\ [Next]_vars => (Serves /\ RecordInv)'
  BY ServesNext, RecordNext
<1>2. RecordInv => EffectIsRecorded
  BY DEF RecordInv, EffectIsRecorded, Holds
<1> QED
  BY <1>1, <1>2, InitRecord, PTL DEF Spec

(* verify_chain accepts what the store of the one connection has written.  *)
THEOREM ChainVerifies == Spec => []ChainHolds
<1>1. Serves /\ RecordInv /\ [Next]_vars => (Serves /\ RecordInv)'
  BY ServesNext, RecordNext
<1>2. RecordInv => ChainHolds
  BY DEF RecordInv, ChainHolds
<1> QED
  BY <1>1, <1>2, InitRecord, PTL DEF Spec

-----------------------------------------------------------------------------
(* What verify_chain shows.                                                *)

LEMMA LeastElement ==
  ASSUME NEW T \in SUBSET Nat, T # {}
  PROVE  \E k \in T : \A j \in T : k <= j
<1> DEFINE less == {ss \in Nat \X Nat : ss[1] < ss[2]}
<1>1. IsWellFoundedOn(less, Nat)
  BY NatLessThanWellFounded, Zenon DEF OpToRel
<1>2. \A j, k \in Nat : j < k => <<j, k>> \in less
  OBVIOUS
<1> HIDE DEF less
<1>3. PICK k \in T : \A j \in T : ~(<<j, k>> \in less)
  BY <1>1, WFMin, Zenon
<1>4. ASSUME NEW j \in T PROVE k <= j
  <2>1. j \in Nat /\ k \in Nat /\ ~(j < k)
    BY <1>2, <1>3, Zenon
  <2> QED
    BY <2>1, SMT
<1> QED
  BY <1>4

LEMMA LineFacts ==
  ASSUME NEW f \in Seq(Lines)
  PROVE  /\ Len(f) \in Nat /\ DOMAIN f = 1..Len(f)
         /\ \A i \in 1..Len(f) :
              /\ f[i].chain \in Seq(Entries) /\ Before(f, i) \in Seq(Entries)
              /\ f[i].record \in Entries
<1>1. /\ Len(f) \in Nat /\ DOMAIN f = 1..Len(f)
      /\ \A i \in 1..Len(f) : f[i] \in Lines
  OBVIOUS
<1>2. \A l \in Lines : l.chain \in Seq(Entries) /\ l.record \in Entries
  BY DEF Lines
<1>3. \A i \in 1..Len(f) : f[i].chain \in Seq(Entries) /\ f[i].record \in Entries
  BY <1>1, <1>2, Zenon
<1>4. ASSUME NEW i \in 1..Len(f) PROVE Before(f, i) \in Seq(Entries)
  <2>1. CASE i = 1
    BY <2>1, SMT DEF Before, Zero
  <2>2. CASE i # 1
    <3>1. i - 1 \in 1..Len(f) /\ Before(f, i) = f[i - 1].chain
      BY <1>1, <2>2, SMT DEF Before
    <3> QED
      BY <1>3, <3>1, Zenon
  <2> QED
    BY <2>1, <2>2
<1> QED
  BY <1>1, <1>3, <1>4

(* In a file that verifies, the digest of a line is that of the records up *)
(* to it: the first line of which this were not so would go on from one of *)
(* which it is.                                                            *)
LEMMA DigestsCover ==
  ASSUME NEW f \in Seq(Lines), Verifies(f)
  PROVE  \A i \in 1..Len(f) : f[i].chain = SubSeq(Records(f), 1, i)
<1> DEFINE rs == Records(f)
           bad == {i \in 1..Len(f) : f[i].chain # SubSeq(rs, 1, i)}
<1>1. rs \in Seq(Entries) /\ Len(rs) = Len(f) /\ \A i \in 1..Len(f) : rs[i] = f[i].record
  <2>1. rs \in [1..Len(f) -> Entries] /\ \A i \in 1..Len(f) : rs[i] = f[i].record
    BY LineFacts DEF Records
  <2> HIDE DEF rs
  <2> QED
    BY <2>1, LineFacts, SMT
<1> HIDE DEF rs
<1>2. ASSUME bad # {} PROVE FALSE
  <2>1. bad \in SUBSET Nat
    BY SMT
  <2>2. PICK k \in bad : \A j \in bad : k <= j
    BY <1>2, <2>1, LeastElement
  <2>3. k \in 1..Len(f) /\ f[k].chain # SubSeq(rs, 1, k) /\ Len(f) \in Nat
    BY <2>2, SMT
  <2>4. f[k].chain = Append(Before(f, k), f[k].record)
    BY <2>3, LineFacts, Zenon DEF Verifies, Digest
  <2>5. Before(f, k) = SubSeq(rs, 1, k - 1)
    <3>1. CASE k = 1
      BY <1>1, <3>1, SMT DEF Before, Zero
    <3>2. CASE k # 1
      <4>1. k - 1 \in 1..Len(f) /\ Before(f, k) = f[k - 1].chain
        BY <2>3, <3>2, SMT DEF Before
      <4>2. k - 1 \notin bad
        BY <2>2, <2>3, SMT
      <4> QED
        BY <4>1, <4>2
    <3> QED
      BY <3>1, <3>2
  <2>6. Append(SubSeq(rs, 1, k - 1), rs[k]) = SubSeq(rs, 1, k)
    BY <1>1, <2>3, SMT
  <2> QED
    BY <1>1, <2>3, <2>4, <2>5, <2>6
<1> QED
  BY <1>2 DEF rs

(* So the digest of its last line is that of all its records.              *)
LEMMA LastCovers ==
  ASSUME NEW f \in Seq(Lines), Verifies(f), f # <<>>
  PROVE  f[Len(f)].chain = Records(f)
<1> DEFINE rs == Records(f)
<1>1. rs \in [1..Len(f) -> Entries]
  BY LineFacts DEF Records
<1>2. Len(f) \in 1..Len(f)
  BY SMT
<1>3. f[Len(f)].chain = SubSeq(rs, 1, Len(f))
  BY <1>2, DigestsCover
<1> HIDE DEF rs
<1>4. SubSeq(rs, 1, Len(f)) = rs
  BY <1>1, <1>2, SMT
<1> QED
  BY <1>3, <1>4 DEF rs

LEMMA WithoutSome ==
  ASSUME NEW S, NEW s \in Seq(S), NEW i \in 1..Len(s), NEW j \in 1..Len(s)
  PROVE  SubSeq(s, 1, i - 1) \o SubSeq(s, j + 1, Len(s)) \in Seq(S)
<1>1. SubSeq(s, 1, i - 1) \in Seq(S)
  BY SMT
<1>2. SubSeq(s, j + 1, Len(s)) \in Seq(S)
  BY SMT
<1> QED
  BY <1>1, <1>2, SMT

(* Whatever is made of the file, it is lines.                              *)
LEMMA TamperKeepsLines ==
  ASSUME file \in Seq(Lines), Tamper
  PROVE  file' \in Seq(Lines)
<1>1. Len(file) \in Nat /\ DOMAIN file = 1..Len(file) /\ \A i \in 1..Len(file) : file[i] \in Lines
  OBVIOUS
<1>2. ASSUME NEW i \in 1..Len(file), NEW r \in Entries
      PROVE  [file EXCEPT ![i].record = r] \in Seq(Lines)
  <2> DEFINE line == [file[i] EXCEPT !.record = r]
  <2>1. line \in Lines
    BY <1>1 DEF Lines
  <2>2. [file EXCEPT ![i].record = r] = [file EXCEPT ![i] = line]
    OBVIOUS
  <2> HIDE DEF line
  <2> QED
    BY <1>1, <2>1, <2>2, SMT
<1>3. ASSUME NEW i \in 1..Len(file), NEW j \in 1..Len(file)
      PROVE  [file EXCEPT ![i] = file[j], ![j] = file[i]] \in Seq(Lines)
  BY <1>1, SMT
<1>4. [n |-> 0, what |-> "hop"] \in Entries
  BY BoundsAssumption, SMT DEF Entries, Numbers
<1>5. ASSUME NEW f \in Seq(Lines) PROVE Chain(Records(f)) \in Seq(Lines)
  <2> DEFINE rs == Records(f)
  <2>1. rs \in [1..Len(f) -> Entries] /\ Len(f) \in Nat
    BY LineFacts DEF Records
  <2> HIDE DEF rs
  <2>2. rs \in Seq(Entries) /\ DOMAIN rs = 1..Len(f)
    BY <2>1, SMT
  <2>3. \A i \in 1..Len(f) : SubSeq(rs, 1, i) \in Seq(Entries) /\ rs[i] \in Entries
    BY <2>1, <2>2, SMT
  <2>4. Chain(rs) \in [1..Len(f) -> Lines]
    BY <2>2, <2>3, Zenon DEF Chain, Lines
  <2> QED
    BY <2>1, <2>4, SMT DEF rs
<1>6. ASSUME NEW i \in 1..Len(file), NEW j \in 1..Len(file), NEW f \in Touched(i, j)
      PROVE  f \in Seq(Lines)
  <2>1. [file EXCEPT ![i].record = [n |-> 0, what |-> "hop"]] \in Seq(Lines)
    BY <1>2, <1>4
  <2>2. [file EXCEPT ![i] = file[j], ![j] = file[i]] \in Seq(Lines)
    BY <1>3
  <2>3. SubSeq(file, 1, i - 1) \o SubSeq(file, j + 1, Len(file)) \in Seq(Lines)
    BY WithoutSome
  <2> QED
    BY <2>1, <2>2, <2>3 DEF Touched
<1> QED
  BY <1>1, <1>5, <1>6, Zenon DEF Tamper

(* The inductive invariant: a store carries the digest of all that it has  *)
(* written, whatever has become of the file.                               *)
WrittenInv ==
  /\ file \in Seq(Lines) /\ wrote \in Seq(Entries)
  /\ prev = wrote

LEMMA LogWrites ==
  ASSUME WrittenInv, NEW n \in Numbers, NEW what \in Kinds, Log(n, what)
  PROVE  WrittenInv'
<1> DEFINE record == [n |-> n, what |-> what]
<1>1. file' \in Seq(Lines)
  BY LogExtends DEF WrittenInv, TypeFile
<1>2. record \in Entries
  BY SMT DEF Entries, Kinds, Decisions
<1>3. prev' = Append(prev, record) /\ wrote' = Append(wrote, record)
  BY DEF Log, Digest
<1> HIDE DEF record
<1> QED
  BY <1>1, <1>2, <1>3, SMT DEF WrittenInv

LEMMA WrittenNext == Serves /\ WrittenInv /\ [Next]_vars => WrittenInv'
<1> SUFFICES ASSUME Serves, WrittenInv, [Next]_vars PROVE WrittenInv'
  OBVIOUS
<1>1. ASSUME UNCHANGED <<file, prev, wrote>> PROVE WrittenInv'
  BY <1>1 DEF WrittenInv
<1>2. ASSUME UNCHANGED auditVars PROVE WrittenInv'
  BY <1>1, <1>2 DEF auditVars
<1>3. ASSUME NEW c \in Calls, Hear(c) PROVE WrittenInv'
  <2>1. heard + 1 \in Numbers /\ "hop" \in Kinds
    BY <1>3, BoundsAssumption, SMT DEF Hear, Numbers, Serves, Kinds
  <2> QED
    BY <1>1, <1>2, <1>3, <2>1, LogWrites, Zenon DEF Hear, LogFails
<1>4. CASE Rule
  <2>1. verdict' \in Kinds /\ heard \in Numbers
    BY <1>4, VerdictGrants DEF Rule, Serves, Kinds
  <2> QED
    BY <1>1, <1>4, <2>1, LogWrites, Zenon DEF Rule, LogFails
<1>5. CASE Answer
  <2>1. "reply" \in Kinds /\ heard \in Numbers
    BY DEF Serves, Kinds
  <2> QED
    BY <1>1, <1>5, <2>1, LogWrites, Zenon DEF Answer, LogFails
<1>6. CASE Act \/ Edit \/ UNCHANGED vars
  BY <1>2, <1>6, Zenon DEF Act, Edit, vars
<1>7. CASE Die
  <2>1. UNCHANGED <<prev, wrote>>
    BY <1>7, Zenon DEF Die
  <2>2. file' = file \/ \E k \in 0..Len(file) : file' = SubSeq(file, 1, k)
    BY <1>7, Zenon DEF Die
  <2> QED
    BY <2>1, <2>2, CutVerifies, Zenon DEF WrittenInv
<1>8. CASE Reconnect
  BY <1>8, SMT DEF Reconnect, WrittenInv, Zero
<1>9. CASE Tamper
  <2>1. UNCHANGED <<prev, wrote>>
    BY <1>9, Zenon DEF Tamper
  <2> QED
    BY <1>9, <2>1, TamperKeepsLines DEF WrittenInv
<1> QED
  BY <1>3, <1>4, <1>5, <1>6, <1>7, <1>8, <1>9 DEF Next

(* A file that ends in a line of the session that runs is accepted only if *)
(* it is all that the session's store has recorded, whatever was changed,  *)
(* swapped or removed and whether or not the digests were made anew.       *)
THEOREM TamperingShows == Spec => []TamperShows
<1>1. Init => Serves /\ WrittenInv
  BY InitRecord, SMT DEF Init, WrittenInv, TypeFile, Zero
<1>2. Serves /\ WrittenInv /\ [Next]_vars => (Serves /\ WrittenInv)'
  BY ServesNext, WrittenNext
<1>3. WrittenInv => TamperShows
  BY LastCovers, Zenon DEF WrittenInv, TamperShows
<1> QED
  BY <1>1, <1>2, <1>3, PTL DEF Spec

-----------------------------------------------------------------------------
(* The folder.                                                             *)

Entry == {Absent, Dir} \cup Links \cup Files
SubEntry == {Absent} \cup Files

(* A path has at most two names, which are names of entries unless it is   *)
(* one of the special ones.                                                *)
LEMMA PathShape ==
  ASSUME NEW p \in Paths
  PROVE  \/ p \in {<<>>, <<Up>>, <<TooLong>>}
         \/ \E n \in Names : p = <<n>> /\ Len(p) = 1 /\ p[1] = n
         \/ \E n, m \in Names : p = <<n, m>> /\ Len(p) = 2 /\ p[1] = n /\ p[2] = m
BY DEF Paths

(* What is not refused is an entry of the folder, nothing outside.         *)
LEMMA FoundInside ==
  ASSUME NEW t \in Trees, NEW p \in Paths, ~Refused(t, p)
  PROVE  At(t, Place(t, p)) \in Entry
<1>1. /\ \A n \in Names : t.top[n] \in Entry
      /\ \A n, m \in Names : t.sub[n][m] \in SubEntry
  BY DEF Trees, Entry, SubEntry
<1>2. CASE p = <<TooLong>>
  <2>1. Place(t, p) = <<TooLong>>
    BY <1>2, SMT DEF Place, Leads
  <2> QED
    BY <2>1, SMT DEF At, Leads, Entry
<1>3. ASSUME NEW n \in Names, p = <<n>> PROVE At(t, Place(t, p)) \in Entry
  <2>1. Place(t, p) = <<n>> /\ Len(<<n>>) = 1 /\ <<n>>[1] = n
    BY <1>3, SMT DEF Place, Leads
  <2>2. At(t, <<n>>) \in {Absent, t.top[n]}
    BY <2>1, SMT DEF At, Leads
  <2> QED
    BY <1>1, <2>1, <2>2 DEF Entry
<1>4. ASSUME NEW n \in Names, NEW m \in Names, p = <<n, m>> PROVE At(t, Place(t, p)) \in Entry
  <2>1. CASE t.top[n] = LinkIn
    <3>1. Place(t, p) = <<m>> /\ Len(<<m>>) = 1 /\ <<m>>[1] = m
      BY <1>4, <2>1, SMT DEF Place, Leads
    <3>2. At(t, <<m>>) \in {Absent, t.top[m]}
      BY <3>1, SMT DEF At, Leads
    <3> QED
      BY <1>1, <3>1, <3>2 DEF Entry
  <2>2. CASE t.top[n] # LinkIn
    <3>1. Place(t, p) = p /\ Len(p) = 2 /\ p[1] = n /\ p[2] = m /\ p # <<TooLong>>
      BY <1>4, <2>2, SMT DEF Place, Leads
    <3>2. t.top[n] # LinkOut
      BY <1>4, <3>1, Zenon DEF Refused, Leads
    <3>3. At(t, p) \in {Absent, t.sub[n][m]}
      BY <3>1, <3>2, SMT DEF At, Leads, Dir, LinkOut
    <3> QED
      BY <1>1, <3>1, <3>3 DEF Entry, SubEntry
  <2> QED
    BY <2>1, <2>2
<1> QED
  BY <1>2, <1>3, <1>4, PathShape DEF Refused

LEMMA TreeParts ==
  ASSUME NEW t \in Trees, NEW top, NEW sub
  PROVE  /\ [t EXCEPT !.top = top] = [up |-> t.up, top |-> top, sub |-> t.sub, out |-> t.out]
         /\ [t EXCEPT !.top = top, !.sub = sub]
              = [up |-> t.up, top |-> top, sub |-> sub, out |-> t.out]
<1>1. [t EXCEPT !.top = top] = [up |-> t.up, top |-> top, sub |-> t.sub, out |-> t.out]
  BY SMT DEF Trees
<1>2. [t EXCEPT !.top = top, !.sub = sub] = [[t EXCEPT !.top = top] EXCEPT !.sub = sub]
  OBVIOUS
<1>3. [[up |-> t.up, top |-> top, sub |-> t.sub, out |-> t.out] EXCEPT !.sub = sub]
        = [up |-> t.up, top |-> top, sub |-> sub, out |-> t.out]
  OBVIOUS
<1> QED
  BY <1>1, <1>2, <1>3, Zenon

(* The places a write may go to, and what it makes of the folder.          *)
LEMMA PutStays ==
  ASSUME NEW t \in Trees, NEW p \in Paths, ~Refused(t, p), p # <<TooLong>>,
         NEW entry \in Entry, Len(Place(t, p)) = 2 => entry \in SubEntry
  PROVE  Put(t, Place(t, p), entry) \in Trees /\ Put(t, Place(t, p), entry).out = t.out
<1>1. ASSUME NEW n \in Names, Place(t, p) = <<n>>
      PROVE  Put(t, Place(t, p), entry) \in Trees /\ Put(t, Place(t, p), entry).out = t.out
  <2>1. Put(t, <<n>>, entry) = [t EXCEPT !.top[n] = entry]
    BY SMT DEF Put, Leads
  <2>2. [t EXCEPT !.top[n] = entry] \in Trees /\ [t EXCEPT !.top[n] = entry].out = t.out
    <3>1. [t.top EXCEPT ![n] = entry] \in [Names -> Entry]
      BY DEF Trees, Entry
    <3>2. [t EXCEPT !.top[n] = entry] = [t EXCEPT !.top = [t.top EXCEPT ![n] = entry]]
      BY DEF Trees
    <3>3. @ = [up |-> t.up, top |-> [t.top EXCEPT ![n] = entry], sub |-> t.sub, out |-> t.out]
      BY TreeParts, Zenon
    <3> QED
      BY <3>1, <3>2, <3>3 DEF Trees, Entry
  <2> QED
    BY <1>1, <2>1, <2>2
<1>2. ASSUME NEW n \in Names, NEW m \in Names, Place(t, p) = <<n, m>>, t.top[n] # LinkOut
      PROVE  Put(t, Place(t, p), entry) \in Trees /\ Put(t, Place(t, p), entry).out = t.out
  <2>1. Put(t, <<n, m>>, entry) = [t EXCEPT !.top[n] = Dir, !.sub[n][m] = entry]
    BY <1>2, SMT DEF Put, Leads
  <2>2. entry \in SubEntry
    BY <1>2, SMT
  <2>3. /\ [t EXCEPT !.top[n] = Dir, !.sub[n][m] = entry] \in Trees
        /\ [t EXCEPT !.top[n] = Dir, !.sub[n][m] = entry].out = t.out
    <3>1. [t.top EXCEPT ![n] = Dir] \in [Names -> Entry]
      BY DEF Trees, Entry
    <3>2. [t.sub EXCEPT ![n][m] = entry] \in [Names -> [Names -> SubEntry]]
      BY <2>2 DEF Trees, SubEntry
    <3>3. [t EXCEPT !.top[n] = Dir, !.sub[n][m] = entry]
            = [t EXCEPT !.top = [t.top EXCEPT ![n] = Dir],
                        !.sub = [t.sub EXCEPT ![n][m] = entry]]
      BY DEF Trees
    <3> DEFINE top == [t.top EXCEPT ![n] = Dir]
               sub == [t.sub EXCEPT ![n][m] = entry]
    <3> HIDE DEF top, sub
    <3>4. [t EXCEPT !.top = top, !.sub = sub] = [up |-> t.up, top |-> top, sub |-> sub, out |-> t.out]
      BY TreeParts, Zenon
    <3> USE DEF top, sub
    <3> QED
      BY <3>1, <3>2, <3>3, <3>4 DEF Trees, Entry, SubEntry
  <2> QED
    BY <1>2, <2>1, <2>3
<1>3. \/ \E n \in Names : Place(t, p) = <<n>>
      \/ \E n, m \in Names : Place(t, p) = <<n, m>> /\ t.top[n] # LinkOut
  <2>1. CASE p = <<TooLong>> \/ \E n \in Names : p = <<n>>
    BY <2>1, SMT DEF Place, Leads
  <2>2. ASSUME NEW n \in Names, NEW m \in Names, p = <<n, m>> PROVE <1>3
    BY <2>2, SMT DEF Place, Leads, Refused
  <2> QED
    BY <2>1, <2>2, PathShape DEF Refused
<1> QED
  BY <1>1, <1>2, <1>3

-----------------------------------------------------------------------------
(* What the tools return and leave behind.                                 *)

Stays(t, o) ==
  /\ o.tree \in Trees /\ o.tree.out = t.out
  /\ o.result.value # Foreign

LEMMA FailsStays ==
  ASSUME NEW t \in Trees, NEW error PROVE Stays(t, Fails(error, t)) /\ Fails(error, t).tree = t
BY ContentsAssumption, SMT DEF Stays, Fails, Outcome, Result, Special

LEMMA ReadStays ==
  ASSUME NEW t \in Trees, NEW p \in Paths
  PROVE  Stays(t, ReadOutcome(t, p)) /\ ReadOutcome(t, p).tree = t
<1> DEFINE found == At(t, Place(t, p))
<1>1. CASE ~Refused(t, p) /\ found \in ({Foreign} \cup Files) \ Huge
  <2>1. found \in Entry
    BY <1>1, FoundInside
  <2>2. found # Foreign
    BY <2>1, ContentsAssumption DEF Entry, Special
  <2>3. ReadOutcome(t, p) = Outcome(Result(NoError, found), t)
    BY <1>1, SMT DEF ReadOutcome
  <2> QED
    BY <2>2, <2>3 DEF Stays, Outcome, Result
<1>2. CASE ~(~Refused(t, p) /\ found \in ({Foreign} \cup Files) \ Huge)
  <2>1. \E error : ReadOutcome(t, p) = Fails(error, t)
    BY <1>2, SMT DEF ReadOutcome
  <2> QED
    BY <2>1, FailsStays
<1> QED
  BY <1>1, <1>2

LEMMA ListStays ==
  ASSUME NEW t \in Trees, NEW p \in Paths
  PROVE  Stays(t, ListOutcome(t, p)) /\ ListOutcome(t, p).tree = t
<1>1. ASSUME NEW entries \in [Names -> Entry]
      PROVE  Listing(entries).value # Foreign
  <2>1. Listing(entries).value = [n \in Names |-> Kind(entries[n])]
    BY DEF Listing, Result
  <2>2. \A n \in Names : Kind(entries[n]) \in {"file", "symlink", Absent, Dir}
    BY SMT DEF Kind
  <2> QED
    BY <2>1, <2>2, ContentsAssumption
<1>2. \A n \in Names : t.sub[n] \in [Names -> Entry]
  BY SMT DEF Trees, Entry
<1>3. t.top \in [Names -> Entry]
  BY SMT DEF Trees, Entry
<1>4. CASE p = <<>>
  BY <1>1, <1>3, <1>4, SMT DEF ListOutcome, Stays, Outcome
<1>5. CASE p # <<>> /\ ~Refused(t, p) /\ At(t, Place(t, p)) = Dir
  <2>1. ListOutcome(t, p) = Outcome(Listing(t.sub[Place(t, p)[1]]), t)
    BY <1>5, SMT DEF ListOutcome, Dir, Absent
  <2>2. Place(t, p)[1] \in Names
    BY PathShape, <1>5, SMT DEF Place, Leads, At, Refused, Absent, Dir
  <2> QED
    BY <1>1, <1>2, <2>1, <2>2 DEF Stays, Outcome
<1>6. CASE p # <<>> /\ ~(~Refused(t, p) /\ At(t, Place(t, p)) = Dir)
  <2>1. \E error : ListOutcome(t, p) = Fails(error, t)
    BY <1>6, SMT DEF ListOutcome
  <2> QED
    BY <2>1, FailsStays
<1> QED
  BY <1>4, <1>5, <1>6

(* A write that changes the folder is one the system took on.              *)
Done(o, content) ==
  \/ o.result.error \in {NoError, "os_error"}
  \/ o.result.error = "raised" /\ content \in Unencodable

LEMMA WriteStays ==
  ASSUME NEW t \in Trees, NEW p \in Paths, NEW content \in Contents,
         NEW o \in WriteOutcomes(t, p, content)
  PROVE  Stays(t, o) /\ (o.tree # t => Done(o, content))
<1> DEFINE place == Place(t, p)
           refused == Refused(t, p) \/ NoParent(t, place) \/ place = <<TooLong>> \/ At(t, place) = Dir
<1>1. CASE refused
  <2>1. \E error : o = Fails(error, t)
    BY <1>1, SMT DEF WriteOutcomes
  <2> QED
    BY <2>1, FailsStays
<1>2. CASE ~refused
  <2>1. \/ o = Outcome(Result(NoError, Absent), Put(t, place, content))
        \/ o = Fails("os_error", Put(t, place, At(t, place)))
        \/ o = Fails("os_error", Put(t, place, Partial))
        \/ o = Raised(Put(t, place, Partial)) /\ content \in Unencodable
    BY <1>2, SMT DEF WriteOutcomes, Writes
  <2>2. p # <<TooLong>>
    BY <1>2, SMT DEF Place, Leads
  <2>3. content \in SubEntry /\ Partial \in SubEntry /\ SubEntry \subseteq Entry
    BY DEF SubEntry, Entry, Files
  <2>4. At(t, place) \in Entry
    BY <1>2, FoundInside
  <2>5. Len(place) = 2 => At(t, place) \in SubEntry
    BY <2>2, <1>2, PathShape, SMT
       DEF Place, Leads, At, Refused, Trees, SubEntry, NoParent, Dir, LinkOut, LinkIn, Links
  <2>6. /\ Put(t, place, content) \in Trees /\ Put(t, place, content).out = t.out
        /\ Put(t, place, Partial) \in Trees /\ Put(t, place, Partial).out = t.out
        /\ Put(t, place, At(t, place)) \in Trees /\ Put(t, place, At(t, place)).out = t.out
    BY <1>2, <2>2, <2>3, <2>4, <2>5, PutStays
  <2>7. Absent # Foreign
    BY ContentsAssumption DEF Special
  <2> QED
    BY <2>1, <2>6, <2>7 DEF Stays, Done, Raised, Fails, Outcome, Result
<1> QED
  BY <1>1, <1>2

LEMMA OutcomeStays ==
  ASSUME tree \in Trees, NEW c \in Calls, NEW o \in Outcomes(c)
  PROVE  /\ Stays(tree, o)
         /\ o.tree # tree => c.tool = "file_write" /\ Done(o, c.content)
<1>1. CASE ~tree.up \/ o = Raised(tree)
  BY <1>1, FailsStays DEF Outcomes, Missing, Raised
<1>2. CASE tree.up /\ o # Raised(tree) /\ c.tool = "file_read"
  <2>1. o = ReadOutcome(tree, c.path) /\ c.path \in Paths
    BY <1>2, SMT DEF Outcomes, Calls
  <2> QED
    BY <2>1, ReadStays
<1>3. CASE tree.up /\ o # Raised(tree) /\ c.tool = "file_list"
  <2>1. o = ListOutcome(tree, c.path) /\ c.path \in Paths
    BY <1>3, SMT DEF Outcomes, Calls
  <2> QED
    BY <2>1, ListStays
<1>4. CASE tree.up /\ o # Raised(tree) /\ c.tool = "file_write"
  <2>1. o \in WriteOutcomes(tree, c.path, c.content) /\ c.path \in Paths /\ c.content \in Contents
    BY <1>4, SMT DEF Outcomes, Calls
  <2> QED
    BY <1>4, <2>1, WriteStays
<1> QED
  BY <1>1, <1>2, <1>3, <1>4 DEF Calls

-----------------------------------------------------------------------------
(* Sessions on the folder.                                                 *)

FolderInv ==
  /\ tree \in Trees /\ tree.out = Foreign
  /\ result # None => result.value # Foreign

LEMMA EditStays == ASSUME FolderInv, Edit PROVE tree' \in Trees /\ tree'.out = Foreign
<1>1. \A n \in Names : tree.top[n] \in Entry
  BY DEF FolderInv, Trees, Entry
<1>2. CASE tree' = [NewTree EXCEPT !.up = ~tree.up, !.out = tree.out]
  <2>1. tree' = [up |-> ~tree.up, top |-> Empty, sub |-> [n \in Names |-> Empty], out |-> tree.out]
    BY <1>2 DEF NewTree
  <2>2. Empty \in [Names -> SubEntry] /\ Empty \in [Names -> Entry]
    BY DEF Empty, SubEntry, Entry
  <2> QED
    BY <2>1, <2>2, Zenon DEF FolderInv, Trees, Entry, SubEntry
<1>3. ASSUME NEW n \in Names, NEW entry \in {Absent, Dir} \cup Links \cup Contents,
             tree' = [tree EXCEPT !.top[n] = entry, !.sub[n] = Empty]
      PROVE  tree' \in Trees /\ tree'.out = Foreign
  <2> DEFINE top == [tree.top EXCEPT ![n] = entry]
             sub == [tree.sub EXCEPT ![n] = Empty]
  <2>1. top \in [Names -> Entry] /\ sub \in [Names -> [Names -> SubEntry]]
    BY DEF FolderInv, Trees, Entry, SubEntry, Files, Empty
  <2>2. tree' = [tree EXCEPT !.top = top, !.sub = sub]
    BY <1>3 DEF FolderInv, Trees
  <2> HIDE DEF top, sub
  <2>3. tree' = [up |-> tree.up, top |-> top, sub |-> sub, out |-> tree.out]
    BY <2>2, TreeParts, Zenon DEF FolderInv
  <2> QED
    BY <2>1, <2>3 DEF FolderInv, Trees, Entry, SubEntry
<1>4. ASSUME NEW n \in Names, NEW m \in Names, NEW entry \in {Absent} \cup Contents,
             tree' = [tree EXCEPT !.sub[n][m] = entry]
      PROVE  tree' \in Trees /\ tree'.out = Foreign
  <2> DEFINE sub == [tree.sub EXCEPT ![n][m] = entry]
  <2>1. sub \in [Names -> [Names -> SubEntry]]
    BY DEF FolderInv, Trees, SubEntry, Files
  <2>2. tree' = [tree EXCEPT !.sub = sub]
    BY <1>4 DEF FolderInv, Trees
  <2> HIDE DEF sub
  <2>3. tree' = [up |-> tree.up, top |-> tree.top, sub |-> sub, out |-> tree.out]
    BY <2>2, SMT DEF FolderInv, Trees
  <2> QED
    BY <2>1, <2>3 DEF FolderInv, Trees, SubEntry
<1> QED
  BY <1>2, <1>3, <1>4 DEF Edit

LEMMA FolderNext == Serves /\ FolderInv /\ [Next]_vars => FolderInv'
<1> SUFFICES ASSUME Serves, FolderInv, [Next]_vars PROVE FolderInv'
  OBVIOUS
<1>1. CASE Act
  <2>1. CASE sess = "ruled" /\ verdict = "allow"
             /\ \E o \in Outcomes(call) : tree' = o.tree /\ result' = o.result
    <3>1. call \in Calls
      BY <2>1 DEF Serves
    <3> QED
      BY <2>1, <3>1, OutcomeStays DEF FolderInv, Stays
  <2>2. CASE tree' = tree /\ (result' = result \/ result' = Result(verdict, Absent))
    BY <2>2, ContentsAssumption DEF FolderInv, Result, Special
  <2> QED
    BY <1>1, <2>1, <2>2, Zenon DEF Act
<1>2. CASE Edit
  <2>1. result' = result
    BY <1>2 DEF Edit, callVars
  <2> QED
    BY <1>2, <2>1, EditStays DEF FolderInv
<1>3. CASE ~Act /\ ~Edit
  <2>1. tree' = tree /\ (result' = result \/ result' = None)
    BY <1>3, Zenon DEF Next, vars, callVars, Hear, Rule, Answer, Die, Reconnect, Tamper
  <2> QED
    BY <2>1 DEF FolderInv
<1> QED
  BY <1>1, <1>2, <1>3

LEMMA InitFolder == Init => FolderInv
BY SMT DEF Init, FolderInv, NewTree, Trees, Empty

(* Nothing outside the folder is read or written, wherever the operator    *)
(* puts links while the session goes on.                                   *)
THEOREM ToolsStayInside == Spec => []StaysInside
<1>1. Serves /\ FolderInv /\ [Next]_vars => (Serves /\ FolderInv)'
  BY ServesNext, FolderNext
<1>2. FolderInv => StaysInside
  BY DEF FolderInv, StaysInside
<1> QED
  BY <1>1, <1>2, InitRecord, InitFolder, PTL DEF Spec

(* A call changes the folder only as an allowed write, and only if it      *)
(* succeeds, the system fails it or its content cannot be encoded.         *)
THEOREM RefusalsChangeNothing == Spec => RefusedChangesNothing
<1>1. Serves /\ FolderInv /\ [Next]_vars => (Serves /\ FolderInv)'
  BY ServesNext, FolderNext
<1>2. ASSUME Serves, FolderInv, Act, tree' # tree
      PROVE  /\ launch.role = "operator" /\ call.tool \in launch.allowed /\ launch.workspace
             /\ call.tool = "file_write"
             /\ \/ result'.error \in {NoError, "os_error"}
                \/ result'.error = "raised" /\ call.content \in Unencodable
  <2>1. sess = "ruled" /\ verdict = "allow"
    BY <1>2, Zenon DEF Act
  <2>2. PICK o \in Outcomes(call) : tree' = o.tree /\ result' = o.result
    BY <1>2, Zenon DEF Act
  <2>3. call \in Calls /\ launch \in Launched /\ Verdict(call) = "allow"
    BY <2>1, <1>2 DEF Serves
  <2> QED
    BY <1>2, <2>2, <2>3, OutcomeStays, VerdictGrants DEF FolderInv, Done
<1>3. Serves /\ FolderInv /\ [Next]_vars =>
        [Act /\ tree' # tree =>
           /\ launch.role = "operator" /\ call.tool \in launch.allowed /\ launch.workspace
           /\ call.tool = "file_write"
           /\ \/ result'.error \in {NoError, "os_error"}
              \/ result'.error = "raised" /\ call.content \in Unencodable]_vars
  BY <1>2
<1> QED
  BY <1>1, <1>3, InitRecord, InitFolder, PTL DEF Spec, RefusedChangesNothing

=============================================================================
