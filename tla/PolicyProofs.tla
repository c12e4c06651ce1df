----------------------------- MODULE PolicyProofs -----------------------------
(***************************************************************************)
(* What the filter promises, proved for any tools, launched or not, and    *)
(* any of them file tools or risky.                                        *)
(***************************************************************************)
EXTENDS Policy, TLAPS

-----------------------------------------------------------------------------
(* The rules of a launch.                                                  *)

ActionOf(l) == IF l.role = "operator" THEN "allow" ELSE "elevate"
Ruled(l, tool) == tool \in l.allowed /\ (l.role = "operator" \/ tool \in Risky)

(* A tool rule that matches names the tool of the request.                 *)
LEMMA ToolRule ==
  ASSUME NEW l \in Launches, NEW m \in Requests, NEW r \in ToolRules(l)
  PROVE  Matches(r, m) <=>
           /\ r = Rule(ActionOf(l), "engine1", "tool_call", m.tool)
           /\ m.source = "engine1" /\ m.type = "tool_call" /\ Ruled(l, m.tool)
<1>1. PICK tool \in Tools : Ruled(l, tool) /\ r = Rule(ActionOf(l), "engine1", "tool_call", tool)
  BY ToolsAssumption, SMT DEF ToolRules, ActionOf, Ruled, Launches
<1>2. tool # NoTool
  BY ToolsAssumption
<1>3. /\ r.engine = "engine1" /\ r.type = "tool_call" /\ r.tool = tool
  BY <1>1 DEF Rule
<1>4. Matches(r, m) <=> m.source = "engine1" /\ m.type = "tool_call" /\ m.tool = tool
  BY <1>2, <1>3, SMT DEF Matches, Requests, Engines, Any
<1>5. r = Rule(ActionOf(l), "engine1", "tool_call", m.tool) => m.tool = tool
  BY <1>1, SMT DEF Rule
<1> QED
  BY <1>1, <1>4, <1>5, Zenon

(* The rules of the chat are told apart by the type of the message.        *)
LEMMA ChatRule ==
  ASSUME NEW m \in Requests, NEW r \in ChatRules, Matches(r, m)
  PROVE  /\ r = Rule("allow", r.engine, m.type, NoTool)
         /\ m.type # "tool_call"
         /\ m.type \in {"handshake", "user_query", "agent_response"} => r.engine = Any
         /\ m.type = "llm_request" => r.engine = "engine3" /\ m.source = "engine3"
         /\ m.type = "tool_result" => r.engine = "engine1" /\ m.source = "engine1"
         /\ m.type \in {"handshake", "user_query", "agent_response", "llm_request",
                        "tool_result"}
  BY SMT DEF ChatRules, Rule, Matches, Requests, Engines, Any

LEMMA RulesApart ==
  ASSUME NEW l \in Launches, NEW m \in Requests, NEW r \in Rules(l), NEW s \in Rules(l),
         Matches(r, m), Matches(s, m)
  PROVE  r = s
<1>1. CASE m.type = "tool_call"
  <2>1. r \in ToolRules(l) /\ s \in ToolRules(l)
    BY <1>1, ChatRule DEF Rules
  <2> QED
    BY <2>1, ToolRule
<1>2. CASE m.type # "tool_call"
  <2>1. r \in ChatRules /\ s \in ChatRules
    BY <1>2, ToolRule DEF Rules
  <2>2. r.engine = s.engine
    BY <2>1, ChatRule, Zenon
  <2> QED
    BY <2>1, <2>2, ChatRule, Zenon
<1> QED
  BY <1>1, <1>2

-----------------------------------------------------------------------------
(* The evaluation.                                                         *)

(* The request gets past the checks that come before the rules.            *)
Reaches(l, m) ==
  /\ ~WrongPath(m)
  /\ m.type = "tool_call" =>
       /\ m.tool \in l.allowed
       /\ m.tool \in FileTools => l.workspace
       /\ ~Escapes(m)

LEMMA Stopped ==
  ASSUME NEW l \in Launches, NEW m \in Requests, ~Reaches(l, m)
  PROVE  /\ Evaluate(l, m).decision = "deny"
         /\ Evaluate(l, m).flag = "path_escape" <=>
              /\ ~WrongPath(m) /\ m.type = "tool_call" /\ m.tool \in l.allowed
              /\ m.tool \in FileTools => l.workspace
<1>1. CASE WrongPath(m)
  <2>1. Evaluate(l, m) = Verdict("deny", IF m.type = "tool_call" THEN "engine_spoof" ELSE NoFlag)
    BY <1>1, Zenon DEF Evaluate
  <2>2. Evaluate(l, m).decision = "deny" /\ Evaluate(l, m).flag # "path_escape"
    BY <2>1 DEF Verdict, NoFlag
  <2> QED
    BY <1>1, <2>2, Zenon
<1>2. CASE ~WrongPath(m) /\ m.type = "tool_call" /\ m.tool \notin l.allowed
  <2>1. Evaluate(l, m) = Verdict("deny", "unknown_tool")
    BY <1>2, Zenon DEF Evaluate
  <2> QED
    BY <1>2, <2>1 DEF Verdict
<1>3. CASE ~WrongPath(m) /\ m.type = "tool_call" /\ m.tool \in l.allowed
           /\ ~(m.tool \in FileTools => l.workspace)
  <2>1. Evaluate(l, m) = Verdict("deny", NoFlag)
    BY <1>3, Zenon DEF Evaluate
  <2>2. Evaluate(l, m).decision = "deny" /\ Evaluate(l, m).flag # "path_escape"
    BY <2>1 DEF Verdict, NoFlag
  <2> QED
    BY <1>3, <2>2, Zenon
<1>4. CASE ~WrongPath(m) /\ m.type = "tool_call" /\ m.tool \in l.allowed
           /\ (m.tool \in FileTools => l.workspace) /\ Escapes(m)
  <2>1. Evaluate(l, m) = Verdict("deny", "path_escape")
    BY <1>4, Zenon DEF Evaluate
  <2> QED
    BY <1>4, <2>1 DEF Verdict
<1> QED
  BY <1>1, <1>2, <1>3, <1>4, Zenon DEF Reaches

LEMMA VerdictParts ==
  ASSUME NEW decision, NEW flag
  PROVE  Verdict(decision, flag).decision = decision /\ Verdict(decision, flag).flag = flag
  BY DEF Verdict

(* A tool call that gets past the checks is decided by who launched; any   *)
(* other message is allowed if it is chat, and nothing is elevated.        *)
LEMMA Reached ==
  ASSUME NEW l \in Launches, NEW m \in Requests, Reaches(l, m)
  PROVE  Evaluate(l, m) = Verdict(
           IF m.type = "tool_call"
             THEN IF m.source = "engine1" /\ Ruled(l, m.tool) THEN ActionOf(l) ELSE "deny"
             ELSE IF Chat(m) THEN "allow" ELSE "deny", NoFlag)
<1> DEFINE Found == \E rule \in Rules(l) : Matches(rule, m)
           First == CHOOSE rule \in Rules(l) : Matches(rule, m)
<1>1. Evaluate(l, m) = IF Found THEN Verdict(First.action, NoFlag) ELSE Verdict("deny", NoFlag)
  BY Zenon DEF Evaluate, Reaches
<1>2. Found => First \in Rules(l) /\ Matches(First, m)
  BY Zenon
<1>3. CASE m.type = "tool_call"
  <2>1. Found => /\ m.source = "engine1" /\ Ruled(l, m.tool)
                 /\ First = Rule(ActionOf(l), "engine1", "tool_call", m.tool)
    <3>1. Found => First \in ToolRules(l)
      BY <1>2, <1>3, ChatRule DEF Rules
    <3> HIDE DEF First
    <3> QED
      BY <1>2, <3>1, ToolRule
  <2>2. m.source = "engine1" /\ Ruled(l, m.tool) => Found
    <3> SUFFICES ASSUME m.source = "engine1", Ruled(l, m.tool) PROVE Found
      OBVIOUS
    <3>1. Rule(ActionOf(l), "engine1", "tool_call", m.tool) \in ToolRules(l)
      BY SMT DEF ToolRules, Ruled, ActionOf
    <3>2. Matches(Rule(ActionOf(l), "engine1", "tool_call", m.tool), m)
      BY <1>3, <3>1, ToolRule
    <3> QED
      BY <3>1, <3>2 DEF Rules
  <2>3. Rule(ActionOf(l), "engine1", "tool_call", m.tool).action = ActionOf(l)
    BY DEF Rule
  <2> QED
    BY <1>1, <1>3, <2>1, <2>2, <2>3, Zenon
<1>4. CASE m.type # "tool_call"
  <2>1. Found => First.action = "allow" /\ Chat(m)
    <3>1. Found => First \in ChatRules /\ Matches(First, m)
      BY <1>2, <1>4, ToolRule DEF Rules
    <3> HIDE DEF First
    <3>2. Found => First.action = "allow"
      BY <3>1, ChatRule DEF Rule
    <3>3. Found => Chat(m)
      BY <3>1, ChatRule, <1>4, SMT DEF Chat, Reaches, WrongPath, AllowedOutbound, Requests, Engines
    <3> QED
      BY <3>2, <3>3
  <2>2. Chat(m) => Found
    <3>1. Chat(m) => \E r \in ChatRules : Matches(r, m)
      BY SMT DEF Chat, ChatRules, Matches, Rule, NoTool, Any, Requests
    <3> QED
      BY <3>1 DEF Rules
  <2> QED
    BY <1>1, <1>4, <2>1, <2>2, Zenon
<1> QED
  BY <1>3, <1>4

-----------------------------------------------------------------------------
(* What holds of every request also holds of the one that is asked.        *)

Asked ==
  /\ launch \in Launches /\ request \in Requests
  /\ verdict # Unasked => verdict = Evaluate(launch, request)

LEMMA AlwaysAsked == Spec => []Asked
<1>1. Init => Asked
  BY Zenon DEF Init, Asked
<1>2. Asked /\ [Next]_vars => Asked'
  BY Zenon DEF Asked, Next, Ask, vars
<1> QED
  BY <1>1, <1>2, PTL DEF Spec

(* First match is any match: no two rules of a launch match one request.   *)
THEOREM OneRuleMatches == Spec => []OneRule
<1>1. Asked => OneRule
  BY RulesApart, Zenon DEF Asked, OneRule
<1> QED
  BY <1>1, AlwaysAsked, PTL

(* Every decision in the terms of the policy document.                     *)
LEMMA Decided ==
  ASSUME NEW l \in Launches, NEW m \in Requests
  PROVE  /\ Evaluate(l, m).decision = "allow" <=> Chat(m) \/ GrantedTool(l, m)
         /\ Evaluate(l, m).decision = "elevate" <=> ElevatedTool(l, m)
<1>1. Chat(m) => m.type # "tool_call" /\ ~WrongPath(m)
  BY SMT DEF Chat, WrongPath, AllowedOutbound, Requests
<1>2. LaunchedCall(l, m) <=> Reaches(l, m) /\ m.type = "tool_call" /\ m.source = "engine1"
  BY SMT DEF LaunchedCall, Reaches, WrongPath, AllowedOutbound, Escapes, Requests, Places
<1>3. CASE Reaches(l, m)
  <2>1. CASE m.type = "tool_call"
    <3>1. Evaluate(l, m).decision =
            IF m.source = "engine1" /\ Ruled(l, m.tool) THEN ActionOf(l) ELSE "deny"
      <4> DEFINE d == IF m.source = "engine1" /\ Ruled(l, m.tool) THEN ActionOf(l) ELSE "deny"
      <4>1. Evaluate(l, m) = Verdict(d, NoFlag)
        BY <1>3, <2>1, Reached, Zenon
      <4> QED
        BY <4>1, VerdictParts, Zenon
    <3>2. m.tool \in l.allowed
      BY <1>3, <2>1 DEF Reaches
    <3> QED
      BY <1>1, <1>2, <1>3, <2>1, <3>1, <3>2, SMT DEF ActionOf, Ruled, GrantedTool, ElevatedTool
  <2>2. CASE m.type # "tool_call"
    <3>1. Evaluate(l, m).decision = IF Chat(m) THEN "allow" ELSE "deny"
      BY <1>3, <2>2, Reached, VerdictParts, Zenon
    <3> QED
      BY <1>2, <2>2, <3>1, SMT DEF GrantedTool, ElevatedTool
  <2> QED
    BY <2>1, <2>2
<1>4. CASE ~Reaches(l, m)
  <2>1. Evaluate(l, m).decision = "deny"
    BY <1>4, Stopped
  <2>2. ~Chat(m)
    BY <1>1, <1>4 DEF Reaches
  <2> QED
    BY <1>2, <1>4, <2>1, <2>2, SMT DEF GrantedTool, ElevatedTool
<1> QED
  BY <1>3, <1>4

(* Default deny: a request is allowed exactly if it is chat from where     *)
(* chat of its kind comes from, or a tool that the launch granted; it is   *)
(* elevated exactly if it is such a tool, a risky one, for someone else    *)
(* than the operator.                                                      *)
THEOREM DecisionsAreGranted == Spec => []DecisionIsGranted
<1>1. Asked => DecisionIsGranted
  BY Decided, Zenon DEF Asked, DecisionIsGranted
<1> QED
  BY <1>1, AlwaysAsked, PTL

(* What the LLM is shown is what it may use: Engine 1's call of a visible  *)
(* tool is refused only for its path, a call of a hidden one never passes. *)
THEOREM VisibleAreUsable == Spec => []VisibleIsUsable
<1>1. ASSUME NEW l \in Launches, NEW m \in Requests, m.source = "engine1", m.type = "tool_call"
      PROVE  IF m.tool \in VisibleTools(l)
               THEN Evaluate(l, m).decision = "allow" \/ Evaluate(l, m).flag = "path_escape"
               ELSE Evaluate(l, m).decision # "allow"
  <2> DEFINE probe == Probe(m.tool)
  <2>1. /\ probe \in Requests
        /\ probe.source = "engine1" /\ probe.type = "tool_call" /\ probe.tool = m.tool
        /\ probe.path = "none"
    BY SMT DEF Probe, Requests, Engines, Types, Places
  <2> HIDE DEF probe
  <2>2. m.tool \in VisibleTools(l) <=> GrantedTool(l, probe)
    <3>1. ~Chat(probe)
      BY <2>1, SMT DEF Chat
    <3>2. m.tool \in VisibleTools(l) <=> m.tool \in l.allowed /\ Evaluate(l, probe).decision = "allow"
      BY Zenon DEF VisibleTools, probe
    <3>3. GrantedTool(l, probe) => m.tool \in l.allowed
      BY <2>1 DEF GrantedTool, LaunchedCall
    <3> QED
      BY <2>1, <3>1, <3>2, <3>3, Decided, Zenon
  <2>3. ~Chat(m)
    BY <1>1, SMT DEF Chat
  <2>4. CASE m.tool \in VisibleTools(l) /\ ~GrantedTool(l, m)
    <3>1. /\ ~WrongPath(m) /\ m.tool \in l.allowed
          /\ m.tool \in FileTools => l.workspace
      BY <1>1, <2>1, <2>2, <2>4, SMT DEF GrantedTool, LaunchedCall, WrongPath, AllowedOutbound
    <3>2. ~Reaches(l, m)
      BY <1>1, <2>1, <2>2, <2>4, SMT DEF GrantedTool, LaunchedCall, Reaches, Escapes, Requests, Places
    <3>3. Evaluate(l, m).flag = "path_escape"
      BY <1>1, <3>1, <3>2, Stopped
    <3> QED
      BY <2>4, <3>3
  <2>5. GrantedTool(l, m) => GrantedTool(l, probe)
    BY <2>1, Zenon DEF GrantedTool, LaunchedCall
  <2> QED
    BY <2>2, <2>3, <2>4, <2>5, Decided, Zenon
<1>2. Asked => VisibleIsUsable
  BY <1>1, Zenon DEF Asked, VisibleIsUsable
<1> QED
  BY <1>2, AlwaysAsked, PTL
=============================================================================
