-------------------------------- MODULE Policy --------------------------------
(***************************************************************************)
(* The filter every hop meets (policy/engine.py): the rules a launch       *)
(* installs, the ordered first-match evaluation, and the tools it shows to *)
(* the LLM.  A request is who sends it, its type, the tool it names and    *)
(* where its path leads once normalised (tools/paths.py): "none" when the  *)
(* request carries no arguments, as in the probes of visible_tools; "root" *)
(* when it names the workspace in one of the three ways that file_list     *)
(* knows ('', '.', '/workspace'), "detour" in any other ('./', 'a/..').    *)
(*                                                                         *)
(* The rules of a launch are a set here.  The code tries them in order,    *)
(* which matters only where two rules match one request: OneRule says that *)
(* none do.                                                                *)
(***************************************************************************)
EXTENDS Naturals, FiniteSets

CONSTANTS
  Tools,      \* tool names, launched or not
  FileTools,  \* FILE_TOOLS
  ListTool,   \* file_list, the file tool that may name the root
  Risky       \* tools whose tag is in RISKY_TAGS (exec for an unknown tool)

Engines == {"loop", "engine1", "engine2", "engine3", "engine4", "node"}
Types == {"handshake", "llm_request", "user_query", "agent_response", "tool_call",
          "tool_result", "memory:query", "memory:write"}
Places == {"none", "root", "detour", "inside", "outside"}

NoTool == "no_tool"
Any == "any"

ASSUME ToolsAssumption ==
  /\ FileTools \subseteq Tools /\ Risky \subseteq Tools /\ ListTool \in FileTools
  /\ NoTool \notin Tools

Launches == [allowed : SUBSET Tools, role : {"operator", "user"}, workspace : BOOLEAN]
Requests == [source : Engines, type : Types, tool : Tools, path : Places]

(* What each engine may send (protocol/models.py).                         *)
AllowedOutbound(engine) ==
  CASE engine = "loop" -> {"handshake"}
    [] engine = "engine1" -> {"tool_call", "tool_result"}
    [] engine = "engine2" -> {"user_query", "agent_response"}
    [] engine = "engine3" -> {"llm_request"}
    [] engine = "engine4" -> {"memory:query", "memory:write"}
    [] OTHER -> {}

-----------------------------------------------------------------------------
(* rules_from_launch.                                                      *)

Rule(action, engine, type, tool) ==
  [action |-> action, engine |-> engine, type |-> type, tool |-> tool]

ChatRules ==
  {Rule("allow", Any, "handshake", NoTool),
   Rule("allow", "engine3", "llm_request", NoTool),
   Rule("allow", Any, "user_query", NoTool),
   Rule("allow", Any, "agent_response", NoTool),
   Rule("allow", "engine1", "tool_result", NoTool)}

(* Operators marked "Defect" are not part of the specification.  Each is a *)
(* plausible mistake in the definition below it, which some property must  *)
(* notice (PROJECT.json, mutants).                                         *)

(* Defect: risky tools get their elevate rule whoever launches them.       *)
ToolRulesWhoever(launch) ==
  {Rule("allow", "engine1", "tool_call", tool) : tool \in
     IF launch.role = "operator" THEN launch.allowed ELSE {}}
  \cup {Rule("elevate", "engine1", "tool_call", tool) : tool \in launch.allowed \cap Risky}

(* The operator gets an allow rule for each launched tool; anyone else an  *)
(* elevate rule for the risky ones and none for the others.                *)
ToolRules(launch) ==
  IF launch.role = "operator"
    THEN {Rule("allow", "engine1", "tool_call", tool) : tool \in launch.allowed}
    ELSE {Rule("elevate", "engine1", "tool_call", tool) : tool \in launch.allowed \cap Risky}

Rules(launch) == ChatRules \cup ToolRules(launch)

-----------------------------------------------------------------------------
(* evaluate.                                                               *)

Matches(rule, m) ==
  /\ rule.engine \in {Any, m.source}
  /\ rule.type = m.type
  /\ rule.tool # NoTool => m.type = "tool_call" /\ m.tool = rule.tool

(* The sender may not send this type.  Only the host itself is exempt, and *)
(* a handshake is the loop's.                                              *)
WrongPath(m) ==
  IF m.type = "handshake" THEN m.source # "loop"
  ELSE m.source # "node" /\ m.type \notin AllowedOutbound(m.source)

(* Defect: every file tool may name the root.                              *)
EscapesOutside(m) == m.tool \in FileTools /\ m.path = "outside"

(* The path is not under the workspace; no arguments, no check.  The       *)
(* workspace itself is under it for file_list only, and only as "root":    *)
(* workspace_list_relpath compares the text, not where it leads.           *)
Escapes(m) ==
  /\ m.tool \in FileTools
  /\ m.path \in {"outside", "detour"} \cup (IF m.tool = ListTool THEN {} ELSE {"root"})

Verdict(decision, flag) == [decision |-> decision, flag |-> flag]
NoFlag == "no_flag"

Evaluate(launch, m) ==
  CASE WrongPath(m) ->
         Verdict("deny", IF m.type = "tool_call" THEN "engine_spoof" ELSE NoFlag)
    [] ~WrongPath(m) /\ m.type = "tool_call" /\ m.tool \notin launch.allowed ->
         Verdict("deny", "unknown_tool")
    [] ~WrongPath(m) /\ m.type = "tool_call" /\ m.tool \in launch.allowed
       /\ m.tool \in FileTools /\ ~launch.workspace ->
         Verdict("deny", NoFlag)
    [] ~WrongPath(m) /\ m.type = "tool_call" /\ m.tool \in launch.allowed
       /\ (m.tool \in FileTools => launch.workspace) /\ Escapes(m) ->
         Verdict("deny", "path_escape")
    [] OTHER ->
         IF \E rule \in Rules(launch) : Matches(rule, m)
           THEN Verdict((CHOOSE rule \in Rules(launch) : Matches(rule, m)).action, NoFlag)
           ELSE Verdict("deny", NoFlag)

(* visible_tools: the launched tools for which a bare probe is allowed.    *)
Probe(tool) == [source |-> "engine1", type |-> "tool_call", tool |-> tool, path |-> "none"]

(* Defect: whatever is launched is shown.                                  *)
AllLaunched(launch) == launch.allowed

VisibleTools(launch) ==
  {tool \in launch.allowed : Evaluate(launch, Probe(tool)).decision = "allow"}

-----------------------------------------------------------------------------
(* A request meets the filter.  The filter keeps no state of its own.      *)

VARIABLES launch, request, verdict
vars == <<launch, request, verdict>>

Unasked == Verdict("none", NoFlag)

Init == launch \in Launches /\ request \in Requests /\ verdict = Unasked

Ask ==
  /\ verdict = Unasked
  /\ verdict' = Evaluate(launch, request)
  /\ UNCHANGED <<launch, request>>

Next == Ask
Spec == Init /\ [][Next]_vars

-----------------------------------------------------------------------------
(* What the filter promises.                                               *)

(* First match is any match: two rules of a launch never match one request *)
(* that reaches the rules.                                                 *)
OneRule ==
  \A r, s \in Rules(launch) : Matches(r, request) /\ Matches(s, request) => r = s

(* The terms of the policy document.                                       *)
Chat(m) ==
  <<m.source, m.type>> \in
    {<<"loop", "handshake">>, <<"engine3", "llm_request">>, <<"engine2", "user_query">>,
     <<"engine2", "agent_response">>, <<"engine1", "tool_result">>,
     <<"node", "user_query">>, <<"node", "agent_response">>}

LaunchedCall(l, m) ==
  /\ m.source = "engine1" /\ m.type = "tool_call"
  /\ m.tool \in l.allowed
  /\ m.tool \in FileTools =>
       /\ l.workspace
       /\ m.path \in {"none", "inside"} \cup (IF m.tool = ListTool THEN {"root"} ELSE {})

GrantedTool(l, m) == LaunchedCall(l, m) /\ l.role = "operator"

ElevatedTool(l, m) == LaunchedCall(l, m) /\ l.role # "operator" /\ m.tool \in Risky

(* Default deny.  What is allowed is chat traffic of the engine it belongs *)
(* to, and a launched tool, called by Engine 1 for the operator, within an *)
(* allowed workspace, which file_list may name by the three names it knows *)
(* and by no detour.  What is elevated is such a call for someone else, if *)
(* the tool is risky.  Everything else is denied.                          *)
DecisionIsGranted ==
  verdict # Unasked =>
    /\ verdict.decision = "allow" <=> Chat(request) \/ GrantedTool(launch, request)
    /\ verdict.decision = "elevate" <=> ElevatedTool(launch, request)

(* What the LLM is shown is what it may use: Engine 1's call of a visible  *)
(* tool is refused only for its path, and a call of a hidden tool never    *)
(* passes.                                                                 *)
VisibleIsUsable ==
  verdict # Unasked /\ request.source = "engine1" /\ request.type = "tool_call" =>
    IF request.tool \in VisibleTools(launch)
      THEN verdict.decision = "allow" \/ verdict.flag = "path_escape"
      ELSE verdict.decision # "allow"
=============================================================================
