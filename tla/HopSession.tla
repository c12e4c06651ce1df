------------------------------ MODULE HopSession ------------------------------
(***************************************************************************)
(* One guest session over the vsock hop: NodeSession.serve on the host     *)
(* (node/session.py) and the guest's turn loop with its four engines       *)
(* (runtime/turn.py, runtime/engines.py, runtime/wire.py), each with its   *)
(* HopMac sequence counters (protocol/mac.py), over the two directions of  *)
(* a stream.  The guest runs the shipped code; it may be slow, so that the *)
(* Node's turn timeout strikes at any moment, and it may die.  Once in a   *)
(* session the path may repeat a hop, which is what the numbers are for.   *)
(* The Node may leave serve by an exception at any step: an audit record   *)
(* that cannot be written, a tool that raises, a line over the reader's    *)
(* limit, a connection that breaks.                                        *)
(*                                                                         *)
(* A hop carries its type, its sequence number, the calls it is about and  *)
(* one flag.  in_seq is kept as the next number expected (in_seq + 1), and *)
(* out_seq counts hops that are written: one that is signed and then not   *)
(* written is the last that serve signs.                                   *)
(***************************************************************************)
EXTENDS Naturals, Sequences, FiniteSets

CONSTANTS
  CallIds,        \* ids the LLM gives to its tool calls, in every turn again
  CallLists,      \* the lists of tool calls one completion may hold
  CallDecisions,  \* what the policy may decide about a tool_call
  LlmDecisions,   \* what the policy may decide about an llm_request
  MaxTurns,       \* MAX_SESSION_TURNS
  MaxMessages,    \* MAX_MESSAGES: hops the guest may send in one turn
  DenyBurst,      \* DENY_BURST
  Once            \* config.once: one turn, no prompt queue

ASSUME CallsAssumption == CallLists \subseteq Seq(CallIds)
ASSUME DecisionsAssumption ==
  /\ CallDecisions \subseteq {"allow", "deny", "elevate"}
  /\ LlmDecisions \subseteq {"allow", "deny"}
ASSUME CapsAssumption ==
  /\ MaxTurns \in Nat \ {0} /\ MaxMessages \in Nat \ {0} /\ DenyBurst \in Nat \ {0}
  /\ Once \in BOOLEAN

VARIABLES
  npc,          \* Node: "start", "read" (the guest), "prompt", "ended"
  handshaken,   \* Node: handshake_done
  nodeOut,      \* Node: mac.out_seq
  nodeNext,     \* Node: mac.in_seq + 1
  messages,     \* Node: hops read in this turn
  turns,        \* Node: _turns, the prompts taken
  answered,     \* Node: agent_responses taken
  outstanding,  \* Node: ids of approved calls without a result
  streak,       \* Node: denials in a row
  flags,        \* Node: codes flagged in the audit log
  raised,       \* Node: serve was left by an exception
  gpc,          \* guest: "init", "idle", what it awaits, "done", "failed", "dead"
  keyed,        \* guest: the session key is installed
  guestOut,     \* guest: mac.out_seq
  guestNext,    \* guest: mac.in_seq + 1
  todo,         \* guest: tool calls of this turn not finished
  approved,     \* guest: the call in progress was approved
  toNode, toGuest,
  faulted       \* the path has repeated a hop

nodeVars == <<npc, handshaken, nodeOut, nodeNext, messages, turns, answered,
              outstanding, streak, flags, raised>>
guestVars == <<gpc, keyed, guestOut, guestNext, todo, approved>>
vars == <<npc, handshaken, nodeOut, nodeNext, messages, turns, answered,
          outstanding, streak, flags, raised, gpc, keyed, guestOut, guestNext, todo,
          approved, toNode, toGuest, faulted>>

GuestTypes == {"handshake", "llm_request", "tool_call", "tool_result", "agent_response"}
NodeTypes == {"session_init", "handshake_ok", "llm_response", "tool_call_response",
              "tool_result_ack", "agent_response_ack", "error", "user_query", "session_end"}
FlagCodes == {"turn_cap", "replay", "seq_gap", "mac_fail", "pre_handshake", "deny_burst",
              "unbound_tool_result", "tool_result_too_large"}
Awaiting == {"handshake", "infer", "call", "result", "summary", "respond"}

Hop(types) == [type : types, seq : Nat, calls : Seq(CallIds), flag : BOOLEAN]

TypeOK ==
  /\ npc \in {"start", "read", "prompt", "ended"}
  /\ handshaken \in BOOLEAN
  /\ nodeOut \in Nat /\ nodeNext \in Nat /\ guestOut \in Nat /\ guestNext \in Nat
  /\ messages \in 0..MaxMessages
  /\ turns \in 0..MaxTurns
  /\ answered \in Nat
  /\ outstanding \subseteq CallIds
  /\ streak \in Nat
  /\ flags \subseteq FlagCodes
  /\ raised \in BOOLEAN
  /\ gpc \in {"init", "idle", "done", "failed", "dead"} \cup Awaiting
  /\ keyed \in BOOLEAN
  /\ todo \in Seq(CallIds)
  /\ approved \in BOOLEAN
  /\ toNode \in Seq(Hop(GuestTypes))
  /\ toGuest \in Seq(Hop(NodeTypes))
  /\ faulted \in BOOLEAN

Init ==
  /\ npc = "start" /\ handshaken = FALSE
  /\ nodeOut = 0 /\ nodeNext = 0 /\ guestOut = 0 /\ guestNext = 0
  /\ messages = 0 /\ turns = 0 /\ answered = 0
  /\ outstanding = {} /\ streak = 0 /\ flags = {} /\ raised = FALSE
  /\ gpc = "init" /\ keyed = FALSE /\ todo = <<>> /\ approved = FALSE
  /\ toNode = <<>> /\ toGuest = <<>> /\ faulted = FALSE

-----------------------------------------------------------------------------
(* HopMac.                                                                 *)

Signed(type, seq, calls, flag) ==
  [type |-> type, seq |-> seq, calls |-> calls, flag |-> flag]

(* Operators marked "Defect" are not part of the specification.  Each is a *)
(* plausible mistake in the definition below it, which some property must  *)
(* notice (PROJECT.json, mutants).                                         *)

(* Defect: an old number is let through.                                   *)
VerifyWithoutReplay(m, next, hasKey) ==
  IF m.seq > next THEN "seq_gap"
  ELSE IF m.type # "session_init" /\ ~hasKey THEN "mac_fail" ELSE "ok"

(* The code verify raises for the hop m, or "ok".  session_init is the one *)
(* hop that is accepted without a key.                                     *)
Verify(m, next, hasKey) ==
  CASE m.seq < next -> "replay"
    [] m.seq > next -> "seq_gap"
    [] m.seq = next /\ m.type # "session_init" /\ ~hasKey -> "mac_fail"
    [] OTHER -> "ok"

-----------------------------------------------------------------------------
(* The Node.                                                               *)

(* Defect: what follows the reply does not use up a number.                *)
NodeSendCountsOnce(hops) ==
  /\ toGuest' = toGuest \o [i \in 1..Len(hops) |->
       Signed(hops[i].type, nodeOut + i - 1, hops[i].calls, hops[i].flag)]
  /\ nodeOut' = IF hops = <<>> THEN nodeOut ELSE nodeOut + 1

(* Sign and write hops to the guest: a reply, and what may follow it.      *)
NodeSend(hops) ==
  /\ toGuest' = toGuest \o [i \in 1..Len(hops) |->
       Signed(hops[i].type, nodeOut + i - 1, hops[i].calls, hops[i].flag)]
  /\ nodeOut' = nodeOut + Len(hops)

Plain(type) == [type |-> type, calls |-> <<>>, flag |-> FALSE]

(* Write a hop and go on, unless it cannot be recorded or written: _write  *)
(* raises, and serve is left as it stands.                                 *)
NodeWritesOr(hop, next) ==
  \/ NodeSend(<<hop>>) /\ npc' = next /\ UNCHANGED raised
  \/ NodeSend(<<>>) /\ npc' = "ended" /\ raised' = TRUE

(* serve starts: session_init, and the deadline for the handshake.         *)
NodeStart ==
  /\ npc = "start"
  /\ NodeWritesOr(Plain("session_init"), "read")
  /\ UNCHANGED <<handshaken, nodeNext, messages, turns, answered, outstanding, streak,
                 flags, guestVars, toNode>>

(* A read ends the session: timeout, a cap, a rejected hop or EOF.         *)
NodeEnds(codes) ==
  /\ npc' = "ended"
  /\ flags' = flags \cup codes
  /\ UNCHANGED <<handshaken, nodeNext, turns, answered, outstanding, streak, guestVars>>

NodeEndsInSilence(codes) == NodeEnds(codes) /\ NodeSend(<<>>) /\ UNCHANGED raised

(* The timeout and the caps still send a session_end.                      *)
NodeCutsOff == NodeEnds({"turn_cap"}) /\ NodeWritesOr(Plain("session_end"), "ended")

NodeTimeout ==
  /\ npc = "read"
  /\ NodeCutsOff
  /\ UNCHANGED <<messages, toNode>>

(* Exceptions before anything is done about the hop that was read, if any: *)
(* of readline, of a record of the hop or of a flag, of a broken line.     *)
(* Whether the hop was counted by then is not kept: nothing reads it now.  *)
NodeRaises ==
  /\ npc = "read"
  /\ NodeEnds({}) /\ NodeSend(<<>>) /\ raised' = TRUE
  /\ toNode' \in {toNode} \cup {Tail(c) : c \in {toNode} \ {<<>>}}
  /\ UNCHANGED messages

(* Defect: only a guest that leaves in order closes its end.               *)
GuestLeft == gpc = "done"

GuestGone == gpc \in {"done", "failed", "dead"}

NodeEof ==
  /\ npc = "read"
  /\ toNode = <<>>
  /\ GuestGone
  /\ NodeEndsInSilence({})
  /\ UNCHANGED <<messages, toNode>>

(* The caps come before the hop is decoded.  Bytes are not counted here:   *)
(* any hop may be the one that exceeds MAX_BYTES.                          *)
NodeCap ==
  /\ npc = "read"
  /\ toNode # <<>>
  /\ NodeCutsOff
  /\ toNode' = Tail(toNode)
  /\ UNCHANGED messages

(* Defect: one hop more than MAX_MESSAGES.                                 *)
UnderCapByOne == messages <= MaxMessages

UnderCap == messages < MaxMessages

NodeRejects ==
  /\ npc = "read"
  /\ toNode # <<>>
  /\ UnderCap
  /\ LET code == Verify(Head(toNode), nodeNext, TRUE) IN
       \/ code # "ok" /\ NodeEndsInSilence({code})
       \/ /\ code = "ok" /\ ~handshaken /\ Head(toNode).type # "handshake"
          /\ NodeEndsInSilence({"pre_handshake"})
  /\ toNode' = Tail(toNode)
  /\ messages' = messages + 1

(* The hop m of the given type passes the checks and is counted.           *)
NodeAccepts(type) ==
  /\ npc = "read"
  /\ toNode # <<>>
  /\ Head(toNode).type = type
  /\ UnderCap
  /\ Verify(Head(toNode), nodeNext, TRUE) = "ok"
  /\ handshaken \/ type = "handshake"
  /\ toNode' = Tail(toNode)
  /\ nodeNext' = nodeNext + 1
  /\ messages' = messages + 1
  /\ UNCHANGED guestVars

(* _note_decision: three denials in a row are a burst.                     *)
NoteDecision(denied) ==
  /\ streak' = IF denied THEN streak + 1 ELSE 0
  /\ flags' = IF denied /\ streak + 1 >= DenyBurst THEN flags \cup {"deny_burst"} ELSE flags

NodeHandshake ==
  /\ NodeAccepts("handshake")
  /\ NodeWritesOr(Plain("handshake_ok"), "prompt")
  /\ handshaken' = TRUE
  /\ UNCHANGED <<turns, answered, outstanding, streak, flags>>

(* llm_request.  A request without tools_schema gets no calls.             *)
NodeInfers ==
  /\ NodeAccepts("llm_request")
  /\ \E decision \in LlmDecisions :
       /\ NoteDecision(decision = "deny")
       /\ \/ decision = "deny" /\ NodeWritesOr(Plain("error"), "read")
          \/ /\ decision = "allow"
             /\ \E calls \in IF Head(toNode).flag THEN CallLists ELSE {<<>>} :
                  NodeWritesOr([type |-> "llm_response", calls |-> calls, flag |-> FALSE], "read")
  /\ UNCHANGED <<handshaken, turns, answered, outstanding>>

(* Defect: the id is outstanding whatever was decided.                     *)
NodeDecidesForAll ==
  /\ NodeAccepts("tool_call")
  /\ \E decision \in CallDecisions :
       /\ NoteDecision(decision # "allow")
       /\ outstanding' = outstanding \cup {Head(toNode).calls[1]}
       /\ NodeWritesOr([type |-> "tool_call_response", calls |-> Head(toNode).calls,
                        flag |-> decision = "allow"], "read")
  /\ UNCHANGED <<handshaken, turns, answered>>

(* tool_call.  Only allow makes the id outstanding.  The tool runs before  *)
(* the reply is written, and may raise.                                    *)
NodeDecides ==
  /\ NodeAccepts("tool_call")
  /\ \E decision \in CallDecisions :
       /\ NoteDecision(decision # "allow")
       /\ outstanding' = IF decision = "allow"
                           THEN outstanding \cup {Head(toNode).calls[1]} ELSE outstanding
       /\ NodeWritesOr([type |-> "tool_call_response", calls |-> Head(toNode).calls,
                        flag |-> decision = "allow"], "read")
  /\ UNCHANGED <<handshaken, turns, answered>>

(* Defect: a result that is refused gets no reply.                         *)
RefuseSilently(code) ==
  flags' = flags \cup {code} /\ UNCHANGED <<npc, raised, outstanding, toGuest, nodeOut>>

Refuse(code) ==
  flags' = flags \cup {code} /\ UNCHANGED outstanding /\ NodeWritesOr(Plain("error"), "read")

(* tool_result: unbound, too large (the flag of the hop), or taken.        *)
NodeTakesResult ==
  /\ NodeAccepts("tool_result")
  /\ LET id == Head(toNode).calls[1] IN
       \/ id \notin outstanding /\ Refuse("unbound_tool_result")
       \/ id \in outstanding /\ Head(toNode).flag /\ Refuse("tool_result_too_large")
       \/ /\ id \in outstanding /\ ~Head(toNode).flag
          /\ outstanding' = outstanding \ {id}
          /\ NodeWritesOr(Plain("tool_result_ack"), "read")
          /\ UNCHANGED flags
  /\ UNCHANGED <<handshaken, turns, answered, streak>>

(* Defect: one turn more than MAX_SESSION_TURNS.                           *)
OneTurnMore == Once \/ turns > MaxTurns

LastTurn == Once \/ turns >= MaxTurns

(* Defect: the Node closes without a session_end.                          *)
NoFarewell == <<Plain("agent_response_ack")>>

Farewell == <<Plain("agent_response_ack"), Plain("session_end")>>

(* agent_response: acknowledge, hand the text over, and either wait for    *)
(* the next prompt or end the session.                                     *)
NodeAnswers ==
  /\ NodeAccepts("agent_response")
  /\ \/ /\ NodeSend(<<>>) /\ npc' = "ended" /\ raised' = TRUE
        /\ UNCHANGED answered
     \/ /\ \/ LastTurn /\ NodeSend(Farewell) /\ npc' = "ended" /\ UNCHANGED raised
           \/ LastTurn /\ NodeSend(<<Farewell[1]>>) /\ npc' = "ended" /\ raised' = TRUE
           \/ ~LastTurn /\ NodeSend(<<Farewell[1]>>) /\ npc' = "prompt" /\ UNCHANGED raised
        /\ answered' = answered + 1
  /\ UNCHANGED <<handshaken, turns, outstanding, streak, flags>>

(* The prompt queue holds a prompt, which is lost if it cannot be written, *)
(* or the sentinel.                                                        *)
NodePrompts ==
  /\ npc = "prompt"
  /\ \/ /\ NodeWritesOr(Plain("user_query"), "read")
        /\ turns' = turns + 1
        /\ messages' = 0
     \/ /\ ~Once
        /\ NodeWritesOr(Plain("session_end"), "ended")
        /\ UNCHANGED <<turns, messages>>
  /\ UNCHANGED <<handshaken, nodeNext, answered, outstanding, streak, flags, guestVars, toNode>>

-----------------------------------------------------------------------------
(* The guest.                                                              *)

(* Wire.read, or the reply of Wire.request: the next hop verifies.         *)
GuestReads(from) ==
  /\ gpc = from
  /\ toGuest # <<>>
  /\ Verify(Head(toGuest), guestNext, keyed) = "ok"
  /\ toGuest' = Tail(toGuest)
  /\ guestNext' = guestNext + 1
  /\ UNCHANGED nodeVars

(* Defect: a tool_result goes out under a number that is used again.       *)
GuestSendsUncounted(type, calls, flag, next) ==
  /\ toNode' = Append(toNode, Signed(type, guestOut, calls, flag))
  /\ guestOut' = IF type = "tool_result" THEN guestOut ELSE guestOut + 1
  /\ gpc' = next

(* Wire.request up to the wait for its reply.                              *)
GuestSends(type, calls, flag, next) ==
  /\ toNode' = Append(toNode, Signed(type, guestOut, calls, flag))
  /\ guestOut' = guestOut + 1
  /\ gpc' = next

GuestFails == gpc' = "failed" /\ UNCHANGED <<guestOut, toNode>>

GuestAccepts ==
  /\ GuestReads("init")
  /\ \/ /\ Head(toGuest).type = "session_init"
        /\ keyed' = TRUE
        /\ GuestSends("handshake", <<>>, FALSE, "handshake")
     \/ /\ Head(toGuest).type # "session_init"
        /\ GuestFails
        /\ UNCHANGED keyed
  /\ UNCHANGED <<todo, approved>>

GuestHandshaken ==
  /\ GuestReads("handshake")
  /\ \/ /\ Head(toGuest).type = "handshake_ok"
        /\ gpc' = "idle"
        /\ UNCHANGED <<guestOut, toNode>>
     \/ Head(toGuest).type # "handshake_ok" /\ GuestFails
  /\ UNCHANGED <<keyed, todo, approved>>

(* The loop of run: session_end returns, user_query starts a turn.  The    *)
(* request offers the tools when the guest has any.                        *)
GuestTurnStarts ==
  /\ GuestReads("idle")
  /\ \/ /\ Head(toGuest).type = "session_end"
        /\ gpc' = "done"
        /\ UNCHANGED <<guestOut, toNode>>
     \/ /\ Head(toGuest).type = "user_query"
        /\ \E tools \in BOOLEAN : GuestSends("llm_request", <<>>, tools, "infer")
     \/ Head(toGuest).type \notin {"session_end", "user_query"} /\ GuestFails
  /\ UNCHANGED <<keyed, todo, approved>>

(* Engine 1 works through the calls; when none is left the second request  *)
(* goes out without tools.                                                 *)
NextCall(calls) ==
  IF calls = <<>>
    THEN GuestSends("llm_request", <<>>, FALSE, "summary")
    ELSE GuestSends("tool_call", <<Head(calls)>>, FALSE, "call")

GuestInferred ==
  /\ GuestReads("infer")
  /\ \/ /\ Head(toGuest).type = "llm_response"
        /\ todo' = Head(toGuest).calls
        /\ IF Head(toGuest).calls = <<>>
             THEN GuestSends("agent_response", <<>>, FALSE, "respond")
             ELSE NextCall(Head(toGuest).calls)
     \/ Head(toGuest).type # "llm_response" /\ GuestFails /\ UNCHANGED todo
  /\ UNCHANGED <<keyed, approved>>

(* Any other reply than an approval counts as a denial; the result, or the *)
(* error in its place, is reported either way.  The result of a tool that  *)
(* ran may exceed TOOL_RESULT_MAX.                                         *)
GuestDecided ==
  /\ GuestReads("call")
  /\ approved' = (Head(toGuest).type = "tool_call_response" /\ Head(toGuest).flag)
  /\ \E large \in IF approved' THEN BOOLEAN ELSE {FALSE} :
       GuestSends("tool_result", <<Head(todo)>>, large, "result")
  /\ UNCHANGED <<keyed, todo>>

(* The reply to tool_result is not looked at.                              *)
GuestReported ==
  /\ GuestReads("result")
  /\ todo' = Tail(todo)
  /\ approved' = FALSE
  /\ NextCall(Tail(todo))
  /\ UNCHANGED keyed

GuestSummarized ==
  /\ GuestReads("summary")
  /\ \/ /\ Head(toGuest).type = "llm_response"
        /\ GuestSends("agent_response", <<>>, FALSE, "respond")
     \/ Head(toGuest).type # "llm_response" /\ GuestFails
  /\ UNCHANGED <<keyed, todo, approved>>

(* Nor is the reply to agent_response.                                     *)
GuestResponded ==
  /\ GuestReads("respond")
  /\ gpc' = "idle"
  /\ UNCHANGED <<keyed, guestOut, todo, approved, toNode>>

Running == gpc \notin {"done", "failed", "dead"}

(* A hop that does not verify, or EOF once the Node has closed.            *)
GuestRejects ==
  /\ Running
  /\ \/ /\ toGuest # <<>>
        /\ Verify(Head(toGuest), guestNext, keyed) # "ok"
     \/ toGuest = <<>> /\ npc = "ended"
  /\ gpc' = "failed"
  /\ UNCHANGED <<nodeVars, keyed, guestOut, guestNext, todo, approved, toNode, toGuest>>

(* The VM is killed or crashes.                                            *)
GuestDies ==
  /\ Running
  /\ gpc' = "dead"
  /\ UNCHANGED <<nodeVars, keyed, guestOut, guestNext, todo, approved, toNode, toGuest>>

-----------------------------------------------------------------------------
NodeReads ==
  \/ NodeCap /\ messages >= MaxMessages
  \/ NodeRejects \/ NodeHandshake \/ NodeInfers \/ NodeDecides
  \/ NodeTakesResult \/ NodeAnswers \/ NodeEof

GuestStep ==
  \/ GuestAccepts \/ GuestHandshaken \/ GuestTurnStarts \/ GuestInferred
  \/ GuestDecided \/ GuestReported \/ GuestSummarized \/ GuestResponded
  \/ GuestRejects

NodeStep ==
  NodeStart \/ NodeReads \/ NodeCap \/ NodeTimeout \/ NodeRaises \/ NodePrompts

(* The path delivers the last hop of a channel twice.                      *)
PathRepeats ==
  /\ ~faulted
  /\ faulted' = TRUE
  /\ \/ /\ toNode # <<>>
        /\ toNode' = Append(toNode, toNode[Len(toNode)])
        /\ UNCHANGED toGuest
     \/ /\ toGuest # <<>>
        /\ toGuest' = Append(toGuest, toGuest[Len(toGuest)])
        /\ UNCHANGED toNode
  /\ UNCHANGED <<nodeVars, guestVars>>

Next ==
  \/ (NodeStep \/ GuestStep \/ GuestDies) /\ UNCHANGED faulted
  \/ PathRepeats

Spec == Init /\ [][Next]_vars

(* Both ends keep running.  The timeout is not needed, nor a prompt.       *)
FairSpec ==
  /\ Spec
  /\ WF_vars(NodeStart /\ UNCHANGED faulted)
  /\ WF_vars(NodeReads /\ UNCHANGED faulted)
  /\ WF_vars(GuestStep /\ UNCHANGED faulted)

-----------------------------------------------------------------------------
(* What the hop protocol promises.                                         *)

(* Each end expects exactly the number that the next hop in its channel    *)
(* carries, and the numbers in a channel are consecutive, unless the path  *)
(* has repeated a hop or the Node has stopped reading.                     *)
NodeInStep ==
  /\ guestOut = nodeNext + Len(toNode)
  /\ \A i \in DOMAIN toNode : toNode[i].seq = nodeNext + i - 1

GuestInStep ==
  /\ nodeOut = guestNext + Len(toGuest)
  /\ \A i \in DOMAIN toGuest : toGuest[i].seq = guestNext + i - 1

SeqInStep == ~faulted => GuestInStep /\ (npc # "ended" => NodeInStep)

(* A guest that runs the shipped code is accused of a replay only when the *)
(* path repeated a hop, and never of a gap, a forged or an early hop.      *)
NoFalseAlarm ==
  /\ "replay" \in flags => faulted
  /\ flags \cap {"seq_gap", "mac_fail", "pre_handshake"} = {}

(* What the guest may find in reply to the request it is waiting on.       *)
Replies(wait) ==
  CASE wait = "handshake" -> {"handshake_ok"}
    [] wait \in {"infer", "summary"} -> {"llm_response", "error"}
    [] wait = "call" -> {"tool_call_response"}
    [] wait = "result" -> {"tool_result_ack", "error"}
    [] wait = "respond" -> {"agent_response_ack"}

(* A hop that verifies is the reply to the request the guest waits on,     *)
(* although Engine 1 and Engine 2 do not look at its type and the path may *)
(* have repeated an earlier hop.  Only the session_end of a cap or a       *)
(* timeout can stand in its place, and then the Node has ended.            *)
ReplyMatchesRequest ==
  gpc \in Awaiting /\ toGuest # <<>> /\ Verify(Head(toGuest), guestNext, keyed) = "ok" =>
    \/ Head(toGuest).type \in Replies(gpc)
    \/ Head(toGuest).type = "session_end" /\ npc = "ended" /\ "turn_cap" \in flags

(* The two ends never wait for each other: when the Node reads and the     *)
(* guest reads, a hop is under way.                                        *)
NoMutualWait ==
  npc = "read" /\ Running => toNode # <<>> \/ toGuest # <<>>

(* The guest leaves its loop with an error only when the Node cut it off:  *)
(* a cap, a timeout, a hop the path repeated, an llm_request that the      *)
(* policy denied, or an exception that ended serve without a session_end.  *)
GuestFailsOnlyWhenCut ==
  gpc = "failed" => "turn_cap" \in flags \/ faulted \/ raised \/ "deny" \in LlmDecisions

(* A tool_result is acknowledged only if the Node approved the call that   *)
(* the guest now reports on: although the ids repeat from turn to turn and *)
(* a guest reports on the calls it was denied too.  The exception is a     *)
(* result too large: its id stays outstanding, so the same id is taken     *)
(* once more when a later turn reports it.                                 *)
AckedResultWasApproved ==
  [][NodeTakesResult /\ outstanding' # outstanding =>
       approved \/ "tool_result_too_large" \in flags]_vars

(* A query is answered, or the session ends; no timeout is needed.         *)
TurnAnswered ==
  \A n \in 1..MaxTurns : (turns = n) ~> (answered = n \/ npc = "ended")

(* The session is one in the sense of TurnContract.                        *)
Contract == INSTANCE TurnContract WITH
  sess <- CASE npc \in {"start", "read"} /\ turns = 0 -> "none"
            [] npc = "prompt" -> "idle"
            [] npc = "read" /\ turns > 0 -> "turn"
            [] npc = "ended" -> "ended",
  turns <- turns

ImplementsContract == Contract!Spec
=============================================================================
