--------------------------- MODULE HopSessionProofs ---------------------------
(***************************************************************************)
(* The hop protocol, proved for any ids and lists of calls, any caps, any  *)
(* decisions of the policy and any number of turns, with the one hop that  *)
(* the path may repeat.                                                    *)
(***************************************************************************)
EXTENDS HopSession, SequenceTheorems, TLAPS

-----------------------------------------------------------------------------
(* Channels.                                                               *)

Hops(chan) == {chan[i] : i \in 1..Len(chan)}

(* What a channel holds after a hop went in, was taken out, was repeated.  *)
LEMMA HopsSent ==
  ASSUME NEW S, NEW chan \in Seq(S), NEW m \in S
  PROVE  /\ Append(chan, m) \in Seq(S)
         /\ Hops(Append(chan, m)) = Hops(chan) \cup {m}
         /\ Hops(chan) \subseteq S
<1>1. /\ Append(chan, m) \in Seq(S) /\ Len(Append(chan, m)) = Len(chan) + 1
      /\ \A i \in 1..Len(chan) : Append(chan, m)[i] = chan[i]
      /\ Append(chan, m)[Len(chan) + 1] = m
  BY AppendProperties, SMT
<1>2. Len(chan) \in Nat /\ \A i \in 1..Len(chan) : chan[i] \in S
  BY SMT
<1>3. \A x \in Hops(Append(chan, m)) : x \in Hops(chan) \cup {m}
  BY <1>1, <1>2, SMT DEF Hops
<1>4. \A x \in Hops(chan) \cup {m} : x \in Hops(Append(chan, m))
  BY <1>1, <1>2, SMT DEF Hops
<1>5. QED BY <1>1, <1>2, <1>3, <1>4, SMT DEF Hops

LEMMA HopsTaken ==
  ASSUME NEW S, NEW chan \in Seq(S), chan # <<>>
  PROVE  /\ Tail(chan) \in Seq(S)
         /\ Head(chan) \in Hops(chan) /\ Head(chan) \in S
         /\ Head(chan) = chan[1]
         /\ Hops(Tail(chan)) \subseteq Hops(chan)
         /\ Hops(chan) \subseteq Hops(Tail(chan)) \cup {Head(chan)}
         /\ Len(Tail(chan)) = Len(chan) - 1
         /\ Len(chan) \in Nat /\ Len(chan) > 0
         /\ \A i \in 1..Len(chan) - 1 : Tail(chan)[i] = chan[i + 1]
<1>1. /\ Head(chan) = chan[1] /\ Head(chan) \in S
      /\ Tail(chan) \in Seq(S) /\ Len(Tail(chan)) = Len(chan) - 1
      /\ Len(chan) \in Nat /\ Len(chan) > 0
      /\ \A i \in 1..Len(chan) - 1 : Tail(chan)[i] = chan[i + 1]
  BY SMT
<1>2. Head(chan) \in Hops(chan)
  BY <1>1, SMT DEF Hops
<1>3. \A x \in Hops(Tail(chan)) : x \in Hops(chan)
  BY <1>1, SMT DEF Hops
<1>4. \A x \in Hops(chan) : x \in Hops(Tail(chan)) \cup {Head(chan)}
  <2>1. TAKE x \in Hops(chan)
  <2>2. PICK i \in 1..Len(chan) : x = chan[i]
    BY SMT DEF Hops
  <2>3. CASE i = 1 BY <2>2, <2>3, <1>1, SMT
  <2>4. CASE i > 1
    <3>1. i - 1 \in 1..Len(Tail(chan)) /\ Tail(chan)[i - 1] = x
      BY <2>2, <2>4, <1>1, SMT
    <3>2. QED BY <3>1, SMT DEF Hops
  <2>5. QED BY <2>3, <2>4, <1>1, SMT
<1>5. QED BY <1>1, <1>2, <1>3, <1>4, SMT

LEMMA HopsRepeated ==
  ASSUME NEW S, NEW chan \in Seq(S), chan # <<>>
  PROVE  /\ chan[Len(chan)] \in S
         /\ Append(chan, chan[Len(chan)]) \in Seq(S)
         /\ Hops(Append(chan, chan[Len(chan)])) = Hops(chan)
<1>1. Len(chan) \in 1..Len(chan) /\ chan[Len(chan)] \in S
  BY SMT
<1>2. chan[Len(chan)] \in Hops(chan)
  BY <1>1, SMT DEF Hops
<1> DEFINE m == chan[Len(chan)]
<1>a. m \in S
  BY <1>1
<1> HIDE DEF m
<1>3. /\ Append(chan, m) \in Seq(S)
      /\ Hops(Append(chan, m)) = Hops(chan) \cup {m}
  BY <1>a, HopsSent
<1>4. Hops(chan) \cup {m} = Hops(chan)
  BY <1>2, SMT DEF m
<1>5. QED BY <1>1, <1>3, <1>4, SMT DEF m

LEMMA EmptyHops ==
  ASSUME NEW S, NEW chan \in Seq(S)
  PROVE  Hops(chan) = {} <=> chan = <<>>
<1>1. CASE chan = <<>> BY <1>1, SMT DEF Hops
<1>2. CASE chan # <<>> BY <1>2, HopsTaken, SMT
<1>3. QED BY <1>1, <1>2

-----------------------------------------------------------------------------
(* The numbers of a channel: next is what the reader expects, out what the *)
(* writer uses.                                                            *)

(* The reader is never behind the hop it finds.                            *)
Behind(chan, next, out) ==
  /\ out <= next + Len(chan)
  /\ \A i \in 1..Len(chan) : chan[i].seq <= next + i - 1

(* The reader expects exactly the hop it finds.                            *)
Exact(chan, next, out) ==
  /\ out = next + Len(chan)
  /\ \A i \in 1..Len(chan) : chan[i].seq = next + i - 1

LEMMA NumbersSent ==
  ASSUME NEW S, NEW chan \in Seq(S), NEW m \in S, NEW next \in Nat, NEW out \in Nat,
         m.seq = out
  PROVE  /\ Behind(chan, next, out) => Behind(Append(chan, m), next, out + 1)
         /\ Exact(chan, next, out) => Exact(Append(chan, m), next, out + 1)
<1>1. /\ Len(chan) \in Nat /\ Len(Append(chan, m)) = Len(chan) + 1
      /\ \A i \in 1..Len(chan) : Append(chan, m)[i] = chan[i]
      /\ Append(chan, m)[Len(chan) + 1] = m
  BY AppendProperties, SMT
<1>2. ASSUME Behind(chan, next, out) PROVE Behind(Append(chan, m), next, out + 1)
  BY <1>1, <1>2, SMT DEF Behind
<1>3. ASSUME Exact(chan, next, out) PROVE Exact(Append(chan, m), next, out + 1)
  BY <1>1, <1>3, SMT DEF Exact
<1>4. QED BY <1>2, <1>3

LEMMA NumbersTaken ==
  ASSUME NEW S, NEW chan \in Seq(S), chan # <<>>, NEW next \in Nat, NEW out \in Nat
  PROVE  /\ Behind(chan, next, out) => Behind(Tail(chan), next + 1, out)
         /\ Exact(chan, next, out) => Exact(Tail(chan), next + 1, out)
         /\ Behind(chan, next, out) => Head(chan).seq <= next
         /\ Exact(chan, next, out) => Head(chan).seq = next
<1>1. /\ Head(chan) = chan[1] /\ Len(Tail(chan)) = Len(chan) - 1
      /\ Len(chan) \in Nat /\ Len(chan) > 0
      /\ \A i \in 1..Len(chan) - 1 : Tail(chan)[i] = chan[i + 1]
  BY HopsTaken
<1>2. ASSUME Behind(chan, next, out)
      PROVE Behind(Tail(chan), next + 1, out) /\ Head(chan).seq <= next
  BY <1>1, <1>2, SMT DEF Behind
<1>3. ASSUME Exact(chan, next, out)
      PROVE Exact(Tail(chan), next + 1, out) /\ Head(chan).seq = next
  BY <1>1, <1>3, SMT DEF Exact
<1>4. QED BY <1>2, <1>3

(* A repeated hop has a number the reader has passed by then.              *)
LEMMA NumbersRepeated ==
  ASSUME NEW types, NEW chan \in Seq(Hop(types)), chan # <<>>,
         NEW next \in Nat, NEW out \in Nat, Behind(chan, next, out)
  PROVE  Behind(Append(chan, chan[Len(chan)]), next, out)
<1>1. /\ Len(chan) \in Nat /\ Len(chan) > 0
      /\ \A i \in 1..Len(chan) : chan[i] \in Hop(types)
  BY HopsTaken, SMT
<1> DEFINE m == chan[Len(chan)]
<1>2. /\ Len(Append(chan, m)) = Len(chan) + 1
      /\ \A i \in 1..Len(chan) : Append(chan, m)[i] = chan[i]
      /\ Append(chan, m)[Len(chan) + 1] = m
  BY <1>1, AppendProperties, SMT
<1>3. \A i \in 1..Len(chan) : chan[i].seq \in Nat
  BY <1>1, SMT DEF Hop
<1>4. QED BY <1>1, <1>2, <1>3, SMT DEF Behind

-----------------------------------------------------------------------------
(* What one end writes.                                                    *)

(* The numbers tell the handshake, and a hop about a call names it.        *)
Sound(m) ==
  /\ m.type = "handshake" <=> m.seq = 0
  /\ m.type \in {"tool_call", "tool_result"} => m.calls # <<>>

NodeWrites(m) ==
  /\ m \in Hop(NodeTypes) /\ m.seq = nodeOut
  /\ toGuest' = Append(toGuest, m)
  /\ nodeOut' = nodeOut + 1

GuestWrites(m) ==
  /\ m \in Hop(GuestTypes) /\ m.seq = guestOut /\ Sound(m)
  /\ toNode' = Append(toNode, m)
  /\ guestOut' = guestOut + 1

Unsigned == [type : NodeTypes, calls : Seq(CallIds), flag : BOOLEAN]

LEMMA NoCalls == <<>> \in Seq(CallIds)
BY SMT

LEMMA PlainUnsigned ==
  \A type \in NodeTypes : Plain(type) \in Unsigned /\ Plain(type).type = type
BY NoCalls, SMT DEF Plain, Unsigned

LEMMA NodeWritesNothing ==
  ASSUME toGuest \in Seq(Hop(NodeTypes)), nodeOut \in Nat, NodeSend(<<>>)
  PROVE  toGuest' = toGuest /\ nodeOut' = nodeOut
BY SMT DEF NodeSend

LEMMA NodeWritesOne ==
  ASSUME toGuest \in Seq(Hop(NodeTypes)), nodeOut \in Nat, NEW h \in Unsigned, NodeSend(<<h>>)
  PROVE  \E m : NodeWrites(m) /\ m.type = h.type /\ m.calls = h.calls /\ m.flag = h.flag
<1> DEFINE m == Signed(h.type, nodeOut, h.calls, h.flag)
<1>1. toGuest' = Append(toGuest, m) /\ nodeOut' = nodeOut + 1
  BY SMT DEF NodeSend, Signed
<1>2. /\ h.type \in NodeTypes /\ h.calls \in Seq(CallIds) /\ h.flag \in BOOLEAN
  BY SMT DEF Unsigned
<1>3. m \in Hop(NodeTypes)
  BY <1>2, SMT DEF Signed, Hop
<1>4. m.seq = nodeOut /\ m.type = h.type /\ m.calls = h.calls /\ m.flag = h.flag
  BY Zenon DEF Signed
<1>5. QED BY <1>1, <1>3, <1>4, Zenon DEF NodeWrites

LEMMA TwoAppended ==
  ASSUME NEW S, NEW chan \in Seq(S), NEW m \in S, NEW n \in S, NEW both,
         both = [i \in 1..2 |-> IF i = 1 THEN m ELSE n]
  PROVE  chan \o both = Append(Append(chan, m), n)
<1>1. both \in Seq(S) /\ Len(both) = 2 /\ both[1] = m /\ both[2] = n
  BY SMT
<1>2. both = <<m, n>>
  BY <1>1, SMT
<1>3. QED BY <1>1, <1>2, SMT

(* The reply to the last agent_response, and the session_end after it.     *)
LEMMA NodeWritesTwo ==
  ASSUME toGuest \in Seq(Hop(NodeTypes)), nodeOut \in Nat, NodeSend(Farewell)
  PROVE  \E m, n \in Hop(NodeTypes) :
           /\ m.seq = nodeOut /\ m.type = "agent_response_ack"
           /\ n.seq = nodeOut + 1 /\ n.type = "session_end"
           /\ toGuest' = Append(Append(toGuest, m), n)
           /\ nodeOut' = nodeOut + 2
<1> DEFINE m == Signed("agent_response_ack", nodeOut, <<>>, FALSE)
           n == Signed("session_end", nodeOut + 1, <<>>, FALSE)
           one(i) == Signed(Farewell[i].type, nodeOut + i - 1, Farewell[i].calls, Farewell[i].flag)
<1>1. /\ Len(Farewell) = 2
      /\ Farewell[1] = Plain("agent_response_ack") /\ Farewell[2] = Plain("session_end")
  BY SMT DEF Farewell
<1>2. one(1) = m
  <2>1. nodeOut + 1 - 1 = nodeOut
    BY SMT
  <2>2. QED BY <1>1, <2>1, SMT DEF Plain, Signed
<1>3. one(2) = n
  <2>1. nodeOut + 2 - 1 = nodeOut + 1
    BY SMT
  <2>2. QED BY <1>1, <2>1, SMT DEF Plain, Signed
<1>4. m \in Hop(NodeTypes) /\ n \in Hop(NodeTypes)
  BY NoCalls, SMT DEF Signed, Hop, NodeTypes
<1>5. /\ toGuest' = toGuest \o [i \in 1..2 |-> one(i)]
      /\ nodeOut' = nodeOut + 2
  BY <1>1, Zenon DEF NodeSend
<1>6. /\ m.seq = nodeOut /\ m.type = "agent_response_ack"
      /\ n.seq = nodeOut + 1 /\ n.type = "session_end"
  BY Zenon DEF Signed
<1> HIDE DEF m, n, one
<1>7. [i \in 1..2 |-> one(i)] = [i \in 1..2 |-> IF i = 1 THEN m ELSE n]
  BY <1>2, <1>3, SMT
<1>8. toGuest' = Append(Append(toGuest, m), n)
  BY <1>4, <1>5, <1>7, TwoAppended
<1>9. QED BY <1>4, <1>5, <1>6, <1>8, Zenon

LEMMA GuestWritesOne ==
  ASSUME guestOut \in Nat, NEW type \in GuestTypes, NEW calls \in Seq(CallIds),
         NEW flag \in BOOLEAN, NEW next, GuestSends(type, calls, flag, next),
         type = "handshake" <=> guestOut = 0,
         type \in {"tool_call", "tool_result"} => calls # <<>>
  PROVE  /\ \E m : GuestWrites(m) /\ m.type = type /\ m.calls = calls /\ m.flag = flag
         /\ gpc' = next
<1> DEFINE m == Signed(type, guestOut, calls, flag)
<1>1. m \in Hop(GuestTypes)
  BY SMT DEF Signed, Hop
<1>2. m.seq = guestOut /\ m.type = type /\ m.calls = calls /\ m.flag = flag
  BY Zenon DEF Signed
<1>3. Sound(m)
  BY <1>2, SMT DEF Sound
<1>4. toNode' = Append(toNode, m) /\ guestOut' = guestOut + 1 /\ gpc' = next
  BY Zenon DEF GuestSends
<1>5. QED BY <1>1, <1>2, <1>3, <1>4, Zenon DEF GuestWrites

-----------------------------------------------------------------------------
(* The inductive invariant.                                                *)

Numbers ==
  /\ \A m \in Hops(toNode) : Sound(m) /\ m.seq < guestOut
  /\ \A m \in Hops(toGuest) : m.seq < nodeOut
  /\ npc # "ended" => Behind(toNode, nodeNext, guestOut)
  /\ Behind(toGuest, guestNext, nodeOut)

InStep ==
  ~faulted => /\ Exact(toGuest, guestNext, nodeOut)
              /\ npc # "ended" => Exact(toNode, nodeNext, guestOut)

(* Where the two ends may stand.                                           *)
Places ==
  /\ handshaken <=> nodeNext > 0
  /\ gpc = "init" => guestOut = 0
  /\ gpc \in Awaiting \cup {"idle"} => guestOut > 0 /\ keyed
  /\ gpc \in {"call", "result"} => todo # <<>>
  /\ npc = "start" => nodeNext = 0 /\ turns = 0
  /\ npc = "read" => (nodeNext > 0 <=> turns > 0)
  /\ npc = "prompt" => nodeNext > 0 /\ turns < MaxTurns

(* The hop of the guest that carries its last number is the request it     *)
(* waits on.                                                               *)
Request(wait) ==
  CASE wait = "handshake" -> "handshake"
    [] wait \in {"infer", "summary"} -> "llm_request"
    [] wait = "call" -> "tool_call"
    [] wait = "result" -> "tool_result"
    [] wait = "respond" -> "agent_response"

Asked ==
  gpc \in Awaiting =>
    \A m \in Hops(toNode) : m.seq = guestOut - 1 => m.type = Request(gpc)

(* How many hops are under way in each direction, for every pair of places *)
(* while both ends run.                                                    *)
Flight(npcs, gpcs, up, down) ==
  /\ npc \in npcs /\ gpc \in gpcs
  /\ guestOut = nodeNext + up
  /\ nodeOut = guestNext + down

Phase ==
  npc # "ended" /\ Running =>
    \/ nodeNext = 0 /\ Flight({"start"}, {"init"}, 0, 0)
    \/ nodeNext = 0 /\ Flight({"read"}, {"init"}, 0, 1)
    \/ nodeNext = 0 /\ Flight({"read"}, {"handshake"}, 1, 0)
    \/ nodeNext > 0 /\ Flight({"prompt"}, {"handshake", "respond"}, 0, 1)
    \/ nodeNext > 0 /\ Flight({"prompt"}, {"idle"}, 0, 0)
    \/ nodeNext > 0 /\ Flight({"read"}, {"handshake", "respond"}, 0, 2)
    \/ nodeNext > 0 /\ Flight({"read"}, {"idle", "infer", "call", "result", "summary"}, 0, 1)
    \/ nodeNext > 0 /\ Flight({"read"}, Awaiting \ {"handshake"}, 1, 0)

CutOff == npc = "ended" /\ "turn_cap" \in flags

(* A guest that stands at wait looks for the hop of the given type that    *)
(* reaches it after `later' others, or the Node has cut it off.            *)
Due(wait, cut, type, later) ==
  \/ later = 0 /\ wait = "init" /\ type = "session_init"
  \/ later = 0 /\ wait = "idle" /\ type \in {"user_query", "session_end"}
  \/ later = 0 /\ wait \in Awaiting /\ type \in Replies(wait)
  \/ later = 1 /\ wait \in {"handshake", "respond"} /\ type \in {"user_query", "session_end"}
  \/ cut /\ type = "session_end"

Replied ==
  Running => \A m \in Hops(toGuest) :
    m.seq >= guestNext => Due(gpc, CutOff, m.type, m.seq - guestNext)

(* An error answers an llm_request only when the policy denies one.        *)
Denied ==
  gpc \in {"infer", "summary"} =>
    \A m \in Hops(toGuest) :
      m.seq >= guestNext /\ m.type = "error" => "deny" \in LlmDecisions

(* A Node that ended in order has said so.                                 *)
Farewelled ==
  npc = "ended" /\ Running /\ "turn_cap" \notin flags /\ ~faulted /\ ~raised =>
    \E m \in Hops(toGuest) : m.type = "session_end"

Inv ==
  /\ TypeOK /\ Numbers /\ InStep /\ Places
  /\ Asked /\ Phase /\ Replied /\ Denied /\ Farewelled
  /\ NoFalseAlarm /\ GuestFailsOnlyWhenCut

-----------------------------------------------------------------------------
(* What a step reads.                                                      *)

NodeTakes(type) ==
  /\ npc = "read" /\ toNode # <<>>
  /\ Head(toNode).type = type /\ Head(toNode).seq = nodeNext
  /\ toNode' = Tail(toNode) /\ nodeNext' = nodeNext + 1
  /\ nodeNext = 0 => type = "handshake"

GuestKept ==
  /\ gpc' = gpc /\ guestOut' = guestOut /\ guestNext' = guestNext
  /\ todo' = todo /\ keyed' = keyed /\ approved' = approved

LEMMA GuestKeeps ==
  ASSUME UNCHANGED guestVars
  PROVE  GuestKept
<1>1. UNCHANGED <<gpc, keyed, guestOut, guestNext, todo, approved>>
  BY Zenon DEF guestVars
<1>2. /\ gpc' = gpc /\ guestOut' = guestOut /\ guestNext' = guestNext
      /\ todo' = todo /\ keyed' = keyed /\ approved' = approved
  BY <1>1, Zenon
<1>3. QED BY <1>2, Zenon DEF GuestKept

LEMMA NodeAccepted ==
  ASSUME TypeOK, Numbers, Places, NEW type, NodeAccepts(type)
  PROVE  /\ NodeTakes(type) /\ GuestKept
         /\ messages' \in 0..MaxMessages
         /\ Head(toNode) \in Hop(GuestTypes) /\ Sound(Head(toNode))
         /\ Head(toNode).calls \in Seq(CallIds)
<1>1. /\ npc = "read" /\ toNode # <<>> /\ Head(toNode).type = type
      /\ messages < MaxMessages
      /\ Verify(Head(toNode), nodeNext, TRUE) = "ok"
      /\ handshaken \/ type = "handshake"
      /\ toNode' = Tail(toNode) /\ nodeNext' = nodeNext + 1 /\ messages' = messages + 1
      /\ UNCHANGED guestVars
  BY Zenon DEF NodeAccepts, UnderCap
<1>2. Head(toNode) \in Hop(GuestTypes) /\ Head(toNode) \in Hops(toNode)
  BY <1>1, HopsTaken DEF TypeOK
<1>3. Head(toNode).seq \in Nat /\ nodeNext \in Nat /\ Head(toNode).calls \in Seq(CallIds)
  BY <1>2, SMT DEF Hop, TypeOK
<1>4. Head(toNode).seq = nodeNext
  BY <1>1, <1>3, SMT DEF Verify
<1>5. nodeNext = 0 => type = "handshake"
  <2>1. handshaken <=> nodeNext > 0
    BY Zenon DEF Places
  <2>2. ~(nodeNext = 0 /\ nodeNext > 0)
    BY SMT
  <2>3. QED BY <1>1, <2>1, <2>2, Zenon
<1>6. messages' \in 0..MaxMessages
  BY <1>1, CapsAssumption, SMT DEF TypeOK
<1>7. QED BY <1>1, <1>2, <1>3, <1>4, <1>5, <1>6, GuestKeeps, Zenon DEF NodeTakes, Numbers

GuestTakes(from) ==
  /\ gpc = from /\ toGuest # <<>>
  /\ Head(toGuest).seq = guestNext
  /\ toGuest' = Tail(toGuest) /\ guestNext' = guestNext + 1

NodeKept ==
  /\ npc' = npc /\ nodeOut' = nodeOut /\ nodeNext' = nodeNext /\ turns' = turns
  /\ flags' = flags /\ messages' = messages /\ answered' = answered
  /\ outstanding' = outstanding /\ streak' = streak
  /\ handshaken' = handshaken /\ (raised' <=> raised) /\ raised' = raised

LEMMA NodeKeeps ==
  ASSUME UNCHANGED nodeVars
  PROVE  NodeKept
<1>1. UNCHANGED <<npc, handshaken, nodeOut, nodeNext, messages, turns, answered,
                  outstanding, streak, flags, raised>>
  BY Zenon DEF nodeVars
<1>2. /\ npc' = npc /\ nodeOut' = nodeOut /\ nodeNext' = nodeNext /\ turns' = turns
      /\ flags' = flags /\ messages' = messages /\ answered' = answered
      /\ outstanding' = outstanding /\ streak' = streak /\ handshaken' = handshaken
      /\ raised' = raised
  BY <1>1, Zenon
<1>3. raised' <=> raised
  BY <1>2, Zenon
<1>4. QED BY <1>2, <1>3, Zenon DEF NodeKept

LEMMA GuestRead ==
  ASSUME TypeOK, NEW from, GuestReads(from)
  PROVE  /\ GuestTakes(from) /\ NodeKept
         /\ Head(toGuest) \in Hop(NodeTypes) /\ Head(toGuest) \in Hops(toGuest)
         /\ Head(toGuest).calls \in Seq(CallIds)
         /\ Head(toGuest).type \in NodeTypes /\ Head(toGuest).flag \in BOOLEAN
<1>1. /\ gpc = from /\ toGuest # <<>>
      /\ Verify(Head(toGuest), guestNext, keyed) = "ok"
      /\ toGuest' = Tail(toGuest) /\ guestNext' = guestNext + 1
      /\ UNCHANGED nodeVars
  BY Zenon DEF GuestReads
<1>2. Head(toGuest) \in Hop(NodeTypes) /\ Head(toGuest) \in Hops(toGuest)
  BY <1>1, HopsTaken DEF TypeOK
<1>3. /\ Head(toGuest).seq \in Nat /\ guestNext \in Nat
      /\ Head(toGuest).calls \in Seq(CallIds) /\ Head(toGuest).type \in NodeTypes
      /\ Head(toGuest).flag \in BOOLEAN
  BY <1>2, SMT DEF Hop, TypeOK
<1>4. Head(toGuest).seq = guestNext
  BY <1>1, <1>3, SMT DEF Verify
<1>5. QED BY <1>1, <1>2, <1>3, <1>4, NodeKeeps, Zenon DEF GuestTakes

-----------------------------------------------------------------------------
(* The steps of the Node, with what the invariant looks at.                *)

NodeLedger ==
  /\ messages \in 0..MaxMessages /\ answered \in Nat /\ outstanding \subseteq CallIds
  /\ streak \in Nat /\ flags \subseteq FlagCodes /\ handshaken \in BOOLEAN
  /\ raised \in BOOLEAN

RaisedKept == raised => raised'

Starts ==
  /\ npc = "start" /\ npc' = "read"
  /\ \E m : NodeWrites(m) /\ m.type = "session_init"
  /\ nodeNext' = nodeNext /\ turns' = turns /\ flags' = flags /\ toNode' = toNode
  /\ handshaken' <=> handshaken

Closes ==
  /\ npc = "read" /\ npc' = "ended"
  /\ nodeNext' = nodeNext /\ turns' = turns /\ (handshaken' <=> handshaken)
  /\ toNode' = toNode \/ (toNode # <<>> /\ toNode' = Tail(toNode))
  /\ \/ /\ flags' = flags \cup {"turn_cap"}
        /\ \E m : NodeWrites(m) /\ m.type = "session_end"
     \/ /\ toGuest' = toGuest /\ nodeOut' = nodeOut
        /\ \/ flags' = flags /\ ~Running
           \/ flags' = flags \cup {"replay"} /\ faulted

Answers(type, replies, to) ==
  /\ NodeTakes(type) /\ npc' = to
  /\ \E m : NodeWrites(m) /\ m.type \in replies
  /\ turns' = turns /\ (to = "prompt" => turns < MaxTurns) /\ (to = "ended" => raised')
  /\ flags \subseteq flags'
  /\ flags' \subseteq flags \cup {"deny_burst", "unbound_tool_result", "tool_result_too_large"}
  /\ handshaken'

InferReplies == {"llm_response"} \cup {type \in {"error"} : "deny" \in LlmDecisions}

Answering ==
  \/ Answers("handshake", {"handshake_ok"}, "prompt")
  \/ Answers("llm_request", InferReplies, "read")
  \/ Answers("tool_call", {"tool_call_response"}, "read")
  \/ Answers("tool_result", {"tool_result_ack", "error"}, "read")
  \/ Answers("agent_response", {"agent_response_ack"}, "prompt")
  \/ Answers("agent_response", {"agent_response_ack"}, "ended")

Leaves ==
  /\ NodeTakes("agent_response") /\ npc' = "ended"
  /\ \E m, n \in Hop(NodeTypes) :
       /\ m.seq = nodeOut /\ m.type = "agent_response_ack"
       /\ n.seq = nodeOut + 1 /\ n.type = "session_end"
       /\ toGuest' = Append(Append(toGuest, m), n)
       /\ nodeOut' = nodeOut + 2
  /\ turns' = turns /\ flags' = flags /\ handshaken'

PromptKept ==
  /\ npc = "prompt"
  /\ nodeNext' = nodeNext /\ flags' = flags /\ toNode' = toNode
  /\ handshaken' <=> handshaken

Prompts ==
  /\ PromptKept /\ npc' = "read" /\ turns' = turns + 1
  /\ \E m : NodeWrites(m) /\ m.type = "user_query"

Dismisses ==
  /\ PromptKept /\ npc' = "ended" /\ turns' = turns
  /\ \E m : NodeWrites(m) /\ m.type = "session_end"

(* An exception leaves serve with nothing written: where no hop is read,   *)
(* with the hop unread or thrown away, or with the hop accepted.           *)
Broken == npc' = "ended" /\ raised' /\ toGuest' = toGuest /\ nodeOut' = nodeOut

Raises ==
  /\ npc \in {"start", "read", "prompt"} /\ Broken
  /\ toNode' = toNode \/ (toNode # <<>> /\ toNode' = Tail(toNode))
  /\ \/ nodeNext' = nodeNext /\ (handshaken' <=> handshaken)
     \/ nodeNext' = nodeNext + 1 /\ handshaken'
  /\ turns' = turns \/ (npc = "prompt" /\ turns' = turns + 1)
  /\ flags \subseteq flags'
  /\ flags' \subseteq flags \cup {"turn_cap", "deny_burst", "unbound_tool_result",
                                  "tool_result_too_large"}

(* A hop is written, or the exception that keeps it back ends serve.       *)
LEMMA WritesOr ==
  ASSUME TypeOK, NEW h \in Unsigned, NEW next, NodeWritesOr(h, next)
  PROVE  /\ raised' \in BOOLEAN /\ RaisedKept
         /\ \/ /\ npc' = next
               /\ \E m : NodeWrites(m) /\ m.type = h.type /\ m.calls = h.calls /\ m.flag = h.flag
            \/ Broken
<1>1. toGuest \in Seq(Hop(NodeTypes)) /\ nodeOut \in Nat /\ raised \in BOOLEAN
  BY Zenon DEF TypeOK
<1>2. CASE NodeSend(<<h>>) /\ npc' = next /\ raised' = raised
  <2>1. \E m : NodeWrites(m) /\ m.type = h.type /\ m.calls = h.calls /\ m.flag = h.flag
    BY <1>1, <1>2, NodeWritesOne
  <2>2. QED BY <1>1, <1>2, <2>1, Zenon DEF RaisedKept
<1>3. CASE NodeSend(<<>>) /\ npc' = "ended" /\ raised' = TRUE
  <2>1. toGuest' = toGuest /\ nodeOut' = nodeOut
    BY <1>1, <1>3, NodeWritesNothing
  <2>2. QED BY <1>3, <2>1, Zenon DEF Broken, RaisedKept
<1>4. QED BY <1>2, <1>3, Zenon DEF NodeWritesOr

(* The reply to a request that was accepted.                               *)
LEMMA ReplyStep ==
  ASSUME TypeOK, NEW type, NEW replies, NEW to, to # "ended", NodeTakes(type),
         NEW h \in Unsigned, h.type \in replies, NodeWritesOr(h, to),
         turns' = turns, to = "prompt" => turns < MaxTurns, handshaken',
         flags \subseteq flags',
         flags' \subseteq flags \cup {"deny_burst", "unbound_tool_result", "tool_result_too_large"}
  PROVE  /\ Answers(type, replies, to) \/ Raises
         /\ raised' \in BOOLEAN /\ RaisedKept
<1>1. /\ raised' \in BOOLEAN /\ RaisedKept
      /\ \/ npc' = to /\ \E m : NodeWrites(m) /\ m.type = h.type
         \/ Broken
  BY WritesOr, Zenon
<1>2. CASE npc' = to /\ \E m : NodeWrites(m) /\ m.type = h.type
  <2>1. \E m : NodeWrites(m) /\ m.type \in replies
    BY <1>2, Zenon
  <2>2. Answers(type, replies, to)
    BY <1>2, <2>1, Zenon DEF Answers
  <2>3. QED BY <1>1, <2>2
<1>3. CASE Broken
  <2>1. /\ npc = "read" /\ toNode # <<>> /\ toNode' = Tail(toNode)
        /\ nodeNext' = nodeNext + 1
    BY Zenon DEF NodeTakes
  <2>2. flags' \subseteq flags \cup {"turn_cap", "deny_burst", "unbound_tool_result",
                                     "tool_result_too_large"}
    BY Zenon
  <2>3. Raises
    BY <1>3, <2>1, <2>2, Zenon DEF Raises
  <2>4. QED BY <1>1, <2>3
<1>4. QED BY <1>1, <1>2, <1>3

LEMMA StartStep ==
  ASSUME TypeOK, NodeStart
  PROVE  (Starts \/ Raises) /\ GuestKept /\ NodeLedger' /\ RaisedKept
<1>1. /\ npc = "start" /\ NodeWritesOr(Plain("session_init"), "read")
      /\ UNCHANGED guestVars
      /\ handshaken' = handshaken /\ nodeNext' = nodeNext /\ messages' = messages
      /\ turns' = turns /\ answered' = answered /\ outstanding' = outstanding
      /\ streak' = streak /\ flags' = flags /\ toNode' = toNode
  BY Zenon DEF NodeStart
<1>2. Plain("session_init") \in Unsigned /\ Plain("session_init").type = "session_init"
  BY PlainUnsigned, Zenon DEF NodeTypes
<1>3. /\ raised' \in BOOLEAN /\ RaisedKept
      /\ \/ npc' = "read" /\ \E m : NodeWrites(m) /\ m.type = "session_init"
         \/ Broken
  BY <1>1, <1>2, WritesOr, Zenon
<1>4. GuestKept
  BY <1>1, GuestKeeps, Zenon
<1>5. NodeLedger'
  BY <1>1, <1>3, Zenon DEF NodeLedger, TypeOK
<1>6. Starts \/ Raises
  BY <1>1, <1>3, Zenon DEF Starts, Raises
<1>7. QED BY <1>3, <1>4, <1>5, <1>6, Zenon

(* An end of the session while the Node reads.                             *)
LEMMA EndsStep ==
  ASSUME TypeOK, NEW codes \in SUBSET FlagCodes, NodeEnds(codes),
         messages' \in 0..MaxMessages, raised' \in BOOLEAN
  PROVE  /\ npc' = "ended" /\ GuestKept /\ NodeLedger' /\ flags' = flags \cup codes
         /\ nodeNext' = nodeNext /\ turns' = turns /\ (handshaken' <=> handshaken)
<1>1. /\ npc' = "ended" /\ flags' = flags \cup codes
      /\ UNCHANGED guestVars
      /\ handshaken' = handshaken /\ nodeNext' = nodeNext
      /\ turns' = turns /\ answered' = answered /\ outstanding' = outstanding
      /\ streak' = streak
  BY Zenon DEF NodeEnds
<1>2. flags' \subseteq FlagCodes
  BY <1>1, SMT DEF TypeOK
<1>3. NodeLedger'
  BY <1>1, <1>2, Zenon DEF NodeLedger, TypeOK
<1>4. QED BY <1>1, <1>3, GuestKeeps, Zenon

(* Without a session_end and without an exception.                         *)
LEMMA SilentStep ==
  ASSUME TypeOK, NEW codes \in SUBSET FlagCodes, NodeEndsInSilence(codes),
         messages' \in 0..MaxMessages
  PROVE  /\ npc' = "ended" /\ GuestKept /\ NodeLedger' /\ flags' = flags \cup codes
         /\ nodeNext' = nodeNext /\ turns' = turns /\ (handshaken' <=> handshaken)
         /\ toGuest' = toGuest /\ nodeOut' = nodeOut /\ RaisedKept
<1>1. NodeEnds(codes) /\ NodeSend(<<>>) /\ raised' = raised
  BY Zenon DEF NodeEndsInSilence
<1>2. raised' \in BOOLEAN /\ RaisedKept
  BY <1>1, Zenon DEF TypeOK, RaisedKept
<1>3. toGuest' = toGuest /\ nodeOut' = nodeOut
  BY <1>1, NodeWritesNothing, Zenon DEF TypeOK
<1>4. QED BY <1>1, <1>2, <1>3, EndsStep

LEMMA TimeoutStep ==
  ASSUME TypeOK, NodeTimeout \/ NodeCap
  PROVE  (Closes \/ Raises) /\ GuestKept /\ NodeLedger' /\ RaisedKept
<1>1. /\ npc = "read" /\ NodeEnds({"turn_cap"})
      /\ NodeWritesOr(Plain("session_end"), "ended")
      /\ messages' = messages
      /\ toNode' = toNode \/ (toNode # <<>> /\ toNode' = Tail(toNode))
  BY Zenon DEF NodeTimeout, NodeCap, NodeCutsOff
<1>2. {"turn_cap"} \in SUBSET FlagCodes /\ messages' \in 0..MaxMessages
  BY <1>1, SMT DEF FlagCodes, TypeOK
<1>3. Plain("session_end") \in Unsigned /\ Plain("session_end").type = "session_end"
  BY PlainUnsigned, Zenon DEF NodeTypes
<1>4. /\ raised' \in BOOLEAN /\ RaisedKept
      /\ \/ \E m : NodeWrites(m) /\ m.type = "session_end"
         \/ Broken
  BY <1>1, <1>3, WritesOr, Zenon
<1>5. /\ npc' = "ended" /\ GuestKept /\ NodeLedger' /\ flags' = flags \cup {"turn_cap"}
      /\ nodeNext' = nodeNext /\ turns' = turns /\ (handshaken' <=> handshaken)
  BY <1>1, <1>2, <1>4, EndsStep
<1>6. CASE \E m : NodeWrites(m) /\ m.type = "session_end"
  BY <1>1, <1>4, <1>5, <1>6, Zenon DEF Closes
<1>7. CASE Broken
  <2>1. /\ flags \subseteq flags'
        /\ flags' \subseteq flags \cup {"turn_cap", "deny_burst", "unbound_tool_result",
                                        "tool_result_too_large"}
    BY <1>5, Zenon
  <2>2. QED BY <1>1, <1>4, <1>5, <1>7, <2>1, Zenon DEF Raises
<1>8. QED BY <1>4, <1>6, <1>7

LEMMA RaisesStep ==
  ASSUME TypeOK, NodeRaises
  PROVE  Raises /\ GuestKept /\ NodeLedger' /\ RaisedKept
<1>1. /\ npc = "read" /\ NodeEnds({}) /\ NodeSend(<<>>) /\ raised' = TRUE
      /\ messages' = messages
      /\ toNode' \in {toNode} \cup {Tail(c) : c \in {toNode} \ {<<>>}}
  BY Zenon DEF NodeRaises
<1>2. toNode' = toNode \/ (toNode # <<>> /\ toNode' = Tail(toNode))
  BY <1>1, Zenon
<1>3. {} \in SUBSET FlagCodes /\ messages' \in 0..MaxMessages
  BY <1>1, SMT DEF TypeOK
<1>4. raised' \in BOOLEAN /\ RaisedKept
  BY <1>1, Zenon DEF RaisedKept
<1>5. toGuest' = toGuest /\ nodeOut' = nodeOut
  BY <1>1, NodeWritesNothing, Zenon DEF TypeOK
<1>6. /\ npc' = "ended" /\ GuestKept /\ NodeLedger' /\ flags' = flags \cup {}
      /\ nodeNext' = nodeNext /\ turns' = turns /\ (handshaken' <=> handshaken)
  BY <1>1, <1>3, <1>4, EndsStep
<1>7. /\ flags \subseteq flags'
      /\ flags' \subseteq flags \cup {"turn_cap", "deny_burst", "unbound_tool_result",
                                      "tool_result_too_large"}
  BY <1>6, Zenon
<1>8. QED BY <1>1, <1>2, <1>4, <1>5, <1>6, <1>7, Zenon DEF Raises, Broken

LEMMA EofStep ==
  ASSUME TypeOK, NodeEof
  PROVE  Closes /\ GuestKept /\ NodeLedger' /\ RaisedKept
<1>1. /\ npc = "read" /\ NodeEndsInSilence({}) /\ messages' = messages
      /\ toNode' = toNode /\ GuestGone
  BY Zenon DEF NodeEof
<1>2. {} \in SUBSET FlagCodes /\ messages' \in 0..MaxMessages
  BY <1>1, SMT DEF TypeOK
<1>3. /\ npc' = "ended" /\ GuestKept /\ NodeLedger' /\ flags' = flags \cup {}
      /\ nodeNext' = nodeNext /\ turns' = turns /\ (handshaken' <=> handshaken)
      /\ toGuest' = toGuest /\ nodeOut' = nodeOut /\ RaisedKept
  BY <1>1, <1>2, SilentStep
<1>4. flags' = flags /\ ~Running
  BY <1>1, <1>3, SMT DEF GuestGone, Running
<1>5. QED BY <1>1, <1>3, <1>4, Zenon DEF Closes

(* A hop is rejected only as a replay, and only when the path repeated it. *)
LEMMA RejectsStep ==
  ASSUME TypeOK, Numbers, InStep, Places, NodeRejects
  PROVE  Closes /\ GuestKept /\ NodeLedger' /\ RaisedKept
<1> DEFINE m == Head(toNode)
           code == Verify(m, nodeNext, TRUE)
<1>1. /\ npc = "read" /\ toNode # <<>> /\ messages < MaxMessages
      /\ \/ code # "ok" /\ NodeEndsInSilence({code})
         \/ /\ code = "ok" /\ ~handshaken /\ m.type # "handshake"
            /\ NodeEndsInSilence({"pre_handshake"})
      /\ toNode' = Tail(toNode) /\ messages' = messages + 1
  BY Zenon DEF NodeRejects, UnderCap
<1>2. m \in Hop(GuestTypes) /\ m \in Hops(toNode)
  BY <1>1, HopsTaken DEF TypeOK
<1>3. m.seq \in Nat /\ nodeNext \in Nat /\ guestOut \in Nat
  BY <1>2, SMT DEF Hop, TypeOK
<1>4. /\ Behind(toNode, nodeNext, guestOut) => m.seq <= nodeNext
      /\ Exact(toNode, nodeNext, guestOut) => m.seq = nodeNext
  BY <1>1, <1>3, NumbersTaken DEF TypeOK
<1>5. m.seq <= nodeNext
  BY <1>1, <1>4, SMT DEF Numbers
<1>6. ~faulted => m.seq = nodeNext
  <2>1. npc # "ended"
    BY <1>1, SMT
  <2>2. QED BY <2>1, <1>4, Zenon DEF InStep
<1>7. /\ m.seq = nodeNext => code = "ok"
      /\ m.seq # nodeNext => code = "replay"
  BY <1>3, <1>5, SMT DEF Verify
<1>8. ASSUME code = "ok", ~handshaken PROVE m.type = "handshake"
  <2>1. m.seq = nodeNext
    <3>1. "replay" # "ok"
      BY SMT
    <3>2. QED BY <3>1, <1>7, <1>8, Zenon
  <2>2. ~(nodeNext > 0)
    BY <1>8, Zenon DEF Places
  <2>3. m.seq = 0
    BY <1>3, <2>1, <2>2, SMT
  <2>4. QED BY <1>2, <2>3, Zenon DEF Numbers, Sound
<1>9. code = "replay" /\ NodeEndsInSilence({"replay"}) /\ m.seq # nodeNext
  <2>1. code # "ok" /\ NodeEndsInSilence({code})
    BY <1>1, <1>8, Zenon
  <2>2. m.seq # nodeNext /\ code = "replay"
    BY <2>1, <1>7, Zenon
  <2>3. QED BY <2>1, <2>2, Zenon
<1>10. faulted
  BY <1>9, <1>6, Zenon
<1>11. {"replay"} \in SUBSET FlagCodes /\ messages' \in 0..MaxMessages
  BY <1>1, CapsAssumption, SMT DEF FlagCodes, TypeOK
<1>12. /\ npc' = "ended" /\ GuestKept /\ NodeLedger' /\ flags' = flags \cup {"replay"}
       /\ nodeNext' = nodeNext /\ turns' = turns /\ (handshaken' <=> handshaken)
       /\ toGuest' = toGuest /\ nodeOut' = nodeOut /\ RaisedKept
  BY <1>9, <1>11, SilentStep
<1>13. QED BY <1>1, <1>10, <1>12, Zenon DEF Closes

LEMMA Noted ==
  ASSUME TypeOK, NEW denied \in BOOLEAN, NoteDecision(denied)
  PROVE  /\ streak' \in Nat /\ flags' \subseteq FlagCodes
         /\ flags \subseteq flags' /\ flags' \subseteq flags \cup {"deny_burst"}
<1>1. "deny_burst" \in FlagCodes
  BY SMT DEF FlagCodes
<1>2. flags' = flags \/ flags' = flags \cup {"deny_burst"}
  BY Zenon DEF NoteDecision
<1>3. streak' = 0 \/ streak' = streak + 1
  BY Zenon DEF NoteDecision
<1>4. streak' \in Nat
  BY <1>3, SMT DEF TypeOK
<1>5. QED BY <1>1, <1>2, <1>4, SMT DEF TypeOK

(* Past the handshake, whatever is accepted.                               *)
LEMMA AcceptedLate ==
  ASSUME TypeOK, Numbers, Places, NEW type, type # "handshake", NodeAccepts(type)
  PROVE  handshaken
<1>1. handshaken \/ type = "handshake"
  BY Zenon DEF NodeAccepts
<1>2. QED BY <1>1, Zenon

LEMMA HandshakeStep ==
  ASSUME TypeOK, Numbers, Places, NodeHandshake
  PROVE  (Answering \/ Raises) /\ GuestKept /\ NodeLedger' /\ RaisedKept
<1>1. /\ NodeAccepts("handshake") /\ NodeWritesOr(Plain("handshake_ok"), "prompt")
      /\ handshaken' = TRUE
      /\ turns' = turns /\ answered' = answered /\ outstanding' = outstanding
      /\ streak' = streak /\ flags' = flags
  BY Zenon DEF NodeHandshake
<1>2. /\ NodeTakes("handshake") /\ GuestKept /\ messages' \in 0..MaxMessages
      /\ Sound(Head(toNode))
  BY <1>1, NodeAccepted
<1>3. /\ Plain("handshake_ok") \in Unsigned
      /\ Plain("handshake_ok").type \in {"handshake_ok"}
  BY PlainUnsigned, Zenon DEF NodeTypes
<1>4. npc = "read" /\ nodeNext = 0
  BY <1>2, SMT DEF NodeTakes, Sound
<1>5. turns < MaxTurns
  <2>1. ~(turns > 0)
    <3>1. ~(nodeNext > 0) BY <1>4, SMT
    <3>2. QED BY <1>4, <3>1, Zenon DEF Places
  <2>2. QED BY <2>1, CapsAssumption, SMT DEF TypeOK
<1>6. /\ flags \subseteq flags' /\ handshaken'
      /\ flags' \subseteq flags \cup {"deny_burst", "unbound_tool_result", "tool_result_too_large"}
  BY <1>1, Zenon
<1>7. "prompt" # "ended"
  BY SMT
<1>8. /\ Answers("handshake", {"handshake_ok"}, "prompt") \/ Raises
      /\ raised' \in BOOLEAN /\ RaisedKept
  BY <1>1, <1>2, <1>3, <1>5, <1>6, <1>7, ReplyStep
<1>9. NodeLedger'
  BY <1>1, <1>2, <1>8, Zenon DEF NodeLedger, TypeOK
<1>10. QED BY <1>2, <1>8, <1>9, Zenon DEF Answering

LEMMA InfersStep ==
  ASSUME TypeOK, Numbers, Places, NodeInfers
  PROVE  (Answering \/ Raises) /\ GuestKept /\ NodeLedger' /\ RaisedKept
<1>1. /\ NodeAccepts("llm_request")
      /\ handshaken' = handshaken /\ turns' = turns /\ answered' = answered
      /\ outstanding' = outstanding
  BY Zenon DEF NodeInfers
<1>2. PICK decision \in LlmDecisions :
        /\ NoteDecision(decision = "deny")
        /\ \/ decision = "deny" /\ NodeWritesOr(Plain("error"), "read")
           \/ /\ decision = "allow"
              /\ \E calls \in IF Head(toNode).flag THEN CallLists ELSE {<<>>} :
                   NodeWritesOr([type |-> "llm_response", calls |-> calls, flag |-> FALSE], "read")
  BY Zenon DEF NodeInfers
<1>3. NodeTakes("llm_request") /\ GuestKept /\ messages' \in 0..MaxMessages
  BY <1>1, NodeAccepted
<1>4. handshaken /\ handshaken'
  <2>1. "llm_request" # "handshake"
    BY SMT
  <2>2. QED BY <1>1, <2>1, AcceptedLate, Zenon
<1>5. (decision = "deny") \in BOOLEAN
  BY Zenon
<1>6. /\ streak' \in Nat /\ flags' \subseteq FlagCodes
      /\ flags \subseteq flags' /\ flags' \subseteq flags \cup {"deny_burst"}
  BY <1>2, <1>5, Noted
<1>7. PICK h \in Unsigned : NodeWritesOr(h, "read") /\ h.type \in InferReplies
  <2>1. CASE decision = "deny" /\ NodeWritesOr(Plain("error"), "read")
    <3>1. Plain("error") \in Unsigned /\ Plain("error").type = "error"
      BY PlainUnsigned, Zenon DEF NodeTypes
    <3>2. Plain("error").type \in InferReplies
      BY <1>2, <2>1, <3>1, SMT DEF InferReplies
    <3>3. QED BY <2>1, <3>1, <3>2, Zenon
  <2>2. CASE \E calls \in IF Head(toNode).flag THEN CallLists ELSE {<<>>} :
               NodeWritesOr([type |-> "llm_response", calls |-> calls, flag |-> FALSE], "read")
    <3>1. PICK calls \in CallLists \cup {<<>>} :
            NodeWritesOr([type |-> "llm_response", calls |-> calls, flag |-> FALSE], "read")
      BY <2>2, Zenon
    <3> DEFINE h == [type |-> "llm_response", calls |-> calls, flag |-> FALSE]
    <3>2. calls \in Seq(CallIds)
      BY CallsAssumption, NoCalls, Zenon
    <3>3. h \in Unsigned /\ h.type \in InferReplies
      BY <3>2, SMT DEF Unsigned, NodeTypes, InferReplies
    <3>4. NodeWritesOr(h, "read")
      BY <3>1, Zenon
    <3> HIDE DEF h
    <3>5. QED BY <3>3, <3>4, Zenon
  <2>3. QED BY <1>2, <2>1, <2>2, Zenon
<1>8. flags' \subseteq flags \cup {"deny_burst", "unbound_tool_result", "tool_result_too_large"}
  BY <1>6, Zenon
<1>9. "read" # "ended" /\ "read" # "prompt"
  BY SMT
<1>10. /\ Answers("llm_request", InferReplies, "read") \/ Raises
       /\ raised' \in BOOLEAN /\ RaisedKept
  BY <1>1, <1>3, <1>4, <1>6, <1>7, <1>8, <1>9, ReplyStep
<1>11. NodeLedger'
  BY <1>1, <1>3, <1>6, <1>10, Zenon DEF NodeLedger, TypeOK
<1>12. QED BY <1>3, <1>10, <1>11, Zenon DEF Answering

LEMMA DecidesStep ==
  ASSUME TypeOK, Numbers, Places, NodeDecides
  PROVE  (Answering \/ Raises) /\ GuestKept /\ NodeLedger' /\ RaisedKept
<1>1. /\ NodeAccepts("tool_call")
      /\ handshaken' = handshaken /\ turns' = turns /\ answered' = answered
  BY Zenon DEF NodeDecides
<1>2. PICK decision \in CallDecisions :
        /\ NoteDecision(decision # "allow")
        /\ outstanding' = IF decision = "allow"
                            THEN outstanding \cup {Head(toNode).calls[1]} ELSE outstanding
        /\ NodeWritesOr([type |-> "tool_call_response", calls |-> Head(toNode).calls,
                         flag |-> decision = "allow"], "read")
  BY Zenon DEF NodeDecides
<1>3. /\ NodeTakes("tool_call") /\ GuestKept /\ messages' \in 0..MaxMessages
      /\ Sound(Head(toNode)) /\ Head(toNode).calls \in Seq(CallIds)
  BY <1>1, NodeAccepted
<1>4. handshaken /\ handshaken'
  <2>1. "tool_call" # "handshake"
    BY SMT
  <2>2. QED BY <1>1, <2>1, AcceptedLate, Zenon
<1>5. (decision # "allow") \in BOOLEAN /\ (decision = "allow") \in BOOLEAN
  BY Zenon
<1>6. /\ streak' \in Nat /\ flags' \subseteq FlagCodes
      /\ flags \subseteq flags' /\ flags' \subseteq flags \cup {"deny_burst"}
  BY <1>2, <1>5, Noted
<1>7. outstanding' \subseteq CallIds
  <2>1. Head(toNode).calls # <<>>
    BY <1>3, SMT DEF NodeTakes, Sound
  <2>2. Head(toNode).calls[1] \in CallIds
    BY <1>3, <2>1, SMT
  <2>3. QED BY <1>2, <2>2, SMT DEF TypeOK
<1>8. PICK h \in Unsigned : NodeWritesOr(h, "read") /\ h.type \in {"tool_call_response"}
  <2> DEFINE yes == (decision = "allow")
             h == [type |-> "tool_call_response", calls |-> Head(toNode).calls, flag |-> yes]
  <2>1. yes \in BOOLEAN
    BY Zenon
  <2>2. NodeWritesOr(h, "read")
    BY <1>2, Zenon
  <2> HIDE DEF yes
  <2>3. h \in Unsigned /\ h.type \in {"tool_call_response"}
    BY <1>3, <2>1, SMT DEF Unsigned, NodeTypes
  <2> HIDE DEF h
  <2>4. QED BY <2>2, <2>3, Zenon
<1>9. flags' \subseteq flags \cup {"deny_burst", "unbound_tool_result", "tool_result_too_large"}
  BY <1>6, Zenon
<1>10. "read" # "ended" /\ "read" # "prompt"
  BY SMT
<1>11. /\ Answers("tool_call", {"tool_call_response"}, "read") \/ Raises
       /\ raised' \in BOOLEAN /\ RaisedKept
  BY <1>1, <1>3, <1>4, <1>6, <1>8, <1>9, <1>10, ReplyStep
<1>12. NodeLedger'
  BY <1>1, <1>3, <1>6, <1>7, <1>11, Zenon DEF NodeLedger, TypeOK
<1>13. QED BY <1>3, <1>11, <1>12, Zenon DEF Answering

LEMMA ResultStep ==
  ASSUME TypeOK, Numbers, Places, NodeTakesResult
  PROVE  (Answering \/ Raises) /\ GuestKept /\ NodeLedger' /\ RaisedKept
<1> DEFINE id == Head(toNode).calls[1]
<1>1. /\ NodeAccepts("tool_result")
      /\ handshaken' = handshaken /\ turns' = turns /\ answered' = answered
      /\ streak' = streak
  BY Zenon DEF NodeTakesResult
<1>2. \/ Refuse("unbound_tool_result")
      \/ Refuse("tool_result_too_large")
      \/ /\ outstanding' = outstanding \ {id} /\ flags' = flags
         /\ NodeWritesOr(Plain("tool_result_ack"), "read")
  BY Zenon DEF NodeTakesResult
<1>3. NodeTakes("tool_result") /\ GuestKept /\ messages' \in 0..MaxMessages
  BY <1>1, NodeAccepted
<1>4. handshaken /\ handshaken'
  <2>1. "tool_result" # "handshake"
    BY SMT
  <2>2. QED BY <1>1, <2>1, AcceptedLate, Zenon
<1>5. /\ \/ flags' = flags \/ flags' = flags \cup {"unbound_tool_result"}
         \/ flags' = flags \cup {"tool_result_too_large"}
      /\ outstanding' = outstanding \/ outstanding' = outstanding \ {id}
  BY <1>2, Zenon DEF Refuse
<1>6. /\ flags \subseteq flags' /\ flags' \subseteq FlagCodes /\ outstanding' \subseteq CallIds
      /\ flags' \subseteq flags \cup {"deny_burst", "unbound_tool_result", "tool_result_too_large"}
  <2>1. flags \subseteq FlagCodes /\ outstanding \subseteq CallIds
    BY Zenon DEF TypeOK
  <2>2. "unbound_tool_result" \in FlagCodes /\ "tool_result_too_large" \in FlagCodes
    BY SMT DEF FlagCodes
  <2>3. QED BY <1>5, <2>1, <2>2, Zenon
<1>7. PICK h \in Unsigned :
        NodeWritesOr(h, "read") /\ h.type \in {"tool_result_ack", "error"}
  <2>1. /\ Plain("error") \in Unsigned /\ Plain("error").type = "error"
        /\ Plain("tool_result_ack") \in Unsigned
        /\ Plain("tool_result_ack").type = "tool_result_ack"
    BY PlainUnsigned, Zenon DEF NodeTypes
  <2>2. \/ NodeWritesOr(Plain("error"), "read")
        \/ NodeWritesOr(Plain("tool_result_ack"), "read")
    BY <1>2, Zenon DEF Refuse
  <2>3. QED BY <2>1, <2>2, Zenon
<1>8. "read" # "ended" /\ "read" # "prompt"
  BY SMT
<1>9. /\ Answers("tool_result", {"tool_result_ack", "error"}, "read") \/ Raises
      /\ raised' \in BOOLEAN /\ RaisedKept
  BY <1>1, <1>3, <1>4, <1>6, <1>7, <1>8, ReplyStep
<1>10. NodeLedger'
  BY <1>1, <1>3, <1>6, <1>9, Zenon DEF NodeLedger, TypeOK
<1>11. QED BY <1>3, <1>9, <1>10, Zenon DEF Answering

LEMMA AnswersStep ==
  ASSUME TypeOK, Numbers, Places, NodeAnswers
  PROVE  (Answering \/ Leaves \/ Raises) /\ GuestKept /\ NodeLedger' /\ RaisedKept
<1>1. /\ NodeAccepts("agent_response")
      /\ handshaken' = handshaken /\ turns' = turns /\ outstanding' = outstanding
      /\ streak' = streak /\ flags' = flags
      /\ answered' = answered \/ answered' = answered + 1
      /\ raised' = raised \/ raised' = TRUE
      /\ \/ NodeSend(<<>>) /\ npc' = "ended" /\ raised' = TRUE
         \/ NodeSend(Farewell) /\ npc' = "ended"
         \/ NodeSend(<<Farewell[1]>>) /\ npc' = "ended" /\ raised' = TRUE
         \/ ~LastTurn /\ NodeSend(<<Farewell[1]>>) /\ npc' = "prompt"
  BY Zenon DEF NodeAnswers
<1>2. NodeTakes("agent_response") /\ GuestKept /\ messages' \in 0..MaxMessages
  BY <1>1, NodeAccepted
<1>3. handshaken'
  <2>1. "agent_response" # "handshake"
    BY SMT
  <2>2. QED BY <1>1, <2>1, AcceptedLate, Zenon
<1>4. answered' \in Nat
  BY <1>1, SMT DEF TypeOK
<1>5. raised' \in BOOLEAN /\ RaisedKept
  <2>1. CASE raised' = raised
    BY <2>1, Zenon DEF TypeOK, RaisedKept
  <2>2. CASE raised' = TRUE
    BY <2>2, Zenon DEF RaisedKept
  <2>3. QED BY <1>1, <2>1, <2>2
<1>6. NodeLedger'
  BY <1>1, <1>2, <1>4, <1>5, Zenon DEF NodeLedger, TypeOK
<1>7. /\ Farewell[1] \in Unsigned
      /\ Farewell[1].type = "agent_response_ack"
  <2>1. Farewell[1] = Plain("agent_response_ack")
    BY SMT DEF Farewell
  <2>2. QED BY <2>1, PlainUnsigned, Zenon DEF NodeTypes
<1>8. "prompt" # "ended"
  BY SMT
<1>9. CASE NodeSend(<<>>) /\ npc' = "ended" /\ raised' = TRUE
  <2>1. Broken
    BY <1>9, NodeWritesNothing, Zenon DEF TypeOK, Broken
  <2>2. /\ npc = "read" /\ toNode # <<>> /\ toNode' = Tail(toNode)
        /\ nodeNext' = nodeNext + 1
    BY <1>2, Zenon DEF NodeTakes
  <2>3. QED BY <1>1, <1>2, <1>3, <1>5, <1>6, <2>1, <2>2, Zenon DEF Raises
<1>10. CASE NodeSend(Farewell) /\ npc' = "ended"
  <2>1. \E m, n \in Hop(NodeTypes) :
          /\ m.seq = nodeOut /\ m.type = "agent_response_ack"
          /\ n.seq = nodeOut + 1 /\ n.type = "session_end"
          /\ toGuest' = Append(Append(toGuest, m), n)
          /\ nodeOut' = nodeOut + 2
    BY <1>10, NodeWritesTwo, Zenon DEF TypeOK
  <2>2. QED BY <1>1, <1>2, <1>3, <1>5, <1>6, <1>10, <2>1, Zenon DEF Leaves
<1>11. ASSUME NodeSend(<<Farewell[1]>>)
       PROVE  \E m : NodeWrites(m) /\ m.type \in {"agent_response_ack"}
  BY <1>7, <1>11, NodeWritesOne, Zenon DEF TypeOK
<1>12. CASE NodeSend(<<Farewell[1]>>) /\ npc' = "ended" /\ raised' = TRUE
  <2>1. Answers("agent_response", {"agent_response_ack"}, "ended")
    BY <1>1, <1>2, <1>3, <1>8, <1>11, <1>12, Zenon DEF Answers
  <2>2. QED BY <1>2, <1>5, <1>6, <2>1, Zenon DEF Answering
<1>13. CASE ~LastTurn /\ NodeSend(<<Farewell[1]>>) /\ npc' = "prompt"
  <2>1. turns < MaxTurns
    <3>1. ~(turns >= MaxTurns)
      BY <1>13, Zenon DEF LastTurn
    <3>2. QED BY <3>1, CapsAssumption, SMT DEF TypeOK
  <2>2. Answers("agent_response", {"agent_response_ack"}, "prompt")
    BY <1>1, <1>2, <1>3, <1>8, <1>11, <1>13, <2>1, Zenon DEF Answers
  <2>3. QED BY <1>2, <1>5, <1>6, <2>2, Zenon DEF Answering
<1>14. QED BY <1>1, <1>9, <1>10, <1>12, <1>13, Zenon

LEMMA PromptStep ==
  ASSUME TypeOK, Places, NodePrompts
  PROVE  (Prompts \/ Dismisses \/ Raises) /\ GuestKept /\ NodeLedger' /\ RaisedKept
<1>1. /\ npc = "prompt" /\ UNCHANGED guestVars
      /\ handshaken' = handshaken /\ nodeNext' = nodeNext /\ answered' = answered
      /\ outstanding' = outstanding /\ streak' = streak /\ flags' = flags /\ toNode' = toNode
      /\ \/ /\ NodeWritesOr(Plain("user_query"), "read") /\ turns' = turns + 1
            /\ messages' = 0
         \/ /\ NodeWritesOr(Plain("session_end"), "ended") /\ turns' = turns
            /\ messages' = messages
  BY Zenon DEF NodePrompts
<1>2. messages' \in 0..MaxMessages
  BY <1>1, CapsAssumption, SMT DEF TypeOK
<1>3. PromptKept /\ GuestKept
  BY <1>1, GuestKeeps, Zenon DEF PromptKept
<1>4. /\ Plain("user_query") \in Unsigned /\ Plain("user_query").type = "user_query"
      /\ Plain("session_end") \in Unsigned /\ Plain("session_end").type = "session_end"
  BY PlainUnsigned, Zenon DEF NodeTypes
<1>5. /\ raised' \in BOOLEAN /\ RaisedKept
      /\ \/ /\ turns' = turns + 1 /\ npc' = "read"
            /\ \E m : NodeWrites(m) /\ m.type = "user_query"
         \/ /\ turns' = turns /\ npc' = "ended"
            /\ \E m : NodeWrites(m) /\ m.type = "session_end"
         \/ Broken /\ (turns' = turns \/ turns' = turns + 1)
  <2>1. CASE NodeWritesOr(Plain("user_query"), "read") /\ turns' = turns + 1
    BY <1>4, <2>1, WritesOr, Zenon
  <2>2. CASE NodeWritesOr(Plain("session_end"), "ended") /\ turns' = turns
    BY <1>4, <2>2, WritesOr, Zenon
  <2>3. QED BY <1>1, <2>1, <2>2, Zenon
<1>6. NodeLedger'
  BY <1>1, <1>2, <1>5, Zenon DEF NodeLedger, TypeOK
<1>7. CASE Broken /\ (turns' = turns \/ turns' = turns + 1)
  <2>1. /\ flags \subseteq flags'
        /\ flags' \subseteq flags \cup {"turn_cap", "deny_burst", "unbound_tool_result",
                                        "tool_result_too_large"}
    BY <1>1, Zenon
  <2>2. Raises
    BY <1>1, <1>7, <2>1, Zenon DEF Raises
  <2>3. QED BY <1>3, <1>5, <1>6, <2>2
<1>8. QED BY <1>3, <1>5, <1>6, <1>7, Zenon DEF Prompts, Dismisses

-----------------------------------------------------------------------------
(* The steps of the guest.                                                 *)

GuestLedger ==
  /\ todo \in Seq(CallIds) /\ keyed \in BOOLEAN /\ approved \in BOOLEAN

Asks(from, types, to) ==
  /\ GuestTakes(from) /\ Head(toGuest).type \in types
  /\ gpc' = to
  /\ \E m : GuestWrites(m) /\ m.type = Request(to)
  /\ keyed'
  /\ to \in {"call", "result"} => todo' # <<>>

Asking ==
  \/ Asks("init", {"session_init"}, "handshake")
  \/ Asks("idle", {"user_query"}, "infer")
  \/ Asks("infer", {"llm_response"}, "respond")
  \/ Asks("infer", {"llm_response"}, "call")
  \/ Asks("call", NodeTypes, "result")
  \/ Asks("result", NodeTypes, "call")
  \/ Asks("result", NodeTypes, "summary")
  \/ Asks("summary", {"llm_response"}, "respond")

Moves(from, types, to) ==
  /\ GuestTakes(from) /\ Head(toGuest).type \in types
  /\ gpc' = to
  /\ toNode' = toNode /\ guestOut' = guestOut
  /\ keyed' <=> keyed

Moving ==
  \/ Moves("handshake", {"handshake_ok"}, "idle")
  \/ Moves("respond", NodeTypes, "idle")
  \/ Moves("idle", {"session_end"}, "done")

Failing ==
  \/ Moves("init", NodeTypes \ {"session_init"}, "failed")
  \/ Moves("handshake", NodeTypes \ {"handshake_ok"}, "failed")
  \/ Moves("idle", NodeTypes \ {"session_end", "user_query"}, "failed")
  \/ Moves("infer", NodeTypes \ {"llm_response"}, "failed")
  \/ Moves("summary", NodeTypes \ {"llm_response"}, "failed")

Excused == "turn_cap" \in flags \/ faulted \/ raised \/ "deny" \in LlmDecisions

Stops ==
  /\ Running
  /\ gpc' = "dead" \/ (gpc' = "failed" /\ Excused)
  /\ toNode' = toNode /\ toGuest' = toGuest
  /\ guestOut' = guestOut /\ guestNext' = guestNext

LEMMA Letters ==
  /\ {"handshake", "llm_request", "tool_call", "tool_result", "agent_response"} = GuestTypes
  /\ Request("handshake") = "handshake" /\ Request("infer") = "llm_request"
  /\ Request("call") = "tool_call" /\ Request("result") = "tool_result"
  /\ Request("summary") = "llm_request" /\ Request("respond") = "agent_response"
BY SMT DEF GuestTypes, Request

(* A request of one turn, which names the call it is about.                *)
LEMMA RequestSent ==
  ASSUME TypeOK, guestOut > 0, NEW to \in Awaiting \ {"handshake"},
         NEW calls \in Seq(CallIds), NEW flag \in BOOLEAN,
         to \in {"call", "result"} => calls # <<>>,
         GuestSends(Request(to), calls, flag, to)
  PROVE  gpc' = to /\ \E m : GuestWrites(m) /\ m.type = Request(to)
<1>1. Request(to) \in GuestTypes \ {"handshake"}
  BY SMT DEF Request, Awaiting, GuestTypes
<1>2. Request(to) \in {"tool_call", "tool_result"} => calls # <<>>
  BY SMT DEF Request, Awaiting
<1>3. guestOut \in Nat /\ guestOut # 0
  BY SMT DEF TypeOK
<1>4. QED BY <1>1, <1>2, <1>3, GuestWritesOne, SMT

LEMMA HandshakeSent ==
  ASSUME guestOut = 0, guestOut \in Nat, GuestSends("handshake", <<>>, FALSE, "handshake")
  PROVE  (\E m : GuestWrites(m) /\ m.type = "handshake") /\ gpc' = "handshake"
<1> DEFINE m == Signed("handshake", guestOut, <<>>, FALSE)
<1>1. m \in Hop(GuestTypes)
  BY NoCalls, SMT DEF Signed, Hop, GuestTypes
<1>2. m.seq = guestOut /\ m.type = "handshake"
  BY Zenon DEF Signed
<1>3. m.seq = 0
  BY <1>2, Zenon
<1> HIDE DEF m
<1>4. Sound(m)
  <2>1. m.type = "handshake" <=> m.seq = 0
    BY <1>2, <1>3, SMT
  <2>2. m.type \notin {"tool_call", "tool_result"}
    BY <1>2, SMT
  <2>3. QED BY <2>1, <2>2, Zenon DEF Sound
<1>5. toNode' = Append(toNode, m) /\ guestOut' = guestOut + 1 /\ gpc' = "handshake"
  BY Zenon DEF GuestSends, m
<1>6. QED BY <1>1, <1>2, <1>4, <1>5, Zenon DEF GuestWrites

LEMMA AcceptsStep ==
  ASSUME TypeOK, Places, GuestAccepts
  PROVE  (Asking \/ Failing) /\ NodeKept /\ GuestLedger'
<1>1. /\ GuestReads("init") /\ todo' = todo /\ approved' = approved
      /\ \/ /\ Head(toGuest).type = "session_init" /\ keyed' = TRUE
            /\ GuestSends("handshake", <<>>, FALSE, "handshake")
         \/ /\ Head(toGuest).type # "session_init" /\ gpc' = "failed"
            /\ guestOut' = guestOut /\ toNode' = toNode /\ keyed' = keyed
  BY Zenon DEF GuestAccepts, GuestFails
<1>2. GuestTakes("init") /\ NodeKept /\ Head(toGuest).type \in NodeTypes
  BY <1>1, GuestRead
<1>3. GuestLedger'
  BY <1>1, Zenon DEF GuestLedger, TypeOK
<1>4. CASE /\ Head(toGuest).type = "session_init" /\ keyed' = TRUE
           /\ GuestSends("handshake", <<>>, FALSE, "handshake")
  <2>1. guestOut = 0 /\ guestOut \in Nat
    BY <1>2, Zenon DEF Places, GuestTakes, TypeOK
  <2>2. /\ "handshake" \in GuestTypes /\ <<>> \in Seq(CallIds) /\ FALSE \in BOOLEAN
        /\ "handshake" \notin {"tool_call", "tool_result"}
    BY NoCalls, SMT DEF GuestTypes
  <2>3. (\E m : GuestWrites(m) /\ m.type = "handshake") /\ gpc' = "handshake"
    BY <1>4, <2>1, <2>2, HandshakeSent, Zenon
  <2>4. "handshake" \notin {"call", "result"}
    BY SMT
  <2>5. Asks("init", {"session_init"}, "handshake")
    BY <1>2, <1>4, <2>3, <2>4, Letters, Zenon DEF Asks
  <2>6. QED BY <1>2, <1>3, <2>5, Zenon DEF Asking
<1>5. CASE /\ Head(toGuest).type # "session_init" /\ gpc' = "failed"
           /\ guestOut' = guestOut /\ toNode' = toNode /\ keyed' = keyed
  <2>1. Moves("init", NodeTypes \ {"session_init"}, "failed")
    BY <1>2, <1>5, Zenon DEF Moves
  <2>2. QED BY <1>2, <1>3, <2>1, Zenon DEF Failing
<1>6. QED BY <1>1, <1>4, <1>5, Zenon

LEMMA HandshakenStep ==
  ASSUME TypeOK, Places, GuestHandshaken
  PROVE  (Moving \/ Failing) /\ NodeKept /\ GuestLedger'
<1>1. /\ GuestReads("handshake") /\ keyed' = keyed /\ todo' = todo /\ approved' = approved
      /\ guestOut' = guestOut /\ toNode' = toNode
      /\ \/ Head(toGuest).type = "handshake_ok" /\ gpc' = "idle"
         \/ Head(toGuest).type # "handshake_ok" /\ gpc' = "failed"
  BY Zenon DEF GuestHandshaken, GuestFails
<1>2. GuestTakes("handshake") /\ NodeKept /\ Head(toGuest).type \in NodeTypes
  BY <1>1, GuestRead
<1>3. GuestLedger'
  BY <1>1, Zenon DEF GuestLedger, TypeOK
<1>4. \/ Moves("handshake", {"handshake_ok"}, "idle")
      \/ Moves("handshake", NodeTypes \ {"handshake_ok"}, "failed")
  BY <1>1, <1>2, Zenon DEF Moves
<1>5. QED BY <1>2, <1>3, <1>4, Zenon DEF Moving, Failing

LEMMA TurnStartsStep ==
  ASSUME TypeOK, Places, GuestTurnStarts
  PROVE  (Asking \/ Moving \/ Failing) /\ NodeKept /\ GuestLedger'
<1>1. /\ GuestReads("idle") /\ keyed' = keyed /\ todo' = todo /\ approved' = approved
      /\ \/ /\ Head(toGuest).type = "session_end" /\ gpc' = "done"
            /\ guestOut' = guestOut /\ toNode' = toNode
         \/ /\ Head(toGuest).type = "user_query"
            /\ \E tools \in BOOLEAN : GuestSends("llm_request", <<>>, tools, "infer")
         \/ /\ Head(toGuest).type \notin {"session_end", "user_query"} /\ gpc' = "failed"
            /\ guestOut' = guestOut /\ toNode' = toNode
  BY Zenon DEF GuestTurnStarts, GuestFails
<1>2. GuestTakes("idle") /\ NodeKept /\ Head(toGuest).type \in NodeTypes
  BY <1>1, GuestRead
<1>3. GuestLedger'
  BY <1>1, Zenon DEF GuestLedger, TypeOK
<1>4. CASE /\ Head(toGuest).type = "session_end" /\ gpc' = "done"
           /\ guestOut' = guestOut /\ toNode' = toNode
  <2>1. Moves("idle", {"session_end"}, "done")
    BY <1>1, <1>2, <1>4, Zenon DEF Moves
  <2>2. QED BY <1>2, <1>3, <2>1, Zenon DEF Moving
<1>5. CASE /\ Head(toGuest).type = "user_query"
           /\ \E tools \in BOOLEAN : GuestSends("llm_request", <<>>, tools, "infer")
  <2>1. PICK tools \in BOOLEAN : GuestSends("llm_request", <<>>, tools, "infer")
    BY <1>5, Zenon
  <2>2. guestOut > 0 /\ keyed
    BY <1>2, Zenon DEF Places, GuestTakes
  <2>3. "infer" \in Awaiting \ {"handshake"} /\ "infer" \notin {"call", "result"}
    BY SMT DEF Awaiting
  <2>4. gpc' = "infer" /\ \E m : GuestWrites(m) /\ m.type = Request("infer")
    BY <2>1, <2>2, <2>3, NoCalls, Letters, RequestSent, Zenon
  <2>5. Asks("idle", {"user_query"}, "infer")
    BY <1>1, <1>2, <1>5, <2>2, <2>3, <2>4, Zenon DEF Asks
  <2>6. QED BY <1>2, <1>3, <2>5, Zenon DEF Asking
<1>6. CASE /\ Head(toGuest).type \notin {"session_end", "user_query"} /\ gpc' = "failed"
           /\ guestOut' = guestOut /\ toNode' = toNode
  <2>1. Moves("idle", NodeTypes \ {"session_end", "user_query"}, "failed")
    BY <1>1, <1>2, <1>6, Zenon DEF Moves
  <2>2. QED BY <1>2, <1>3, <2>1, Zenon DEF Failing
<1>7. QED BY <1>1, <1>4, <1>5, <1>6, Zenon

(* The next tool call, or the second request when none is left.            *)
LEMMA NextCallSent ==
  ASSUME TypeOK, guestOut > 0, NEW calls \in Seq(CallIds), NextCall(calls)
  PROVE  \/ /\ calls # <<>> /\ gpc' = "call"
            /\ \E m : GuestWrites(m) /\ m.type = Request("call")
         \/ /\ calls = <<>> /\ gpc' = "summary"
            /\ \E m : GuestWrites(m) /\ m.type = Request("summary")
<1>1. /\ "call" \in Awaiting \ {"handshake"} /\ "summary" \in Awaiting \ {"handshake"}
      /\ "summary" \notin {"call", "result"}
  BY SMT DEF Awaiting
<1>2. CASE calls = <<>>
  <2>1. GuestSends("llm_request", <<>>, FALSE, "summary")
    BY <1>2, Zenon DEF NextCall
  <2>2. QED BY <1>1, <1>2, <2>1, NoCalls, Letters, RequestSent, Zenon
<1>3. CASE calls # <<>>
  <2>1. GuestSends("tool_call", <<Head(calls)>>, FALSE, "call")
    BY <1>3, Zenon DEF NextCall
  <2>2. <<Head(calls)>> \in Seq(CallIds) /\ <<Head(calls)>> # <<>>
    BY <1>3, SMT
  <2>3. QED BY <1>1, <1>3, <2>1, <2>2, Letters, RequestSent, Zenon
<1>4. QED BY <1>2, <1>3, Zenon

LEMMA InferredStep ==
  ASSUME TypeOK, Places, GuestInferred
  PROVE  (Asking \/ Failing) /\ NodeKept /\ GuestLedger'
<1> DEFINE calls == Head(toGuest).calls
<1>1. /\ GuestReads("infer") /\ keyed' = keyed /\ approved' = approved
      /\ \/ /\ Head(toGuest).type = "llm_response" /\ todo' = calls
            /\ \/ GuestSends("agent_response", <<>>, FALSE, "respond")
               \/ calls # <<>> /\ NextCall(calls)
         \/ /\ Head(toGuest).type # "llm_response" /\ todo' = todo
            /\ gpc' = "failed" /\ guestOut' = guestOut /\ toNode' = toNode
  BY Zenon DEF GuestInferred, GuestFails
<1>2. /\ GuestTakes("infer") /\ NodeKept /\ Head(toGuest).type \in NodeTypes
      /\ calls \in Seq(CallIds)
  BY <1>1, GuestRead
<1>3. GuestLedger'
  BY <1>1, <1>2, Zenon DEF GuestLedger, TypeOK
<1>4. guestOut > 0 /\ keyed
  <2>1. "infer" \in Awaiting
    BY SMT DEF Awaiting
  <2>2. QED BY <1>2, <2>1, Zenon DEF Places, GuestTakes
<1>5. CASE Head(toGuest).type = "llm_response" /\ GuestSends("agent_response", <<>>, FALSE, "respond")
  <2>1. "respond" \in Awaiting \ {"handshake"} /\ "respond" \notin {"call", "result"}
    BY SMT DEF Awaiting
  <2>2. gpc' = "respond" /\ \E m : GuestWrites(m) /\ m.type = Request("respond")
    BY <1>4, <1>5, <2>1, NoCalls, Letters, RequestSent, Zenon
  <2>3. Asks("infer", {"llm_response"}, "respond")
    BY <1>1, <1>2, <1>4, <1>5, <2>1, <2>2, Zenon DEF Asks
  <2>4. QED BY <1>2, <1>3, <2>3, Zenon DEF Asking
<1>6. CASE /\ Head(toGuest).type = "llm_response" /\ todo' = calls
           /\ calls # <<>> /\ NextCall(calls)
  <2>1. gpc' = "call" /\ \E m : GuestWrites(m) /\ m.type = Request("call")
    BY <1>2, <1>4, <1>6, NextCallSent, Zenon
  <2>2. Asks("infer", {"llm_response"}, "call")
    BY <1>1, <1>2, <1>4, <1>6, <2>1, Zenon DEF Asks
  <2>3. QED BY <1>2, <1>3, <2>2, Zenon DEF Asking
<1>7. CASE /\ Head(toGuest).type # "llm_response"
           /\ gpc' = "failed" /\ guestOut' = guestOut /\ toNode' = toNode
  <2>1. Moves("infer", NodeTypes \ {"llm_response"}, "failed")
    BY <1>1, <1>2, <1>7, Zenon DEF Moves
  <2>2. QED BY <1>2, <1>3, <2>1, Zenon DEF Failing
<1>8. QED BY <1>1, <1>5, <1>6, <1>7, Zenon

LEMMA DecidedStep ==
  ASSUME TypeOK, Places, GuestDecided
  PROVE  Asking /\ NodeKept /\ GuestLedger'
<1>1. /\ GuestReads("call") /\ keyed' = keyed /\ todo' = todo
      /\ approved' \in BOOLEAN
  BY Zenon DEF GuestDecided
<1>2. PICK large \in BOOLEAN : GuestSends("tool_result", <<Head(todo)>>, large, "result")
  BY Zenon DEF GuestDecided
<1>3. GuestTakes("call") /\ NodeKept /\ Head(toGuest).type \in NodeTypes
  BY <1>1, GuestRead
<1>4. GuestLedger'
  BY <1>1, Zenon DEF GuestLedger, TypeOK
<1>5. guestOut > 0 /\ keyed /\ todo # <<>>
  <2>1. "call" \in Awaiting
    BY SMT DEF Awaiting
  <2>2. QED BY <1>3, <2>1, Zenon DEF Places, GuestTakes
<1>6. <<Head(todo)>> \in Seq(CallIds) /\ <<Head(todo)>> # <<>>
  BY <1>5, SMT DEF TypeOK
<1>7. "result" \in Awaiting \ {"handshake"}
  BY SMT DEF Awaiting
<1>8. gpc' = "result" /\ \E m : GuestWrites(m) /\ m.type = Request("result")
  BY <1>2, <1>5, <1>6, <1>7, Letters, RequestSent, Zenon
<1>9. Asks("call", NodeTypes, "result")
  BY <1>1, <1>3, <1>5, <1>8, Zenon DEF Asks
<1>10. QED BY <1>3, <1>4, <1>9, Zenon DEF Asking

LEMMA ReportedStep ==
  ASSUME TypeOK, Places, GuestReported
  PROVE  Asking /\ NodeKept /\ GuestLedger'
<1>1. /\ GuestReads("result") /\ keyed' = keyed /\ todo' = Tail(todo) /\ approved' = FALSE
      /\ NextCall(Tail(todo))
  BY Zenon DEF GuestReported
<1>2. GuestTakes("result") /\ NodeKept /\ Head(toGuest).type \in NodeTypes
  BY <1>1, GuestRead
<1>3. guestOut > 0 /\ keyed /\ todo # <<>>
  <2>1. "result" \in Awaiting
    BY SMT DEF Awaiting
  <2>2. QED BY <1>2, <2>1, Zenon DEF Places, GuestTakes
<1>4. Tail(todo) \in Seq(CallIds)
  BY <1>3, SMT DEF TypeOK
<1>5. GuestLedger'
  BY <1>1, <1>4, Zenon DEF GuestLedger, TypeOK
<1>6. "summary" \notin {"call", "result"}
  BY SMT
<1>7. Asks("result", NodeTypes, "call") \/ Asks("result", NodeTypes, "summary")
  BY <1>1, <1>2, <1>3, <1>4, <1>6, NextCallSent, Zenon DEF Asks
<1>8. QED BY <1>2, <1>5, <1>7, Zenon DEF Asking

LEMMA SummarizedStep ==
  ASSUME TypeOK, Places, GuestSummarized
  PROVE  (Asking \/ Failing) /\ NodeKept /\ GuestLedger'
<1>1. /\ GuestReads("summary") /\ keyed' = keyed /\ todo' = todo /\ approved' = approved
      /\ \/ /\ Head(toGuest).type = "llm_response"
            /\ GuestSends("agent_response", <<>>, FALSE, "respond")
         \/ /\ Head(toGuest).type # "llm_response"
            /\ gpc' = "failed" /\ guestOut' = guestOut /\ toNode' = toNode
  BY Zenon DEF GuestSummarized, GuestFails
<1>2. GuestTakes("summary") /\ NodeKept /\ Head(toGuest).type \in NodeTypes
  BY <1>1, GuestRead
<1>3. GuestLedger'
  BY <1>1, Zenon DEF GuestLedger, TypeOK
<1>4. guestOut > 0 /\ keyed
  <2>1. "summary" \in Awaiting
    BY SMT DEF Awaiting
  <2>2. QED BY <1>2, <2>1, Zenon DEF Places, GuestTakes
<1>5. CASE /\ Head(toGuest).type = "llm_response"
           /\ GuestSends("agent_response", <<>>, FALSE, "respond")
  <2>1. "respond" \in Awaiting \ {"handshake"} /\ "respond" \notin {"call", "result"}
    BY SMT DEF Awaiting
  <2>2. gpc' = "respond" /\ \E m : GuestWrites(m) /\ m.type = Request("respond")
    BY <1>4, <1>5, <2>1, NoCalls, Letters, RequestSent, Zenon
  <2>3. Asks("summary", {"llm_response"}, "respond")
    BY <1>1, <1>2, <1>4, <1>5, <2>1, <2>2, Zenon DEF Asks
  <2>4. QED BY <1>2, <1>3, <2>3, Zenon DEF Asking
<1>6. CASE /\ Head(toGuest).type # "llm_response"
           /\ gpc' = "failed" /\ guestOut' = guestOut /\ toNode' = toNode
  <2>1. Moves("summary", NodeTypes \ {"llm_response"}, "failed")
    BY <1>1, <1>2, <1>6, Zenon DEF Moves
  <2>2. QED BY <1>2, <1>3, <2>1, Zenon DEF Failing
<1>7. QED BY <1>1, <1>5, <1>6, Zenon

LEMMA RespondedStep ==
  ASSUME TypeOK, Places, GuestResponded
  PROVE  Moving /\ NodeKept /\ GuestLedger'
<1>1. /\ GuestReads("respond") /\ gpc' = "idle" /\ keyed' = keyed /\ guestOut' = guestOut
      /\ todo' = todo /\ approved' = approved /\ toNode' = toNode
  BY Zenon DEF GuestResponded
<1>2. GuestTakes("respond") /\ NodeKept /\ Head(toGuest).type \in NodeTypes
  BY <1>1, GuestRead
<1>3. GuestLedger'
  BY <1>1, Zenon DEF GuestLedger, TypeOK
<1>4. Moves("respond", NodeTypes, "idle")
  BY <1>1, <1>2, Zenon DEF Moves
<1>5. QED BY <1>2, <1>3, <1>4, Zenon DEF Moving

(* A guest that gives up has been cut off.                                 *)
LEMMA RejectStep ==
  ASSUME TypeOK, InStep, Places, Replied, Farewelled, GuestRejects \/ GuestDies
  PROVE  Stops /\ NodeKept /\ GuestLedger'
<1>1. /\ Running /\ UNCHANGED nodeVars
      /\ keyed' = keyed /\ guestOut' = guestOut /\ guestNext' = guestNext
      /\ todo' = todo /\ approved' = approved /\ toNode' = toNode /\ toGuest' = toGuest
      /\ \/ gpc' = "dead"
         \/ /\ gpc' = "failed"
            /\ \/ toGuest # <<>> /\ Verify(Head(toGuest), guestNext, keyed) # "ok"
               \/ toGuest = <<>> /\ npc = "ended"
  BY Zenon DEF GuestRejects, GuestDies
<1>2. GuestLedger'
  BY <1>1, Zenon DEF GuestLedger, TypeOK
<1>3. ASSUME toGuest # <<>>, Verify(Head(toGuest), guestNext, keyed) # "ok", ~faulted
      PROVE  Excused
  <2> DEFINE m == Head(toGuest)
  <2>1. m \in Hops(toGuest) /\ m \in Hop(NodeTypes)
    BY <1>3, HopsTaken DEF TypeOK
  <2>2. guestNext \in Nat /\ nodeOut \in Nat
    BY Zenon DEF TypeOK
  <2>3. m.seq = guestNext
    BY <1>3, <2>2, NumbersTaken, Zenon DEF InStep, TypeOK
  <2>4. m.type # "session_init" /\ ~keyed
    <3>1. ~(m.seq < guestNext) /\ ~(m.seq > guestNext)
      BY <2>2, <2>3, SMT
    <3>2. m.seq = guestNext /\ ~(m.type # "session_init" /\ ~keyed) =>
            Verify(m, guestNext, keyed) = "ok"
      BY <2>3, <3>1, Zenon DEF Verify
    <3>3. QED BY <1>3, <2>3, <3>2, Zenon
  <2>5. Due(gpc, CutOff, m.type, 0)
    <3>1. m.seq >= guestNext /\ m.seq - guestNext = 0
      BY <2>2, <2>3, SMT
    <3>2. QED BY <1>1, <2>1, <3>1, Zenon DEF Replied
  <2>6. gpc \notin Awaiting \cup {"idle"}
    BY <2>4, Zenon DEF Places
  <2>7. CutOff
    <3>1. 0 # 1
      BY SMT
    <3>2. QED BY <2>4, <2>5, <2>6, <3>1, Zenon DEF Due
  <2>8. QED BY <2>7, Zenon DEF CutOff, Excused
<1>4. ASSUME toGuest = <<>>, npc = "ended", ~faulted
      PROVE  Excused
  <2>1. Hops(toGuest) = {}
    BY <1>4, EmptyHops DEF TypeOK
  <2>2. QED BY <1>1, <1>4, <2>1, Zenon DEF Farewelled, Excused
<1>5. gpc' = "dead" \/ (gpc' = "failed" /\ Excused)
  BY <1>1, <1>3, <1>4, Zenon DEF Excused
<1>6. QED BY <1>1, <1>2, <1>5, NodeKeeps, Zenon DEF Stops

-----------------------------------------------------------------------------
(* Every step is one of these.                                             *)

NodeSteps ==
  /\ Starts \/ Closes \/ Answering \/ Leaves \/ Prompts \/ Dismisses \/ Raises
  /\ GuestKept /\ NodeLedger' /\ RaisedKept
  /\ (faulted' <=> faulted) /\ faulted' \in BOOLEAN

GuestSteps ==
  /\ Asking \/ Moving \/ Failing \/ Stops
  /\ NodeKept /\ GuestLedger'
  /\ (faulted' <=> faulted) /\ faulted' \in BOOLEAN

Repeats ==
  /\ ~faulted /\ faulted' = TRUE
  /\ NodeKept /\ GuestKept
  /\ \/ toNode # <<>> /\ toNode' = Append(toNode, toNode[Len(toNode)]) /\ toGuest' = toGuest
     \/ toGuest # <<>> /\ toGuest' = Append(toGuest, toGuest[Len(toGuest)]) /\ toNode' = toNode

Idles ==
  /\ NodeKept /\ GuestKept /\ toNode' = toNode /\ toGuest' = toGuest
  /\ (faulted' <=> faulted) /\ faulted' \in BOOLEAN

LEMMA Steps ==
  ASSUME Inv, [Next]_vars
  PROVE  NodeSteps \/ GuestSteps \/ Repeats \/ Idles
<1>1. TypeOK /\ Numbers /\ InStep /\ Places /\ Replied /\ Farewelled
  BY Zenon DEF Inv
<1>2. CASE NodeStep /\ UNCHANGED faulted
  <2>1. (faulted' <=> faulted) /\ faulted' \in BOOLEAN
    BY <1>1, <1>2, Zenon DEF TypeOK
  <2>2. CASE NodeStart
    BY <1>1, <2>1, <2>2, StartStep, Zenon DEF NodeSteps
  <2>3. CASE NodeTimeout \/ NodeCap
    BY <1>1, <2>1, <2>3, TimeoutStep, Zenon DEF NodeSteps
  <2>4. CASE NodeEof
    BY <1>1, <2>1, <2>4, EofStep, Zenon DEF NodeSteps
  <2>5. CASE NodeRejects
    BY <1>1, <2>1, <2>5, RejectsStep, Zenon DEF NodeSteps
  <2>6. CASE NodeHandshake
    BY <1>1, <2>1, <2>6, HandshakeStep, Zenon DEF NodeSteps
  <2>7. CASE NodeInfers
    BY <1>1, <2>1, <2>7, InfersStep, Zenon DEF NodeSteps
  <2>8. CASE NodeDecides
    BY <1>1, <2>1, <2>8, DecidesStep, Zenon DEF NodeSteps
  <2>9. CASE NodeTakesResult
    BY <1>1, <2>1, <2>9, ResultStep, Zenon DEF NodeSteps
  <2>10. CASE NodeAnswers
    BY <1>1, <2>1, <2>10, AnswersStep, Zenon DEF NodeSteps
  <2>11. CASE NodePrompts
    BY <1>1, <2>1, <2>11, PromptStep, Zenon DEF NodeSteps
  <2>12. CASE NodeRaises
    BY <1>1, <2>1, <2>12, RaisesStep, Zenon DEF NodeSteps
  <2>13. QED
    BY <1>2, <2>2, <2>3, <2>4, <2>5, <2>6, <2>7, <2>8, <2>9, <2>10, <2>11, <2>12, Zenon
       DEF NodeStep, NodeReads
<1>3. CASE (GuestStep \/ GuestDies) /\ UNCHANGED faulted
  <2>1. (faulted' <=> faulted) /\ faulted' \in BOOLEAN
    BY <1>1, <1>3, Zenon DEF TypeOK
  <2>2. CASE GuestAccepts
    BY <1>1, <2>1, <2>2, AcceptsStep, Zenon DEF GuestSteps
  <2>3. CASE GuestHandshaken
    BY <1>1, <2>1, <2>3, HandshakenStep, Zenon DEF GuestSteps
  <2>4. CASE GuestTurnStarts
    BY <1>1, <2>1, <2>4, TurnStartsStep, Zenon DEF GuestSteps
  <2>5. CASE GuestInferred
    BY <1>1, <2>1, <2>5, InferredStep, Zenon DEF GuestSteps
  <2>6. CASE GuestDecided
    BY <1>1, <2>1, <2>6, DecidedStep, Zenon DEF GuestSteps
  <2>7. CASE GuestReported
    BY <1>1, <2>1, <2>7, ReportedStep, Zenon DEF GuestSteps
  <2>8. CASE GuestSummarized
    BY <1>1, <2>1, <2>8, SummarizedStep, Zenon DEF GuestSteps
  <2>9. CASE GuestResponded
    BY <1>1, <2>1, <2>9, RespondedStep, Zenon DEF GuestSteps
  <2>10. CASE GuestRejects \/ GuestDies
    BY <1>1, <2>1, <2>10, RejectStep, Zenon DEF GuestSteps
  <2>11. QED
    BY <1>3, <2>2, <2>3, <2>4, <2>5, <2>6, <2>7, <2>8, <2>9, <2>10, Zenon DEF GuestStep
<1>4. CASE PathRepeats
  <2>1. /\ ~faulted /\ faulted' = TRUE /\ UNCHANGED nodeVars /\ UNCHANGED guestVars
        /\ \/ /\ toNode # <<>> /\ toNode' = Append(toNode, toNode[Len(toNode)])
              /\ toGuest' = toGuest
           \/ /\ toGuest # <<>> /\ toGuest' = Append(toGuest, toGuest[Len(toGuest)])
              /\ toNode' = toNode
    BY <1>4, Zenon DEF PathRepeats
  <2>2. QED BY <2>1, NodeKeeps, GuestKeeps, Zenon DEF Repeats
<1>5. CASE UNCHANGED vars
  <2>1. /\ UNCHANGED nodeVars /\ UNCHANGED guestVars
        /\ toNode' = toNode /\ toGuest' = toGuest /\ faulted' = faulted
    BY <1>5, Zenon DEF vars, nodeVars, guestVars
  <2>2. QED BY <1>1, <2>1, NodeKeeps, GuestKeeps, Zenon DEF Idles, TypeOK
<1>6. QED BY <1>2, <1>3, <1>4, <1>5, Zenon DEF Next

-----------------------------------------------------------------------------
(* The channels stay in order.                                             *)

(* The reader has not passed what the writer sends next.                   *)
Orderly(chan, next, out) ==
  /\ \A m \in Hops(chan) : m.seq < out
  /\ Behind(chan, next, out)

LEMMA OrderlySent ==
  ASSUME NEW types, NEW chan \in Seq(Hop(types)), NEW m \in Hop(types),
         NEW next \in Nat, NEW out \in Nat, m.seq = out
  PROVE  /\ Append(chan, m) \in Seq(Hop(types)) /\ out + 1 \in Nat
         /\ Hops(Append(chan, m)) = Hops(chan) \cup {m}
         /\ Orderly(chan, next, out) => Orderly(Append(chan, m), next, out + 1)
         /\ Exact(chan, next, out) => Exact(Append(chan, m), next, out + 1)
<1>1. /\ Append(chan, m) \in Seq(Hop(types)) /\ Hops(chan) \subseteq Hop(types)
      /\ Hops(Append(chan, m)) = Hops(chan) \cup {m}
  BY HopsSent
<1>2. /\ Behind(chan, next, out) => Behind(Append(chan, m), next, out + 1)
      /\ Exact(chan, next, out) => Exact(Append(chan, m), next, out + 1)
  BY NumbersSent
<1>3. \A x \in Hop(types) : x.seq \in Nat
  BY SMT DEF Hop
<1>4. ASSUME \A x \in Hops(chan) : x.seq < out
      PROVE  \A x \in Hops(chan) \cup {m} : x.seq < out + 1
  BY <1>1, <1>3, <1>4, SMT
<1>5. out + 1 \in Nat
  BY SMT
<1>6. QED BY <1>1, <1>2, <1>4, <1>5, Zenon DEF Orderly

LEMMA OrderlyTaken ==
  ASSUME NEW types, NEW chan \in Seq(Hop(types)), chan # <<>>,
         NEW next \in Nat, NEW out \in Nat
  PROVE  /\ Tail(chan) \in Seq(Hop(types)) /\ next + 1 \in Nat
         /\ Hops(Tail(chan)) \subseteq Hops(chan)
         /\ Orderly(chan, next, out) => Orderly(Tail(chan), next + 1, out)
         /\ Exact(chan, next, out) => Exact(Tail(chan), next + 1, out)
<1>1. Tail(chan) \in Seq(Hop(types)) /\ Hops(Tail(chan)) \subseteq Hops(chan)
  BY HopsTaken
<1>2. /\ Behind(chan, next, out) => Behind(Tail(chan), next + 1, out)
      /\ Exact(chan, next, out) => Exact(Tail(chan), next + 1, out)
  BY NumbersTaken
<1>3. next + 1 \in Nat
  BY SMT
<1>4. QED BY <1>1, <1>2, <1>3, Zenon DEF Orderly

LEMMA OrderlyRepeated ==
  ASSUME NEW types, NEW chan \in Seq(Hop(types)), chan # <<>>,
         NEW next \in Nat, NEW out \in Nat
  PROVE  /\ Append(chan, chan[Len(chan)]) \in Seq(Hop(types))
         /\ Hops(Append(chan, chan[Len(chan)])) = Hops(chan)
         /\ Orderly(chan, next, out) => Orderly(Append(chan, chan[Len(chan)]), next, out)
<1>1. /\ Append(chan, chan[Len(chan)]) \in Seq(Hop(types))
      /\ Hops(Append(chan, chan[Len(chan)])) = Hops(chan)
  BY HopsRepeated
<1>2. Behind(chan, next, out) => Behind(Append(chan, chan[Len(chan)]), next, out)
  BY NumbersRepeated
<1>3. QED BY <1>1, <1>2, Zenon DEF Orderly

(* The channel to the guest.                                               *)
LEMMA ToGuestStep ==
  ASSUME Inv, [Next]_vars
  PROVE  /\ toGuest' \in Seq(Hop(NodeTypes)) /\ nodeOut' \in Nat /\ guestNext' \in Nat
         /\ Orderly(toGuest', guestNext', nodeOut')
         /\ ~faulted' => Exact(toGuest', guestNext', nodeOut')
<1>1. /\ toGuest \in Seq(Hop(NodeTypes)) /\ nodeOut \in Nat /\ guestNext \in Nat
      /\ Orderly(toGuest, guestNext, nodeOut)
      /\ ~faulted => Exact(toGuest, guestNext, nodeOut)
  BY Zenon DEF Inv, TypeOK, Numbers, InStep, Orderly
<1>2. CASE /\ toGuest' = toGuest /\ nodeOut' = nodeOut /\ guestNext' = guestNext
           /\ ~faulted' => ~faulted
  BY <1>1, <1>2, Zenon
<1>3. CASE /\ \E m : NodeWrites(m)
           /\ guestNext' = guestNext /\ (~faulted' => ~faulted)
  <2>1. PICK m : /\ m \in Hop(NodeTypes) /\ m.seq = nodeOut
                 /\ toGuest' = Append(toGuest, m) /\ nodeOut' = nodeOut + 1
    BY <1>3, Zenon DEF NodeWrites
  <2>2. /\ Append(toGuest, m) \in Seq(Hop(NodeTypes)) /\ nodeOut + 1 \in Nat
        /\ Orderly(toGuest, guestNext, nodeOut) =>
             Orderly(Append(toGuest, m), guestNext, nodeOut + 1)
        /\ Exact(toGuest, guestNext, nodeOut) =>
             Exact(Append(toGuest, m), guestNext, nodeOut + 1)
    BY <1>1, <2>1, OrderlySent
  <2>3. QED BY <1>1, <1>3, <2>1, <2>2, Zenon
<1>4. CASE Leaves /\ guestNext' = guestNext /\ (~faulted' => ~faulted)
  <2>1. PICK m, n \in Hop(NodeTypes) :
          /\ m.seq = nodeOut /\ n.seq = nodeOut + 1
          /\ toGuest' = Append(Append(toGuest, m), n) /\ nodeOut' = nodeOut + 2
    BY <1>4, Zenon DEF Leaves
  <2> DEFINE one == Append(toGuest, m)
  <2>2. /\ one \in Seq(Hop(NodeTypes)) /\ nodeOut + 1 \in Nat
        /\ Orderly(toGuest, guestNext, nodeOut) => Orderly(one, guestNext, nodeOut + 1)
        /\ Exact(toGuest, guestNext, nodeOut) => Exact(one, guestNext, nodeOut + 1)
    BY <1>1, <2>1, OrderlySent
  <2> HIDE DEF one
  <2>3. /\ Append(one, n) \in Seq(Hop(NodeTypes)) /\ (nodeOut + 1) + 1 \in Nat
        /\ Orderly(one, guestNext, nodeOut + 1) =>
             Orderly(Append(one, n), guestNext, (nodeOut + 1) + 1)
        /\ Exact(one, guestNext, nodeOut + 1) =>
             Exact(Append(one, n), guestNext, (nodeOut + 1) + 1)
    BY <1>1, <2>1, <2>2, OrderlySent
  <2>4. nodeOut + 2 = (nodeOut + 1) + 1
    BY <1>1, SMT
  <2>5. QED BY <1>1, <1>4, <2>1, <2>2, <2>3, <2>4, Zenon DEF one
<1>5. CASE /\ \E from : GuestTakes(from)
           /\ nodeOut' = nodeOut /\ (~faulted' => ~faulted)
  <2>1. toGuest # <<>> /\ toGuest' = Tail(toGuest) /\ guestNext' = guestNext + 1
    BY <1>5, Zenon DEF GuestTakes
  <2>2. /\ Tail(toGuest) \in Seq(Hop(NodeTypes)) /\ guestNext + 1 \in Nat
        /\ Orderly(toGuest, guestNext, nodeOut) =>
             Orderly(Tail(toGuest), guestNext + 1, nodeOut)
        /\ Exact(toGuest, guestNext, nodeOut) =>
             Exact(Tail(toGuest), guestNext + 1, nodeOut)
    BY <1>1, <2>1, OrderlyTaken
  <2>3. QED BY <1>1, <1>5, <2>1, <2>2, Zenon
<1>6. CASE Repeats
  <2>1. /\ faulted' /\ nodeOut' = nodeOut /\ guestNext' = guestNext
        /\ \/ toGuest' = toGuest
           \/ toGuest # <<>> /\ toGuest' = Append(toGuest, toGuest[Len(toGuest)])
    BY <1>6, Zenon DEF Repeats, NodeKept, GuestKept
  <2>2. CASE toGuest' = toGuest
    BY <1>1, <2>1, <2>2, Zenon
  <2>3. CASE toGuest # <<>> /\ toGuest' = Append(toGuest, toGuest[Len(toGuest)])
    <3>1. /\ Append(toGuest, toGuest[Len(toGuest)]) \in Seq(Hop(NodeTypes))
          /\ Orderly(toGuest, guestNext, nodeOut) =>
               Orderly(Append(toGuest, toGuest[Len(toGuest)]), guestNext, nodeOut)
      BY <1>1, <2>3, OrderlyRepeated
    <3>2. QED BY <1>1, <2>1, <2>3, <3>1, Zenon
  <2>4. QED BY <2>1, <2>2, <2>3, Zenon
<1>7. CASE NodeSteps
  <2>1. guestNext' = guestNext /\ (~faulted' => ~faulted)
    BY <1>7, Zenon DEF NodeSteps, GuestKept
  <2>2. CASE Starts \/ Answering \/ Prompts \/ Dismisses
    <3>1. \E m : NodeWrites(m)
      BY <2>2, Zenon DEF Starts, Answering, Answers, Prompts, Dismisses
    <3>2. QED BY <1>3, <2>1, <3>1, Zenon
  <2>3. CASE Closes
    BY <1>2, <1>3, <2>1, <2>3, Zenon DEF Closes
  <2>4. CASE Raises
    BY <1>2, <2>1, <2>4, Zenon DEF Raises, Broken
  <2>5. QED BY <1>4, <1>7, <2>1, <2>2, <2>3, <2>4, Zenon DEF NodeSteps
<1>8. CASE GuestSteps
  <2>1. nodeOut' = nodeOut /\ (~faulted' => ~faulted)
    BY <1>8, Zenon DEF GuestSteps, NodeKept
  <2>2. CASE Asking \/ Moving \/ Failing
    <3>1. \E from : GuestTakes(from)
      BY <2>2, Zenon DEF Asking, Asks, Moving, Failing, Moves
    <3>2. QED BY <1>5, <2>1, <3>1, Zenon
  <2>3. CASE Stops
    BY <1>2, <2>1, <2>3, Zenon DEF Stops
  <2>4. QED BY <1>8, <2>2, <2>3, Zenon DEF GuestSteps
<1>9. CASE Idles
  BY <1>2, <1>9, Zenon DEF Idles, NodeKept, GuestKept
<1>10. QED BY <1>6, <1>7, <1>8, <1>9, Steps, Zenon

(* The channel to the Node.                                                *)
LEMMA ToNodeStep ==
  ASSUME Inv, [Next]_vars
  PROVE  /\ toNode' \in Seq(Hop(GuestTypes)) /\ nodeNext' \in Nat /\ guestOut' \in Nat
         /\ \A m \in Hops(toNode') : Sound(m) /\ m.seq < guestOut'
         /\ npc' # "ended" => Behind(toNode', nodeNext', guestOut')
         /\ ~faulted' /\ npc' # "ended" => Exact(toNode', nodeNext', guestOut')
<1>1. /\ toNode \in Seq(Hop(GuestTypes)) /\ guestOut \in Nat /\ nodeNext \in Nat
      /\ \A m \in Hops(toNode) : Sound(m) /\ m.seq < guestOut
      /\ npc # "ended" => Orderly(toNode, nodeNext, guestOut)
      /\ ~faulted /\ npc # "ended" => Exact(toNode, nodeNext, guestOut)
  BY Zenon DEF Inv, TypeOK, Numbers, InStep, Orderly
<1>2. CASE /\ toNode' = toNode /\ nodeNext' = nodeNext /\ guestOut' = guestOut
           /\ (~faulted' => ~faulted) /\ (npc' # "ended" => npc # "ended")
  BY <1>1, <1>2, Zenon DEF Orderly
<1>3. CASE /\ \E m : GuestWrites(m)
           /\ nodeNext' = nodeNext /\ npc' = npc /\ (~faulted' => ~faulted)
  <2>1. PICK m : /\ m \in Hop(GuestTypes) /\ m.seq = guestOut /\ Sound(m)
                 /\ toNode' = Append(toNode, m) /\ guestOut' = guestOut + 1
    BY <1>3, Zenon DEF GuestWrites
  <2>2. /\ Append(toNode, m) \in Seq(Hop(GuestTypes)) /\ guestOut + 1 \in Nat
        /\ Hops(Append(toNode, m)) = Hops(toNode) \cup {m}
        /\ Orderly(toNode, nodeNext, guestOut) =>
             Orderly(Append(toNode, m), nodeNext, guestOut + 1)
        /\ Exact(toNode, nodeNext, guestOut) =>
             Exact(Append(toNode, m), nodeNext, guestOut + 1)
    BY <1>1, <2>1, OrderlySent
  <2>3. \A x \in Hops(toNode) : x.seq < guestOut + 1
    <3>1. \A x \in Hops(toNode) : x.seq \in Nat
      <4>1. Hops(toNode) \subseteq Hop(GuestTypes)
        BY <1>1, <2>1, HopsSent
      <4>2. QED BY <4>1, SMT DEF Hop
    <3>2. QED BY <1>1, <3>1, SMT
  <2>4. m.seq < guestOut + 1
    BY <1>1, <2>1, SMT
  <2>5. QED BY <1>1, <1>3, <2>1, <2>2, <2>3, <2>4, Zenon DEF Orderly
<1>4. CASE /\ \E type : NodeTakes(type)
           /\ guestOut' = guestOut /\ (~faulted' => ~faulted)
  <2>1. /\ toNode # <<>> /\ toNode' = Tail(toNode) /\ nodeNext' = nodeNext + 1
        /\ npc # "ended"
    <3>1. "read" # "ended"
      BY SMT
    <3>2. QED BY <1>4, <3>1, Zenon DEF NodeTakes
  <2>2. /\ Tail(toNode) \in Seq(Hop(GuestTypes)) /\ nodeNext + 1 \in Nat
        /\ Hops(Tail(toNode)) \subseteq Hops(toNode)
        /\ Orderly(toNode, nodeNext, guestOut) =>
             Orderly(Tail(toNode), nodeNext + 1, guestOut)
        /\ Exact(toNode, nodeNext, guestOut) =>
             Exact(Tail(toNode), nodeNext + 1, guestOut)
    BY <1>1, <2>1, OrderlyTaken
  <2>3. QED BY <1>1, <1>4, <2>1, <2>2, Zenon DEF Orderly
<1>5. CASE (Closes \/ Raises) /\ guestOut' = guestOut
  <2>1. /\ npc' = "ended" /\ nodeNext' \in Nat
        /\ toNode' = toNode \/ (toNode # <<>> /\ toNode' = Tail(toNode))
    <3>1. nodeNext' = nodeNext \/ nodeNext' = nodeNext + 1
      BY <1>5, Zenon DEF Closes, Raises
    <3>2. nodeNext' \in Nat
      BY <1>1, <3>1, SMT
    <3>3. QED BY <1>5, <3>2, Zenon DEF Closes, Raises, Broken
  <2>2. CASE toNode' = toNode
    BY <1>1, <1>5, <2>1, <2>2, Zenon
  <2>3. CASE toNode # <<>> /\ toNode' = Tail(toNode)
    <3>1. Tail(toNode) \in Seq(Hop(GuestTypes)) /\ Hops(Tail(toNode)) \subseteq Hops(toNode)
      BY <1>1, <2>3, HopsTaken
    <3>2. QED BY <1>1, <1>5, <2>1, <2>3, <3>1, Zenon
  <2>4. QED BY <2>1, <2>2, <2>3, Zenon
<1>6. CASE Repeats
  <2>1. /\ faulted' /\ nodeNext' = nodeNext /\ guestOut' = guestOut /\ npc' = npc
        /\ \/ toNode' = toNode
           \/ toNode # <<>> /\ toNode' = Append(toNode, toNode[Len(toNode)])
    BY <1>6, Zenon DEF Repeats, NodeKept, GuestKept
  <2>2. CASE toNode' = toNode
    BY <1>1, <2>1, <2>2, Zenon DEF Orderly
  <2>3. CASE toNode # <<>> /\ toNode' = Append(toNode, toNode[Len(toNode)])
    <3>1. /\ Append(toNode, toNode[Len(toNode)]) \in Seq(Hop(GuestTypes))
          /\ Hops(Append(toNode, toNode[Len(toNode)])) = Hops(toNode)
          /\ Orderly(toNode, nodeNext, guestOut) =>
               Orderly(Append(toNode, toNode[Len(toNode)]), nodeNext, guestOut)
      BY <1>1, <2>3, OrderlyRepeated
    <3>2. QED BY <1>1, <2>1, <2>3, <3>1, Zenon DEF Orderly
  <2>4. QED BY <2>1, <2>2, <2>3, Zenon
<1>7. CASE NodeSteps
  <2>1. guestOut' = guestOut /\ (~faulted' => ~faulted)
    BY <1>7, Zenon DEF NodeSteps, GuestKept
  <2>2. CASE Answering \/ Leaves
    <3>1. \E type : NodeTakes(type)
      BY <2>2, Zenon DEF Answering, Answers, Leaves
    <3>2. QED BY <1>4, <2>1, <3>1, Zenon
  <2>3. CASE Starts \/ Prompts \/ Dismisses
    <3>1. toNode' = toNode /\ nodeNext' = nodeNext /\ npc \in {"start", "prompt"}
      BY <2>3, Zenon DEF Starts, Prompts, Dismisses, PromptKept
    <3>2. npc # "ended"
      BY <3>1, SMT
    <3>3. QED BY <1>2, <2>1, <3>1, <3>2, Zenon
  <2>4. QED BY <1>5, <1>7, <2>1, <2>2, <2>3, Zenon DEF NodeSteps
<1>8. CASE GuestSteps
  <2>1. nodeNext' = nodeNext /\ npc' = npc /\ (~faulted' => ~faulted)
    BY <1>8, Zenon DEF GuestSteps, NodeKept
  <2>2. CASE Asking
    <3>1. \E m : GuestWrites(m)
      BY <2>2, Zenon DEF Asking, Asks
    <3>2. QED BY <1>3, <2>1, <3>1, Zenon
  <2>3. CASE Moving \/ Failing \/ Stops
    <3>1. toNode' = toNode /\ guestOut' = guestOut
      BY <2>3, Zenon DEF Moving, Failing, Moves, Stops
    <3>2. QED BY <1>2, <2>1, <3>1, Zenon
  <2>4. QED BY <1>8, <2>2, <2>3, Zenon DEF GuestSteps
<1>9. CASE Idles
  <2>1. /\ toNode' = toNode /\ nodeNext' = nodeNext /\ guestOut' = guestOut /\ npc' = npc
        /\ ~faulted' => ~faulted
    BY <1>9, Zenon DEF Idles, NodeKept, GuestKept
  <2>2. QED BY <1>2, <2>1, Zenon
<1>10. QED BY <1>6, <1>7, <1>8, <1>9, Steps, Zenon

-----------------------------------------------------------------------------
(* Types and places.                                                       *)

LEMMA TypeStep ==
  ASSUME Inv, [Next]_vars
  PROVE  TypeOK'
<1>1. TypeOK /\ Places
  BY Zenon DEF Inv
<1>2. /\ toGuest' \in Seq(Hop(NodeTypes)) /\ nodeOut' \in Nat /\ guestNext' \in Nat
      /\ toNode' \in Seq(Hop(GuestTypes)) /\ nodeNext' \in Nat /\ guestOut' \in Nat
  BY ToGuestStep, ToNodeStep, Zenon
<1>3. CASE NodeSteps
  <2>1. NodeLedger' /\ GuestKept /\ faulted' \in BOOLEAN
    BY <1>3, Zenon DEF NodeSteps
  <2>2. npc' \in {"start", "read", "prompt", "ended"}
    BY <1>3, Zenon DEF NodeSteps, Starts, Closes, Answering, Answers, Leaves, Prompts, Dismisses,
       Raises, Broken
  <2>3. turns' = turns \/ (npc = "prompt" /\ turns' = turns + 1)
    BY <1>3, Zenon DEF NodeSteps, Starts, Closes, Answering, Answers, Leaves, Prompts,
       Dismisses, PromptKept, Raises
  <2>4. npc = "prompt" => turns < MaxTurns
    BY <1>1, Zenon DEF Places
  <2>5. turns' \in 0..MaxTurns
    BY <1>1, <2>3, <2>4, CapsAssumption, SMT DEF TypeOK
  <2>6. QED BY <1>1, <1>2, <2>1, <2>2, <2>5, Zenon DEF TypeOK, NodeLedger, GuestKept
<1>4. CASE GuestSteps
  <2>1. NodeKept /\ GuestLedger' /\ faulted' \in BOOLEAN
    BY <1>4, Zenon DEF GuestSteps
  <2>2. gpc' \in {"init", "idle", "done", "failed", "dead"} \cup Awaiting
    BY <1>4, Zenon DEF GuestSteps, Asking, Asks, Moving, Failing, Moves, Stops, Awaiting
  <2>3. QED BY <1>1, <1>2, <2>1, <2>2, Zenon DEF TypeOK, GuestLedger, NodeKept
<1>5. CASE Repeats \/ Idles
  <2>1. NodeKept /\ GuestKept /\ faulted' \in BOOLEAN
    BY <1>5, Zenon DEF Repeats, Idles
  <2>2. QED BY <1>1, <1>2, <2>1, Zenon DEF TypeOK, NodeKept, GuestKept
<1>6. QED BY <1>3, <1>4, <1>5, Steps, Zenon

LEMMA PlacesStep ==
  ASSUME Inv, [Next]_vars
  PROVE  Places'
<1>1. /\ handshaken <=> nodeNext > 0
      /\ gpc = "init" => guestOut = 0
      /\ gpc \in Awaiting \cup {"idle"} => guestOut > 0 /\ keyed
      /\ gpc \in {"call", "result"} => todo # <<>>
      /\ npc = "start" => nodeNext = 0 /\ turns = 0
      /\ npc = "read" => (nodeNext > 0 <=> turns > 0)
      /\ npc = "prompt" => nodeNext > 0 /\ turns < MaxTurns
  BY Zenon DEF Inv, Places
<1>2. nodeNext \in Nat /\ guestOut \in Nat /\ turns \in Nat /\ MaxTurns \in Nat
  BY CapsAssumption, SMT DEF Inv, TypeOK
<1>3. nodeNext + 1 > 0 /\ guestOut + 1 > 0 /\ turns + 1 > 0 /\ ~(0 > 0)
  BY <1>2, SMT
<1>4. /\ "read" # "start" /\ "read" # "prompt" /\ "ended" # "start" /\ "ended" # "prompt"
      /\ "ended" # "read" /\ "prompt" # "start"
  BY SMT
<1>5. CASE NodeSteps
  <2>1. /\ gpc' = gpc /\ guestOut' = guestOut /\ todo' = todo /\ keyed' = keyed
    BY <1>5, Zenon DEF NodeSteps, GuestKept
  <2>2. CASE Starts
    BY <1>1, <1>3, <1>4, <2>1, <2>2, Zenon DEF Starts, Places
  <2>3. CASE Closes
    BY <1>1, <1>3, <1>4, <2>1, <2>3, Zenon DEF Closes, Places
  <2>4. CASE Answering
    <3>1. /\ nodeNext' = nodeNext + 1 /\ turns' = turns /\ handshaken'
          /\ npc = "read"
          /\ \/ npc' = "prompt" /\ turns < MaxTurns
             \/ npc' = "read" /\ nodeNext # 0
             \/ npc' = "ended"
      <4>1. /\ "llm_request" # "handshake" /\ "tool_call" # "handshake"
            /\ "tool_result" # "handshake"
        BY SMT
      <4>2. QED BY <2>4, <4>1, Zenon DEF Answering, Answers, NodeTakes
    <3>2. npc' = "read" => turns > 0
      <4>1. nodeNext # 0 => nodeNext > 0
        BY <1>2, SMT
      <4>2. QED BY <1>1, <1>4, <3>1, <4>1, Zenon
    <3>3. QED BY <1>1, <1>3, <1>4, <2>1, <3>1, <3>2, Zenon DEF Places
  <2>5. CASE Leaves
    BY <1>1, <1>3, <1>4, <2>1, <2>5, Zenon DEF Leaves, NodeTakes, Places
  <2>6. CASE Prompts
    BY <1>1, <1>3, <1>4, <2>1, <2>6, Zenon DEF Prompts, PromptKept, Places
  <2>7. CASE Dismisses
    BY <1>1, <1>3, <1>4, <2>1, <2>7, Zenon DEF Dismisses, PromptKept, Places
  <2>8. CASE Raises
    BY <1>1, <1>3, <1>4, <2>1, <2>8, Zenon DEF Raises, Broken, Places
  <2>9. QED BY <1>5, <2>2, <2>3, <2>4, <2>5, <2>6, <2>7, <2>8, Zenon DEF NodeSteps
<1>6. CASE GuestSteps
  <2>1. /\ npc' = npc /\ nodeNext' = nodeNext /\ turns' = turns /\ handshaken' = handshaken
    BY <1>6, Zenon DEF GuestSteps, NodeKept
  <2>2. CASE Asking
    <3>1. /\ gpc' \in Awaiting /\ guestOut' = guestOut + 1 /\ keyed'
          /\ gpc' \in {"call", "result"} => todo' # <<>>
      BY <2>2, Zenon DEF Asking, Asks, Awaiting, GuestWrites
    <3>2. gpc' # "init"
      BY <3>1, SMT DEF Awaiting
    <3>3. QED BY <1>1, <1>3, <2>1, <3>1, <3>2, Zenon DEF Places
  <2>3. CASE Moving
    <3>1. /\ \/ gpc \in Awaiting /\ gpc' = "idle"
             \/ gpc' = "done"
          /\ guestOut' = guestOut /\ (keyed' <=> keyed)
      BY <2>3, Zenon DEF Moving, Moves, GuestTakes, Awaiting
    <3>2. /\ "idle" # "init" /\ "idle" \notin {"call", "result"}
          /\ "done" # "init" /\ "done" \notin {"call", "result"}
          /\ "done" \notin Awaiting \cup {"idle"}
      BY SMT DEF Awaiting
    <3>3. QED BY <1>1, <2>1, <3>1, <3>2, Zenon DEF Places
  <2>4. CASE Failing \/ Stops
    <3>1. gpc' = "failed" \/ gpc' = "dead"
      BY <2>4, Zenon DEF Failing, Moves, Stops
    <3>2. gpc' # "init" /\ gpc' \notin {"call", "result"} /\ gpc' \notin Awaiting \cup {"idle"}
      BY <3>1, SMT DEF Awaiting
    <3>3. QED BY <1>1, <2>1, <3>2, Zenon DEF Places
  <2>5. QED BY <1>6, <2>2, <2>3, <2>4, Zenon DEF GuestSteps
<1>7. CASE Repeats \/ Idles
  <2>1. /\ npc' = npc /\ nodeNext' = nodeNext /\ turns' = turns /\ handshaken' = handshaken
        /\ gpc' = gpc /\ guestOut' = guestOut /\ todo' = todo /\ keyed' = keyed
    BY <1>7, Zenon DEF Repeats, Idles, NodeKept, GuestKept
  <2>2. QED BY <1>1, <2>1, Zenon DEF Places
<1>8. QED BY <1>5, <1>6, <1>7, Steps, Zenon

-----------------------------------------------------------------------------
(* Requests and replies.                                                   *)

(* What the Node accepts is the request that the guest waits on.           *)
LEMMA Awaited ==
  ASSUME Inv, Running, NEW type, NodeTakes(type)
  PROVE  /\ gpc \in Awaiting /\ type = Request(gpc)
         /\ guestOut = nodeNext + 1 /\ nodeOut = guestNext
         /\ gpc = "handshake" <=> nodeNext = 0
<1>1. /\ TypeOK /\ Numbers /\ Asked /\ Phase
  BY Zenon DEF Inv
<1>2. /\ npc = "read" /\ toNode # <<>>
      /\ Head(toNode).type = type /\ Head(toNode).seq = nodeNext
  BY Zenon DEF NodeTakes
<1>3. Head(toNode) \in Hops(toNode) /\ Head(toNode) \in Hop(GuestTypes)
  BY <1>1, <1>2, HopsTaken DEF TypeOK
<1>4. nodeNext < guestOut
  <2>1. Head(toNode).seq < guestOut
    BY <1>1, <1>3, Zenon DEF Numbers
  <2>2. QED BY <1>2, <2>1, Zenon
<1>5. nodeNext \in Nat /\ guestOut \in Nat /\ nodeOut \in Nat /\ guestNext \in Nat
  BY <1>1, Zenon DEF TypeOK
<1>6. npc # "ended"
  BY <1>2, SMT
<1>7. /\ gpc \in Awaiting /\ guestOut = nodeNext + 1 /\ nodeOut = guestNext
      /\ gpc = "handshake" <=> nodeNext = 0
  BY <1>1, <1>2, <1>4, <1>5, <1>6, SMT DEF Phase, Flight, Awaiting
<1>8. Head(toNode).seq = guestOut - 1
  BY <1>2, <1>5, <1>7, SMT
<1>9. type = Request(gpc)
  BY <1>1, <1>2, <1>3, <1>7, <1>8, Zenon DEF Asked
<1>10. QED BY <1>7, <1>9

(* What the guest takes is what it looks for.                              *)
LEMMA Found ==
  ASSUME Inv, Running, NEW from, GuestTakes(from)
  PROVE  /\ Due(gpc, CutOff, Head(toGuest).type, 0) /\ gpc = from
         /\ guestNext < nodeOut /\ Head(toGuest) \in Hops(toGuest)
<1>1. /\ TypeOK /\ Numbers /\ Replied
  BY Zenon DEF Inv
<1>2. gpc = from /\ toGuest # <<>> /\ Head(toGuest).seq = guestNext
  BY Zenon DEF GuestTakes
<1>3. Head(toGuest) \in Hops(toGuest) /\ Head(toGuest) \in Hop(NodeTypes)
  BY <1>1, <1>2, HopsTaken DEF TypeOK
<1>4. guestNext < nodeOut
  <2>1. Head(toGuest).seq < nodeOut
    BY <1>1, <1>3, Zenon DEF Numbers
  <2>2. QED BY <1>2, <2>1, Zenon
<1>5. Due(gpc, CutOff, Head(toGuest).type, 0)
  <2>1. guestNext \in Nat
    BY <1>1, Zenon DEF TypeOK
  <2>2. Head(toGuest).seq >= guestNext /\ Head(toGuest).seq - guestNext = 0
    BY <1>2, <2>1, SMT
  <2>3. QED BY <1>1, <1>3, <2>2, Zenon DEF Replied
<1>6. QED BY <1>2, <1>3, <1>4, <1>5

LEMMA PhaseStep ==
  ASSUME Inv, [Next]_vars
  PROVE  Phase'
<1>1. Phase /\ nodeNext \in Nat /\ guestOut \in Nat /\ nodeOut \in Nat /\ guestNext \in Nat
  BY Zenon DEF Inv, TypeOK
<1>2. SUFFICES ASSUME npc' # "ended", Running' PROVE Phase'
  BY Zenon DEF Phase
<1>3. CASE NodeSteps
  <2>1. /\ gpc' = gpc /\ guestOut' = guestOut /\ guestNext' = guestNext
        /\ gpc \notin {"done", "failed", "dead"} /\ Running
    BY <1>2, <1>3, Zenon DEF NodeSteps, GuestKept, Running
  <2>2. CASE Starts
    <3>1. /\ npc = "start" /\ npc' = "read" /\ nodeNext' = nodeNext /\ nodeOut' = nodeOut + 1
      BY <2>2, Zenon DEF Starts, NodeWrites
    <3>2. QED BY <1>1, <2>1, <3>1, SMT DEF Phase, Flight, Awaiting
  <2>3. CASE Answering
    <3>1. PICK type \in GuestTypes :
            /\ NodeTakes(type) /\ nodeOut' = nodeOut + 1
            /\ IF type \in {"handshake", "agent_response"} THEN npc' = "prompt" ELSE npc' = "read"
      <4>1. /\ "handshake" \in GuestTypes /\ "llm_request" \in GuestTypes
            /\ "tool_call" \in GuestTypes /\ "tool_result" \in GuestTypes
            /\ "agent_response" \in GuestTypes
            /\ "llm_request" \notin {"handshake", "agent_response"}
            /\ "tool_call" \notin {"handshake", "agent_response"}
            /\ "tool_result" \notin {"handshake", "agent_response"}
        BY SMT DEF GuestTypes
      <4>2. QED BY <1>2, <2>3, <4>1, Zenon DEF Answering, Answers, NodeWrites
    <3>2. /\ gpc \in Awaiting /\ type = Request(gpc)
          /\ guestOut = nodeNext + 1 /\ nodeOut = guestNext
          /\ gpc = "handshake" <=> nodeNext = 0
      BY <2>1, <3>1, Awaited
    <3>3. nodeNext' = nodeNext + 1
      BY <3>1, Zenon DEF NodeTakes
    <3>4. \/ gpc \in {"handshake", "respond"} /\ npc' = "prompt"
          \/ gpc \in {"infer", "call", "result", "summary"} /\ npc' = "read"
      BY <3>1, <3>2, SMT DEF Request, Awaiting
    <3>5. /\ gpc' = gpc /\ nodeNext' > 0
          /\ guestOut' = nodeNext' + 0 /\ nodeOut' = guestNext' + 1
      BY <1>1, <2>1, <3>1, <3>2, <3>3, SMT
    <3>6. CASE gpc \in {"handshake", "respond"} /\ npc' = "prompt"
      <4>1. Flight({"prompt"}, {"handshake", "respond"}, 0, 1)'
        BY <3>5, <3>6, Zenon DEF Flight
      <4>2. QED BY <3>5, <4>1, Zenon DEF Phase
    <3>7. CASE gpc \in {"idle", "infer", "call", "result", "summary"} /\ npc' = "read"
      <4>1. Flight({"read"}, {"idle", "infer", "call", "result", "summary"}, 0, 1)'
        BY <3>5, <3>7, Zenon DEF Flight
      <4>2. QED BY <3>5, <4>1, Zenon DEF Phase
    <3>8. QED BY <3>4, <3>6, <3>7, Zenon
  <2>4. CASE Prompts
    <3>1. /\ npc = "prompt" /\ npc' = "read" /\ nodeNext' = nodeNext /\ nodeOut' = nodeOut + 1
      BY <2>4, Zenon DEF Prompts, PromptKept, NodeWrites
    <3>2. QED BY <1>1, <2>1, <3>1, SMT DEF Phase, Flight, Awaiting
  <2>5. CASE Closes \/ Leaves \/ Dismisses \/ Raises
    BY <1>2, <2>5, Zenon DEF Closes, Leaves, Dismisses, Raises, Broken
  <2>6. QED BY <1>3, <2>2, <2>3, <2>4, <2>5, Zenon DEF NodeSteps
<1>4. CASE GuestSteps
  <2>1. npc' = npc /\ nodeOut' = nodeOut /\ nodeNext' = nodeNext
    BY <1>4, Zenon DEF GuestSteps, NodeKept
  <2>2. CASE Asking
    <3>1. /\ \/ gpc = "init" /\ gpc' = "handshake"
             \/ gpc = "idle" /\ gpc' = "infer"
             \/ gpc = "infer" /\ gpc' \in {"respond", "call"}
             \/ gpc = "call" /\ gpc' = "result"
             \/ gpc = "result" /\ gpc' \in {"call", "summary"}
             \/ gpc = "summary" /\ gpc' = "respond"
          /\ guestOut' = guestOut + 1 /\ guestNext' = guestNext + 1
          /\ GuestTakes(gpc)
      BY <2>2, Zenon DEF Asking, Asks, GuestTakes, GuestWrites
    <3>2. Running
      BY <3>1, SMT DEF Running
    <3>3. guestNext < nodeOut
      BY <3>1, <3>2, Found
    <3>4. QED BY <1>1, <1>2, <2>1, <3>1, <3>3, SMT DEF Phase, Flight, Awaiting, Running
  <2>3. CASE Moving
    <3>1. /\ \/ gpc \in {"handshake", "respond"} /\ gpc' = "idle"
             \/ gpc' = "done"
          /\ guestOut' = guestOut /\ guestNext' = guestNext + 1
          /\ GuestTakes(gpc)
      BY <2>3, Zenon DEF Moving, Moves, GuestTakes
    <3>2. gpc \in {"handshake", "respond"} /\ gpc' = "idle" /\ Running
      BY <1>2, <3>1, SMT DEF Running
    <3>3. guestNext < nodeOut
      BY <3>1, <3>2, Found
    <3>4. QED BY <1>1, <1>2, <2>1, <3>1, <3>2, <3>3, SMT DEF Phase, Flight, Awaiting, Running
  <2>4. CASE Failing \/ Stops
    <3>1. gpc' = "failed" \/ gpc' = "dead"
      BY <2>4, Zenon DEF Failing, Moves, Stops
    <3>2. QED BY <1>2, <3>1, SMT DEF Running
  <2>5. QED BY <1>4, <2>2, <2>3, <2>4, Zenon DEF GuestSteps
<1>5. CASE Repeats \/ Idles
  <2>1. /\ npc' = npc /\ nodeNext' = nodeNext /\ nodeOut' = nodeOut
        /\ gpc' = gpc /\ guestOut' = guestOut /\ guestNext' = guestNext
    BY <1>5, Zenon DEF Repeats, Idles, NodeKept, GuestKept
  <2>2. QED BY <1>1, <2>1, SMT DEF Phase, Flight, Awaiting, Running
<1>6. QED BY <1>3, <1>4, <1>5, Steps, Zenon

LEMMA AskedStep ==
  ASSUME Inv, [Next]_vars
  PROVE  Asked'
<1>1. /\ TypeOK /\ Asked /\ \A m \in Hops(toNode) : m.seq < guestOut
  BY Zenon DEF Inv, Numbers
<1>2. toNode \in Seq(Hop(GuestTypes)) /\ guestOut \in Nat
  BY <1>1, Zenon DEF TypeOK
<1>3. ASSUME gpc' = gpc, guestOut' = guestOut, Hops(toNode') \subseteq Hops(toNode)
      PROVE  Asked'
  BY <1>1, <1>3, Zenon DEF Asked
<1>4. CASE NodeSteps
  <2>1. gpc' = gpc /\ guestOut' = guestOut
    BY <1>4, Zenon DEF NodeSteps, GuestKept
  <2>2. toNode' = toNode \/ (toNode # <<>> /\ toNode' = Tail(toNode))
    BY <1>4, Zenon DEF NodeSteps, Starts, Closes, Answering, Answers, Leaves, NodeTakes,
       Prompts, Dismisses, PromptKept, Raises
  <2>3. Hops(toNode') \subseteq Hops(toNode)
    <3>1. toNode # <<>> => Hops(Tail(toNode)) \subseteq Hops(toNode)
      BY <1>2, HopsTaken
    <3>2. QED BY <2>2, <3>1, Zenon
  <2>4. QED BY <1>3, <2>1, <2>3
<1>5. CASE GuestSteps
  <2>1. CASE Asking
    <3>1. PICK m : GuestWrites(m) /\ m.type = Request(gpc')
      BY <2>1, Zenon DEF Asking, Asks
    <3>2. /\ m \in Hop(GuestTypes) /\ toNode' = Append(toNode, m) /\ guestOut' = guestOut + 1
      BY <3>1, Zenon DEF GuestWrites
    <3>3. Hops(toNode') = Hops(toNode) \cup {m} /\ Hops(toNode) \subseteq Hop(GuestTypes)
      BY <1>2, <3>2, HopsSent
    <3>4. \A x \in Hops(toNode) : x.seq # guestOut' - 1
      BY <1>1, <1>2, <3>2, SMT
    <3>5. QED BY <3>1, <3>3, <3>4, Zenon DEF Asked
  <2>2. CASE Moving \/ Failing \/ Stops
    <3>1. gpc' \in {"idle", "done", "failed", "dead"}
      BY <2>2, Zenon DEF Moving, Failing, Moves, Stops
    <3>2. gpc' \notin Awaiting
      BY <3>1, SMT DEF Awaiting
    <3>3. QED BY <3>2, Zenon DEF Asked
  <2>3. QED BY <1>5, <2>1, <2>2, Zenon DEF GuestSteps
<1>6. CASE Repeats \/ Idles
  <2>1. /\ gpc' = gpc /\ guestOut' = guestOut
        /\ \/ toNode' = toNode
           \/ toNode # <<>> /\ toNode' = Append(toNode, toNode[Len(toNode)])
    BY <1>6, Zenon DEF Repeats, Idles, GuestKept
  <2>2. toNode # <<>> => Hops(Append(toNode, toNode[Len(toNode)])) = Hops(toNode)
    BY <1>2, HopsRepeated
  <2>3. Hops(toNode') \subseteq Hops(toNode)
    BY <2>1, <2>2, Zenon
  <2>4. QED BY <1>3, <2>1, <2>3
<1>7. QED BY <1>4, <1>5, <1>6, Steps, Zenon

(* What is due stays due while the guest stands where it stands, and a hop *)
(* that the Node adds must be due.                                         *)
LEMMA DueAdded ==
  ASSUME Inv, Running, gpc' = gpc, guestNext' = guestNext, npc # "ended",
         NEW m, NodeWrites(m), NEW later, later = nodeOut - guestNext,
         Due(gpc, CutOff', m.type, later)
  PROVE  Replied'
<1>1. /\ m \in Hop(NodeTypes) /\ m.seq = nodeOut /\ toGuest' = Append(toGuest, m)
  BY Zenon DEF NodeWrites
<1>2. Hops(toGuest') = Hops(toGuest) \cup {m}
  BY <1>1, HopsSent DEF Inv, TypeOK
<1>3. \A x \in Hops(toGuest) :
        x.seq >= guestNext => Due(gpc, CutOff, x.type, x.seq - guestNext)
  BY Zenon DEF Inv, Replied
<1>4. ~CutOff
  BY Zenon DEF CutOff
<1>5. \A x \in Hops(toGuest) :
        x.seq >= guestNext => Due(gpc, CutOff', x.type, x.seq - guestNext)
  BY <1>3, <1>4, Zenon DEF Due
<1>6. Due(gpc, CutOff', m.type, m.seq - guestNext)
  BY <1>1, Zenon
<1>7. \A x \in Hops(toGuest') :
        x.seq >= guestNext' => Due(gpc', CutOff', x.type, x.seq - guestNext')
  BY <1>2, <1>5, <1>6, Zenon
<1>8. QED BY <1>7, Zenon DEF Replied

(* What is under way behind a hop that the guest takes.                    *)
LEMMA LeftOver ==
  ASSUME Inv, Running, NEW from, GuestTakes(from),
         NEW x \in Hops(toGuest'), x.seq >= guestNext'
  PROVE  \/ /\ x.seq - guestNext' = 0 /\ gpc \in {"handshake", "respond"}
            /\ x.type \in {"user_query", "session_end"}
         \/ CutOff /\ x.type = "session_end"
<1>1. toGuest # <<>> /\ toGuest' = Tail(toGuest) /\ guestNext' = guestNext + 1
  BY Zenon DEF GuestTakes
<1>2. toGuest \in Seq(Hop(NodeTypes)) /\ guestNext \in Nat
  BY Zenon DEF Inv, TypeOK
<1>3. Hops(toGuest') \subseteq Hops(toGuest) /\ Hops(toGuest) \subseteq Hop(NodeTypes)
  <2>1. Head(toGuest) \in Hop(NodeTypes)
    BY <1>1, <1>2, HopsTaken
  <2>2. QED BY <1>1, <1>2, <2>1, HopsTaken, HopsSent
<1>4. x \in Hops(toGuest) /\ x.seq \in Nat
  <2>1. x \in Hop(NodeTypes)
    BY <1>3, Zenon
  <2>2. QED BY <1>3, <2>1, SMT DEF Hop
<1>5. /\ x.seq >= guestNext /\ x.seq - guestNext # 0
      /\ x.seq - guestNext = 1 => x.seq - guestNext' = 0
  BY <1>1, <1>2, <1>4, SMT
<1>6. Due(gpc, CutOff, x.type, x.seq - guestNext)
  BY <1>4, <1>5, Zenon DEF Inv, Replied
<1>7. QED BY <1>5, <1>6, Zenon DEF Due

(* A hop that the guest takes leaves what is due after it.                 *)
LEMMA DueTaken ==
  ASSUME Inv, Running, NEW from, GuestTakes(from),
         npc' = npc, flags' = flags,
         from \in {"handshake", "respond"} => gpc' = "idle"
  PROVE  Replied'
<1>1. gpc = from /\ (CutOff' <=> CutOff)
  BY Zenon DEF GuestTakes, CutOff
<1>2. SUFFICES ASSUME NEW x \in Hops(toGuest'), x.seq >= guestNext'
               PROVE  Due(gpc', CutOff', x.type, x.seq - guestNext')
  BY Zenon DEF Replied
<1>3. \/ /\ x.seq - guestNext' = 0 /\ gpc \in {"handshake", "respond"}
         /\ x.type \in {"user_query", "session_end"}
      \/ CutOff /\ x.type = "session_end"
  BY <1>2, LeftOver
<1>4. QED BY <1>1, <1>3, Zenon DEF Due

LEMMA RepliedStep ==
  ASSUME Inv, [Next]_vars
  PROVE  Replied'
<1>1. /\ TypeOK /\ Phase /\ Replied
      /\ nodeOut \in Nat /\ guestNext \in Nat /\ nodeNext \in Nat /\ guestOut \in Nat
  BY Zenon DEF Inv, TypeOK
<1>2. SUFFICES ASSUME Running' PROVE Replied'
  BY Zenon DEF Replied
<1>3. CASE NodeSteps
  <2>1. gpc' = gpc /\ guestNext' = guestNext /\ Running
    BY <1>2, <1>3, Zenon DEF NodeSteps, GuestKept, Running
  <2>2. npc # "ended"
    <3>1. npc = "start" \/ npc = "read" \/ npc = "prompt"
      BY <1>3, Zenon DEF NodeSteps, Starts, Closes, Answering, Answers, Leaves, NodeTakes,
         Prompts, Dismisses, PromptKept, Raises
    <3>2. QED BY <3>1, SMT
  <2>3. CASE toGuest' = toGuest
    <3>1. ~CutOff
      BY <2>2, Zenon DEF CutOff
    <3>2. \A x \in Hops(toGuest) :
            x.seq >= guestNext => Due(gpc, CutOff', x.type, x.seq - guestNext)
      BY <1>1, <2>1, <3>1, Zenon DEF Replied, Due
    <3>3. QED BY <2>1, <2>3, <3>2, Zenon DEF Replied
  <2>4. CASE Starts
    <3>1. PICK m : NodeWrites(m) /\ m.type = "session_init"
      BY <2>4, Zenon DEF Starts
    <3>2. npc = "start"
      BY <2>4, Zenon DEF Starts
    <3>3. gpc = "init" /\ nodeOut - guestNext = 0
      BY <1>1, <2>1, <2>2, <3>2, SMT DEF Phase, Flight
    <3>4. Due(gpc, CutOff', m.type, 0)
      BY <3>1, <3>3, Zenon DEF Due
    <3>5. QED BY <2>1, <2>2, <3>1, <3>3, <3>4, DueAdded
  <2>5. CASE Closes
    <3>1. CASE /\ flags' = flags \cup {"turn_cap"} /\ npc' = "ended"
               /\ \E m : NodeWrites(m) /\ m.type = "session_end"
      <4>1. PICK m : NodeWrites(m) /\ m.type = "session_end"
        BY <3>1, Zenon
      <4>2. CutOff'
        BY <3>1, Zenon DEF CutOff
      <4>3. Due(gpc, CutOff', m.type, nodeOut - guestNext)
        BY <4>1, <4>2, Zenon DEF Due
      <4>4. QED BY <2>1, <2>2, <4>1, <4>3, DueAdded
    <3>2. QED BY <2>5, <2>3, <3>1, Zenon DEF Closes
  <2>6. CASE Answering
    <3>1. PICK type, m : NodeTakes(type) /\ NodeWrites(m) /\
            \/ type = "handshake" /\ m.type = "handshake_ok"
            \/ type = "llm_request" /\ m.type \in {"llm_response", "error"}
            \/ type = "tool_call" /\ m.type = "tool_call_response"
            \/ type = "tool_result" /\ m.type \in {"tool_result_ack", "error"}
            \/ type = "agent_response" /\ m.type = "agent_response_ack"
      BY <2>6, Zenon DEF Answering, Answers, InferReplies
    <3>2. gpc \in Awaiting /\ type = Request(gpc) /\ nodeOut = guestNext
      BY <2>1, <3>1, Awaited
    <3>3. nodeOut - guestNext = 0
      BY <1>1, <3>2, SMT
    <3>4. m.type \in Replies(gpc)
      <4>1. CASE gpc = "handshake"
        BY <3>1, <3>2, <4>1, SMT DEF Replies, Request
      <4>2. CASE gpc \in {"infer", "summary"}
        BY <3>1, <3>2, <4>2, SMT DEF Replies, Request
      <4>3. CASE gpc = "call"
        BY <3>1, <3>2, <4>3, SMT DEF Replies, Request
      <4>4. CASE gpc = "result"
        BY <3>1, <3>2, <4>4, SMT DEF Replies, Request
      <4>5. CASE gpc = "respond"
        BY <3>1, <3>2, <4>5, SMT DEF Replies, Request
      <4>6. QED BY <3>2, <4>1, <4>2, <4>3, <4>4, <4>5, SMT DEF Awaiting
    <3>5. Due(gpc, CutOff', m.type, 0)
      BY <3>2, <3>4, Zenon DEF Due
    <3>6. QED BY <2>1, <2>2, <3>1, <3>3, <3>5, DueAdded
  <2>7. CASE Leaves
    <3>1. PICK m, n \in Hop(NodeTypes) :
            /\ m.seq = nodeOut /\ m.type = "agent_response_ack"
            /\ n.seq = nodeOut + 1 /\ n.type = "session_end"
            /\ toGuest' = Append(Append(toGuest, m), n)
      BY <2>7, Zenon DEF Leaves
    <3>2. Hops(toGuest') = (Hops(toGuest) \cup {m}) \cup {n}
      <4> DEFINE one == Append(toGuest, m)
      <4>1. one \in Seq(Hop(NodeTypes)) /\ Hops(one) = Hops(toGuest) \cup {m}
        BY <1>1, HopsSent DEF TypeOK
      <4> HIDE DEF one
      <4>2. Hops(Append(one, n)) = Hops(one) \cup {n}
        BY <4>1, HopsSent
      <4>3. QED BY <3>1, <4>1, <4>2, Zenon DEF one
    <3>3. gpc = "respond" /\ nodeOut = guestNext
      <4>1. gpc \in Awaiting /\ "agent_response" = Request(gpc) /\ nodeOut = guestNext
        BY <2>1, <2>7, Awaited DEF Leaves
      <4>2. QED BY <4>1, SMT DEF Request, Awaiting
    <3>4. m.seq - guestNext = 0 /\ n.seq - guestNext = 1
      BY <1>1, <3>1, <3>3, SMT
    <3>5. Due(gpc, CutOff', m.type, m.seq - guestNext)
      <4>1. gpc \in Awaiting /\ m.type \in Replies(gpc)
        BY <3>1, <3>3, SMT DEF Awaiting, Replies
      <4>2. QED BY <3>4, <4>1, Zenon DEF Due
    <3>6. Due(gpc, CutOff', n.type, n.seq - guestNext)
      BY <3>1, <3>3, <3>4, Zenon DEF Due
    <3>7. \A x \in Hops(toGuest) :
            x.seq >= guestNext => Due(gpc, CutOff', x.type, x.seq - guestNext)
      <4>1. ~CutOff
        BY <2>2, Zenon DEF CutOff
      <4>2. QED BY <1>1, <2>1, <4>1, Zenon DEF Replied, Due
    <3>8. \A x \in Hops(toGuest') :
            x.seq >= guestNext' => Due(gpc', CutOff', x.type, x.seq - guestNext')
      BY <2>1, <3>2, <3>5, <3>6, <3>7, Zenon
    <3>9. QED BY <3>8, Zenon DEF Replied
  <2>8. CASE Prompts \/ Dismisses
    <3>1. PICK m : NodeWrites(m) /\ m.type \in {"user_query", "session_end"}
      BY <2>8, Zenon DEF Prompts, Dismisses
    <3>2. npc = "prompt"
      BY <2>8, Zenon DEF Prompts, Dismisses, PromptKept
    <3>3. \/ gpc = "idle" /\ nodeOut - guestNext = 0
          \/ gpc \in {"handshake", "respond"} /\ nodeOut - guestNext = 1
      BY <1>1, <2>1, <2>2, <3>2, SMT DEF Phase, Flight
    <3>4. Due(gpc, CutOff', m.type, nodeOut - guestNext)
      BY <3>1, <3>3, Zenon DEF Due
    <3>5. QED BY <2>1, <2>2, <3>1, <3>4, DueAdded
  <2>9. QED BY <1>3, <2>4, <2>5, <2>6, <2>7, <2>8, <2>3, Zenon DEF NodeSteps, Raises, Broken
<1>4. CASE GuestSteps
  <2>1. npc' = npc /\ flags' = flags
    BY <1>4, Zenon DEF GuestSteps, NodeKept
  <2>2. CASE Asking
    <3>1. PICK from : GuestTakes(from) /\ from \in {"init", "idle", "infer", "call", "result", "summary"}
      BY <2>2, Zenon DEF Asking, Asks
    <3>2. gpc = from /\ Running /\ from \notin {"handshake", "respond"}
      <4>1. gpc = from
        BY <3>1, Zenon DEF GuestTakes
      <4>2. QED BY <3>1, <4>1, SMT DEF Running
    <3>3. QED BY <2>1, <3>1, <3>2, DueTaken
  <2>3. CASE Moving
    <3>1. PICK from : /\ GuestTakes(from)
                   /\ \/ from \in {"handshake", "respond"} /\ gpc' = "idle"
                      \/ gpc' = "done"
      BY <2>3, Zenon DEF Moving, Moves
    <3>2. gpc' = "idle" /\ gpc = from /\ Running
      <4>1. gpc = from
        BY <3>1, Zenon DEF GuestTakes
      <4>2. gpc' # "done"
        BY <1>2, SMT DEF Running
      <4>3. QED BY <3>1, <4>1, <4>2, SMT DEF Running
    <3>3. QED BY <2>1, <3>1, <3>2, DueTaken
  <2>4. CASE Failing \/ Stops
    <3>1. gpc' = "failed" \/ gpc' = "dead"
      BY <2>4, Zenon DEF Failing, Moves, Stops
    <3>2. QED BY <1>2, <3>1, SMT DEF Running
  <2>5. QED BY <1>4, <2>2, <2>3, <2>4, Zenon DEF GuestSteps
<1>5. CASE Repeats \/ Idles
  <2>1. /\ npc' = npc /\ flags' = flags /\ gpc' = gpc /\ guestNext' = guestNext
        /\ \/ toGuest' = toGuest
           \/ toGuest # <<>> /\ toGuest' = Append(toGuest, toGuest[Len(toGuest)])
    BY <1>5, Zenon DEF Repeats, Idles, NodeKept, GuestKept
  <2>2. toGuest # <<>> => Hops(Append(toGuest, toGuest[Len(toGuest)])) = Hops(toGuest)
    BY <1>1, HopsRepeated DEF TypeOK
  <2>3. Hops(toGuest') = Hops(toGuest)
    BY <2>1, <2>2, Zenon
  <2>4. Running /\ (CutOff' <=> CutOff)
    BY <1>2, <2>1, Zenon DEF Running, CutOff
  <2>5. \A x \in Hops(toGuest') :
          x.seq >= guestNext' => Due(gpc', CutOff', x.type, x.seq - guestNext')
    BY <1>1, <2>1, <2>3, <2>4, Zenon DEF Replied, Due
  <2>6. QED BY <2>5, Zenon DEF Replied
<1>6. QED BY <1>3, <1>4, <1>5, Steps, Zenon

LEMMA DeniedStep ==
  ASSUME Inv, [Next]_vars
  PROVE  Denied'
<1>1. TypeOK /\ Denied
  BY Zenon DEF Inv
<1>2. SUFFICES ASSUME gpc' \in {"infer", "summary"}, NEW x \in Hops(toGuest'),
                      x.seq >= guestNext', x.type = "error"
               PROVE  "deny" \in LlmDecisions
  BY Zenon DEF Denied
<1>3. ASSUME gpc' = gpc, guestNext' = guestNext, x \in Hops(toGuest)
      PROVE  "deny" \in LlmDecisions
  BY <1>1, <1>2, <1>3, Zenon DEF Denied
<1>4. "error" \notin {"session_init", "session_end", "handshake_ok", "llm_response", "user_query",
                      "tool_call_response", "tool_result_ack", "agent_response_ack"}
  BY SMT
<1>5. CASE NodeSteps
  <2>1. gpc' = gpc /\ guestNext' = guestNext /\ Running
    <3>1. gpc' = gpc /\ guestNext' = guestNext
      BY <1>5, Zenon DEF NodeSteps, GuestKept
    <3>2. QED BY <1>2, <3>1, SMT DEF Running
  <2>2. CASE Starts \/ Prompts \/ Dismisses \/ Answering
    <3>1. PICK m : /\ NodeWrites(m)
                   /\ \/ m.type # "error"
                      \/ "deny" \in LlmDecisions
                      \/ NodeTakes("tool_result")
      BY <1>4, <2>2, Zenon DEF Starts, Prompts, Dismisses, Answering, Answers, InferReplies
    <3>2. Hops(toGuest') = Hops(toGuest) \cup {m}
      <4>1. m \in Hop(NodeTypes) /\ toGuest' = Append(toGuest, m)
        BY <3>1, Zenon DEF NodeWrites
      <4>2. QED BY <1>1, <4>1, HopsSent DEF TypeOK
    <3>3. ~NodeTakes("tool_result")
      <4>1. ASSUME NodeTakes("tool_result") PROVE FALSE
        <5>1. "tool_result" = Request(gpc)
          BY <2>1, <4>1, Awaited
        <5>2. Request(gpc) = "llm_request"
          BY <1>2, <2>1, Letters, Zenon
        <5>3. "tool_result" # "llm_request"
          BY SMT
        <5>4. QED BY <5>1, <5>2, <5>3, Zenon
      <4>2. QED BY <4>1
    <3>4. QED BY <1>2, <1>3, <2>1, <3>1, <3>2, <3>3, Zenon
  <2>3. CASE Closes
    <3>1. CASE toGuest' = toGuest
      BY <1>2, <1>3, <2>1, <3>1, Zenon
    <3>2. CASE \E m : NodeWrites(m) /\ m.type = "session_end"
      <4>1. PICK m : NodeWrites(m) /\ m.type = "session_end"
        BY <3>2, Zenon
      <4>2. Hops(toGuest') = Hops(toGuest) \cup {m}
        <5>1. m \in Hop(NodeTypes) /\ toGuest' = Append(toGuest, m)
          BY <4>1, Zenon DEF NodeWrites
        <5>2. QED BY <1>1, <5>1, HopsSent DEF TypeOK
      <4>3. QED BY <1>2, <1>3, <1>4, <2>1, <4>1, <4>2, Zenon
    <3>3. QED BY <2>3, <3>1, <3>2, Zenon DEF Closes
  <2>4. CASE Leaves
    <3>1. "agent_response" = Request(gpc)
      BY <2>1, <2>4, Awaited DEF Leaves
    <3>2. Request(gpc) = "llm_request"
      BY <1>2, <2>1, Letters, Zenon
    <3>3. "agent_response" # "llm_request"
      BY SMT
    <3>4. QED BY <3>1, <3>2, <3>3, Zenon
  <2>5. CASE Raises
    BY <1>2, <1>3, <2>1, <2>5, Zenon DEF Raises, Broken
  <2>6. QED BY <1>5, <2>2, <2>3, <2>4, <2>5, Zenon DEF NodeSteps
<1>6. CASE GuestSteps
  <2>1. CASE Asking
    <3>1. PICK from : GuestTakes(from) /\ from \in {"init", "idle", "infer", "call", "result", "summary"}
      BY <2>1, Zenon DEF Asking, Asks
    <3>2. Running
      <4>1. gpc = from
        BY <3>1, Zenon DEF GuestTakes
      <4>2. QED BY <3>1, <4>1, SMT DEF Running
    <3>3. x.type \in {"user_query", "session_end"}
      BY <1>2, <3>1, <3>2, LeftOver
    <3>4. QED BY <1>2, <1>4, <3>3, Zenon
  <2>2. CASE Moving \/ Failing \/ Stops
    <3>1. gpc' \in {"idle", "done", "failed", "dead"}
      BY <2>2, Zenon DEF Moving, Failing, Moves, Stops
    <3>2. QED BY <1>2, <3>1, SMT
  <2>3. QED BY <1>6, <2>1, <2>2, Zenon DEF GuestSteps
<1>7. CASE Repeats \/ Idles
  <2>1. /\ gpc' = gpc /\ guestNext' = guestNext
        /\ \/ toGuest' = toGuest
           \/ toGuest # <<>> /\ toGuest' = Append(toGuest, toGuest[Len(toGuest)])
    BY <1>7, Zenon DEF Repeats, Idles, GuestKept
  <2>2. toGuest # <<>> => Hops(Append(toGuest, toGuest[Len(toGuest)])) = Hops(toGuest)
    BY <1>1, HopsRepeated DEF TypeOK
  <2>3. QED BY <1>2, <1>3, <2>1, <2>2, Zenon
<1>8. QED BY <1>5, <1>6, <1>7, Steps, Zenon

LEMMA FarewelledStep ==
  ASSUME Inv, [Next]_vars
  PROVE  Farewelled'
<1>1. TypeOK /\ Farewelled
  BY Zenon DEF Inv
<1>2. SUFFICES ASSUME npc' = "ended", Running', "turn_cap" \notin flags', ~faulted',
                      ~raised'
               PROVE  \E m \in Hops(toGuest') : m.type = "session_end"
  BY Zenon DEF Farewelled
<1>3. "read" # "ended" /\ "prompt" # "ended"
  BY SMT
<1>4. CASE NodeSteps
  <2>1. Running /\ ~faulted
    BY <1>2, <1>4, Zenon DEF NodeSteps, GuestKept, Running
  <2>2. CASE Leaves
    <3>1. PICK m, n \in Hop(NodeTypes) :
            n.type = "session_end" /\ toGuest' = Append(Append(toGuest, m), n)
      BY <2>2, Zenon DEF Leaves
    <3> DEFINE one == Append(toGuest, m)
    <3>2. one \in Seq(Hop(NodeTypes))
      BY <1>1, HopsSent DEF TypeOK
    <3> HIDE DEF one
    <3>3. Hops(Append(one, n)) = Hops(one) \cup {n}
      BY <3>2, HopsSent
    <3>4. QED BY <3>1, <3>3, Zenon DEF one
  <2>3. CASE \E m : NodeWrites(m) /\ m.type = "session_end"
    <3>1. PICK m : NodeWrites(m) /\ m.type = "session_end"
      BY <2>3, Zenon
    <3>2. m \in Hop(NodeTypes) /\ toGuest' = Append(toGuest, m)
      BY <3>1, Zenon DEF NodeWrites
    <3>3. Hops(toGuest') = Hops(toGuest) \cup {m}
      BY <1>1, <3>2, HopsSent DEF TypeOK
    <3>4. QED BY <3>1, <3>3, Zenon
  <2>4. CASE Starts \/ Answering \/ Prompts
    BY <1>2, <1>3, <2>4, Zenon DEF Starts, Answering, Answers, Prompts
  <2>5. CASE Closes
    BY <1>2, <2>1, <2>3, <2>5, Zenon DEF Closes
  <2>6. ~Raises
    BY <1>2, Zenon DEF Raises, Broken
  <2>7. QED BY <1>4, <2>2, <2>3, <2>4, <2>5, <2>6, Zenon DEF NodeSteps, Dismisses
<1>5. CASE GuestSteps
  <2>1. npc = "ended" /\ "turn_cap" \notin flags /\ ~faulted /\ ~raised /\ ~CutOff
    BY <1>2, <1>5, Zenon DEF GuestSteps, NodeKept, CutOff
  <2>2. CASE Asking \/ Moving
    <3>1. PICK from, types :
            /\ GuestTakes(from) /\ Head(toGuest).type \in types
            /\ from # "idle" \/ types = {"user_query"}
            /\ from \in {"init"} \cup Awaiting \cup {"idle"}
      <4>1. /\ "init" # "idle" /\ "infer" # "idle" /\ "call" # "idle" /\ "result" # "idle"
            /\ "summary" # "idle" /\ "handshake" # "idle" /\ "respond" # "idle"
        BY SMT
      <4>2. gpc' # "done"
        BY <1>2, Zenon DEF Running
      <4>3. CASE Asking
        BY <4>1, <4>3, Zenon DEF Asking, Asks, Awaiting
      <4>4. CASE Moving
        BY <4>1, <4>2, <4>4, Zenon DEF Moving, Moves, Awaiting
      <4>5. QED BY <2>2, <4>3, <4>4
    <3>2. gpc = from /\ toGuest # <<>> /\ toGuest' = Tail(toGuest)
      BY <3>1, Zenon DEF GuestTakes
    <3>3. Running
      BY <3>1, <3>2, SMT DEF Running, Awaiting
    <3>4. PICK m \in Hops(toGuest) : m.type = "session_end"
      BY <1>1, <2>1, <3>3, Zenon DEF Farewelled
    <3>5. Head(toGuest).type # "session_end"
      <4>1. Due(gpc, CutOff, Head(toGuest).type, 0)
        BY <3>1, <3>3, Found
      <4>2. \A wait \in Awaiting : "session_end" \notin Replies(wait)
        BY SMT DEF Awaiting, Replies
      <4>3. "session_end" # "session_init" /\ "session_end" # "user_query" /\ 0 # 1
        BY SMT
      <4>4. QED BY <2>1, <3>1, <3>2, <4>1, <4>2, <4>3, Zenon DEF Due
    <3>6. Hops(toGuest) \subseteq Hops(toGuest') \cup {Head(toGuest)}
      BY <1>1, <3>2, HopsTaken DEF TypeOK
    <3>7. QED BY <3>4, <3>5, <3>6, Zenon
  <2>3. CASE Failing \/ Stops
    <3>1. gpc' = "failed" \/ gpc' = "dead"
      BY <2>3, Zenon DEF Failing, Moves, Stops
    <3>2. QED BY <1>2, <3>1, SMT DEF Running
  <2>4. QED BY <1>5, <2>2, <2>3, Zenon DEF GuestSteps
<1>6. CASE Repeats \/ Idles
  <2>1. /\ npc' = npc /\ flags' = flags /\ gpc' = gpc /\ toGuest' = toGuest /\ ~faulted
        /\ ~raised
    BY <1>2, <1>6, Zenon DEF Repeats, Idles, NodeKept, GuestKept
  <2>2. QED BY <1>1, <1>2, <2>1, Zenon DEF Farewelled, Running
<1>7. QED BY <1>4, <1>5, <1>6, Steps, Zenon

LEMMA AlarmStep ==
  ASSUME Inv, [Next]_vars
  PROVE  NoFalseAlarm'
<1>1. NoFalseAlarm
  BY Zenon DEF Inv
<1>2. /\ flags' \subseteq flags \cup {"turn_cap", "replay", "deny_burst", "unbound_tool_result",
                                      "tool_result_too_large"}
      /\ "replay" \in flags' => "replay" \in flags \/ faulted
      /\ faulted => faulted'
  <2>1. /\ "turn_cap" # "replay" /\ "deny_burst" # "replay" /\ "unbound_tool_result" # "replay"
        /\ "tool_result_too_large" # "replay"
    BY SMT
  <2>2. CASE NodeSteps
    BY <2>1, <2>2, Zenon DEF NodeSteps, Starts, Closes, Answering, Answers, Leaves, Prompts,
       Dismisses, PromptKept, Raises
  <2>3. CASE GuestSteps \/ Repeats \/ Idles
    BY <2>3, Zenon DEF GuestSteps, Repeats, Idles, NodeKept
  <2>4. QED BY <2>2, <2>3, Steps, Zenon
<1>3. {"seq_gap", "mac_fail", "pre_handshake"} \cap
        {"turn_cap", "replay", "deny_burst", "unbound_tool_result", "tool_result_too_large"} = {}
  BY SMT
<1>4. QED BY <1>1, <1>2, <1>3, Zenon DEF NoFalseAlarm

LEMMA FailsStep ==
  ASSUME Inv, [Next]_vars
  PROVE  GuestFailsOnlyWhenCut'
<1>1. GuestFailsOnlyWhenCut /\ Denied
  BY Zenon DEF Inv
<1>2. SUFFICES ASSUME gpc' = "failed" PROVE Excused'
  BY Zenon DEF GuestFailsOnlyWhenCut, Excused
<1>3. Excused => Excused'
  <2>1. flags \subseteq flags' /\ (faulted => faulted') /\ (raised => raised')
    <3>1. CASE NodeSteps
      BY <3>1, Zenon DEF NodeSteps, Starts, Closes, Answering, Answers, Leaves, Prompts,
         Dismisses, PromptKept, Raises, RaisedKept
    <3>2. CASE GuestSteps \/ Repeats \/ Idles
      BY <3>2, Zenon DEF GuestSteps, Repeats, Idles, NodeKept
    <3>3. QED BY <3>1, <3>2, Steps, Zenon
  <2>2. QED BY <2>1, Zenon DEF Excused
<1>4. CASE gpc = "failed"
  BY <1>1, <1>3, <1>4, Zenon DEF GuestFailsOnlyWhenCut, Excused
<1>5. CASE Failing
  <2>1. PICK from, type :
          /\ GuestTakes(from) /\ type = Head(toGuest).type
          /\ \/ from = "init" /\ type # "session_init"
             \/ from = "handshake" /\ type # "handshake_ok"
             \/ from = "idle" /\ type \notin {"session_end", "user_query"}
             \/ from = "infer" /\ type # "llm_response"
             \/ from = "summary" /\ type # "llm_response"
    BY <1>5, Zenon DEF Failing, Moves
  <2>2. gpc = from /\ Head(toGuest).seq = guestNext
    BY <2>1, Zenon DEF GuestTakes
  <2>3. Running
    BY <2>1, <2>2, SMT DEF Running
  <2>4. Due(gpc, CutOff, type, 0) /\ Head(toGuest) \in Hops(toGuest)
    BY <2>1, <2>3, Found
  <2>5. CutOff \/ (gpc \in {"infer", "summary"} /\ type = "error")
    <3>1. /\ Replies("handshake") = {"handshake_ok"}
          /\ Replies("infer") = {"llm_response", "error"}
          /\ Replies("summary") = {"llm_response", "error"}
      BY SMT DEF Replies
    <3>2. /\ "init" \notin Awaiting /\ "idle" \notin Awaiting /\ "init" # "idle" /\ 0 # 1
          /\ "handshake" # "init" /\ "handshake" # "idle" /\ "infer" # "init" /\ "infer" # "idle"
          /\ "summary" # "init" /\ "summary" # "idle"
      BY SMT DEF Awaiting
    <3>3. QED BY <2>1, <2>2, <2>4, <3>1, <3>2, Zenon DEF Due
  <2>6. Head(toGuest).seq >= guestNext
    <3>1. guestNext \in Nat
      BY Zenon DEF Inv, TypeOK
    <3>2. QED BY <2>2, <3>1, SMT
  <2>7. Excused
    BY <1>1, <2>1, <2>4, <2>5, <2>6, Zenon DEF Denied, CutOff, Excused
  <2>8. QED BY <1>3, <2>7
<1>6. CASE Stops
  <2>1. "dead" # "failed"
    BY SMT
  <2>2. QED BY <1>2, <1>3, <1>6, <2>1, Zenon DEF Stops
<1>7. CASE Asking \/ Moving
  <2>1. gpc' \in Awaiting \cup {"idle", "done"}
    BY <1>7, Zenon DEF Asking, Asks, Moving, Moves, Awaiting
  <2>2. QED BY <1>2, <2>1, SMT DEF Awaiting
<1>8. CASE NodeSteps \/ Repeats \/ Idles
  BY <1>2, <1>4, <1>8, Zenon DEF NodeSteps, Repeats, Idles, GuestKept
<1>9. QED BY <1>5, <1>6, <1>7, <1>8, Steps, Zenon DEF GuestSteps

-----------------------------------------------------------------------------
(* Theorems.                                                               *)

LEMMA InvInit ==
  ASSUME Init
  PROVE  Inv
<1>1. /\ npc = "start" /\ handshaken = FALSE
      /\ nodeOut = 0 /\ nodeNext = 0 /\ guestOut = 0 /\ guestNext = 0
      /\ messages = 0 /\ turns = 0 /\ answered = 0
      /\ outstanding = {} /\ streak = 0 /\ flags = {} /\ raised = FALSE
      /\ gpc = "init" /\ keyed = FALSE /\ todo = <<>> /\ approved = FALSE
      /\ toNode = <<>> /\ toGuest = <<>> /\ faulted = FALSE
  BY Zenon DEF Init
<1>2. /\ toNode \in Seq(Hop(GuestTypes)) /\ toGuest \in Seq(Hop(NodeTypes))
      /\ Len(toNode) = 0 /\ Len(toGuest) = 0
  BY <1>1, SMT
<1>3. Hops(toNode) = {} /\ Hops(toGuest) = {}
  BY <1>1, <1>2, EmptyHops
<1>4. gpc \notin Awaiting /\ gpc \notin Awaiting \cup {"idle"} /\ gpc \notin {"call", "result"}
  BY <1>1, SMT DEF Awaiting
<1>5. TypeOK
  <2>1. /\ handshaken \in BOOLEAN /\ keyed \in BOOLEAN /\ approved \in BOOLEAN
        /\ faulted \in BOOLEAN /\ raised \in BOOLEAN
    BY <1>1, Zenon
  <2>2. /\ nodeOut \in Nat /\ nodeNext \in Nat /\ guestOut \in Nat /\ guestNext \in Nat
        /\ messages \in 0..MaxMessages /\ turns \in 0..MaxTurns /\ answered \in Nat
        /\ streak \in Nat
    BY <1>1, CapsAssumption, SMT
  <2>3. todo \in Seq(CallIds)
    BY <1>1, NoCalls, Zenon
  <2>4. QED BY <1>1, <1>2, <2>1, <2>2, <2>3, Zenon DEF TypeOK
<1>6. /\ Behind(toNode, nodeNext, guestOut) /\ Behind(toGuest, guestNext, nodeOut)
      /\ Exact(toNode, nodeNext, guestOut) /\ Exact(toGuest, guestNext, nodeOut)
  BY <1>1, <1>2, SMT DEF Behind, Exact
<1>7. Numbers /\ InStep
  BY <1>3, <1>6, Zenon DEF Numbers, InStep
<1>8. /\ "start" # "read" /\ "start" # "prompt" /\ "start" # "ended" /\ "init" # "failed"
      /\ ~(0 > 0)
  BY SMT
<1>9. Places
  BY <1>1, <1>4, <1>8, Zenon DEF Places
<1>10. Phase
  BY <1>1, SMT DEF Phase, Flight
<1>11. Asked /\ Replied /\ Denied /\ Farewelled
  BY <1>1, <1>3, <1>4, <1>8, Zenon DEF Asked, Replied, Denied, Farewelled
<1>12. NoFalseAlarm /\ GuestFailsOnlyWhenCut
  BY <1>1, <1>8, Zenon DEF NoFalseAlarm, GuestFailsOnlyWhenCut
<1>13. QED BY <1>5, <1>7, <1>9, <1>10, <1>11, <1>12, Zenon DEF Inv

LEMMA InvStep ==
  ASSUME Inv, [Next]_vars
  PROVE  Inv'
<1>1. /\ toGuest' \in Seq(Hop(NodeTypes)) /\ nodeOut' \in Nat /\ guestNext' \in Nat
      /\ Orderly(toGuest', guestNext', nodeOut')
      /\ ~faulted' => Exact(toGuest', guestNext', nodeOut')
  BY ToGuestStep
<1>2. /\ \A m \in Hops(toNode') : Sound(m) /\ m.seq < guestOut'
      /\ npc' # "ended" => Behind(toNode', nodeNext', guestOut')
      /\ ~faulted' /\ npc' # "ended" => Exact(toNode', nodeNext', guestOut')
  BY ToNodeStep
<1>3. Numbers' /\ InStep'
  BY <1>1, <1>2, Zenon DEF Orderly, Numbers, InStep
<1>4. QED
  BY <1>3, TypeStep, PlacesStep, PhaseStep, AskedStep, RepliedStep, DeniedStep,
     FarewelledStep, AlarmStep, FailsStep, Zenon DEF Inv

(* Everything the invariant says holds in every state of every session.    *)
THEOREM Invariance == Spec => []Inv
<1>1. Init => Inv
  BY InvInit
<1>2. Inv /\ [Next]_vars => Inv'
  BY InvStep
<1>3. QED BY <1>1, <1>2, PTL DEF Spec

(* The hops, the counters and the places of both ends have their types.    *)
THEOREM TypeCorrect == Spec => []TypeOK
<1>1. Inv => TypeOK
  BY Zenon DEF Inv
<1>2. QED BY <1>1, Invariance, PTL

(* Without a fault of the path both ends count alike, whatever is denied,  *)
(* cut off or left unread.                                                 *)
THEOREM NumbersInStep == Spec => []SeqInStep
<1>1. Inv => SeqInStep
  <2>1. SUFFICES ASSUME Inv, ~faulted
                 PROVE  GuestInStep /\ (npc # "ended" => NodeInStep)
    BY Zenon DEF SeqInStep
  <2>2. toNode \in Seq(Hop(GuestTypes)) /\ toGuest \in Seq(Hop(NodeTypes))
    BY <2>1, Zenon DEF Inv, TypeOK
  <2>3. DOMAIN toNode = 1..Len(toNode) /\ DOMAIN toGuest = 1..Len(toGuest)
    BY <2>2, SMT
  <2>4. /\ Exact(toGuest, guestNext, nodeOut)
        /\ npc # "ended" => Exact(toNode, nodeNext, guestOut)
    BY <2>1, Zenon DEF Inv, InStep
  <2>5. QED BY <2>3, <2>4, Zenon DEF Exact, GuestInStep, NodeInStep
<1>2. QED BY <1>1, Invariance, PTL

(* The audit log accuses the guest of nothing it has not done.             *)
THEOREM NoFalseAlarms == Spec => []NoFalseAlarm
<1>1. Inv => NoFalseAlarm
  BY Zenon DEF Inv
<1>2. QED BY <1>1, Invariance, PTL

(* A guest that does not look at the type of a reply loses nothing by it.  *)
THEOREM RepliesMatch == Spec => []ReplyMatchesRequest
<1>1. Inv => ReplyMatchesRequest
  <2>1. SUFFICES ASSUME Inv, gpc \in Awaiting, toGuest # <<>>,
                        Verify(Head(toGuest), guestNext, keyed) = "ok"
                 PROVE  \/ Head(toGuest).type \in Replies(gpc)
                        \/ Head(toGuest).type = "session_end" /\ CutOff
    BY Zenon DEF ReplyMatchesRequest, CutOff
  <2>2. guestNext \in Nat /\ toGuest \in Seq(Hop(NodeTypes))
    BY <2>1, Zenon DEF Inv, TypeOK
  <2>3. Head(toGuest) \in Hops(toGuest) /\ Head(toGuest) \in Hop(NodeTypes)
    BY <2>1, <2>2, HopsTaken
  <2>4. Head(toGuest).seq \in Nat
    BY <2>3, SMT DEF Hop
  <2>5. Head(toGuest).seq = guestNext
    BY <2>1, <2>2, <2>4, SMT DEF Verify
  <2>6. Head(toGuest).seq >= guestNext /\ Head(toGuest).seq - guestNext = 0
    BY <2>2, <2>5, SMT
  <2>7. Running /\ gpc # "init" /\ gpc # "idle"
    BY <2>1, SMT DEF Running, Awaiting
  <2>8. Due(gpc, CutOff, Head(toGuest).type, 0)
    BY <2>1, <2>3, <2>6, <2>7, Zenon DEF Inv, Replied
  <2>9. 0 # 1
    BY SMT
  <2>10. QED BY <2>7, <2>8, <2>9, Zenon DEF Due
<1>2. QED BY <1>1, Invariance, PTL

(* The two ends never wait for each other.                                 *)
THEOREM NoDeadWait == Spec => []NoMutualWait
<1>1. Inv => NoMutualWait
  <2>1. SUFFICES ASSUME Inv, npc = "read", Running, toNode = <<>>, toGuest = <<>>
                 PROVE  FALSE
    BY Zenon DEF NoMutualWait
  <2>2. /\ nodeNext \in Nat /\ guestOut \in Nat /\ nodeOut \in Nat /\ guestNext \in Nat
        /\ Phase
    BY <2>1, Zenon DEF Inv, TypeOK
  <2>3. Len(toNode) = 0 /\ Len(toGuest) = 0 /\ npc # "ended"
    BY <2>1, SMT
  <2>4. /\ guestOut <= nodeNext + Len(toNode)
        /\ nodeOut <= guestNext + Len(toGuest)
    BY <2>1, <2>3, Zenon DEF Inv, Numbers, Behind
  <2>5. guestOut <= nodeNext /\ nodeOut <= guestNext
    BY <2>2, <2>3, <2>4, SMT
  <2>6. QED BY <2>1, <2>2, <2>5, SMT DEF Phase, Flight
<1>2. QED BY <1>1, Invariance, PTL

(* The guest stops with an error only when it was cut off.                 *)
THEOREM FailsWhenCut == Spec => []GuestFailsOnlyWhenCut
<1>1. Inv => GuestFailsOnlyWhenCut
  BY Zenon DEF Inv
<1>2. QED BY <1>1, Invariance, PTL

-----------------------------------------------------------------------------
(* The refinement.                                                         *)

LEMMA ContractStep ==
  ASSUME Inv, [Next]_vars
  PROVE  \/ Contract!Handshake \/ Contract!TakePrompt \/ Contract!Respond \/ Contract!End
         \/ npc' = npc /\ turns' = turns
         \/ npc = "start" /\ npc' = "read" /\ turns = 0 /\ turns' = 0
<1>1. /\ npc = "start" => turns = 0
      /\ npc = "read" => (nodeNext > 0 <=> turns > 0)
      /\ npc = "prompt" => turns < MaxTurns
      /\ turns \in Nat /\ nodeNext \in Nat
  BY SMT DEF Inv, Places, TypeOK
<1>2. CASE Starts
  BY <1>1, <1>2, Zenon DEF Starts
<1>3. CASE Closes \/ Leaves \/ Dismisses \/ (Raises /\ turns' = turns)
  <2>1. npc \in {"start", "read", "prompt"} /\ npc' = "ended" /\ turns' = turns
    BY <1>3, Zenon DEF Closes, Leaves, NodeTakes, Dismisses, PromptKept, Raises, Broken
  <2>2. QED BY <1>1, <2>1, SMT DEF Contract!End
<1>4. CASE Answering
  <2>1. \/ npc' = npc /\ turns' = turns
        \/ npc = "read" /\ npc' = "ended" /\ turns' = turns
        \/ /\ npc = "read" /\ npc' = "prompt" /\ turns' = turns /\ turns < MaxTurns
           /\ \/ NodeTakes("handshake")
              \/ NodeTakes("agent_response")
    BY <1>4, Zenon DEF Answering, Answers, NodeTakes
  <2>2. CASE npc = "read" /\ npc' = "prompt" /\ turns' = turns /\ turns < MaxTurns
    <3>1. CASE turns = 0
      BY <2>2, <3>1, SMT DEF Contract!Handshake
    <3>2. CASE turns > 0
      BY <1>1, <2>2, <3>2, CapsAssumption, SMT DEF Contract!Respond
    <3>3. QED BY <1>1, <3>1, <3>2, SMT
  <2>3. CASE npc = "read" /\ npc' = "ended" /\ turns' = turns
    BY <1>1, <2>3, SMT DEF Contract!End
  <2>4. QED BY <2>1, <2>2, <2>3, Zenon
<1>5. CASE Prompts
  <2>1. npc = "prompt" /\ npc' = "read" /\ turns' = turns + 1
    BY <1>5, Zenon DEF Prompts, PromptKept
  <2>2. QED BY <1>1, <2>1, CapsAssumption, SMT DEF Contract!TakePrompt
<1>6. CASE Raises /\ turns' # turns
  <2>1. npc = "prompt" /\ npc' = "ended" /\ turns' = turns + 1
    BY <1>6, Zenon DEF Raises, Broken
  <2>2. QED BY <1>1, <2>1, CapsAssumption, SMT DEF Contract!TakePrompt
<1>7. CASE GuestSteps \/ Repeats \/ Idles
  BY <1>7, Zenon DEF GuestSteps, Repeats, Idles, NodeKept
<1>8. QED BY <1>2, <1>3, <1>4, <1>5, <1>7, <1>6, Steps, Zenon DEF NodeSteps

(* The hop protocol is a session in the sense of TurnContract.             *)
THEOREM ContractKept == Spec => ImplementsContract
<1>1. Init => Contract!Init
  BY SMT DEF Init, Contract!Init
<1>2. Inv /\ [Next]_vars => [Contract!Next]_(Contract!vars)
  <2>1. SUFFICES ASSUME Inv, [Next]_vars
                 PROVE  [Contract!Next]_(Contract!vars)
    OBVIOUS
  <2>2. CASE npc' = npc /\ turns' = turns
    BY <2>2, Zenon DEF Contract!vars
  <2>3. CASE npc = "start" /\ npc' = "read" /\ turns = 0 /\ turns' = 0
    BY <2>3, SMT DEF Contract!vars
  <2>4. CASE Contract!Handshake \/ Contract!TakePrompt \/ Contract!Respond \/ Contract!End
    BY <2>4, Zenon DEF Contract!Next
  <2>5. QED BY <2>1, <2>2, <2>3, <2>4, ContractStep, Zenon
<1>3. QED BY <1>1, <1>2, Invariance, PTL DEF Spec, ImplementsContract, Contract!Spec

-----------------------------------------------------------------------------
(* The calls of a completion.                                              *)

InHand == IF gpc \in {"call", "result"} THEN {Head(todo)} ELSE {}

(* What a running guest and the Node know of the same call.                *)
Agreed ==
  /\ outstanding \subseteq InHand
  /\ gpc = "call" /\ guestOut # nodeNext => outstanding = {}
  /\ gpc = "result" /\ guestOut = nodeNext => outstanding = {}
  /\ gpc = "call" /\ outstanding # {} => \A m \in Hops(toGuest) : m.seq >= guestNext => m.flag
  /\ gpc \in {"call", "result"} =>
       \A m \in Hops(toNode) : m.seq >= nodeNext => m.calls[1] = Head(todo)

(* A result under way that the Node would take is one it approved.  The    *)
(* guest may have died behind it.                                          *)
Vouched ==
  \A m \in Hops(toNode) :
    m.seq >= nodeNext /\ m.type = "tool_result" /\ m.calls[1] \in outstanding => approved

Accountable == npc # "ended" /\ "tool_result_too_large" \notin flags

Accounted ==
  Accountable => /\ guestOut <= nodeNext + 1
                 /\ Vouched
                 /\ Running => Agreed

(* What a step does with a call: the Node decides it or takes its result,  *)
(* the guest picks the next or reports on it, or no call is touched.       *)
Decides ==
  /\ NodeTakes("tool_call") /\ GuestKept
  /\ \E m : /\ NodeWrites(m)
            /\ \/ outstanding' = outstanding
               \/ outstanding' = outstanding \cup {Head(toNode).calls[1]} /\ m.flag

Takes ==
  /\ NodeTakes("tool_result") /\ GuestKept
  /\ \/ outstanding' = outstanding \ {Head(toNode).calls[1]}
     \/ "tool_result_too_large" \in flags'

Picks ==
  /\ GuestTakes("infer") \/ GuestTakes("result")
  /\ gpc' = "call" /\ NodeKept
  /\ \E m : GuestWrites(m) /\ m.calls = <<Head(todo')>>

Reports ==
  /\ GuestTakes("call") /\ gpc' = "result" /\ NodeKept /\ todo' = todo
  /\ Head(toGuest).type = "tool_call_response" /\ Head(toGuest).flag => approved'
  /\ \E m : GuestWrites(m) /\ m.calls = <<Head(todo)>>

Passes ==
  /\ outstanding' = outstanding
  /\ Running' => /\ gpc' \notin {"call", "result"} /\ gpc # "call"
                 /\ gpc = "result" => GuestTakes("result") /\ NodeKept
  /\ ~Running' => /\ approved' = approved /\ guestOut' = guestOut
                  /\ toNode' = toNode \/ (toNode # <<>> /\ toNode' = Tail(toNode))
                  /\ nodeNext' = nodeNext \/ nodeNext' = nodeNext + 1

LEMMA CallDecided ==
  ASSUME TypeOK, Numbers, Places, NodeDecides, npc' # "ended"
  PROVE  Decides
<1>1. PICK decision \in CallDecisions :
        /\ outstanding' = IF decision = "allow"
                            THEN outstanding \cup {Head(toNode).calls[1]} ELSE outstanding
        /\ NodeWritesOr([type |-> "tool_call_response", calls |-> Head(toNode).calls,
                         flag |-> decision = "allow"], "read")
  BY Zenon DEF NodeDecides
<1>2. NodeAccepts("tool_call")
  BY Zenon DEF NodeDecides
<1>3. NodeTakes("tool_call") /\ GuestKept /\ Head(toNode).calls \in Seq(CallIds)
  BY <1>2, NodeAccepted
<1> DEFINE yes == (decision = "allow")
           h == [type |-> "tool_call_response", calls |-> Head(toNode).calls, flag |-> yes]
<1>4. yes \in BOOLEAN
  BY Zenon
<1>5. NodeWritesOr(h, "read")
  BY <1>1, Zenon
<1>6. outstanding' = outstanding \/ (outstanding' = outstanding \cup {Head(toNode).calls[1]} /\ yes)
  BY <1>1, Zenon
<1> HIDE DEF yes
<1>7. h \in Unsigned /\ h.flag = yes
  BY <1>3, <1>4, SMT DEF Unsigned, NodeTypes
<1> HIDE DEF h
<1>8. PICK m : NodeWrites(m) /\ m.flag = h.flag
  BY <1>5, <1>7, WritesOr, Zenon DEF Broken
<1>9. yes => m.flag
  BY <1>7, <1>8, Zenon
<1>10. QED BY <1>3, <1>6, <1>8, <1>9, Zenon DEF Decides

LEMMA ResultTaken ==
  ASSUME TypeOK, Numbers, Places, NodeTakesResult
  PROVE  Takes
<1> DEFINE id == Head(toNode).calls[1]
<1>1. NodeAccepts("tool_result")
  BY Zenon DEF NodeTakesResult
<1>2. NodeTakes("tool_result") /\ GuestKept
  BY <1>1, NodeAccepted
<1>3. \/ id \notin outstanding /\ outstanding' = outstanding
      \/ flags' = flags \cup {"tool_result_too_large"}
      \/ outstanding' = outstanding \ {id}
  BY Zenon DEF NodeTakesResult, Refuse
<1>4. id \notin outstanding => outstanding = outstanding \ {id}
  BY Zenon
<1>5. QED BY <1>2, <1>3, <1>4, Zenon DEF Takes

LEMMA CallSent ==
  ASSUME TypeOK, guestOut > 0, NEW type \in {"tool_call", "tool_result"},
         NEW calls \in Seq(CallIds), calls # <<>>, NEW flag \in BOOLEAN, NEW next,
         GuestSends(type, calls, flag, next)
  PROVE  gpc' = next /\ \E m : GuestWrites(m) /\ m.calls = calls
<1>1. type \in GuestTypes /\ type # "handshake"
  BY SMT DEF GuestTypes
<1>2. guestOut \in Nat /\ guestOut # 0
  BY SMT DEF TypeOK
<1>3. type = "handshake" <=> guestOut = 0
  BY <1>1, <1>2, Zenon
<1>4. type \in {"tool_call", "tool_result"} => calls # <<>>
  OBVIOUS
<1>5. QED BY <1>1, <1>2, <1>3, <1>4, GuestWritesOne

(* The first call of the rest, or none.                                    *)
LEMMA CallPicked ==
  ASSUME TypeOK, guestOut > 0, NEW calls \in Seq(CallIds), NextCall(calls)
  PROVE  \/ /\ gpc' = "call"
            /\ \E m : GuestWrites(m) /\ m.calls = <<Head(calls)>>
         \/ gpc' = "summary"
<1>1. CASE calls = <<>>
  BY <1>1, Zenon DEF NextCall, GuestSends
<1>2. CASE calls # <<>>
  <2>1. GuestSends("tool_call", <<Head(calls)>>, FALSE, "call")
    BY <1>2, Zenon DEF NextCall
  <2>2. <<Head(calls)>> \in Seq(CallIds) /\ <<Head(calls)>> # <<>>
    BY <1>2, SMT
  <2>3. "tool_call" \in {"tool_call", "tool_result"}
    OBVIOUS
  <2>4. QED BY <2>1, <2>2, <2>3, CallSent, Zenon
<1>3. QED BY <1>1, <1>2, Zenon

LEMMA CallReported ==
  ASSUME TypeOK, Places, GuestDecided
  PROVE  Reports
<1>1. /\ GuestReads("call") /\ todo' = todo
      /\ approved' = (Head(toGuest).type = "tool_call_response" /\ Head(toGuest).flag)
  BY Zenon DEF GuestDecided
<1>2. PICK large \in BOOLEAN : GuestSends("tool_result", <<Head(todo)>>, large, "result")
  BY Zenon DEF GuestDecided
<1>3. GuestTakes("call") /\ NodeKept
  BY <1>1, GuestRead
<1>4. guestOut > 0 /\ todo # <<>>
  <2>1. "call" \in Awaiting
    BY SMT DEF Awaiting
  <2>2. QED BY <1>3, <2>1, Zenon DEF Places, GuestTakes
<1>5. <<Head(todo)>> \in Seq(CallIds) /\ <<Head(todo)>> # <<>>
  BY <1>4, SMT DEF TypeOK
<1>6. "tool_result" \in {"tool_call", "tool_result"}
  OBVIOUS
<1>7. gpc' = "result" /\ \E m : GuestWrites(m) /\ m.calls = <<Head(todo)>>
  BY <1>2, <1>4, <1>5, <1>6, CallSent, Zenon
<1>8. ASSUME Head(toGuest).type = "tool_call_response", Head(toGuest).flag
      PROVE  approved'
  BY <1>1, <1>8, Zenon
<1>9. QED BY <1>1, <1>3, <1>7, <1>8, Zenon DEF Reports

(* Where no call is in hand, a step that leaves the guest in place, or     *)
(* moves it on, touches none.                                              *)
LEMMA NodePasses ==
  ASSUME outstanding' = outstanding, GuestKept,
         Running => gpc \notin {"call", "result"},
         toNode' = toNode \/ (toNode # <<>> /\ toNode' = Tail(toNode)),
         nodeNext' = nodeNext \/ nodeNext' = nodeNext + 1
  PROVE  Passes
<1>1. gpc' = gpc /\ guestOut' = guestOut /\ approved' = approved
  BY Zenon DEF GuestKept
<1>2. Running' => gpc' \notin {"call", "result"}
  BY <1>1, Zenon DEF Running
<1>3. Running' => gpc # "call" /\ gpc # "result"
  BY <1>1, <1>2, Zenon
<1>4. QED BY <1>1, <1>2, <1>3, Zenon DEF Passes

LEMMA GuestPasses ==
  ASSUME NodeKept, gpc \notin {"call", "result"}, gpc' \notin {"call", "result"},
         ~Running' => approved' = approved /\ guestOut' = guestOut /\ toNode' = toNode
  PROVE  Passes
<1>1. outstanding' = outstanding /\ nodeNext' = nodeNext
  BY Zenon DEF NodeKept
<1>2. QED BY <1>1, Zenon DEF Passes

LEMMA NodeCalls ==
  ASSUME Inv, NodeStep, npc' # "ended"
  PROVE  Decides \/ Takes \/ Passes
<1>1. TypeOK /\ Numbers /\ Places /\ Phase
  BY Zenon DEF Inv
<1>2. CASE NodeDecides BY <1>1, <1>2, CallDecided
<1>3. CASE NodeTakesResult BY <1>1, <1>3, ResultTaken
<1>4. CASE NodeStart \/ NodePrompts
  <2>1. /\ npc = "start" \/ npc = "prompt"
        /\ outstanding' = outstanding /\ nodeNext' = nodeNext /\ toNode' = toNode
        /\ UNCHANGED guestVars
    BY <1>4, Zenon DEF NodeStart, NodePrompts
  <2>2. Running => gpc \notin {"call", "result"}
    BY <1>1, <2>1, SMT DEF Phase, Flight
  <2>3. QED BY <2>1, <2>2, GuestKeeps, NodePasses
<1>5. CASE NodeHandshake \/ NodeInfers \/ NodeAnswers
  <2>1. PICK type \in {"handshake", "llm_request", "agent_response"} :
          NodeAccepts(type) /\ outstanding' = outstanding
    BY <1>5, Zenon DEF NodeHandshake, NodeInfers, NodeAnswers
  <2>2. NodeTakes(type) /\ GuestKept
    BY <1>1, <2>1, NodeAccepted
  <2>3. ASSUME Running PROVE gpc \notin {"call", "result"}
    <3>1. gpc \in Awaiting /\ type = Request(gpc)
      BY <2>2, <2>3, Awaited
    <3>2. /\ "tool_call" \notin {"handshake", "llm_request", "agent_response"}
          /\ "tool_result" \notin {"handshake", "llm_request", "agent_response"}
      BY SMT
    <3>3. QED BY <2>1, <3>1, <3>2, Letters, Zenon
  <2>4. /\ toNode # <<>> /\ toNode' = Tail(toNode) /\ nodeNext' = nodeNext + 1
    BY <2>2, Zenon DEF NodeTakes
  <2>5. QED BY <2>1, <2>2, <2>3, <2>4, NodePasses
<1>6. CASE NodeTimeout \/ NodeCap \/ NodeRaises \/ NodeEof \/ NodeRejects
  BY <1>6, Zenon DEF NodeTimeout, NodeCap, NodeCutsOff, NodeRaises, NodeEof, NodeRejects,
     NodeEndsInSilence, NodeEnds
<1>7. QED BY <1>2, <1>3, <1>4, <1>5, <1>6, Zenon DEF NodeStep, NodeReads

LEMMA GuestCalls ==
  ASSUME Inv, GuestStep \/ GuestDies
  PROVE  Picks \/ Reports \/ Passes
<1>1. TypeOK /\ Places
  BY Zenon DEF Inv
<1>2. CASE GuestDecided BY <1>1, <1>2, CallReported
<1>3. CASE GuestReported
  <2>1. /\ GuestReads("result") /\ todo' = Tail(todo) /\ NextCall(Tail(todo))
    BY <1>3, Zenon DEF GuestReported
  <2>2. GuestTakes("result") /\ NodeKept
    BY <1>1, <2>1, GuestRead
  <2>3. guestOut > 0 /\ todo # <<>>
    <3>1. "result" \in Awaiting
      BY SMT DEF Awaiting
    <3>2. QED BY <1>1, <2>2, <3>1, Zenon DEF Places, GuestTakes
  <2>4. Tail(todo) \in Seq(CallIds)
    BY <1>1, <2>3, SMT DEF TypeOK
  <2>5. \/ gpc' = "call" /\ \E m : GuestWrites(m) /\ m.calls = <<Head(todo')>>
        \/ gpc' = "summary"
    BY <1>1, <2>1, <2>3, <2>4, CallPicked, Zenon
  <2>6. CASE gpc' = "summary"
    <3>1. gpc = "result" /\ "summary" \notin {"call", "result"} /\ gpc # "call" /\ Running'
      BY <2>2, <2>6, SMT DEF GuestTakes, Running
    <3>2. outstanding' = outstanding
      BY <2>2, Zenon DEF NodeKept
    <3>3. QED BY <2>2, <2>6, <3>1, <3>2, Zenon DEF Passes
  <2>7. QED BY <2>2, <2>5, <2>6, Zenon DEF Picks
<1>4. CASE GuestInferred
  <2> DEFINE calls == Head(toGuest).calls
  <2>1. /\ GuestReads("infer") /\ approved' = approved
        /\ \/ gpc' = "respond"
           \/ todo' = calls /\ NextCall(calls)
           \/ gpc' = "failed" /\ guestOut' = guestOut /\ toNode' = toNode
    BY <1>4, Zenon DEF GuestInferred, GuestFails, GuestSends
  <2>2. GuestTakes("infer") /\ NodeKept /\ calls \in Seq(CallIds)
    BY <1>1, <2>1, GuestRead
  <2>3. guestOut > 0
    <3>1. "infer" \in Awaiting
      BY SMT DEF Awaiting
    <3>2. QED BY <1>1, <2>2, <3>1, Zenon DEF Places, GuestTakes
  <2>4. CASE gpc' = "respond" \/ gpc' = "summary"
    <3>1. gpc \notin {"call", "result"} /\ gpc' \notin {"call", "result"} /\ Running'
      BY <2>2, <2>4, SMT DEF GuestTakes, Running
    <3>2. QED BY <2>2, <3>1, GuestPasses
  <2>5. CASE todo' = calls /\ NextCall(calls)
    <3>1. \/ gpc' = "call" /\ \E m : GuestWrites(m) /\ m.calls = <<Head(todo')>>
          \/ gpc' = "summary"
      BY <1>1, <2>2, <2>3, <2>5, CallPicked, Zenon
    <3>2. QED BY <2>2, <2>4, <3>1, Zenon DEF Picks
  <2>6. CASE gpc' = "failed" /\ guestOut' = guestOut /\ toNode' = toNode
    <3>1. gpc \notin {"call", "result"} /\ gpc' \notin {"call", "result"}
      BY <2>2, <2>6, SMT DEF GuestTakes
    <3>2. QED BY <2>1, <2>2, <2>6, <3>1, GuestPasses
  <2>7. QED BY <2>1, <2>4, <2>5, <2>6, Zenon
<1>5. CASE GuestAccepts \/ GuestHandshaken \/ GuestTurnStarts \/ GuestSummarized \/ GuestResponded
  <2>1. PICK from \in {"init", "handshake", "idle", "summary", "respond"} :
          /\ GuestReads(from) /\ approved' = approved
          /\ \/ gpc' \in {"handshake", "idle", "infer", "respond"}
             \/ gpc' \in {"done", "failed"} /\ guestOut' = guestOut /\ toNode' = toNode
    BY <1>5, Zenon DEF GuestAccepts, GuestHandshaken, GuestTurnStarts, GuestSummarized,
       GuestResponded, GuestFails, GuestSends
  <2>2. GuestTakes(from) /\ NodeKept
    BY <1>1, <2>1, GuestRead
  <2>3. gpc = from
    BY <2>2, Zenon DEF GuestTakes
  <2>4. gpc \notin {"call", "result"} /\ gpc' \notin {"call", "result"}
    BY <2>1, <2>3, SMT
  <2>5. ASSUME ~Running' PROVE guestOut' = guestOut /\ toNode' = toNode
    <3>1. gpc' \in {"done", "failed", "dead"}
      BY <2>5, Zenon DEF Running
    <3>2. gpc' \notin {"handshake", "idle", "infer", "respond"}
      BY <3>1, SMT
    <3>3. QED BY <2>1, <3>2, Zenon
  <2>6. QED BY <2>1, <2>2, <2>4, <2>5, GuestPasses
<1>6. CASE GuestRejects \/ GuestDies
  <2>1. /\ gpc' \in {"failed", "dead"} /\ UNCHANGED nodeVars
        /\ approved' = approved /\ guestOut' = guestOut /\ toNode' = toNode
    BY <1>6, Zenon DEF GuestRejects, GuestDies
  <2>2. outstanding' = outstanding /\ nodeNext' = nodeNext
    BY <2>1, NodeKeeps, Zenon DEF NodeKept
  <2>3. ~Running'
    BY <2>1, SMT DEF Running
  <2>4. QED BY <2>1, <2>2, <2>3, Zenon DEF Passes
<1>7. QED BY <1>2, <1>3, <1>4, <1>5, <1>6, Zenon DEF GuestStep

LEMMA Calls ==
  ASSUME Inv, [Next]_vars, npc' # "ended"
  PROVE  Decides \/ Takes \/ Picks \/ Reports \/ Passes \/ Repeats \/ Idles
<1>1. CASE NodeStep BY <1>1, NodeCalls, Zenon
<1>2. CASE GuestStep \/ GuestDies BY <1>2, GuestCalls, Zenon
<1>3. CASE PathRepeats
  <2>1. /\ ~faulted /\ faulted' = TRUE /\ UNCHANGED nodeVars /\ UNCHANGED guestVars
        /\ \/ /\ toNode # <<>> /\ toNode' = Append(toNode, toNode[Len(toNode)])
              /\ toGuest' = toGuest
           \/ /\ toGuest # <<>> /\ toGuest' = Append(toGuest, toGuest[Len(toGuest)])
              /\ toNode' = toNode
    BY <1>3, Zenon DEF PathRepeats
  <2>2. QED BY <2>1, NodeKeeps, GuestKeeps, Zenon DEF Repeats
<1>4. CASE UNCHANGED vars
  <2>1. /\ UNCHANGED nodeVars /\ UNCHANGED guestVars
        /\ toNode' = toNode /\ toGuest' = toGuest /\ faulted' = faulted
    BY <1>4, Zenon DEF vars, nodeVars, guestVars
  <2>2. TypeOK
    BY Zenon DEF Inv
  <2>3. QED BY <2>1, <2>2, NodeKeeps, GuestKeeps, Zenon DEF Idles, TypeOK
<1>5. QED BY <1>1, <1>2, <1>3, <1>4, Zenon DEF Next

(* While the guest finds a hop, the Node has answered all it was asked.    *)
LEMMA Settled ==
  ASSUME Inv, npc # "ended", Running, NEW from, GuestTakes(from)
  PROVE  guestOut = nodeNext
<1>1. guestNext < nodeOut
  BY Found
<1>2. Phase /\ nodeNext \in Nat /\ guestOut \in Nat /\ nodeOut \in Nat /\ guestNext \in Nat
  BY Zenon DEF Inv, TypeOK
<1>3. QED BY <1>1, <1>2, SMT DEF Phase, Flight

(* A session that can still be called to account could be before.          *)
LEMMA AccountableBefore ==
  ASSUME Inv, [Next]_vars, Accountable'
  PROVE  Accountable
<1>1. npc' # "ended" /\ "tool_result_too_large" \notin flags'
  BY Zenon DEF Accountable
<1>2. flags \subseteq flags' /\ npc # "ended"
  <2>1. "start" # "ended" /\ "read" # "ended" /\ "prompt" # "ended"
    BY SMT
  <2>2. CASE NodeSteps
    BY <2>1, <2>2, Zenon DEF NodeSteps, Starts, Closes, Answering, Answers, Leaves, Prompts,
       Dismisses, PromptKept, NodeTakes, Raises
  <2>3. CASE GuestSteps \/ Repeats \/ Idles
    BY <1>1, <2>3, Zenon DEF GuestSteps, Repeats, Idles, NodeKept
  <2>4. QED BY <2>2, <2>3, Steps, Zenon
<1>3. QED BY <1>1, <1>2, Zenon DEF Accountable

LEMMA NumbersAreNat ==
  ASSUME NEW types, NEW chan \in Seq(Hop(types)), NEW x \in Hops(chan)
  PROVE  x.seq \in Nat
<1>1. PICK i \in 1..Len(chan) : x = chan[i]
  BY SMT DEF Hops
<1>2. x \in Hop(types)
  BY <1>1, SMT
<1>3. QED BY <1>2, SMT DEF Hop

(* What was under way to the Node and is still ahead of it.                *)
LEMMA StillAhead ==
  ASSUME Inv, toNode' = toNode \/ (toNode # <<>> /\ toNode' = Tail(toNode)),
         nodeNext' = nodeNext \/ nodeNext' = nodeNext + 1,
         NEW x \in Hops(toNode'), x.seq >= nodeNext'
  PROVE  x \in Hops(toNode) /\ x.seq >= nodeNext
<1>1. toNode \in Seq(Hop(GuestTypes)) /\ nodeNext \in Nat
  BY Zenon DEF Inv, TypeOK
<1>2. toNode # <<>> => Hops(Tail(toNode)) \subseteq Hops(toNode)
  BY <1>1, HopsTaken
<1>3. x \in Hops(toNode)
  BY <1>2, Zenon
<1>4. x.seq \in Nat
  BY <1>1, <1>3, NumbersAreNat
<1>5. x.seq >= nodeNext
  BY <1>1, <1>4, SMT
<1>6. QED BY <1>3, <1>5

(* The guest asks one thing at a time: what the Node takes is the last.    *)
LEMMA AllTaken ==
  ASSUME Inv, Accounted, Accountable, NEW type, NodeTakes(type), guestOut' = guestOut
  PROVE  /\ guestOut' <= nodeNext' + 1
         /\ \A x \in Hops(toNode') : ~(x.seq >= nodeNext')
<1>1. /\ guestOut \in Nat /\ nodeNext \in Nat /\ toNode \in Seq(Hop(GuestTypes))
  BY Zenon DEF Inv, TypeOK
<1>2. toNode # <<>> /\ toNode' = Tail(toNode) /\ nodeNext' = nodeNext + 1
  BY Zenon DEF NodeTakes
<1>3. guestOut <= nodeNext + 1
  BY Zenon DEF Accounted
<1>4. ASSUME NEW x \in Hops(toNode') PROVE ~(x.seq >= nodeNext')
  <2>1. x \in Hops(toNode)
    BY <1>1, <1>2, HopsTaken
  <2>2. x.seq \in Nat
    BY <1>1, <2>1, NumbersAreNat
  <2>3. x.seq < guestOut
    BY <2>1, Zenon DEF Inv, Numbers
  <2>4. QED BY <1>1, <1>2, <1>3, <2>2, <2>3, SMT
<1>5. QED BY <1>1, <1>2, <1>3, <1>4, SMT

(* The call that the Node takes, from a guest that runs, is the one in     *)
(* hand.                                                                   *)
LEMMA TakenInHand ==
  ASSUME Inv, Accounted, Accountable, Running, NEW type, NodeTakes(type), gpc \in {"call", "result"}
  PROVE  Head(toNode).calls[1] = Head(todo) /\ outstanding \subseteq {Head(todo)}
<1>1. toNode # <<>> /\ Head(toNode).seq = nodeNext
  BY Zenon DEF NodeTakes
<1>2. Head(toNode) \in Hops(toNode)
  BY <1>1, HopsTaken DEF Inv, TypeOK
<1>3. Head(toNode).seq >= nodeNext
  <2>1. nodeNext \in Nat
    BY Zenon DEF Inv, TypeOK
  <2>2. QED BY <1>1, <2>1, SMT
<1>4. QED BY <1>2, <1>3, Zenon DEF Accounted, Agreed, InHand

(* The Node decides on the call in hand, of which nothing was known.       *)
LEMMA AccountDecided ==
  ASSUME Inv, Accounted, Accountable, Decides
  PROVE  Accounted'
<1>1. /\ NodeTakes("tool_call") /\ gpc' = gpc /\ guestOut' = guestOut /\ guestNext' = guestNext
      /\ todo' = todo /\ nodeNext' = nodeNext + 1
  BY Zenon DEF Decides, GuestKept, NodeTakes
<1>2. guestOut' <= nodeNext' + 1 /\ \A x \in Hops(toNode') : ~(x.seq >= nodeNext')
  BY <1>1, AllTaken
<1>3. ASSUME Running' PROVE Agreed'
  <2>1. Running
    BY <1>1, <1>3, Zenon DEF Running
  <2>2. /\ gpc \in Awaiting /\ "tool_call" = Request(gpc)
        /\ guestOut = nodeNext + 1 /\ nodeOut = guestNext
    BY <1>1, <2>1, Awaited
  <2>3. gpc = "call"
    BY <2>2, SMT DEF Awaiting, Request
  <2>4. outstanding = {}
    <3>1. nodeNext \in Nat
      BY Zenon DEF Inv, TypeOK
    <3>2. guestOut # nodeNext
      BY <2>2, <3>1, SMT
    <3>3. QED BY <2>1, <2>3, <3>2, Zenon DEF Accounted, Agreed
  <2>5. Head(toNode).calls[1] = Head(todo)
    BY <1>1, <2>1, <2>3, TakenInHand, Zenon
  <2>6. PICK m : /\ NodeWrites(m)
                 /\ \/ outstanding' = outstanding
                    \/ outstanding' = outstanding \cup {Head(toNode).calls[1]} /\ m.flag
    BY Zenon DEF Decides
  <2>7. outstanding' \subseteq InHand'
    BY <1>1, <2>3, <2>4, <2>5, <2>6, Zenon DEF InHand
  <2>8. ASSUME outstanding' # {}, NEW x \in Hops(toGuest'), x.seq >= guestNext'
        PROVE  x.flag
    <3>1. m.flag
      BY <2>4, <2>6, <2>8, Zenon
    <3>2. /\ m \in Hop(NodeTypes) /\ toGuest' = Append(toGuest, m)
          /\ toGuest \in Seq(Hop(NodeTypes))
      BY <2>6, Zenon DEF NodeWrites, Inv, TypeOK
    <3>3. Hops(toGuest') = Hops(toGuest) \cup {m}
      BY <3>2, HopsSent
    <3>4. ASSUME x \in Hops(toGuest) PROVE FALSE
      <4>1. x.seq < nodeOut
        BY <3>4, Zenon DEF Inv, Numbers
      <4>2. x.seq \in Nat /\ nodeOut \in Nat
        BY <3>2, <3>4, NumbersAreNat DEF Inv, TypeOK
      <4>3. QED BY <1>1, <2>2, <2>8, <4>1, <4>2, SMT
    <3>5. QED BY <2>8, <3>1, <3>3, <3>4, Zenon
  <2>9. gpc' # "result" /\ ~(guestOut' # nodeNext')
    <3>1. "call" # "result"
      BY SMT
    <3>2. QED BY <1>1, <2>2, <2>3, <3>1, Zenon
  <2>10. QED BY <1>2, <2>7, <2>8, <2>9, Zenon DEF Agreed
<1>4. QED BY <1>2, <1>3, Zenon DEF Accounted, Vouched

(* The Node takes the result of the call in hand, and knows of none then.  *)
LEMMA AccountTaken ==
  ASSUME Inv, Accounted, Accountable, Takes
  PROVE  Accounted'
<1>1. /\ NodeTakes("tool_result") /\ gpc' = gpc /\ guestOut' = guestOut
      /\ nodeNext' = nodeNext + 1
  BY Zenon DEF Takes, GuestKept, NodeTakes
<1>2. guestOut' <= nodeNext' + 1 /\ \A x \in Hops(toNode') : ~(x.seq >= nodeNext')
  BY <1>1, AllTaken
<1>3. ASSUME Running', Accountable' PROVE Agreed'
  <2>1. Running
    BY <1>1, <1>3, Zenon DEF Running
  <2>2. gpc \in Awaiting /\ "tool_result" = Request(gpc) /\ guestOut = nodeNext + 1
    BY <1>1, <2>1, Awaited
  <2>3. gpc = "result"
    BY <2>2, SMT DEF Awaiting, Request
  <2>4. Head(toNode).calls[1] = Head(todo) /\ outstanding \subseteq {Head(todo)}
    BY <1>1, <2>1, <2>3, TakenInHand, Zenon
  <2>5. outstanding' = outstanding \ {Head(toNode).calls[1]}
    BY <1>3, Zenon DEF Takes, Accountable
  <2>6. outstanding' = {}
    BY <2>4, <2>5, Zenon
  <2>7. gpc' # "call"
    <3>1. "call" # "result"
      BY SMT
    <3>2. QED BY <1>1, <2>3, <3>1, Zenon
  <2>8. QED BY <1>2, <2>6, <2>7, Zenon DEF Agreed
<1>4. QED BY <1>2, <1>3, Zenon DEF Accounted, Vouched

(* A request of the guest is all that is ahead of the Node.                *)
LEMMA OneRequest ==
  ASSUME Inv, npc # "ended", Running, NEW from, GuestTakes(from), NodeKept,
         NEW m, GuestWrites(m)
  PROVE  /\ guestOut = nodeNext /\ guestOut' = nodeNext' + 1 /\ guestOut' # nodeNext'
         /\ \A x \in Hops(toNode') : x.seq >= nodeNext' => x = m
<1>1. guestOut = nodeNext
  BY Settled
<1>2. /\ guestOut \in Nat /\ nodeNext \in Nat /\ toNode \in Seq(Hop(GuestTypes))
  BY Zenon DEF Inv, TypeOK
<1>3. /\ m \in Hop(GuestTypes) /\ toNode' = Append(toNode, m) /\ guestOut' = guestOut + 1
      /\ nodeNext' = nodeNext
  BY Zenon DEF GuestWrites, NodeKept
<1>4. Hops(toNode') = Hops(toNode) \cup {m}
  BY <1>2, <1>3, HopsSent
<1>5. ASSUME NEW x \in Hops(toNode') , x.seq >= nodeNext' PROVE x = m
  <2>1. ASSUME x \in Hops(toNode) PROVE FALSE
    <3>1. x.seq \in Nat
      BY <1>2, <2>1, NumbersAreNat
    <3>2. x.seq < guestOut
      BY <2>1, Zenon DEF Inv, Numbers
    <3>3. QED BY <1>1, <1>2, <1>3, <1>5, <3>1, <3>2, SMT
  <2>2. QED BY <1>4, <2>1, Zenon
<1>6. guestOut' = nodeNext' + 1 /\ guestOut' # nodeNext'
  BY <1>1, <1>2, <1>3, SMT
<1>7. QED BY <1>1, <1>5, <1>6

(* The guest picks a call when no other is in hand.                        *)
LEMMA AccountPicked ==
  ASSUME Inv, Accounted, Accountable, Picks
  PROVE  Accounted'
<1>0. PICK from \in {"infer", "result"} : GuestTakes(from)
  BY Zenon DEF Picks
<1>1. PICK m : GuestWrites(m) /\ m.calls = <<Head(todo')>>
  BY Zenon DEF Picks
<1>2. gpc = from /\ gpc' = "call" /\ NodeKept /\ outstanding' = outstanding /\ npc # "ended"
  BY <1>0, <1>1, Zenon DEF GuestTakes, Picks, NodeKept, Accountable
<1>3. Running
  BY <1>0, <1>1, <1>2, SMT DEF Running
<1>4. /\ guestOut = nodeNext /\ guestOut' = nodeNext' + 1 /\ guestOut' # nodeNext'
      /\ \A x \in Hops(toNode') : x.seq >= nodeNext' => x = m
  BY <1>0, <1>1, <1>2, <1>3, OneRequest
<1>5. outstanding' = {}
  <2>1. CASE gpc = "infer"
    <3>1. InHand = {}
      BY <2>1, SMT DEF InHand
    <3>2. QED BY <1>2, <1>3, <3>1, Zenon DEF Accounted, Agreed
  <2>2. CASE gpc = "result"
    BY <1>2, <1>3, <1>4, <2>2, Zenon DEF Accounted, Agreed
  <2>3. QED BY <1>0, <1>1, <1>2, <2>1, <2>2, Zenon
<1>6. m.calls[1] = Head(todo')
  BY <1>0, <1>1, SMT
<1>7. gpc' # "result"
  BY <1>2, SMT
<1>8. guestOut' <= nodeNext' + 1
  <2>1. nodeNext \in Nat /\ nodeNext' = nodeNext
    BY <1>2, Zenon DEF NodeKept, Inv, TypeOK
  <2>2. QED BY <1>4, <2>1, SMT
<1>9. Agreed'
  BY <1>4, <1>5, <1>6, <1>7, Zenon DEF Agreed
<1>10. QED BY <1>5, <1>8, <1>9, Zenon DEF Accounted, Vouched

(* The guest reports on the call in hand, as approved if the Node approved *)
(* it.                                                                     *)
LEMMA AccountReported ==
  ASSUME Inv, Accounted, Accountable, Reports
  PROVE  Accounted'
<1>1. PICK m : GuestWrites(m) /\ m.calls = <<Head(todo)>>
  BY Zenon DEF Reports
<1>2. /\ GuestTakes("call") /\ gpc = "call" /\ gpc' = "result" /\ NodeKept /\ todo' = todo
      /\ outstanding' = outstanding /\ npc # "ended"
  BY Zenon DEF GuestTakes, Reports, NodeKept, Accountable
<1>3. Running
  BY <1>2, SMT DEF Running
<1>4. /\ guestOut' = nodeNext' + 1 /\ guestOut' # nodeNext'
      /\ \A x \in Hops(toNode') : x.seq >= nodeNext' => x = m
  BY <1>1, <1>2, <1>3, OneRequest
<1>5. m.calls[1] = Head(todo)
  BY <1>1, SMT
<1>6. outstanding' \subseteq InHand'
  BY <1>2, <1>3, Zenon DEF Accounted, Agreed, InHand
<1>7. ASSUME outstanding # {} PROVE approved'
  <2>1. /\ Due(gpc, CutOff, Head(toGuest).type, 0) /\ Head(toGuest) \in Hops(toGuest)
    BY <1>2, <1>3, Found
  <2>2. Head(toGuest).seq >= guestNext
    <3>1. Head(toGuest).seq = guestNext /\ guestNext \in Nat
      BY <1>2, Zenon DEF GuestTakes, Inv, TypeOK
    <3>2. QED BY <3>1, SMT
  <2>3. Head(toGuest).flag
    BY <1>2, <1>3, <1>7, <2>1, <2>2, Zenon DEF Accounted, Agreed
  <2>4. Head(toGuest).type = "tool_call_response"
    <3>1. ~CutOff /\ 0 # 1 /\ "call" # "init" /\ "call" # "idle"
      <4>1. ~CutOff
        BY <1>2, Zenon DEF CutOff
      <4>2. QED BY <4>1, SMT
    <3>2. Replies("call") = {"tool_call_response"}
      BY SMT DEF Replies
    <3>3. QED BY <1>2, <2>1, <3>1, <3>2, Zenon DEF Due
  <2>5. QED BY <2>3, <2>4, Zenon DEF Reports
<1>8. Vouched'
  BY <1>2, <1>4, <1>7, Zenon DEF Vouched
<1>9. gpc' # "call"
  BY <1>2, SMT
<1>10. Agreed'
  BY <1>2, <1>4, <1>5, <1>6, <1>9, Zenon DEF Agreed
<1>11. guestOut' <= nodeNext' + 1
  <2>1. nodeNext \in Nat /\ nodeNext' = nodeNext
    BY <1>2, Zenon DEF NodeKept, Inv, TypeOK
  <2>2. QED BY <1>4, <2>1, SMT
<1>12. QED BY <1>8, <1>10, <1>11, Zenon DEF Accounted

LEMMA RunningBefore ==
  ASSUME Inv, [Next]_vars, Running'
  PROVE  Running
<1>1. CASE NodeSteps \/ Repeats \/ Idles
  BY <1>1, Zenon DEF NodeSteps, Repeats, Idles, GuestKept, Running
<1>2. CASE Asking \/ Moving \/ Failing
  <2>1. PICK from \in {"init"} \cup Awaiting \cup {"idle"} : GuestTakes(from)
    BY <1>2, Zenon DEF Asking, Asks, Moving, Moves, Failing, Awaiting
  <2>2. gpc = from
    BY <2>1, Zenon DEF GuestTakes
  <2>3. QED BY <2>1, <2>2, SMT DEF Running, Awaiting
<1>3. CASE Stops
  BY <1>3, Zenon DEF Stops
<1>4. QED BY <1>1, <1>2, <1>3, Steps, Zenon DEF GuestSteps

(* A step that touches no call.                                            *)
LEMMA AccountPassed ==
  ASSUME Inv, [Next]_vars, Accounted, Accountable, Accountable', Passes
  PROVE  Accounted'
<1>1. npc # "ended" /\ npc' # "ended" /\ outstanding' = outstanding
  BY Zenon DEF Accountable, Passes
<1>2. CASE Running'
  <2>1. Running /\ gpc' \notin {"call", "result"} /\ gpc # "call"
    BY <1>2, RunningBefore, Zenon DEF Passes
  <2>2. outstanding = {}
    <3>1. CASE gpc = "result"
      <4>1. GuestTakes("result")
        BY <1>2, <3>1, Zenon DEF Passes
      <4>2. guestOut = nodeNext
        BY <1>1, <2>1, <4>1, Settled
      <4>3. QED BY <2>1, <3>1, <4>2, Zenon DEF Accounted, Agreed
    <3>2. CASE gpc # "result"
      <4>1. InHand = {}
        BY <2>1, <3>2, Zenon DEF InHand
      <4>2. QED BY <2>1, <4>1, Zenon DEF Accounted, Agreed
    <3>3. QED BY <3>1, <3>2
  <2>3. guestOut' <= nodeNext' + 1
    <3>1. Phase'
      BY InvStep, Zenon DEF Inv
    <3>2. nodeNext' \in Nat
      BY InvStep, Zenon DEF Inv, TypeOK
    <3>3. guestOut' = nodeNext' + 0 \/ guestOut' = nodeNext' + 1
      BY <1>1, <1>2, <3>1, Zenon DEF Phase, Flight
    <3>4. QED BY <3>2, <3>3, SMT
  <2>4. Agreed' /\ Vouched'
    BY <1>1, <2>1, <2>2, Zenon DEF Agreed, Vouched
  <2>5. QED BY <2>3, <2>4, Zenon DEF Accounted
<1>3. CASE ~Running'
  <2>1. /\ approved' = approved /\ guestOut' = guestOut
        /\ toNode' = toNode \/ (toNode # <<>> /\ toNode' = Tail(toNode))
        /\ nodeNext' = nodeNext \/ nodeNext' = nodeNext + 1
    BY <1>3, Zenon DEF Passes
  <2>2. guestOut' <= nodeNext' + 1
    <3>1. guestOut <= nodeNext + 1 /\ guestOut \in Nat /\ nodeNext \in Nat
      BY Zenon DEF Accounted, Inv, TypeOK
    <3>2. QED BY <2>1, <3>1, SMT
  <2>3. \A x \in Hops(toNode') : x.seq >= nodeNext' => x \in Hops(toNode) /\ x.seq >= nodeNext
    BY <2>1, StillAhead
  <2>4. Vouched'
    BY <1>1, <2>1, <2>3, Zenon DEF Accounted, Vouched
  <2>5. QED BY <1>3, <2>2, <2>4, Zenon DEF Accounted
<1>4. QED BY <1>2, <1>3

(* Nor does the path, which only repeats what is under way.                *)
LEMMA AccountKept ==
  ASSUME Inv, Accounted, Accountable, Repeats \/ Idles
  PROVE  Accounted'
<1>1. /\ gpc' = gpc /\ todo' = todo /\ approved' = approved /\ outstanding' = outstanding
      /\ guestOut' = guestOut /\ guestNext' = guestNext /\ nodeNext' = nodeNext
      /\ toNode' = toNode \/ (toNode # <<>> /\ toNode' = Append(toNode, toNode[Len(toNode)]))
      /\ toGuest' = toGuest \/ (toGuest # <<>> /\ toGuest' = Append(toGuest, toGuest[Len(toGuest)]))
  BY Zenon DEF Repeats, Idles, NodeKept, GuestKept
<1>2. toNode \in Seq(Hop(GuestTypes)) /\ toGuest \in Seq(Hop(NodeTypes))
  BY Zenon DEF Inv, TypeOK
<1>3. /\ toNode # <<>> => Hops(Append(toNode, toNode[Len(toNode)])) = Hops(toNode)
      /\ toGuest # <<>> => Hops(Append(toGuest, toGuest[Len(toGuest)])) = Hops(toGuest)
  BY <1>2, HopsRepeated
<1>4. Hops(toNode') = Hops(toNode) /\ Hops(toGuest') = Hops(toGuest)
  BY <1>1, <1>3, Zenon
<1>5. guestOut' <= nodeNext' + 1
  BY <1>1, Zenon DEF Accounted
<1>6. Vouched'
  BY <1>1, <1>4, Zenon DEF Accounted, Vouched
<1>7. InHand' = InHand /\ (Running' => Running)
  BY <1>1, Zenon DEF InHand, Running
<1>8. Running' => Agreed'
  BY <1>1, <1>4, <1>7, Zenon DEF Accounted, Agreed
<1>9. QED BY <1>5, <1>6, <1>8, Zenon DEF Accounted

LEMMA AccountedStep ==
  ASSUME Inv, [Next]_vars, Accounted
  PROVE  Accounted'
<1>1. SUFFICES ASSUME Accountable' PROVE Accounted'
  BY Zenon DEF Accounted
<1>2. Accountable /\ npc' # "ended"
  BY <1>1, AccountableBefore, Zenon DEF Accountable
<1>3. CASE Decides BY <1>2, <1>3, AccountDecided
<1>4. CASE Takes BY <1>2, <1>4, AccountTaken
<1>5. CASE Picks BY <1>2, <1>5, AccountPicked
<1>6. CASE Reports BY <1>2, <1>6, AccountReported
<1>7. CASE Passes BY <1>1, <1>2, <1>7, AccountPassed
<1>8. CASE Repeats \/ Idles BY <1>2, <1>8, AccountKept
<1>9. QED BY <1>2, <1>3, <1>4, <1>5, <1>6, <1>7, <1>8, Calls, Zenon

LEMMA AccountedInit ==
  ASSUME Init
  PROVE  Accounted
<1>1. /\ guestOut = 0 /\ nodeNext = 0 /\ outstanding = {} /\ toNode = <<>> /\ gpc = "init"
  BY Zenon DEF Init
<1>2. guestOut <= nodeNext + 1
  BY <1>1, SMT
<1>3. gpc # "call" /\ gpc # "result"
  BY <1>1, SMT
<1>4. QED BY <1>1, <1>2, <1>3, Zenon DEF Accounted, Vouched, Agreed

(* What the Node takes as the result of an approved call is one, for a     *)
(* guest that reports on denied calls too and uses ids again.              *)
THEOREM ResultsApproved == Spec => AckedResultWasApproved
<1>1. Init => Accounted
  BY AccountedInit
<1>2. Inv /\ Accounted /\ [Next]_vars => Accounted'
  BY AccountedStep
<1>3. ASSUME Inv, Accounted, NodeTakesResult, outstanding' # outstanding,
             "tool_result_too_large" \notin flags
      PROVE  approved
  <2>1. NodeAccepts("tool_result")
    BY <1>3, Zenon DEF NodeTakesResult
  <2>2. NodeTakes("tool_result")
    BY <1>3, <2>1, NodeAccepted, Zenon DEF Inv
  <2>3. /\ npc = "read" /\ toNode # <<>> /\ Head(toNode).type = "tool_result"
        /\ Head(toNode).seq = nodeNext
    BY <2>2, Zenon DEF NodeTakes
  <2>4. Head(toNode) \in Hops(toNode)
    BY <1>3, <2>3, HopsTaken DEF Inv, TypeOK
  <2>5. Head(toNode).seq >= nodeNext /\ npc # "ended"
    <3>1. nodeNext \in Nat
      BY <1>3, Zenon DEF Inv, TypeOK
    <3>2. QED BY <2>3, <3>1, SMT
  <2>6. Head(toNode).calls[1] \in outstanding
    BY <1>3, Zenon DEF NodeTakesResult, Refuse
  <2>7. QED BY <1>3, <2>3, <2>4, <2>5, <2>6, Zenon DEF Accounted, Accountable, Vouched
<1>4. Inv /\ Accounted => [NodeTakesResult /\ outstanding' # outstanding =>
                             approved \/ "tool_result_too_large" \in flags]_vars
  BY <1>3, Zenon
<1>5. QED BY <1>1, <1>2, <1>4, Invariance, PTL DEF Spec, AckedResultWasApproved
=============================================================================
