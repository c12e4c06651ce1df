# Corvus-Node in TLA+

Specifications of Corvus-Node (`src/src/corvus_node`), the host service that
runs an AI agent in a Firecracker microVM and stands between the operator and
the guest. The modules model the code, not its documents; the documents are what
the code is compared with. Paths below are relative to `src/src/corvus_node/`
unless they start with `src/`.

| Module | Models | Lines of code it stands for |
| --- | --- | --- |
| `NodeControl` | the control plane: boots, stops, one chat at a time, two queues | `node/daemon.py`, the ends of `vm/launcher.py` and `node/session.py` it touches |
| `ControlContract` | what the control plane promises whoever starts and stops VMs at once, which `NodeControl` implements and `LaunchRules` uses | `node/daemon.py` |
| `NodeControlProofs`, `NodeControlSafety` | theorems about `NodeControl` | |
| `Launcher` | the task that runs one VM, its watchers and its clean-up | `launch_turn` in `vm/launcher.py` |
| `LaunchContract` | what that task promises, which `Launcher` implements and `NodeControl` uses | |
| `HopSession` | one guest session: both ends of the vsock hop | `node/session.py`, `runtime/*.py`, `protocol/mac.py` |
| `TurnContract` | what a session promises, which `HopSession` implements and `NodeControl` uses | |
| `Policy` | the filter every hop meets | `policy/engine.py`, `tools/paths.py`, `identity/principal.py` |
| `NodeService` | the Node as a service: pid file, socket, systemd unit, start, stop, update | `node/daemon.py`, `node/control.py`, `cli.py`, `src/packaging/corvus-node.service.in` |
| `Workspace` | the allowed folder and the three file tools, as operators | `node/workspace.py`, `tools/paths.py` |
| `AuditChain` | the hash chain of an audit file, as operators | `audit/store.py` |
| `ToolCalls` | the `tool_call` branch of a session over folder, filter and audit file | `node/session.py`, `audit/store.py` |
| `LaunchRules` | `launch.json` and the commands that read it, write it and start VMs with it | `node/settings.py`, `cli.py` |
| `LauncherProofs`, `HopSessionProofs`, `NodeServiceProofs`, `PolicyProofs`, `ToolCallsProofs`, `LaunchRulesProofs` | theorems about the modules they are named after | |
| `MCNodeControl`, `MCHopSession`, `MCPolicy`, `MCToolCalls`, `MCLaunchRules` | instances for TLC | |

Run a check with `tlc -config <run>.cfg <module>` and the proofs with
`tlapm <module>`; `PROJECT.json` lists the runs, maps each definition to its
lines, and lists the hazards the properties are aimed at.

## 1. Inventory

### Components, their state and their operations

- **Control plane** (`node/daemon.py`). One asyncio process. `ServeState` holds
  the launch configuration, the prompt and response queues, the events `ready`,
  `stop` and `shutdown`, the flag `chat_attached` and the task of the running VM.
  Operations: `status`, `settings_get`, `start`, `stop`, `shutdown`,
  `chat_attach` with its inner `user` and `stop`, SIGTERM. Correct when at most
  one VM runs and the Node knows it; at most one chat is attached; replies reach
  the chat that asked; every stop returns; every waiting chat is released.
- **Node process and runtime files** (`node/daemon.py`, `node/control.py`,
  `src/packaging/corvus-node.service.in`). A pid file and a socket in a directory
  that outlives the process. Operations: the start-up of `serve` (clear what is
  stale, write the pid, bind), its end (unlink both), `node_pid`,
  `start_daemon`, systemd's restart. Correct when the two files lead to the one
  serving Node, a stop stops it, and it comes back after a crash.
- **Launcher** (`vm/launcher.py`, `launch_turn`). Stages a jail directory, binds
  the vsock socket, starts the jailer, watches it and Firecracker, awaits the
  guest session, and cleans up in a `finally` of seven steps. Correct when the
  task ends with the first result, and leaves no process and no directory.
- **Guest session** (`node/session.py`, `NodeSession`). Handshake, message, byte,
  time and turn caps, outstanding tool calls, the streak of denials, the flags.
  Correct when each hop of the guest gets one reply, each query is answered or
  the session ends, and a result is taken only for an approved call.
- **Hop integrity** (`protocol/mac.py`). A sequence counter per direction and a
  key. Correct when an honest peer is never accused and a repeated hop never
  passes.
- **Guest runtime** (`runtime/turn.py`, `engines.py`, `wire.py`). The turn loop
  and four engines, each a request that waits for one reply.
- **Policy** (`policy/engine.py`, `tools/paths.py`, `identity/principal.py`).
  Stateless rules of a launch. Correct when nothing is allowed that the launch
  did not grant, and the LLM is shown what it may use.
- **Workspace tools** (`node/workspace.py`): `file_read`, `file_write`,
  `file_list` on the host, under the allowed root. Correct when they touch nothing
  outside it and a call that is refused changes nothing.
- **Audit log** (`audit/store.py`): a hash-chained file per VM, one store per
  connection. Correct when whatever took effect is on record first, `verify_chain`
  accepts what was written, and a change behind a running store's back shows.
- **Settings** (`node/settings.py`): `launch.json`, read and replaced by the CLI.
  Correct when no save is lost and a VM runs with the rules that were set.
- **Operator CLI** (`cli.py`, `node/chatview.py`, `node/info.py`,
  `node/update.py`): one blocking control connection per command.
- **Stand-ins**: `llm/stub.py`, `memory/service.py`, `gateway/*.py`.
- **Outside the Python package**: the GUI splash (`src/gui`), the guest image
  (`src/guest`), the installer (`src/packaging`).

### How they interact

The CLI speaks frames to the control plane over an AF_UNIX socket that the
runtime files lead to. `start` makes the control plane create the launch task;
the launcher starts the VM and, for each connection of the guest, a session. The
control plane and the session share two queues: a chat puts a prompt, the
session takes it, and the response comes back the same way; the sentinel `None`
closes either queue. The session calls back (`on_waiting_prompt`) when it waits
for a prompt, which sets `ready`. The guest and the session speak hops over
vsock; every hop of the guest that asks for something meets the policy.

### What is hard

- *Interleavings at every `await`.* `_stop_vm`, `_boot_vm` and the attach loop
  read the shared state again after they resume, when it may belong to another
  VM. This is what `NodeControl` is about.
- *Ends that cross*: a guest that dies while a chat waits, a boot timeout that
  races with the handshake, a stop in the middle of a turn.
- *A request-reply protocol with unsolicited ends*: a cap or a timeout puts a
  `session_end` where a reply is expected.
- *Crashes and restarts* between two writes to the runtime files, with
  `Restart=always` working against whoever stops the Node.
- *Files that others change meanwhile*: `launch.json` has no lock and is truncated
  before it is written; the operator moves links about in the folder the tools
  work on; the audit file outlives the store that writes it.

## 2. NodeControl

### State and steps

The code runs on one event loop, so an action is the code between two suspension
points. `pc[p]` says where a coroutine is suspended: a connection's handler
(`read` for its next frame, `boot` in `asyncio.wait`, one of the `stop...`
values in `_stop_vm`, `chat` in the attach loop, `await` in `responses.get()`) or
the coroutine `Main` of `serve_forever`. `job[p]` is the boot whose task or
queue it awaits: the code holds that reference on its stack. Boots are numbered;
each has its own queues, events, launch task and session. `cur` is the boot that
`state.boot_task`, `state.prompts` and `state.responses` belong to; they are
assigned and cleared together.

Facts of asyncio that the model keeps, because the properties turn on them:

- Awaiting a task that is done does not suspend: `StopVm` clears the state in the
  same step then (its second disjunct), and suspends otherwise.
- Between the end of a task and the resumption of those who await it other
  coroutines run. `StopResume` and `BootFailed` therefore act on the state of
  that later moment: this is how a stop forgets a VM it never stopped.
- A queue's getters are woken in order, but a newcomer's `get()` takes an item
  that lies in the queue before an older getter has resumed (`User`, `Deliver`).
- A handler that is suspended in `responses.get()` does not notice that its
  client is gone: `Disconnect` is possible in `read` and `chat` only.
- `cancel()` on the launch task takes effect where the task awaits. In the
  clean-up it may be swallowed or may cut the clean-up short (`Cancel`).

The launch task is abstracted to what the control plane can tell: `up`,
`reaping` (the `finally` clause), `done`, with the `outcome` the future got first
(`LaunchContract`; a task refused before its `try` passes through `reaping` too,
and its sentinel, which the code does not put, has no session to find it). A
`finally` clause that raises by itself (section 5) is not a step of this module.
The session is abstracted to the steps of `TurnContract`. It may be behind its launch
task: a cancellation that cuts `wait_closed` short (`vm/launcher.py:625`) ends the task
while the session still reads what the guest sent before it was killed. A session
that is left over in this way may shake hands late (`Handshake`), and a prompt that it takes is
lost with it (`TakePrompt`). Its handshake sets the ready event of the moment, which
may be that of the next boot; `ready[g]` therefore says whose session set the event
of boot *g* last.

### Client habits

The control plane does not survive arbitrary clients, so the constant `Allowed`
names what clients do. With `{}` clients are orderly: one lifecycle command at a
time, not while another chat idles at its prompt, and no chat attaches or types
while a command is in progress. That is one operator at one terminal. `overlap`
lets commands overlap, `open_chat` lets a command run while a chat is open
elsewhere, `late_chat` lets a chat attach or type during a command. Each
property is checked with the most habits under which it holds.

### What is checked

| Run | Habits | Properties | Size |
| --- | --- | --- | --- |
| `control_orderly` | none | `TypeOK`, `ExclusiveAttach`, `ReplyToAsker` | 3 connections, 2 boots, 2 turns; 462,006 states |
| `control_live` | none | `StopReleasesChat`, `ChatAnsweredWhileUp` | 2 connections, 2 boots, 2 turns; 273,714 states |
| `control_serial` | `open_chat`, `late_chat` | `OneGuest`, `StartOkMeansReady`, `StopAnswered` | 2 connections, 2 boots, 1 turn; 442,947 states |
| `control_any` | all | `AttachedHasChat`, `SentinelPending`, `ImplementsContract` | 2 connections, 2 boots, 1 turn; 1,151,448 states |
| `chat_hang` | none | `ChatAnswered` is violated | |
| `two_guests` | `overlap` | `OneGuest` is violated | |

Three connections are needed for the mix-ups of replies (one that asks, one that
stops, one that attaches late); two suffice for the rest (a command and a chat,
or two commands). Two boots are needed for every confusion of one VM with the
next; a third adds no new pair. One turn reaches the turn cap at once, two let a
session answer, wait and answer again. Queues need no bound: each entry costs a
step of a connection that then waits.

Deadlock is not checked: the Node may exit, and a handler may close every
connection.

### Fairness

`FairSpec` asserts weak fairness of what the event loop and the timeouts of the
code guarantee: a coroutine whose await is over resumes; a boot ends within
`READY_WAIT_SEC`; a turn in progress is answered or abandoned within
`TURN_TIMEOUT_SEC`; the clean-up goes on once it has begun (a guest that is
killed closes its connection). Nothing is assumed of clients, of a guest that has
not shaken hands, or of a VM, which may live for ever.

### The contract

`ControlContract` has three variables: the boots so far, the VM that `status`
reports as running, and for each client the VM whose end its stop waits for. A
start boots only if no VM is up; a stop that found VM *b* up is over only when *b*
is not, or another VM is; a VM ends for good. `ImplementsContract` maps `vm` to
the boot of `boot_task` while its launch task is not done, and `waits` to `job` of
those who are suspended in `_stop_vm`. It holds for every habit, the orphaned VM
of `two_guests` included: what the Node forgets it does not report as running.

### Findings

- *`chat_hang`.* When the guest ends by itself, the launcher puts the sentinel in
  `prompts` only (`vm/launcher.py:588`). A chat in `responses.get()` waits until
  somebody sends a stop. `AVAILABLE.md` promises `error stopped`.
- *`two_guests`.* `_stop_vm` clears `boot_task` after its await, whatever it holds
  by then (`node/daemon.py:148`). A start in between is orphaned. Under the same
  habit `StopAnswered` fails too; `control_serial` with `overlap` added shows it.
- A start whose guest is slow is cancelled at its deadline. If the cancellation cuts
  the clean-up short, the session of that guest is left over, and when its handshake
  is read after the next start has begun, it sets the event of that start
  (`node/daemon.py:121`). `start_ok` is then written for a guest that has not shaken
  hands, and no timeout is left that would end a guest that never does. No commands need to overlap
  for this. `StartOkMeansReady` names the case (`SetByAnother`). As long as such a
  guest neither shakes hands nor dies (`Unmet`), a stop of it waits for ever, and so does
  a chat; `StopAnswered` and `ChatAnsweredWhileUp` name that.
- Responses carry no name of the prompt they answer. A chat that attaches while a
  stop waits for a turn takes the answer to the prompt before. `control_orderly`
  with `late_chat` added shows `ReplyToAsker` violated; no run is devoted to it.
- With `open_chat` two chats can be coupled to one VM: a stop clears
  `chat_attached` (`node/daemon.py:151`) while the attach loop of an idle chat
  stays, and the CLI's promise that an open chat will disconnect (`cli.py:577`)
  is not kept. No run is devoted to it; `control_orderly` with `open_chat` added
  shows it.

## 3. HopSession

### State and steps

The host's `NodeSession.serve` and the guest's turn loop, each with the sequence
counters of its `HopMac`, over two FIFO channels. `NodeReads` is one turn of the
loop in `serve`: the caps, then `decode`, then `verify`, then the branch of the
hop's type, then one reply. A guest step is one engine's request, or the reading
of one reply. A hop is its type, its number, the ids of the calls it is about and
one flag (approved, truncated, more to do: what its type needs). The policy's
decision on a call is any of `CallDecisions`; `Policy` says which it is.

What may go wrong: the turn timeout at any moment, the message cap, the turn cap,
a refused or oversized result, the guest's death, one hop that the path
repeats, and an exception that leaves `serve` (`raised`): a line over 64 KiB
(`node/session.py:261`), an audit record that cannot be written, before or after the
verdict, a tool that raises, a connection that breaks. It strikes before anything is
done about a hop (`NodeRaises`) or where a reply is due, which is then not written
(`NodeWritesOr`); the guest finds the connection closed. The guest runs the shipped code. Deadlock is not checked: both ends stop
when the session is over.

| Run | Properties | Size |
| --- | --- | --- |
| `hop` | `TypeOK`, `SeqInStep`, `NoFalseAlarm`, `ReplyMatchesRequest`, `NoMutualWait`, `GuestFailsOnlyWhenCut`, `AckedResultWasApproved`, `TurnAnswered`, `ImplementsContract` | 27,623 states |

`GuestFailsOnlyWhenCut` lists what makes an honest guest give up: a cap or the
timeout, a repeated hop, an `llm_request` that the policy denied, and an exception
that left `serve` without a `session_end`. Anything else, such as a reply that is
missing or out of order, would break it.

`AckedResultWasApproved` names one exception that is in the code: a `tool_result`
that is too large is refused, and its id stays outstanding
(`node/session.py:454`). Ids repeat from turn to turn (`llm/stub.py`), so that a
later result of a denied call with that id is acknowledged. `POLICY.md:60` of
`src/docs/architecture` knows no such exception.

### Bounds

Two calls in one completion (`ManyCalls`) are the fewest that leave something to
do after a result; two turns the fewest in which an id comes back. `MaxMessages`
is 6 instead of 64, so that the cap strikes inside a turn and a turn without
calls stays under it; `DenyBurst` is 2 instead of 3. The counters need no bound
of their own: turns and messages bound them. With `StubLlm` a streak of denials
is always broken by the next `llm_request`, so that `deny_burst` needs several
calls in one completion.

### Fairness

`FairSpec` asserts that the Node reads what has come and that the guest runs.
Nothing is assumed of the operator's next prompt, and the timeout is not needed:
`TurnAnswered` holds without it, which says that the exchange itself cannot get
stuck.

### Composition

`TurnContract` is a session as the queues of the control plane see it: handshake,
take a prompt, respond, end. `NodeControl` moves its sessions by these steps, and
`ImplementsContract` shows that the hop protocol does nothing else. A prompt that
cannot be written to the guest is taken and lost, so the contract lets `TakePrompt`
end the session.

## 4. Policy

The filter has no state: one request meets one launch, and `Evaluate` is the
whole of `evaluate`. `ToolCalls` uses it for its verdicts. The run `policy` takes every launch over the four tools of
the repository and an unknown one (any of them launched, either role, with or
without a workspace) and every request: 307,200 states, each a launch with a
request before or after its verdict. Deadlock is not checked because a request
is evaluated once.

A path is abstracted to where it leads once normalised: no arguments, the
workspace itself, inside, outside. The workspace itself has two places, since
`workspace_list_relpath` compares the text and not where it leads
(`tools/paths.py:41`): `root` is `''`, `.` or `/workspace`, which `file_list` may
name, `detour` any other way to write it (`/workspace/`, `./`, `a/..`), which is
denied as `path_escape`. `src/docs/architecture/POLICY.md:30` has the path "stay
under `/workspace` after normalize" and lets `file_list` name `/workspace` itself;
of the detours the code does not say so.

`DecisionIsGranted` states what is allowed, elevated and denied in the terms of
that document rather than in those of the rules, with this exception; `OneRule`
says that the order of the rules carries no meaning; `VisibleIsUsable` compares
what the LLM is shown with what is later allowed.

## 5. Launcher

### State and steps

One `launch_turn`. `launch` is where it is suspended, through staging, the start
of the jailer, the await of the result and the awaits of the `finally` clause.
`done` is the future that the guest's connection and the two watchers resolve;
`outcome` is how the task itself ends. The jailer and Firecracker are external:
the jailer clones Firecracker, creates its pid file, writes it and exits, and may
fail at any of these points; Firecracker may die at any time. The session is
abstracted to what the clean-up can tell: whether it reads from the guest, which
the kill ends, or awaits a prompt, which only the sentinel ends.

`_boot_vm` may cancel the task once, at any of its awaits, and what the
cancellation does depends on the await: it may leave a listener that no variable
holds, make asyncio kill the jailer, be swallowed (the awaits of the cancelled
watchers), or cut the clean-up short.

### What is checked

`launch` checks five properties in 4,524 states. The module has no constants, so
the run is exhaustive.

- `NoOrphan`: SIGKILL is sent before the first await that can be cut, so that a
  VM dies with its task even when the rest of the clean-up is skipped.
- `NothingLeft`: a clean-up that was not cut leaves no jailer, directory or
  session, and has closed its listener. The exception is in the code: a task
  cancelled after `start_unix_server` has bound and before `server` is assigned
  (`vm/launcher.py:503`) leaves a listener that nothing closes while the Node
  runs. No jailer has been started then, so nobody connects to it.
- `CleanUpEnds`: the clean-up waits for the session and never hangs on it. This
  is what `NodeControl` assumes when it makes `Reaped` fair.
- `DeathNoticed`: a dead VM or a failed jailer ends the launch.
- `ImplementsContract`: the launch task as `NodeControl` knows it.

Two properties name an exception that is in the code: `read_pid_file` raises
`IndexError` for a file that is created and not yet written. `watch_firecracker`
then ends unseen, and a VM that dies before its guest connects, or while its
session awaits a prompt, is noticed by nobody; the `finally` clause that meets the
same file ends before it kills. The window is that of two system calls of the
jailer. A Firecracker that the jailer has cloned and not named is out of the
Node's reach in any case.

### Fairness

Coroutines that can resume do, watchers poll, a killed process dies, and a session
that reads from the guest ends: every wait for the guest has the deadline of
`TURN_TIMEOUT_SEC`. Nothing is assumed of a VM that runs, nor of the operator.

## 6. NodeService

### State and steps

`proc[p]` says for each pid whether it is free, a stranger's, or where `serve`
is: `check` and `clear` (`clear_stale_runtime`), `write` and `pid` (the
truncation and the write of the pid file), `bind`, `serve`, `drain` (shutting
down), `closed` (waiting for its clients with the socket closed). `usable` says
whether serve has what it needs: root, KVM, the guest's assets, rules that can be
loaded, a directory it can write to. While it does not, serve may exit at any step
of its start-up (`Refused`), as `main`, `_serve` and an `OSError` make it. The pid file is
absent, empty, or holds a pid; the socket file is absent, stale or somebody's.
`main` and `unit` are what systemd knows; `child` is what `start_daemon` spawned;
`opc` is where the operator's one command is and how the last one ended.

A look at the pid file together with the test on it is one step; the checks of a
process and its unlinks are two, so that others come in between. One pid is kept
free by strangers, so that a restart always finds one.

### What is checked

| Run | Properties | Size |
| --- | --- | --- |
| `service` | `FilesNameTheNode`, `StopReachesNode`, `NodeComesBack` | 3 pids, 2 crashes or reboots; 28,542 states |

Three pids are the Node, a stranger that has the old pid, and one to start
another; two faults are a crash during the recovery from a crash. Deadlock is not
checked: without a unit, and with no operator, nothing need happen.

`NodeComesBack` lists what may keep the Node away: the unit is stopped; a Node
that shuts down still waits for its clients; serve lacks what it needs, and exits
at every restart (`cli.py:153`, `cli.py:442`); or the pid file was left empty by a
process that ended between its truncation and its write (`LeftEmpty`). A start
that is about to write the file is no excuse, so that a Node which never binds
would not pass. While the file is empty `read_pid_file` raises in every later
`serve`, until the file is removed by hand or the host's reboot clears its runtime
directory. The model keeps the directory over a reboot, which is the worse case.
`RestartSec=2` keeps the restarts below systemd's limit on starts, which the model
leaves out.

`StopReachesNode` speaks of the stops that are reported as done ("Corvus-Node
stopped"): through systemd, over the socket, or because the Node was gone when the
stop came to it. While a unit is active, the last two say nothing, since systemd
restarts what they stopped: this happens when the old pid belongs to a stranger
while the restarted Node has not written its own, and the stop goes over the
socket. In the seconds before systemd restarts a crashed Node, a stop finds
neither a pid nor a MainPID, reports that the Node is already stopped
(`cli.py:711`), and does not tell systemd, which then restarts it.

### Fairness

`FairSpec`: processes run, systemd restarts an active unit and kills one that does
not stop in time. Nothing is assumed of clients, so a Node that waits for them may
wait for ever, and nothing of the operator.

## 7. ToolCalls, with Workspace and AuditChain

### State and steps

`ToolCalls` is the `tool_call` branch of `serve` in the order of the code: the hop
is heard and put on the record (`Hear`), judged and its verdict recorded (`Rule`),
run or refused (`Act`), and the reply recorded and sent (`Answer`). `sess` is where
the session is between these steps. The verdict is `Policy`'s `Evaluate` for the
launch, the effect of a tool an outcome of `Workspace`, the record a line of
`AuditChain`.

Each step can fail as it can in the code: the audit file cannot be written, or only
in part (`LogFails`; the exception ends the session); a write stops after `mkdir`,
or after the file was truncated; a hop or a reply is longer than the 64 KiB that
`readline` takes (`LineTooLong`). An exception may leave the tool and end the
session (`Raised`): `_target` looks at the path outside any `try`
(`node/workspace.py:73`), which raises for a name that no file can have and for a
loop of links; and `write_text` (`:110`) raises `UnicodeEncodeError`, no `OSError`,
for content with a lone surrogate (`Unencodable`), once the file is truncated. The
Node may die at any point, perhaps in the midst of a line (`Die`). If its process
dies, the lines it completed stay; `append` has nothing put on the disk
(`audit/store.py:160`), so the host may take any number of the last lines with it
(`lost`). A guest that connects
once more gets a new session with a new `JsonlAuditStore` over the same file
(`Reconnect`; `vm/launcher.py:487`). Between any two steps the operator may change
the folder (`Edit`): files, directories, links that lead inside, outside or to
themselves, or the folder as a whole. `Tamper` is whoever replaces, swaps, removes
or repeats lines of the audit file while a session waits for the next call, since
only a running session has something to compare them with; as the chain has no key, he may leave the digests
as they are or make them all anew (`Chain`).

`Workspace` gives the tools as operators. A path is what `workspace_relpath` makes
of the agent's text: the folder itself, a path out of it, a name, a name within a
name, or a name that is too long. Two levels are enough to have a link in the midst
of a path. `Refused` is `_target`: a link as the last component is refused, one in
the midst is followed if it stays inside. A digest in `AuditChain` is the sequence
of the records it covers: different pasts have different digests, which is what is
assumed of SHA-256.

### What is checked

`tool_calls`: 2 names; a short, a long and an unencodable content; 2 calls, 1 edit,
2 connections; four launches (everything, reading only, somebody else, no folder);
2,913,508 states. Two calls are the fewest of which one sees what the other left, one edit
suffices to put a link in the way of either, and a second connection suffices to
break a chain. Deadlock is not checked: a session ends.

- `StaysInside`: no tool reads or writes a file outside, wherever the operator puts
  links between calls.
- `EffectIsRecorded`: write-ahead. Whatever ran has its `allow` in the file, after
  deaths of the Node, on a full disk, when the tool raises and over several
  connections. When the host dies, nothing has forced the lines to its disk.
- `ChainHolds`: `verify_chain` accepts what a session has written, however it
  ended. Two exceptions are in the code: a line that was cut short, and a second
  connection, whose store starts at zero again (`audit/store.py:142`).
- `TamperShows`: what the chain can show. Whoever changes the file may make its
  digests anew, and `verify_chain` then accepts it: on a file that nobody writes to
  any more it proves nothing. But a store goes on from the digest it remembers. A
  file that ends in a line of the running session's store is accepted only if it is
  all that this store has recorded, and nothing else. It follows that such a file
  with lines of an earlier connection is never accepted, and that one from which
  exactly these were removed is.
- `RefusedChangesNothing`: only an allowed write changes the folder, for the
  operator and within the launch; when the system fails it, or when it raises
  because its content cannot be encoded, it may leave the file truncated.

That every call is answered is not claimed: the session ends when an exception
leaves the tool, when the audit file cannot be written, and when a hop does not fit
a line. The last happens with contents that `READ_MAX` and `WRITE_MAX` allow, since
both are 64 KiB before JSON is wrapped around them, and with a listing of 256 long
names. What the operator does in the midst of one call is not modelled.

## 8. LaunchRules

### State and steps

`launch.json` without a lock. An action is what a command does up to the next point
at which another command may come in between with an effect: `settings` reads the
file (`Settings`), truncates it (`Truncate`), writes it (`Write`) and reads it again
to show it (`Show`); `start`, `vm start` and `run --once` read it (`StartCommand`),
see to the Node (`Ensure`), and ask for a VM (`Ask`). A command that finds a file it
cannot read, or a rule that names a folder which is gone, is refused (`Accepts`);
two writes over each other may garble the file. Every command may be killed
(`Killed`), folders come and go, the Node comes and goes, and a garbled file is
removed by hand (`Repair`).

The Node is `ControlContract`: `Ask` is its `Start`, `Leave` its `AskStop`, `Left`
its `Stopped`. That `NodeControl` keeps this contract whatever its clients do is
what the composition rests on, and it is proved. The contract speaks of the VM that
the Node reports. What it has forgotten still runs, so the module adds `orphans`: a
handler that resumes in `_stop_vm` clears the state, whatever VM that is about by
then (`Forgets`). It may be the handler of a stop (`Left`), or one whose client is
gone or that stops a VM which did not come up (`late`, `LateStop`). The `rpc_stop` of
`run --once` may fail, and its error is swallowed (`StopFails`, `cli.py:494`).

`run --once` stops a session in its `finally` clause: its own, but also one that it
found running (`OnceStatus`), or one that another operator has started since.

### What is checked

`rules`: 2 operators, 3 commands, 2 boots, 2 changes by the host, one tool, two
folders; 1,283,556 states. Two operators give every overlap of two commands, and the
third command reads what they left. Deadlock is not checked: the operators may have
issued all their commands.

- `NoLostUpdate`: between saves `launch.json` says what the saves amount to in the
  order they were written, unless two overlapped or one was killed between
  truncation and write. Both exceptions are in the code (`node/settings.py:84`).
- `RulesInForce`: a VM runs with the rules that were meant when its command read
  them, with its flags laid over. A half-written file or a folder that is gone
  makes a command fail; it never passes for fewer or other rules.
- `OnceLeavesNothing`: `run --once` leaves no VM running that it booted, neither one
  the Node reports nor one it has forgotten, whatever happened to its start or its
  chat. Three exceptions are in the code: the command was killed; its `rpc_stop`
  failed (`cli.py:494`); or its start was accepted while a handler still waited for
  an earlier VM, whose end then makes the Node forget the new one
  (`node/daemon.py:148`, the trace of `two_guests`). It needs the contract: an answer
  to a stop that came too early would break it.

Two remarks on what the model does with the documents. `load_launch` resolves the
folder of the file (`node/settings.py:73`), so that once it is removed every
command that reads the rules fails, `settings unset` included; the file has to be
repaired by hand. And `src/docs/planning/OPERATIONS.md:134` has `corvus start`
create the default folder if it is missing, while `main` merges the rules before
`_product_start` creates it: if the rules name the default folder, `start` is
refused, and `vm start`, `settings` or `status` creates it.

## 9. Proofs

All theorems hold for every value of the constants, under the assumptions that
the modules name.

| Theorem | States | Assumes |
| --- | --- | --- |
| `NodeControlProofs!TypeCorrect` | `TypeOK` | |
| `NodeControlSafety!AttachedIsHeld` | `AttachedHasChat` | |
| `NodeControlSafety!SentinelHolds` | `SentinelPending` | |
| `NodeControlSafety!GuestIsUnique` | `OneGuest` | `"overlap"` is not allowed |
| `NodeControlSafety!StartOkIsTrue` | `StartOkMeansReady` | `"overlap"` is not allowed |
| `NodeControlSafety!AttachIsExclusive` | `ExclusiveAttach` | `"overlap"` and `"open_chat"` are not allowed |
| `NodeControlSafety!RepliesReachAskers` | `ReplyToAsker` | `Allowed = {}` |
| `NodeControlSafety!StopsGoOn` | `NoStopIsStuck` | `"overlap"` is not allowed |
| `NodeControlSafety!StopReachesChat` | `StopFindsChat` | `Allowed = {}` |
| `NodeControlSafety!ChatsAreServed` | `ChatIsServed` | `Allowed = {}` |
| `NodeControlProofs!ControlPlaneKeepsContract` | `ImplementsContract` | |
| `NodeControlProofs!BootsKeepContract` | each boot: `LaunchContract!Spec` | |
| `LauncherProofs!TypeCorrect` | `TypeOK` | |
| `LauncherProofs!NoVmIsOrphaned` | `NoOrphan` | |
| `LauncherProofs!CleansUp` | `NothingLeft` | |
| `LauncherProofs!LauncherKeepsContract` | `ImplementsContract` | |
| `LauncherProofs!CleanUpCanGoOn` | `CleanUpIsNotStuck` | |
| `LauncherProofs!DeathHasWatcher` | `DeathIsWatched` | |
| `HopSessionProofs!TypeCorrect` | `TypeOK` | |
| `HopSessionProofs!NumbersInStep` | `SeqInStep` | |
| `HopSessionProofs!NoFalseAlarms` | `NoFalseAlarm` | |
| `HopSessionProofs!RepliesMatch` | `ReplyMatchesRequest` | |
| `HopSessionProofs!NoDeadWait` | `NoMutualWait` | |
| `HopSessionProofs!FailsWhenCut` | `GuestFailsOnlyWhenCut` | |
| `HopSessionProofs!ContractKept` | `ImplementsContract` | |
| `HopSessionProofs!ResultsApproved` | `AckedResultWasApproved` | |
| `NodeServiceProofs!FilesFindTheNode` | `FilesNameTheNode` | |
| `NodeServiceProofs!StopsReachTheNode` | `StopReachesNode` | |
| `NodeServiceProofs!NodeCanComeBack` | `NodeIsOnItsWay` | |
| `PolicyProofs!OneRuleMatches` | `OneRule` | |
| `PolicyProofs!DecisionsAreGranted` | `DecisionIsGranted` | |
| `PolicyProofs!VisibleAreUsable` | `VisibleIsUsable` | |
| `ToolCallsProofs!RecordsEffects` | `EffectIsRecorded` | |
| `ToolCallsProofs!ChainVerifies` | `ChainHolds` | |
| `ToolCallsProofs!TamperingShows` | `TamperShows` | |
| `ToolCallsProofs!ToolsStayInside` | `StaysInside` | |
| `ToolCallsProofs!RefusalsChangeNothing` | `RefusedChangesNothing` | |
| `LaunchRulesProofs!TypeCorrect` | `TypeOK` | |
| `LaunchRulesProofs!NoSaveIsLost` | `NoLostUpdate` | |
| `LaunchRulesProofs!RulesAreInForce` | `RulesInForce` | |
| `LaunchRulesProofs!OnceCleansUp` | `OnceLeavesNothing` | |

**NodeControl.** The named assumptions say that `Main` and `None` are not
connections, that there are finitely many connections, that the bounds are
positive natural numbers and that `Allowed` is a set of the three habits.

- *Types.* `TypeOK` is not inductive: that `turns` stays within `MaxTurns` needs
  `TurnsLeft`, that a session that has not begun or is idle has a turn left. `TypeInv` is the two together.
- *`AttachedHasChat`* is inductive with the types.
- *`SentinelPending`* needs `SentinelInv`: after a stop or in the clean-up, the
  sentinel lies in the queue of every session that has not ended (`Waits`), also of
  one in a turn, which will be idle later, and of one that has not begun.
- *`OneGuest`* needs `GuestInv`: at most one coroutine is in a command
  (`OneCommand`), the current boot is the latest (`CurIsLast`), boots begin and end as
  `BootInv` says, and `ReadyGuest`: a session in a turn has its VM; one of a live VM
  that has shaken hands has set the event; an event that is set was set by the boot's
  own guest or by one left over; and a task that is done before its session has ended
  was cancelled. Without
  `OneCommand` a stop that awaits boot 1 clears boot 2, which is what `two_guests`
  shows. `StartOkMeansReady` follows from the same invariant, with its exception.
- *`ExclusiveAttach`* needs `AttachInv`, over `GuestInv` and `WaitInv`: a connection is
  tied to the guest of the moment (`Tied`) while it is in the attach loop, or waits on
  the current boot, or on one whose queue holds its response already. At most one is,
  and while the VM is up it is known as attached. A chat that waits on an
  older boot with an empty queue is not counted: it waits for ever (`chat_hang`), and
  since only the session of the current boot puts responses, it never comes back
  into the loop. The theorem also covers a chat that attaches or types during a stop.
- *`ReplyToAsker`* needs `ReplyInv` on top of these: at most one connection waits on a boot and
  what is under way there, as prompt, query or response, is its own (`OneWaits`);
  until the stop, that is one thing in one place (`OneAwaited`), so that a chat that
  types finds both queues empty (`UserFinds`). After a stop the response may come after the
  sentinel, to a queue that nobody reads again: `StopKnown` says that such a boot is current
  only while the stop waits for it.
- *`ImplementsContract`* needs `WaitInv`: whoever stands in the queue of a boot is
  suspended in `responses.get()` of that boot and stands there once
  (`WaitersWait`), and a stop in progress awaits some boot (`StopsSomething`).
  Without the first a response could move a coroutine that is suspended in
  `_stop_vm`, and with it what the stop waits for. The proof goes through the
  actions: each is a step of the contract or leaves its three variables alone.
- *`BootsKeepContract`* relates `NodeControl` to `Launcher`. `Stage` maps what
  `NodeControl` knows of a launch task to the states of `LaunchContract`; `BootInv`
  says that the boots so far are those that have begun, and that a task that cleans
  up or whose session has ended has a result; `Moved` sorts the steps of the
  control plane by what they do to one boot. `LauncherKeepsContract` shows that
  `launch_turn` implements the same contract. That is one direction each: `NodeControl`
  takes no step that the contract forbids, but not all that it allows, since a
  `finally` clause that raises by itself (`CutShort` to `"other"`) is missing. What
  follows such a launch is not covered by the properties of `NodeControl`.

Three liveness properties have a safety side: what waits has something to wait
for. It is proved for any constants, and fairness does the rest, which TLC checks.

- *`StopAnswered`*: `StopsGoOn` says of the boot that a stop awaits what ends it
  next (`EndsByItself`). It needs `SentinelInv`, that whoever stops a boot has asked
  it to (`StopAsked`), and that a VM whose guest has not shaken hands is held by a
  start with a deadline or has had its event set by another (`BootHeld`), which makes
  it `Unmet`; with `overlap` a second command could stop such a VM under the start.
- *`StopReleasesChat`*: a chat that awaits a response stands in the queue of its boot
  (`AwaitsInLine`), and a stop leaves the sentinel for it there (`StopReleases`).
- *`ChatAnsweredWhileUp`*: what a waiting chat sent is a prompt, a query or a
  response of its boot until the session ends (`SentOn`), and the guest has shaken
  hands, or will not, or is `Unmet` (`GuestMet`). Together with `ReplyInv`, one thing in one place,
  `ChatIsServed` says where.

**Launcher.** The module has no constants and its run is exhaustive; the proofs say
why its properties hold. `HostInv` orders what exists on the host: no Firecracker
without a jailer, no pid file and no session without Firecracker. It is inductive
only with `StageInv`, what `launch_turn` has set up at each of its awaits: otherwise
a jailer could start twice. `StageInv` also says that a lost listener is that of a
cancelled task without a jailer. `ReapInv` is `NoOrphan` during the `finally` clause: once
it has looked at the pid file, the process is killed, or there is none and no
jailer left to name one. `CleanInv` adds, step by step, what an uncut clean-up has
taken away. The refinement goes through the actions as in `NodeControl`.
`CleanUpEnds` and `DeathNoticed` have a safety side as well: a session that the
clean-up awaits reads from the guest or finds the sentinel (`WakeInv`:
a session of `--once` never waits for a prompt), and as long as a result is awaited,
a watcher that is gone has left the failure to the other one (`WatchInv`).

**HopSession.** The assumptions say that the lists of calls are sequences of ids,
that the decisions are those the policy knows and that the caps are positive
natural numbers. None of the properties is inductive, since each speaks of one end
while what the other end sent is under way. `Inv` says what lies in the channels.

- `Numbers`: each channel holds an ascending run of numbers that ends below the
  sender's counter; `InStep`: without a repeated hop it holds exactly those from the
  reader's counter on. `SeqInStep` follows.
- `Places`: which counters and turns go with which places of the two loops.
- `Phase`: for every pair of places, how many hops are under way each way. At most
  one request goes up and at most two hops come down (the acknowledgement and the
  next prompt). `NoMutualWait` follows: a pair of places that both wait has a hop under way.
- `Asked` and `Replied`: the hop with the guest's last number is the request it
  waits on, and each hop it has not read is of the type it looks for when it comes
  to it (`Due`). `ReplyMatchesRequest` follows.
- `Denied` and `Farewelled`: an error answers a completion only when the policy
  denies, and a Node that was not left by an exception or cut off by a cap has sent
  `session_end`. They carry `GuestFailsOnlyWhenCut`.

Lemma `Steps` sorts the steps of both ends by what they do to the channels (the
Node starts, closes, raises, answers, leaves, prompts or dismisses; the guest asks, moves
on, fails or stops; the path repeats a hop), and each part of `Inv` has one lemma
over these kinds. `ContractKept` uses the same kinds: only an answer to
`agent_response`, a prompt, the handshake and the end move the contract.

`ResultsApproved` has an invariant of its own on top of `Inv`, `Accounted`, which
follows one call through both ends until a result was too large: the Node has at
most the call in hand outstanding (`Agreed`: none before it decides, none after it
took the result, and only if the reply under way says so), and a `tool_result` under
way for an id that is outstanding was approved (`Vouched`), also when the guest that
sent it has died. Lemma `Calls` sorts the steps by what they do with a call.

**NodeService.** The assumptions say that pids are told apart from `None` and from
the names of the states of a file. `FilesNameTheNode` needs `FilesInv`: whoever
has written its pid is the one the pid file names (`FilesKept`); with a unit,
whoever serves is its main process (`UnitsNode`); without one, whoever has not
written its pid yet is the child of a start that still polls (`StartedNode`).
Together they give `OneNode`: a new process is spawned only when nobody serves.
`StopReachesNode` adds `StopInv`, on what each place of the operator's command and
a unit that stops say of the processes. `NodeCanComeBack` is the safety side of
`NodeComesBack`: an active unit has a process that is on the way to the socket,
serves and is found, or was told to go, or else a free pid to spawn one (`MainRuns`).

**Policy.** The assumption says that file tools and risky tools are tools. The
proofs say what a rule that matches looks like (`ToolRule`, `ChatRule`), that two
such rules are equal (`RulesApart`), so that `CHOOSE` picks the one there is, and
then compute `Evaluate` for a request that the checks before the rules stop
(`Stopped`) or let through (`Reached`).

**ToolCalls.** The assumptions tell names, contents and the special entries of a
folder apart and say that launches are launches. `EffectIsRecorded` and `ChainHolds`
need `RecordInv`: the verdict that lets a tool run is in the file while the session
is between `Rule` and `Act`, every tool that ran has its record, and the store of the
first connection holds the digest of the last line (`Chained`), until the host dies;
what is left then is a start of the file, which verifies too (`CutVerifies`). `StaysInside` needs
`FolderInv`, that the folder is a tree whose links are entries and never contents,
and lemmas on what each tool returns and leaves behind (`ReadStays`, `ListStays`,
`WriteStays`). `TamperShows` needs `WrittenInv`: whatever was done to the file, a
store carries the digest of all that it has written. In a file that verifies, the
digest of line *i* is that of the first *i* records (`DigestsCover`), that of the
last line the digest of all of them (`LastCovers`); if it is the one that the store
carries, the records are what the store has written. `DigestsCover` is an induction
over the length, argued by a smallest counterexample (`LeastElement`): the library's minimum
principle takes a set, where its induction theorems take an operator.

**LaunchRules.** The assumptions say that the operators are finitely many, that the
default folder is a folder, and that the states of the file are told apart from
rules. `NoLostUpdate` needs `SaveInv`: while saves do not overlap there is one, it
holds what it will amount to, and the file is empty exactly while it writes.
`RulesInForce` follows from it: a command that can load the file finds what the
saves amount to (`LoadsMeant`). `OnceLeavesNothing` needs `OnceInv`: a VM that
`run --once` booted and that runs is known to the Node, is the one VM that anybody may
still wait for, and is still to be stopped by this command, or its stop waits for
this very VM, so that `Stopped` of the contract says that it is down.

## 10. Only model-checked

- Liveness under fairness (`StopAnswered`, `StopReleasesChat`,
  `ChatAnsweredWhileUp`, `TurnAnswered`, `CleanUpEnds`, `DeathNoticed`,
  `NodeComesBack`): out of the proof system's reach, and so is `ENABLED`. Proved are
  the safety sides named in section 9 and, for `TurnAnswered`, `NoMutualWait`: in
  no reachable state does everybody wait for something that cannot come.

Every invariant and every action property of a passing run is also a theorem. The
library's induction theorems take an operator as a parameter, which no prover here
can instantiate; where an argument needs induction (`TamperShows`), it is
by a smallest counterexample.

## 11. Not modelled

- *The chat client, the texts of the CLI, the pip step of `update`*: `NodeControl`
  assumes only habits of its clients, and a chat is one of them.
- *Encodings and digests*: frames and hops are atomic and are not altered. HMAC is
  modelled by what it does with numbers and the presence of a key, SHA-256 by what
  it covers.
- *Sizes*: byte caps are one nondeterministic cap; the limit of a line is a set of
  contents. Frames of the control socket have no size.
- *Two Nodes started at once, two operators at the service*: `NodeService` has one
  operator at a time.
- *Changes of the folder in the midst of one tool call.*
- *Cancellation other than by `_boot_vm`*: what `asyncio.run` cancels when the
  process ends is over with the process.
- *The guest-side copies of the tools* (`tools/files.py`, `tools/echo.py`) and
  Engine 4: nothing in a session calls them.
- *LLM stub, memory service, gateways, GUI, image build, installer*: no state that
  another component depends on.

## 12. What is left

1. A chat client over the frames of the control socket, in place of some habits of
   `NodeControl`.
2. `NodeControl` with the raising `finally` clause of `Launcher` as a step, and its
   proofs extended by it.
3. `NodeService` with two operators.
