# Verification of the Hermes bridge plugin

The Hermes bridge is a gateway plugin. It connects an agent on a laptop ("the
core", with its REST and WebSocket APIs) to a phone, through a relay that stores
sealed frames. The phone's messages come in over one WebSocket. Replies, run
events and notifications go out over the same socket, or are enqueued at the
relay over HTTP. RPCs from the phone are answered by handlers that call the
core.

The plugin is one asyncio process. Every line between two awaits is atomic, so
what is hard here is what happens at the awaits: another handler runs, the
socket goes away, the task is cancelled, the process dies, or the answer never
comes. The modules in this directory model those points. They leave out what the
frames look like and how text is worded.

Line numbers refer to `src/hermes_bridge/`. `PROJECT.json` maps each definition
to the lines it stands for, lists the hazards line by line, and gives for every
checked property a mutant of the code that breaks it.

## 1. Inventory

### The inbound path

| | |
|---|---|
| Parts | supervisor `_run_loop`, reader `_receive_loop` / `_read_frame`, worker `_dispatch_worker`, cursor file, nonce cache (`crypto.py`) |
| State | connection phase, `_inbound_seen_seq`, `_backlog_open`, the queue, `_inbound_cursor` and its file, `_nonce_cache` |
| Operations | connect with the cursor, read a frame (skip, reject as stale, reject as replayed, queue), dispatch one message, advance the cursor, drain after a lost socket, stop, restart |
| Interactions | the relay replays the backlog after the cursor and buffers live messages meanwhile; the worker awaits `handle_message`, which may reach the local owner |
| Hard | the reader runs ahead of the worker; a replay overlaps the live stream; the nonce of a frame survives the connection its message was lost with; the cursor file is emptied before it is written |
| Correct when | no message is passed by the cursor without being dispatched; a process dispatches each at most once and in order; a message the relay has stored is dispatched in the end |

### Bot completion notifications

| | |
|---|---|
| Parts | preference RPCs and the observer task (`bot_notify.py`), the snapshot of recent turns (`bot_activity.py`) |
| State | the preference file (enabled, one marker per bot, event ids already alerted), the observer task, what a waiting call has loaded |
| Operations | enable (load, await the snapshot, save), disable (save, cancel), tick (load, await the snapshot, save, send one by one), restart |
| Interactions | calls and the observer share nothing but the file; alerts are enqueued on an executor thread |
| Hard | state loaded before an await and saved after it; a tick in flight when the opt-out comes; a snapshot that fails looks like a chat without turns; a torn file is the default state |
| Correct when | a turn is alerted at most once, never after the opt-out, never if it was completed before the opt-in, and in the end at all |

### Streamed replies and outbound delivery

| | |
|---|---|
| Parts | `send`, `edit_message`, the flush task, `_deliver`, `_durable_enqueue` (`adapter.py`) |
| State | per message: pending, revision, base text, stash, flush task, time of the last edit; the relay's rows |
| Operations | seed a preview, edit live or stash, flush, finalize, revise a finished message, rescue a broken stream, fall back to a plain send |
| Interactions | the consumer of the stream (outside this repository) decides what to call next from the result; the supervisor clears the streams of a lost connection |
| Hard | a flush and an edit wait for the same socket; a live edit fails with the stream half told; an enqueue lands and its answer is lost |
| Correct when | the phone can chain the deltas; what the consumer thinks was delivered is stored; nothing is stored twice |

### Bot forever-chat

| | |
|---|---|
| Parts | `bot_chats.py`: open, send, stop, close, the poll loop |
| State | per token: `run_id`, `was_running`, `last_text`, `suppress_running_until_idle`, the poll task |
| Operations | open (adopt a turn in flight), send, poll (start, delta, complete), stop (status, interrupt, report), expire |
| Interactions | `_local_rpc` serialises the requests to the core; the same session can be prompted from the Desktop |
| Hard | the poll is in the send of an event when a send or a stop comes; the core goes on for a while after an interrupt |
| Correct when | every run the phone knows is reported as over, and an interrupted turn does not come back as a new run |

### Local owner

| | |
|---|---|
| Parts | `_forward_local_owned`, `_run_local_owner` (`adapter.py`), the client of the owner's socket (`local_owner.py`) |
| State | `_local_owner_tasks`: one task per message with its outcome; `ready`, which the worker awaits |
| Operations | forward, repeat, evict, connect, submit, await the turn, deliver the reply or an error, cancel |
| Interactions | the dispatch worker waits for the admission; the owner deduplicates by submission id |
| Hard | a submit without an answer; the phone repeats a message; the process dies between admission and reply; a task cancelled before its first step |
| Correct when | a message makes one turn; admissions keep the order; every message is answered; the worker gets on |

### Rooms

| | |
|---|---|
| Parts | `bot_rooms.py`: open, read forward, read backward, close, send, stop, approve |
| State | handle to room; the core's log; the phone's cursor and `has_more` |
| Operations | the tail on open, a page after the cursor, a page before a message |
| Interactions | one page of the phone is put together from several reads of a log that grows meanwhile |
| Hard | pages counted in events and shown in messages; pages shorter than asked; an upper bound on the reads of one call |
| Correct when | between the oldest message shown and the cursor none is missing; the phone can read to both ends |

### RPCs and run events

| | |
|---|---|
| Parts | the dispatcher (`operation_dispatch.py`), `runs.start`, `runs.stop`, `approval.resolve`, the relay of a run's events, the response (`adapter.py` 3409-3439, 4157-4353) |
| State | `_seen_rpc_ids`, `_active_run_tasks`, `_pending_approvals`, one relay task per run |
| Operations | take a request or skip its repeat, POST, answer; subscribe to a run, relay its events, cache and evict approvals; cancel |
| Interactions | every request is a task; stop, resolve and disconnect reach into the relay's maps while it awaits; the port cached by the API client decides where it subscribes |
| Hard | a repeat while the first is in its POST; a stop before the relay's first step; a response that finds no socket; the stream ends as the stop comes |
| Correct when | a request starts one run; the phone is told of the end of every run it follows; no approval outlives its relay |

### Prompts

| | |
|---|---|
| Parts | the four `send_*` hooks, `_mint_prompt`, `_send_prompt`, `_consume_prompt_response` (`adapter.py` 1386-1666), the worker's detached task |
| State | `_pending_prompts`; the requests that wait in Hermes |
| Operations | register and send a prompt, take an answer, pop the prompt, resolve the request, run a confirmed command or a picked choice and send its result |
| Interactions | answers come through the inbound queue, behind other messages; a handler may ask for an approval itself |
| Hard | an answer faster than the send; the same button twice; an answer that waits behind the handler that waits for it; approvals known by session only |
| Correct when | the answers to a prompt settle one request, and an answer that comes in time is heard |

### Local HTTP API client

| | |
|---|---|
| Parts | `local_api.py`: scan, candidates, token, requests, `listening`, supervisor, start and stop |
| State | cached port, tokens by port, the backend process it holds, the supervisor |
| Operations | scan, scrape a token, request (next candidate, second attempt after a 401, drop the cache), start a backend, stop |
| Interactions | all requests share the caches; dashboards of this and other profiles and the api_server answer on the same host |
| Hard | caches changed by other requests during an await; an answer that is lost after the server acted; two services with one port cache; processes that come and go |
| Correct when | a request reaches the server that is up; a write that was heeded is not sent again; a backend comes up again |

### Chat handles, subagents and the local door

| | |
|---|---|
| Parts | `bot_chats.py` (lookup, open, re-resolve, prompt, close), `bot_subagents.py` (list, tail, steer, interrupt), `_local_rpc` |
| State | `_bot_chats` (stored id and runtime handle per token), `_subagent_refs`, the door's lock and socket |
| Operations | open or create a chat, resume it under a new handle, prompt with one re-resolution, list subagents and mint refs, act on a ref, expire a chat |
| Interactions | the core unloads and deletes sessions by itself; every chat's poll runs beside the phone's calls; requests queue at one lock |
| Hard | a handle that is stale by the time it is used; a prompt given up at the door and executed later; two opens of one bot; an open that fails half way |
| Correct when | one chat per bot; a message is taken once; prompts and controls act in the chat's own session; no chat is polled for nobody |

### The rest

| Part | State | What makes it correct | Treated |
|---|---|---|---|
| Session routing and continuation (`session_continue.py`) | none of its own; looks sessions up | the thread resolves to one session, failures do not change which | planned: `SessionRouting` |
| Pending-write poll (`adapter.py` 3970-4060) | baseline of staged writes | a new write is announced once | planned: `PendingWrites` |
| Bot policy, capability hello, attachments, cron, memory, skills, model and usage RPCs, lifecycle events, reactions | none, or a table of limits | shape of the data | not modelled: forward one request, or filter one answer |
| Frame cryptography | keys | library calls | not modelled, except the nonce cache and the age window |
| Pairing script, packaging | files | sequential, no part of the running system | not modelled |

## 2. Modules

```
DurableInbox  <--implements--  InboundQueue    <--EXTENDS--  InboundQueueProofs
                               LocalOwner      <--EXTENDS--  LocalOwnerProofs
                               BotNotify       <--EXTENDS--  BotNotifyProofs
                               StreamEdits     <--EXTENDS--  StreamEditsProofs
                               BotChat         <--EXTENDS--  ConversationProofs
                               RoomLog         <--EXTENDS--  ConversationProofs
                               ChatHandles     <--EXTENDS--  ChatHandlesProofs
                               RunEvents       <--EXTENDS--  RequestProofs
                               LocalApi        <--EXTENDS--  RequestProofs
                               Prompts         <--EXTENDS--  PromptsProofs
```

`BotChat` and `RoomLog`, which say what the phone is shown of a conversation, are
extended by one module of proofs, and so are `RunEvents` and `LocalApi`, the requests
and the client they go through. Therefore the names of `RoomLog` and `LocalApi` that
would be those of the other module begin with `Room` and `Api` (`RoomInit`,
`ApiTypeOK`); the pairs share no variable, and nothing is proved of their conjunction.

A module whose run gives its constants directly has no separate MC module: the
constants are small sets and numbers that the `.cfg` states. In every module the
variables after the comment "Observations" are read by no guard; the properties
speak about them. A definition with a comment "Mutant:" is the code with one
plausible mistake and is used by no action of the specification.

### DurableInbox and InboundQueue

`DurableInbox` is the promise: messages 1, 2, 3, ... are handed over in order,
and the cursor passes only what was handed over or is excused. `InboundQueue` is
the code. An excuse in it is one of three things: the frame was stale on the
connection that passed it (`tooLate`), its dispatch raised (`raised`), or it was
left in the queue of a worker whose dispatch had raised (`abandoned`). The
refinement mapping takes their union for `excused` and everything else as it is.

| Action | Code |
|---|---|
| `Connect`, `Drained` | `_connect_ws`, `_run_loop` |
| `SkipSeen`, `DropStale`, `DropReplayed`, `Accept`, `ReadRpc`, `ReadBacklogDone` | the branches of `_read_frame` and `open_frame` in their order |
| `WorkerTakes`, `WorkerSucceeds`, `WorkerFails` | `_dispatch_worker`, split at its await |
| `StopReading`, `StopAtOnce` | `disconnect`, according to where the supervisor is |
| `SocketLost`, `Crash`, `Restart`, `TimePasses`, `GraceExpires` | the environment |

A message keeps its nonce when it is resent, so its number stands for both. An
RPC frame has a nonce and no number; all of them are `RpcNonce`, which never
matches a message. The cursor file may keep its old content or become empty when
it is rewritten (`disk' \in {current, disk, 0}`), because `open(..., "w")`
truncates it and an `OSError` is swallowed. Left out: the relay's pruning, the
gap warning, the hello. They change none of this state.

### BotNotify

One bot, its turns numbered in order of completion. A snapshot is requested when
there are `at` turns and shows the window at some later moment, or nothing when
the read fails. `EnableBegins`/`EnableEnds`/`EnableFails` are `set_preference`
around its await; `Disable` has none. `TickBegins` to `TickEnds` are
`observe_once` and `poll_completions`; `CancelSeen` is the cancelled task's last
step, which runs before any call that comes later can have read anything.

`mishaps` names what went wrong: "blind" (a baseline taken from a failed read),
"overlap" (an enable call saved over another one's state), "overruled" (an enable
call saved after an opt-out that had come during its await), "disk" (a save that
failed or tore the file; one per behaviour). The properties name exactly those
they need, so each says which mishaps are harmless for it. `Overrules` marks the
calls that wait when `disable` comes; `wanted` is the preference asked for last,
which an overruled call does not change. `baseline_done` and
the branch for a missing key are left out: the first is set together with
`enabled` and never alone, the second returns at once.

### StreamEdits

One streamed reply. The text the consumer has reached is a number. A frame on the
wire carries its revision, the text its delta starts from and the text it
reaches; a row is what the relay's store got. A call is split at its two awaits:
the socket's send (`stage = "live"`) and the enqueue (`stage = "store"`).
The preview waits for the socket too: `Seed` begins `send`, and `Seeded` is what
follows the await, a pending stream or the fallback.
`_ws` has three values: "up", "lost" (closed but not yet cleared by the
supervisor) and "none". The sends on a lost socket fail before the supervisor
clears it, because the reader first awaits the worker.

The consumer is outside `src/`. A comment in `edit_message` (`adapter.py:1110`)
and `tests/test_streaming.py:406` say that it falls back to a plain send when an
edit fails. Whether it may also go on
editing is left open by the code, so `GoesOn` is a constant; `stream` runs
with `TRUE`, the weaker assumption. The final edit repeats the last text. Left
out: the capability check, the correlation of replies and sessions, the caps of
the maps, and exceptions of the socket other than its closing.

### BotChat

One chat, its poll loop, and a core session that the Desktop may prompt as well.
`_local_rpc` holds one lock from request to response and what the caller does
with a response follows without an await, so a request and its processing are one
action. What remains are the awaits in `_send_run_event` (`poll \in {"delta",
"done"}`) and the two requests of `stop_chat`. The second, `session.interrupt`, may
fail, or land and its answer be lost (`StopFails`): the call ends with an error, the
record of the chat is as it was, and no mark keeps the poll from the dying turn.
`interrupted` holds the turns whose interruption the stop heard of, and of these
`NoGhostRun` speaks: of the others the chat does not know. A core that refuses a prompt while
a turn is in flight is an assumption about the core.

A run on which one handler started while another was in an await is in
`disturbed`; `EveryRunEnds` leaves those out by name, since the code does lose the end of such a run (hazard at `bot_chats.py:320`).
An event dropped because there is no socket counts as told: `_send_run_event`
returns or logs it, and `bot_chats.py` goes on as if it had been sent. The
session and its handle are taken as given here; they are `ChatHandles`' subject.
Left out: history pages.

### LocalOwner

The messages of one chat, repetitions included. A task's stage is the await it is
in; `ready` is the event the worker waits for. `Forwards` includes the eviction,
with any of the answered tasks going (the code goes through them in insertion
order). `Cancel` is what `CancelledError` does at each stage: from the first step
on, the `finally` of `_run_local_owner` sets `ready`; a task that has not taken
its first step never enters the `try`.

`disconnect` is two steps, as it awaits the cancelled tasks before it cancels the
supervisor (`adapter.py:784`): in between (`phase = "cancelling"`) a worker that a
cancelled task has let go takes the next message and makes a new task, which nobody
cancels. What the second cancellation hits is either the reader at the socket, and
then what was read is still dispatched ("stopping"), or the worker itself: then a
task it waited for goes on alone, and the message is in `restarted`.

`_local_owner_error` does not look whether its error was delivered (`adapter.py:2316`):
`Errs` either tells the phone (`told`) or not (`undelivered`), and the code goes on
the same way.

Assumed of the owner: it knows a submission by its id and does not admit it
twice, and it refuses only before it commits. Left out: `_continue_local_owned`,
which attaches once and keeps nothing, and the discovery of the endpoint.

### RoomLog

One room. The log is a sequence of events, of which some are messages. A core
page after `since` ends anywhere up to `Limit` events later, by at least one
event when there is one. `open_room` and the read of older messages take several
pages with the log growing in between; a page of newer messages is one request.
Left out: the cache of capabilities, sending, stopping, approving.

### RunEvents

`Arrives` is `dispatch` up to the handler's POST: the window of ids is noted
before the first await, and `runs.stop` cancels the relay before it posts.
`RunStarts`, `RunStops` and `RunResolves` are the answers of the POST, `Returns`
and `Finish` the response, which may find no socket. The relay task's stages are
its awaits: "created" (no step taken), "token", "reading", "sending", "stopping"
(the send of `run.stopped` after the cancellation). A cancellation is delivered
at the await the task is in: before the `try` it ends the task at once
(`early`). `OtherRequest` is what any other request does to the cached port: the
relay subscribes on that port, and on the dashboard's the stream is refused, with
an error event that counts as told. An event dropped for want of a socket counts
as told, as in `BotChat`. A run asks for one approval at a time. Left out:
error codes, `approvals.list` (a read), notifications.

### Prompts

The requests of one session. `Asks` registers the prompt and starts its send;
`Lands` is the arrival at the phone, which may come before the send returns or
after it has failed. `Consume` is a task's first step, from the pop to the
resolution; what runs a handler stays in the task until `HandlerReturns`. Of
Hermes it is assumed that it settles an approval by its session, whichever waits,
that it asks in text when a prompt could not be sent and clears a question
instead, and that its timeouts (minutes) are longer than the gateway takes for an
answer it can get at: `GivesUp` waits for an answer already in the gateway, unless
that is queued behind a turn. That is what makes `AnswerHeard` show that no answer
waits behind another task.

The phone's messages come through the same queue. The worker awaits each
(`worker = "turn"`), for minutes perhaps, and what is behind it waits too. When the
turn raises (`TurnRaises`), the worker closes the connection and what the reader had
queued is never dispatched, which is finding 1; that failure and the next connection
are one step, as nothing is taken in between. After the pop the function that resolves
the request may not be importable, or raise (`ResolutionFails`): the prompt is used up
and the request waits on.

A prompt that is never answered, or whose request has timed out, stays in
`_pending_prompts` until the process ends. `missed` names why an answer may
settle nothing, and `AnswerHeard` leaves exactly those out: it went to another
approval of the session; its resolution failed; its option is out of range or asks
for text; its question was cleared because the send failed; its request was given
up while it stood behind a turn; it was on the queue of a worker whose turn
raised; the gateway ended.

### LocalApi

Three ports: the one a backend is started on, one that only the process scan can
find, and the api_server's. A dashboard process is its token as well. A request
is a loop over candidates; `Scrapes` is the await for the token, `Tries` the await
for the answer and what the client makes of it, with one definition per branch
(`Success`, `Rejection`, `WrongService`, `Unauthorized`, `NoConnection`). `Ensures`
is one round of the supervisor, and `SpawnFails` one whose spawn fails. Of a request,
`up` records which dashboards ran throughout, `lost` that an answer did not arrive or
was not heeded, and `replays` on which grounds a server acted on the same write once
more: it had acted before ("same"), or another's answer had been read in the first or
the second attempt at its port. `up` is read only by `Fresh`, which gives no new
process an identity that a request still refers to.

A dashboard has two profiles: the one it serves (`real`), and the one that
`dashboard_argv_profile` reads off its command line (`argv`), which is "default"
without `-p`. The scan sorts by the second (`Own`, `Foreign`), the answers depend on
the first (`Serving`, `Strange`). The backend of `_ensure` is started without `-p`,
so that a gateway of a named profile does not know its own (section 4).
`ServedIfUp` therefore speaks of the dashboards whose command line names the
gateway's profile, and `ApiComesUp` leaves out, by name, the times in which another
profile's dashboard has the backend's port or is taken for this profile's, and those
in which the api_server's port is cached, as `listening` then takes that for a
dashboard.

Assumed: psutil sees every process, no port and no token are given in the
environment, and the api_server platform is on. Left out: the second well-known
dashboard port (9120), and what listens on a port without being a dashboard, both of
which matter to `listening` only.

### ChatHandles

One bot. A session has a stored id for good and a runtime handle while it is
loaded. A call's stage is the request it waits for: "lookup", "resume", "create"
or "act" (kick-off, prompt, interrupt, list, tail or control). A request carries
what the handler captured before the lock, so it may be served with a handle that
has become stale; `Reresolves` and `Revalidates` are what the code does about it.
`Lost` is the door giving up after 30 s, `LateLands` the core executing the
request all the same. Assumed of the core: `session.resume` of a loaded session
returns the runtime it has, and a subagent id is not used again in one runtime. Left out: the check of the
profile, the capability cache, the read of history as a request of its own (its
failure is a branch of `Mints`), and the phone stopping a message it has no
answer for.

What the properties exclude by name, because the code does it: two opens that are
out together create two chats (`met`); `reresolve_chat` sets `stored_id` before the resume
that yields the handle, so that a failed resume or an overlapping call leaves
them in two sessions and the next send goes to the old one (`mixed`); a prompt
or kick-off the door gave up on may be executed later (`doubtful`).

## 3. Runs

All passing runs check their type invariant and are exhaustive within the bounds.

| Run | Shows | Bounds | Distinct states |
|---|---|---|---|
| `inbound` | no silent loss, file behind cursor, every message settles, `DurableInbox` is implemented (with it: in order and at most once per process) | 3 messages, nonce cache of 2, 1 restart, message 2 may raise | 212 251 |
| `inbound_failure` | finding 1 | 3 messages, no restart | stops |
| `notify` | alerts at most once, no tick undoes an opt-out, historical alerts only after a mishap, every turn noticed | 2 calls, window 2, 2 ids, 3 turns, 1 restart, 2 opt-ins | 215 546 |
| `stream` | deltas chain, nothing streamed is lost, the reply is stored once | 4 texts, 2 lost sockets, 2 sends, 2 revisions | 206 385 |
| `bot_chat` | no ghost run, every run ends | 3 turns, 1 growth each, 2 runs, 2 stops, 2 opens | 121 056 |
| `local_owner` | one turn, order of admissions, no second submit, every message answered | 3 messages, 1 of them refused by the plugin, 3 sends, cap 1, 1 restart | 663 908 |
| `local_owner_returns` | finding 2 | 2 sends, no restart | stops |
| `rooms` | no hole, both ends are reached | 6 events, limit 3, 2 core pages per call, 2 opens | 7 971 |
| `run_events` | a request starts one run, the phone is told of every end | 3 ids, 3 frames, 1 run, 2 approval frames, 2 queued events, 1 disconnect | 921 537 |
| `prompts` | a prompt's answers settle one request, an answer in time is heard | 2 requests, 3 messages and answers, 1 restart | 589 084 |
| `local_api` | a write repeated only in doubt, a request is served, a backend comes up | gateway of the default profile, 2 requests, 8 process identities, 1 dashboard of somebody else, 1 end | 834 049 |
| `chat_handles` | one chat, a message once, acts in its session, an unknown chat expires | 2 sessions, 3 loads, 1 token, 1 message, 4 calls, 2 at a time, 1 fault | 1 106 339 |

Why the bounds are enough to meet the hard cases:

* `inbound`: three messages are one that failed, one abandoned behind it and one
  that moves the cursor past both; a nonce cache of two forgets a nonce while its
  message can still be replayed. The proofs cover every number.
* `notify`: a window of two and three turns make a turn leave the window while
  its id is still kept; two calls overlap; two opt-ins have an opt-out between.
  `SeenCap` equals the window here, so that ids are evicted; with two opt-ins that
  does no harm, with a third it would. `AlertedOnce` (section 5) shows for any
  number of opt-ins that 2 * window - 1 ids are enough; the code has 200 for 99.
  That several bots share the 200 is a hazard listed without a property.
* `stream`: four texts are a frame on the wire, one waiting in a flush, one
  stashed and one final; two lost sockets interrupt a stream and its fallback.
* `bot_chat`: three turns are one interrupted, one sent and one of the Desktop.
* `local_owner`: a cap of one evicts as soon as two tasks are known; three sends
  repeat a message after another one has been forwarded, and give the worker one
  to take while `disconnect` waits for the cancelled tasks.
* `rooms`: two core pages for a limit of three keep the proportion of 32 pages
  for 50 events: pages that are cut short make a call stop early. What such a
  call leaves out is a hazard, and `NoHole` excludes it by name (`capped`).

* `run_events`: three ids are a start, a stop and a resolution of one run; three
  frames also repeat the start, inside the window and after it. Two approval
  frames are one resolved by the phone and one repeated.
* `prompts`: two requests are two approvals of one session, or a confirmed
  command and the approval its handler asks for; three frames are a button and its
  repeat behind a message, or a repeat after the first has been consumed.
* `local_api`: two requests change each other's caches; with one dashboard of
  somebody else and one end, every service is found, lost and replaced once. The run is
  of a gateway of the default profile, which takes a dashboard without `-p` that serves
  another for its own; the theorems cover a named one as well. Eight
  identities of processes are enough for all that can be referred to at a time: two
  listeners, the backend, two cached tokens, and one per request. `ApiTypeOK` says
  that one is always free (`Fresh`), which `ApiTypeCorrect` proves for any number of
  requests and one identity more than those: `LocalApiAssumption`.
* `chat_handles`: three loads of two sessions are an unload and a replacement
  chat; four calls of which two overlap are an open, a listing, a control and a
  send; one message is enough for a second taking of it.

`CHECK_DEADLOCK FALSE` is set where the environment really stops: no more turns,
texts, messages or events within the bounds. `inbound` keeps the check on.

### Fairness

* Weak fairness for what the event loop runs when it is ready: the worker, the
  supervisor, the observer's tick and sends, the steps of a task.
* `inbound`: strong fairness for reading a frame and for a dispatch succeeding,
  since the connection may be lost before either; a message whose dispatch raises
  for ever is excused anyway. The service manager restarts the gateway.
* `notify`: strong fairness for a snapshot that shows the turns there are
  (`LooksWell`): the observer asks every few seconds and the REST call does not
  fail for ever.
* `bot_chat`: turns end; the poll keeps asking, strongly, because which of its two
  outcomes is enabled changes with every turn that begins or ends. A stop's request
  is answered or fails (`_local_rpc` gives up after 30 s).
* `local_owner`: every await of a task has a time limit in the code (connect,
  call, six hours for a turn), so each stage ends; the tasks are weakly fair.
* `rooms`: a phone that has the room open goes on reading.
* `run_events`: the steps of a relay task; its stream ends or closes in the end,
  and a send returns.
* `prompts`: the worker, a turn, which returns or raises (Hermes bounds it), the
  tasks, and a handler that nothing holds up. The phone, Hermes' timeouts and the
  relay are not fair.
* `local_api`: timers fire and threads return: the supervisor's rounds, and a process
  that binds its port. A spawn succeeds in the end: with an interpreter that cannot be
  started no backend ever comes up. Requests need not come to their end.
* `chat_handles`: a poll's request is answered or given up (30 s); a chat whose token
  the phone does not have becomes idle, strongly, as nobody can touch it. The phone
  does nothing fairly.

`stream` and the violation runs of invariants need none.

## 4. Findings

1. **A message whose dispatch failed is never dispatched** (`adapter.py:1897`,
   run `inbound_failure`). The worker closes the connection so that the relay
   replays the message, but its nonce is remembered and `open_frame` rejects the
   replay; so are the messages abandoned behind it. The next message that
   succeeds moves the cursor past them. The docstring promises "never past a
   failure".
2. **disconnect may wait for ever** (`adapter.py:2349`, run
   `local_owner_returns`): it cancels a task that has not started, nobody sets
   `ready`, the worker waits for it and the reader for the worker.

Met while modelling, without a run of their own; where a property of a passing
run touches them, it leaves them out by name:

* A failed snapshot at the opt-in takes no marker, and the next tick alerts the
  whole window (`bot_notify.py:135`), against "no historical alerts". Named
  "blind" in `BotNotify`.
* A stream the supervisor has cleared is stored tick by tick (`adapter.py:750`),
  against "Only the terminal edit is durable". `StoredOnce` speaks of the rows of
  the stream's own id and of plain sends, not of these revisions.
* `has_more` can be false with older messages remaining (`bot_rooms.py:406`), when
  the last events of the log hold no message. `ReadToTheEnd` follows `has_more`.
* An enable call whose await an opt-out falls into saves "enabled" over it
  (`bot_notify.py:202`): "overruled" in `BotNotify`.
* A named profile's gateway leaves out its own backend: it is spawned without `-p`
  (`local_api.py:359`), the scan takes it for the default profile's, and requests skip
  its port while it is up, against "Ports that might serve `/api/*` for *this* profile"
  (`240`). `ServedIfUp` speaks of the dashboards the scan knows.
* A write that is rejected in the attempt after a 401 goes to the next candidate
  (`local_api.py:508`), against "Do NOT keep probing" (`475`): "second" in `replays`.
  One whose answer is lost does so too (`521`): `ReplayOnlyInDoubt` speaks of answers
  that were read.
* `listening` takes the api_server's port for a dashboard (`local_api.py:262`), and
  a foreign process on the port keeps the backend from starting (`335`): both are
  exceptions of `ApiComesUp`.
* A stop whose `session.interrupt` lands and whose answer is lost sets no mark, and
  the poll may report the interrupted turn as a new run (`bot_chats.py:504`):
  `NoGhostRun` speaks of the turns in `interrupted`.
* An error that cannot be delivered is forgotten (`adapter.py:2316`): `undelivered`
  in `LocalOwner`. A task made while `disconnect` waits for the cancelled ones goes on
  alone when the worker is cancelled (`784`): `restarted`.
* A prompt whose resolution raises after the pop cannot be answered again
  (`adapter.py:1657`), and one whose answer is queued behind a raising turn is lost
  with it: `missed` in `Prompts`.
* `get_on_working_port` may return None from the api_server, where its docstring
  (`local_api.py:542`) means the 404 of a dashboard.
* A relay cancelled before its `try` sends no `run.stopped` (`adapter.py:3424`):
  `early` in `RunEvents`.
* With two approvals pending in one session, or the first one timed out, an answer
  settles the other (`adapter.py:1605`); an option out of range uses its prompt up
  (`1593`): `missed` in `Prompts`.
* The end of a page of a room, or its bound of 32 core pages, can be taken for the
  end of the log (`bot_rooms.py:421`): `capped` in `RoomLog`.
* Half re-resolved chats, twin opens, prompts executed after the door gave up: see
  `ChatHandles` above.

## 5. Proofs

The theorems hold for every value of the constants, under the named assumptions
of the modules (`InboundAssumption`, `OwnerAssumption`, `NotifyAssumption`,
`StreamAssumption`, `ChatAssumption`, `ChatHandlesAssumption`, `RunEventsAssumption`,
`PromptsAssumption`, `RoomAssumption`, `LocalApiAssumption`), which TLC checks in the
passing runs. They give the constants their types; `StreamAssumption` asks for at least one text, the preview,
`RunEventsAssumption` for room for one event in the queue bound, `RoomAssumption` for
pages of at least one event, and `LocalApiAssumption` for a gateway of one of the
two profiles, three different ports and enough identities of processes. One theorem
has a hypothesis more: `AlertedOnce`, on the number of remembered ids.

For each specification there is an inductive invariant (`IInv`, `RoomInv`, `ApiInv`),
a conjunction of named parts, of which some are the parts of `TypeOK`. It was
checked with TLC on the run's instance before it was proved. `Inductive`
(`RoomInductive`, `ApiInductive`) states `Spec => []IInv`; the proof has one step per
action. The other theorems follow from it.

| Theorem | Property |
|---|---|
| `InboundQueueProofs!CursorAccounts` | `NothingLostSilently` |
| `InboundQueueProofs!CursorFileSafe` | `FileBehindCursor` |
| `InboundQueueProofs!Refinement` | `ImplementsInbox` |
| `InboundQueueProofs!FailureOnly` | `LostOnlyByFailure`, stated there and checked by no run |
| `LocalOwnerProofs!OneTurn`, `InOrder`, `Unrepeated` | `AtMostOneTurn`, `OneAdmissionAtATime`, `NeverResubmitted` |
| `BotNotifyProofs!OptOutStands`, `NoHistory`, `AlertedOnce` | `OptOutSticks`, `HistoricalOnlyIfBlind`, `AtMostOnce` |
| `StreamEditsProofs!Chain`, `NothingLost`, `Once` | `DeltasChain`, `NothingStreamedIsLost`, `StoredOnce` |
| `ConversationProofs!NoGhost`, `WithoutHoles` | `NoGhostRun`, `NoHole` |
| `ChatHandlesProofs!NoTwin`, `TakenOnce`, `ActsAtHome` | `NoTwinChat`, `MessageTakenOnce`, `ActsInItsSession` |
| `RequestProofs!OneRun`, `NoReplay`, `FoundIfUp` | `OneRunPerRequest`, `ReplayOnlyInDoubt`, `ServedIfUp` |
| `PromptsProofs!OneAnswer` | `OneAnswerOneRequest` |
| `ConversationProofs!RunsFollowed` | `Followed`, stated there: what `EveryRunEnds` needs besides progress |
| `LocalOwnerProofs!AllAnswered` | `AnsweredOrCut`, stated there: the same for `EveryForwardTold` |
| `RequestProofs!EndsWithAWord` | `EndedOnce`, stated there: the same for `EveryRunToldOf` |
| `PromptsProofs!UsedAnswersCount` | `UsedOrNamed`, stated there: the same for `AnswerHeard` |
| `TypeCorrect` of each, `RoomTypeCorrect`, `ApiTypeCorrect` | `TypeOK`, `RoomTypeOK`, `ApiTypeOK` |

### InboundQueueProofs

`Inductive` states the inductive invariant `IInv`, with five parts:

* `TypeOK`;
* `PositionInv`: where file, cursor, worker and reader's mark stand relative to
  each other, and that a connection that is closed has no queue;
* `QueueInv`: the queue is increasing, above the message being dispatched;
* `AccountInv`: every message the cursor has passed has its account
  (`PassedInv`), every message read above the cursor is in flight or has its
  account (`ReadInv`), and every remembered nonce belongs to one in flight, done
  or the victim of a raising dispatch (`NonceInv`);
* `ExcusedInv`: only stored messages are excused.

`NothingLostSilently` alone is not inductive. When the worker moves the cursor
from 3 to 7, the reason 4 to 6 are accounted for is that the reader has read them
and let them go, which is `ReadInv`. The reader may let one go by its nonce, and
that this is right is `NonceInv`: a nonce remembered without an account would
reject the only copy of a message. Draining before reconnecting is what keeps
`NonceInv`.

From it follow `TypeCorrect`, `CursorAccounts` (`NothingLostSilently`),
`CursorFileSafe` (`FileBehindCursor` and `InFlightIsNew`) and `Refinement`
(`ImplementsInbox`): each action maps to a step of `DurableInbox` or to a
stutter. `WorkerSucceeds` is `Dispatch`, `Restart` and `Crash` are `Rewind`,
`Connect`, `DropStale`, `WorkerFails` and `Drained` are `Excuse`.

`FailureOnly` says what the three excuses come to: until a dispatch raises, the
cursor passes only what the gateway took or what was too old (`LostOnlyByFailure`).
A worker is marked `failed`, and messages are abandoned, only after one raised
(`FailureInv`). What happens after is finding 1.

### LocalOwnerProofs

`Inductive` adds to `TypeOK`: the worker waits for a message that was sent, and not
after it was cancelled (`WaitingInv`); one task at most has no answer to its
admission, and it has given no sign and has the worker waiting for it, also between
the two cancellations of `disconnect`, until the worker itself is cancelled, after
which nothing is dispatched (`AdmissionInv`); a submit in doubt is still
remembered by the stage of its task (`UncertainInv`); a submission carries
nothing but the message (`SubmissionInv`). The last is why a restart does not
make a second turn: the new process computes the same id. `UncertainInv` needs
the lemma that an eviction takes answered tasks only. From it follow
`TypeCorrect`, `OneTurn` (`AtMostOneTurn`), `InOrder` (`OneAdmissionAtATime`) and
`Unrepeated` (`NeverResubmitted`), whatever the cap.

`AllAnswered` says what `EveryForwardTold` comes to at any moment: a message the
cursor has passed was answered, has a task that still runs or was cancelled, was
cut short by a restart, or its error could not be delivered; there is none for which
the plugin does not even try. It holds because the worker waits for the next message
only (`WaitedInv`) and a task that came to its end has told the phone how it went, or
tried to (`ToldInv`).

### BotNotifyProofs

* `OptOutSticks` speaks of the file. What the observer will write is decided when
  it loads the file, one await earlier: `OptOut` adds that an observer that looks
  holds a state an opt-in made, which still stands (`Stands`), unless an opt-out met
  an enable call in its await or a save failed.
* `RunsInv`: unless enable calls overlap or a save fails, the observer runs only
  while the file says "enabled" and looks with what the file says, and a call in
  its await will save what the file says. The other parts for alerts rest on this one.
* `NewInv`, for `HistoricalOnlyIfBlind`, as long as nothing blind, overlapping or
  unsaved has happened (`Sighted`): the marker in the file, the number of turns
  the tick has loaded and everything in `toSend` are past the opt-in.
* `NotedInv` and `OnceInv`, for `AtMostOnce`. An id may leave the file as long as no
  later snapshot can show its turn. `Windowed` is the reason: no id in the file
  stands behind one that was out of the window by then, so fewer than 2 * `Hist`
  ids can follow a turn that is still shown. With `EnoughIds` (`2 * Hist - 1 <=
  SeenCap`) the last `SeenCap` ids hold it (`RecentKeeps`). The code's 50 and 200
  satisfy it for one bot.

The ids of a snapshot are put in order (`InOrder`, a CHOOSE). That such an order
exists for every finite set is `SortExists`: where one would use induction over the
size, the proof takes a counterexample of least size (`LeastNumber`).

### StreamEditsProofs

`DeltasChain` compares deltas on the wire; the delta to come is made from `text` and
`rev`, so `WireInv` adds that no delta is newer than the stream's revision and
that the one at that revision reached its text. `CallInv` says what a call in its
await implies: an edit has its stream pending, a rescue has forgotten it, a final
edit has no flush task beside it. Without the last a flush could follow the final frame.
`RowInv`, for `StoredOnce`: nothing is stored under the stream's id while the stream
may still be stored, and no plain send before the reply is finished, unless a
send's outcome is unsure. `SeedInv`: before the preview is out there is nothing but
its frame.

### ConversationProofs

`NoGhostRun` is broken when the poll announces a run for a turn whose interruption
a stop has heard of. What keeps it from that is the mark `suppress`; but `stop_chat` sets
the mark only after its second await. `ShieldInv` says that until then the call
itself is the shield, as it holds the chat's run (`RunKept`), and `MarkInv` that a
call that will leave the mark down has no interrupted turn to protect from. A call
whose interrupt fails is a shield no more, and needs not be: it heard of no
interruption.

`RunsFollowed` is the safety part of `EveryRunEnds`: a run the phone was told of is the
chat's still, its end was told, or a newer run replaced it, runs in `disturbed` excepted.
The chat forgets its run in `stop_chat`, and the other parts of `FollowInv` say why it may
by then: `was_running` is down only after a `done` or during the send of a first delta
(`DownInv`), and a call that is about to forget has told the phone (`ToldInv`) or is
about the chat's run (`AskedInv`).

`NoHole` speaks of what is shown, which a call replaces or extends by pages it has
put together over several reads, with the log growing in between. `PageInv` says
what such a page is on its way: the messages got so far leave out none behind the
first of them, up to where the next read begins (`Closed`), and a page of older
messages ends before the first message shown. The last `Limit` of such a set are
such a set again, which is what lets a call throw away what is too old. Of what a
call shows that stopped at its bound on core pages (`capped`) nothing is claimed.

### ChatHandlesProofs

The calls that are out stand in the order they were made, and those behind move up
when one ends. `Shifted` says what a step does to them without their places: one
call is changed or gone, the others are there, each once.

* `MessageInv`: a message is with one call at most; it has landed once only if the
  call that carried it acked it, or the door gave up on it.
* `PromptedInv`: a runtime that a chat has, or a call other than an open is about to
  act in, belongs to a listed session while it is loaded. So a prompt to a chat
  never lists a second session; only an open can.
* `TwinInv`: while an open that met no other is creating a chat, there is none.
* `HomeInv`: for a chat that is not mixed, its poll, its handle and each of its calls
  are for the session it stands for, but for the handle between the two halves of a
  re-resolution. `ActsInItsSession` speaks only of requests already served.

### RequestProofs

`OneRunPerRequest` counts the runs that started. `OnceInv` counts the POSTs that are
out as well: runs and POSTs of an id together are at most one more than the
arrivals after the window forgot it, and an id that is in neither set never came.
`RelayInv` says that a relay is in the dictionary or its cancellation is on its
way, never both, and `StreamInv` bounds the queue: the event above `MaxQueue` is
the end of the run.

`ServedIfUp` is about the step in which a request ends; what makes it true is where
the search stands before. `Reaches` says that a search that has lost no answer still
has its server among the ports it is at or has yet to try: api_server for a run, and
for the rest each dashboard that ran all along and that the scan knows for the
profile's (`Known`, `Ahead`). Nothing is claimed of one that only serves the profile:
the scan leaves it out. At that
dashboard's port the search does not come to the end of a second attempt: what it
has scraped after the 401 is the token of the process that listens, and the process
that listens is the same, as it ran all along. What other requests and the supervisor do
to the cached port and the tokens in between does not matter to it. The list of
candidates is built from four pieces; `CandidateFacts` says that it has every port
of the profile and api_server's, and no more than three in all.

`ReplayOnlyInDoubt` is about what servers did, and the search cannot see that.
`Unanswered` says that a search for the server of a write goes on only while no
answer of a first attempt was read, and that the ports it has yet to try are
different and none has acted; `Untouched` that neither has the one it is at.

`BootInv` says that one backend boots at a time, and `FreshExists` counts the
identities that are referred to, so that a new process always finds one.

`EndsWithAWord`: a relay that ended has told the phone or was cancelled before its
`try`, never both, and left no event, cached approval or dictionary entry behind. That
it does end is `EveryRunToldOf`, for TLC.

### PromptsProofs

A prompt is popped in the step that settles its request; a handler may run after it,
and the same answer may come again at any moment. `PoppedInv` says that a task past its
first step has popped its prompt, `AnswerInv` and `HandledInv` that a prompt that settled
a request or ran a handler is registered no more and did it once. `RemoveAtFacts` is what
the library lacks of `RemoveAt`.

`UsedAnswersCount`: a button that was used leaves no request waiting behind it, other
than for the reasons collected in `missed` (section 2). Hermes' requests are given up, answered by
text or settled by another prompt's answer at any time in between; none of it makes a
used button's request wait again.

### Only model-checked

Liveness, fairness and ENABLED are out of the prover's reach: `EveryMessageSettles`,
`TurnsNoticed`, `EveryRunEnds`, `EveryForwardTold`, `ReadToTheEnd`,
`EveryRunToldOf`, `AnswerHeard`, `ApiComesUp`, `UnknownChatExpires`. So are
induction over data, as the library's induction theorems
take an operator as a parameter, and RECURSIVE operators; no module uses one.

What goes wrong by a hazard that no property covers is in `PROJECT.json` with the
reason: where the code does the wrong thing, the property that comes closest excludes it
by name, and the list in section 4 says so; several bots sharing the 200 ids, the
thread lookup and the pending-write poll are not modelled.

Every safety invariant and every action property that a passing run checks is
proved, and of four of the liveness properties the part that does not need progress.

## 6. Plan

Built: the inbound path first, since everything the phone says goes through it;
then what has most state across awaits (`BotNotify`, `StreamEdits`, `BotChat`),
the path a message takes to the laptop's own session (`LocalOwner`) and the
rooms; then the requests (`RunEvents`), the client they go through (`LocalApi`),
the names of a bot's chat (`ChatHandles`) and the prompts (`Prompts`).

Not built: `SessionRouting`, thread resolution and the continuation modes as pure
operators against a reference over all small session lists; `PendingWrites`, the
baseline of staged writes with one of its two reads failing; `BotNotify` with two
bots sharing the ids.

## 7. Not modelled

Bot policy, capability hello, attachments and the forwarding RPCs keep no state
between calls: each filters one answer or passes one request on. The cipher and the
keys are library calls. The pairing script is a sequential command-line program
outside the running system. Reactions and lifecycle events are one request each,
whose failure is logged.

## 8. Running it

```
tlc -workers 2 -config InboundQueue.cfg InboundQueue.tla
tlapm InboundQueueProofs.tla
```

and so for each run of the table, with the module and configuration that
`PROJECT.json` names. The longest run takes about three minutes with two workers.
