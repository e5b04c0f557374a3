------------------------------ MODULE RunEvents ------------------------------
(***************************************************************************)
(* The phone's RPCs about runs: the dispatcher and its window of request   *)
(* ids, the handlers of runs.start, runs.stop and approval.resolve, and    *)
(* one relay task per run that reads the run's SSE stream and sends its    *)
(* events to the phone, keeping the cache of open approvals.               *)
(*                                                                         *)
(* Every request is a task, suspended while its POST is out; every relay   *)
(* is a task, suspended for the token, for the next event and in each      *)
(* send.  A run asks for at most one approval at a time, which has the     *)
(* run's name here.  What other requests do to the port that LocalApi      *)
(* caches is OtherRequest.                                                 *)
(***************************************************************************)
EXTENDS Integers, Sequences, FiniteSets

CONSTANTS
  MaxIds,      \* bound: request ids of the phone
  MaxArrivals, \* bound: frames with a request, repeats included
  MaxRuns,     \* bound: runs with a relay
  MaxAsks,     \* bound: approval frames of one run
  MaxQueue,    \* bound: events of a run not yet relayed
  MaxEnds      \* bound: disconnects

ASSUME RunEventsAssumption ==
  /\ MaxIds \in Nat /\ MaxArrivals \in Nat /\ MaxRuns \in Nat
  /\ MaxAsks \in Nat /\ MaxQueue \in Nat \ {0} /\ MaxEnds \in Nat

Ids == 1..MaxIds
Runs == 1..MaxRuns
Tasks == 1..MaxArrivals

VARIABLES
  ask,       \* what the phone asks with an id: a kind and a run
  arrivals,  \* frames that came
  seen,      \* _seen_rpc_ids
  old,       \* ids whose last frame came more than 30 s ago
  task,      \* the handler task of a frame
  ends,
  known,     \* runs the phone was told the id of
  port,      \* the port LocalApi caches: "dash", or "api", which stands for None too
  started,   \* runs with a relay, by number
  hermes,    \* Hermes on a run: "running" or "ended"
  asks,      \* approval frames of a run
  queue,     \* events of a run between Hermes and its relay
  relay,     \* the relay task: "none", "created", "token", "reading", "sending", "stopping", "ended"
  event,     \* the event in the relay's send
  cancelled, \* relays with a cancellation on its way
  active,    \* _active_run_tasks
  approvals  \* _pending_approvals

\* Observations, read by no action's guard.
VARIABLES
  ran,       \* runs started for an id
  late,      \* frames of an id that came more than 30 s after the one before
  told,      \* runs for which a done event was sent, or found no socket
  early      \* relays cancelled before they read the stream

phone == <<ask, arrivals, known>>
core == <<started, hermes, asks>>
relays == <<relay, event, cancelled, active>>
history == <<ran, late, told, early>>
vars == <<phone, seen, old, task, ends, port, core, queue, relays, approvals, history>>

Nothing == [kind |-> "none", run |-> 0]
NoTask == [id |-> 0, at |-> "none"]

Init ==
  /\ ask = [i \in Ids |-> Nothing] /\ arrivals = 0 /\ seen = {} /\ old = {}
  /\ task = [t \in Tasks |-> NoTask]
  /\ ends = 0 /\ known = {} /\ port = "api"
  /\ started = 0 /\ hermes = [r \in Runs |-> "running"] /\ asks = [r \in Runs |-> 0]
  /\ queue = [r \in Runs |-> <<>>]
  /\ relay = [r \in Runs |-> "none"] /\ event = [r \in Runs |-> "none"]
  /\ cancelled = {} /\ active = {} /\ approvals = {}
  /\ ran = [i \in Ids |-> 0] /\ late = [i \in Ids |-> 0] /\ told = {} /\ early = {}

-----------------------------------------------------------------------------
(* Requests.                                                               *)

Cancels(S) == cancelled' = cancelled \cup S

\* Mutant: the window is pruned and the id not noted.
Noted_After(i) == seen' = seen \ old

\* _is_duplicate notes the id and then drops the entries older than 30 s.
Noted(i) == seen' = (seen \cup {i}) \ (old \ {i})

\* What the phone may ask with a new id, or the same again.
Asks(i) ==
  IF ask[i].kind # "none" THEN {ask[i]}
  ELSE {[kind |-> "start", run |-> 0]}
         \cup [kind : {"stop"}, run : known] \cup [kind : {"resolve"}, run : known]

\* A frame: dispatch up to the handler's first await, the POST.
Arrives(i) ==
  /\ arrivals < MaxArrivals /\ arrivals' = arrivals + 1
  /\ \A j \in 1..(i - 1) : ask[j].kind # "none"
  /\ \E a \in Asks(i) :
       /\ ask' = [ask EXCEPT ![i] = a]
       /\ Noted(i) /\ old' = old \ {i}
       /\ late' = IF i \in old THEN [late EXCEPT ![i] = @ + 1] ELSE late
       /\ IF i \in seen THEN UNCHANGED <<task, cancelled, active>>
          ELSE /\ task' = [task EXCEPT ![arrivals'] = [id |-> i, at |-> "posting"]]
               /\ IF a.kind = "stop" THEN Cancels({a.run} \cap active) /\ active' = active \ {a.run}
                  ELSE UNCHANGED <<cancelled, active>>
  /\ UNCHANGED <<known, ends, port, core, queue, relay, event, approvals, ran, told, early>>

TimePasses(i) ==
  /\ i \in seen \ old /\ arrivals < MaxArrivals
  /\ old' = old \cup {i}
  /\ UNCHANGED <<phone, seen, task, ends, port, core, queue, relays, approvals, history>>

Finish(t) == task' = [task EXCEPT ![t].at = "done"]

\* runs.start: Hermes starts a run, whose relay is spawned before the response
\* goes out, which may find no socket; or the POST's answer is lost, and nobody
\* here hears of the run.
RunStarts(t) ==
  /\ ran' = [ran EXCEPT ![task[t].id] = @ + 1]
  /\ port' = "api"
  /\ \/ /\ started < MaxRuns /\ started' = started + 1
        /\ relay' = [relay EXCEPT ![started'] = "created"]
        /\ active' = active \cup {started'}
        /\ known' \in {known, known \cup {started'}}
     \/ UNCHANGED <<started, relay, active, known>>
  /\ UNCHANGED <<hermes, queue, approvals>>

\* runs.stop: the handler ignores how the POST went.
RunStops(t) ==
  LET r == ask[task[t].id].run
  IN /\ port' = "api"
     /\ \/ /\ hermes' = [hermes EXCEPT ![r] = "ended"]
           /\ queue' = IF hermes[r] = "running" /\ relay[r] # "ended" THEN [queue EXCEPT ![r] = Append(@, "end")] ELSE queue
        \/ UNCHANGED <<hermes, queue>>
     /\ UNCHANGED <<started, ran, relay, active, known, approvals>>

\* approval.resolve: evicted when Hermes took the decision, which tells it too.
RunResolves(t) ==
  LET r == ask[task[t].id].run
  IN /\ port' = "api"
     /\ \/ /\ approvals' = approvals \ {r}
           /\ queue' = IF hermes[r] = "running" /\ Len(queue[r]) < MaxQueue /\ relay[r] # "ended"
                       THEN [queue EXCEPT ![r] = Append(@, "resolved")] ELSE queue
        \/ UNCHANGED <<queue, approvals>>
     /\ UNCHANGED <<started, hermes, ran, relay, active, known>>

\* The POST returns or fails, the handler goes on and the response is sent.
Returns(t) ==
  /\ task[t].at = "posting"
  /\ Finish(t)
  /\ LET kind == ask[task[t].id].kind
     IN \/ kind = "start" /\ RunStarts(t)
        \/ kind = "stop" /\ RunStops(t)
        \/ kind = "resolve" /\ RunResolves(t)
        \/ /\ kind = "start"   \* no run, and no relay
           /\ UNCHANGED <<port, started, hermes, ran, queue, relay, active, known, approvals>>
  /\ UNCHANGED <<ask, arrivals, seen, old, ends, asks, event, cancelled, late, told, early>>

\* Any request that a dashboard answers.
OtherRequest ==
  /\ port # "dash" /\ port' = "dash"
  /\ UNCHANGED <<phone, seen, old, task, ends, core, queue, relays, approvals, history>>

-----------------------------------------------------------------------------
(* Hermes' side of a run, and the thread that reads its stream.            *)

Streams(r) == r <= started /\ relay[r] # "ended" /\ Len(queue[r]) < MaxQueue

HermesAsks(r) ==
  /\ hermes[r] = "running" /\ Streams(r)
  /\ asks[r] < MaxAsks /\ asks' = [asks EXCEPT ![r] = @ + 1]
  /\ queue' = [queue EXCEPT ![r] = Append(@, "approval")]
  /\ UNCHANGED <<phone, seen, old, task, ends, port, started, hermes, relays, approvals, history>>

HermesEnds(r) ==
  /\ hermes[r] = "running" /\ Streams(r)
  /\ hermes' = [hermes EXCEPT ![r] = "ended"]
  /\ queue' = [queue EXCEPT ![r] = Append(@, "end")]
  /\ UNCHANGED <<phone, seen, old, task, ends, port, started, asks, relays, approvals, history>>

\* The stream ends with the run, breaks, or times out.
StreamCloses(r) ==
  /\ relay[r] \in {"reading", "sending"} /\ Streams(r)
  /\ \A i \in 1..Len(queue[r]) : queue[r][i] \notin {"done", "error"}
  /\ \E e \in {"done", "error"} : queue' = [queue EXCEPT ![r] = Append(@, e)]
  /\ UNCHANGED <<phone, seen, old, task, ends, port, core, relays, approvals, history>>

-----------------------------------------------------------------------------
(* _stream_run_events.                                                     *)

Ends(r) == relay' = [relay EXCEPT ![r] = "ended"]

\* Mutant: the task stays in _active_run_tasks.
Finally_StaysActive(r) ==
  /\ Ends(r) /\ UNCHANGED active
  /\ event' = [event EXCEPT ![r] = "none"] /\ queue' = [queue EXCEPT ![r] = <<>>]
  /\ approvals' = approvals \ {r}

Finally(r) ==
  /\ Ends(r) /\ active' = active \ {r}
  /\ event' = [event EXCEPT ![r] = "none"] /\ queue' = [queue EXCEPT ![r] = <<>>]
  /\ approvals' = approvals \ {r}

\* Before the try: the first step reads the port, the second, after the token,
\* reads it again and starts the thread.  A cancellation ends the task here.
CancelledEarly(r) ==
  /\ relay[r] \in {"created", "token"} /\ r \in cancelled
  /\ Ends(r) /\ queue' = [queue EXCEPT ![r] = <<>>]
  /\ early' = early \cup {r}
  /\ UNCHANGED <<phone, seen, old, task, ends, port, core, event, cancelled, active, approvals, ran, late, told>>

AsksToken(r) ==
  /\ relay[r] = "created" /\ r \notin cancelled
  /\ relay' = [relay EXCEPT ![r] = "token"]
  /\ UNCHANGED <<phone, seen, old, task, ends, port, core, queue, event, cancelled, active, approvals, history>>

\* The stream is asked for on the cached port; a dashboard answers 404.
Subscribes(r) ==
  /\ relay[r] = "token" /\ r \notin cancelled
  /\ relay' = [relay EXCEPT ![r] = "reading"]
  /\ queue' = IF port = "dash" THEN [queue EXCEPT ![r] = <<"error">>] ELSE queue
  /\ UNCHANGED <<phone, seen, old, task, ends, port, core, event, cancelled, active, approvals, history>>

\* _handle_run_sse_event.
Cached(r, e) ==
  approvals' = CASE e = "approval" -> approvals \cup {r}
                 [] e \in {"resolved", "end"} -> approvals \ {r}
                 [] OTHER -> approvals

Takes(r) ==
  /\ relay[r] = "reading" /\ r \notin cancelled /\ queue[r] # <<>>
  /\ relay' = [relay EXCEPT ![r] = "sending"]
  /\ event' = [event EXCEPT ![r] = Head(queue[r])]
  /\ queue' = [queue EXCEPT ![r] = Tail(@)]
  /\ Cached(r, Head(queue[r]))
  /\ UNCHANGED <<phone, seen, old, task, ends, port, core, cancelled, active, history>>

\* The send of an event; done goes with the last, and ends the task.
Sends(r) ==
  /\ relay[r] = "sending" /\ r \notin cancelled
  /\ IF event[r] \in {"end", "done", "error"}
     THEN Finally(r) /\ told' = told \cup {r}
     ELSE /\ relay' = [relay EXCEPT ![r] = "reading"]
          /\ event' = [event EXCEPT ![r] = "none"]
          /\ UNCHANGED <<queue, active, approvals, told>>
  /\ UNCHANGED <<phone, seen, old, task, ends, port, core, cancelled, ran, late, early>>

\* Mutant: the cancellation is not caught.
IsCancelled_Uncaught(r) ==
  /\ relay[r] \in {"reading", "sending"} /\ r \in cancelled
  /\ Finally(r)
  /\ UNCHANGED <<phone, seen, old, task, ends, port, core, cancelled, history>>

IsCancelled(r) ==
  /\ relay[r] \in {"reading", "sending"} /\ r \in cancelled
  /\ relay' = [relay EXCEPT ![r] = "stopping"]
  /\ event' = [event EXCEPT ![r] = "none"]
  /\ cancelled' = cancelled \ {r}
  /\ UNCHANGED <<phone, seen, old, task, ends, port, core, queue, active, approvals, history>>

\* run.stopped is sent.
Stopped(r) ==
  /\ relay[r] = "stopping"
  /\ Finally(r) /\ told' = told \cup {r}
  /\ UNCHANGED <<phone, seen, old, task, ends, port, core, cancelled, ran, late, early>>

-----------------------------------------------------------------------------
\* disconnect cancels every relay.
Disconnects ==
  /\ ends < MaxEnds /\ ends' = ends + 1
  /\ Cancels(active) /\ active' = {}
  /\ UNCHANGED <<phone, seen, old, task, port, core, queue, relay, event, approvals, history>>

Next ==
  \/ \E i \in Ids : Arrives(i) \/ TimePasses(i)
  \/ \E t \in Tasks : Returns(t)
  \/ OtherRequest \/ Disconnects
  \/ \E r \in Runs : HermesAsks(r) \/ HermesEnds(r) \/ StreamCloses(r)
  \/ \E r \in Runs : CancelledEarly(r) \/ AsksToken(r) \/ Subscribes(r) \/ Takes(r)
                       \/ Sends(r) \/ IsCancelled(r) \/ Stopped(r)

\* Tasks run, and a stream ends at the latest 300 s after its last byte.
RelayRuns(r) == CancelledEarly(r) \/ AsksToken(r) \/ Subscribes(r) \/ Takes(r)
                  \/ Sends(r) \/ IsCancelled(r) \/ Stopped(r)
Fairness == \A r \in Runs : WF_vars(RelayRuns(r)) /\ WF_vars(StreamCloses(r))

Spec == Init /\ [][Next]_vars /\ Fairness

-----------------------------------------------------------------------------
\* Types.  A run has a relay only if it was started; a task that reads or
\* sends is the dictionary's, or stop or disconnect has cancelled it; and
\* approvals.list shows no approval of a run that nobody watches any more.
TypeOK ==
  /\ ask \in [Ids -> [kind : {"none", "start", "stop", "resolve"}, run : Runs \cup {0}]]
  /\ arrivals \in 0..MaxArrivals /\ seen \subseteq Ids /\ old \subseteq Ids
  /\ task \in [Tasks -> [id : Ids \cup {0}, at : {"none", "posting", "done"}]]
  /\ ends \in 0..MaxEnds
  /\ known \subseteq 1..started /\ port \in {"api", "dash"} /\ started \in 0..MaxRuns
  /\ hermes \in [Runs -> {"running", "ended"}] /\ asks \in [Runs -> 0..MaxAsks]
  /\ \A r \in Runs : Len(queue[r]) <= MaxQueue + 1
  /\ relay \in [Runs -> {"none", "created", "token", "reading", "sending", "stopping", "ended"}]
  /\ event \in [Runs -> {"none", "approval", "resolved", "end", "done", "error"}]
  /\ cancelled \subseteq Runs /\ active \subseteq Runs /\ approvals \subseteq Runs
  /\ \A r \in Runs : relay[r] # "none" => r <= started
  /\ \A r \in Runs : relay[r] \in {"created", "token", "reading", "sending"} <=> r \in active \cup (cancelled \ {s \in Runs : relay[s] = "ended"})
  /\ \A r \in approvals : relay[r] \in {"reading", "sending", "stopping"}
  /\ ran \in [Ids -> Nat] /\ late \in [Ids -> Nat] /\ told \subseteq Runs /\ early \subseteq Runs

\* One request starts one run, however often its frame is repeated, also while
\* the POST is out: only a repeat that comes 30 s after the frame before it can
\* start another (_is_duplicate).
OneRunPerRequest == \A i \in Ids : ran[i] <= 1 + late[i]

\* Every relay ends, and with an event marked done, sent or dropped for want of
\* a socket: completed, failed, broken stream or stopped.  Not so, by name,
\* when it is cancelled before it enters the try.
EveryRunToldOf == \A r \in Runs : relay[r] = "created" ~> r \in told \cup early
=============================================================================
