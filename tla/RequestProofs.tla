---------------------------- MODULE RequestProofs ----------------------------
(***************************************************************************)
(* Theorems about the phone's requests, for every value of the constants:  *)
(* the runs they start (RunEvents), and the client of Hermes' HTTP API     *)
(* they go through (LocalApi).  The two specifications share no variable.  *)
(***************************************************************************)
EXTENDS RunEvents, LocalApi, FiniteSetTheorems, SequenceTheorems, TLAPS

-----------------------------------------------------------------------------
(* Runs.                                                                   *)

\* The requests: what is posted was asked for, and a stop or a resolve names a
\* run the phone was told of.
AskRecs == [kind : {"none", "start", "stop", "resolve"}, run : Runs \cup {0}]
TaskRecs == [id : Ids \cup {0}, at : {"none", "posting", "done"}]
RequestInv ==
  /\ ask \in [Ids -> AskRecs] /\ task \in [Tasks -> TaskRecs]
  /\ arrivals \in 0..MaxArrivals /\ seen \subseteq Ids /\ old \subseteq Ids
  /\ started \in 0..MaxRuns /\ known \subseteq 1..started
  /\ ends \in 0..MaxEnds /\ port \in {"api", "dash"}
  /\ \A i \in Ids : ask[i].kind \in {"stop", "resolve"} => ask[i].run \in known
  /\ \A t \in Tasks : task[t].at = "posting" => task[t].id \in Ids /\ ask[task[t].id].kind # "none"

\* The events on their way to the relay: the one more than MaxQueue is the end
\* of the run.
Events == {"approval", "resolved", "end", "done", "error"}
StreamInv ==
  /\ hermes \in [Runs -> {"running", "ended"}] /\ asks \in [Runs -> 0..MaxAsks]
  /\ queue \in [Runs -> Seq(Events)]
  /\ \A r \in Runs : Len(queue[r]) <= (IF hermes[r] = "running" THEN MaxQueue ELSE MaxQueue + 1)

\* A relay is in the dictionary, or its cancellation is on its way, never both;
\* an approval that is cached has a relay past its subscription.
Watching == {"created", "token", "reading", "sending"}
RelayInv ==
  /\ relay \in [Runs -> Watching \cup {"none", "stopping", "ended"}] /\ event \in [Runs -> Events \cup {"none"}]
  /\ cancelled \subseteq Runs /\ active \subseteq Runs /\ approvals \subseteq Runs
  /\ told \subseteq Runs /\ early \subseteq Runs
  /\ \A r \in Runs : relay[r] # "none" => r <= started
  /\ active \cap cancelled = {}
  /\ \A r \in Runs : relay[r] \in Watching <=> r \in active \/ (r \in cancelled /\ relay[r] # "ended")
  /\ \A r \in approvals : relay[r] \in {"reading", "sending", "stopping"}

\* The POSTs of an id that are out may each start a run; an id that the window
\* has forgotten either never came or is old.
Posting(i) == {t \in Tasks : task[t].id = i /\ task[t].at = "posting"}
OnceInv ==
  /\ ran \in [Ids -> Nat] /\ late \in [Ids -> Nat]
  /\ \A i \in Ids : i \in seen \cup old \/ (ran[i] = 0 /\ Posting(i) = {})
  /\ \A i \in Ids : ran[i] + Cardinality(Posting(i)) <= 1 + late[i]

IInv == RequestInv /\ StreamInv /\ RelayInv /\ OnceInv

-----------------------------------------------------------------------------
(* Each part of the invariant, through the actions that can disturb it.    *)

LEMMA Numbers ==
  /\ 0 \notin Runs /\ \A t \in Tasks : t \in Nat
  /\ MaxRuns \in Nat /\ MaxArrivals \in Nat /\ MaxAsks \in Nat /\ MaxQueue \in Nat /\ MaxQueue >= 1
  /\ MaxEnds \in Nat /\ MaxIds \in Nat /\ 0 \notin Ids
BY RunEventsAssumption DEF Runs, Tasks, Ids

\* A frame is a new id, or one that asks for the same again.
LEMMA ArrivesRequest ==
  ASSUME RequestInv, NEW i \in Ids, Arrives(i)
  PROVE  RequestInv'
<1>1. PICK a \in Asks(i) :
        /\ ask' = [ask EXCEPT ![i] = a] /\ Noted(i) /\ old' = old \ {i}
        /\ IF i \in seen THEN UNCHANGED task
           ELSE task' = [task EXCEPT ![arrivals'] = [id |-> i, at |-> "posting"]]
  BY DEF Arrives
<1>2. arrivals < MaxArrivals /\ arrivals' = arrivals + 1 /\ UNCHANGED <<known, ends, port, started>>
  BY DEF Arrives, core
<1>3. arrivals' \in 0..MaxArrivals /\ arrivals' \in Tasks
  BY <1>2, Numbers DEF RequestInv, Tasks
<1>4. known \subseteq Runs
  BY Numbers DEF RequestInv, Runs
<1>5. a \in AskRecs /\ a.kind # "none" /\ (a.kind \in {"stop", "resolve"} => a.run \in known)
  <2>1. CASE ask[i].kind # "none"
    BY <2>1 DEF Asks, RequestInv
  <2>2. CASE ask[i].kind = "none"
    BY <1>4, <2>2 DEF Asks, AskRecs
  <2>3. QED
    BY <2>1, <2>2
<1>6. ask' \in [Ids -> AskRecs] /\ ask'[i] = a /\ \A j \in Ids : j # i => ask'[j] = ask[j]
  BY <1>1, <1>5 DEF RequestInv
<1>7. /\ task' \in [Tasks -> TaskRecs]
      /\ \A t \in Tasks : task'[t] = task[t] \/ (task'[t].id = i /\ task'[t].at = "posting")
  <2>1. [id |-> i, at |-> "posting"] \in TaskRecs
    BY DEF TaskRecs
  <2>2. QED
    BY <1>1, <1>3, <2>1 DEF RequestInv
<1>8. seen' \subseteq Ids /\ old' \subseteq Ids
  BY <1>1 DEF Noted, RequestInv
<1>9. \A j \in Ids : ask'[j].kind \in {"stop", "resolve"} => ask'[j].run \in known
  BY <1>5, <1>6 DEF RequestInv
<1>10. \A t \in Tasks : task'[t].at = "posting" => task'[t].id \in Ids /\ ask'[task'[t].id].kind # "none"
  BY <1>5, <1>6, <1>7 DEF RequestInv
<1>11. QED
  BY <1>2, <1>3, <1>6, <1>7, <1>8, <1>9, <1>10 DEF RequestInv

LEMMA ReturnsRequest ==
  ASSUME RequestInv, NEW t \in Tasks, Returns(t)
  PROVE  RequestInv'
<1>1. /\ task' = [task EXCEPT ![t].at = "done"] /\ UNCHANGED <<ask, arrivals, seen, old, ends>>
  BY DEF Returns, Finish
<1>2. /\ port' \in {port, "api"} /\ started' \in 0..MaxRuns /\ started <= started'
      /\ known \subseteq known' /\ known' \subseteq 1..started'
  <2>1. CASE UNCHANGED <<port, started, known>> \/ (port' = "api" /\ UNCHANGED <<started, known>>)
    <3>1. port' \in {port, "api"} /\ started' = started /\ known' = known
      BY <2>1
    <3>2. started \in 0..MaxRuns /\ known \subseteq 1..started
      BY DEF RequestInv
    <3>3. started <= started'
      BY <3>1, <3>2, Numbers
    <3>4. QED
      BY <3>1, <3>2, <3>3
  <2>2. CASE /\ port' = "api" /\ started < MaxRuns /\ started' = started + 1
             /\ known' \in {known, known \cup {started'}}
    BY <2>2, Numbers DEF RequestInv
  <2>3. QED
    BY <2>1, <2>2 DEF Returns, RunStarts, RunStops, RunResolves
<1>3. /\ task' \in [Tasks -> TaskRecs]
      /\ \A u \in Tasks : task'[u].at = "posting" => task'[u] = task[u]
  <2>1. task[t] \in TaskRecs
    BY DEF RequestInv
  <2>2. [task[t] EXCEPT !.at = "done"] \in TaskRecs
    BY <2>1 DEF TaskRecs
  <2>3. /\ task' = [task EXCEPT ![t] = [task[t] EXCEPT !.at = "done"]]
        /\ [task[t] EXCEPT !.at = "done"].at = "done"
    BY <1>1, <2>1 DEF TaskRecs
  <2>4. QED
    BY <2>2, <2>3 DEF RequestInv
<1>4. QED
  BY <1>1, <1>2, <1>3 DEF RequestInv

LEMMA RequestStep ==
  ASSUME IInv, [Next]_vars
  PROVE  RequestInv'
<1>1. RequestInv
  BY DEF IInv
<1>2. ASSUME NEW i \in Ids, Arrives(i) PROVE RequestInv'
  BY <1>1, <1>2, ArrivesRequest
<1>3. ASSUME NEW t \in Tasks, Returns(t) PROVE RequestInv'
  BY <1>1, <1>3, ReturnsRequest
<1>4. ASSUME NEW i \in Ids, TimePasses(i) PROVE RequestInv'
  BY <1>1, <1>4 DEF TimePasses, RequestInv, phone, core
<1>5. CASE OtherRequest
  BY <1>1, <1>5 DEF OtherRequest, RequestInv, phone, core
<1>6. CASE Disconnects
  <2>1. ends' \in 0..MaxEnds
    BY <1>1, <1>6, Numbers DEF Disconnects, RequestInv
  <2>2. QED
    BY <1>1, <1>6, <2>1 DEF Disconnects, RequestInv, phone, core
<1>7. ASSUME NEW r \in Runs,
             \/ HermesAsks(r) \/ HermesEnds(r) \/ StreamCloses(r) \/ CancelledEarly(r) \/ AsksToken(r)
             \/ Subscribes(r) \/ Takes(r) \/ Sends(r) \/ IsCancelled(r) \/ Stopped(r)
      PROVE  RequestInv'
  <2>1. UNCHANGED <<ask, task, arrivals, seen, old, started, known, ends, port>>
    BY <1>7 DEF HermesAsks, HermesEnds, StreamCloses, CancelledEarly, AsksToken, Subscribes, Takes, Sends,
                IsCancelled, Stopped, phone, core
  <2>2. QED
    BY <1>1, <2>1 DEF RequestInv
<1>8. CASE UNCHANGED vars
  BY <1>1, <1>8 DEF vars, phone, core, RequestInv
<1>9. QED
  BY <1>2, <1>3, <1>4, <1>5, <1>6, <1>7, <1>8 DEF Next

\* What the bounded queue of a run's events takes and gives.
LEMMA QueueFacts ==
  ASSUME NEW q \in Seq(Events)
  PROVE  /\ Len(q) \in Nat
         /\ \A e \in Events : Append(q, e) \in Seq(Events) /\ Len(Append(q, e)) = Len(q) + 1
         /\ q # <<>> => Head(q) \in Events /\ Tail(q) \in Seq(Events) /\ Len(Tail(q)) <= Len(q)
         /\ <<>> \in Seq(Events) /\ Len(<<>>) = 0 /\ <<"error">> \in Seq(Events) /\ Len(<<"error">>) = 1
<1>1. Len(q) \in Nat
  OBVIOUS
<1>2. \A e \in Events : Append(q, e) \in Seq(Events) /\ Len(Append(q, e)) = Len(q) + 1
  OBVIOUS
<1>3. ASSUME q # <<>> PROVE Head(q) \in Events /\ Tail(q) \in Seq(Events) /\ Len(Tail(q)) <= Len(q)
  BY <1>3
<1>4. "error" \in Events
  BY DEF Events
<1>5. <<>> \in Seq(Events) /\ Len(<<>>) = 0 /\ <<"error">> \in Seq(Events) /\ Len(<<"error">>) = 1
  BY <1>4
<1>6. QED
  BY <1>1, <1>2, <1>3, <1>5

\* A step that puts another queue in front of one relay.
LEMMA OneQueue ==
  ASSUME StreamInv, NEW r \in Runs, NEW q \in Seq(Events), queue' = [queue EXCEPT ![r] = q],
         asks' \in [Runs -> 0..MaxAsks],
         hermes' = hermes \/ hermes' = [hermes EXCEPT ![r] = "ended"],
         Len(q) <= (IF hermes'[r] = "running" THEN MaxQueue ELSE MaxQueue + 1)
  PROVE  StreamInv'
<1>1. queue' \in [Runs -> Seq(Events)] /\ queue'[r] = q /\ \A x \in Runs : x # r => queue'[x] = queue[x]
  BY DEF StreamInv
<1>2. hermes' \in [Runs -> {"running", "ended"}] /\ \A x \in Runs : x # r => hermes'[x] = hermes[x]
  BY DEF StreamInv
<1>3. \A x \in Runs : Len(queue'[x]) <= (IF hermes'[x] = "running" THEN MaxQueue ELSE MaxQueue + 1)
  BY <1>1, <1>2 DEF StreamInv
<1>4. QED
  BY <1>1, <1>2, <1>3 DEF StreamInv

LEMMA ReturnsStream ==
  ASSUME RequestInv, StreamInv, NEW t \in Tasks, Returns(t)
  PROVE  StreamInv'
<1>1. asks' = asks
  BY DEF Returns
<1>2. CASE UNCHANGED <<hermes, queue>>
  BY <1>1, <1>2 DEF StreamInv
<1>3. ASSUME ask[task[t].id].kind \in {"stop", "resolve"}, RunStops(t) \/ RunResolves(t) PROVE StreamInv'
  <2>1. PICK r : r = ask[task[t].id].run
    OBVIOUS
  <2>2. r \in Runs
    <3>1. task[t].id \in Ids
      BY DEF Returns, RequestInv
    <3>2. r \in 1..started /\ started \in 0..MaxRuns
      BY <1>3, <2>1, <3>1 DEF RequestInv
    <3>3. QED
      BY <3>2, Numbers DEF Runs
  <2>3. /\ queue[r] \in Seq(Events) /\ Len(queue[r]) \in Nat
        /\ Len(queue[r]) <= (IF hermes[r] = "running" THEN MaxQueue ELSE MaxQueue + 1)
        /\ asks \in [Runs -> 0..MaxAsks]
    BY <2>2 DEF StreamInv
  <2>4. CASE /\ hermes' = [hermes EXCEPT ![r] = "ended"]
             /\ queue' = IF hermes[r] = "running" /\ relay[r] # "ended"
                         THEN [queue EXCEPT ![r] = Append(queue[r], "end")] ELSE queue
    <3>1. queue' = IF hermes[r] = "running" /\ relay[r] # "ended"
                   THEN [queue EXCEPT ![r] = Append(queue[r], "end")] ELSE queue
      BY <2>4
    <3>2. hermes'[r] = "ended"
      BY <2>2, <2>4 DEF StreamInv
    <3>3. CASE hermes[r] = "running" /\ relay[r] # "ended"
      <4>1. Append(queue[r], "end") \in Seq(Events) /\ Len(Append(queue[r], "end")) = Len(queue[r]) + 1
        BY <2>3, QueueFacts DEF Events
      <4>2. Len(Append(queue[r], "end")) <= MaxQueue + 1
        BY <2>3, <3>3, <4>1, Numbers
      <4>3. QED
        BY <1>1, <2>2, <2>3, <2>4, <3>1, <3>2, <3>3, <4>1, <4>2, OneQueue
    <3>4. CASE ~(hermes[r] = "running" /\ relay[r] # "ended")
      <4>1. queue' = [queue EXCEPT ![r] = queue[r]]
        BY <3>1, <3>4 DEF StreamInv
      <4>2. Len(queue[r]) <= MaxQueue + 1
        BY <2>3, Numbers
      <4>3. QED
        BY <1>1, <2>2, <2>3, <2>4, <3>2, <4>1, <4>2, OneQueue
    <3>5. QED
      BY <3>3, <3>4
  <2>5. CASE RunResolves(t) /\ hermes[r] = "running" /\ Len(queue[r]) < MaxQueue
             /\ queue' = [queue EXCEPT ![r] = Append(queue[r], "resolved")]
    <3>1. Append(queue[r], "resolved") \in Seq(Events) /\ Len(Append(queue[r], "resolved")) = Len(queue[r]) + 1
      BY <2>3, QueueFacts DEF Events
    <3>2. hermes' = hermes
      BY <2>5 DEF RunResolves
    <3>3. Len(Append(queue[r], "resolved")) <= MaxQueue
      BY <2>3, <2>5, <3>1, Numbers
    <3>4. QED
      BY <1>1, <2>2, <2>3, <2>5, <3>1, <3>2, <3>3, OneQueue
  <2>6. QED
    BY <1>2, <1>3, <2>1, <2>4, <2>5 DEF RunStops, RunResolves
<1>4. QED
  BY <1>2, <1>3 DEF Returns, RunStarts

LEMMA StreamStep ==
  ASSUME IInv, [Next]_vars
  PROVE  StreamInv'
<1>1. RequestInv /\ StreamInv
  BY DEF IInv
<1>2. ASSUME NEW t \in Tasks, Returns(t) PROVE StreamInv'
  BY <1>1, <1>2, ReturnsStream
<1>3. ASSUME NEW r \in Runs, HermesAsks(r) \/ HermesEnds(r) \/ StreamCloses(r) PROVE StreamInv'
  <2>1. /\ queue[r] \in Seq(Events) /\ Len(queue[r]) \in Nat /\ Len(queue[r]) < MaxQueue
        /\ hermes[r] \in {"running", "ended"}
    BY <1>1, <1>3 DEF StreamInv, Streams, HermesAsks, HermesEnds, StreamCloses
  <2>2. PICK e \in Events : queue' = [queue EXCEPT ![r] = Append(queue[r], e)]
    BY <1>3 DEF HermesAsks, HermesEnds, StreamCloses, Events
  <2>3. Append(queue[r], e) \in Seq(Events) /\ Len(Append(queue[r], e)) = Len(queue[r]) + 1
    BY <2>1, QueueFacts
  <2>4. asks' \in [Runs -> 0..MaxAsks]
    <3>1. CASE HermesAsks(r)
      <4>1. asks[r] \in 0..MaxAsks /\ asks[r] < MaxAsks /\ asks' = [asks EXCEPT ![r] = asks[r] + 1]
        BY <1>1, <3>1 DEF StreamInv, HermesAsks
      <4>2. asks[r] + 1 \in 0..MaxAsks
        BY <4>1, Numbers
      <4>3. QED
        BY <1>1, <4>1, <4>2 DEF StreamInv
    <3>2. CASE ~HermesAsks(r)
      BY <1>1, <1>3, <3>2 DEF StreamInv, HermesEnds, StreamCloses, core
    <3>3. QED
      BY <3>1, <3>2
  <2>5. hermes' = hermes \/ hermes' = [hermes EXCEPT ![r] = "ended"]
    BY <1>3 DEF HermesAsks, HermesEnds, StreamCloses, core
  <2>6. Len(Append(queue[r], e)) <= (IF hermes'[r] = "running" THEN MaxQueue ELSE MaxQueue + 1)
    BY <2>1, <2>3, Numbers
  <2>7. QED
    BY <1>1, <2>2, <2>3, <2>4, <2>5, <2>6, OneQueue
<1>4. ASSUME NEW r \in Runs,
             \/ CancelledEarly(r) \/ AsksToken(r) \/ Subscribes(r) \/ Takes(r)
             \/ Sends(r) \/ IsCancelled(r) \/ Stopped(r)
      PROVE  StreamInv'
  <2>1. hermes' = hermes /\ asks' = asks
    BY <1>4 DEF CancelledEarly, AsksToken, Subscribes, Takes, Sends, IsCancelled, Stopped, core
  <2>2. CASE queue' = queue
    BY <1>1, <2>1, <2>2 DEF StreamInv
  <2>3. CASE queue' # queue
    <3>1. queue[r] \in Seq(Events) /\ Len(queue[r]) <= (IF hermes[r] = "running" THEN MaxQueue ELSE MaxQueue + 1)
      BY <1>1 DEF StreamInv
    <3>2. PICK q : /\ queue' = [queue EXCEPT ![r] = q]
                   /\ q = <<>> \/ q = <<"error">> \/ (queue[r] # <<>> /\ q = Tail(queue[r]))
      BY <1>4, <2>3 DEF CancelledEarly, AsksToken, Subscribes, Takes, Sends, IsCancelled, Stopped, Finally
    <3>3. q \in Seq(Events) /\ (Len(q) <= Len(queue[r]) \/ Len(q) <= 1) /\ Len(q) \in Nat /\ Len(queue[r]) \in Nat
      <4>1. q \in Seq(Events) /\ (Len(q) <= Len(queue[r]) \/ Len(q) <= 1)
        <5>1. CASE q = <<>>
          BY <3>1, <5>1, QueueFacts
        <5>2. CASE q = <<"error">>
          BY <3>1, <5>2, QueueFacts
        <5>3. CASE queue[r] # <<>> /\ q = Tail(queue[r])
          BY <3>1, <5>3, QueueFacts
        <5>4. QED
          BY <3>2, <5>1, <5>2, <5>3
      <4>2. QED
        BY <3>1, <4>1, QueueFacts
    <3>4. Len(q) <= (IF hermes'[r] = "running" THEN MaxQueue ELSE MaxQueue + 1)
      BY <2>1, <3>1, <3>3, Numbers
    <3>5. asks' \in [Runs -> 0..MaxAsks]
      BY <1>1, <2>1 DEF StreamInv
    <3>6. QED
      BY <1>1, <2>1, <3>2, <3>3, <3>4, <3>5, OneQueue
  <2>4. QED
    BY <2>2, <2>3
<1>5. CASE (\E i \in Ids : Arrives(i) \/ TimePasses(i)) \/ OtherRequest \/ Disconnects \/ UNCHANGED vars
  <2>1. UNCHANGED <<hermes, asks, queue>>
    BY <1>5 DEF Arrives, TimePasses, OtherRequest, Disconnects, vars, core
  <2>2. QED
    BY <1>1, <2>1 DEF StreamInv
<1>6. QED
  BY <1>2, <1>3, <1>4, <1>5 DEF Next

\* A step of one relay, or of what is said of it.
LEMMA OneRelay ==
  ASSUME RelayInv, NEW r \in Runs, NEW x \in Watching \cup {"none", "stopping", "ended"},
         relay' = [relay EXCEPT ![r] = x], event' \in [Runs -> Events \cup {"none"}],
         active' \subseteq Runs, cancelled' \subseteq Runs, approvals' \subseteq Runs,
         told' \subseteq Runs, early' \subseteq Runs,
         \A y \in Runs : y # r => /\ y \in active' <=> y \in active
                                  /\ y \in cancelled' <=> y \in cancelled
                                  /\ y \in approvals' => y \in approvals,
         \A y \in Runs : y <= started => y <= started', r <= started',
         r \notin active' \cap cancelled',
         x \in Watching <=> r \in active' \/ (r \in cancelled' /\ x # "ended"),
         r \in approvals' => x \in {"reading", "sending", "stopping"}
  PROVE  RelayInv'
<1>1. /\ relay' \in [Runs -> Watching \cup {"none", "stopping", "ended"}] /\ relay'[r] = x
      /\ \A y \in Runs : y # r => relay'[y] = relay[y]
  BY DEF RelayInv
<1>2. \A y \in Runs : relay'[y] # "none" => y <= started'
  BY <1>1 DEF RelayInv
<1>3. active' \cap cancelled' = {}
  BY DEF RelayInv
<1>4. \A y \in Runs : relay'[y] \in Watching <=> y \in active' \/ (y \in cancelled' /\ relay'[y] # "ended")
  BY <1>1 DEF RelayInv
<1>5. \A y \in approvals' : relay'[y] \in {"reading", "sending", "stopping"}
  BY <1>1 DEF RelayInv
<1>6. QED
  BY <1>1, <1>2, <1>3, <1>4, <1>5 DEF RelayInv

\* The cancellation of some relays of the dictionary.
LEMMA Cancelling ==
  ASSUME RelayInv, NEW S \in SUBSET active, Cancels(S), active' = active \ S,
         UNCHANGED <<relay, event, approvals, told, early, started>>
  PROVE  RelayInv'
<1>1. cancelled' = cancelled \cup S /\ cancelled' \subseteq Runs /\ active' \subseteq Runs
  BY DEF Cancels, RelayInv
<1>2. active' \cap cancelled' = {}
  BY <1>1 DEF RelayInv
<1>3. \A y \in S : relay[y] # "ended"
  BY DEF RelayInv, Watching
<1>4. \A y \in Runs : relay'[y] \in Watching <=> y \in active' \/ (y \in cancelled' /\ relay'[y] # "ended")
  BY <1>1, <1>3 DEF RelayInv
<1>5. QED
  BY <1>1, <1>2, <1>4 DEF RelayInv

LEMMA StepsOfRelay ==
  ASSUME RequestInv, StreamInv, RelayInv, NEW r \in Runs,
         \/ CancelledEarly(r) \/ AsksToken(r) \/ Subscribes(r) \/ Takes(r)
         \/ Sends(r) \/ IsCancelled(r) \/ Stopped(r)
  PROVE  RelayInv'
<1>1. started' = started /\ r <= started
  BY DEF CancelledEarly, AsksToken, Subscribes, Takes, Sends, IsCancelled, Stopped, RelayInv, core
<1>2. ASSUME NEW e \in Events \cup {"none"} PROVE [event EXCEPT ![r] = e] \in [Runs -> Events \cup {"none"}]
  BY DEF RelayInv
<1>3. event \in [Runs -> Events \cup {"none"}] /\ active \subseteq Runs /\ cancelled \subseteq Runs
      /\ approvals \subseteq Runs /\ told \subseteq Runs /\ early \subseteq Runs /\ active \cap cancelled = {}
      /\ (relay[r] \in Watching <=> r \in active \/ (r \in cancelled /\ relay[r] # "ended"))
      /\ (r \in approvals => relay[r] \in {"reading", "sending", "stopping"})
  BY DEF RelayInv
<1>4. CASE CancelledEarly(r)
  <2>1. /\ relay[r] \in {"created", "token"} /\ r \in cancelled /\ relay' = [relay EXCEPT ![r] = "ended"]
        /\ early' = early \cup {r} /\ UNCHANGED <<event, cancelled, active, approvals, told>>
    BY <1>4 DEF CancelledEarly, Ends
  <2>2. QED
    BY <1>1, <1>3, <2>1, OneRelay DEF Watching
<1>5. CASE AsksToken(r)
  <2>1. /\ relay[r] = "created" /\ relay' = [relay EXCEPT ![r] = "token"]
        /\ UNCHANGED <<event, cancelled, active, approvals, told, early>>
    BY <1>5 DEF AsksToken, history
  <2>2. QED
    BY <1>1, <1>3, <2>1, OneRelay DEF Watching
<1>6. CASE Subscribes(r)
  <2>1. /\ relay[r] = "token" /\ relay' = [relay EXCEPT ![r] = "reading"]
        /\ UNCHANGED <<event, cancelled, active, approvals, told, early>>
    BY <1>6 DEF Subscribes, history
  <2>2. QED
    BY <1>1, <1>3, <2>1, OneRelay DEF Watching
<1>7. CASE Takes(r)
  <2>1. /\ relay[r] = "reading" /\ relay' = [relay EXCEPT ![r] = "sending"]
        /\ event' = [event EXCEPT ![r] = Head(queue[r])] /\ queue[r] # <<>>
        /\ UNCHANGED <<cancelled, active, told, early>> /\ Cached(r, Head(queue[r]))
    BY <1>7 DEF Takes, history
  <2>2. queue[r] \in Seq(Events)
    BY DEF StreamInv
  <2>3. Head(queue[r]) \in Events
    BY <2>1, <2>2, QueueFacts
  <2>4. approvals' \in {approvals, approvals \cup {r}, approvals \ {r}}
    BY <2>1, <2>3 DEF Cached, Events
  <2>5. event' \in [Runs -> Events \cup {"none"}]
    BY <1>2, <2>1, <2>3
  <2>6. approvals' \subseteq Runs /\ \A y \in Runs : y # r => (y \in approvals' => y \in approvals)
    BY <1>3, <2>4
  <2>7. QED
    BY <1>1, <1>3, <2>1, <2>5, <2>6, OneRelay DEF Watching
<1>8. CASE Sends(r)
  <2>1. relay[r] = "sending" /\ r \notin cancelled /\ UNCHANGED <<cancelled, early>>
    BY <1>8 DEF Sends
  <2>2. CASE event[r] \in {"end", "done", "error"}
    <3>1. Finally(r) /\ told' = told \cup {r}
      BY <1>8, <2>2 DEF Sends
    <3>2. event' \in [Runs -> Events \cup {"none"}]
      BY <1>2, <3>1 DEF Finally
    <3>3. relay' = [relay EXCEPT ![r] = "ended"] /\ active' = active \ {r} /\ approvals' = approvals \ {r}
      BY <3>1 DEF Finally, Ends
    <3>4. QED
      BY <1>1, <1>3, <2>1, <3>1, <3>2, <3>3, OneRelay DEF Watching
  <2>3. CASE event[r] \notin {"end", "done", "error"}
    <3>1. /\ relay' = [relay EXCEPT ![r] = "reading"] /\ event' = [event EXCEPT ![r] = "none"]
          /\ UNCHANGED <<active, approvals, told>>
      BY <1>8, <2>3 DEF Sends
    <3>2. event' \in [Runs -> Events \cup {"none"}]
      BY <1>2, <3>1
    <3>3. QED
      BY <1>1, <1>3, <2>1, <3>1, <3>2, OneRelay DEF Watching
  <2>4. QED
    BY <2>2, <2>3
<1>9. CASE IsCancelled(r)
  <2>1. /\ relay[r] \in {"reading", "sending"} /\ r \in cancelled /\ relay' = [relay EXCEPT ![r] = "stopping"]
        /\ event' = [event EXCEPT ![r] = "none"] /\ cancelled' = cancelled \ {r}
        /\ UNCHANGED <<active, approvals, told, early>>
    BY <1>9 DEF IsCancelled, history
  <2>2. event' \in [Runs -> Events \cup {"none"}]
    BY <1>2, <2>1
  <2>3. QED
    BY <1>1, <1>3, <2>1, <2>2, OneRelay DEF Watching
<1>10. CASE Stopped(r)
  <2>1. /\ relay[r] = "stopping" /\ Finally(r) /\ told' = told \cup {r} /\ UNCHANGED <<cancelled, early>>
    BY <1>10 DEF Stopped
  <2>2. event' \in [Runs -> Events \cup {"none"}]
    BY <1>2, <2>1 DEF Finally
  <2>3. relay' = [relay EXCEPT ![r] = "ended"] /\ active' = active \ {r} /\ approvals' = approvals \ {r}
    BY <2>1 DEF Finally, Ends
  <2>4. QED
    BY <1>1, <1>3, <2>1, <2>2, <2>3, OneRelay DEF Watching
<1>11. QED
  BY <1>4, <1>5, <1>6, <1>7, <1>8, <1>9, <1>10

LEMMA ReturnsRelay ==
  ASSUME RequestInv, RelayInv, NEW t \in Tasks, Returns(t)
  PROVE  RelayInv'
<1>1. UNCHANGED <<event, cancelled, told, early>>
  BY DEF Returns
<1>2. CASE UNCHANGED <<started, relay, active>> /\ approvals' \subseteq approvals
  BY <1>1, <1>2 DEF RelayInv
<1>3. CASE /\ started < MaxRuns /\ started' = started + 1 /\ relay' = [relay EXCEPT ![started'] = "created"]
           /\ active' = active \cup {started'} /\ approvals' = approvals
  <2>1. started' \in Runs /\ started' > started /\ started' <= started' /\ started \in Nat
    BY <1>3, Numbers DEF RequestInv, Runs
  <2>2. relay[started'] = "none"
    <3>1. ~(started' <= started)
      BY <1>3, <2>1
    <3>2. QED
      BY <2>1, <3>1 DEF RelayInv
  <2>3. started' \notin active /\ started' \notin cancelled /\ started' \notin approvals
    BY <2>1, <2>2 DEF RelayInv, Watching
  <2>4. \A y \in Runs : y <= started => y <= started'
    BY <1>3, <2>1 DEF Runs
  <2>5. PICK r \in Runs : r = started'
    BY <2>1
  <2>6. /\ event' \in [Runs -> Events \cup {"none"}] /\ active' \subseteq Runs /\ cancelled' \subseteq Runs
        /\ approvals' \subseteq Runs /\ told' \subseteq Runs /\ early' \subseteq Runs
    BY <1>1, <1>3, <2>1 DEF RelayInv
  <2>7. QED
    BY <1>1, <1>3, <2>1, <2>3, <2>4, <2>5, <2>6, OneRelay DEF Watching
<1>4. QED
  BY <1>2, <1>3 DEF Returns, RunStarts, RunStops, RunResolves

LEMMA RelayStep ==
  ASSUME IInv, [Next]_vars
  PROVE  RelayInv'
<1>1. RequestInv /\ StreamInv /\ RelayInv
  BY DEF IInv
<1>2. ASSUME NEW i \in Ids, Arrives(i) PROVE RelayInv'
  <2>1. UNCHANGED <<relay, event, approvals, told, early, started>>
    BY <1>2 DEF Arrives, core
  <2>2. CASE UNCHANGED <<cancelled, active>>
    BY <1>1, <2>1, <2>2 DEF RelayInv
  <2>3. CASE \E r : Cancels({r} \cap active) /\ active' = active \ {r}
    <3>1. PICK r : Cancels({r} \cap active) /\ active' = active \ {r}
      BY <2>3
    <3>2. PICK S \in SUBSET active : S = {r} \cap active
      OBVIOUS
    <3>3. Cancels(S) /\ active' = active \ S
      BY <3>1, <3>2
    <3>4. QED
      BY <1>1, <2>1, <3>3, Cancelling
  <2>4. QED
    BY <1>2, <2>2, <2>3 DEF Arrives
<1>3. ASSUME NEW t \in Tasks, Returns(t) PROVE RelayInv'
  BY <1>1, <1>3, ReturnsRelay
<1>4. CASE Disconnects
  <2>1. UNCHANGED <<relay, event, approvals, told, early, started>> /\ Cancels(active) /\ active' = {}
    BY <1>4 DEF Disconnects, core, history
  <2>2. PICK S \in SUBSET active : S = active
    OBVIOUS
  <2>3. Cancels(S) /\ active' = active \ S
    BY <2>1, <2>2
  <2>4. QED
    BY <1>1, <2>1, <2>3, Cancelling
<1>5. ASSUME NEW r \in Runs,
             \/ CancelledEarly(r) \/ AsksToken(r) \/ Subscribes(r) \/ Takes(r)
             \/ Sends(r) \/ IsCancelled(r) \/ Stopped(r)
      PROVE  RelayInv'
  BY <1>1, <1>5, StepsOfRelay
<1>6. CASE (\E i \in Ids : TimePasses(i)) \/ OtherRequest \/ UNCHANGED vars
           \/ \E r \in Runs : HermesAsks(r) \/ HermesEnds(r) \/ StreamCloses(r)
  <2>1. UNCHANGED <<relay, event, cancelled, active, approvals, told, early, started>>
    BY <1>6 DEF TimePasses, OtherRequest, HermesAsks, HermesEnds, StreamCloses, vars, core, relays, history
  <2>2. QED
    BY <1>1, <2>1 DEF RelayInv
<1>7. QED
  BY <1>2, <1>3, <1>4, <1>5, <1>6 DEF Next

LEMMA PostingFinite ==
  ASSUME NEW i
  PROVE  IsFiniteSet(Posting(i)) /\ Cardinality(Posting(i)) \in Nat
<1>1. IsFiniteSet(Tasks)
  BY RunEventsAssumption, FS_Interval DEF Tasks
<1>2. IsFiniteSet(Posting(i))
  BY <1>1, FS_Subset DEF Posting
<1>3. QED
  BY <1>2, FS_CardinalityType

\* A step after which fewer POSTs of an id are out.
LEMMA FewerPosting ==
  ASSUME NEW i, NEW S \in SUBSET Posting(i)
  PROVE  Cardinality(S) \in Nat /\ Cardinality(S) <= Cardinality(Posting(i))
<1>1. IsFiniteSet(S) /\ Cardinality(S) <= Cardinality(Posting(i))
  BY PostingFinite, FS_Subset
<1>2. QED
  BY <1>1, FS_CardinalityType

\* A frame posts only when its id is not in the window: then the id is new, or
\* its last frame is old.
LEMMA ArrivesOnce ==
  ASSUME RequestInv, OnceInv, NEW i \in Ids, Arrives(i)
  PROVE  OnceInv'
<1>1. /\ seen' = (seen \cup {i}) \ (old \ {i}) /\ old' = old \ {i} /\ ran' = ran
      /\ late' = (IF i \in old THEN [late EXCEPT ![i] = late[i] + 1] ELSE late)
      /\ IF i \in seen THEN task' = task
         ELSE task' = [task EXCEPT ![arrivals'] = [id |-> i, at |-> "posting"]]
      /\ arrivals < MaxArrivals /\ arrivals' = arrivals + 1
  BY DEF Arrives, Noted
<1>2. arrivals' \in Tasks
  BY <1>1, Numbers DEF RequestInv, Tasks
<1>3. \A j \in Ids : late[j] \in Nat /\ ran[j] \in Nat
  BY DEF OnceInv
<1>4. /\ late' \in [Ids -> Nat]
      /\ \A j \in Ids : late'[j] = IF j = i /\ i \in old THEN late[j] + 1 ELSE late[j]
  BY <1>1, <1>3 DEF OnceInv
<1>5. \A t \in Tasks : task'[t] = task[t] \/ (t = arrivals' /\ i \notin seen /\ task'[t].id = i)
  BY <1>1, <1>2 DEF RequestInv
<1>6. ASSUME NEW j \in Ids, j # i PROVE Posting(j)' \subseteq Posting(j)
  BY <1>5, <1>6 DEF Posting
<1>7. Posting(i)' \subseteq Posting(i) \cup {arrivals'}
  BY <1>5 DEF Posting
<1>8. i \in seen => Posting(i)' = Posting(i)
  BY <1>1 DEF Posting
<1>9. \A j \in Ids : j \in seen' \cup old' \/ (ran'[j] = 0 /\ Posting(j)' = {})
  <2> SUFFICES ASSUME NEW j \in Ids, j \notin seen' \cup old' PROVE ran'[j] = 0 /\ Posting(j)' = {}
    OBVIOUS
  <2>1. j # i /\ j \notin seen \cup old
    BY <1>1
  <2>2. QED
    BY <1>1, <1>6, <2>1 DEF OnceInv
<1>10. ASSUME NEW j \in Ids PROVE ran'[j] + Cardinality(Posting(j)') <= 1 + late'[j]
  <2>1. ran[j] + Cardinality(Posting(j)) <= 1 + late[j] /\ Cardinality(Posting(j)) \in Nat
    BY PostingFinite DEF OnceInv
  <2>2. CASE j # i
    <3>1. Cardinality(Posting(j)') \in Nat /\ Cardinality(Posting(j)') <= Cardinality(Posting(j))
      BY <1>6, <2>2, FewerPosting
    <3>2. QED
      BY <1>1, <1>3, <1>4, <2>1, <2>2, <3>1
  <2>3. CASE j = i /\ i \in seen
    BY <1>1, <1>3, <1>4, <1>8, <2>1, <2>3
  <2>4. CASE j = i /\ i \notin seen
    <3>1. IsFiniteSet(Posting(i) \cup {arrivals'})
          /\ Cardinality(Posting(i) \cup {arrivals'}) <= Cardinality(Posting(i)) + 1
          /\ Cardinality(Posting(i) \cup {arrivals'}) \in Nat
      <4>1. IsFiniteSet(Posting(i)) /\ Cardinality(Posting(i)) \in Nat
        BY PostingFinite
      <4>2. QED
        BY <4>1, FS_AddElement
    <3>2. Cardinality(Posting(i)') \in Nat /\ Cardinality(Posting(i)') <= Cardinality(Posting(i)) + 1
      <4>1. /\ IsFiniteSet(Posting(i)')
            /\ Cardinality(Posting(i)') <= Cardinality(Posting(i) \cup {arrivals'})
        BY <1>7, <3>1, FS_Subset
      <4>2. Cardinality(Posting(i)') \in Nat
        BY <4>1, FS_CardinalityType
      <4>3. QED
        BY <2>1, <2>4, <3>1, <4>1, <4>2
    <3>3. CASE i \in old
      BY <1>1, <1>3, <1>4, <2>1, <2>4, <3>2, <3>3
    <3>4. CASE i \notin old
      <4>1. ran[i] = 0 /\ Posting(i) = {}
        BY <2>4, <3>4 DEF OnceInv
      <4>2. Cardinality(Posting(i)) = 0
        BY <4>1, FS_EmptySet
      <4>3. QED
        BY <1>1, <1>3, <1>4, <2>4, <3>2, <3>4, <4>1, <4>2
    <3>5. QED
      BY <3>3, <3>4
  <2>5. QED
    BY <2>2, <2>3, <2>4
<1>11. QED
  BY <1>1, <1>4, <1>9, <1>10 DEF OnceInv

\* A POST that comes back may have started a run, and is out no more.
LEMMA ReturnsOnce ==
  ASSUME RequestInv, OnceInv, NEW t \in Tasks, Returns(t)
  PROVE  OnceInv'
<1>1. PICK i : i = task[t].id
  OBVIOUS
<1>2. i \in Ids /\ t \in Posting(i) /\ task[t] \in TaskRecs
  BY <1>1 DEF Returns, RequestInv, Posting
<1>3. task' = [task EXCEPT ![t].at = "done"] /\ UNCHANGED <<seen, old, late>>
  BY DEF Returns, Finish
<1>4. \A u \in Tasks : task'[u].id = task[u].id /\ task'[u].at = (IF u = t THEN "done" ELSE task[u].at)
  BY <1>2, <1>3 DEF RequestInv, TaskRecs
<1>5. Posting(i)' = Posting(i) \ {t} /\ \A j \in Ids : j # i => Posting(j)' = Posting(j)
  BY <1>1, <1>4 DEF Posting
<1>6. Cardinality(Posting(i)') = Cardinality(Posting(i)) - 1 /\ Cardinality(Posting(i)) \in Nat
  BY <1>2, <1>5, PostingFinite, FS_RemoveElement
<1>7. /\ ran' \in [Ids -> Nat]
      /\ \A j \in Ids : ran'[j] = ran[j] \/ (j = i /\ ran'[j] = ran[j] + 1)
  <2>1. CASE ran' = ran
    BY <2>1 DEF OnceInv
  <2>2. CASE ran' = [ran EXCEPT ![i] = ran[i] + 1]
    BY <1>2, <2>2 DEF OnceInv
  <2>3. QED
    BY <1>1, <2>1, <2>2 DEF Returns, RunStarts, RunStops, RunResolves
<1>8. \A j \in Ids : j \in seen' \cup old' \/ (ran'[j] = 0 /\ Posting(j)' = {})
  BY <1>2, <1>3, <1>5, <1>7 DEF OnceInv
<1>9. ASSUME NEW j \in Ids PROVE ran'[j] + Cardinality(Posting(j)') <= 1 + late'[j]
  <2>1. /\ ran[j] + Cardinality(Posting(j)) <= 1 + late[j] /\ Cardinality(Posting(j)) \in Nat
        /\ ran[j] \in Nat /\ late[j] \in Nat /\ late'[j] = late[j]
    BY <1>3, PostingFinite DEF OnceInv
  <2>2. CASE j = i
    BY <1>6, <1>7, <2>1, <2>2
  <2>3. CASE j # i
    BY <1>5, <1>7, <2>1, <2>3
  <2>4. QED
    BY <2>2, <2>3
<1>10. QED
  BY <1>3, <1>7, <1>8, <1>9 DEF OnceInv

LEMMA OnceStep ==
  ASSUME IInv, [Next]_vars
  PROVE  OnceInv'
<1>1. RequestInv /\ OnceInv
  BY DEF IInv
<1>2. ASSUME NEW i \in Ids, Arrives(i) PROVE OnceInv'
  BY <1>1, <1>2, ArrivesOnce
<1>3. ASSUME NEW t \in Tasks, Returns(t) PROVE OnceInv'
  BY <1>1, <1>3, ReturnsOnce
<1>4. ASSUME UNCHANGED <<task, seen, ran, late>>, old \subseteq old' PROVE OnceInv'
  BY <1>1, <1>4 DEF OnceInv, Posting
<1>5. ASSUME NEW i \in Ids, TimePasses(i) PROVE OnceInv'
  BY <1>4, <1>5 DEF TimePasses, history
<1>6. CASE OtherRequest \/ Disconnects \/ UNCHANGED vars
  BY <1>4, <1>6 DEF OtherRequest, Disconnects, vars, history
<1>7. ASSUME NEW r \in Runs,
             \/ HermesAsks(r) \/ HermesEnds(r) \/ StreamCloses(r) \/ CancelledEarly(r) \/ AsksToken(r)
             \/ Subscribes(r) \/ Takes(r) \/ Sends(r) \/ IsCancelled(r) \/ Stopped(r)
      PROVE  OnceInv'
  BY <1>4, <1>7 DEF HermesAsks, HermesEnds, StreamCloses, CancelledEarly, AsksToken, Subscribes, Takes, Sends,
                    IsCancelled, Stopped, history
<1>8. QED
  BY <1>2, <1>3, <1>5, <1>6, <1>7 DEF Next

-----------------------------------------------------------------------------
(* The theorems.                                                           *)

LEMMA InitInv == Init => IInv
<1> SUFFICES ASSUME Init PROVE IInv
  OBVIOUS
<1>1. RequestInv
  <2>1. Nothing \in AskRecs /\ NoTask \in TaskRecs
    BY DEF Nothing, NoTask, AskRecs, TaskRecs
  <2>2. 0 \in 0..MaxArrivals /\ 0 \in 0..MaxRuns /\ 0 \in 0..MaxEnds
    BY Numbers
  <2>3. QED
    BY <2>1, <2>2 DEF Init, RequestInv, Nothing, NoTask
<1>2. StreamInv
  <2>1. <<>> \in Seq(Events) /\ Len(<<>>) = 0 /\ 0 \in 0..MaxAsks
    BY QueueFacts, Numbers
  <2>2. \A r \in Runs : queue[r] = <<>>
    BY DEF Init
  <2>3. \A r \in Runs : Len(queue[r]) <= (IF hermes[r] = "running" THEN MaxQueue ELSE MaxQueue + 1)
    BY <2>1, <2>2, Numbers
  <2>4. QED
    BY <2>1, <2>3 DEF Init, StreamInv
<1>3. RelayInv
  BY DEF Init, RelayInv, Watching
<1>4. OnceInv
  <2>1. /\ ran = [i \in Ids |-> 0] /\ late = [i \in Ids |-> 0]
        /\ \A t \in Tasks : task[t].at = "none"
    BY DEF Init, NoTask
  <2>2. \A i \in Ids : Posting(i) = {}
    BY <2>1 DEF Posting
  <2>3. \A i \in Ids : Cardinality(Posting(i)) = 0
    BY <2>2, FS_EmptySet
  <2>4. QED
    BY <2>1, <2>2, <2>3 DEF OnceInv
<1>5. QED
  BY <1>1, <1>2, <1>3, <1>4 DEF IInv

\* Every behaviour of the phone's run requests and of the relays keeps the whole
\* invariant.
THEOREM Inductive == Spec => []IInv
<1>1. IInv /\ [Next]_vars => IInv'
  BY RequestStep, StreamStep, RelayStep, OnceStep DEF IInv
<1>2. QED
  BY <1>1, InitInv, PTL DEF Spec

\* Types, for any number of runs and requests; a relay that reads or sends is in
\* _active_run_tasks or its cancellation is on its way, and no approval is
\* cached of a run that nobody watches (_stream_run_events, _pending_approvals).
THEOREM TypeCorrect == Spec => []TypeOK
<1>1. IInv => TypeOK
  <2> SUFFICES ASSUME IInv PROVE TypeOK
    OBVIOUS
  <2>1. \A r \in Runs : Len(queue[r]) <= MaxQueue + 1
    <3> SUFFICES ASSUME NEW r \in Runs PROVE Len(queue[r]) <= MaxQueue + 1
      OBVIOUS
    <3>1. queue[r] \in Seq(Events) /\ Len(queue[r]) <= (IF hermes[r] = "running" THEN MaxQueue ELSE MaxQueue + 1)
      BY DEF IInv, StreamInv
    <3>2. Len(queue[r]) \in Nat
      BY <3>1
    <3>3. QED
      BY <3>1, <3>2, Numbers
  <2>2. \A r \in Runs : relay[r] \in {"created", "token", "reading", "sending"}
                        <=> r \in active \cup (cancelled \ {s \in Runs : relay[s] = "ended"})
    BY DEF IInv, RelayInv, Watching
  <2>3. relay \in [Runs -> {"none", "created", "token", "reading", "sending", "stopping", "ended"}]
    <3>1. Watching \cup {"none", "stopping", "ended"}
          = {"none", "created", "token", "reading", "sending", "stopping", "ended"}
      BY DEF Watching
    <3>2. QED
      BY <3>1 DEF IInv, RelayInv
  <2>4. event \in [Runs -> {"none", "approval", "resolved", "end", "done", "error"}]
    <3>1. Events \cup {"none"} = {"none", "approval", "resolved", "end", "done", "error"}
      BY DEF Events
    <3>2. QED
      BY <3>1 DEF IInv, RelayInv
  <2>5. QED
    BY <2>1, <2>2, <2>3, <2>4 DEF IInv, RequestInv, StreamInv, RelayInv, OnceInv, AskRecs, TaskRecs, TypeOK
<1>2. QED
  BY <1>1, Inductive, PTL

\* However often a frame is repeated while its POST is out, one request starts
\* one run; only a repeat that comes 30 s after the frame before it may start
\* another (_is_duplicate, _rpc_runs_start).
THEOREM OneRun == Spec => []OneRunPerRequest
<1>1. IInv => OneRunPerRequest
  <2> SUFFICES ASSUME IInv, NEW i \in Ids PROVE ran[i] <= 1 + late[i]
    BY DEF OneRunPerRequest
  <2>1. ran[i] + Cardinality(Posting(i)) <= 1 + late[i] /\ ran[i] \in Nat /\ late[i] \in Nat
    BY DEF IInv, OnceInv
  <2>2. QED
    BY <2>1, PostingFinite
<1>2. QED
  BY <1>1, Inductive, PTL

-----------------------------------------------------------------------------
(* What a relay leaves behind.                                             *)

\* A relay that has ended has told the phone so, or was cancelled before it
\* read, never both, and no relay is told of before; no event, no cached
\* approval and no entry of the dictionary outlive it.
EndedOnce ==
  \A r \in Runs :
    /\ relay[r] = "ended" <=> r \in told \cup early
    /\ r \notin told \cap early
    /\ relay[r] = "ended" => queue[r] = <<>> /\ r \notin active \cup approvals

\* The part of it that the invariant does not have.
EndInv ==
  \A r \in Runs :
    /\ relay[r] = "ended" <=> r \in told \cup early
    /\ r \notin told \cap early
    /\ relay[r] = "ended" => queue[r] = <<>>

\* The end of a relay, with one of the two words.
LEMMA EndsOnce ==
  ASSUME IInv, EndInv, NEW r \in Runs, relay[r] # "ended",
         relay' = [relay EXCEPT ![r] = "ended"], queue' = [queue EXCEPT ![r] = <<>>],
         (told' = told \cup {r} /\ early' = early) \/ (told' = told /\ early' = early \cup {r})
  PROVE  EndInv'
<1>1. \A x \in Runs : /\ relay'[x] = (IF x = r THEN "ended" ELSE relay[x])
                      /\ queue'[x] = (IF x = r THEN <<>> ELSE queue[x])
  BY DEF IInv, RelayInv, StreamInv
<1>2. QED
  BY <1>1 DEF EndInv

\* Any other step: an ended relay stays as it is, and its queue empty.
LEMMA EndKept ==
  ASSUME EndInv, UNCHANGED <<told, early>>,
         \A r \in Runs : /\ relay'[r] = "ended" <=> relay[r] = "ended"
                         /\ relay[r] = "ended" => queue'[r] = queue[r]
  PROVE  EndInv'
BY DEF EndInv

\* Every step of a relay preserves it.
LEMMA RelayEnds ==
  ASSUME IInv, EndInv, NEW r \in Runs, RelayRuns(r)
  PROVE  EndInv'
<1> USE DEF history, core
<1>1. relay \in [Runs -> Watching \cup {"none", "stopping", "ended"}] /\ queue \in [Runs -> Seq(Events)]
  BY DEF IInv, RelayInv, StreamInv
<1>2. CASE CancelledEarly(r)
  <2>1. relay[r] # "ended"
    BY <1>2 DEF CancelledEarly
  <2>2. QED
    BY <1>2, <2>1, EndsOnce DEF CancelledEarly, Ends
<1>3. CASE AsksToken(r)
  <2>1. UNCHANGED <<told, early, queue>> /\ relay[r] = "created" /\ relay' = [relay EXCEPT ![r] = "token"]
    BY <1>3 DEF AsksToken
  <2>2. QED
    BY <1>1, <2>1, EndKept
<1>4. CASE Subscribes(r)
  <2>1. /\ UNCHANGED <<told, early>> /\ relay[r] = "token" /\ relay' = [relay EXCEPT ![r] = "reading"]
        /\ \A x \in Runs \ {r} : queue'[x] = queue[x]
    BY <1>1, <1>4 DEF Subscribes
  <2>2. QED
    BY <1>1, <2>1, EndKept
<1>5. CASE Takes(r)
  <2>1. /\ UNCHANGED <<told, early>> /\ relay[r] = "reading" /\ relay' = [relay EXCEPT ![r] = "sending"]
        /\ \A x \in Runs \ {r} : queue'[x] = queue[x]
    BY <1>1, <1>5 DEF Takes
  <2>2. QED
    BY <1>1, <2>1, EndKept
<1>6. CASE Sends(r)
  <2>1. CASE event[r] \in {"end", "done", "error"}
    <3>1. relay[r] # "ended"
      BY <1>6 DEF Sends
    <3>2. QED
      BY <1>6, <2>1, <3>1, EndsOnce DEF Sends, Finally, Ends
  <2>2. CASE event[r] \notin {"end", "done", "error"}
    <3>1. UNCHANGED <<told, early, queue>> /\ relay[r] = "sending" /\ relay' = [relay EXCEPT ![r] = "reading"]
      BY <1>6, <2>2 DEF Sends
    <3>2. QED
      BY <1>1, <3>1, EndKept
  <2>3. QED
    BY <2>1, <2>2
<1>7. CASE IsCancelled(r)
  <2>1. /\ UNCHANGED <<told, early, queue>> /\ relay[r] \in {"reading", "sending"}
        /\ relay' = [relay EXCEPT ![r] = "stopping"]
    BY <1>7 DEF IsCancelled
  <2>2. QED
    BY <1>1, <2>1, EndKept
<1>8. CASE Stopped(r)
  <2>1. relay[r] # "ended"
    BY <1>8 DEF Stopped
  <2>2. QED
    BY <1>8, <2>1, EndsOnce DEF Stopped, Finally, Ends
<1>9. QED
  BY <1>2, <1>3, <1>4, <1>5, <1>6, <1>7, <1>8 DEF RelayRuns

\* So does every step of Hermes, of a handler and of the phone.
LEMMA StepEnds == IInv /\ EndInv /\ [Next]_vars => EndInv'
<1> SUFFICES ASSUME IInv, EndInv, [Next]_vars PROVE EndInv'
  OBVIOUS
<1> USE DEF history, core, phone, relays
<1>1. /\ relay \in [Runs -> Watching \cup {"none", "stopping", "ended"}] /\ queue \in [Runs -> Seq(Events)]
      /\ \A r \in Runs : r > started => relay[r] = "none"
  <2>1. \A r \in Runs : relay[r] # "none" => r <= started
    BY DEF IInv, RelayInv
  <2>2. started \in Nat /\ \A r \in Runs : r \in Nat
    BY Numbers DEF IInv, RequestInv, Runs
  <2>3. QED
    BY <2>1, <2>2 DEF IInv, RelayInv, StreamInv
<1>2. ASSUME NEW i \in Ids, Arrives(i) \/ TimePasses(i) PROVE EndInv'
  <2>1. UNCHANGED <<relay, queue, told, early>>
    BY <1>2 DEF Arrives, TimePasses
  <2>2. QED
    BY <2>1, EndKept
<1>3. ASSUME NEW t \in Tasks, Returns(t) PROVE EndInv'
  <2>1. UNCHANGED <<told, early>>
    BY <1>3 DEF Returns
  <2>2. CASE RunStarts(t)
    <3>1. UNCHANGED queue /\ (relay' = relay \/ (started < MaxRuns /\ relay' = [relay EXCEPT ![started + 1] = "created"]))
      BY <2>2 DEF RunStarts
    <3>2. CASE started < MaxRuns /\ relay' = [relay EXCEPT ![started + 1] = "created"]
      <4>1. started + 1 \in Runs /\ started + 1 > started
        BY <3>2, Numbers DEF IInv, RequestInv, Runs
      <4>2. relay[started + 1] = "none"
        BY <1>1, <4>1
      <4>3. QED
        BY <1>1, <2>1, <3>1, <3>2, <4>2, EndKept
    <3>3. QED
      BY <2>1, <3>1, <3>2, EndKept
  <2>3. CASE RunStops(t) \/ RunResolves(t)
    <3> DEFINE s == ask[task[t].id].run
    <3>1. /\ UNCHANGED relay
          /\ \A x \in Runs : queue'[x] = queue[x] \/ (x = s /\ relay[s] # "ended")
      BY <1>1, <2>3 DEF RunStops, RunResolves
    <3>2. QED
      BY <2>1, <3>1, EndKept
  <2>4. CASE UNCHANGED <<queue, relay>>
    BY <2>1, <2>4, EndKept
  <2>5. QED
    BY <1>3, <2>2, <2>3, <2>4 DEF Returns
<1>4. CASE OtherRequest \/ Disconnects
  <2>1. UNCHANGED <<relay, queue, told, early>>
    BY <1>4 DEF OtherRequest, Disconnects
  <2>2. QED
    BY <2>1, EndKept
<1>5. ASSUME NEW r \in Runs, HermesAsks(r) \/ HermesEnds(r) \/ StreamCloses(r) PROVE EndInv'
  <2>1. /\ UNCHANGED <<relay, told, early>> /\ relay[r] # "ended"
        /\ \A x \in Runs \ {r} : queue'[x] = queue[x]
    BY <1>1, <1>5 DEF HermesAsks, HermesEnds, StreamCloses, Streams
  <2>2. QED
    BY <2>1, EndKept
<1>6. ASSUME NEW r \in Runs, RelayRuns(r) PROVE EndInv'
  BY <1>6, RelayEnds
<1>7. CASE UNCHANGED vars
  <2>1. UNCHANGED <<relay, queue, told, early>>
    BY <1>7 DEF vars
  <2>2. QED
    BY <2>1, EndKept
<1>8. QED
  BY <1>2, <1>3, <1>4, <1>5, <1>6, <1>7 DEF Next, RelayRuns

\* A relay ends with one word to the phone, or none if it was cancelled before its
\* try, and leaves nothing behind (_stream_run_events, its finally, _rpc_runs_stop).
THEOREM EndsWithAWord == Spec => []EndedOnce
<1>1. Init => EndInv
  BY DEF Init, EndInv
<1>2. IInv /\ EndInv /\ [Next]_vars => EndInv'
  BY StepEnds
<1>3. IInv /\ EndInv => EndedOnce
  <2> SUFFICES ASSUME IInv, EndInv, NEW r \in Runs, relay[r] = "ended"
               PROVE  r \notin active \cup approvals
    BY DEF EndInv, EndedOnce
  <2>1. relay[r] \notin Watching
    BY DEF Watching
  <2>2. QED
    BY <2>1 DEF IInv, RelayInv
<1>4. QED
  BY <1>1, <1>2, <1>3, Inductive, PTL DEF Spec

-----------------------------------------------------------------------------
(* The client of the HTTP API.                                             *)

\* The parts of ApiTypeOK.
ServerTypes ==
  /\ listener \in [Dash -> Servers \cup {0}]
  /\ \A p, q \in Dash : listener[p] = listener[q] /\ listener[p] # 0 => p = q
  /\ profile \in [Servers -> Dashboards]
  /\ booting \subseteq Servers /\ \A p \in Dash : listener[p] \notin booting
  /\ proc \in Servers \cup {0} /\ sup \in {"off", "on"}
CacheTypes ==
  /\ cached \in Ports \cup {0}
  /\ token \in [Ports -> Servers \cup {0}] /\ token[ApiPort] = 0

\* One backend boots at a time, the one this object holds.
BootInv == booting \subseteq {proc}

\* The ports a request has still to try, and with them the one it is at.
Elems(s) == {s[i] : i \in 1..Len(s)}
Left(r) == {r.p} \cup Elems(r.cand)
Active(r) == r.at \in {"scraping", "sending"}

\* The dashboards that ran all along and that the scan knows for the profile's.
Known(r) == {s \in r.up : profile[s].argv = Gateway}

\* A search that has lost no answer has its server before it: api_server for a
\* run, and else each of those dashboards.  At that server's port it does not
\* come to the end of its second attempt: what it scrapes after the 401 is the
\* server's token.
Ahead(r, s) ==
  \E q \in Dash :
     /\ listener[q] = s /\ profile[s].real = Gateway /\ q \in Left(r)
     /\ q = r.p /\ r.again => (r.tok = s <=> r.at = "sending")
Reaches(r) ==
  Active(r) /\ ~r.one /\ ~r.lost =>
    IF r.kind = "run" THEN ApiPort \in Left(r) /\ (r.p = ApiPort => ~r.again)
    ELSE \A s \in Known(r) : Ahead(r, s)

\* A search for the server of a write goes on only before an answer was read, or
\* after the rejection of a second attempt, and to ports where none has acted.
Distinct(s) == \A i, j \in 1..Len(s) : s[i] = s[j] => i = j
Unanswered(r) ==
  /\ r.replays \subseteq {"second"}
  /\ IF r.kind = "detail" THEN r.acted = {} /\ r.heard = "none"
     ELSE r.heard # "first" /\ Distinct(r.cand) /\ r.acted \cap Elems(r.cand) = {}
Untouched(r) ==
  /\ r.kind # "detail" => r.p \notin r.acted \cup Elems(r.cand)
  /\ r.at = "idle" => r.acted = {} /\ r.heard = "none"

Request(r) ==
  /\ r \in Record /\ Len(r.cand) <= 2 /\ r.up \subseteq {listener[q] : q \in Dash} \ {0}
  /\ Active(r) => r.p \in Ports
  /\ Unanswered(r) /\ Untouched(r)
  /\ Reaches(r)
RequestsInv == call \in [1..Calls -> Record] /\ \A c \in 1..Calls : Request(call[c])

ApiInv == ServerTypes /\ CacheTypes /\ BootInv /\ RequestsInv

-----------------------------------------------------------------------------
(* What the operators return.                                              *)

Replies == {"none", "ok", "rejected", "404", "401", "down"}

\* A request within a step: its reply is there.
Mid ==
  [at : {"idle", "scraping", "sending", "done"}, kind : Kinds,
   cand : Seq(Ports), one : BOOLEAN, again : BOOLEAN,
   p : Ports \cup {0}, tok : Servers \cup {0},
   reply : Replies, nf : BOOLEAN,
   last : {"none", "404", "other"}, lost : BOOLEAN,
   heard : {"none", "first", "second"}, acted : SUBSET Ports,
   replays : SUBSET {"same", "first", "second"}, up : SUBSET Servers,
   res : {"none", "served", "absent", "failed"}]

\* The three ports differ, and none is the 0 that stands for None.
LEMMA PortsDiffer ==
  /\ OwnPort # AltPort /\ OwnPort # ApiPort /\ AltPort # ApiPort
  /\ OwnPort # 0 /\ AltPort # 0 /\ ApiPort # 0
  /\ \A p \in Ports : p \in Dash \/ p = ApiPort
  /\ Dash \subseteq Ports /\ ApiPort \in Ports /\ ApiPort \notin Dash
  /\ 0 \notin Ports /\ 0 \notin Servers
BY LocalApiAssumption DEF Ports, Dash, Servers

\* A request between two steps is one within a step that has no reply.
LEMMA RecordIsMid == Record \subseteq Mid
BY DEF Record, Mid, Replies

\* An attempt changes the port, the token and what belongs to the attempt.
LEMMA AttemptFacts ==
  ASSUME NEW r \in Mid, NEW p \in Ports, CacheTypes'
  PROVE  LET n == Attempt(r, p)
         IN  /\ n \in Record /\ n.at \in {"scraping", "sending"}
             /\ n.p = p /\ ~n.again /\ n.kind = r.kind /\ n.cand = r.cand /\ n.one = r.one
             /\ n.lost = r.lost /\ n.up = r.up
             /\ n.heard = r.heard /\ n.acted = r.acted /\ n.replays = r.replays
<1> DEFINE n == Attempt(r, p)
<1>1. token'[p] \in Servers \cup {0}
  BY DEF CacheTypes
<1>2. /\ n = [r EXCEPT !.p = p, !.tok = token'[p], !.again = FALSE, !.reply = "none",
                 !.at = IF token'[p] # 0 THEN "sending" ELSE "scraping"]
  BY DEF Attempt
<1> DEFINE t == token'[p]
<1> DEFINE a == IF token'[p] # 0 THEN "sending" ELSE "scraping"
<1>3. a \in {"sending", "scraping"}
  OBVIOUS
<1>4. n = [r EXCEPT !.p = p, !.tok = t, !.again = FALSE, !.reply = "none", !.at = a]
  BY <1>2
<1>5. t \in Servers \cup {0}
  BY <1>1
<1> HIDE DEF n, a, t
<1>6. /\ n.at \in {"scraping", "sending"}
      /\ n.p = p /\ n.kind = r.kind /\ n.cand = r.cand /\ n.up = r.up
  BY <1>3, <1>4 DEF Mid
<1>7. ~n.again /\ n.one = r.one /\ n.lost = r.lost
  BY <1>3, <1>4 DEF Mid
<1>8. n.heard = r.heard /\ n.acted = r.acted /\ n.replays = r.replays
  BY <1>3, <1>4 DEF Mid
<1>9. n \in Record
  BY <1>3, <1>4, <1>5 DEF Mid, Record
<1>10. QED
  BY <1>6, <1>7, <1>8, <1>9 DEF n

\* A request that is over keeps its result, and whether an answer was lost.
LEMMA FinishedFacts ==
  ASSUME NEW r \in Mid, NEW res \in {"served", "absent", "failed"}
  PROVE  LET n == Finished(r, res)
         IN  /\ n \in Record /\ n.at = "done" /\ n.res = res /\ n.cand = <<>>
             /\ (r.lost /\ res # "served" => n.lost) /\ n.up = {} /\ n.p = 0
             /\ n.replays = r.replays /\ n.acted = {} /\ n.heard = "none" /\ n.kind = "post"
<1> DEFINE n == Finished(r, res)
<1> DEFINE l == r.lost /\ res # "served"
           g == r.replays
<1>1. n = [Idle EXCEPT !.at = "done", !.res = res, !.lost = l, !.replays = g]
  BY DEF Finished
<1>2. l \in BOOLEAN /\ g \in SUBSET {"same", "first", "second"}
  BY DEF Mid
<1> HIDE DEF n, l, g
<1>3. Idle \in Record
  BY DEF Idle, Record, Kinds
<1>4. /\ Idle.cand = <<>> /\ Idle.up = {} /\ Idle.p = 0
      /\ Idle.acted = {} /\ Idle.heard = "none" /\ Idle.kind = "post"
  BY DEF Idle
<1>5. n \in Record
  <2> DEFINE a == [Idle EXCEPT !.lost = l, !.replays = g]
  <2>1. a \in Record
    BY <1>2, <1>3 DEF Record
  <2>2. n = [a EXCEPT !.at = "done", !.res = res]
    BY <1>1 DEF Idle
  <2> HIDE DEF a
  <2>3. QED
    BY <2>1, <2>2 DEF Record
<1>6. n.at = "done" /\ n.res = res /\ n.cand = <<>> /\ n.up = {} /\ n.p = 0
  BY <1>1, <1>3, <1>4 DEF Record
<1>7. (l => n.lost) /\ n.replays = g
  BY <1>1, <1>3, <1>4 DEF Record
<1>8. n.acted = {} /\ n.heard = "none" /\ n.kind = "post"
  BY <1>1, <1>3, <1>4 DEF Record
<1>9. QED
  BY <1>5, <1>6, <1>7, <1>8 DEF n, l, g

\* The elements of a sequence are its head and those of its tail.
LEMMA TailElems ==
  ASSUME NEW S, NEW s \in Seq(S), s # <<>>
  PROVE  /\ Head(s) \in S /\ Tail(s) \in Seq(S) /\ Len(Tail(s)) = Len(s) - 1
         /\ Elems(s) = {Head(s)} \cup Elems(Tail(s))
         /\ Distinct(s) => Distinct(Tail(s)) /\ Head(s) \notin Elems(Tail(s))
<1>1. Head(s) \in S /\ Tail(s) \in Seq(S) /\ Len(Tail(s)) = Len(s) - 1 /\ Len(s) \in Nat \ {0}
  OBVIOUS
<1>2. \A i \in 1..(Len(s) - 1) : Tail(s)[i] = s[i + 1]
  OBVIOUS
<1>3. ASSUME NEW i \in 1..Len(s) PROVE s[i] \in {Head(s)} \cup Elems(Tail(s))
  <2>1. CASE i = 1
    BY <2>1
  <2>2. CASE i # 1
    <3>1. i - 1 \in 1..(Len(s) - 1) /\ (i - 1) + 1 = i
      BY <1>1, <2>2
    <3>2. Tail(s)[i - 1] = s[i] /\ i - 1 \in 1..Len(Tail(s))
      BY <1>1, <1>2, <3>1
    <3>3. QED
      BY <3>2 DEF Elems
  <2>3. QED
    BY <2>1, <2>2
<1>4. Head(s) \in Elems(s)
  <2>1. 1 \in 1..Len(s) /\ Head(s) = s[1]
    BY <1>1
  <2>2. QED
    BY <2>1 DEF Elems
<1>5. ASSUME NEW i \in 1..Len(Tail(s)) PROVE Tail(s)[i] \in Elems(s)
  <2>1. i \in 1..(Len(s) - 1) /\ i + 1 \in 1..Len(s)
    BY <1>1
  <2>2. QED
    BY <1>2, <2>1 DEF Elems
<1>6. ASSUME Distinct(s) PROVE Distinct(Tail(s)) /\ Head(s) \notin Elems(Tail(s))
  <2>1. \A i \in 1..Len(Tail(s)) : i + 1 \in 1..Len(s) /\ i + 1 # 1 /\ Tail(s)[i] = s[i + 1]
    BY <1>1, <1>2
  <2>2. 1 \in 1..Len(s) /\ Head(s) = s[1]
    BY <1>1
  <2>3. ASSUME NEW i \in 1..Len(Tail(s)), NEW j \in 1..Len(Tail(s)), Tail(s)[i] = Tail(s)[j]
        PROVE  i = j
    <3>1. i + 1 = j + 1
      BY <1>6, <2>1, <2>3 DEF Distinct
    <3>2. QED
      BY <3>1
  <2>4. ASSUME NEW i \in 1..Len(Tail(s)) PROVE Tail(s)[i] # Head(s)
    BY <1>6, <2>1, <2>2 DEF Distinct
  <2>5. QED
    BY <2>3, <2>4 DEF Distinct, Elems
<1>7. QED
  BY <1>1, <1>3, <1>4, <1>5, <1>6 DEF Elems

\* A concatenation has the elements of both sequences.
LEMMA ConcatElems ==
  ASSUME NEW S, NEW s \in Seq(S), NEW t \in Seq(S)
  PROVE  /\ s \o t \in Seq(S) /\ Len(s \o t) = Len(s) + Len(t)
         /\ Elems(s \o t) = Elems(s) \cup Elems(t)
         /\ Distinct(s) /\ Distinct(t) /\ Elems(s) \cap Elems(t) = {} => Distinct(s \o t)
<1>1. s \o t \in Seq(S) /\ Len(s \o t) = Len(s) + Len(t) /\ Len(s) \in Nat /\ Len(t) \in Nat
  OBVIOUS
<1>2. ASSUME NEW i \in 1..Len(s) PROVE s[i] \in Elems(s \o t)
  <2>1. (s \o t)[i] = s[i] /\ i \in 1..Len(s \o t)
    BY <1>1
  <2>2. QED
    BY <2>1 DEF Elems
<1>3. ASSUME NEW i \in 1..Len(t) PROVE t[i] \in Elems(s \o t)
  <2>1. (s \o t)[i + Len(s)] = t[i] /\ i + Len(s) \in 1..Len(s \o t)
    BY <1>1
  <2>2. QED
    BY <2>1 DEF Elems
<1>4. \A i \in 1..Len(s \o t) : (s \o t)[i] = IF i <= Len(s) THEN s[i] ELSE t[i - Len(s)]
  BY <1>1
<1>5. Elems(s \o t) \subseteq Elems(s) \cup Elems(t)
  <2>1. ASSUME NEW i \in 1..Len(s \o t) PROVE (s \o t)[i] \in Elems(s) \cup Elems(t)
    <3>1. CASE i <= Len(s)
      BY <1>1, <1>4, <3>1 DEF Elems
    <3>2. CASE ~(i <= Len(s))
      <4>1. i - Len(s) \in 1..Len(t) /\ (s \o t)[i] = t[i - Len(s)]
        BY <1>1, <1>4, <3>2
      <4>2. QED
        BY <4>1 DEF Elems
    <3>3. QED
      BY <3>1, <3>2
  <2>2. QED
    BY <2>1 DEF Elems
<1>6. ASSUME Distinct(s), Distinct(t), Elems(s) \cap Elems(t) = {},
             NEW i \in 1..Len(s \o t), NEW j \in 1..Len(s \o t), (s \o t)[i] = (s \o t)[j]
      PROVE  i = j
  <2>1. \A k \in 1..Len(s \o t) : k <= Len(s) => k \in 1..Len(s) /\ s[k] \in Elems(s)
    BY <1>1 DEF Elems
  <2>2. \A k \in 1..Len(s \o t) :
          ~(k <= Len(s)) => k - Len(s) \in 1..Len(t) /\ t[k - Len(s)] \in Elems(t)
    BY <1>1 DEF Elems
  <2>3. CASE i <= Len(s) /\ j <= Len(s)
    BY <1>4, <1>6, <2>1, <2>3 DEF Distinct
  <2>4. CASE ~(i <= Len(s)) /\ ~(j <= Len(s))
    <3>1. t[i - Len(s)] = t[j - Len(s)]
      BY <1>4, <1>6, <2>4
    <3>2. i - Len(s) = j - Len(s)
      BY <1>6, <2>2, <2>4, <3>1 DEF Distinct
    <3>3. QED
      BY <1>1, <3>2
  <2>5. CASE i <= Len(s) /\ ~(j <= Len(s))
    BY <1>4, <1>6, <2>1, <2>2, <2>5
  <2>6. CASE ~(i <= Len(s)) /\ j <= Len(s)
    BY <1>4, <1>6, <2>1, <2>2, <2>6
  <2>7. QED
    BY <2>3, <2>4, <2>5, <2>6
<1>7. Distinct(s) /\ Distinct(t) /\ Elems(s) \cap Elems(t) = {} => Distinct(s \o t)
  BY <1>6 DEF Distinct
<1>8. QED
  BY <1>1, <1>2, <1>3, <1>5, <1>7 DEF Elems

\* So it is for lists of ports that have none in common.
LEMMA ConcatPorts ==
  ASSUME NEW s \in Seq(Ports), NEW t \in Seq(Ports),
         Distinct(s), Distinct(t), Elems(s) \cap Elems(t) = {}
  PROVE  /\ s \o t \in Seq(Ports) /\ Len(s \o t) = Len(s) + Len(t)
         /\ Elems(s \o t) = Elems(s) \cup Elems(t) /\ Distinct(s \o t)
<1>1. s \o t \in Seq(Ports) /\ Len(s \o t) = Len(s) + Len(t)
  OBVIOUS
<1>2. Elems(s \o t) = Elems(s) \cup Elems(t)
  BY ConcatElems
<1>3. Distinct(s \o t)
  BY ConcatElems
<1>4. QED
  BY <1>1, <1>2, <1>3

-----------------------------------------------------------------------------
(* The list of a search.                                                   *)

\* A function on 1..n is a sequence of length n.
LEMMA FunctionIsSeq ==
  ASSUME NEW S, NEW n \in Nat, NEW f \in [1..n -> S]
  PROVE  f \in Seq(S) /\ Len(f) = n
<1>1. f \in Seq(S)
  OBVIOUS
<1>2. Len(f) = n
  OBVIOUS
<1>3. QED
  BY <1>1, <1>2

\* An order of a set of dashboard ports lists each of them once.
LEMMA OrderElems ==
  ASSUME NEW S \in SUBSET Dash, NEW f \in Orders(S)
  PROVE  /\ f \in Seq(Ports) /\ Elems(f) = S /\ Distinct(f)
         /\ Len(f) = IF S = {} THEN 0 ELSE IF S = Dash THEN 2 ELSE 1
<1>1. f \in [1..Cardinality(S) -> S] /\ \A i, j \in DOMAIN f : f[i] = f[j] => i = j
  BY DEF Orders
<1>2. S \subseteq Ports
  BY DEF Ports
<1>3. CASE S = {}
  <2>1. f \in [1..0 -> S]
    BY <1>1, <1>3, FS_EmptySet
  <2>2. f \in [1..0 -> Ports] /\ DOMAIN f = 1..0
    BY <1>2, <2>1
  <2>3. f \in Seq(Ports) /\ Len(f) = 0
    BY <2>2
  <2>4. QED
    BY <1>3, <2>3 DEF Elems, Distinct
<1>4. CASE \E q \in Dash : S = {q}
  <2>1. PICK q \in Dash : S = {q}
    BY <1>4
  <2>2. Cardinality(S) = 1
    BY <2>1, FS_Singleton
  <2>3. f \in [1..1 -> S]
    BY <1>1, <2>2
  <2>4. f \in [1..1 -> Ports] /\ DOMAIN f = 1..1 /\ f[1] = q
    BY <1>2, <2>1, <2>3
  <2>5. f \in Seq(Ports) /\ Len(f) = 1
    <3>1. 1 \in Nat
      OBVIOUS
    <3>2. QED
      BY <2>4, <3>1, FunctionIsSeq
  <2>6. Elems(f) = {q}
    BY <2>4, <2>5 DEF Elems
  <2>7. S # {} /\ S # Dash
    BY <2>1, PortsDiffer DEF Dash
  <2>8. Distinct(f)
    BY <2>5 DEF Distinct
  <2>9. QED
    BY <2>1, <2>5, <2>6, <2>7, <2>8
<1>5. CASE S = Dash
  <2>1. S = {OwnPort} \cup {AltPort} /\ AltPort \notin {OwnPort}
    BY <1>5, PortsDiffer DEF Dash
  <2>2. Cardinality(S) = 2
    <3>1. IsFiniteSet({OwnPort}) /\ Cardinality({OwnPort}) = 1
      BY FS_Singleton
    <3>2. Cardinality({OwnPort} \cup {AltPort}) = Cardinality({OwnPort}) + 1
      BY <2>1, <3>1, FS_AddElement
    <3>3. QED
      BY <2>1, <3>1, <3>2
  <2>3. f \in [1..2 -> S]
    BY <1>1, <2>2
  <2>4. f \in [1..2 -> Ports] /\ DOMAIN f = 1..2 /\ f[1] \in S /\ f[2] \in S
    BY <1>2, <2>3
  <2>5. f \in Seq(Ports) /\ Len(f) = 2
    <3>1. 2 \in Nat
      OBVIOUS
    <3>2. QED
      BY <2>4, <3>1, FunctionIsSeq
  <2>6. f[1] # f[2]
    BY <1>1, <2>4
  <2>7. Elems(f) = {f[1], f[2]}
    BY <2>5 DEF Elems
  <2>8. {f[1], f[2]} = S
    BY <2>1, <2>4, <2>6
  <2>9. S # {}
    BY <2>1
  <2>10. Distinct(f)
    BY <2>5, <2>6 DEF Distinct
  <2>11. QED
    BY <1>5, <2>5, <2>7, <2>8, <2>9, <2>10
<1>6. QED
  <2>1. S = {} \/ S = Dash \/ \E q \in Dash : S = {q}
    BY DEF Dash
  <2>2. QED
    BY <1>3, <1>4, <1>5, <2>1

\* A search begins with a list of one to three ports, none of them twice, among
\* them all that the scan knows for the profile's, and api_server.
LEMMA CandidateFacts ==
  ASSUME ServerTypes, CacheTypes, NEW f \in Orders(Own \ {cached})
  PROVE  LET list == Candidates(f)
         IN  /\ list \in Seq(Ports) /\ Len(list) \in 1..3
             /\ Own \subseteq Elems(list) /\ ApiPort \in Elems(list) /\ Distinct(list)
<1> DEFINE S == Own \ {cached}
           a == IF cached \in Ports \ Foreign THEN <<cached>> ELSE <<>>
           b == Unless(OwnPort, Own \cup Foreign \cup {cached})
           d == Unless(ApiPort, {cached})
           list == Candidates(f)
<1>1. /\ Own \subseteq Dash /\ Foreign \subseteq Dash
      /\ Own \cap Foreign = {}
  BY DEF Own, Foreign
<1>2. /\ f \in Seq(Ports) /\ Elems(f) = S /\ Distinct(f)
      /\ Len(f) = IF S = {} THEN 0 ELSE IF S = Dash THEN 2 ELSE 1
  BY <1>1, OrderElems
<1>3. /\ OwnPort \in Ports /\ ApiPort \in Ports /\ Dash = {OwnPort, AltPort}
      /\ Dash \subseteq Ports /\ ApiPort \notin Dash /\ OwnPort # AltPort
      /\ 0 \notin Ports
  BY PortsDiffer DEF Dash
<1>4. list = a \o f \o b \o d
  BY DEF Candidates
<1>5. b = IF OwnPort \in Own \cup Foreign \cup {cached} THEN <<>> ELSE <<OwnPort>>
  BY DEF Unless
<1>6. d = IF cached = ApiPort THEN <<>> ELSE <<ApiPort>>
  BY DEF Unless
<1>7. a \in Seq(Ports) /\ b \in Seq(Ports) /\ d \in Seq(Ports)
  <2>1. \A p \in Ports : <<p>> \in Seq(Ports)
    OBVIOUS
  <2>2. <<>> \in Seq(Ports)
    OBVIOUS
  <2>3. QED
    BY <1>3, <1>5, <1>6, <2>1, <2>2
<1>8. /\ Len(a) = IF cached \in Ports \ Foreign THEN 1 ELSE 0
      /\ Len(b) = IF OwnPort \in Own \cup Foreign \cup {cached} THEN 0 ELSE 1
      /\ Len(d) = IF cached = ApiPort THEN 0 ELSE 1
  <2>1. \A p : Len(<<p>>) = 1
    OBVIOUS
  <2>2. Len(<<>>) = 0
    OBVIOUS
  <2>3. Len(a) = IF cached \in Ports \ Foreign THEN 1 ELSE 0
    BY <2>1, <2>2
  <2>4. Len(b) = IF OwnPort \in Own \cup Foreign \cup {cached} THEN 0 ELSE 1
    BY <2>1, <2>2 DEF Unless
  <2>5. Len(d) = IF cached = ApiPort THEN 0 ELSE 1
    BY <2>1, <2>2 DEF Unless
  <2>6. QED
    BY <2>3, <2>4, <2>5
<1>9. /\ Elems(a) = {cached} \ (Foreign \cup {0}) /\ Distinct(a)
      /\ Elems(b) = {OwnPort} \ (Own \cup Foreign \cup {cached}) /\ Distinct(b)
      /\ Elems(d) = {ApiPort} \ {cached} /\ Distinct(d)
  <2>1. \A p : Elems(<<p>>) = {p} /\ Distinct(<<p>>)
    BY DEF Elems, Distinct
  <2>2. Elems(<<>>) = {} /\ Distinct(<<>>)
    BY DEF Elems, Distinct
  <2>3. cached \in Ports \cup {0}
    BY DEF CacheTypes
  <2>4. Elems(a) = {cached} \ (Foreign \cup {0}) /\ Distinct(a)
    BY <1>3, <2>1, <2>2, <2>3
  <2>5. Elems(b) = {OwnPort} \ (Own \cup Foreign \cup {cached}) /\ Distinct(b)
    BY <1>5, <2>1, <2>2
  <2>6. Elems(d) = {ApiPort} \ {cached} /\ Distinct(d)
    BY <1>6, <2>1, <2>2
  <2>7. QED
    BY <2>4, <2>5, <2>6
<1> HIDE DEF S, a, b, d, list
<1>10. /\ a \o f \in Seq(Ports) /\ Len(a \o f) = Len(a) + Len(f)
       /\ Elems(a \o f) = Elems(a) \cup Elems(f) /\ Distinct(a \o f)
  <2>1. Elems(a) \cap Elems(f) = {}
    BY <1>2, <1>9 DEF S
  <2>2. QED
    BY <1>2, <1>7, <1>9, <2>1, ConcatPorts
<1>11. /\ a \o f \o b \in Seq(Ports) /\ Len(a \o f \o b) = Len(a) + Len(f) + Len(b)
       /\ Elems(a \o f \o b) = Elems(a) \cup Elems(f) \cup Elems(b) /\ Distinct(a \o f \o b)
  <2> DEFINE w == a \o f
  <2>1. /\ w \in Seq(Ports) /\ Len(w) = Len(a) + Len(f)
        /\ Elems(w) = Elems(a) \cup Elems(f) /\ Distinct(w)
    BY <1>10
  <2> HIDE DEF w
  <2>2. Elems(w) \cap Elems(b) = {}
    BY <1>2, <1>9, <2>1 DEF S
  <2>3. /\ w \o b \in Seq(Ports) /\ Len(w \o b) = Len(w) + Len(b)
        /\ Elems(w \o b) = Elems(w) \cup Elems(b) /\ Distinct(w \o b)
    BY <1>7, <1>9, <2>1, <2>2, ConcatPorts
  <2>4. QED
    BY <2>1, <2>3 DEF w
<1>12. /\ list \in Seq(Ports) /\ Len(list) = Len(a) + Len(f) + Len(b) + Len(d)
       /\ Elems(list) = Elems(a) \cup Elems(f) \cup Elems(b) \cup Elems(d) /\ Distinct(list)
  <2> DEFINE w == a \o f \o b
  <2>1. /\ w \in Seq(Ports) /\ Len(w) = Len(a) + Len(f) + Len(b)
        /\ Elems(w) = Elems(a) \cup Elems(f) \cup Elems(b) /\ Distinct(w) /\ list = w \o d
    BY <1>4, <1>11
  <2> HIDE DEF w
  <2>2. Elems(w) \cap Elems(d) = {}
    BY <1>1, <1>2, <1>3, <1>9, <2>1 DEF S
  <2>3. /\ w \o d \in Seq(Ports) /\ Len(w \o d) = Len(w) + Len(d)
        /\ Elems(w \o d) = Elems(w) \cup Elems(d) /\ Distinct(w \o d)
    BY <1>7, <1>9, <2>1, <2>2, ConcatPorts
  <2>4. QED
    BY <2>1, <2>3
<1>13. Len(list) \in 1..3
  <2> USE DEF S
  <2>1. CASE cached = ApiPort
    BY <1>1, <1>2, <1>3, <1>8, <1>12, <2>1
  <2>2. CASE cached = 0
    BY <1>1, <1>2, <1>3, <1>8, <1>12, <2>2
  <2>3. CASE cached \in Dash
    BY <1>1, <1>2, <1>3, <1>8, <1>12, <2>3
  <2>4. QED
    BY <2>1, <2>2, <2>3, PortsDiffer DEF CacheTypes
<1>14. Own \subseteq Elems(list)
  <2>1. ASSUME NEW q \in Own PROVE q \in Elems(a) \/ q \in Elems(f)
    <3>1. CASE q = cached
      BY <1>1, <1>3, <1>9, <3>1
    <3>2. CASE q # cached
      BY <1>2, <3>2 DEF S
    <3>3. QED
      BY <3>1, <3>2
  <2>2. QED
    BY <1>12, <2>1
<1>15. ApiPort \in Elems(list)
  BY <1>1, <1>3, <1>9, <1>12
<1>16. QED
  BY <1>12, <1>13, <1>14, <1>15 DEF list

-----------------------------------------------------------------------------
(* What a step makes of a request.                                         *)

\* What Request says but for the type, of a request that goes on.
Sound(r) ==
  /\ Len(r.cand) <= 2 /\ r.up \subseteq {listener[q] : q \in Dash} \ {0}
  /\ Unanswered(r)

\* The server of a search that has lost no answer is among the ports after this.
Onward(r) ==
  ~r.lost =>
    IF r.kind = "run" THEN ApiPort \in Elems(r.cand)
    ELSE \A s \in Known(r) :
           \E q \in Dash : listener[q] = s /\ profile[s].real = Gateway /\ q \in Elems(r.cand)

\* A search does not end without its answer.
Served(r, n) ==
  n.at = "done" /\ ~r.one /\ ~n.lost /\ (r.kind = "run" \/ Known(r) # {}) => n.res = "served"

\* A request that is over is as the invariant wants it.
LEMMA FinishedRequest ==
  ASSUME NEW r \in Mid, NEW res \in {"served", "absent", "failed"},
         r.replays \subseteq {"second"}
  PROVE  Request(Finished(r, res))
<1> DEFINE n == Finished(r, res)
<1>1. /\ n \in Record /\ n.at = "done" /\ n.cand = <<>> /\ n.up = {} /\ n.p = 0
      /\ n.replays = r.replays /\ n.acted = {} /\ n.heard = "none" /\ n.kind = "post"
  BY FinishedFacts
<1> HIDE DEF n
<1>2. Len(n.cand) <= 2
  BY <1>1
<1>3. ~Active(n)
  BY <1>1 DEF Active
<1>4. Unanswered(n) /\ Untouched(n)
  <2>1. Distinct(<<>>) /\ Elems(<<>>) = {}
    BY DEF Distinct, Elems
  <2>2. QED
    BY <1>1, <2>1 DEF Unanswered, Untouched
<1>5. Request(n)
  BY <1>1, <1>2, <1>3, <1>4 DEF Request, Reaches
<1>6. QED
  BY <1>5 DEF n

\* A request to one port promises nothing about the others.
LEMMA PinnedRequest ==
  ASSUME NEW r \in Mid, NEW p \in Ports, CacheTypes', Sound(r), r.one, r.kind = "detail"
  PROVE  Request(Attempt(r, p)) /\ Attempt(r, p).at # "done"
<1> DEFINE n == Attempt(r, p)
<1>1. /\ n \in Record /\ n.at \in {"scraping", "sending"} /\ n.p = p /\ n.cand = r.cand
      /\ n.one = r.one /\ n.up = r.up /\ n.kind = r.kind
      /\ n.heard = r.heard /\ n.acted = r.acted /\ n.replays = r.replays
  BY AttemptFacts
<1> HIDE DEF n
<1>2. Request(n)
  BY <1>1 DEF Request, Reaches, Sound, Unanswered, Untouched
<1>3. QED
  BY <1>1, <1>2 DEF n

\* A search that moves on has its server before it, if it was on the list.
LEMMA NextPort ==
  ASSUME NEW r \in Mid, CacheTypes', Sound(r), ~r.one, Onward(r), r.cand # <<>>
  PROVE  LET n == Attempt([r EXCEPT !.cand = Tail(@)], Head(r.cand))
         IN  Request(n) /\ n.at # "done"
<1> DEFINE m == [r EXCEPT !.cand = Tail(@)]
           n == Attempt(m, Head(r.cand))
<1>1. /\ Head(r.cand) \in Ports /\ Tail(r.cand) \in Seq(Ports)
      /\ Len(Tail(r.cand)) = Len(r.cand) - 1 /\ r.cand \in Seq(Ports)
      /\ Elems(r.cand) = {Head(r.cand)} \cup Elems(Tail(r.cand))
      /\ Distinct(r.cand) => Distinct(Tail(r.cand)) /\ Head(r.cand) \notin Elems(Tail(r.cand))
  <2>1. r.cand \in Seq(Ports)
    BY DEF Mid
  <2>2. QED
    BY <2>1, TailElems
<1>2. /\ m \in Mid /\ m.cand = Tail(r.cand) /\ m.kind = r.kind /\ m.one = r.one
      /\ m.lost = r.lost /\ m.up = r.up
      /\ m.heard = r.heard /\ m.acted = r.acted /\ m.replays = r.replays
  BY <1>1 DEF Mid
<1> HIDE DEF m
<1>3. /\ n \in Record /\ n.at \in {"scraping", "sending"} /\ n.p = Head(r.cand) /\ ~n.again
      /\ n.kind = r.kind /\ n.cand = Tail(r.cand) /\ n.one = r.one /\ n.lost = r.lost
      /\ n.up = r.up /\ n.heard = r.heard /\ n.acted = r.acted /\ n.replays = r.replays
  BY <1>1, <1>2, AttemptFacts
<1> HIDE DEF n
<1>4. Left(n) = Elems(r.cand)
  BY <1>1, <1>3 DEF Left
<1>5. Reaches(n)
  <2>1. SUFFICES ASSUME ~n.lost
        PROVE IF n.kind = "run" THEN ApiPort \in Left(n) /\ (n.p = ApiPort => ~n.again)
              ELSE \A s \in Known(n) : Ahead(n, s)
    BY DEF Reaches
  <2>2. CASE n.kind = "run"
    BY <1>3, <1>4, <2>1, <2>2 DEF Onward
  <2>3. CASE n.kind # "run"
    BY <1>3, <1>4, <2>1, <2>3 DEF Onward, Ahead, Known
  <2>4. QED
    BY <2>2, <2>3
<1>6. Len(n.cand) <= 2
  BY <1>1, <1>3 DEF Sound
<1>7. Unanswered(n) /\ Untouched(n)
  BY <1>1, <1>3 DEF Unanswered, Untouched, Sound
<1>8. Request(n)
  BY <1>1, <1>3, <1>5, <1>6, <1>7 DEF Request, Sound
<1>9. QED
  BY <1>3, <1>8 DEF n, m

\* Neither does a search whose server is on the list come to an end.
LEMMA AdvancedRequest ==
  ASSUME NEW r \in Mid, CacheTypes', Sound(r), ~r.one, Onward(r)
  PROVE  Request(Advanced(r)) /\ Served(r, Advanced(r))
<1>1. CASE r.cand # <<>>
  <2> DEFINE n == Attempt([r EXCEPT !.cand = Tail(@)], Head(r.cand))
  <2>1. Advanced(r) = n
    BY <1>1 DEF Advanced
  <2>2. Request(n) /\ n.at # "done"
    BY <1>1, NextPort
  <2> HIDE DEF n
  <2>3. QED
    BY <2>1, <2>2 DEF Served
<1>2. CASE r.cand = <<>>
  <2>1. \A i : i \notin Elems(r.cand)
    BY <1>2 DEF Elems
  <2>2. r.lost \/ (r.kind # "run" /\ Known(r) = {})
    <3>1. CASE r.kind = "run"
      BY <2>1, <3>1 DEF Onward
    <3>2. CASE r.kind # "run"
      BY <2>1, <3>2 DEF Onward
    <3>3. QED
      BY <3>1, <3>2
  <2>3. ASSUME NEW res \in {"absent", "failed"},
               Advanced(r) = Finished(r, res)
        PROVE  Request(Advanced(r)) /\ Served(r, Advanced(r))
    <3> DEFINE n == Finished(r, res)
    <3>1. Request(n)
      BY FinishedRequest DEF Sound, Unanswered
    <3>2. r.lost /\ res # "served" => n.lost
      BY FinishedFacts
    <3> HIDE DEF n
    <3>3. Served(r, n)
      BY <2>2, <3>2 DEF Served
    <3>4. QED
      BY <2>3, <3>1, <3>3 DEF n
  <2>5. CASE r.kind # "detail"
    <3>1. Advanced(r) = Finished(r, "failed")
      BY <1>2, <2>5 DEF Advanced
    <3>2. QED
      BY <2>3, <3>1
  <2>6. CASE r.kind = "detail" /\ (r.nf \/ r.last = "404")
    <3>1. Advanced(r) = Finished(r, "absent")
      BY <1>2, <2>6 DEF Advanced
    <3>2. QED
      BY <2>3, <3>1
  <2>7. CASE r.kind = "detail" /\ ~(r.nf \/ r.last = "404") /\ cached' = 0
    <3>1. Advanced(r) = Finished(r, "failed")
      BY <1>2, <2>7 DEF Advanced
    <3>2. QED
      BY <2>3, <3>1
  <2>8. CASE r.kind = "detail" /\ ~(r.nf \/ r.last = "404") /\ cached' # 0
    <3> DEFINE m == [r EXCEPT !.one = TRUE]
               n == Attempt(m, cached')
    <3>1. Advanced(r) = n
      BY <1>2, <2>8 DEF Advanced
    <3>2. cached' \in Ports
      BY <2>8 DEF CacheTypes
    <3>3. /\ m \in Mid /\ m.cand = r.cand /\ m.one /\ m.up = r.up /\ m.kind = r.kind
          /\ m.heard = r.heard /\ m.acted = r.acted /\ m.replays = r.replays
      BY DEF Mid
    <3>4. Sound(m)
      BY <3>3 DEF Sound, Unanswered
    <3> HIDE DEF m
    <3>5. Request(n) /\ n.at # "done"
      BY <2>8, <3>2, <3>3, <3>4, PinnedRequest
    <3> HIDE DEF n
    <3>6. QED
      BY <3>1, <3>5 DEF Served
  <2>9. QED
    BY <2>5, <2>6, <2>7, <2>8
<1>3. QED
  BY <1>1, <1>2

\* drop_port_cache keeps the caches typed.
LEMMA DroppedTypes ==
  ASSUME CacheTypes, NEW bad, Dropped(bad)
  PROVE  CacheTypes'
<1>1. cached' = cached \/ cached' = 0
  BY DEF Dropped
<1>2. token' = token \/ token' = [token EXCEPT ![cached] = 0]
  BY DEF Dropped
<1>3. cached' \in Ports \cup {0}
  BY <1>1 DEF CacheTypes
<1>4. token' \in [Ports -> Servers \cup {0}]
  BY <1>2 DEF CacheTypes
<1>5. token'[ApiPort] = 0
  <2>1. token[ApiPort] = 0
    BY DEF CacheTypes
  <2>2. [token EXCEPT ![cached] = 0][ApiPort] = 0
    BY <2>1, PortsDiffer DEF CacheTypes
  <2>3. QED
    BY <1>2, <2>1, <2>2
<1>6. QED
  BY <1>3, <1>4, <1>5 DEF CacheTypes

\* What a step on one request makes of the requests.
Goes(c) == \E n : call' = [call EXCEPT ![c] = n] /\ Request(n) /\ Served(call[c], n)

\* A request begins with its server on the list.
LEMMA BeginsGoes ==
  ASSUME ApiInv, NEW c \in 1..Calls, Begins(c)
  PROVE  CacheTypes' /\ Goes(c)
<1>1. PICK k \in Kinds :
       LET r == [call[c] EXCEPT !.kind = k, !.up = {listener[p] : p \in Serving}]
       IN IF k = "detail" /\ cached # 0
          THEN /\ UNCHANGED <<cached, token>>
               /\ call' = [call EXCEPT ![c] = Attempt([r EXCEPT !.one = TRUE], cached)]
          ELSE /\ Dropped(cached \in Foreign)
               /\ \E found \in Orders(Own \ {cached}) :
                    LET list == Candidates(found)
                    IN call' = [call EXCEPT ![c] = Attempt([r EXCEPT !.cand = Tail(list)], Head(list))]
  BY DEF Begins
<1> DEFINE u == {listener[p] : p \in Serving}
           r == [call[c] EXCEPT !.kind = k, !.up = u]
<1>2. CacheTypes'
  <2>1. CASE k = "detail" /\ cached # 0
    BY <1>1, <2>1 DEF ApiInv, CacheTypes
  <2>2. CASE ~(k = "detail" /\ cached # 0)
    BY <1>1, <2>2, DroppedTypes DEF ApiInv
  <2>3. QED
    BY <2>1, <2>2
<1>3. /\ call[c] \in Mid /\ Len(call[c].cand) <= 2 /\ call[c].acted = {}
      /\ call[c].heard = "none" /\ call[c].replays \subseteq {"second"}
  BY RecordIsMid DEF ApiInv, RequestsInv, Request, Untouched, Unanswered, Begins
<1>4. /\ u \subseteq Servers /\ u \subseteq {listener[q] : q \in Dash} \ {0}
      /\ \A s \in u : \E q \in Dash :
            /\ listener[q] = s /\ profile[s].real = Gateway
            /\ profile[s].argv = Gateway => q \in Own
  BY DEF Own, Serving, ApiInv, ServerTypes
<1> HIDE DEF u
<1>5. /\ r \in Mid /\ r.up = u /\ r.kind = k /\ r.cand = call[c].cand /\ r.acted = {}
      /\ r.heard = "none" /\ r.replays \subseteq {"second"}
  BY <1>3, <1>4 DEF Mid
<1> HIDE DEF r
<1>6. CASE k = "detail" /\ cached # 0
  <2> DEFINE m == [r EXCEPT !.one = TRUE]
             n == Attempt(m, cached)
  <2>1. call' = [call EXCEPT ![c] = n]
    BY <1>1, <1>6 DEF r, u
  <2>2. cached \in Ports
    BY <1>6 DEF ApiInv, CacheTypes
  <2>3. /\ m \in Mid /\ m.one /\ m.up = u /\ m.cand = call[c].cand /\ m.kind = k
        /\ m.acted = {} /\ m.heard = "none" /\ m.replays \subseteq {"second"}
    BY <1>5 DEF Mid
  <2>4. Sound(m)
    BY <1>3, <1>4, <1>6, <2>3 DEF Sound, Unanswered
  <2> HIDE DEF m
  <2>5. Request(n) /\ n.at # "done"
    BY <1>2, <1>6, <2>2, <2>3, <2>4, PinnedRequest
  <2> HIDE DEF n
  <2>6. QED
    BY <1>2, <2>1, <2>5 DEF Goes, Served
<1>7. CASE ~(k = "detail" /\ cached # 0)
  <2>1. PICK found \in Orders(Own \ {cached}) :
          LET list == Candidates(found)
          IN call' = [call EXCEPT ![c] = Attempt([r EXCEPT !.cand = Tail(list)], Head(list))]
    BY <1>1, <1>7 DEF r, u
  <2> DEFINE list == Candidates(found)
             m == [r EXCEPT !.cand = Tail(list)]
             n == Attempt(m, Head(list))
  <2>2. /\ list \in Seq(Ports) /\ Len(list) \in 1..3
        /\ Own \subseteq Elems(list) /\ ApiPort \in Elems(list) /\ Distinct(list)
    BY CandidateFacts DEF ApiInv
  <2>3. call' = [call EXCEPT ![c] = n]
    BY <2>1
  <2> HIDE DEF list
  <2>4. /\ Head(list) \in Ports /\ Tail(list) \in Seq(Ports) /\ Len(Tail(list)) = Len(list) - 1
        /\ Elems(list) = {Head(list)} \cup Elems(Tail(list))
        /\ Distinct(Tail(list)) /\ Head(list) \notin Elems(Tail(list))
    <3>1. list # <<>>
      <4>1. Elems(<<>>) = {}
        BY DEF Elems
      <4>2. QED
        BY <2>2, <4>1
    <3>2. QED
      BY <2>2, <3>1, TailElems
  <2>5. /\ m \in Mid /\ m.up = u /\ m.kind = k /\ m.cand = Tail(list)
        /\ m.acted = {} /\ m.heard = "none" /\ m.replays \subseteq {"second"}
    BY <1>5, <2>4 DEF Mid
  <2> HIDE DEF m
  <2>6. /\ n \in Record /\ n.at \in {"scraping", "sending"} /\ n.p = Head(list) /\ ~n.again
        /\ n.kind = k /\ n.cand = Tail(list) /\ n.up = u
        /\ n.acted = {} /\ n.heard = "none" /\ n.replays \subseteq {"second"}
    BY <1>2, <2>4, <2>5, AttemptFacts
  <2> HIDE DEF n
  <2>7. Left(n) = Elems(list)
    BY <2>4, <2>6 DEF Left
  <2>8. Reaches(n)
    <3>1. CASE k = "run"
      BY <2>2, <2>6, <2>7, <3>1 DEF Reaches
    <3>2. CASE k # "run"
      <4>1. ASSUME NEW s \in Known(n) PROVE Ahead(n, s)
        <5>1. PICK q \in Dash : listener[q] = s /\ profile[s].real = Gateway /\ q \in Own
          BY <1>4, <2>6 DEF Known
        <5>2. q \in Left(n)
          BY <2>2, <2>7, <5>1
        <5>3. QED
          BY <2>6, <5>1, <5>2 DEF Ahead
      <4>2. QED
        BY <2>6, <3>2, <4>1 DEF Reaches
    <3>3. QED
      BY <3>1, <3>2
  <2>9. Len(n.cand) <= 2
    BY <2>2, <2>4, <2>6
  <2>10. Unanswered(n) /\ Untouched(n)
    BY <2>4, <2>6 DEF Unanswered, Untouched
  <2>11. Request(n)
    BY <1>4, <2>4, <2>6, <2>8, <2>9, <2>10 DEF Request
  <2>12. QED
    BY <1>2, <2>3, <2>6, <2>11 DEF Goes, Served
<1>8. QED
  BY <1>6, <1>7

\* At its server's port a search does not scrape to no avail.
LEMMA ScrapeOnward ==
  ASSUME ApiInv, NEW c \in 1..Calls, call[c].at = "scraping", call[c].again, ~call[c].one,
         LET t == IF call[c].p \in Dash THEN listener[call[c].p] ELSE 0
         IN  t = 0 \/ t = call[c].tok
  PROVE  Onward(call[c])
<1> DEFINE r == call[c]
<1>1. Reaches(r) /\ Active(r)
  BY DEF ApiInv, RequestsInv, Request, Active
<1>2. r.up \subseteq Servers /\ 0 \notin Servers
  BY DEF ApiInv, RequestsInv, Record, Servers
<1> HIDE DEF r
<1>3. SUFFICES ASSUME ~r.lost
      PROVE IF r.kind = "run" THEN ApiPort \in Elems(r.cand)
            ELSE \A s \in Known(r) : \E q \in Dash :
                   listener[q] = s /\ profile[s].real = Gateway /\ q \in Elems(r.cand)
  BY DEF Onward, r
<1>4. r.again /\ ~r.one /\ r.at = "scraping"
  BY DEF r
<1>5. CASE r.kind = "run"
  BY <1>1, <1>3, <1>4, <1>5 DEF Reaches, Left
<1>6. CASE r.kind # "run"
  <2>1. ASSUME NEW s \in Known(r)
        PROVE  \E q \in Dash :
                 listener[q] = s /\ profile[s].real = Gateway /\ q \in Elems(r.cand)
    <3>1. PICK q \in Dash :
            /\ listener[q] = s /\ profile[s].real = Gateway /\ q \in Left(r)
            /\ q = r.p /\ r.again => (r.tok = s <=> r.at = "sending")
      BY <1>1, <1>3, <1>4, <1>6, <2>1 DEF Reaches, Ahead
    <3>2. q # r.p
      BY <1>2, <1>4, <2>1, <3>1 DEF r, Known
    <3>3. QED
      BY <3>1, <3>2 DEF Left
  <2>2. QED
    BY <1>6, <2>1
<1>7. QED
  BY <1>5, <1>6

\* What is made of the token that was read, or was not there.
LEMMA ScrapesGoes ==
  ASSUME ApiInv, NEW c \in 1..Calls, Scrapes(c)
  PROVE  CacheTypes' /\ Goes(c)
<1> DEFINE r == call[c]
           t == IF r.p \in Dash THEN listener[r.p] ELSE 0
           g == [r EXCEPT !.tok = t, !.at = "sending"]
           m == [r EXCEPT !.last = "other"]
           n == IF ~r.again THEN g
                ELSE IF t # 0 /\ t # r.tok THEN g
                ELSE IF r.one THEN Finished(r, "failed")
                ELSE Advanced(m)
<1>1. /\ r.at = "scraping" /\ cached' = cached
      /\ token' = IF t # 0 THEN [token EXCEPT ![r.p] = t] ELSE token
      /\ call' = [call EXCEPT ![c] = n]
  BY DEF Scrapes
<1>2. /\ Request(r) /\ r \in Record /\ r \in Mid /\ Sound(r) /\ Reaches(r) /\ Active(r)
      /\ r.p \in Ports
  BY <1>1, RecordIsMid DEF ApiInv, RequestsInv, Request, Sound, Active
<1>3. t \in Servers \cup {0} /\ (t # 0 => r.p \in Dash)
  BY DEF ApiInv, ServerTypes
<1>4. t = 0 \/ t = r.tok => (r.again /\ ~r.one => Onward(r))
  BY <1>1, ScrapeOnward
<1>5. \A q \in Dash : q = r.p => t = listener[q]
  OBVIOUS
<1> HIDE DEF r, t
<1>6. CacheTypes'
  <2>1. cached' \in Ports \cup {0}
    BY <1>1 DEF ApiInv, CacheTypes
  <2>2. token' \in [Ports -> Servers \cup {0}]
    BY <1>1, <1>3 DEF ApiInv, CacheTypes
  <2>3. token'[ApiPort] = 0
    BY <1>1, <1>3, PortsDiffer DEF ApiInv, CacheTypes
  <2>4. QED
    BY <2>1, <2>2, <2>3 DEF CacheTypes
<1>7. SUFFICES Request(n) /\ Served(r, n)
  BY <1>1, <1>6 DEF Goes, r
<1>8. CASE ~r.again \/ (t # 0 /\ t # r.tok)
  <2>1. n = g
    BY <1>8
  <2>2. /\ g \in Record /\ g.at = "sending" /\ g.tok = t /\ g.p = r.p /\ g.kind = r.kind
        /\ g.cand = r.cand /\ g.up = r.up
    BY <1>2, <1>3 DEF Record
  <2>3. /\ g.one = r.one /\ g.lost = r.lost /\ g.again = r.again /\ g.heard = r.heard
        /\ g.acted = r.acted /\ g.replays = r.replays
    BY <1>2 DEF Record
  <2> HIDE DEF g, n
  <2>4. Left(g) = Left(r)
    BY <2>2 DEF Left
  <2>5. Reaches(g)
    <3>1. SUFFICES ASSUME ~r.one, ~r.lost
          PROVE IF r.kind = "run" THEN ApiPort \in Left(r) /\ (r.p = ApiPort => ~r.again)
                ELSE \A s \in Known(r) : Ahead(g, s)
      BY <2>2, <2>3, <2>4 DEF Reaches, Known
    <3>2. CASE r.kind = "run"
      BY <1>2, <3>1, <3>2 DEF Reaches
    <3>3. CASE r.kind # "run"
      <4>1. ASSUME NEW s \in Known(r) PROVE Ahead(g, s)
        <5>1. PICK q \in Dash : listener[q] = s /\ profile[s].real = Gateway /\ q \in Left(r)
          BY <1>2, <3>1, <3>3 DEF Reaches, Ahead
        <5>2. q = r.p => g.tok = s
          BY <1>5, <2>2, <5>1
        <5>3. QED
          BY <2>2, <2>4, <5>1, <5>2 DEF Ahead
      <4>2. QED
        BY <3>3, <4>1
    <3>4. QED
      BY <3>2, <3>3
  <2>6. Request(g)
    BY <1>2, <2>2, <2>3, <2>5 DEF Request, Sound, Unanswered, Untouched
  <2>7. QED
    BY <2>1, <2>2, <2>6 DEF Served
<1>9. CASE r.again /\ (t = 0 \/ t = r.tok) /\ r.one
  <2>1. n = Finished(r, "failed")
    BY <1>9
  <2>2. Request(n)
    BY <1>2, <2>1, FinishedRequest DEF Sound, Unanswered
  <2>3. QED
    BY <1>9, <2>2 DEF Served
<1>10. CASE r.again /\ (t = 0 \/ t = r.tok) /\ ~r.one
  <2>1. n = Advanced(m)
    BY <1>10
  <2>2. /\ m \in Mid /\ m.cand = r.cand /\ m.up = r.up /\ m.kind = r.kind
    BY <1>2 DEF Mid
  <2>3. /\ m.one = r.one /\ m.lost = r.lost /\ m.heard = r.heard
        /\ m.acted = r.acted /\ m.replays = r.replays
    BY <1>2 DEF Mid
  <2> HIDE DEF m, n
  <2>4. Sound(m) /\ ~m.one
    BY <1>2, <1>10, <2>2, <2>3 DEF Sound, Unanswered
  <2>5. Onward(m)
    BY <1>4, <1>10, <2>2, <2>3 DEF Onward, Known
  <2>6. Request(n) /\ Served(m, n)
    BY <1>6, <2>1, <2>2, <2>4, <2>5, AdvancedRequest
  <2>7. QED
    BY <2>2, <2>3, <2>6 DEF Served, Known
<1>11. QED
  BY <1>8, <1>9, <1>10

\* What may answer at the port of its server ends a search, but for the first
\* 401.
LEMMA AnswerOnward ==
  ASSUME ApiInv, NEW c \in 1..Calls, call[c].at = "sending", ~call[c].one,
         NEW a \in Answers(call[c]),
         a \in {"404", "down"} \/ (a = "401" /\ call[c].again)
  PROVE  Onward(call[c])
<1> DEFINE r == call[c]
<1>1. Reaches(r) /\ Active(r) /\ r.p \in Ports
  BY DEF ApiInv, RequestsInv, Request, Active
<1>2. r.up \subseteq Servers /\ 0 \notin Servers
  BY DEF ApiInv, RequestsInv, Record, Servers
<1>3. a \in Answers(r)
  OBVIOUS
<1> HIDE DEF r
<1>4. SUFFICES ASSUME ~r.lost
      PROVE IF r.kind = "run" THEN ApiPort \in Elems(r.cand)
            ELSE \A s \in Known(r) : \E q \in Dash :
                   listener[q] = s /\ profile[s].real = Gateway /\ q \in Elems(r.cand)
  BY DEF Onward, r
<1>5. ~r.one /\ r.at = "sending" /\ (a \in {"404", "down"} \/ (a = "401" /\ r.again))
  BY DEF r
<1>6. CASE r.kind = "run"
  <2>1. r.p # ApiPort
    BY <1>3, <1>5, <1>6 DEF Answers
  <2>2. QED
    BY <1>1, <1>4, <1>5, <1>6, <2>1 DEF Reaches, Left
<1>7. CASE r.kind # "run"
  <2>1. ASSUME NEW s \in Known(r)
        PROVE  \E q \in Dash :
                 listener[q] = s /\ profile[s].real = Gateway /\ q \in Elems(r.cand)
    <3>1. PICK q \in Dash :
            /\ listener[q] = s /\ profile[s].real = Gateway /\ q \in Left(r)
            /\ q = r.p /\ r.again => (r.tok = s <=> r.at = "sending")
      BY <1>1, <1>4, <1>5, <1>7, <2>1 DEF Reaches, Ahead
    <3>2. q # r.p
      <4>1. SUFFICES ASSUME q = r.p PROVE FALSE
        OBVIOUS
      <4>2. r.p # ApiPort /\ listener[r.p] = s /\ s # 0 /\ r.p \notin Strange
        BY <1>2, <2>1, <3>1, <4>1, PortsDiffer DEF Strange, Known
      <4>3. CASE r.tok # s
        <5>1. a = "401"
          BY <1>3, <4>2, <4>3 DEF Answers
        <5>2. QED
          BY <1>5, <3>1, <4>1, <4>3, <5>1
      <4>4. CASE r.tok = s
        <5>1. a \in {"ok", "rejected"}
          BY <1>3, <1>7, <4>2, <4>4 DEF Answers
        <5>2. QED
          BY <1>5, <5>1
      <4>5. QED
        BY <4>3, <4>4
    <3>3. QED
      BY <3>1, <3>2 DEF Left
  <2>2. QED
    BY <1>7, <2>1
<1>8. QED
  BY <1>6, <1>7

\* An attempt is answered 401 only by another server than its token's.
LEMMA UnauthorizedBy ==
  ASSUME NEW r \in Record, "401" \in Answers(r)
  PROVE  r.p # ApiPort /\ r.tok # listener[r.p]
BY DEF Answers

\* What may answer is one of five replies.
LEMMA AnswerNames ==
  ASSUME NEW r \in Record, NEW a \in Answers(r)
  PROVE  a \in Replies \ {"none"}
<1>1. Answers(r) \subseteq {"ok", "rejected", "404", "401", "down"}
  BY DEF Answers
<1>2. QED
  BY <1>1 DEF Replies

\* A port pinned or forgotten keeps the caches typed.
LEMMA PinTypes ==
  ASSUME CacheTypes, cached' \in Ports \cup {0}, UNCHANGED token
  PROVE  CacheTypes'
BY DEF CacheTypes

\* A request within a step that differs from another in what servers made of it.
Alike(n, r) ==
  /\ n \in Mid /\ n.at = r.at /\ n.kind = r.kind /\ n.cand = r.cand /\ n.p = r.p /\ n.tok = r.tok
  /\ n.up = r.up /\ n.one = r.one /\ n.again = r.again /\ n.lost = r.lost

\* A server that acts on a write as the invariant has it does so for the first
\* time, or after the rejection of a second attempt.
LEMMA ActsFacts ==
  ASSUME NEW r \in Mid, r.p \in Ports, Unanswered(r), Untouched(r), r.kind # "detail"
  PROVE  Alike(Acts(r), r) /\ Unanswered(Acts(r))
<1> DEFINE grounds == {g \in {"first", "second"} : r.heard = g}
                         \cup (IF r.p \in r.acted THEN {"same"} ELSE {})
           a == r.acted \cup {r.p}
           e == r.replays \cup grounds
           n == Acts(r)
<1>1. n = [r EXCEPT !.acted = a, !.replays = e]
  BY DEF Acts
<1>2. r.heard # "first" /\ r.p \notin r.acted /\ r.p \notin Elems(r.cand)
  BY DEF Unanswered, Untouched
<1>3. grounds \subseteq {"second"}
  BY <1>2
<1>4. a \in SUBSET Ports /\ a \cap Elems(r.cand) = {}
  BY <1>2 DEF Mid, Unanswered
<1>5. e \in SUBSET {"same", "first", "second"} /\ e \subseteq {"second"}
  BY <1>3 DEF Unanswered
<1> HIDE DEF a, e, n
<1>6. Alike(n, r)
  BY <1>1, <1>4, <1>5 DEF Alike, Mid
<1>7. n.acted = a /\ n.replays = e /\ n.heard = r.heard /\ n.cand = r.cand /\ n.kind = r.kind
  BY <1>1 DEF Mid
<1>8. Unanswered(n)
  BY <1>4, <1>5, <1>7 DEF Unanswered
<1>9. QED
  BY <1>6, <1>8 DEF n

\* What is recorded of an answer is that it was read.
LEMMA HearsFacts ==
  ASSUME NEW r \in Mid
  PROVE  LET n == Hears(r)
         IN  /\ Alike(n, r) /\ n.acted = r.acted /\ n.replays = r.replays
             /\ n.heard = IF r.again THEN "second" ELSE "first"
<1> DEFINE d == IF r.again THEN "second" ELSE "first"
           n == Hears(r)
<1>1. n = [r EXCEPT !.heard = d]
  BY DEF Hears
<1>2. d \in {"none", "first", "second"}
  OBVIOUS
<1> HIDE DEF d, n
<1>3. Alike(n, r)
  BY <1>1, <1>2 DEF Alike, Mid
<1>4. n.acted = r.acted /\ n.replays = r.replays /\ n.heard = d
  BY <1>1 DEF Mid
<1>5. QED
  BY <1>3, <1>4 DEF d, n

\* What is made of each reply: one case for each outcome of request.
LEMMA TriesGoes ==
  ASSUME ApiInv, NEW c \in 1..Calls, Tries(c)
  PROVE  CacheTypes' /\ Goes(c)
<1> DEFINE q == call[c]
<1>1. q.at = "sending"
  BY DEF Tries
<1>2. PICK a \in Answers(call[c]), gone \in BOOLEAN :
       LET acts == a \in {"ok", "rejected"}
           write == acts /\ call[c].kind # "detail"
           done == IF write THEN Acts(call[c]) ELSE call[c]
           r == [IF write /\ ~gone THEN Hears(done) ELSE done
                 EXCEPT !.reply = IF gone THEN "down" ELSE a,
                        !.lost = @ \/ gone \/ (a = "rejected" /\ call[c].again)]
       IN /\ gone => acts
          /\ Success(c, r) \/ Rejection(c, r) \/ WrongService(c, r) \/ Unauthorized(c, r) \/ NoConnection(c, r)
  BY Zenon DEF Tries
<1> DEFINE acts == a \in {"ok", "rejected"}
           ignored == gone \/ (a = "rejected" /\ q.again)
           write == acts /\ q.kind # "detail"
           done == IF write THEN Acts(q) ELSE q
           b == IF write /\ ~gone THEN Hears(done) ELSE done
           y == IF gone THEN "down" ELSE a
           l == b.lost \/ gone \/ (a = "rejected" /\ q.again)
           h == write /\ ~gone /\ ~q.again
           r == [b EXCEPT !.reply = y, !.lost = l]
<1>3. /\ Request(q) /\ q \in Record /\ q \in Mid /\ Sound(q) /\ Reaches(q) /\ Active(q)
      /\ q.p \in Ports /\ Untouched(q) /\ Unanswered(q)
  BY <1>1, RecordIsMid DEF ApiInv, RequestsInv, Request, Sound, Active
<1>4. /\ gone => acts
      /\ \/ Success(c, r) \/ Rejection(c, r) \/ WrongService(c, r)
         \/ Unauthorized(c, r) \/ NoConnection(c, r)
  BY <1>2, Zenon
<1>5. /\ Alike(b, q) /\ b.replays \subseteq {"second"} /\ (~h => Unanswered(b))
      /\ (~write => b.acted = q.acted)
  <2>1. Alike(q, q)
    BY <1>3 DEF Alike
  <2>2. Alike(done, q) /\ Unanswered(done) /\ (~write => done = q)
    <3>1. CASE write
      BY <1>3, <3>1, ActsFacts
    <3>2. CASE ~write
      BY <1>3, <2>1, <3>2
    <3>3. QED
      BY <3>1, <3>2
  <2> HIDE DEF done
  <2>3. CASE ~(write /\ ~gone)
    <3>1. b = done
      BY <2>3
    <3>2. QED
      BY <2>2, <3>1 DEF Unanswered
  <2>4. CASE write /\ ~gone
    <3>1. b = Hears(done)
      BY <2>4
    <3>2. done \in Mid
      BY <2>2 DEF Alike
    <3>3. /\ Alike(b, done) /\ b.acted = done.acted /\ b.replays = done.replays
          /\ b.heard = IF done.again THEN "second" ELSE "first"
      BY <3>1, <3>2, HearsFacts
    <3> HIDE DEF b
    <3>4. Alike(b, q)
      BY <2>2, <3>3 DEF Alike
    <3>5. ~h => b.heard = "second"
      BY <2>2, <2>4, <3>3 DEF Alike
    <3>6. ~h => Unanswered(b)
      BY <2>2, <2>4, <3>3, <3>4, <3>5 DEF Alike, Unanswered
    <3>7. QED
      BY <2>2, <2>4, <3>3, <3>4, <3>6 DEF Unanswered
  <2>5. QED
    BY <2>3, <2>4
<1>6. /\ (l => q.lost \/ ignored) /\ (ignored => l) /\ (q.lost => l)
      /\ y \in Replies /\ l \in BOOLEAN
  <2>1. y \in Replies
    BY <1>3, AnswerNames DEF Replies
  <2>2. b.lost = q.lost /\ b.lost \in BOOLEAN
    BY <1>5 DEF Alike, Mid
  <2>3. QED
    BY <2>1, <2>2
<1>7. h => acts /\ ~ignored /\ q.kind # "detail"
  OBVIOUS
<1>8. (a \in {"404", "down"} \/ (a = "401" /\ q.again)) /\ ~q.one => Onward(q)
  BY <1>1, AnswerOnward
<1>9. a = "401" => q.p # ApiPort /\ q.tok # listener[q.p] /\ ~write
  BY <1>3, UnauthorizedBy
<1> HIDE DEF q, y, l, h, write, done, b
<1>10. /\ r \in Mid /\ r.at = q.at /\ r.kind = q.kind /\ r.cand = q.cand /\ r.p = q.p /\ r.tok = q.tok
       /\ r.reply = y /\ r.up = q.up
  BY <1>5, <1>6 DEF Mid, Alike
<1>11. /\ r.one = q.one /\ r.again = q.again /\ (r.lost <=> l) /\ r.replays \subseteq {"second"}
       /\ (~h => Unanswered(r)) /\ (~write => r.acted = q.acted)
  <2>1. /\ r.heard = b.heard /\ r.acted = b.acted /\ r.replays = b.replays /\ r.cand = b.cand
        /\ r.kind = b.kind
    BY <1>5, <1>6 DEF Mid, Alike
  <2>2. r.one = q.one /\ r.again = q.again /\ (r.lost <=> l)
    BY <1>5, <1>6 DEF Mid, Alike
  <2>3. ~h => Unanswered(r)
    BY <1>5, <2>1 DEF Unanswered
  <2>4. QED
    BY <1>5, <2>1, <2>2, <2>3
<1> HIDE DEF r
\* A reply that is not heeded leaves a search that may go on.
<1>12. ASSUME ~h, NEW m \in Mid, CacheTypes', ~q.one,
              m.cand = q.cand, m.up = q.up, m.kind = q.kind, m.one = q.one,
              m.lost <=> l, m.heard = r.heard, m.acted = r.acted, m.replays = r.replays,
              l \/ Onward(q)
       PROVE  Request(Advanced(m)) /\ Served(q, Advanced(m))
  <2>1. Sound(m)
    BY <1>3, <1>10, <1>11, <1>12 DEF Sound, Unanswered
  <2>2. Onward(m)
    BY <1>6, <1>12 DEF Onward, Known
  <2>3. Request(Advanced(m)) /\ Served(m, Advanced(m))
    BY <1>12, <2>1, <2>2, AdvancedRequest
  <2>4. QED
    BY <1>12, <2>3 DEF Served, Known
<1>13. CacheTypes
  BY DEF ApiInv
<1>14. ASSUME NEW n, call' = [call EXCEPT ![c] = n], Request(n), Served(q, n)
       PROVE  Goes(c)
  BY <1>14 DEF Goes, q
<1>15. 0 \in Ports \cup {0} /\ q.p \in Ports \cup {0} /\ cached \in Ports \cup {0}
  BY <1>3, <1>13 DEF CacheTypes
<1>16. ASSUME Success(c, r) PROVE CacheTypes' /\ Goes(c)
  <2> DEFINE n == Finished(r, "served")
  <2>1. /\ call' = [call EXCEPT ![c] = n] /\ UNCHANGED token
        /\ cached' = IF r.one THEN cached ELSE r.p
    BY <1>16 DEF Success, Becomes
  <2>2. Request(n) /\ n.res = "served"
    BY <1>10, <1>11, <1>15, FinishedRequest, FinishedFacts
  <2> HIDE DEF n
  <2>3. Served(q, n)
    BY <2>2 DEF Served
  <2>4. CacheTypes'
    BY <1>10, <1>13, <1>15, <2>1, PinTypes
  <2>5. QED
    BY <1>14, <2>1, <2>2, <2>3, <2>4
<1>17. ASSUME Rejection(c, r) PROVE CacheTypes' /\ Goes(c)
  <2> DEFINE m == [r EXCEPT !.last = "other"]
             o == [r EXCEPT !.one = TRUE]
             n == IF r.one \/ (~r.again /\ r.kind # "detail") THEN Finished(r, "served")
                  ELSE IF ~r.again THEN Attempt(o, cached')
                  ELSE Advanced(m)
  <2>1. /\ r.reply = "rejected" /\ call' = [call EXCEPT ![c] = n] /\ UNCHANGED token
        /\ cached' = IF r.one \/ r.again THEN cached ELSE r.p
    BY <1>17 DEF Rejection, Becomes
  <2>2. CacheTypes'
    BY <1>10, <1>13, <1>15, <2>1, PinTypes
  <2>3. a = "rejected"
    BY <1>10, <2>1 DEF y
  <2>4. CASE r.one \/ (~r.again /\ r.kind # "detail")
    <3>1. n = Finished(r, "served")
      BY <2>4
    <3>2. Request(n) /\ n.res = "served"
      BY <1>10, <1>11, <1>15, <3>1, FinishedRequest, FinishedFacts
    <3> HIDE DEF n
    <3>3. Served(q, n)
      BY <3>2 DEF Served
    <3>4. QED
      BY <1>14, <2>1, <2>2, <3>2, <3>3
  <2>5. CASE ~r.one /\ ~r.again /\ r.kind = "detail"
    <3>1. n = Attempt(o, cached')
      BY <2>5
    <3>2. cached' \in Ports
      BY <1>3, <1>10, <2>1, <2>5
    <3>3. Unanswered(r)
      BY <1>7, <1>10, <1>11, <2>5
    <3>4. /\ o \in Mid /\ o.one /\ o.cand = r.cand /\ o.up = r.up /\ o.kind = r.kind
          /\ o.heard = r.heard /\ o.acted = r.acted /\ o.replays = r.replays
      BY <1>10 DEF Mid
    <3> HIDE DEF n, o
    <3>5. Sound(o)
      BY <1>3, <1>10, <3>3, <3>4 DEF Sound, Unanswered
    <3>6. Request(n) /\ n.at # "done"
      BY <2>2, <2>5, <3>1, <3>2, <3>4, <3>5, PinnedRequest
    <3>7. Served(q, n)
      BY <3>6 DEF Served
    <3>8. QED
      BY <1>14, <2>1, <2>2, <3>6, <3>7
  <2>6. CASE ~r.one /\ r.again
    <3>1. n = Advanced(m)
      BY <2>6
    <3>2. l /\ ~h
      BY <1>6, <1>7, <1>11, <2>3, <2>6 DEF h
    <3>3. /\ m \in Mid /\ m.cand = r.cand /\ m.up = r.up /\ m.kind = r.kind
          /\ m.one = r.one
      BY <1>10 DEF Mid
    <3>4. m.lost = r.lost /\ m.heard = r.heard /\ m.acted = r.acted /\ m.replays = r.replays
      BY <1>10 DEF Mid
    <3> HIDE DEF n, m
    <3>5. Request(n) /\ Served(q, n)
      BY <1>10, <1>11, <1>12, <2>2, <2>6, <3>1, <3>2, <3>3, <3>4
    <3>6. QED
      BY <1>14, <2>1, <2>2, <3>5
  <2>7. QED
    BY <2>4, <2>5, <2>6
<1>18. ASSUME WrongService(c, r) PROVE CacheTypes' /\ Goes(c)
  <2> DEFINE f == r.nf \/ (~r.again /\ r.p # ApiPort)
             m == [r EXCEPT !.last = "404", !.nf = f]
             n == IF r.one THEN Finished(r, "absent") ELSE Advanced(m)
  <2>1. /\ r.reply = "404" /\ call' = [call EXCEPT ![c] = n] /\ UNCHANGED token
        /\ cached' = cached \/ cached' = 0
    BY <1>18 DEF WrongService, Becomes, Forgets
  <2>2. CacheTypes'
    BY <1>13, <1>15, <2>1, PinTypes
  <2>3. a = "404" /\ ~h
    BY <1>7, <1>10, <2>1 DEF y
  <2>4. CASE r.one
    <3>1. n = Finished(r, "absent")
      BY <2>4
    <3>2. Request(n)
      BY <1>10, <1>11, <1>15, <3>1, FinishedRequest
    <3> HIDE DEF n
    <3>3. Served(q, n)
      BY <1>11, <2>4 DEF Served
    <3>4. QED
      BY <1>14, <2>1, <2>2, <3>2, <3>3
  <2>5. CASE ~r.one
    <3>1. n = Advanced(m)
      BY <2>5
    <3>2. f \in BOOLEAN
      BY <1>10 DEF Mid
    <3> HIDE DEF f
    <3>3. /\ m \in Mid /\ m.cand = r.cand /\ m.up = r.up /\ m.kind = r.kind
          /\ m.one = r.one
      BY <1>10, <3>2 DEF Mid
    <3>4. m.lost = r.lost /\ m.heard = r.heard /\ m.acted = r.acted /\ m.replays = r.replays
      BY <1>10, <3>2 DEF Mid
    <3> HIDE DEF n, m
    <3>5. Onward(q)
      BY <1>8, <1>11, <2>3, <2>5
    <3>6. Request(n) /\ Served(q, n)
      BY <1>10, <1>11, <1>12, <2>2, <2>3, <2>5, <3>1, <3>3, <3>4, <3>5
    <3>7. QED
      BY <1>14, <2>1, <2>2, <3>6
  <2>6. QED
    BY <2>4, <2>5
<1>19. ASSUME Unauthorized(c, r) PROVE CacheTypes' /\ Goes(c)
  <2> DEFINE g == [r EXCEPT !.again = TRUE, !.at = "scraping", !.reply = "none"]
             m == [r EXCEPT !.last = "other"]
             n == IF ~r.again THEN g
                  ELSE IF r.one THEN Finished(r, "failed")
                  ELSE Advanced(m)
  <2>1. /\ r.reply = "401" /\ call' = [call EXCEPT ![c] = n] /\ cached' = cached
        /\ token' = token \/ token' = [token EXCEPT ![r.p] = 0]
    BY <1>19 DEF Unauthorized, Becomes
  <2>2. CacheTypes'
    <3>1. token' \in [Ports -> Servers \cup {0}]
      BY <1>13, <2>1 DEF CacheTypes
    <3>2. token'[ApiPort] = 0
      BY <1>13, <2>1, PortsDiffer DEF CacheTypes
    <3>3. QED
      BY <1>15, <2>1, <3>1, <3>2 DEF CacheTypes
  <2>3. a = "401" /\ ~h
    BY <1>7, <1>10, <2>1 DEF y
  <2>4. CASE ~r.again
    <3>1. n = g
      BY <2>4
    <3>2. /\ g \in Record /\ g.at = "scraping" /\ g.kind = r.kind /\ g.cand = r.cand /\ g.p = r.p
          /\ g.tok = r.tok /\ g.up = r.up
      BY <1>10 DEF Mid, Record
    <3>3. /\ g.again /\ g.one = r.one /\ g.lost = r.lost /\ g.heard = r.heard
          /\ g.acted = r.acted /\ g.replays = r.replays
      BY <1>10 DEF Mid
    <3> HIDE DEF g, n
    <3>4. Left(g) = Left(q)
      BY <1>10, <3>2 DEF Left
    <3>5. Reaches(g)
      <4>1. SUFFICES ASSUME ~g.one, ~g.lost
            PROVE IF g.kind = "run" THEN ApiPort \in Left(g) /\ (g.p = ApiPort => ~g.again)
                  ELSE \A s \in Known(g) : Ahead(g, s)
        BY DEF Reaches
      <4>2. ~q.one /\ ~q.lost
        BY <1>6, <1>11, <3>3, <4>1
      <4>3. CASE q.kind = "run"
        BY <1>3, <1>9, <1>10, <2>3, <3>2, <3>4, <4>2, <4>3 DEF Reaches
      <4>4. CASE q.kind # "run"
        <5>1. ASSUME NEW s \in Known(q) PROVE Ahead(g, s)
          <6>1. PICK p \in Dash : listener[p] = s /\ profile[s].real = Gateway /\ p \in Left(q)
            BY <1>3, <4>2, <4>4 DEF Reaches, Ahead
          <6>2. p = g.p => g.tok # s
            BY <1>9, <1>10, <2>3, <3>2, <6>1
          <6>3. QED
            BY <3>2, <3>4, <6>1, <6>2 DEF Ahead
        <5>2. QED
          BY <1>10, <3>2, <4>4, <5>1 DEF Known
      <4>5. QED
        BY <4>3, <4>4
    <3>6. Request(g)
      BY <1>3, <1>9, <1>10, <1>11, <2>3, <3>2, <3>3, <3>5
         DEF Request, Sound, Unanswered, Untouched
    <3>7. Served(q, g)
      BY <3>2 DEF Served
    <3>8. QED
      BY <1>14, <2>1, <2>2, <3>1, <3>6, <3>7
  <2>5. CASE r.again /\ r.one
    <3>1. n = Finished(r, "failed")
      BY <2>5
    <3>2. Request(n)
      BY <1>10, <1>11, <1>15, <3>1, FinishedRequest
    <3> HIDE DEF n
    <3>3. Served(q, n)
      BY <1>11, <2>5 DEF Served
    <3>4. QED
      BY <1>14, <2>1, <2>2, <3>2, <3>3
  <2>6. CASE r.again /\ ~r.one
    <3>1. n = Advanced(m)
      BY <2>6
    <3>2. /\ m \in Mid /\ m.cand = r.cand /\ m.up = r.up /\ m.kind = r.kind
          /\ m.one = r.one
      BY <1>10 DEF Mid
    <3>3. m.lost = r.lost /\ m.heard = r.heard /\ m.acted = r.acted /\ m.replays = r.replays
      BY <1>10 DEF Mid
    <3> HIDE DEF n, m
    <3>4. Onward(q)
      BY <1>8, <1>11, <2>3, <2>6
    <3>5. Request(n) /\ Served(q, n)
      BY <1>10, <1>11, <1>12, <2>2, <2>3, <2>6, <3>1, <3>2, <3>3, <3>4
    <3>6. QED
      BY <1>14, <2>1, <2>2, <3>5
  <2>7. QED
    BY <2>4, <2>5, <2>6
<1>20. ASSUME NoConnection(c, r) PROVE CacheTypes' /\ Goes(c)
  <2> DEFINE m == [r EXCEPT !.last = "other"]
             n == IF r.one THEN Finished(r, "failed") ELSE Advanced(m)
  <2>1. /\ r.reply = "down" /\ call' = [call EXCEPT ![c] = n] /\ UNCHANGED token
        /\ cached' = cached \/ cached' = 0
    BY <1>20 DEF NoConnection, Becomes, Forgets
  <2>2. CacheTypes'
    BY <1>13, <1>15, <2>1, PinTypes
  <2>3. ~h /\ (l \/ a = "down")
    <3>1. CASE gone
      BY <1>6, <1>7, <3>1
    <3>2. CASE ~gone
      BY <1>7, <1>10, <2>1, <3>2 DEF y
    <3>3. QED
      BY <3>1, <3>2
  <2>4. CASE r.one
    <3>1. n = Finished(r, "failed")
      BY <2>4
    <3>2. Request(n)
      BY <1>10, <1>11, <1>15, <3>1, FinishedRequest
    <3> HIDE DEF n
    <3>3. Served(q, n)
      BY <1>11, <2>4 DEF Served
    <3>4. QED
      BY <1>14, <2>1, <2>2, <3>2, <3>3
  <2>5. CASE ~r.one
    <3>1. n = Advanced(m)
      BY <2>5
    <3>2. /\ m \in Mid /\ m.cand = r.cand /\ m.up = r.up /\ m.kind = r.kind
          /\ m.one = r.one
      BY <1>10 DEF Mid
    <3>3. m.lost = r.lost /\ m.heard = r.heard /\ m.acted = r.acted /\ m.replays = r.replays
      BY <1>10 DEF Mid
    <3> HIDE DEF n, m
    <3>4. l \/ Onward(q)
      BY <1>8, <1>11, <2>3, <2>5
    <3>5. Request(n) /\ Served(q, n)
      BY <1>10, <1>11, <1>12, <2>2, <2>3, <2>5, <3>1, <3>2, <3>3, <3>4
    <3>6. QED
      BY <1>14, <2>1, <2>2, <3>5
  <2>6. QED
    BY <2>4, <2>5
<1>21. QED
  BY <1>4, <1>16, <1>17, <1>18, <1>19, <1>20

-----------------------------------------------------------------------------
(* The steps of the servers and of the keeper.                             *)

\* A set of identities that is not empty has a least.
LEMMA LeastIdentity ==
  ASSUME NEW T \in SUBSET Nat, T # {}
  PROVE  \E n \in T : \A m \in T : n <= m
<1>1. PICK n \in T : \A m \in T : <<m, n>> \notin OpToRel(<, Nat)
  BY NatLessThanWellFounded, WFMin
<1>2. \A m \in T : ~(m < n)
  BY <1>1 DEF OpToRel
<1>3. QED
  BY <1>2

\* There is an identity for a new process: those in use are the listeners', the
\* backend's, the cached tokens' and one of each request.
LEMMA FreshExists ==
  ASSUME ApiInv
  PROVE  Fresh # {}
<1> DEFINE N == Calls + 5
           g == [i \in 1..N |->
                   IF i <= Calls THEN call[i].tok
                   ELSE IF i = Calls + 1 THEN listener[OwnPort]
                   ELSE IF i = Calls + 2 THEN listener[AltPort]
                   ELSE IF i = Calls + 3 THEN proc
                   ELSE IF i = Calls + 4 THEN token[OwnPort]
                   ELSE token[AltPort]]
           T == {g[i] : i \in 1..N}
<1>1. Calls \in Nat /\ MaxServers \in Nat /\ MaxServers > N /\ N \in Nat
  BY LocalApiAssumption
<1>2. \A c \in 1..Calls : call[c].tok \in T
  BY <1>1
<1>3. listener[OwnPort] \in T /\ listener[AltPort] \in T /\ proc \in T
  <2>1. Calls + 1 \in 1..N /\ Calls + 2 \in 1..N /\ Calls + 3 \in 1..N
    BY <1>1
  <2>2. g[Calls + 1] = listener[OwnPort] /\ g[Calls + 2] = listener[AltPort] /\ g[Calls + 3] = proc
    BY <1>1, <2>1
  <2> HIDE DEF g
  <2>3. QED
    BY <2>1, <2>2
<1>4. token[OwnPort] \in T /\ token[AltPort] \in T
  <2>1. Calls + 4 \in 1..N /\ Calls + 5 \in 1..N
    BY <1>1
  <2>2. g[Calls + 4] = token[OwnPort] /\ g[Calls + 5] = token[AltPort]
    BY <1>1, <2>1
  <2> HIDE DEF g
  <2>3. QED
    BY <2>1, <2>2
<1>5. IsFiniteSet(T) /\ Cardinality(T) <= N
  <2>1. g \in Surjection(1..N, T)
    BY DEF Surjection
  <2>2. IsFiniteSet(1..N) /\ Cardinality(1..N) = N
    BY <1>1, FS_Interval
  <2> HIDE DEF g, T
  <2>3. QED
    BY <2>1, <2>2, FS_Surjection
<1> HIDE DEF g, T
<1>6. PICK s \in Servers : s \notin T
  <2>1. SUFFICES ASSUME Servers \subseteq T PROVE FALSE
    OBVIOUS
  <2>2. Cardinality(Servers) <= Cardinality(T)
    BY <1>5, <2>1, FS_Subset
  <2>3. Cardinality(Servers) = MaxServers
    BY <1>1, FS_Interval DEF Servers
  <2>4. Cardinality(T) \in Nat
    BY <1>5, FS_CardinalityType
  <2>5. QED
    BY <1>1, <1>5, <2>2, <2>3, <2>4
<1>7. s # 0
  BY <1>6 DEF Servers
<1>8. \A p \in Dash : listener[p] # s
  BY <1>3, <1>6 DEF Dash
<1>9. \A p \in Ports : token[p] # s
  BY <1>4, <1>6, <1>7 DEF ApiInv, CacheTypes, Ports, Dash
<1>10. s # proc /\ s \notin booting
  BY <1>3, <1>6 DEF ApiInv, BootInv
<1>11. \A c \in 1..Calls : call[c].tok # s /\ s \notin call[c].up
  BY <1>2, <1>6, <1>8 DEF ApiInv, RequestsInv, Request
<1>12. s \in Fresh
  BY <1>6, <1>8, <1>9, <1>10, <1>11 DEF Fresh, Alive
<1>13. QED
  BY <1>12

\* Newcomer chooses it.
LEMMA NewcomerIsFresh ==
  ASSUME Fresh # {}
  PROVE  Newcomer \in Fresh
<1>1. Fresh \subseteq Nat
  BY DEF Fresh, Servers
<1>2. QED
  BY <1>1, LeastIdentity DEF Newcomer

\* A request is left as it was by what happens to other servers than those it
\* counts on.
LEMMA RequestKept ==
  ASSUME NEW c \in 1..Calls, Request(call[c]),
         NEW u \in SUBSET call[c].up, call'[c] = [call[c] EXCEPT !.up = u],
         \A s \in u, q \in Dash : listener[q] = s => listener'[q] = s /\ profile'[s] = profile[s]
  PROVE  Request(call[c])'
<1> DEFINE r == call[c]
           n == call'[c]
<1>1. Request(r) /\ u \in SUBSET r.up /\ n = [r EXCEPT !.up = u]
  OBVIOUS
<1> HIDE DEF r, n
<1>2. /\ r \in Record /\ Unanswered(r) /\ Untouched(r) /\ (Active(r) => r.p \in Ports)
      /\ Reaches(r) /\ Len(r.cand) <= 2
      /\ r.up \subseteq {listener[q] : q \in Dash} \ {0}
  BY <1>1 DEF Request
<1>3. /\ n \in Record /\ n.at = r.at /\ n.kind = r.kind /\ n.cand = r.cand /\ n.p = r.p
      /\ n.tok = r.tok /\ n.up = u
  BY <1>1, <1>2 DEF Record
<1>4. /\ n.one = r.one /\ n.again = r.again /\ n.lost = r.lost
      /\ n.heard = r.heard /\ n.acted = r.acted /\ n.replays = r.replays
  BY <1>1, <1>2 DEF Record
<1>5. Left(n) = Left(r) /\ (Active(n) <=> Active(r))
  BY <1>3 DEF Left, Active
<1>6. n.up \subseteq {listener'[q] : q \in Dash} \ {0}
  BY <1>1, <1>2, <1>3
<1>7. ASSUME Active(n), ~n.one, ~n.lost
      PROVE  IF n.kind = "run" THEN ApiPort \in Left(n) /\ (n.p = ApiPort => ~n.again)
              ELSE \A s \in {v \in n.up : profile'[v].argv = Gateway} : \E q \in Dash :
                     /\ listener'[q] = s /\ profile'[s].real = Gateway /\ q \in Left(n)
                     /\ q = n.p /\ n.again => (n.tok = s <=> n.at = "sending")
  <2>1. Active(r) /\ ~r.one /\ ~r.lost
    BY <1>4, <1>5, <1>7
  <2>2. CASE r.kind = "run"
    BY <1>2, <1>3, <1>4, <1>5, <2>1, <2>2 DEF Reaches
  <2>3. CASE r.kind # "run"
    <3>1. ASSUME NEW s \in u, profile'[s].argv = Gateway
          PROVE  \E q \in Dash :
                   /\ listener'[q] = s /\ profile'[s].real = Gateway /\ q \in Left(n)
                   /\ q = n.p /\ n.again => (n.tok = s <=> n.at = "sending")
      <4>1. \A q \in Dash : listener[q] = s => listener'[q] = s /\ profile'[s] = profile[s]
        OBVIOUS
      <4>2. s \in Known(r)
        BY <1>1, <1>2, <3>1, <4>1 DEF Known
      <4>3. PICK q \in Dash :
              /\ listener[q] = s /\ profile[s].real = Gateway /\ q \in Left(r)
              /\ q = r.p /\ r.again => (r.tok = s <=> r.at = "sending")
        BY <1>2, <2>1, <2>3, <4>2 DEF Reaches, Ahead
      <4>4. listener'[q] = s /\ profile'[s].real = Gateway
        BY <4>1, <4>3
      <4>5. q = n.p /\ n.again => (n.tok = s <=> n.at = "sending")
        BY <1>3, <1>4, <4>3
      <4>6. QED
        BY <1>5, <4>3, <4>4, <4>5
    <3>2. QED
      BY <1>3, <2>3, <3>1
  <2>4. QED
    BY <2>2, <2>3
<1>8. /\ n \in Record /\ Len(n.cand) <= 2 /\ (Active(n) => n.p \in Ports)
      /\ Unanswered(n) /\ Untouched(n)
  BY <1>2, <1>3, <1>4, <1>5 DEF Unanswered, Untouched
<1>9. QED
  BY <1>6, <1>7, <1>8, Zenon
     DEF Request, Reaches, Ahead, Known, Active, Left, Unanswered, Untouched, n

\* So are all of them, when a server is gone from where it was or none is.
LEMMA RequestsKept ==
  ASSUME RequestsInv, NEW x, (call' = call /\ x = 0) \/ call' = Gone(x),
         \A s \in Servers \ {x}, q \in Dash :
            listener[q] = s => listener'[q] = s /\ profile'[s] = profile[s]
  PROVE  RequestsInv'
<1>1. 0 \notin Servers
  BY DEF Servers
<1>2. ASSUME NEW c \in 1..Calls
      PROVE  \E u \in SUBSET (call[c].up \ {x}) : call'[c] = [call[c] EXCEPT !.up = u]
  <2>1. call[c] \in Record
    BY DEF RequestsInv
  <2>2. CASE call' = call /\ x = 0
    <3>1. call[c].up \subseteq Servers /\ x = 0
      BY <2>1, <2>2 DEF Record
    <3>2. call[c].up \in SUBSET (call[c].up \ {x})
      BY <1>1, <3>1
    <3>3. call'[c] = [call[c] EXCEPT !.up = call[c].up]
      BY <2>1, <2>2 DEF Record
    <3>4. QED
      BY <3>2, <3>3
  <2>3. CASE call' = Gone(x)
    BY <2>3 DEF Gone
  <2>4. QED
    BY <2>2, <2>3
<1>3. ASSUME NEW c \in 1..Calls PROVE Request(call[c])'
  <2> DEFINE r == call[c]
  <2>1. Request(r) /\ r.up \subseteq Servers
    BY DEF RequestsInv, Record
  <2>2. PICK u \in SUBSET (r.up \ {x}) : call'[c] = [r EXCEPT !.up = u]
    BY <1>2
  <2>3. \A s \in u, q \in Dash : listener[q] = s => listener'[q] = s /\ profile'[s] = profile[s]
    BY <2>1
  <2>4. u \in SUBSET r.up
    BY <2>2
  <2>5. QED
    BY <2>1, <2>2, <2>3, <2>4, RequestKept
<1>4. call' \in [1..Calls -> Record]
  <2>1. \A c \in 1..Calls : call'[c] \in Record
    BY <1>3 DEF Request
  <2>2. call' = call \/ call' = [c \in 1..Calls |-> call'[c]]
    BY DEF Gone
  <2>3. QED
    BY <2>1, <2>2 DEF RequestsInv
<1>5. QED
  BY <1>3, <1>4 DEF RequestsInv

\* A backend is one of the dashboards.
LEMMA StartedType == Started \in Dashboards
BY LocalApiAssumption DEF Started, Dashboards, Profiles

\* A dashboard started by somebody takes a port nobody counts on.
LEMMA SomebodyStartsStep ==
  ASSUME ApiInv, SomebodyStarts
  PROVE  ApiInv'
<1> DEFINE n == Newcomer
<1>1. PICK p \in {q \in Dash : listener[q] = 0}, whose \in Dashboards :
        /\ listener' = [listener EXCEPT ![p] = n]
        /\ profile' = [profile EXCEPT ![n] = whose]
  BY DEF SomebodyStarts
<1>2. UNCHANGED <<booting, proc, sup, cached, token, call>>
  BY DEF SomebodyStarts, keeper
<1>3. /\ n \in Servers /\ n # 0 /\ n \notin booting
      /\ \A q \in Dash : listener[q] # n
  BY NewcomerIsFresh DEF SomebodyStarts, Fresh, Alive, Servers
<1> HIDE DEF n
<1>4. ServerTypes'
  <2>1. /\ listener' \in [Dash -> Servers \cup {0}]
        /\ profile' \in [Servers -> Dashboards]
    BY <1>1, <1>3 DEF ApiInv, ServerTypes
  <2>2. \A q, s \in Dash : listener'[q] = listener'[s] /\ listener'[q] # 0 => q = s
    BY <1>1, <1>3 DEF ApiInv, ServerTypes
  <2>3. \A q \in Dash : listener'[q] \notin booting
    BY <1>1, <1>3 DEF ApiInv, ServerTypes
  <2>4. booting \subseteq Servers /\ proc \in Servers \cup {0} /\ sup \in {"off", "on"}
    BY DEF ApiInv, ServerTypes
  <2>5. QED
    BY <1>2, <2>1, <2>2, <2>3, <2>4 DEF ServerTypes
<1>5. RequestsInv'
  <2>1. \A s \in Servers \ {0}, q \in Dash :
           listener[q] = s => listener'[q] = s /\ profile'[s] = profile[s]
    BY <1>1, <1>3 DEF ApiInv, ServerTypes
  <2>2. QED
    BY <1>2, <2>1, RequestsKept DEF ApiInv
<1>6. CacheTypes' /\ BootInv'
  BY <1>2 DEF ApiInv, CacheTypes, BootInv
<1>7. QED
  BY <1>4, <1>5, <1>6 DEF ApiInv

\* A backend that binds its port, or finds it taken.
LEMMA BindsStep ==
  ASSUME ApiInv, Binds
  PROVE  ApiInv'
<1>1. PICK s \in booting :
        /\ booting' = booting \ {s}
        /\ listener' = IF listener[OwnPort] = 0 THEN [listener EXCEPT ![OwnPort] = s] ELSE listener
  BY DEF Binds
<1>2. UNCHANGED <<profile, proc, sup, cached, token, call>>
  BY DEF Binds, keeper
<1>3. s \in Servers /\ s # 0 /\ \A q \in Dash : listener[q] # s
  BY DEF ApiInv, ServerTypes, Servers
<1>4. ServerTypes'
  <2>1. listener' \in [Dash -> Servers \cup {0}]
    BY <1>1, <1>3 DEF ApiInv, ServerTypes
  <2>2. \A q, p \in Dash : listener'[q] = listener'[p] /\ listener'[q] # 0 => q = p
    BY <1>1, <1>3 DEF ApiInv, ServerTypes
  <2>3. \A q \in Dash : listener'[q] \notin booting'
    BY <1>1, <1>3 DEF ApiInv, ServerTypes
  <2>4. /\ booting' \subseteq Servers /\ proc \in Servers \cup {0} /\ sup \in {"off", "on"}
        /\ profile \in [Servers -> Dashboards]
    BY <1>1 DEF ApiInv, ServerTypes
  <2>5. QED
    BY <1>2, <2>1, <2>2, <2>3, <2>4 DEF ServerTypes
<1>5. RequestsInv'
  <2>1. \A t \in Servers \ {0}, q \in Dash :
           listener[q] = t => listener'[q] = t /\ profile'[t] = profile[t]
    BY <1>1, <1>2 DEF ApiInv, ServerTypes
  <2>2. QED
    BY <1>2, <2>1, RequestsKept DEF ApiInv
<1>6. CacheTypes' /\ BootInv'
  BY <1>1, <1>2 DEF ApiInv, CacheTypes, BootInv
<1>7. QED
  BY <1>4, <1>5, <1>6 DEF ApiInv

\* A dashboard that exits was not up all along.
LEMMA DiesStep ==
  ASSUME ApiInv, Dies
  PROVE  ApiInv'
<1>1. PICK p \in Dash :
        /\ listener[p] # 0 /\ listener' = [listener EXCEPT ![p] = 0]
        /\ call' = Gone(listener[p]) /\ profile' = [profile EXCEPT ![listener[p]] = Started]
  BY DEF Dies
<1>2. UNCHANGED <<booting, proc, sup, cached, token>>
  BY DEF Dies, keeper
<1>3. ServerTypes'
  <2>1. listener' \in [Dash -> Servers \cup {0}]
    BY <1>1 DEF ApiInv, ServerTypes
  <2>2. \A q, s \in Dash : listener'[q] = listener'[s] /\ listener'[q] # 0 => q = s
    BY <1>1 DEF ApiInv, ServerTypes
  <2>3. \A q \in Dash : listener'[q] \notin booting
    BY <1>1 DEF ApiInv, ServerTypes, Servers
  <2>4. /\ booting \subseteq Servers /\ proc \in Servers \cup {0} /\ sup \in {"off", "on"}
        /\ profile' \in [Servers -> Dashboards]
    BY <1>1, StartedType DEF ApiInv, ServerTypes
  <2>5. QED
    BY <1>2, <2>1, <2>2, <2>3, <2>4 DEF ServerTypes
<1>4. RequestsInv'
  <2>1. \A s \in Servers \ {listener[p]}, q \in Dash :
           listener[q] = s => listener'[q] = s /\ profile'[s] = profile[s]
    BY <1>1, <1>2 DEF ApiInv, ServerTypes
  <2>2. QED
    BY <1>1, <2>1, RequestsKept DEF ApiInv
<1>5. CacheTypes' /\ BootInv'
  BY <1>2 DEF ApiInv, CacheTypes, BootInv
<1>6. QED
  BY <1>3, <1>4, <1>5 DEF ApiInv

\* Start leaves everything but the supervisor as it was.
LEMMA StartStep ==
  ASSUME ApiInv, Start
  PROVE  ApiInv'
<1>1. sup' = "on" /\ UNCHANGED <<listener, profile, booting, proc, cached, token, call>>
  BY DEF Start, servers
<1>2. ServerTypes' /\ CacheTypes' /\ BootInv'
  BY <1>1 DEF ApiInv, ServerTypes, CacheTypes, BootInv
<1>3. RequestsInv'
  BY <1>1, RequestsKept DEF ApiInv
<1>4. QED
  BY <1>2, <1>3 DEF ApiInv

\* A backend is spawned only when the one before is gone.
LEMMA EnsuresStep ==
  ASSUME ApiInv, Ensures
  PROVE  ApiInv'
<1>1. UNCHANGED <<listener, sup, call>>
  BY DEF Ensures
<1>2. CacheTypes'
  <2>1. CASE ProcRuns
    BY <2>1 DEF Ensures, ApiInv, CacheTypes
  <2>2. CASE ~ProcRuns
    BY <2>2, DroppedTypes DEF Ensures, ApiInv
  <2>3. QED
    BY <2>1, <2>2
<1>3. CASE UNCHANGED <<proc, profile, booting>>
  <2>1. ServerTypes' /\ BootInv'
    BY <1>1, <1>3 DEF ApiInv, ServerTypes, BootInv
  <2>2. RequestsInv'
    BY <1>1, <1>3, RequestsKept DEF ApiInv
  <2>3. QED
    BY <1>2, <2>1, <2>2 DEF ApiInv
<1>4. CASE ~UNCHANGED <<proc, profile, booting>>
  <2> DEFINE n == Newcomer
  <2>1. /\ ~ProcRuns /\ Fresh # {} /\ proc' = n /\ booting' = booting \cup {n}
        /\ profile' = [profile EXCEPT ![n] = Started]
    BY <1>4 DEF Ensures
  <2>2. /\ n \in Servers /\ \A q \in Dash : listener[q] # n
    BY <2>1, NewcomerIsFresh DEF Fresh, Alive
  <2> HIDE DEF n
  <2>3. booting = {}
    BY <2>1 DEF ApiInv, BootInv, ServerTypes, ProcRuns, Alive, Servers
  <2>4. ServerTypes'
    <3>1. profile' \in [Servers -> Dashboards]
      BY <2>1, <2>2, StartedType DEF ApiInv, ServerTypes
    <3>2. /\ booting' \subseteq Servers /\ proc' \in Servers \cup {0}
          /\ \A p \in Dash : listener'[p] \notin booting'
      BY <1>1, <2>1, <2>2, <2>3
    <3>3. QED
      BY <1>1, <3>1, <3>2 DEF ApiInv, ServerTypes
  <2>5. BootInv'
    BY <2>1, <2>3 DEF BootInv
  <2>6. RequestsInv'
    <3>1. \A s \in Servers \ {0}, q \in Dash :
             listener[q] = s => listener'[q] = s /\ profile'[s] = profile[s]
      BY <1>1, <2>1, <2>2 DEF ApiInv, ServerTypes
    <3>2. QED
      BY <1>1, <3>1, RequestsKept DEF ApiInv
  <2>7. QED
    BY <1>2, <2>4, <2>5, <2>6 DEF ApiInv
<1>5. QED
  BY <1>3, <1>4

\* A spawn that fails leaves no backend.
LEMMA SpawnFailsStep ==
  ASSUME ApiInv, SpawnFails
  PROVE  ApiInv'
<1>1. /\ ~ProcRuns /\ proc' = 0 /\ Dropped(cached \in Dash \ Own)
      /\ UNCHANGED <<listener, profile, booting, sup, call>>
  BY DEF SpawnFails, servers
<1>2. CacheTypes'
  BY <1>1, DroppedTypes DEF ApiInv
<1>3. booting = {}
  BY <1>1 DEF ApiInv, BootInv, ServerTypes, ProcRuns, Alive, Servers
<1>4. ServerTypes' /\ BootInv'
  BY <1>1, <1>3 DEF ApiInv, ServerTypes, BootInv
<1>5. RequestsInv'
  BY <1>1, RequestsKept DEF ApiInv
<1>6. QED
  BY <1>2, <1>4, <1>5 DEF ApiInv

\* stop takes the backend with it.
LEMMA StopStep ==
  ASSUME ApiInv, Stop
  PROVE  ApiInv'
<1>1. /\ sup' = "off" /\ proc' = 0 /\ booting' = booting \ {proc}
      /\ listener' = [p \in Dash |-> IF proc # 0 /\ listener[p] = proc THEN 0 ELSE listener[p]]
      /\ call' = Gone(proc) /\ UNCHANGED <<profile, cached, token>>
  BY DEF Stop
<1>2. ServerTypes'
  <2>1. listener' \in [Dash -> Servers \cup {0}]
    BY <1>1 DEF ApiInv, ServerTypes
  <2>2. \A q, s \in Dash : listener'[q] = listener'[s] /\ listener'[q] # 0 => q = s
    BY <1>1 DEF ApiInv, ServerTypes
  <2>3. \A q \in Dash : listener'[q] \notin booting'
    BY <1>1 DEF ApiInv, ServerTypes, Servers
  <2>4. /\ booting' \subseteq Servers /\ proc' \in Servers \cup {0} /\ sup' \in {"off", "on"}
        /\ profile' \in [Servers -> Dashboards]
    BY <1>1 DEF ApiInv, ServerTypes
  <2>5. QED
    BY <2>1, <2>2, <2>3, <2>4 DEF ServerTypes
<1>3. RequestsInv'
  <2>1. \A s \in Servers \ {proc}, q \in Dash :
           listener[q] = s => listener'[q] = s /\ profile'[s] = profile[s]
    BY <1>1
  <2>2. QED
    BY <1>1, <2>1, RequestsKept DEF ApiInv
<1>4. CacheTypes' /\ BootInv'
  BY <1>1 DEF ApiInv, CacheTypes, BootInv
<1>5. QED
  BY <1>2, <1>3, <1>4 DEF ApiInv

\* A step on one request.
LEMMA GoesStep ==
  ASSUME ApiInv, NEW c \in 1..Calls, CacheTypes', Goes(c), UNCHANGED <<servers, keeper>>
  PROVE  ApiInv'
<1>1. UNCHANGED <<listener, profile, booting, proc, sup>>
  BY DEF servers, keeper
<1>2. PICK n : call' = [call EXCEPT ![c] = n] /\ Request(n)
  BY DEF Goes
<1>3. \A d \in 1..Calls : Request(call'[d]) /\ call'[d] \in Record
  BY <1>2 DEF ApiInv, RequestsInv, Request
<1>4. RequestsInv'
  <2>1. call' \in [1..Calls -> Record]
    BY <1>2, <1>3 DEF ApiInv, RequestsInv
  <2>2. ASSUME NEW d \in 1..Calls PROVE Request(call[d])'
    <3>1. Request(call'[d])
      BY <1>3
    <3>2. /\ \A s : Ahead(call'[d], s) => Ahead(call[d], s)'
          /\ Known(call[d])' = Known(call'[d])
      BY <1>1 DEF Ahead, Known
    <3>3. Reaches(call'[d]) => Reaches(call[d])'
      BY <3>2, Zenon DEF Reaches
    <3>4. QED
      BY <1>1, <3>1, <3>3, Zenon DEF Request, Unanswered, Untouched
  <2>3. QED
    BY <2>1, <2>2 DEF RequestsInv
<1>5. ServerTypes' /\ BootInv'
  BY <1>1 DEF ApiInv, ServerTypes, BootInv
<1>6. QED
  BY <1>4, <1>5 DEF ApiInv

\* A request comes to its end in a step of its own.
EndsServed(c) ==
  (call[c].at # "done" /\ call'[c].at = "done" /\ ~call[c].one /\ ~call'[c].lost
     /\ (call[c].kind = "run" \/ Known(call[c]) # {})) => call'[c].res = "served"

\* On the steps of a request every search ends served.
LEMMA GoesServes ==
  ASSUME ApiInv, NEW c \in 1..Calls, Goes(c), NEW d \in 1..Calls
  PROVE  EndsServed(d)
<1>1. PICK n : call' = [call EXCEPT ![c] = n] /\ Served(call[c], n)
  BY DEF Goes
<1>2. call'[d] = IF d = c THEN n ELSE call[d]
  BY <1>1 DEF ApiInv, RequestsInv
<1>3. QED
  BY <1>1, <1>2 DEF EndsServed, Served

\* The steps of the servers and of the keeper bring no request to its end.
LEMMA OthersServe ==
  ASSUME ApiInv, call' = call \/ \E x : call' = Gone(x), NEW d \in 1..Calls
  PROVE  EndsServed(d)
<1>1. CASE call' = call
  BY <1>1 DEF EndsServed
<1>2. ASSUME NEW x, call' = Gone(x)
      PROVE  EndsServed(d)
  <2>1. call'[d] = [call[d] EXCEPT !.up = @ \ {x}] /\ call[d] \in Record
    BY <1>2 DEF Gone, ApiInv, RequestsInv
  <2>2. call'[d].at = call[d].at
    BY <2>1 DEF Record
  <2>3. QED
    BY <2>2 DEF EndsServed
<1>3. QED
  BY <1>1, <1>2

\* Every step preserves the invariant, and ends no search unserved.
LEMMA ApiStepInv ==
  ASSUME ApiInv, [ApiNext]_apiVars
  PROVE  ApiInv' /\ \A d \in 1..Calls : EndsServed(d)
<1>1. CASE SomebodyStarts
  BY <1>1, SomebodyStartsStep, OthersServe DEF SomebodyStarts
<1>2. CASE Binds
  BY <1>2, BindsStep, OthersServe DEF Binds
<1>3. CASE Dies
  BY <1>3, DiesStep, OthersServe DEF Dies
<1>4. CASE Start
  BY <1>4, StartStep, OthersServe DEF Start
<1>5. CASE Ensures
  BY <1>5, EnsuresStep, OthersServe DEF Ensures
<1>6. CASE Stop
  BY <1>6, StopStep, OthersServe DEF Stop
<1>7. CASE SpawnFails
  BY <1>7, SpawnFailsStep, OthersServe DEF SpawnFails
<1>8. ASSUME NEW c \in 1..Calls, Begins(c) \/ Scrapes(c) \/ Tries(c)
      PROVE  ApiInv' /\ \A d \in 1..Calls : EndsServed(d)
  <2>1. CacheTypes' /\ Goes(c)
    BY <1>8, BeginsGoes, ScrapesGoes, TriesGoes
  <2>2. UNCHANGED <<servers, keeper>>
    BY <1>8 DEF Begins, Scrapes, Tries
  <2>3. QED
    BY <2>1, <2>2, GoesStep, GoesServes
<1>9. CASE UNCHANGED apiVars
  <2>1. UNCHANGED <<listener, profile, booting, proc, sup, cached, token, call>>
    BY <1>9 DEF apiVars, servers, keeper
  <2>2. ServerTypes' /\ CacheTypes' /\ BootInv'
    BY <2>1 DEF ApiInv, ServerTypes, CacheTypes, BootInv
  <2>3. RequestsInv'
    BY <2>1, RequestsKept DEF ApiInv
  <2>4. QED
    BY <2>1, <2>2, <2>3, OthersServe DEF ApiInv
<1>10. QED
  BY <1>1, <1>2, <1>3, <1>4, <1>5, <1>6, <1>8, <1>9, <1>7 DEF ApiNext

\* At the start there is no request and no backend.
LEMMA ApiInitInv ==
  ASSUME ApiInit
  PROVE  ApiInv
<1>1. 1 \in Servers
  BY LocalApiAssumption DEF Servers
<1>2. ServerTypes
  <2>1. listener \in [Dash -> Servers \cup {0}]
    BY <1>1 DEF ApiInit
  <2>2. \A p, q \in Dash : listener[p] = listener[q] /\ listener[p] # 0 => p = q
    BY PortsDiffer DEF ApiInit, Dash
  <2>3. profile \in [Servers -> Dashboards]
    BY StartedType DEF ApiInit
  <2>4. QED
    BY <1>1, <2>1, <2>2, <2>3 DEF ApiInit, ServerTypes
<1>3. CacheTypes
  BY PortsDiffer DEF ApiInit, CacheTypes
<1>4. BootInv
  BY DEF ApiInit, BootInv
<1>5. Request(Idle)
  <2>1. Idle \in Record
    BY DEF Idle, Record, Kinds
  <2>2. Idle.at = "idle" /\ Idle.cand = <<>> /\ Idle.up = {}
    BY DEF Idle
  <2>3. Unanswered(Idle) /\ Untouched(Idle)
    <3>1. /\ Idle.acted = {} /\ Idle.heard = "none" /\ Idle.replays = {} /\ Idle.p = 0
          /\ Idle.kind = "post"
      BY DEF Idle
    <3>2. Distinct(<<>>) /\ Elems(<<>>) = {}
      BY DEF Distinct, Elems
    <3>3. QED
      BY <2>2, <3>1, <3>2 DEF Unanswered, Untouched
  <2>4. Len(<<>>) = 0
    OBVIOUS
  <2>5. Len(Idle.cand) <= 2
    BY <2>2, <2>4
  <2>6. QED
    BY <2>1, <2>2, <2>3, <2>5 DEF Request, Reaches, Active
<1>6. RequestsInv
  BY <1>5 DEF ApiInit, RequestsInv, Request
<1>7. QED
  BY <1>2, <1>3, <1>4, <1>6 DEF ApiInv

\* One backend boots at a time; a search that has lost no answer has the servers
\* that the scan knows before it (api_server, for a run), and one for the server
\* of a write tries ports where none has acted, after the rejection of a second
\* attempt too (request, get_on_working_port, token, _ensure).
THEOREM ApiInductive == ApiSpec => []ApiInv
<1>1. ApiInit => ApiInv
  BY ApiInitInv
<1>2. ApiInv /\ [ApiNext]_apiVars => ApiInv'
  BY ApiStepInv
<1>3. QED
  BY <1>1, <1>2, PTL DEF ApiSpec

\* Every variable of LocalApi keeps its type, no request has more than two ports
\* to try after the first, and there is always an identity for a new process.
THEOREM ApiTypeCorrect == ApiSpec => []ApiTypeOK
<1>1. ApiInv => ApiTypeOK
  BY FreshExists DEF ApiInv, ServerTypes, CacheTypes, RequestsInv, Request, ApiTypeOK
<1>2. QED
  BY <1>1, ApiInductive, PTL

\* No server acts twice on a write, and none after the answer of another was
\* read, but for the rejection of the attempt after a 401 (request); a server
\* whose answer was lost on the way may be followed by another.
THEOREM NoReplay == ApiSpec => []ReplayOnlyInDoubt
<1>1. ApiInv => ReplayOnlyInDoubt
  BY DEF ApiInv, RequestsInv, Request, Unanswered, ReplayOnlyInDoubt
<1>2. QED
  BY <1>1, ApiInductive, PTL

\* A request ends served when a dashboard of the profile whose command line says
\* so (api_server, for a run) was up all along and no answer was lost, whatever
\* the caches held.
THEOREM FoundIfUp == ApiSpec => ServedIfUp
<1>1. ASSUME ApiInv, [ApiNext]_apiVars, NEW c \in 1..Calls,
             call[c].kind = "run" \/ (\E s \in call[c].up : profile[s].argv = Gateway)
      PROVE  Serves(c)
  <2>1. call[c].kind = "run" \/ Known(call[c]) # {}
    BY <1>1 DEF Known
  <2>2. EndsServed(c)
    BY <1>1, ApiStepInv
  <2>3. QED
    BY <2>1, <2>2 DEF EndsServed, Serves
<1>2. ApiInv /\ [ApiNext]_apiVars =>
        [\A c \in 1..Calls :
           call[c].kind = "run" \/ (\E s \in call[c].up : profile[s].argv = Gateway)
             => Serves(c)]_apiVars
  BY <1>1
<1>3. QED
  BY <1>2, ApiInductive, PTL DEF ServedIfUp, ApiSpec
=============================================================================
