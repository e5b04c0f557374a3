------------------------------ MODULE LocalOwner ------------------------------
(***************************************************************************)
(* Messages for a chat owned by the laptop.  The dispatch worker hands each *)
(* to a task of its own and waits until the task has an answer to the       *)
(* admission; the task submits the message to the owner under a durable id, *)
(* waits for the turn and delivers the reply.  A message may be sent again  *)
(* by the phone, a submit may stay unconfirmed, disconnect cancels the      *)
(* tasks, and a restart replays the message whose dispatch had not          *)
(* returned.                                                                *)
(***************************************************************************)
EXTENDS Integers, FiniteSets, FiniteSetsExt, Sequences

CONSTANTS
  Msgs,         \* message ids of one chat
  Unsupported,  \* with attachments or without an id: refused by the plugin
  NoMsg,
  Cap,          \* 512 in the code: tasks kept before answered ones are evicted
  MaxSends,     \* bound: messages sent, repetitions included
  MaxRestarts   \* bound: restarts

ASSUME OwnerAssumption ==
  /\ IsFiniteSet(Msgs) /\ Unsupported \subseteq Msgs /\ NoMsg \notin Msgs
  /\ Cap \in Nat \ {0} /\ MaxSends \in Nat /\ MaxRestarts \in Nat

VARIABLES
  phase,     \* "up", disconnect waits for the tasks it has cancelled ("cancelling")
             \* or for the worker ("stopping"), "down"
  restarts,
  sent,      \* what the phone has sent, in the relay's order
  cursor,    \* messages of it the worker has returned from
  waiting,   \* the message whose `ready` the worker awaits
  tasks,     \* _local_owner_tasks
  asked,     \* submits that have reached the owner and are not processed
  turns      \* submissions the owner has admitted, each once

\* Observations, read by no action's guard.
VARIABLES
  uncertain, \* submitted in this process and neither refused nor answered
  told,      \* messages a reply or an error was delivered for
  undelivered, \* messages whose error could not be delivered
  restarted  \* messages whose dispatch a restart or a cancelled worker cut short

owner == <<asked, turns>>
history == <<uncertain, told, undelivered, restarted>>
vars == <<phase, restarts, sent, cursor, waiting, tasks, owner, history>>

NoTask == [at |-> "none", ready |-> FALSE]
Running == {"unstarted", "connecting", "submitting", "awaiting", "replying",
            "refusing", "doubting"}
Ended == {"answered", "uncertain", "refused", "cancelled"}
At(m, stages) == tasks[m].at \in stages
Moves(m, stage) == tasks' = [tasks EXCEPT ![m].at = stage]

\* Mutant: the id depends on the process that submits.
SubmissionId_PerProcess(m) == <<m, restarts>>

\* local_owner.submission_id: profile, session and message id.
SubmissionId(m) == <<m, 0>>

Init ==
  /\ phase = "up" /\ restarts = 0
  /\ sent = <<>> /\ cursor = 0 /\ waiting = NoMsg
  /\ tasks = [m \in Msgs |-> NoTask]
  /\ asked = {} /\ turns = {}
  /\ uncertain = {} /\ told = {} /\ undelivered = {} /\ restarted = {}

-----------------------------------------------------------------------------
(* The phone and the dispatch worker.                                      *)

PhoneSends(m) ==
  /\ Len(sent) < MaxSends /\ sent' = Append(sent, m)
  /\ UNCHANGED <<phase, restarts, cursor, waiting, tasks, owner, history>>

Next1 == sent[cursor + 1]

\* Mutant: the worker does not wait for the admission.
Dispatches_NoWait == phase # "down" /\ cursor < Len(sent)

\* The worker goes on after disconnect has been called: what was read is
\* dispatched before the reader returns.
Dispatches == phase # "down" /\ waiting = NoMsg /\ cursor < Len(sent)

\* Answered tasks leave the cache, any of them, until it is below its cap
\* or none is left; the others stay for the life of the process.
Evictions ==
  LET known == {m \in Msgs \ {Next1} : ~At(m, {"none"})}
      answered == {m \in known : At(m, {"answered"})}
      surplus == Cardinality(known) - Cap + 1 IN
  {gone \in SUBSET answered :
     Cardinality(gone) = Min({Cardinality(answered), Max({0, surplus})})}

\* Mutant: a submit without an answer is taken for a refusal.
Retryable_Uncertain(m) == At(m, {"none", "refused", "uncertain"})

\* "A definite pre-commit refusal may be retried."
Retryable(m) == At(m, {"none", "refused"})

\* _local_owner_error does not look whether the error was delivered.
Errs(m) ==
  \/ told' = told \cup {m} /\ UNCHANGED undelivered
  \/ undelivered' = undelivered \cup {m} /\ UNCHANGED told

Rejects ==
  /\ Dispatches /\ Next1 \in Unsupported
  /\ Errs(Next1) /\ cursor' = cursor + 1
  /\ UNCHANGED <<phase, restarts, sent, waiting, tasks, owner, uncertain, restarted>>

Repeats ==
  /\ Dispatches /\ Next1 \notin Unsupported /\ ~Retryable(Next1)
  /\ cursor' = cursor + 1
  /\ UNCHANGED <<phase, restarts, sent, waiting, tasks, owner, history>>

Forwards ==
  /\ Dispatches /\ Next1 \notin Unsupported /\ Retryable(Next1)
  /\ \E gone \in Evictions :
       tasks' = [m \in Msgs |-> IF m = Next1 THEN [at |-> "unstarted", ready |-> FALSE]
                                ELSE IF m \in gone THEN NoTask ELSE tasks[m]]
  /\ waiting' = Next1
  /\ UNCHANGED <<phase, restarts, sent, cursor, owner, history>>

Returns ==
  /\ waiting # NoMsg /\ tasks[waiting].ready
  /\ cursor' = cursor + 1 /\ waiting' = NoMsg
  /\ UNCHANGED <<phase, restarts, sent, tasks, owner, history>>

-----------------------------------------------------------------------------
(* The task of a message.                                                  *)

others == <<phase, restarts, sent, cursor, waiting>>

\* Mutant: the worker is let go before the admission.
Starts_Ready(m) ==
  /\ At(m, {"unstarted"})
  /\ tasks' = [tasks EXCEPT ![m] = [at |-> "connecting", ready |-> TRUE]]
  /\ UNCHANGED <<others, owner, history>>

Starts(m) ==
  /\ At(m, {"unstarted"})
  /\ Moves(m, "connecting")
  /\ UNCHANGED <<others, owner, history>>

\* No owner, or no session: nothing was submitted.
ConnectFails(m) ==
  /\ At(m, {"connecting"})
  /\ Moves(m, "refusing")
  /\ UNCHANGED <<others, owner, history>>

Submits(m) ==
  /\ At(m, {"connecting"})
  /\ Moves(m, "submitting")
  /\ asked' = asked \cup {SubmissionId(m)} /\ uncertain' = uncertain \cup {m}
  /\ UNCHANGED <<others, turns, told, undelivered, restarted>>

\* The receipt: the turn is admitted, or was before, and may be over.
Admitted(m) ==
  /\ At(m, {"submitting"})
  /\ SubmissionId(m) \in turns \ asked
  /\ tasks' = [tasks EXCEPT ![m] = [at |-> "awaiting", ready |-> TRUE]]
  /\ UNCHANGED <<others, owner, history>>

\* The owner refuses before it commits (_REFUSED_BEFORE_COMMIT).
Refused(m) ==
  /\ At(m, {"submitting"})
  /\ SubmissionId(m) \in asked \ turns
  /\ asked' = asked \ {SubmissionId(m)} /\ uncertain' = uncertain \ {m}
  /\ Moves(m, "refusing")
  /\ UNCHANGED <<others, turns, told, undelivered, restarted>>

\* Any other end of the call: the owner may admit the submit, now or later.
Unconfirmed(m) ==
  /\ At(m, {"submitting"})
  /\ Moves(m, "doubting")
  /\ UNCHANGED <<others, owner, history>>

\* The turn is over, and its text is there.
TurnOver(m) ==
  /\ At(m, {"awaiting"}) /\ SubmissionId(m) \in turns
  /\ Moves(m, "replying")
  /\ UNCHANGED <<others, owner, history>>

\* The owner disconnects, six hours pass, or the reply has no text.
TurnLost(m) ==
  /\ At(m, {"awaiting"})
  /\ Moves(m, "doubting")
  /\ UNCHANGED <<others, owner, history>>

Replies(m) ==
  /\ At(m, {"replying"})
  /\ Moves(m, "answered")
  /\ told' = told \cup {m} /\ uncertain' = uncertain \ {m}
  /\ UNCHANGED <<others, owner, undelivered, restarted>>

ReplyFails(m) ==
  /\ At(m, {"replying"})
  /\ Moves(m, "doubting")
  /\ UNCHANGED <<others, owner, history>>

\* Mutant: an unconfirmed submit ends without a word to the phone.
Reports_Refusal(m) ==
  /\ At(m, {"refusing", "doubting"})
  /\ tasks' = [tasks EXCEPT ![m] =
       [at |-> IF At(m, {"refusing"}) THEN "refused" ELSE "uncertain", ready |-> TRUE]]
  /\ IF At(m, {"refusing"}) THEN Errs(m) ELSE UNCHANGED <<told, undelivered>>
  /\ UNCHANGED <<others, owner, uncertain, restarted>>

\* The error is sent and the task ends; `ready` is set last.
Reports(m) ==
  /\ At(m, {"refusing", "doubting"})
  /\ tasks' = [tasks EXCEPT ![m] =
       [at |-> IF At(m, {"refusing"}) THEN "refused" ELSE "uncertain", ready |-> TRUE]]
  /\ Errs(m)
  /\ UNCHANGED <<others, owner, uncertain, restarted>>

-----------------------------------------------------------------------------
(* The owner.                                                              *)

\* A submission it knows is not admitted twice.
OwnerAdmits(i) ==
  /\ i \in asked
  /\ asked' = asked \ {i} /\ turns' = turns \cup {i}
  /\ UNCHANGED <<others, tasks, history>>

-----------------------------------------------------------------------------
(* disconnect and restart.                                                 *)

\* A task cancelled at an await sets `ready` in its finally; one that has not
\* started yet never enters the try.
Cancel(t) ==
  IF t.at \in Running
  THEN [at |-> "cancelled", ready |-> t.ready \/ t.at # "unstarted"]
  ELSE t

\* disconnect cancels the tasks it finds and waits for them.  Meanwhile the
\* reader and the worker go on: a worker they let go takes the next message.
CancelsTasks ==
  /\ phase = "up" /\ \E m \in Msgs : ~At(m, {"none"})
  /\ phase' = "cancelling"
  /\ tasks' = [m \in Msgs |-> Cancel(tasks[m])]
  /\ UNCHANGED <<restarts, sent, cursor, waiting, owner, history>>

\* Then it cancels the supervisor, at once if there was no task.  If that
\* reads the socket, the worker still works off what was read; if it awaits
\* the worker, the worker is cancelled with it, and a task that it had handed
\* a message to in the meantime goes on alone.
CancelsSupervisor ==
  /\ phase = "cancelling" \/ (phase = "up" /\ \A m \in Msgs : At(m, {"none"}))
  /\ \/ phase' = "stopping" /\ UNCHANGED <<waiting, restarted>>
     \/ /\ phase' = "down" /\ waiting' = NoMsg
        /\ restarted' = restarted \cup ({waiting} \ {NoMsg})
  /\ UNCHANGED <<restarts, sent, cursor, tasks, owner, uncertain, told, undelivered>>

WorkerStops ==
  /\ phase = "stopping" /\ waiting = NoMsg
  /\ phase' = "down"
  /\ UNCHANGED <<restarts, sent, cursor, waiting, tasks, owner, history>>

\* The process ends, at any moment, and starts again with empty caches.
Restarts ==
  /\ restarts < MaxRestarts /\ restarts' = restarts + 1
  /\ phase' = "up" /\ waiting' = NoMsg
  /\ tasks' = [m \in Msgs |-> NoTask]
  /\ uncertain' = {}
  /\ restarted' = restarted \cup {m \in Msgs : At(m, Running \cup {"cancelled"})}
  /\ UNCHANGED <<sent, cursor, owner, told, undelivered>>

TaskStep(m) ==
  \/ Starts(m) \/ ConnectFails(m) \/ Submits(m) \/ Admitted(m) \/ Refused(m)
  \/ Unconfirmed(m) \/ TurnOver(m) \/ TurnLost(m) \/ Replies(m) \/ ReplyFails(m)
  \/ Reports(m)

WorkerStep == Rejects \/ Repeats \/ Forwards \/ Returns

Next ==
  \/ \E m \in Msgs : PhoneSends(m) \/ TaskStep(m)
  \/ WorkerStep
  \/ \E i \in asked : OwnerAdmits(i)
  \/ CancelsTasks \/ CancelsSupervisor \/ WorkerStops \/ Restarts

Spec == Init /\ [][Next]_vars

\* The event loop runs whatever is ready, and every await of a task ends:
\* connect, call and turn have time-outs.
FairSpec == Spec /\ WF_vars(WorkerStep) /\ \A m \in Msgs : WF_vars(TaskStep(m))

-----------------------------------------------------------------------------
(* Properties.                                                             *)

\* Every variable has its type, and the cursor stays within what was sent.
TypeOK ==
  /\ phase \in {"up", "cancelling", "stopping", "down"} /\ restarts \in 0..MaxRestarts
  /\ sent \in Seq(Msgs) /\ cursor \in 0..Len(sent) /\ waiting \in Msgs \cup {NoMsg}
  /\ tasks \in [Msgs -> [at : {"none"} \cup Running \cup Ended, ready : BOOLEAN]]
  /\ asked \subseteq Msgs \X (0..MaxRestarts) /\ turns \subseteq Msgs \X (0..MaxRestarts)
  /\ uncertain \subseteq Msgs /\ told \subseteq Msgs /\ undelivered \subseteq Msgs
  /\ restarted \subseteq Msgs

\* However often a message is sent, dispatched or replayed, before and after
\* a restart, the owner runs one turn for it.
AtMostOneTurn == \A i, j \in turns : i[1] = j[1] => i = j

\* "Includes unconfirmed submits: never submit those again": within a
\* process a message is submitted again only after a refusal or its reply.
NeverResubmitted ==
  [][\A m \in Msgs :
       At(m, {"connecting"}) /\ tasks'[m].at = "submitting" => m \notin uncertain]_vars

\* Admissions keep the order of the messages: no two tasks are without an
\* answer to their admission, and while messages are dispatched the one that
\* is has the worker waiting for it.  (A worker cancelled with its supervisor
\* leaves its last task to go on alone; nothing is dispatched after that.)
OneAdmissionAtATime ==
  LET unanswered == {m \in Msgs : At(m, {"unstarted", "connecting", "submitting"})} IN
  /\ \A m, n \in unanswered : m = n
  /\ phase # "down" => unanswered \subseteq {waiting}

\* A message that was handed to a task is answered, with the reply or an
\* error, unless disconnect or a restart ended the task, or the error itself
\* could not be delivered.
EveryForwardTold ==
  \A m \in Msgs :
    (waiting = m) ~> (m \in told \cup undelivered \cup restarted \/ At(m, {"cancelled"}))

\* The comment in _forward_local_owned: "Admission answers promptly; do not
\* block the inbound FIFO".
ForwardReturns == (waiting # NoMsg) ~> (waiting = NoMsg)
=============================================================================
