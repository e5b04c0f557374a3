------------------------------- MODULE Prompts -------------------------------
(***************************************************************************)
(* Prompts with native buttons: a request of Hermes waits for an answer,   *)
(* the adapter registers a prompt for it and sends it to the phone, the    *)
(* phone's answer comes back through the inbound queue, and the dispatch   *)
(* worker starts a detached task that resolves the request.                *)
(* The phone's messages come through the same queue, and the worker awaits *)
(* the handling of each, which may take minutes and may fail.              *)
(*                                                                         *)
(* The requests are of one session.  A confirmed slash command and a       *)
(* picked choice run a handler of Hermes inside that task, and the handler *)
(* may ask for an approval of its own and wait for it.                     *)
(***************************************************************************)
EXTENDS Naturals, Sequences, FiniteSets, SequencesExt

CONSTANTS
  MaxPrompts,  \* bound: requests of Hermes
  MaxFrames,   \* bound: messages and answers of the phone, repeats included
  MaxRestarts  \* bound: restarts of the gateway

ASSUME PromptsAssumption ==
  MaxPrompts \in Nat /\ MaxFrames \in Nat /\ MaxRestarts \in Nat

Kinds == {"approval", "slash_confirm", "clarify", "choice_picker"}

\* "good" stands for any option the request understands.
Options(kind) ==
  CASE kind = "clarify" -> {"good", "__other__"}
    [] kind = "choice_picker" -> {"good", "out of range"}
    [] OTHER -> {"good"}

VARIABLES
  reqs,     \* requests: [kind, at, by]; at is "waiting", "text", "settled" or "gone"
  pending,  \* _pending_prompts
  sending,  \* questions whose send_clarify has not returned
  shown,    \* prompts the phone shows
  inbox,    \* messages and answers the worker has not taken
  worker,   \* _dispatch_worker: it is "free" or awaits a "turn"
  tasks,    \* _consume_prompt_response, in the order of their creation
  frames,   \* messages and answers sent by the phone
  restarts

\* Observations, read by no action's guard.
VARIABLES
  handled,  \* prompts whose handler ran, a sequence
  missed    \* prompts whose answer settles nothing, for a reason that has a name

vars == <<reqs, pending, sending, shown, inbox, worker, tasks, frames, restarts,
          handled, missed>>

Prompts == 1..Len(reqs)
Message == [prompt |-> 0, option |-> "message"]
Waits(p) == reqs[p].at = "waiting"
Open(p) == reqs[p].at \in {"waiting", "text"}

Init ==
  /\ reqs = <<>> /\ pending = {} /\ sending = {} /\ shown = {}
  /\ inbox = <<>> /\ worker = "free" /\ tasks = <<>> /\ frames = 0 /\ restarts = 0
  /\ handled = <<>> /\ missed = {}

-----------------------------------------------------------------------------
(* Asking.                                                                 *)

\* _mint_prompt, before the frame is sent.
Minted(p) == pending' = pending \cup {p}

\* A turn asks (t = 0), or the handler that task t runs.
Asks(kind, t) ==
  LET p == Len(reqs) + 1 IN
  /\ p <= MaxPrompts
  /\ t # 0 => kind = "approval" /\ tasks[t].at = "handler" /\ tasks[t].asked = 0
  /\ reqs' = Append(reqs, [kind |-> kind, at |-> "waiting", by |-> 0])
  /\ Minted(p) /\ sending' = sending \cup {q \in {p} : kind = "clarify"}
  /\ tasks' = IF t = 0 THEN tasks ELSE [tasks EXCEPT ![t].asked = p]
  /\ UNCHANGED <<shown, inbox, worker, frames, restarts, handled, missed>>

\* The frame reaches the phone, or never does.
Lands(p) ==
  /\ p \notin shown /\ shown' = shown \cup {p}
  /\ UNCHANGED <<reqs, pending, sending, inbox, worker, tasks, frames, restarts, handled, missed>>

Delivered(p) ==
  /\ p \in sending /\ sending' = sending \ {p}
  /\ UNCHANGED <<reqs, pending, shown, inbox, worker, tasks, frames, restarts, handled, missed>>

\* The store did not answer: the frame may be there all the same.  Hermes
\* clears a question; what else waits it asks for in text, and nothing changes
\* here.  The prompt stays registered.
NotDelivered(p) ==
  /\ p \in sending /\ sending' = sending \ {p}
  /\ IF Open(p)
     THEN reqs' = [reqs EXCEPT ![p].at = "gone"] /\ missed' = missed \cup {p}
     ELSE UNCHANGED <<reqs, missed>>
  /\ UNCHANGED <<pending, shown, inbox, worker, tasks, frames, restarts, handled>>

-----------------------------------------------------------------------------
(* The phone and Hermes.                                                   *)

\* A button stays where it is: the phone may answer again.
Answers(p, option) ==
  /\ p \in shown /\ frames < MaxFrames /\ frames' = frames + 1
  /\ inbox' = Append(inbox, [prompt |-> p, option |-> option])
  /\ UNCHANGED <<reqs, pending, sending, shown, worker, tasks, restarts, handled, missed>>

Messages ==
  /\ frames < MaxFrames /\ frames' = frames + 1
  /\ inbox' = Append(inbox, Message)
  /\ UNCHANGED <<reqs, pending, sending, shown, worker, tasks, restarts, handled, missed>>

\* The user types /approve, /deny or the text of an answer.
TextAnswers(p) ==
  /\ Open(p) /\ reqs[p].kind # "choice_picker"
  /\ reqs' = [reqs EXCEPT ![p].at = "settled"]
  /\ UNCHANGED <<pending, sending, shown, inbox, worker, tasks, frames, restarts, handled, missed>>

\* An answer the gateway has and no task has looked at.
Queued(p) == \E i \in 1..Len(inbox) : inbox[i].prompt = p
Answered(p) ==
  Queued(p) \/ \E t \in 1..Len(tasks) : tasks[t].prompt = p /\ tasks[t].at = "created"

\* Hermes stops waiting (_PROMPT_TIMEOUT_S and its own timeouts), which takes
\* longer than the gateway takes for an answer it can get at: one that is not
\* behind a turn the worker awaits.
GivesUp(p) ==
  /\ Open(p) /\ reqs[p].kind # "choice_picker"
  /\ Answered(p) => Queued(p) /\ worker # "free"
  /\ reqs' = [reqs EXCEPT ![p].at = "gone"]
  /\ missed' = missed \cup {q \in {p} : Queued(q)}
  /\ UNCHANGED <<pending, sending, shown, inbox, worker, tasks, frames, restarts, handled>>

-----------------------------------------------------------------------------
(* Answering.                                                              *)

Task(frame) == [prompt |-> frame.prompt, option |-> frame.option, at |-> "created", asked |-> 0]

\* What the worker takes next; it is suspended while it awaits a turn.
Takes(message) ==
  /\ inbox # <<>> /\ worker = "free" /\ (Head(inbox) = Message) = message
  /\ inbox' = Tail(inbox)
  /\ UNCHANGED <<reqs, pending, sending, shown, frames, restarts, handled, missed>>

\* A message: handle_message is awaited.
Turns == Takes(TRUE) /\ worker' = "turn" /\ UNCHANGED tasks

TurnEnds ==
  /\ worker = "turn" /\ worker' = "free"
  /\ UNCHANGED <<reqs, pending, sending, shown, tasks, frames, restarts, handled>>
TurnReturns == TurnEnds /\ UNCHANGED <<inbox, missed>>

\* It raises: the worker closes the connection and returns, and the next
\* connection has another worker (one step: until then nothing is taken, as in a
\* turn).  What the reader has put on the queue stays there for ever: its replay
\* is taken for a replayed nonce.
TurnRaises ==
  /\ TurnEnds
  /\ \E read \in 0..Len(inbox) :
       /\ inbox' = SubSeq(inbox, read + 1, Len(inbox))
       /\ missed' = missed \cup {p \in Prompts : \E i \in 1..read : inbox[i].prompt = p}

\* Mutant: the worker awaits the task.
Dispatches_Inline ==
  /\ Takes(FALSE) /\ tasks = <<>>
  /\ tasks' = Append(tasks, Task(Head(inbox))) /\ UNCHANGED worker

\* An answer: its task is created and left alone.
Dispatches ==
  /\ Takes(FALSE)
  /\ tasks' = Append(tasks, Task(Head(inbox))) /\ UNCHANGED worker

\* Mutant: the entry is read and stays.
Popped_Stays(p) == UNCHANGED pending
Popped(p) == pending' = pending \ {p}

Settled(q, p) == reqs' = [reqs EXCEPT ![q].at = "settled", ![q].by = p]
Ends(t) == tasks' = RemoveAt(tasks, t)
Handles(t) ==
  /\ tasks' = [tasks EXCEPT ![t].at = "handler"]
  /\ handled' = Append(handled, tasks[t].prompt)

\* A task's first step begins with its prompt, if that is still registered.
Begins(t) == tasks[t].at = "created" /\ \A u \in 1..(t - 1) : tasks[u].at # "created"
Consumes(t, kind) ==
  LET p == tasks[t].prompt IN
  Begins(t) /\ p \in pending /\ reqs[p].kind = kind /\ Popped(p)

Unknown(t) ==
  /\ Begins(t) /\ tasks[t].prompt \notin pending
  /\ Ends(t) /\ UNCHANGED <<reqs, pending, handled, missed>>

\* An approval is resolved by its session: Hermes gives the answer to any
\* that waits there.
Approvals == {q \in Prompts : reqs[q].kind = "approval" /\ Waits(q)}
Approves(t) ==
  LET p == tasks[t].prompt IN
  /\ Consumes(t, "approval") /\ Ends(t) /\ UNCHANGED handled
  /\ IF Approvals = {} THEN UNCHANGED <<reqs, missed>>
     ELSE \E q \in Approvals : Settled(q, p) /\ missed' = missed \cup ({p} \ {q})

Clarifies(t) ==
  LET p == tasks[t].prompt IN
  /\ Consumes(t, "clarify") /\ Ends(t) /\ UNCHANGED handled
  /\ IF ~Waits(p) THEN UNCHANGED <<reqs, missed>>
     ELSE IF tasks[t].option = "__other__"
     THEN reqs' = [reqs EXCEPT ![p].at = "text"] /\ missed' = missed \cup {p}
     ELSE Settled(p, p) /\ UNCHANGED missed

\* slash_confirm.resolve runs the handler if the request still waits.
Confirms(t) ==
  LET p == tasks[t].prompt IN
  /\ Consumes(t, "slash_confirm") /\ UNCHANGED missed
  /\ IF Waits(p) THEN Settled(p, p) /\ Handles(t)
     ELSE Ends(t) /\ UNCHANGED <<reqs, handled>>

Picks(t) ==
  LET p == tasks[t].prompt IN
  /\ Consumes(t, "choice_picker")
  /\ IF tasks[t].option = "good"
     THEN Settled(p, p) /\ Handles(t) /\ UNCHANGED missed
     ELSE Ends(t) /\ missed' = missed \cup {p} /\ UNCHANGED <<reqs, handled>>

\* The resolving function cannot be imported, or raises: the prompt is gone and
\* nothing is settled.
ResolutionFails(t) ==
  LET p == tasks[t].prompt IN
  /\ \E kind \in Kinds \ {"choice_picker"} : Consumes(t, kind)
  /\ Ends(t) /\ missed' = missed \cup {p} /\ UNCHANGED <<reqs, handled>>

Consume(t) ==
  /\ Unknown(t) \/ Approves(t) \/ Clarifies(t) \/ Confirms(t) \/ Picks(t) \/ ResolutionFails(t)
  /\ UNCHANGED <<sending, shown, inbox, worker, frames, restarts>>

\* The handler returns, with a text to send or (a confirmed command's, also
\* when it raises) without; not before the approval it asked for is decided.
HandlerReturns(t) ==
  /\ tasks[t].at = "handler" /\ (tasks[t].asked # 0 => ~Open(tasks[t].asked))
  /\ Ends(t) \/ tasks' = [tasks EXCEPT ![t].at = "result"]
  /\ UNCHANGED <<reqs, pending, sending, shown, inbox, worker, frames, restarts, handled, missed>>

\* send returns, whatever became of the text.
ResultSent(t) ==
  /\ tasks[t].at = "result" /\ Ends(t)
  /\ UNCHANGED <<reqs, pending, sending, shown, inbox, worker, frames, restarts, handled, missed>>

\* The gateway ends, with Hermes' requests and the prompts, and comes back:
\* the relay replays what the worker had not taken.
Restart ==
  /\ restarts < MaxRestarts /\ restarts' = restarts + 1
  /\ reqs' = [p \in Prompts |-> IF Open(p) THEN [reqs[p] EXCEPT !.at = "gone"] ELSE reqs[p]]
  /\ pending' = {} /\ sending' = {} /\ tasks' = <<>> /\ worker' = "free" /\ missed' = missed \cup Prompts
  /\ UNCHANGED <<shown, inbox, frames, handled>>

-----------------------------------------------------------------------------

Next ==
  \/ \E kind \in Kinds, t \in 0..Len(tasks) : Asks(kind, t)
  \/ \E p \in Prompts :
       \/ Lands(p) \/ Delivered(p) \/ NotDelivered(p)
       \/ TextAnswers(p) \/ GivesUp(p)
       \/ \E option \in Options(reqs[p].kind) : Answers(p, option)
  \/ Messages \/ Turns \/ TurnReturns \/ TurnRaises \/ Dispatches
  \/ \E t \in 1..Len(tasks) : Consume(t) \/ HandlerReturns(t) \/ ResultSent(t)
  \/ Restart

\* The worker and the tasks run, a turn ends; a handler returns once nothing holds
\* it up.
Fairness ==
  /\ WF_vars(Turns \/ Dispatches)
  /\ WF_vars(TurnReturns \/ TurnRaises)
  /\ WF_vars(\E t \in 1..Len(tasks) : Consume(t))
  /\ WF_vars(\E t \in 1..Len(tasks) : HandlerReturns(t) \/ ResultSent(t))

Spec == Init /\ [][Next]_vars
FairSpec == Spec /\ Fairness

-----------------------------------------------------------------------------
(* Properties.                                                             *)

\* The types; a prompt whose handler runs is not registered any more.
TypeOK ==
  /\ reqs \in Seq([kind : Kinds, at : {"waiting", "text", "settled", "gone"}, by : 0..MaxPrompts])
  /\ Len(reqs) <= MaxPrompts
  /\ pending \cup sending \cup shown \cup missed \subseteq Prompts
  /\ inbox \in Seq({Message} \cup [prompt : Prompts, option : UNION {Options(kind) : kind \in Kinds}])
  /\ worker \in {"free", "turn"}
  /\ frames \in Len(inbox)..MaxFrames /\ restarts \in 0..MaxRestarts
  /\ \A t \in 1..Len(tasks) :
       /\ tasks[t].prompt \in Prompts /\ tasks[t].asked \in {0} \cup Prompts
       /\ tasks[t].at \in {"created", "handler", "result"}
       /\ tasks[t].at # "created" => tasks[t].prompt \notin pending

\* The answers to a prompt settle one request and run its handler once,
\* however often the phone sends them: "a duplicate/replayed response must not
\* re-resolve an already-answered prompt", or the repeated button of one
\* approval would approve the next (_consume_prompt_response).
OneAnswerOneRequest ==
  \A p \in Prompts :
    /\ \A q, r \in Prompts : reqs[q].by = p /\ reqs[r].by = p => q = r
    /\ \A i, j \in 1..Len(handled) : handled[i] = p /\ handled[j] = p => i = j

\* An answer that reaches the gateway while its request waits settles it, also
\* when a handler is waiting for just that answer ("would deadlock behind its
\* own answer") and when the answer is faster than the send of the prompt.
\* Not so, by name (missed): Hermes gave the answer to another approval of the
\* session, its resolution could not be imported or raised, the option is out of
\* range or asks for text, the question was cleared because its send failed, the
\* request was given up while the answer stood behind a turn the worker awaited,
\* the answer was on the queue of a worker whose turn raised, or the gateway ended.
AnswerHeard ==
  \A p \in 1..MaxPrompts :
    (p \in Prompts /\ Waits(p) /\ Answered(p)) ~> (p \in missed \/ (p \in Prompts /\ reqs[p].at = "settled"))
=============================================================================
