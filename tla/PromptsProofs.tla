---------------------------- MODULE PromptsProofs ----------------------------
(***************************************************************************)
(* Theorems about Prompts, for every value of its constants.               *)
(***************************************************************************)
EXTENDS Prompts, SequenceTheorems, TLAPS

\* The parts of TypeOK.
Requests == [kind : Kinds, at : {"waiting", "text", "settled", "gone"}, by : 0..MaxPrompts]
RequestInv == reqs \in Seq(Requests) /\ Len(reqs) <= MaxPrompts
SetInv == pending \cup sending \cup shown \cup missed \subseteq Prompts
AnyOption == UNION {Options(kind) : kind \in Kinds}
Frames == {Message} \cup [prompt : Prompts, option : AnyOption]
InboxInv ==
  /\ inbox \in Seq(Frames) /\ frames \in Len(inbox)..MaxFrames
  /\ worker \in {"free", "turn"} /\ restarts \in 0..MaxRestarts

\* The tasks are records over the requests there are.
TaskRecords == [prompt : Prompts, option : AnyOption, at : {"created", "handler", "result"}, asked : {0} \cup Prompts]
TaskInv == tasks \in Seq(TaskRecords)

\* A prompt whose handler runs is not registered any more.
PoppedInv == \A t \in 1..Len(tasks) : tasks[t].at # "created" => tasks[t].prompt \notin pending

\* A prompt that settled a request is not registered any more, and settled no other.
AnswerInv ==
  \A q \in Prompts :
    reqs[q].by # 0 =>
      /\ reqs[q].by \in Prompts \ pending
      /\ \A r \in Prompts : reqs[r].by = reqs[q].by => r = q

\* A prompt whose handler ran is not registered any more, and ran no other.
HandledInv ==
  /\ handled \in Seq(Prompts)
  /\ \A i \in 1..Len(handled) :
       /\ handled[i] \notin pending
       /\ \A j \in 1..Len(handled) : handled[j] = handled[i] => j = i

IInv == RequestInv /\ SetInv /\ InboxInv /\ TaskInv /\ PoppedInv /\ AnswerInv /\ HandledInv

-----------------------------------------------------------------------------
\* A sequence without its i-th element: the elements after it move up.
LEMMA RemoveAtFacts ==
  ASSUME NEW S, NEW s \in Seq(S), NEW i \in 1..Len(s)
  PROVE  /\ RemoveAt(s, i) \in Seq(S)
         /\ Len(RemoveAt(s, i)) = Len(s) - 1
         /\ \A j \in 1..(Len(s) - 1) : RemoveAt(s, i)[j] = IF j < i THEN s[j] ELSE s[j + 1]
<1> DEFINE a == SubSeq(s, 1, i - 1)
           b == SubSeq(s, i + 1, Len(s))
<1>1. /\ a \in Seq(S) /\ Len(a) = i - 1
      /\ \A j \in 1..(i - 1) : a[j] = s[j]
  OBVIOUS
<1>2. /\ b \in Seq(S) /\ Len(b) = Len(s) - i
      /\ \A j \in 1..(Len(s) - i) : b[j] = s[i + j]
  OBVIOUS
<1> HIDE DEF a, b
<1>3. /\ a \o b \in Seq(S) /\ Len(a \o b) = Len(a) + Len(b)
      /\ \A j \in 1..(Len(a) + Len(b)) : (a \o b)[j] = IF j <= Len(a) THEN a[j] ELSE b[j - Len(a)]
  BY <1>1, <1>2, ConcatProperties
<1>4. RemoveAt(s, i) = a \o b
  BY DEF RemoveAt, a, b
<1>5. ASSUME NEW j \in 1..(Len(s) - 1)
      PROVE  (a \o b)[j] = IF j < i THEN s[j] ELSE s[j + 1]
  <2>1. CASE j < i
    BY <1>1, <1>2, <1>3, <2>1
  <2>2. CASE ~(j < i)
    <3>1. j - Len(a) \in 1..(Len(s) - i) /\ i + (j - Len(a)) = j + 1 /\ ~(j <= Len(a))
      BY <1>1, <2>2
    <3>2. b[j - Len(a)] = s[j + 1]
      BY <1>2, <3>1
    <3>3. (a \o b)[j] = b[j - Len(a)]
      BY <1>1, <1>2, <1>3, <3>1
    <3>4. QED
      BY <2>2, <3>2, <3>3
  <2>3. QED
    BY <2>1, <2>2
<1>6. Len(a \o b) = Len(s) - 1
  BY <1>1, <1>2, <1>3
<1>7. QED
  BY <1>3, <1>4, <1>5, <1>6

-----------------------------------------------------------------------------
\* A task that ends leaves the others as they are.
LEMMA EndsKeeps ==
  ASSUME TaskInv, NEW t \in 1..Len(tasks), Ends(t)
  PROVE  /\ tasks' \in Seq(TaskRecords)
         /\ \A u \in 1..Len(tasks') : \E v \in 1..Len(tasks) : tasks'[u] = tasks[v]
<1>1. /\ tasks' \in Seq(TaskRecords) /\ Len(tasks') = Len(tasks) - 1
      /\ \A u \in 1..(Len(tasks) - 1) : tasks'[u] = IF u < t THEN tasks[u] ELSE tasks[u + 1]
  BY RemoveAtFacts DEF TaskInv, Ends
<1>2. ASSUME NEW u \in 1..Len(tasks')
      PROVE  \E v \in 1..Len(tasks) : tasks'[u] = tasks[v]
  BY <1>1
<1>3. QED
  BY <1>1, <1>2

\* A request that changes its state keeps the answer it was settled by.
LEMMA MarkedKeeps ==
  ASSUME RequestInv, NEW q \in Prompts, NEW at \in {"waiting", "text", "settled", "gone"},
         reqs' = [reqs EXCEPT ![q].at = at]
  PROVE  RequestInv' /\ Prompts' = Prompts /\ \A r \in Prompts : reqs'[r].by = reqs[r].by
<1>1. reqs[q] \in Requests /\ [reqs[q] EXCEPT !.at = at] \in Requests
  <2>1. reqs[q] \in Requests
    BY ElementOfSeq DEF RequestInv, Prompts
  <2>2. QED
    BY <2>1 DEF Requests
<1>2. reqs' = [reqs EXCEPT ![q] = [reqs[q] EXCEPT !.at = at]]
  OBVIOUS
<1>3. /\ reqs' \in Seq(Requests) /\ Len(reqs') = Len(reqs)
      /\ \A r \in Prompts : reqs'[r] = IF r = q THEN [reqs[q] EXCEPT !.at = at] ELSE reqs[r]
  BY <1>1, <1>2, ExceptSeq DEF RequestInv, Prompts
<1>4. [reqs[q] EXCEPT !.at = at].by = reqs[q].by
  BY <1>1 DEF Requests
<1>5. QED
  BY <1>3, <1>4 DEF RequestInv, Prompts

\* A request that is settled keeps the answer of every other.
LEMMA SettledKeeps ==
  ASSUME RequestInv, NEW q \in Prompts, NEW p \in Prompts, Settled(q, p)
  PROVE  /\ RequestInv' /\ Prompts' = Prompts
         /\ \A r \in Prompts : reqs'[r].by = IF r = q THEN p ELSE reqs[r].by
<1> DEFINE new == [reqs[q] EXCEPT !.at = "settled", !.by = p]
<1>1. reqs[q] \in Requests /\ new \in Requests /\ new.by = p
  <2>1. reqs[q] \in Requests
    BY ElementOfSeq DEF RequestInv, Prompts
  <2>2. p \in 0..MaxPrompts
    BY PromptsAssumption DEF RequestInv, Prompts
  <2>3. QED
    BY <2>1, <2>2 DEF Requests
<1>2. reqs' = [reqs EXCEPT ![q] = new]
  BY <1>1 DEF Settled, RequestInv, Prompts
<1> HIDE DEF new
<1>3. /\ reqs' \in Seq(Requests) /\ Len(reqs') = Len(reqs)
      /\ \A r \in Prompts : reqs'[r] = IF r = q THEN new ELSE reqs[r]
  BY <1>1, <1>2, ExceptSeq DEF RequestInv, Prompts
<1>4. QED
  BY <1>1, <1>3 DEF RequestInv, Prompts

\* A handler that starts is the first of its prompt, and its task stays.
LEMMA HandlesKeeps ==
  ASSUME IInv, NEW t \in 1..Len(tasks), tasks[t].prompt \in pending, Handles(t),
         pending' = pending \ {tasks[t].prompt}, Prompts' = Prompts
  PROVE  TaskInv' /\ PoppedInv' /\ HandledInv'
<1> DEFINE new == [tasks[t] EXCEPT !.at = "handler"]
<1>1. tasks[t] \in TaskRecords /\ new \in TaskRecords /\ new.prompt = tasks[t].prompt
  <2>1. tasks[t] \in TaskRecords
    BY ElementOfSeq DEF IInv, TaskInv
  <2>2. QED
    BY <2>1 DEF TaskRecords
<1>2. tasks' = [tasks EXCEPT ![t] = new]
  BY DEF Handles
<1> HIDE DEF new
<1>3. /\ tasks' \in Seq(TaskRecords) /\ Len(tasks') = Len(tasks)
      /\ \A u \in 1..Len(tasks) : tasks'[u] = IF u = t THEN new ELSE tasks[u]
  BY <1>1, <1>2, ExceptSeq DEF IInv, TaskInv
<1>4. TaskInv'
  BY <1>3 DEF TaskInv, TaskRecords
<1>5. PoppedInv'
  BY <1>1, <1>3 DEF IInv, PoppedInv
<1>6. HandledInv'
  BY <1>1 DEF IInv, HandledInv, Handles, TaskRecords
<1>7. QED
  BY <1>4, <1>5, <1>6

\* A prompt that is taken out, settles one request or none, and ends its task.
LEMMA PoppedKeeps ==
  ASSUME IInv, NEW p \in pending, Popped(p), RequestInv', Prompts' = Prompts,
         \/ \A r \in Prompts : reqs'[r].by = reqs[r].by
         \/ \E q \in Prompts : \A r \in Prompts : reqs'[r].by = IF r = q THEN p ELSE reqs[r].by
  PROVE  AnswerInv'
<1>1. p \in Prompts /\ \A r \in Prompts : reqs[r].by # p
  BY DEF IInv, AnswerInv, SetInv, Prompts
<1>2. QED
  BY <1>1 DEF IInv, AnswerInv, Popped, Prompts

\* The initial state.
LEMMA InitInv == Init => IInv
<1> SUFFICES ASSUME Init PROVE IInv
  OBVIOUS
<1> USE PromptsAssumption DEF Init
<1>1. RequestInv /\ SetInv /\ InboxInv /\ TaskInv
  BY DEF RequestInv, SetInv, InboxInv, TaskInv, Prompts
<1>2. PoppedInv /\ AnswerInv /\ HandledInv
  BY DEF PoppedInv, AnswerInv, HandledInv, Prompts
<1>3. QED
  BY <1>1, <1>2 DEF IInv

\* Asking mints a prompt that no answer and no handler has met.
LEMMA AsksInv == ASSUME IInv, NEW kind \in Kinds, NEW t \in 0..Len(tasks), Asks(kind, t) PROVE IInv'
<1> DEFINE p == Len(reqs) + 1
           new == [kind |-> kind, at |-> "waiting", by |-> 0]
<1>1. new \in Requests /\ new.by = 0 /\ Len(reqs) \in Nat /\ p <= MaxPrompts
  BY PromptsAssumption DEF Requests, Asks, IInv, RequestInv
<1>2. reqs' = Append(reqs, new)
  BY DEF Asks
<1> HIDE DEF new
<1>3. /\ reqs' \in Seq(Requests) /\ Len(reqs') = p /\ reqs'[p] = new
      /\ \A q \in Prompts : reqs'[q] = reqs[q]
  BY <1>1, <1>2, AppendProperties DEF IInv, RequestInv, Prompts
<1>4. Prompts' = Prompts \cup {p} /\ p \notin Prompts
  BY <1>1, <1>3 DEF Prompts
<1>5. RequestInv'
  BY <1>1, <1>3 DEF RequestInv
<1> HIDE DEF p
<1>6. SetInv' /\ InboxInv'
  <2>1. pending' = pending \cup {p} /\ sending' \subseteq sending \cup {p}
    BY DEF Asks, Minted, p
  <2>2. UNCHANGED <<shown, inbox, worker, frames, restarts, missed>>
    BY DEF Asks
  <2>3. SetInv'
    BY <1>4, <2>1, <2>2 DEF IInv, SetInv
  <2>4. inbox \in Seq(Frames')
    <3>1. Frames \subseteq Frames'
      BY <1>4 DEF Frames
    <3>2. QED
      BY <3>1, SeqMonotonic DEF IInv, InboxInv
  <2>5. QED
    BY <2>2, <2>3, <2>4 DEF IInv, InboxInv
<1>7. /\ TaskInv' /\ Len(tasks') = Len(tasks)
      /\ \A u \in 1..Len(tasks) : tasks'[u].prompt = tasks[u].prompt /\ tasks'[u].at = tasks[u].at
  <2>1. TaskRecords \subseteq TaskRecords'
    BY <1>4 DEF TaskRecords
  <2>2. tasks \in Seq(TaskRecords')
    BY <2>1, SeqMonotonic DEF IInv, TaskInv
  <2>3. CASE t = 0
    BY <2>2, <2>3 DEF Asks, TaskInv
  <2>4. CASE t # 0
    <3> DEFINE newt == [tasks[t] EXCEPT !.asked = p]
    <3>1. t \in 1..Len(tasks) /\ tasks[t] \in TaskRecords
      BY <2>4 DEF IInv, TaskInv
    <3>2. newt \in TaskRecords' /\ newt.prompt = tasks[t].prompt /\ newt.at = tasks[t].at
      BY <1>4, <3>1 DEF TaskRecords
    <3>3. tasks' = [tasks EXCEPT ![t] = newt]
      BY <2>4 DEF Asks, p
    <3> HIDE DEF newt
    <3>4. /\ tasks' \in Seq(TaskRecords') /\ Len(tasks') = Len(tasks)
          /\ \A u \in 1..Len(tasks) : tasks'[u] = IF u = t THEN newt ELSE tasks[u]
      BY <2>2, <3>1, <3>2, <3>3, ExceptSeq
    <3>5. QED
      BY <3>2, <3>4 DEF TaskInv
  <2>5. QED
    BY <2>3, <2>4
<1>8. PoppedInv'
  <2>1. ASSUME NEW u \in 1..Len(tasks) PROVE tasks[u].prompt # p
    <3>1. tasks[u] \in TaskRecords
      BY ElementOfSeq DEF IInv, TaskInv
    <3>2. QED
      BY <1>4, <3>1 DEF TaskRecords
  <2>2. QED
    BY <1>7, <2>1 DEF Asks, Minted, p, IInv, PoppedInv
<1>9. AnswerInv'
  <2>1. pending' = pending \cup {p} /\ p # 0
    BY <1>1 DEF Asks, Minted, p
  <2>2. reqs'[p].by = 0 /\ \A q \in Prompts : reqs'[q].by = reqs[q].by
    BY <1>1, <1>3
  <2>3. QED
    BY <1>4, <2>1, <2>2 DEF IInv, AnswerInv
<1>10. HandledInv'
  <2>1. handled' = handled /\ pending' = pending \cup {p}
    BY DEF Asks, Minted, p
  <2>2. handled \in Seq(Prompts')
    BY <1>4, SeqMonotonic DEF IInv, HandledInv
  <2>3. \A i \in 1..Len(handled) : handled[i] # p
    BY <1>4 DEF IInv, HandledInv
  <2>4. QED
    BY <2>1, <2>2, <2>3 DEF IInv, HandledInv
<1>11. QED
  BY <1>5, <1>6, <1>7, <1>8, <1>9, <1>10 DEF IInv

\* A step of the phone, of the store or of Hermes leaves the tasks and the
\* registered prompts alone, and every answer with its request.
LEMMA OutsideInv ==
  ASSUME IInv, RequestInv', Prompts' = Prompts, SetInv', InboxInv',
         \A r \in Prompts : reqs'[r].by = reqs[r].by,
         UNCHANGED <<pending, tasks, handled>>
  PROVE  IInv'
<1>1. TaskInv' /\ PoppedInv'
  BY DEF IInv, TaskInv, TaskRecords, PoppedInv
<1>2. AnswerInv' /\ HandledInv'
  BY DEF IInv, AnswerInv, HandledInv
<1>3. QED
  BY <1>1, <1>2 DEF IInv

\* A step that ends a task, and takes its prompt out or settles nothing.
LEMMA EndingInv ==
  ASSUME IInv, NEW t \in 1..Len(tasks), Ends(t), RequestInv', Prompts' = Prompts, AnswerInv',
         pending' \subseteq pending, missed' \subseteq Prompts,
         UNCHANGED <<sending, shown, inbox, worker, frames, restarts, handled>>
  PROVE  IInv'
<1>1. /\ tasks' \in Seq(TaskRecords)
      /\ \A u \in 1..Len(tasks') : \E v \in 1..Len(tasks) : tasks'[u] = tasks[v]
  BY EndsKeeps DEF IInv
<1>2. TaskInv' /\ PoppedInv'
  BY <1>1 DEF IInv, TaskInv, TaskRecords, PoppedInv
<1>3. SetInv' /\ InboxInv'
  BY DEF IInv, SetInv, InboxInv, Frames
<1>4. HandledInv'
  BY DEF IInv, HandledInv
<1>5. QED
  BY <1>2, <1>3, <1>4 DEF IInv

\* A step that takes a prompt out and starts its handler.
LEMMA HandlingInv ==
  ASSUME IInv, NEW t \in 1..Len(tasks), tasks[t].prompt \in pending, Popped(tasks[t].prompt),
         Settled(tasks[t].prompt, tasks[t].prompt), Handles(t),
         UNCHANGED <<missed, sending, shown, inbox, worker, frames, restarts>>
  PROVE  IInv'
<1>1. tasks[t].prompt \in Prompts
  BY DEF IInv, SetInv
<1>2. /\ RequestInv' /\ Prompts' = Prompts
      /\ \A r \in Prompts : reqs'[r].by = IF r = tasks[t].prompt THEN tasks[t].prompt ELSE reqs[r].by
  BY <1>1, SettledKeeps DEF IInv
<1>3. AnswerInv'
  BY <1>1, <1>2, PoppedKeeps
<1>4. TaskInv' /\ PoppedInv' /\ HandledInv'
  BY <1>2, HandlesKeeps DEF Popped
<1>5. SetInv' /\ InboxInv'
  BY <1>2 DEF IInv, SetInv, InboxInv, Frames, Popped
<1>6. QED
  BY <1>2, <1>3, <1>4, <1>5 DEF IInv

\* A task that begins: with its prompt, or without.
LEMMA ConsumeInv == ASSUME IInv, NEW t \in 1..Len(tasks), Consume(t) PROVE IInv'
<1> DEFINE p == tasks[t].prompt
<1>0. p \in Prompts /\ missed \subseteq Prompts
  <2>1. tasks[t] \in TaskRecords
    BY ElementOfSeq DEF IInv, TaskInv
  <2>2. QED
    BY <2>1 DEF IInv, SetInv, TaskRecords
<1>1. UNCHANGED <<sending, shown, inbox, worker, frames, restarts>>
  BY DEF Consume
<1>2. ASSUME UNCHANGED reqs
      PROVE  RequestInv' /\ Prompts' = Prompts /\ \A r \in Prompts : reqs'[r].by = reqs[r].by
  BY <1>2 DEF IInv, RequestInv, Prompts
<1>3. CASE Unknown(t)
  <2>1. AnswerInv'
    BY <1>3 DEF Unknown, IInv, AnswerInv, Prompts
  <2>2. QED
    BY <1>0, <1>1, <1>2, <1>3, <2>1, EndingInv DEF Unknown
<1>4. CASE Approves(t)
  <2>1. p \in pending /\ Popped(p) /\ pending' \subseteq pending /\ Ends(t) /\ UNCHANGED handled
    BY <1>4 DEF Approves, Consumes, Popped
  <2>2. CASE UNCHANGED <<reqs, missed>>
    <3>1. AnswerInv'
      BY <1>2, <2>1, <2>2, PoppedKeeps
    <3>2. QED
      BY <1>0, <1>1, <1>2, <2>1, <2>2, <3>1, EndingInv
  <2>3. CASE \E q \in Approvals : Settled(q, p) /\ missed' = missed \cup ({p} \ {q})
    <3>1. PICK q \in Prompts : Settled(q, p) /\ missed' = missed \cup ({p} \ {q})
      BY <2>3 DEF Approvals
    <3>2. /\ RequestInv' /\ Prompts' = Prompts
          /\ \A r \in Prompts : reqs'[r].by = IF r = q THEN p ELSE reqs[r].by
      BY <1>0, <3>1, SettledKeeps DEF IInv
    <3>3. AnswerInv'
      BY <2>1, <3>2, PoppedKeeps
    <3>4. QED
      BY <1>0, <1>1, <2>1, <3>1, <3>2, <3>3, EndingInv
  <2>4. QED
    BY <1>4, <2>2, <2>3 DEF Approves
<1>5. CASE Clarifies(t)
  <2>1. p \in pending /\ Popped(p) /\ pending' \subseteq pending /\ Ends(t) /\ UNCHANGED handled
    BY <1>5 DEF Clarifies, Consumes, Popped
  <2>2. missed' \subseteq Prompts
    BY <1>0, <1>5 DEF Clarifies
  <2>3. /\ RequestInv' /\ Prompts' = Prompts
        /\ \/ \A r \in Prompts : reqs'[r].by = reqs[r].by
           \/ \A r \in Prompts : reqs'[r].by = IF r = p THEN p ELSE reqs[r].by
    <3>1. \/ UNCHANGED reqs \/ Settled(p, p) \/ reqs' = [reqs EXCEPT ![p].at = "text"]
      BY <1>5 DEF Clarifies
    <3>2. QED
      BY <1>0, <1>2, <3>1, MarkedKeeps, SettledKeeps DEF IInv
  <2>4. AnswerInv'
    BY <1>0, <2>1, <2>3, PoppedKeeps
  <2>5. QED
    BY <1>1, <2>1, <2>2, <2>3, <2>4, EndingInv
<1>6. ASSUME p \in pending, Popped(p), Ends(t), UNCHANGED <<reqs, handled>>, missed' \subseteq Prompts
      PROVE  IInv'
  <2>1. AnswerInv'
    BY <1>2, <1>6, PoppedKeeps
  <2>2. QED
    BY <1>1, <1>2, <1>6, <2>1, EndingInv DEF Popped
<1>7. CASE Confirms(t)
  BY <1>0, <1>1, <1>6, <1>7, HandlingInv DEF Confirms, Consumes
<1>8. CASE Picks(t)
  BY <1>0, <1>1, <1>6, <1>8, HandlingInv DEF Picks, Consumes
<1>9. CASE ResolutionFails(t)
  BY <1>0, <1>6, <1>9 DEF ResolutionFails, Consumes
<1>10. QED
  BY <1>3, <1>4, <1>5, <1>7, <1>8, <1>9 DEF Consume

\* A handler that returns leaves its task with the text, or ends it.
LEMMA ReturnsInv == ASSUME IInv, NEW t \in 1..Len(tasks), HandlerReturns(t) PROVE IInv'
<1>1. /\ UNCHANGED <<reqs, pending, sending, shown, inbox, worker, frames, restarts, handled, missed>>
      /\ Prompts' = Prompts /\ RequestInv' /\ SetInv' /\ InboxInv' /\ AnswerInv' /\ HandledInv'
  BY DEF HandlerReturns, IInv, RequestInv, SetInv, InboxInv, Frames, AnswerInv, HandledInv, Prompts
<1>2. CASE Ends(t)
  BY <1>1, <1>2, EndingInv DEF IInv, SetInv
<1>3. CASE tasks' = [tasks EXCEPT ![t].at = "result"]
  <2> DEFINE new == [tasks[t] EXCEPT !.at = "result"]
  <2>1. new \in TaskRecords /\ new.prompt = tasks[t].prompt /\ tasks[t].at # "created"
    <3>1. tasks[t] \in TaskRecords
      BY ElementOfSeq DEF IInv, TaskInv
    <3>2. QED
      BY <3>1 DEF HandlerReturns, TaskRecords
  <2>2. tasks' = [tasks EXCEPT ![t] = new]
    BY <1>3
  <2> HIDE DEF new
  <2>3. /\ tasks' \in Seq(TaskRecords) /\ Len(tasks') = Len(tasks)
        /\ \A u \in 1..Len(tasks) : tasks'[u] = IF u = t THEN new ELSE tasks[u]
    BY <2>1, <2>2, ExceptSeq DEF IInv, TaskInv
  <2>4. TaskInv' /\ PoppedInv'
    BY <1>1, <2>1, <2>3 DEF IInv, TaskInv, TaskRecords, PoppedInv
  <2>5. QED
    BY <1>1, <2>4 DEF IInv
<1>4. QED
  BY <1>2, <1>3 DEF HandlerReturns

\* A restart forgets what was registered; the answers stay where they are.
LEMMA RestartInv == IInv /\ Restart => IInv'
<1> SUFFICES ASSUME IInv, Restart PROVE IInv'
  OBVIOUS
<1> DEFINE gone(p) == IF Open(p) THEN [reqs[p] EXCEPT !.at = "gone"] ELSE reqs[p]
<1>1. ASSUME NEW p \in Prompts PROVE gone(p) \in Requests /\ gone(p).by = reqs[p].by
  <2>1. reqs[p] \in Requests
    BY ElementOfSeq DEF IInv, RequestInv, Prompts
  <2>2. QED
    BY <2>1 DEF Requests
<1>2. reqs' = [p \in Prompts |-> gone(p)]
  BY DEF Restart
<1> HIDE DEF gone
<1>3. Len(reqs) \in Nat /\ reqs' \in Seq(Requests) /\ Len(reqs') = Len(reqs)
  BY <1>1, <1>2, IsASeq DEF IInv, RequestInv, Prompts
<1>4. Prompts' = Prompts /\ RequestInv' /\ \A p \in Prompts : reqs'[p].by = reqs[p].by
  BY <1>1, <1>2, <1>3 DEF IInv, RequestInv, Prompts
<1>5. SetInv' /\ InboxInv' /\ TaskInv' /\ PoppedInv'
  BY <1>4, PromptsAssumption DEF Restart, IInv, SetInv, InboxInv, Frames, TaskInv, TaskRecords, PoppedInv
<1>6. AnswerInv' /\ HandledInv'
  BY <1>4 DEF Restart, IInv, AnswerInv, HandledInv
<1>7. QED
  BY <1>4, <1>5, <1>6 DEF IInv

\* What the worker takes is one of the frames, and the rest stays.
LEMMA TakesFacts ==
  ASSUME IInv, NEW message \in BOOLEAN, Takes(message)
  PROVE  /\ Head(inbox) \in Frames /\ inbox' \in Seq(Frames) /\ Len(inbox') = Len(inbox) - 1
         /\ UNCHANGED Prompts
<1>1. inbox \in Seq(Frames) /\ inbox # <<>>
  BY DEF IInv, InboxInv, Takes
<1>2. QED
  BY <1>1, HeadTailProperties DEF Takes, Prompts

\* The worker makes the first answer a task.
LEMMA DispatchesInv == IInv /\ Dispatches => IInv'
<1> SUFFICES ASSUME IInv, Dispatches PROVE IInv'
  OBVIOUS
<1> DEFINE new == Task(Head(inbox))
<1>1. inbox \in Seq(Frames) /\ Frames' = Frames
  BY DEF IInv, InboxInv, Dispatches, Takes, Frames, Prompts, Message
<1>2. /\ Head(inbox) \in [prompt : Prompts, option : AnyOption]
      /\ inbox' \in Seq(Frames) /\ Len(inbox') = Len(inbox) - 1
  BY TakesFacts DEF Dispatches, Takes, Frames
<1>3. new \in TaskRecords /\ new.at = "created"
  BY <1>2 DEF Task, TaskRecords
<1>4. tasks' = Append(tasks, new)
  BY DEF Dispatches
<1> HIDE DEF new
<1>5. /\ tasks' \in Seq(TaskRecords) /\ Len(tasks') = Len(tasks) + 1 /\ tasks'[Len(tasks) + 1] = new
      /\ \A u \in 1..Len(tasks) : tasks'[u] = tasks[u]
  BY <1>3, <1>4, AppendProperties DEF IInv, TaskInv
<1>6. UNCHANGED <<reqs, pending, sending, shown, worker, frames, restarts, handled, missed, Prompts>>
  BY DEF Dispatches, Takes, Prompts
<1>7. TaskInv'
  BY <1>5, <1>6 DEF TaskInv, TaskRecords
<1>8. PoppedInv'
  <2>1. ASSUME NEW u \in 1..Len(tasks'), tasks'[u].at # "created"
        PROVE  u \in 1..Len(tasks) /\ tasks'[u] = tasks[u]
    BY <1>3, <1>5, <2>1 DEF IInv, TaskInv
  <2>2. QED
    BY <1>6, <2>1 DEF IInv, PoppedInv
<1>9. InboxInv'
  BY <1>1, <1>2, <1>6 DEF IInv, InboxInv
<1>10. RequestInv' /\ SetInv' /\ AnswerInv' /\ HandledInv'
  BY <1>6 DEF IInv, RequestInv, SetInv, AnswerInv, HandledInv
<1>11. QED
  BY <1>7, <1>8, <1>9, <1>10 DEF IInv

\* A turn that the worker awaits, until it returns or raises, and the phone's
\* message it is about.
LEMMA TurnInv == IInv /\ (Messages \/ Turns \/ TurnReturns \/ TurnRaises) => IInv'
<1> SUFFICES ASSUME IInv, Messages \/ Turns \/ TurnReturns \/ TurnRaises PROVE IInv'
  OBVIOUS
<1>1. UNCHANGED <<reqs, pending, sending, shown, tasks, restarts, handled>>
  BY DEF Messages, Turns, Takes, TurnReturns, TurnRaises, TurnEnds
<1>2. RequestInv' /\ Prompts' = Prompts /\ \A r \in Prompts : reqs'[r].by = reqs[r].by
  BY <1>1 DEF IInv, RequestInv, Prompts
<1>3. Frames' = Frames /\ inbox \in Seq(Frames) /\ missed \subseteq Prompts
  BY <1>2 DEF Frames, Message, IInv, InboxInv, SetInv
<1>4. CASE Messages
  <2>1. Message \in Frames /\ inbox' = Append(inbox, Message)
    BY <1>4 DEF Messages, Frames
  <2>2. inbox' \in Seq(Frames) /\ Len(inbox') = Len(inbox) + 1
    BY <1>3, <2>1, AppendProperties
  <2>3. InboxInv' /\ SetInv'
    BY <1>1, <1>2, <1>3, <1>4, <2>2, PromptsAssumption DEF Messages, IInv, InboxInv, SetInv
  <2>4. QED
    BY <1>1, <1>2, <2>3, OutsideInv
<1>5. CASE Turns
  <2>1. inbox' \in Seq(Frames) /\ Len(inbox') = Len(inbox) - 1
    BY <1>5, TakesFacts DEF Turns
  <2>2. InboxInv' /\ SetInv'
    BY <1>1, <1>2, <1>3, <1>5, <2>1, PromptsAssumption DEF Turns, Takes, IInv, InboxInv, SetInv
  <2>3. QED
    BY <1>1, <1>2, <2>2, OutsideInv
<1>6. CASE TurnReturns
  <2>1. InboxInv' /\ SetInv'
    BY <1>2, <1>3, <1>6 DEF TurnReturns, TurnEnds, IInv, InboxInv, SetInv
  <2>2. QED
    BY <1>1, <1>2, <2>1, OutsideInv
<1>7. CASE TurnRaises
  <2>1. PICK read \in 0..Len(inbox) :
          /\ inbox' = SubSeq(inbox, read + 1, Len(inbox))
          /\ missed' = missed \cup {p \in Prompts : \E i \in 1..read : inbox[i].prompt = p}
    BY <1>7 DEF TurnRaises
  <2>2. inbox' \in Seq(Frames) /\ Len(inbox') = Len(inbox) - read /\ missed' \subseteq Prompts
    BY <1>3, <2>1
  <2>3. InboxInv' /\ SetInv'
    BY <1>1, <1>2, <1>3, <1>7, <2>2, PromptsAssumption DEF TurnRaises, TurnEnds, IInv, InboxInv, SetInv
  <2>4. QED
    BY <1>1, <1>2, <2>3, OutsideInv
<1>8. QED
  BY <1>4, <1>5, <1>6, <1>7

\* Every step preserves the invariant.
LEMMA StepInv == IInv /\ [Next]_vars => IInv'
<1> SUFFICES ASSUME IInv, [Next]_vars PROVE IInv'
  OBVIOUS
<1>1. ASSUME NEW kind \in Kinds, NEW t \in 0..Len(tasks), Asks(kind, t) PROVE IInv'
  BY <1>1, AsksInv
<1>2. ASSUME UNCHANGED reqs
      PROVE  RequestInv' /\ Prompts' = Prompts /\ \A r \in Prompts : reqs'[r].by = reqs[r].by
  BY <1>2 DEF IInv, RequestInv, Prompts
<1>3. ASSUME NEW p \in Prompts, Lands(p) PROVE IInv'
  BY <1>2, <1>3, OutsideInv DEF Lands, IInv, SetInv, InboxInv, Frames
<1>4. ASSUME NEW p \in Prompts, Delivered(p) PROVE IInv'
  BY <1>2, <1>4, OutsideInv DEF Delivered, IInv, SetInv, InboxInv, Frames
<1>5. ASSUME NEW p \in Prompts, NotDelivered(p) PROVE IInv'
  <2>1. RequestInv' /\ Prompts' = Prompts /\ \A r \in Prompts : reqs'[r].by = reqs[r].by
    BY <1>2, <1>5, MarkedKeeps DEF NotDelivered, IInv
  <2>2. missed' \subseteq missed \cup {p} /\ sending' \subseteq sending
    BY <1>5 DEF NotDelivered
  <2>3. UNCHANGED <<pending, shown, inbox, worker, tasks, frames, restarts, handled>>
    BY <1>5 DEF NotDelivered
  <2>4. SetInv' /\ InboxInv'
    BY <2>1, <2>2, <2>3 DEF IInv, SetInv, InboxInv, Frames
  <2>5. QED
    BY <2>1, <2>3, <2>4, OutsideInv
<1>6. ASSUME NEW p \in Prompts, TextAnswers(p) \/ GivesUp(p) PROVE IInv'
  <2>1. RequestInv' /\ Prompts' = Prompts /\ \A r \in Prompts : reqs'[r].by = reqs[r].by
    BY <1>6, MarkedKeeps DEF TextAnswers, GivesUp, IInv
  <2>2. /\ UNCHANGED <<pending, sending, shown, inbox, worker, tasks, frames, restarts, handled>>
        /\ missed' \subseteq missed \cup {p}
    BY <1>6 DEF TextAnswers, GivesUp
  <2>3. QED
    BY <2>1, <2>2, OutsideInv DEF IInv, SetInv, InboxInv, Frames
<1>7. ASSUME NEW p \in Prompts, NEW option \in Options(reqs[p].kind), Answers(p, option) PROVE IInv'
  <2>1. option \in AnyOption
    <3>1. reqs[p] \in Requests
      BY ElementOfSeq DEF IInv, RequestInv, Prompts
    <3>2. QED
      BY <3>1 DEF Requests, AnyOption
  <2>2. UNCHANGED <<reqs, pending, sending, shown, worker, tasks, restarts, handled, missed>>
    BY <1>7 DEF Answers
  <2>3. InboxInv'
    <3> DEFINE frame == [prompt |-> p, option |-> option]
    <3>1. frame \in Frames /\ inbox \in Seq(Frames) /\ inbox' = Append(inbox, frame) /\ Frames' = Frames
      BY <1>2, <1>7, <2>1, <2>2 DEF Answers, IInv, InboxInv, Frames
    <3> HIDE DEF frame
    <3>2. inbox' \in Seq(Frames) /\ Len(inbox') = Len(inbox) + 1
      BY <3>1, AppendProperties
    <3>3. frames' \in Len(inbox')..MaxFrames
      BY <1>7, <3>1, <3>2, PromptsAssumption DEF Answers, IInv, InboxInv
    <3>4. QED
      BY <2>2, <3>1, <3>2, <3>3 DEF IInv, InboxInv
  <2>4. QED
    BY <1>2, <2>2, <2>3, OutsideInv DEF IInv, SetInv
<1>8. CASE Dispatches
  BY <1>8, DispatchesInv
<1>9. ASSUME NEW t \in 1..Len(tasks), Consume(t) PROVE IInv'
  BY <1>9, ConsumeInv
<1>10. ASSUME NEW t \in 1..Len(tasks), HandlerReturns(t) PROVE IInv'
  BY <1>10, ReturnsInv
<1>11. ASSUME NEW t \in 1..Len(tasks), ResultSent(t) PROVE IInv'
  <2>1. /\ UNCHANGED <<reqs, pending, sending, shown, inbox, worker, frames, restarts, handled, missed>>
        /\ Ends(t)
    BY <1>11 DEF ResultSent
  <2>2. AnswerInv'
    BY <1>2, <2>1 DEF IInv, AnswerInv
  <2>3. QED
    BY <1>2, <2>1, <2>2, EndingInv DEF IInv, SetInv
<1>12. CASE Restart
  BY <1>12, RestartInv
<1>13. CASE UNCHANGED vars
  BY <1>2, <1>13, OutsideInv DEF vars, IInv, SetInv, InboxInv, Frames
<1>14. CASE Messages \/ Turns \/ TurnReturns \/ TurnRaises
  BY <1>14, TurnInv
<1>15. QED
  BY <1>14, <1>1, <1>3, <1>4, <1>5, <1>6, <1>7, <1>8, <1>9, <1>10, <1>11, <1>12, <1>13 DEF Next

\* The inductive invariant.
THEOREM Inductive == Spec => []IInv
<1>1. Init => IInv
  BY InitInv
<1>2. IInv /\ [Next]_vars => IInv'
  BY StepInv
<1>3. QED
  BY <1>1, <1>2, PTL DEF Spec

\* Every variable keeps its type.
THEOREM TypeCorrect == Spec => []TypeOK
<1>1. IInv => TypeOK
  <2> SUFFICES ASSUME IInv PROVE TypeOK
    OBVIOUS
  <2>1. ASSUME NEW t \in 1..Len(tasks)
        PROVE  /\ tasks[t].prompt \in Prompts /\ tasks[t].asked \in {0} \cup Prompts
               /\ tasks[t].at \in {"created", "handler", "result"}
               /\ tasks[t].at # "created" => tasks[t].prompt \notin pending
    <3>1. tasks[t] \in TaskRecords
      BY ElementOfSeq DEF IInv, TaskInv
    <3>2. QED
      BY <3>1 DEF IInv, TaskRecords, PoppedInv
  <2>2. QED
    BY <2>1 DEF IInv, RequestInv, Requests, SetInv, InboxInv, Frames, AnyOption, TypeOK
<1>2. QED
  BY <1>1, Inductive, PTL

\* However often the phone sends its answers, they settle one request and run
\* one handler.
THEOREM OneAnswer == Spec => []OneAnswerOneRequest
<1>1. IInv => OneAnswerOneRequest
  BY DEF IInv, AnswerInv, HandledInv, OneAnswerOneRequest, Prompts
<1>2. QED
  BY <1>1, Inductive, PTL

-----------------------------------------------------------------------------
(* What became of a request whose button was used.                         *)

\* A button that was used leaves no request waiting behind it, unless for one of
\* the reasons that missed names.
UsedOrNamed == \A p \in Prompts \ pending : Waits(p) => p \in missed

\* The state of a request is changed alone.
LEMMA MarkedState ==
  ASSUME RequestInv, NEW q \in Prompts, NEW x \in {"waiting", "text", "settled", "gone"},
         reqs' = [reqs EXCEPT ![q].at = x]
  PROVE  \A r \in Prompts : reqs'[r].at = IF r = q THEN x ELSE reqs[r].at
<1> DEFINE new == [reqs[q] EXCEPT !.at = x]
<1>1. reqs[q] \in Requests /\ new \in Requests /\ new.at = x
  <2>1. reqs[q] \in Requests
    BY ElementOfSeq DEF RequestInv, Prompts
  <2>2. QED
    BY <2>1 DEF Requests
<1>2. reqs' = [reqs EXCEPT ![q] = new]
  OBVIOUS
<1> HIDE DEF new
<1>3. QED
  BY <1>1, <1>2, ExceptSeq DEF RequestInv, Prompts

\* Or together with the answer it is settled by.
LEMMA SettledState ==
  ASSUME RequestInv, NEW q \in Prompts, NEW p \in Prompts, Settled(q, p)
  PROVE  \A r \in Prompts : reqs'[r].at = IF r = q THEN "settled" ELSE reqs[r].at
<1> DEFINE new == [reqs[q] EXCEPT !.at = "settled", !.by = p]
<1>1. reqs[q] \in Requests /\ new \in Requests /\ new.at = "settled"
  <2>1. reqs[q] \in Requests
    BY ElementOfSeq DEF RequestInv, Prompts
  <2>2. p \in 0..MaxPrompts
    BY PromptsAssumption DEF RequestInv, Prompts
  <2>3. QED
    BY <2>1, <2>2 DEF Requests
<1>2. reqs' = [reqs EXCEPT ![q] = new]
  BY <1>1 DEF Settled, RequestInv, Prompts
<1> HIDE DEF new
<1>3. QED
  BY <1>1, <1>2, ExceptSeq DEF RequestInv, Prompts

\* No request begins to wait, and a prompt that is taken out leaves its own not
\* waiting, or is named.
LEMMA UsedKept ==
  ASSUME UsedOrNamed, Prompts' = Prompts, missed \subseteq missed',
         \A r \in Prompts : /\ reqs'[r].at = "waiting" => reqs[r].at = "waiting"
                            /\ r \in pending \ pending' /\ reqs'[r].at = "waiting" => r \in missed'
  PROVE  UsedOrNamed'
BY DEF UsedOrNamed, Waits

\* The use of an answer.
LEMMA ConsumeUses == ASSUME IInv, UsedOrNamed, NEW t \in 1..Len(tasks), Consume(t) PROVE UsedOrNamed'
<1> DEFINE p == tasks[t].prompt
<1>1. p \in Prompts
  <2>1. tasks[t] \in TaskRecords
    BY ElementOfSeq DEF IInv, TaskInv
  <2>2. QED
    BY <2>1 DEF TaskRecords
<1>2. RequestInv /\ pending \subseteq Prompts
  BY DEF IInv, SetInv
<1> HIDE DEF p
<1>3. CASE Unknown(t)
  BY <1>3, UsedKept DEF Unknown, Prompts
<1>4. ASSUME UNCHANGED reqs, pending' = pending \ {p}, missed \subseteq missed',
             reqs[p].at # "waiting" \/ p \in missed'
      PROVE  UsedOrNamed'
  BY <1>4, UsedKept DEF Prompts
<1>5. ASSUME NEW q \in Prompts, Settled(q, p), pending' = pending \ {p}, missed \subseteq missed',
             p = q \/ p \in missed'
      PROVE  UsedOrNamed'
  <2>1. Prompts' = Prompts
    BY <1>1, <1>2, <1>5, SettledKeeps
  <2>2. \A r \in Prompts : reqs'[r].at = IF r = q THEN "settled" ELSE reqs[r].at
    BY <1>1, <1>2, <1>5, SettledState
  <2>3. QED
    BY <1>5, <2>1, <2>2, UsedKept
<1>6. CASE Approves(t)
  <2>1. pending' = pending \ {p} /\ reqs[p].kind = "approval"
    BY <1>6 DEF Approves, Consumes, Popped, p
  <2>2. CASE Approvals = {}
    <3>1. UNCHANGED <<reqs, missed>>
      BY <1>6, <2>2 DEF Approves
    <3>2. reqs[p].at # "waiting"
      BY <1>1, <2>1, <2>2 DEF Approvals, Waits
    <3>3. QED
      BY <1>4, <2>1, <3>1, <3>2
  <2>3. CASE Approvals # {}
    <3>1. PICK q \in Approvals : Settled(q, p) /\ missed' = missed \cup ({p} \ {q})
      BY <1>6, <2>3 DEF Approves, p
    <3>2. q \in Prompts
      BY DEF Approvals
    <3>3. QED
      BY <1>5, <2>1, <3>1, <3>2
  <2>4. QED
    BY <2>2, <2>3
<1>7. CASE Clarifies(t)
  <2>1. pending' = pending \ {p}
    BY <1>7 DEF Clarifies, Consumes, Popped, p
  <2>2. CASE UNCHANGED <<reqs, missed>> /\ ~Waits(p)
    BY <1>4, <2>1, <2>2 DEF Waits
  <2>3. CASE reqs' = [reqs EXCEPT ![p].at = "text"] /\ missed' = missed \cup {p}
    <3>1. Prompts' = Prompts
      BY <1>1, <1>2, <2>3, MarkedKeeps
    <3>2. \A r \in Prompts : reqs'[r].at = IF r = p THEN "text" ELSE reqs[r].at
      BY <1>1, <1>2, <2>3, MarkedState
    <3>3. QED
      BY <2>1, <2>3, <3>1, <3>2, UsedKept
  <2>4. CASE Settled(p, p) /\ UNCHANGED missed
    BY <1>1, <1>5, <2>1, <2>4
  <2>5. QED
    BY <1>7, <2>2, <2>3, <2>4 DEF Clarifies, p
<1>8. CASE Confirms(t)
  <2>1. pending' = pending \ {p} /\ UNCHANGED missed
    BY <1>8 DEF Confirms, Consumes, Popped, p
  <2>2. CASE UNCHANGED reqs /\ ~Waits(p)
    BY <1>4, <2>1, <2>2 DEF Waits
  <2>3. CASE Settled(p, p)
    BY <1>1, <1>5, <2>1, <2>3
  <2>4. QED
    BY <1>8, <2>2, <2>3 DEF Confirms, p
<1>9. CASE Picks(t)
  <2>1. pending' = pending \ {p}
    BY <1>9 DEF Picks, Consumes, Popped, p
  <2>2. CASE UNCHANGED reqs /\ missed' = missed \cup {p}
    BY <1>4, <2>1, <2>2
  <2>3. CASE Settled(p, p) /\ UNCHANGED missed
    BY <1>1, <1>5, <2>1, <2>3
  <2>4. QED
    BY <1>9, <2>2, <2>3 DEF Picks, p
<1>10. CASE ResolutionFails(t)
  BY <1>4, <1>10 DEF ResolutionFails, Consumes, Popped, p
<1>11. QED
  BY <1>3, <1>6, <1>7, <1>8, <1>9, <1>10 DEF Consume

\* Every step leaves it so.
LEMMA StepUses == IInv /\ UsedOrNamed /\ [Next]_vars => UsedOrNamed'
<1> SUFFICES ASSUME IInv, UsedOrNamed, [Next]_vars PROVE UsedOrNamed'
  OBVIOUS
<1>1. RequestInv /\ pending \subseteq Prompts
  BY DEF IInv, SetInv
<1>2. ASSUME UNCHANGED <<reqs, pending, missed>> PROVE UsedOrNamed'
  BY <1>2, UsedKept DEF Prompts
<1>3. ASSUME NEW p \in Prompts, NEW x \in {"settled", "gone"}, reqs' = [reqs EXCEPT ![p].at = x],
             UNCHANGED pending, missed \subseteq missed'
      PROVE  UsedOrNamed'
  <2>1. x \in {"waiting", "text", "settled", "gone"}
    OBVIOUS
  <2>2. Prompts' = Prompts
    BY <1>1, <1>3, <2>1, MarkedKeeps
  <2>3. \A r \in Prompts : reqs'[r].at = IF r = p THEN x ELSE reqs[r].at
    BY <1>1, <1>3, <2>1, MarkedState
  <2>4. QED
    BY <1>3, <2>2, <2>3, UsedKept
<1>4. ASSUME NEW kind \in Kinds, NEW t \in 0..Len(tasks), Asks(kind, t) PROVE UsedOrNamed'
  <2> DEFINE p == Len(reqs) + 1
             new == [kind |-> kind, at |-> "waiting", by |-> 0]
  <2>1. new \in Requests /\ reqs \in Seq(Requests)
    BY <1>1, PromptsAssumption DEF Requests, RequestInv
  <2>2. reqs' = Append(reqs, new) /\ pending' = pending \cup {p} /\ UNCHANGED missed
    BY <1>4 DEF Asks, Minted
  <2> HIDE DEF new
  <2>3. Len(reqs') = p /\ \A q \in Prompts : reqs'[q] = reqs[q]
    BY <2>1, <2>2, AppendProperties DEF Prompts
  <2>4. Prompts' = Prompts \cup {p}
    BY <2>1, <2>3 DEF Prompts
  <2>5. QED
    BY <2>2, <2>3, <2>4 DEF UsedOrNamed, Waits
<1>5. ASSUME NEW p \in Prompts,
             \/ Lands(p) \/ Delivered(p) \/ NotDelivered(p) \/ TextAnswers(p) \/ GivesUp(p)
             \/ \E option \in Options(reqs[p].kind) : Answers(p, option)
      PROVE  UsedOrNamed'
  <2>1. CASE UNCHANGED <<reqs, pending, missed>>
    BY <1>2, <2>1
  <2>2. CASE reqs' = [reqs EXCEPT ![p].at = "settled"] /\ UNCHANGED <<pending, missed>>
    BY <1>3, <2>2
  <2>3. CASE reqs' = [reqs EXCEPT ![p].at = "gone"] /\ UNCHANGED pending /\ missed \subseteq missed'
    BY <1>3, <2>3
  <2>4. QED
    BY <1>5, <2>1, <2>2, <2>3 DEF Lands, Delivered, NotDelivered, TextAnswers, GivesUp, Answers
<1>6. CASE Messages \/ Turns \/ TurnReturns \/ TurnRaises \/ Dispatches
  <2>1. UNCHANGED <<reqs, pending>> /\ missed \subseteq missed'
    BY <1>6 DEF Messages, Turns, TurnReturns, TurnRaises, TurnEnds, Dispatches, Takes
  <2>2. QED
    BY <2>1, UsedKept DEF Prompts
<1>7. ASSUME NEW t \in 1..Len(tasks), Consume(t) \/ HandlerReturns(t) \/ ResultSent(t) PROVE UsedOrNamed'
  BY <1>2, <1>7, ConsumeUses DEF HandlerReturns, ResultSent
<1>8. CASE Restart
  <2>1. IInv'
    BY <1>8, RestartInv
  <2>2. Len(reqs) \in Nat /\ DOMAIN reqs' = 1..Len(reqs)
    BY <1>1, <1>8 DEF RequestInv, Restart, Prompts
  <2>3. Prompts' = Prompts
    BY <2>1, <2>2 DEF IInv, RequestInv, Prompts
  <2>4. missed' = missed \cup Prompts
    BY <1>8 DEF Restart
  <2>5. QED
    BY <2>3, <2>4 DEF UsedOrNamed
<1>9. CASE UNCHANGED vars
  BY <1>2, <1>9 DEF vars
<1>10. QED
  BY <1>4, <1>5, <1>6, <1>7, <1>8, <1>9 DEF Next

\* A used button never leaves its request waiting without one of the named
\* reasons: what AnswerHeard says of the answer's arrival holds of its end at any
\* moment (_consume_prompt_response).
THEOREM UsedAnswersCount == Spec => []UsedOrNamed
<1>1. Init => UsedOrNamed
  BY DEF Init, UsedOrNamed, Prompts
<1>2. QED
  BY <1>1, StepUses, Inductive, PTL DEF Spec
=============================================================================
