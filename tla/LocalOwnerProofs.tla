-------------------------- MODULE LocalOwnerProofs --------------------------
(***************************************************************************)
(* Theorems about LocalOwner, for every value of its constants.            *)
(***************************************************************************)
EXTENDS LocalOwner, TLAPS

Admitting == {"unstarted", "connecting", "submitting"}

\* Where a message can be whose submit the owner may have admitted.
Submitted == {"submitting", "awaiting", "replying", "doubting", "uncertain", "cancelled"}

\* One task at most has no answer to its admission yet, and has given no sign;
\* the worker waits for it, unless it was cancelled and nothing is dispatched.
AdmissionInv ==
  \A m \in Msgs :
    tasks[m].at \in Admitting =>
      /\ ~tasks[m].ready /\ (waiting = m \/ phase = "down")
      /\ \A n \in Msgs : tasks[n].at \in Admitting => n = m

\* A submit without an answer is remembered by the state of its task.
UncertainInv == \A m \in Msgs : m \in uncertain => tasks[m].at \in Submitted

\* A submission carries nothing but the message.
SubmissionInv == \A i \in asked \cup turns : i[2] = 0

\* The message the worker waits for is one that was sent, and the worker has
\* not been cancelled.
WaitingInv == waiting # NoMsg => cursor < Len(sent) /\ phase # "down"

IInv == TypeOK /\ WaitingInv /\ AdmissionInv /\ UncertainInv /\ SubmissionInv

-----------------------------------------------------------------------------
\* What an eviction takes: answered tasks only.
LEMMA EvictsAnswered ==
  ASSUME NEW gone \in Evictions
  PROVE  gone \subseteq {m \in Msgs : tasks[m].at = "answered"}
BY DEF Evictions, At

\* The initial state.
LEMMA InitInv == Init => IInv
BY OwnerAssumption DEF Init, IInv, TypeOK, WaitingInv, AdmissionInv, UncertainInv, SubmissionInv, NoTask,
   Running, Ended, Admitting, Submitted

\* A step of a task preserves the invariant.
LEMMA TaskStepInv == ASSUME IInv, NEW m \in Msgs, TaskStep(m) PROVE IInv'
<1> USE DEF IInv, TypeOK, WaitingInv, AdmissionInv, UncertainInv, SubmissionInv, Running, Ended,
            Admitting, Submitted, others, owner, history, At, Moves
<1>1. CASE Starts(m)
  BY <1>1 DEF Starts
<1>2. CASE ConnectFails(m)
  BY <1>2 DEF ConnectFails
<1>3. CASE Submits(m)
  BY <1>3, OwnerAssumption DEF Submits, SubmissionId
<1>4. CASE Admitted(m)
  BY <1>4 DEF Admitted
<1>5. CASE Refused(m)
  BY <1>5 DEF Refused
<1>6. CASE Unconfirmed(m)
  BY <1>6 DEF Unconfirmed
<1>7. CASE TurnOver(m)
  BY <1>7 DEF TurnOver
<1>8. CASE TurnLost(m)
  BY <1>8 DEF TurnLost
<1>9. CASE Replies(m)
  BY <1>9 DEF Replies
<1>10. CASE ReplyFails(m)
  BY <1>10 DEF ReplyFails
<1>11. CASE Reports(m)
  BY <1>11 DEF Reports, Errs
<1>12. QED
  BY <1>1, <1>2, <1>3, <1>4, <1>5, <1>6, <1>7, <1>8, <1>9, <1>10, <1>11 DEF TaskStep

\* Handing a message to a task: no other task waits for its admission, and
\* neither a retry nor an eviction forgets a submit without an answer.
LEMMA ForwardsInv == IInv /\ Forwards => IInv'
<1> SUFFICES ASSUME IInv, Forwards PROVE IInv'
  OBVIOUS
<1> USE DEF IInv, Running, Ended, Admitting, Submitted, owner, history, At
<1>1. /\ waiting = NoMsg /\ cursor \in Nat /\ cursor < Len(sent) /\ sent \in Seq(Msgs)
      /\ UNCHANGED <<phase, restarts, sent, cursor, owner, history>>
      /\ waiting' = Next1 /\ phase # "down"
  BY DEF Forwards, Dispatches, TypeOK
<1>2. Next1 \in Msgs
  BY <1>1 DEF Next1
<1>3. PICK gone \in Evictions :
        tasks' = [m \in Msgs |-> IF m = Next1 THEN [at |-> "unstarted", ready |-> FALSE]
                                 ELSE IF m \in gone THEN NoTask ELSE tasks[m]]
  BY DEF Forwards
<1>4. \A m \in Msgs \ {Next1} :
        tasks'[m] = tasks[m] \/ (tasks[m].at = "answered" /\ tasks'[m] = NoTask)
  BY <1>3, EvictsAnswered
<1>5. tasks'[Next1] = [at |-> "unstarted", ready |-> FALSE]
  BY <1>2, <1>3
<1>6. Next1 \notin uncertain
  BY <1>2 DEF Forwards, Retryable, UncertainInv
<1>7. TypeOK'
  <2>1. tasks' \in [Msgs -> [at : {"none"} \cup Running \cup Ended, ready : BOOLEAN]]
    BY <1>3 DEF TypeOK, NoTask
  <2>2. QED
    BY <1>1, <1>2, <2>1 DEF TypeOK
<1>8. AdmissionInv'
  BY <1>1, <1>2, <1>4, <1>5, OwnerAssumption DEF AdmissionInv, NoTask
<1>9. UncertainInv'
  BY <1>1, <1>2, <1>4, <1>5, <1>6 DEF UncertainInv
<1>10. SubmissionInv'
  BY <1>1 DEF SubmissionInv
<1>11. WaitingInv'
  BY <1>1 DEF WaitingInv
<1>12. QED
  BY <1>7, <1>8, <1>9, <1>10, <1>11

\* Every step preserves the invariant.
LEMMA StepInv == IInv /\ [Next]_vars => IInv'
<1> SUFFICES ASSUME IInv, [Next]_vars PROVE IInv'
  OBVIOUS
<1> USE DEF IInv, TypeOK, WaitingInv, AdmissionInv, UncertainInv, SubmissionInv, Running, Ended,
            Admitting, Submitted, others, owner, history, At
<1>1. ASSUME NEW m \in Msgs, PhoneSends(m) PROVE IInv'
  BY <1>1 DEF PhoneSends
<1>2. ASSUME NEW m \in Msgs, TaskStep(m) PROVE IInv'
  BY <1>2, TaskStepInv
<1>3. CASE Rejects
  BY <1>3 DEF Rejects, Errs, Dispatches, Next1
<1>4. CASE Repeats
  BY <1>4 DEF Repeats, Dispatches
<1>5. CASE Forwards
  BY <1>5, ForwardsInv
<1>6. CASE Returns
  <2>1. \A m \in Msgs : tasks[m].at \notin Admitting
    <3>1. waiting \in Msgs /\ tasks[waiting].ready /\ phase # "down"
      BY <1>6 DEF Returns
    <3>2. QED
      BY <3>1
  <2>2. cursor' \in 0..Len(sent)
    BY <1>6 DEF Returns
  <2>3. QED
    BY <1>6, <2>1, <2>2 DEF Returns
<1>7. ASSUME NEW i \in asked, OwnerAdmits(i) PROVE IInv'
  BY <1>7 DEF OwnerAdmits
<1>8. CASE CancelsTasks
  BY <1>8 DEF CancelsTasks, Cancel
<1>9. CASE CancelsSupervisor
  BY <1>9 DEF CancelsSupervisor
<1>10. CASE WorkerStops
  BY <1>10 DEF WorkerStops
<1>11. CASE Restarts
  BY <1>11, OwnerAssumption DEF Restarts, NoTask
<1>12. CASE UNCHANGED vars
  BY <1>12 DEF vars
<1>13. QED
  BY <1>1, <1>2, <1>3, <1>4, <1>5, <1>6, <1>7, <1>8, <1>9, <1>10, <1>11, <1>12
     DEF Next, WorkerStep

\* The inductive invariant.
THEOREM Inductive == Spec => []IInv
<1>1. Init => IInv
  BY InitInv
<1>2. IInv /\ [Next]_vars => IInv'
  BY StepInv
<1>3. QED
  BY <1>1, <1>2, PTL DEF Spec

\* Every variable keeps its type.
THEOREM TypeCorrect == Spec => []TypeOK
<1>1. IInv => TypeOK
  BY DEF IInv
<1>2. QED
  BY <1>1, Inductive, PTL

\* One message makes one turn, over any number of repetitions and restarts.
THEOREM OneTurn == Spec => []AtMostOneTurn
<1>1. IInv => AtMostOneTurn
  BY DEF IInv, TypeOK, SubmissionInv, AtMostOneTurn
<1>2. QED
  BY <1>1, Inductive, PTL

\* Admissions keep the order in which the worker takes the messages, the tasks
\* of a disconnect's await included.
THEOREM InOrder == Spec => []OneAdmissionAtATime
<1>1. IInv => OneAdmissionAtATime
  BY DEF IInv, AdmissionInv, Admitting, OneAdmissionAtATime, At
<1>2. QED
  BY <1>1, Inductive, PTL

\* A submit that may have been admitted is not repeated by its process.
THEOREM Unrepeated == Spec => NeverResubmitted
<1>1. IInv => \A m \in Msgs : At(m, {"connecting"}) => m \notin uncertain
  BY DEF IInv, UncertainInv, Submitted, At
<1>2. IInv /\ [Next]_vars =>
        [\A m \in Msgs :
           At(m, {"connecting"}) /\ tasks'[m].at = "submitting" => m \notin uncertain]_vars
  BY <1>1
<1>3. QED
  BY <1>2, Inductive, PTL DEF Spec, NeverResubmitted

-----------------------------------------------------------------------------
(* What became of every message the worker has gone past.                  *)

\* Every message the cursor has passed was answered, with its reply or an error
\* that was delivered or could not be, has a task that runs or was cancelled, or
\* was cut short by a restart; for none the plugin does not even try.
AnsweredOrCut ==
  \A k \in 1..cursor :
    sent[k] \in told \cup undelivered \cup restarted \/ At(sent[k], Running \cup {"cancelled"})

\* A task that came to its end has told the phone how it went, or tried to.
ToldInv ==
  \A m \in Msgs :
    tasks[m].at \in {"answered", "refused", "uncertain"} => m \in told \cup undelivered

\* The message the worker waits for is the next one, and has a task.
WaitedInv == waiting # NoMsg => waiting = Next1 /\ tasks[waiting].at # "none"

AnsweredInv == ToldInv /\ WaitedInv /\ AnsweredOrCut

\* A step of a task ends it with an answer, and leaves the others alone.
LEMMA TaskStepAnswers ==
  ASSUME IInv, AnsweredInv, NEW m \in Msgs, TaskStep(m)
  PROVE  AnsweredInv'
<1> USE DEF others, owner, history, At, Moves
<1>1. /\ UNCHANGED <<sent, cursor, waiting, restarted>>
      /\ told \subseteq told' /\ undelivered \subseteq undelivered'
      /\ tasks[m].at \in Running
      /\ \A x \in Msgs \ {m} : tasks'[x] = tasks[x]
      /\ tasks'[m].at \in Running \/ (tasks'[m].at \in {"answered", "refused", "uncertain"}
                                          /\ m \in told' \cup undelivered')
  BY DEF TaskStep, Starts, ConnectFails, Submits, Admitted, Refused, Unconfirmed, TurnOver, TurnLost,
     Replies, ReplyFails, Reports, Errs, Running, IInv, TypeOK
<1>2. ToldInv'
  BY <1>1 DEF AnsweredInv, ToldInv, Running
<1>3. WaitedInv'
  BY <1>1 DEF AnsweredInv, WaitedInv, Running, Next1, IInv, TypeOK
<1>4. AnsweredOrCut'
  <2> SUFFICES ASSUME NEW k \in 1..cursor
               PROVE  \/ sent[k] \in told' \cup undelivered' \cup restarted
                      \/ tasks'[sent[k]].at \in Running \cup {"cancelled"}
    BY <1>1 DEF AnsweredOrCut
  <2>1. sent[k] \in Msgs
    BY DEF IInv, TypeOK
  <2>2. QED
    BY <1>1, <2>1 DEF AnsweredInv, AnsweredOrCut
<1>5. QED
  BY <1>2, <1>3, <1>4 DEF AnsweredInv

\* So does every step.
LEMMA StepAnswers == IInv /\ AnsweredInv /\ [Next]_vars => AnsweredInv'
<1> SUFFICES ASSUME IInv, AnsweredInv, [Next]_vars PROVE AnsweredInv'
  OBVIOUS
<1> USE DEF AnsweredInv, ToldInv, WaitedInv, AnsweredOrCut, owner, history, At, others
<1>1. /\ sent \in Seq(Msgs) /\ cursor \in Nat /\ cursor <= Len(sent)
      /\ \A k \in 1..Len(sent) : sent[k] \in Msgs
  BY DEF IInv, TypeOK
<1>2. ASSUME NEW m \in Msgs, PhoneSends(m) PROVE AnsweredInv'
  <2>1. \A k \in 1..Len(sent) : sent'[k] = sent[k]
    BY <1>1, <1>2 DEF PhoneSends
  <2>2. waiting # NoMsg => Next1' = Next1
    BY <1>1, <1>2, <2>1 DEF Next1, IInv, WaitingInv, PhoneSends
  <2>3. QED
    BY <1>1, <1>2, <2>1, <2>2 DEF PhoneSends
<1>3. ASSUME NEW m \in Msgs, TaskStep(m) PROVE AnsweredInv'
  BY <1>3, TaskStepAnswers
<1>4. CASE Rejects
  <2>1. \A k \in 1..cursor' : k \in 1..cursor \/ sent[k] = Next1
    BY <1>1, <1>4 DEF Rejects, Dispatches, Next1
  <2>2. QED
    BY <1>1, <1>4, <2>1 DEF Rejects, Errs, Dispatches
<1>5. CASE Repeats
  <2>1. \A k \in 1..cursor' : k \in 1..cursor \/ sent[k] = Next1
    BY <1>1, <1>5 DEF Repeats, Dispatches, Next1
  <2>2. Next1 \in Msgs
    BY <1>1, <1>5 DEF Repeats, Dispatches, Next1
  <2>3. Next1 \in told \cup undelivered \/ tasks[Next1].at \in Running \cup {"cancelled"}
    BY <1>5, <2>2 DEF Repeats, Retryable, IInv, TypeOK, Ended
  <2>4. QED
    BY <1>1, <1>5, <2>1, <2>3 DEF Repeats, Dispatches
<1>6. CASE Forwards
  <2>1. PICK gone \in Evictions :
          tasks' = [m \in Msgs |-> IF m = Next1 THEN [at |-> "unstarted", ready |-> FALSE]
                                   ELSE IF m \in gone THEN NoTask ELSE tasks[m]]
    BY <1>6 DEF Forwards
  <2>2. /\ UNCHANGED <<sent, cursor, told, undelivered, restarted>> /\ waiting' = Next1 /\ Next1' = Next1
        /\ Next1 \in Msgs
    BY <1>1, <1>6 DEF Forwards, Dispatches, Next1
  <2>3. \A m \in Msgs \ {Next1} : tasks'[m] = tasks[m] \/ (m \in told \cup undelivered /\ tasks'[m].at = "none")
    BY <2>1, EvictsAnswered DEF NoTask
  <2>4. tasks'[Next1].at = "unstarted"
    BY <2>1, <2>2
  <2>5. QED
    BY <1>1, <2>2, <2>3, <2>4 DEF Running
<1>7. CASE Returns
  <2>1. /\ cursor' = cursor + 1 /\ waiting' = NoMsg /\ UNCHANGED <<sent, tasks, told, undelivered, restarted>>
        /\ waiting = Next1 /\ waiting \in Msgs /\ tasks[waiting].at # "none"
    BY <1>7 DEF Returns, IInv, TypeOK
  <2>2. \A k \in 1..cursor' : k \in 1..cursor \/ sent[k] = waiting
    BY <1>1, <2>1 DEF Next1
  <2>3. waiting \in told \cup undelivered \/ tasks[waiting].at \in Running \cup {"cancelled"}
    BY <2>1 DEF IInv, TypeOK, Ended
  <2>4. QED
    BY <2>1, <2>2, <2>3
<1>8. ASSUME NEW i \in asked, OwnerAdmits(i) PROVE AnsweredInv'
  BY <1>8 DEF OwnerAdmits, Next1
<1>9. CASE CancelsSupervisor
  BY <1>9 DEF CancelsSupervisor, Next1
<1>10. CASE CancelsTasks
  <2>1. /\ UNCHANGED <<sent, cursor, told, undelivered, waiting, restarted>>
        /\ \A m \in Msgs : /\ tasks[m].at \in Running => tasks'[m].at = "cancelled"
                           /\ tasks[m].at \notin Running => tasks'[m] = tasks[m]
    BY <1>10 DEF CancelsTasks, Cancel
  <2>2. ToldInv'
    BY <2>1 DEF Running
  <2>3. WaitedInv'
    BY <2>1 DEF Next1, IInv, TypeOK
  <2>4. AnsweredOrCut'
    BY <1>1, <2>1
  <2>5. QED
    BY <2>2, <2>3, <2>4
<1>11. CASE WorkerStops
  BY <1>11 DEF WorkerStops, Next1
<1>12. CASE Restarts
  <2>1. /\ UNCHANGED <<sent, cursor, told, undelivered>> /\ waiting' = NoMsg
        /\ \A m \in Msgs : tasks'[m].at = "none"
        /\ restarted' = restarted \cup {m \in Msgs : tasks[m].at \in Running \cup {"cancelled"}}
    BY <1>12 DEF Restarts, NoTask
  <2>2. QED
    BY <1>1, <2>1
<1>13. CASE UNCHANGED vars
  BY <1>13 DEF vars, Next1
<1>14. QED
  BY <1>2, <1>3, <1>4, <1>5, <1>6, <1>7, <1>8, <1>9, <1>10, <1>11, <1>12, <1>13 DEF Next, WorkerStep

\* For no message the worker has gone past does the plugin not even try to tell
\* the phone (_forward_local_owned, _run_local_owner).
THEOREM AllAnswered == Spec => []AnsweredOrCut
<1>1. Init => AnsweredInv
  BY DEF Init, AnsweredInv, ToldInv, WaitedInv, AnsweredOrCut, NoTask
<1>2. IInv /\ AnsweredInv /\ [Next]_vars => AnsweredInv'
  BY StepAnswers
<1>3. AnsweredInv => AnsweredOrCut
  BY DEF AnsweredInv
<1>4. QED
  BY <1>1, <1>2, <1>3, Inductive, PTL DEF Spec
=============================================================================
