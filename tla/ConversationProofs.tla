-------------------------- MODULE ConversationProofs --------------------------
(***************************************************************************)
(* Theorems about what the phone is shown of a conversation, for every     *)
(* value of the constants: the chat of a bot (BotChat), and the log of a   *)
(* room (RoomLog, whose names begin with Room).                            *)
(***************************************************************************)
EXTENDS BotChat, RoomLog, FiniteSetTheorems, SequenceTheorems, TLAPS

-----------------------------------------------------------------------------
(* The chat of a bot.                                                      *)

\* The parts of TypeOK.
Numbers ==
  /\ turn \in 0..MaxTurns /\ words \in 0..MaxWords /\ opens \in 0..MaxOpens /\ stops \in 0..MaxStops
  /\ runs \in 0..MaxRuns /\ run \in 0..runs /\ last \in 0..MaxWords /\ held \in 0..MaxWords
Flags ==
  /\ running \in BOOLEAN /\ dying \in BOOLEAN /\ (dying => running) /\ (running => turn # 0)
  /\ open \in BOOLEAN /\ was \in BOOLEAN /\ suppress \in BOOLEAN
PollInv == poll \in {"off", "ready", "delta", "done"} /\ (poll = "off" <=> ~open)
StopCalls ==
  [at : {"idle", "asking", "telling"}, run : 0..MaxRuns, active : BOOLEAN,
   interrupts : BOOLEAN, gone : BOOLEAN, was : BOOLEAN]
StopTypes == stop \in StopCalls
History ==
  /\ given \subseteq 1..runs /\ ended \subseteq 1..runs
  /\ interrupted \subseteq 1..turn /\ disturbed \subseteq 1..runs
  /\ stop.run \in 0..runs

\* The turn in flight was interrupted by a stop of the chat that heard so.
Dying == running /\ turn \in interrupted

\* A stop call whose chat is still open.
StopServes == StopAwaits /\ ~stop.gone

\* A stop call that found a turn in flight, and interrupted it.
StopInv ==
  /\ StopServes => open
  /\ stop.at = "asking" => stop.active
  /\ stop.at = "telling" /\ stop.interrupts => stop.active

\* Until the call is over the chat keeps the run the call is about, or a newer.
RunKept == StopServes /\ stop.run # 0 => run # 0

\* What keeps the poll from a turn that was interrupted: the chat's mark, or
\* the call that has still to set it and holds the chat's run until then.
Shield == suppress \/ (StopServes /\ stop.at = "telling" /\ stop.interrupts /\ stop.run # 0)
ShieldInv == open /\ Dying => Shield

\* A call that interrupted nothing leaves the mark down: no turn needs it.
MarkInv == StopServes /\ stop.at = "telling" /\ stop.active /\ Dying => stop.interrupts

IInv ==
  /\ Numbers /\ Flags /\ PollInv /\ StopTypes /\ History
  /\ StopInv /\ RunKept /\ ShieldInv /\ MarkInv /\ NoGhostRun
-----------------------------------------------------------------------------
\* The initial state.
LEMMA InitInv == Init => IInv
<1> SUFFICES ASSUME Init PROVE IInv
  OBVIOUS
<1> USE ChatAssumption DEF Init, NoStop
<1>1. Numbers /\ History
  BY DEF Numbers, History
<1>2. Flags /\ PollInv
  BY DEF Flags, PollInv
<1>3. StopTypes
  BY DEF StopTypes, StopCalls
<1>4. StopInv /\ RunKept /\ ShieldInv /\ MarkInv /\ NoGhostRun
  BY DEF StopInv, RunKept, ShieldInv, MarkInv, NoGhostRun, Dying, StopServes, StopAwaits
<1>5. QED
  BY <1>1, <1>2, <1>3, <1>4 DEF IInv

\* What a handler disturbs are runs there are.
LEMMA DisturbsRuns ==
  ASSUME Numbers, Numbers', runs <= runs', disturbed \subseteq 1..runs, NEW awaits, Disturbs(awaits)
  PROVE  disturbed' \subseteq 1..runs'
<1>1. disturbed' = disturbed \/ disturbed' = disturbed \cup ({run, run'} \ {0})
  BY DEF Disturbs
<1>2. {run, run'} \ {0} \subseteq 1..runs'
  BY DEF Numbers
<1>3. 1..runs \subseteq 1..runs'
  BY DEF Numbers
<1>4. QED
  BY <1>1, <1>2, <1>3

\* A new turn is not an interrupted one.
LEMMA FreshTurn ==
  ASSUME Numbers, History, Prompted
  PROVE  turn' # 0 /\ turn' \notin interrupted
BY DEF Numbers, History, Prompted

\* What is left of a call that is over.
LEMMA NoStopIdle ==
  /\ NoStop \in StopCalls /\ NoStop.at = "idle" /\ NoStop.run = 0
  /\ ~NoStop.active /\ ~NoStop.interrupts /\ ~NoStop.gone
<1>1. 0 \in 0..MaxRuns
  BY ChatAssumption
<1>2. NoStop \in StopCalls
  BY <1>1 DEF NoStop, StopCalls
<1>3. QED
  BY <1>2 DEF NoStop

\* A call that is over, or tells the phone first.
LEMMA TellsOrEnds ==
  ASSUME NEW s \in StopCalls, NEW tells \in BOOLEAN, Tells(s, tells)
  PROVE  \/ /\ tells /\ UNCHANGED chat /\ ended' = ended \cup {s.run} /\ stop' \in StopCalls
            /\ stop'.at = "telling" /\ stop'.run = s.run /\ stop'.active = s.active
            /\ stop'.interrupts = s.interrupts /\ stop'.gone = s.gone
         \/ /\ ~tells /\ ended' = ended /\ stop' = NoStop
            /\ IF s.gone THEN UNCHANGED chat ELSE Forgets(s)
<1>1. CASE tells
  BY <1>1 DEF Tells, StopCalls
<1>2. CASE ~tells
  BY <1>2 DEF Tells
<1>3. QED
  BY <1>1, <1>2

\* What a call leaves of the chat: as it is, or forgotten.
LEMMA ChatNumbers ==
  ASSUME NEW s, UNCHANGED chat \/ Forgets(s)
  PROVE  run' \in {0, run} /\ last' \in {0, last}
<1>1. CASE UNCHANGED chat
  BY <1>1 DEF chat
<1>2. CASE Forgets(s)
  BY <1>2 DEF Forgets
<1>3. QED
  BY <1>1, <1>2

LEMMA ChatFlags ==
  ASSUME Flags, NEW s \in StopCalls, UNCHANGED chat \/ Forgets(s)
  PROVE  was' \in BOOLEAN /\ suppress' \in BOOLEAN
<1>1. CASE UNCHANGED chat
  BY <1>1 DEF chat, Flags
<1>2. CASE Forgets(s)
  BY <1>2 DEF Forgets, Flags, StopCalls
<1>3. QED
  BY <1>1, <1>2

\* Every step preserves the invariant.
LEMMA StepInv == IInv /\ [Next]_vars => IInv'
<1> SUFFICES ASSUME IInv, [Next]_vars PROVE IInv'
  OBVIOUS
<1> USE DEF IInv, core, chat, history
<1>1. CASE CoreWrites
  <2>1. Flags' /\ PollInv' /\ StopTypes' /\ History' /\ StopInv' /\ RunKept' /\ ShieldInv' /\ MarkInv' /\ NoGhostRun'
    BY <1>1 DEF CoreWrites, Flags, PollInv, StopTypes, History, StopInv, RunKept, ShieldInv, MarkInv, NoGhostRun, StopServes, StopAwaits, Shield, Dying
  <2>2. Numbers'
    BY <1>1, ChatAssumption DEF CoreWrites, Numbers
  <2>3. QED
    BY <2>1, <2>2
<1>2. CASE CoreEndsTurn
  <2>1. Numbers' /\ PollInv' /\ StopTypes' /\ History' /\ StopInv' /\ RunKept' /\ NoGhostRun'
    BY <1>2 DEF CoreEndsTurn, Numbers, PollInv, StopTypes, History, StopInv, RunKept, NoGhostRun, StopServes, StopAwaits
  <2>2. Flags'
    BY <1>2 DEF CoreEndsTurn, Flags
  <2>3. ShieldInv'
    BY <1>2 DEF CoreEndsTurn, ShieldInv, RunKept, StopInv, History, StopTypes, MarkInv, Shield, Dying, StopServes, StopAwaits
  <2>4. MarkInv'
    BY <1>2 DEF CoreEndsTurn, MarkInv, StopInv, History, Dying, StopServes, StopAwaits
  <2>5. QED
    BY <2>1, <2>2, <2>3, <2>4
<1>3. CASE DesktopPrompts
  <2>1. PollInv' /\ StopTypes' /\ StopInv' /\ RunKept' /\ NoGhostRun'
    BY <1>3 DEF DesktopPrompts, PollInv, StopTypes, StopInv, RunKept, NoGhostRun, StopServes, StopAwaits
  <2>2. Numbers'
    BY <1>3, ChatAssumption DEF DesktopPrompts, Prompted, Numbers
  <2>3. Flags'
    BY <1>3, FreshTurn DEF DesktopPrompts, Prompted, Flags
  <2>4. History'
    BY <1>3 DEF DesktopPrompts, Prompted, History, Numbers
  <2>5. ~Dying'
    BY <1>3, FreshTurn DEF DesktopPrompts, Dying
  <2>6. QED
    BY <2>1, <2>2, <2>3, <2>4, <2>5 DEF ShieldInv, MarkInv
<1>4. CASE Open
  <2>1. StopTypes' /\ NoGhostRun'
    BY <1>4 DEF Open, StopTypes, NoGhostRun
  <2>2. Numbers'
    BY <1>4, ChatAssumption DEF Open, Numbers
  <2>3. Flags'
    BY <1>4 DEF Open, Flags
  <2>4. PollInv'
    BY <1>4 DEF Open, PollInv, Flags
  <2>5. History'
    <3>1. run' \in 0..runs' /\ runs' \in Nat /\ runs \in Nat /\ runs <= runs'
      BY <1>4, ChatAssumption DEF Open, Numbers
    <3>2. given' = given \cup ({run'} \ {0}) /\ interrupted' = {} /\ UNCHANGED <<ended, disturbed, stop>>
      BY <1>4 DEF Open
    <3>3. QED
      BY <3>1, <3>2 DEF History
  <2>6. StopInv'
    BY <1>4 DEF Open, StopInv, StopTypes, StopServes, StopAwaits
  <2>7. RunKept'
    BY <1>4 DEF Open, RunKept, StopInv, StopTypes, StopServes, StopAwaits
  <2>8. ShieldInv'
    BY <1>4 DEF Open, ShieldInv, RunKept, StopInv, History, StopTypes, MarkInv, Shield, Dying, StopServes, StopAwaits
  <2>9. MarkInv'
    BY <1>4 DEF Open, MarkInv, StopInv, History, Dying, StopServes, StopAwaits
  <2>10. QED
    BY <2>1, <2>2, <2>3, <2>4, <2>5, <2>6, <2>7, <2>8, <2>9
<1>5. CASE Expire
  <2>1. NoGhostRun'
    BY <1>5 DEF Expire, NoGhostRun
  <2>2. Numbers'
    BY <1>5, ChatAssumption DEF Expire, Outlives, StopAwaits, Numbers
  <2>3. Flags'
    BY <1>5 DEF Expire, Outlives, StopAwaits, Flags
  <2>4. PollInv'
    BY <1>5 DEF Expire, Outlives, StopAwaits, PollInv, Flags
  <2>5. StopTypes'
    BY <1>5 DEF Expire, Outlives, StopAwaits, StopTypes, StopCalls, Flags
  <2>6. History'
    BY <1>5 DEF Expire, Outlives, StopAwaits, History, Numbers, StopTypes
  <2>7. StopInv'
    BY <1>5 DEF Expire, Outlives, StopAwaits, StopInv, StopTypes, StopServes
  <2>8. RunKept'
    BY <1>5 DEF Expire, Outlives, StopAwaits, RunKept, StopInv, StopTypes, StopServes
  <2>9. ShieldInv'
    BY <1>5 DEF Expire, Outlives, StopAwaits, ShieldInv, RunKept, StopInv, History, StopTypes, MarkInv, Shield, Dying, StopServes
  <2>10. MarkInv'
    BY <1>5 DEF Expire, Outlives, StopAwaits, MarkInv, StopInv, History, Dying, StopServes
  <2>11. QED
    BY <2>1, <2>2, <2>3, <2>4, <2>5, <2>6, <2>7, <2>8, <2>9, <2>10
<1>6. CASE Send
  <2>1. PollInv' /\ StopTypes' /\ StopInv' /\ NoGhostRun'
    BY <1>6 DEF Send, PollInv, StopTypes, StopInv, NoGhostRun, StopServes, StopAwaits
  <2>2. Numbers' /\ runs' = runs + 1 /\ run' = runs'
    BY <1>6, ChatAssumption DEF Send, Prompted, Numbers
  <2>3. Flags'
    BY <1>6, FreshTurn DEF Send, Prompted, Flags
  <2>4. run' # 0 /\ runs <= runs'
    BY <2>2 DEF Numbers
  <2>5. History'
    <3>1. disturbed' \subseteq 1..runs'
      BY <1>6, <2>2, <2>4, DisturbsRuns DEF Send, History
    <3>2. given' = given \cup {run'} /\ UNCHANGED <<ended, interrupted, stop>> /\ turn' = turn + 1
      BY <1>6 DEF Send, Prompted
    <3>3. QED
      BY <2>2, <2>4, <3>1, <3>2 DEF History, Numbers
  <2>6. RunKept'
    BY <2>4 DEF RunKept
  <2>7. ~Dying'
    BY <1>6, FreshTurn DEF Send, Dying
  <2>8. QED
    BY <2>1, <2>2, <2>3, <2>5, <2>6, <2>7 DEF ShieldInv, MarkInv
<1>7. CASE PollSeesRunning
  <2>1. StopTypes' /\ StopInv' /\ MarkInv'
    BY <1>7 DEF PollSeesRunning, StopTypes, StopInv, MarkInv, StopServes, StopAwaits, Dying
  <2>2. Numbers'
    BY <1>7, ChatAssumption DEF PollSeesRunning, Disturbs, Suppressed, Numbers
  <2>3. Flags'
    BY <1>7 DEF PollSeesRunning, Disturbs, Suppressed, Flags
  <2>4. PollInv'
    BY <1>7 DEF PollSeesRunning, Disturbs, Suppressed, PollInv, Flags
  <2>5. History'
    <3>1. runs <= runs' /\ (words # last => run' \in 1..runs')
      BY <1>7, ChatAssumption DEF PollSeesRunning, Numbers
    <3>2. disturbed' \subseteq 1..runs'
      BY <1>7, <2>2, <3>1, DisturbsRuns DEF PollSeesRunning, History
    <3>3. UNCHANGED <<ended, interrupted, turn, stop>>
      BY <1>7 DEF PollSeesRunning
    <3>4. 1..runs \subseteq 1..runs'
      BY <2>2, <3>1 DEF Numbers
    <3>5. given' \subseteq 1..runs'
      BY <1>7, <3>1, <3>4 DEF PollSeesRunning, History
    <3>6. ended' \subseteq 1..runs' /\ stop'.run \in 0..runs'
      BY <2>2, <3>1, <3>3, <3>4 DEF History, Numbers
    <3>7. QED
      BY <3>2, <3>3, <3>5, <3>6 DEF History
  <2>6. RunKept'
    BY <1>7 DEF PollSeesRunning, Disturbs, Suppressed, RunKept, StopInv, StopTypes, StopServes, StopAwaits
  <2>7. ShieldInv'
    BY <1>7 DEF PollSeesRunning, Disturbs, Suppressed, ShieldInv, RunKept, StopInv, History, StopTypes, MarkInv, Shield, Dying, StopServes, StopAwaits
  <2>8. NoGhostRun'
    BY <1>7 DEF PollSeesRunning, Disturbs, Suppressed, NoGhostRun, ShieldInv, StopInv, RunKept, PollInv, Shield, Dying, StopServes, StopAwaits
  <2>9. QED
    BY <2>1, <2>2, <2>3, <2>4, <2>5, <2>6, <2>7, <2>8
<1>8. CASE DeltaSent
  <2>1. Numbers' /\ StopTypes' /\ History' /\ StopInv' /\ RunKept' /\ ShieldInv' /\ MarkInv' /\ NoGhostRun'
    BY <1>8 DEF DeltaSent, Numbers, StopTypes, History, StopInv, RunKept, ShieldInv, MarkInv, NoGhostRun, StopServes, StopAwaits, Shield, Dying
  <2>2. Flags'
    BY <1>8 DEF DeltaSent, Flags
  <2>3. PollInv'
    BY <1>8 DEF DeltaSent, PollInv, Flags
  <2>4. QED
    BY <2>1, <2>2, <2>3
<1>9. CASE PollSeesIdle
  <2>1. StopTypes' /\ StopInv' /\ RunKept' /\ MarkInv' /\ NoGhostRun'
    BY <1>9 DEF PollSeesIdle, StopTypes, StopInv, RunKept, MarkInv, NoGhostRun, StopServes, StopAwaits, Dying
  <2>2. Numbers'
    BY <1>9, ChatAssumption DEF PollSeesIdle, Disturbs, Numbers
  <2>3. Flags'
    BY <1>9 DEF PollSeesIdle, Disturbs, Flags
  <2>4. PollInv'
    BY <1>9 DEF PollSeesIdle, Disturbs, PollInv, Flags
  <2>5. History'
    <3>1. disturbed' \subseteq 1..runs' /\ runs' = runs
      BY <1>9, <2>2, DisturbsRuns DEF PollSeesIdle, History, Numbers
    <3>2. run # 0 => run \in 1..runs
      BY DEF Numbers
    <3>3. ended' \subseteq 1..runs
      BY <1>9, <3>2 DEF PollSeesIdle, History
    <3>4. UNCHANGED <<given, interrupted, turn, stop>>
      BY <1>9 DEF PollSeesIdle
    <3>5. QED
      BY <3>1, <3>3, <3>4 DEF History
  <2>6. ShieldInv'
    BY <1>9 DEF PollSeesIdle, Disturbs, ShieldInv, RunKept, StopInv, History, StopTypes, MarkInv, Shield, Dying, StopServes, StopAwaits
  <2>7. QED
    BY <2>1, <2>2, <2>3, <2>4, <2>5, <2>6
<1>10. CASE DoneSent
  <2>1. StopTypes' /\ History' /\ StopInv' /\ RunKept' /\ ShieldInv' /\ MarkInv' /\ NoGhostRun'
    BY <1>10 DEF DoneSent, StopTypes, History, StopInv, RunKept, ShieldInv, MarkInv, NoGhostRun, StopServes, StopAwaits, Shield, Dying
  <2>2. Numbers'
    BY <1>10, ChatAssumption DEF DoneSent, Numbers
  <2>3. Flags'
    BY <1>10 DEF DoneSent, Flags
  <2>4. PollInv'
    BY <1>10 DEF DoneSent, PollInv, Flags
  <2>5. QED
    BY <2>1, <2>2, <2>3, <2>4
<1>11. CASE StopFindsIdle
  <2> DEFINE s == [NoStop EXCEPT !.run = run]
             tells == run # 0 /\ was
  <2>1. UNCHANGED <<core, open, opens, runs, poll, held, given, interrupted, ghosts>> /\ ~running
    BY <1>11 DEF StopFindsIdle
  <2>2. s \in StopCalls /\ s.run = run /\ s.active = FALSE /\ s.interrupts = FALSE /\ s.gone = FALSE
    <3>1. run \in 0..MaxRuns
      BY ChatAssumption DEF Numbers
    <3>2. QED
      BY <3>1, NoStopIdle DEF StopCalls
  <2>3. tells \in BOOLEAN /\ Tells(s, tells) /\ open
    BY <1>11 DEF StopFindsIdle
  <2> HIDE DEF s
  <2>4. PollInv' /\ NoGhostRun' /\ ShieldInv' /\ MarkInv'
    BY <2>1 DEF PollInv, NoGhostRun, ShieldInv, MarkInv, Dying
  <2>5. \/ /\ tells /\ UNCHANGED chat /\ ended' = ended \cup {run} /\ stop' \in StopCalls
           /\ stop'.at = "telling" /\ stop'.run = run /\ stop'.interrupts = FALSE
        \/ /\ stop' = NoStop /\ Forgets(s) /\ ended' = ended
    BY <2>2, <2>3, TellsOrEnds
  <2>6. UNCHANGED chat \/ Forgets(s)
    BY <2>5
  <2>7. Numbers'
    <3>1. run' \in {0, run} /\ last' \in {0, last} /\ stops' = stops + 1 /\ stops < MaxStops
      BY <1>11, <2>6, ChatNumbers DEF StopFindsIdle
    <3>2. QED
      BY <2>1, <3>1, ChatAssumption DEF Numbers
  <2>8. Flags'
    BY <2>1, <2>2, <2>6, ChatFlags DEF Flags
  <2>9. StopTypes' /\ StopInv' /\ RunKept'
    <3>1. CASE stop' = NoStop
      BY <3>1, NoStopIdle DEF StopTypes, StopInv, RunKept, StopServes, StopAwaits
    <3>2. CASE stop' # NoStop
      BY <2>1, <2>3, <2>5, <3>2 DEF StopTypes, StopInv, RunKept, StopServes, StopAwaits
    <3>3. QED
      BY <3>1, <3>2
  <2>10. History'
    <3>1. disturbed' \subseteq 1..runs'
      BY <1>11, <2>1, <2>7, DisturbsRuns DEF StopFindsIdle, History, Numbers
    <3>2. 0 \in 0..runs /\ run \in 0..runs /\ (run # 0 => run \in 1..runs)
      BY DEF Numbers
    <3>3. ended' \subseteq 1..runs /\ stop'.run \in 0..runs
      BY <2>5, <3>2, NoStopIdle DEF History
    <3>4. runs' = runs /\ UNCHANGED <<given, interrupted, turn>>
      BY <2>1
    <3>5. QED
      BY <3>1, <3>3, <3>4 DEF History
  <2>11. QED
    BY <2>4, <2>7, <2>8, <2>9, <2>10
<1>12. CASE StopFindsRunning
  <2>1. Flags' /\ PollInv' /\ NoGhostRun'
    BY <1>12 DEF StopFindsRunning, Flags, PollInv, NoGhostRun
  <2>2. Numbers'
    BY <1>12, ChatAssumption DEF StopFindsRunning, Disturbs, NoStop, Numbers
  <2>3. StopTypes'
    <3>1. run \in 0..MaxRuns
      BY ChatAssumption DEF Numbers
    <3>2. QED
      BY <1>12, <3>1, NoStopIdle DEF StopFindsRunning, StopTypes, StopCalls
  <2>4. History'
    <3>1. disturbed' \subseteq 1..runs' /\ UNCHANGED <<runs, turn, given, ended, interrupted>>
      BY <1>12, <2>2, DisturbsRuns DEF StopFindsRunning, History, Numbers
    <3>2. stop'.run = run
      BY <1>12, NoStopIdle DEF StopFindsRunning, StopCalls
    <3>3. QED
      BY <3>1, <3>2 DEF History, Numbers
  <2>5. StopInv'
    BY <1>12 DEF StopFindsRunning, Disturbs, NoStop, StopInv, StopTypes, StopServes, StopAwaits
  <2>6. RunKept'
    BY <1>12 DEF StopFindsRunning, Disturbs, NoStop, RunKept, StopInv, StopTypes, StopServes, StopAwaits
  <2>7. ShieldInv'
    BY <1>12 DEF StopFindsRunning, Disturbs, NoStop, ShieldInv, RunKept, StopInv, History, StopTypes, MarkInv, Shield, Dying, StopServes, StopAwaits
  <2>8. MarkInv'
    BY <1>12 DEF StopFindsRunning, Disturbs, NoStop, MarkInv, StopInv, History, Dying, StopServes, StopAwaits
  <2>9. QED
    BY <2>1, <2>2, <2>3, <2>4, <2>5, <2>6, <2>7, <2>8
<1>13. CASE StopInterrupts
  <2> DEFINE s == [stop EXCEPT !.interrupts = running]
             tells == stop.run # 0 /\ (running \/ IF stop.gone THEN stop.was ELSE was)
  <2>1. UNCHANGED <<turn, running, words, open, opens, runs, poll, held, stops, given, ghosts>>
    BY <1>13 DEF StopInterrupts
  <2>2. stop.at = "asking" /\ stop.active /\ (~stop.gone => open) /\ (~stop.gone /\ stop.run # 0 => run # 0)
    BY <1>13 DEF StopInterrupts, StopInv, RunKept, StopServes, StopAwaits
  <2>3. s \in StopCalls /\ s.run = stop.run /\ s.active = stop.active /\ s.interrupts = running /\ s.gone = stop.gone
    BY DEF StopTypes, StopCalls, Flags
  <2>4. tells \in BOOLEAN /\ Tells(s, tells)
    BY <1>13 DEF StopInterrupts, StopTypes, StopCalls, Flags
  <2>5. interrupted' = IF running /\ ~stop.gone THEN interrupted \cup {turn} ELSE interrupted
    BY <1>13 DEF StopInterrupts
  <2> HIDE DEF s
  <2>6. \/ /\ tells /\ UNCHANGED chat /\ ended' = ended \cup {stop.run} /\ stop' \in StopCalls
           /\ stop'.at = "telling" /\ stop'.run = stop.run /\ stop'.active = stop.active
           /\ stop'.interrupts = running /\ stop'.gone = stop.gone
        \/ /\ ended' = ended /\ stop' = NoStop
           /\ IF stop.gone THEN UNCHANGED chat ELSE Forgets(s)
    BY <2>3, <2>4, TellsOrEnds
  <2>7. PollInv' /\ NoGhostRun'
    BY <2>1 DEF PollInv, NoGhostRun
  <2>8. UNCHANGED chat \/ Forgets(s)
    BY <2>6
  <2>9. Numbers'
    <3>1. run' \in {0, run} /\ last' \in {0, last}
      BY <2>8, ChatNumbers
    <3>2. UNCHANGED <<turn, words, opens, runs, held, stops>>
      BY <2>1
    <3>3. QED
      BY <3>1, <3>2, ChatAssumption DEF Numbers
  <2>10. Flags'
    <3>1. was' \in BOOLEAN /\ suppress' \in BOOLEAN
      BY <2>3, <2>8, ChatFlags
    <3>2. QED
      BY <1>13, <2>1, <3>1 DEF StopInterrupts, Flags
  <2>11. StopTypes'
    BY <2>6, NoStopIdle DEF StopTypes
  <2>12. StopInv' /\ RunKept'
    <3>1. CASE stop' = NoStop
      BY <3>1, NoStopIdle DEF StopInv, RunKept, StopServes, StopAwaits
    <3>2. CASE stop' # NoStop
      BY <2>1, <2>2, <2>6, <3>2 DEF StopInv, RunKept, StopServes, StopAwaits, chat
    <3>3. QED
      BY <3>1, <3>2
  <2>13. ShieldInv' /\ MarkInv'
    <3>1. CASE stop.gone
      <4>1. UNCHANGED suppress /\ interrupted' = interrupted
        BY <2>5, <2>6, <3>1 DEF chat
      <4>2. ~StopServes /\ ~StopServes'
        BY <2>6, <3>1, NoStopIdle DEF StopServes, StopAwaits
      <4>3. QED
        BY <2>1, <4>1, <4>2 DEF ShieldInv, MarkInv, Shield, Dying
    <3>2. CASE ~stop.gone /\ stop' = NoStop
      BY <2>1, <2>2, <2>3, <2>6, <3>2
         DEF ShieldInv, MarkInv, Shield, Dying, StopServes, StopAwaits, NoStop, Forgets
    <3>3. CASE ~stop.gone /\ stop'.at = "telling" /\ stop'.interrupts = running /\ stop'.gone = stop.gone /\ stop'.run # 0
      BY <2>1, <3>3 DEF ShieldInv, MarkInv, Shield, Dying, StopServes, StopAwaits, Flags
    <3>4. QED
      BY <2>6, <3>1, <3>2, <3>3
  <2>14. History'
    <3>1. disturbed' \subseteq 1..runs'
      BY <1>13, <2>1, <2>9, DisturbsRuns DEF StopInterrupts, History, Numbers
    <3>2. 0 \in 0..runs /\ (stop.run # 0 => stop.run \in 1..runs)
      BY DEF Numbers, History
    <3>3. ended' \subseteq 1..runs /\ stop'.run \in 0..runs
      BY <2>6, <3>2, NoStopIdle DEF History
    <3>4. turn # 0 => turn \in 1..turn
      BY DEF Numbers
    <3>5. interrupted' \subseteq 1..turn
      BY <2>5, <3>4 DEF History, Flags
    <3>6. runs' = runs /\ UNCHANGED <<given, turn>>
      BY <2>1
    <3>7. QED
      BY <3>1, <3>3, <3>5, <3>6 DEF History
  <2>15. QED
    BY <2>7, <2>9, <2>10, <2>11, <2>12, <2>13, <2>14
<1>14. CASE StopEnds
  <2>1. UNCHANGED <<core, open, opens, runs, poll, held, stops, history>> /\ stop.at = "telling" /\ stop' = NoStop
    BY <1>14 DEF StopEnds
  <2>2. (stop.gone /\ UNCHANGED chat) \/ (~stop.gone /\ Forgets(stop))
    <3>1. stop.gone \in BOOLEAN
      BY DEF StopTypes, StopCalls
    <3>2. QED
      BY <1>14, <3>1 DEF StopEnds
  <2>3. PollInv' /\ History' /\ NoGhostRun'
    BY <2>1, NoStopIdle DEF PollInv, History, NoGhostRun, Numbers
  <2>4. UNCHANGED chat \/ Forgets(stop)
    BY <2>2
  <2>5. Numbers'
    <3>1. run' \in {0, run} /\ last' \in {0, last}
      BY <2>4, ChatNumbers
    <3>2. UNCHANGED <<turn, words, opens, runs, held, stops>>
      BY <2>1
    <3>3. QED
      BY <3>1, <3>2, ChatAssumption DEF Numbers
  <2>6. Flags'
    <3>1. was' \in BOOLEAN /\ suppress' \in BOOLEAN
      BY <2>4, ChatFlags DEF StopTypes
    <3>2. QED
      BY <2>1, <3>1 DEF Flags
  <2>7. StopTypes'
    BY <2>1, NoStopIdle DEF StopTypes
  <2>8. StopInv' /\ RunKept' /\ MarkInv'
    BY <2>1 DEF StopInv, RunKept, MarkInv, StopServes, StopAwaits, NoStop
  <2>9. ShieldInv'
    BY <2>1, <2>2 DEF ShieldInv, MarkInv, Shield, Forgets, Dying, StopServes, StopAwaits, NoStop, Flags, StopInv
  <2>10. QED
    BY <2>3, <2>5, <2>6, <2>7, <2>8, <2>9
<1>15. CASE StopFails
  <2>1. UNCHANGED <<turn, running, words, open, opens, chat, runs, poll, held, stops, given,
                    ended, interrupted, ghosts>>
        /\ stop' = NoStop /\ (dying' = dying \/ dying' = running)
    BY <1>15 DEF StopFails
  <2>2. PollInv' /\ NoGhostRun' /\ Flags'
    BY <2>1 DEF PollInv, NoGhostRun, Flags
  <2>3. Numbers' /\ StopTypes'
    BY <2>1, NoStopIdle DEF Numbers, StopTypes
  <2>4. StopInv' /\ RunKept' /\ MarkInv'
    BY <2>1, NoStopIdle DEF StopInv, RunKept, MarkInv, StopServes, StopAwaits
  <2>5. ShieldInv'
    BY <1>15, <2>1 DEF StopFails, ShieldInv, Shield, Dying
  <2>6. disturbed' \subseteq 1..runs'
    BY <1>15, <2>1, <2>3, DisturbsRuns DEF StopFails, History, Numbers
  <2>7. History'
    BY <2>1, <2>6, NoStopIdle DEF History, Numbers
  <2>8. QED
    BY <2>2, <2>3, <2>4, <2>5, <2>7
<1>16. CASE UNCHANGED vars
  BY <1>16 DEF vars, Numbers, Flags, PollInv, StopTypes, History, StopInv, RunKept,
     ShieldInv, Shield, MarkInv, NoGhostRun, Dying, StopServes, StopAwaits
<1>17. QED
  BY <1>1, <1>2, <1>3, <1>4, <1>5, <1>6, <1>7, <1>8, <1>9, <1>10, <1>11, <1>12, <1>13, <1>14, <1>15, <1>16 DEF Next

\* The inductive invariant.
THEOREM Inductive == Spec => []IInv
<1>1. Init => IInv
  BY InitInv
<1>2. IInv /\ [Next]_vars => IInv'
  BY StepInv
<1>3. QED
  BY <1>1, <1>2, PTL DEF Spec

\* Every variable keeps its type, and a chat that is not open has no poll.
THEOREM TypeCorrect == Spec => []TypeOK
<1>1. IInv => TypeOK
  BY DEF IInv, Numbers, Flags, PollInv, StopTypes, StopCalls, History, NoGhostRun, TypeOK
<1>2. QED
  BY <1>1, Inductive, PTL

\* The poll never takes a turn for a new run that a stop interrupted and
\* heard so.
THEOREM NoGhost == Spec => []NoGhostRun
<1>1. IInv => NoGhostRun
  BY DEF IInv
<1>2. QED
  BY <1>1, Inductive, PTL

-----------------------------------------------------------------------------
(* What becomes of the runs the phone was told of.                         *)

\* Nothing more is owed to the phone about a run.
Settled(r) == r = 0 \/ r \in ended \cup disturbed \/ r \notin given

\* A run the phone was told of is the chat's still, or a newer one has
\* replaced it, or nothing more is owed.
Followed ==
  \A r \in given : r = run \/ r \in ended \cup disturbed \/ \E n \in given : n > r

\* When the chat may forget its run: the poll's was_running is down, its last
\* event is out, or a stop call has told the phone.
ClosedInv == ~open => given = {}
DownInv == ~was => Settled(run) \/ poll = "delta"
LastInv == poll = "done" => Settled(run)
AskedInv == stop.at = "asking" /\ ~stop.gone => run = stop.run \/ Settled(run)
ToldInv == stop.at = "telling" /\ ~stop.gone => Settled(run)

FollowInv == Followed /\ ClosedInv /\ DownInv /\ LastInv /\ AskedInv /\ ToldInv

\* What is settled stays settled while the run is not told of anew.
LEMMA SettledStays ==
  ASSUME NEW r, Settled(r), ended \subseteq ended', disturbed \subseteq disturbed',
         r \in given' => r \in given
  PROVE  Settled(r)'
BY DEF Settled

\* A handler that starts during an await settles the runs it finds and leaves.
LEMMA DisturbsSettles ==
  ASSUME NEW awaits, Disturbs(awaits)
  PROVE  disturbed \subseteq disturbed' /\ (awaits => Settled(run)' /\ (run # 0 => run \in disturbed'))
BY DEF Disturbs, Settled

\* A step that changes none of the variables FollowInv reads keeps it.
LEMMA FollowUnchanged ==
  ASSUME FollowInv, UNCHANGED <<open, run, was, poll, stop, given, ended, disturbed>>
  PROVE  FollowInv'
BY DEF FollowInv, Followed, ClosedInv, DownInv, LastInv, AskedInv, ToldInv, Settled

\* A chat may forget a run that is settled.
LEMMA ForgetsSettled ==
  ASSUME Followed, UNCHANGED given, run' \in {0, run}, ended \subseteq ended', disturbed \subseteq disturbed',
         run' = run \/ run = 0 \/ run \in ended' \cup disturbed' \/ run \notin given
  PROVE  Followed'
BY DEF Followed

\* Every step keeps what is known of the runs.
LEMMA StepFollows == IInv /\ FollowInv /\ [Next]_vars => FollowInv'
<1> SUFFICES ASSUME IInv, FollowInv, [Next]_vars PROVE FollowInv'
  OBVIOUS
<1> USE DEF IInv, core, chat, history
<1>1. CASE CoreWrites \/ CoreEndsTurn \/ DesktopPrompts \/ UNCHANGED vars
  BY <1>1, FollowUnchanged DEF CoreWrites, CoreEndsTurn, DesktopPrompts, vars
<1>2. CASE Open
  <2>1. ~open /\ open' /\ given = {} /\ poll' = "ready" /\ UNCHANGED stop
    BY <1>2 DEF Open, FollowInv, ClosedInv
  <2>2. given' = {run'} \ {0} /\ (~was' => run' = 0)
    BY <1>2, <2>1 DEF Open
  <2>3. stop'.at # "idle" => stop'.gone
    BY <2>1 DEF StopInv, StopServes, StopAwaits, StopTypes, StopCalls
  <2>4. QED
    BY <2>1, <2>2, <2>3 DEF FollowInv, Followed, ClosedInv, DownInv, LastInv, AskedInv, ToldInv, Settled
<1>3. CASE Expire
  <2>1. given' = {} /\ run' = 0 /\ poll' = "off"
    BY <1>3 DEF Expire
  <2>2. QED
    BY <2>1 DEF FollowInv, Followed, ClosedInv, DownInv, LastInv, AskedInv, ToldInv, Settled
<1>4. CASE Send
  <2>1. open' /\ was' /\ run' = runs + 1 /\ given' = given \cup {run'} /\ UNCHANGED <<poll, stop, ended>>
    BY <1>4 DEF Send
  <2>2. disturbed \subseteq disturbed' /\ (PollAwaits \/ StopAwaits => Settled(run)')
    BY <1>4, DisturbsSettles DEF Send
  <2>3. Followed'
    <3>1. \A r \in given : run' > r
      BY <2>1 DEF History, Numbers
    <3>2. QED
      BY <2>1, <3>1 DEF Followed
  <2>4. LastInv' /\ AskedInv' /\ ToldInv'
    BY <2>1, <2>2 DEF LastInv, AskedInv, ToldInv, PollAwaits, StopAwaits
  <2>5. QED
    BY <2>1, <2>3, <2>4 DEF FollowInv, ClosedInv, DownInv
<1>5. CASE PollSeesRunning
  <2>1. poll = "ready" /\ poll' \in {"ready", "delta"} /\ (poll' = "ready" => was') /\ UNCHANGED <<open, stop, ended>>
    BY <1>5 DEF PollSeesRunning
  <2>2. given \subseteq given' /\ given' \subseteq given \cup {run'} /\ (run # 0 => run' = run)
    BY <1>5 DEF PollSeesRunning
  <2>3. disturbed \subseteq disturbed' /\ (StopAwaits => Settled(run)')
    BY <1>5, DisturbsSettles DEF PollSeesRunning
  <2>4. Followed'
    <3>1. \A r \in given : r # 0
      BY DEF History, Numbers
    <3>2. QED
      BY <2>1, <2>2, <2>3, <3>1 DEF Followed, FollowInv
  <2>5. open
    BY <2>1 DEF PollInv
  <2>6. QED
    BY <2>1, <2>3, <2>4, <2>5 DEF FollowInv, ClosedInv, DownInv, LastInv, AskedInv, ToldInv, StopAwaits
<1>6. CASE DeltaSent
  <2>1. was' /\ poll' = "ready" /\ UNCHANGED <<open, run, stop, given, ended, disturbed>>
    BY <1>6 DEF DeltaSent
  <2>2. QED
    BY <2>1 DEF FollowInv, Followed, ClosedInv, DownInv, LastInv, AskedInv, ToldInv, Settled
<1>7. CASE PollSeesIdle
  <2>1. poll = "ready" /\ UNCHANGED <<open, run, was, stop, given>> /\ ended \subseteq ended'
    BY <1>7 DEF PollSeesIdle
  <2>2. (poll' = "done" /\ run \in ended') \/ poll' = "ready"
    BY <1>7 DEF PollSeesIdle
  <2>3. disturbed \subseteq disturbed'
    BY <1>7, DisturbsSettles DEF PollSeesIdle
  <2>4. Settled(run) => Settled(run)'
    BY <2>1, <2>3 DEF Settled
  <2>5. Followed'
    BY <2>1, <2>3, ForgetsSettled DEF FollowInv
  <2>6. LastInv'
    BY <2>1, <2>2 DEF LastInv, Settled
  <2>7. DownInv'
    BY <2>1, <2>4 DEF DownInv, FollowInv
  <2>8. AskedInv' /\ ToldInv' /\ ClosedInv'
    BY <2>1, <2>4 DEF FollowInv, AskedInv, ToldInv, ClosedInv
  <2>9. QED
    BY <2>5, <2>6, <2>7, <2>8 DEF FollowInv
<1>8. CASE DoneSent
  <2>1. poll = "done" /\ poll' = "ready" /\ UNCHANGED <<open, run, stop, given, ended, disturbed>>
    BY <1>8 DEF DoneSent
  <2>2. QED
    BY <2>1 DEF FollowInv, Followed, ClosedInv, DownInv, LastInv, AskedInv, ToldInv, Settled
<1>9. CASE StopFindsIdle
  <2> DEFINE s == [NoStop EXCEPT !.run = run]
             tells == run # 0 /\ was
  <2>1. UNCHANGED <<open, poll, given>> /\ open
    BY <1>9 DEF StopFindsIdle
  <2>2. s \in StopCalls /\ s.run = run /\ s.gone = FALSE
    <3>1. run \in 0..MaxRuns
      BY ChatAssumption DEF Numbers
    <3>2. QED
      BY <3>1, NoStopIdle DEF StopCalls
  <2>3. tells \in BOOLEAN /\ Tells(s, tells)
    BY <1>9 DEF StopFindsIdle
  <2>4. disturbed \subseteq disturbed' /\ (PollAwaits /\ run # 0 => run \in disturbed')
    BY <1>9, DisturbsSettles DEF StopFindsIdle
  <2> HIDE DEF s
  <2>5. CASE tells /\ UNCHANGED chat /\ ended' = ended \cup {run} /\ stop'.at = "telling"
    <3>1. Followed'
      BY <2>1, <2>4, <2>5, ForgetsSettled DEF FollowInv
    <3>2. Settled(run)'
      BY <2>5 DEF Settled
    <3>3. QED
      BY <2>1, <2>5, <3>1, <3>2 DEF FollowInv, ClosedInv, DownInv, LastInv, AskedInv, ToldInv
  <2>6. CASE ~tells /\ ended' = ended /\ stop' = NoStop /\ Forgets(s)
    <3>1. run = 0 \/ run \in ended' \cup disturbed' \/ run \notin given
      BY <2>4, <2>6 DEF FollowInv, DownInv, Settled, PollAwaits
    <3>2. run' = 0
      BY <2>6 DEF Forgets
    <3>3. Followed'
      BY <2>1, <2>4, <2>6, <3>1, <3>2, ForgetsSettled DEF FollowInv
    <3>4. QED
      BY <2>1, <2>6, <3>2, <3>3, NoStopIdle DEF FollowInv, ClosedInv, DownInv, LastInv, AskedInv, ToldInv, Settled
  <2>7. QED
    BY <2>2, <2>3, <2>5, <2>6, TellsOrEnds
<1>10. CASE StopFindsRunning
  <2>1. UNCHANGED <<open, run, was, poll, given, ended>>
    BY <1>10 DEF StopFindsRunning
  <2>2. stop'.at = "asking" /\ stop'.run = run
    BY <1>10, NoStopIdle DEF StopFindsRunning, StopCalls
  <2>3. disturbed \subseteq disturbed'
    BY <1>10, DisturbsSettles DEF StopFindsRunning
  <2>4. Followed' /\ (Settled(run) => Settled(run)')
    BY <2>1, <2>3, ForgetsSettled, SettledStays DEF FollowInv
  <2>5. QED
    BY <2>1, <2>2, <2>4 DEF FollowInv, ClosedInv, DownInv, LastInv, AskedInv, ToldInv
<1>11. CASE StopInterrupts
  <2> DEFINE s == [stop EXCEPT !.interrupts = running]
             tells == stop.run # 0 /\ (running \/ IF stop.gone THEN stop.was ELSE was)
  <2>1. UNCHANGED <<open, poll, given>> /\ stop.at = "asking"
    BY <1>11 DEF StopInterrupts
  <2>2. s \in StopCalls /\ s.run = stop.run /\ s.gone = stop.gone
    BY DEF StopTypes, StopCalls, Flags
  <2>3. tells \in BOOLEAN /\ Tells(s, tells)
    BY <1>11 DEF StopInterrupts, StopTypes, StopCalls, Flags
  <2>4. disturbed \subseteq disturbed' /\ (PollAwaits /\ run # 0 => run \in disturbed')
    BY <1>11, DisturbsSettles DEF StopInterrupts
  <2> HIDE DEF s
  <2>5. CASE /\ UNCHANGED chat /\ ended \subseteq ended' /\ (tells => stop.run \in ended')
             /\ stop' = NoStop \/ (tells /\ stop'.at = "telling" /\ stop'.gone = stop.gone)
    <3>1. Followed'
      BY <2>1, <2>4, <2>5, ForgetsSettled DEF FollowInv
    <3>2. Settled(run) => Settled(run)'
      BY <2>1, <2>4, <2>5 DEF Settled
    <3>3. stop'.at = "idle" \/ stop'.at = "telling"
      BY <2>5, NoStopIdle
    <3>4. stop'.at = "telling" /\ ~stop'.gone => Settled(run)'
      <4>1. CASE stop' = NoStop
        BY <4>1, NoStopIdle
      <4>2. CASE tells /\ stop'.gone = stop.gone
        <5>1. SUFFICES ASSUME ~stop.gone PROVE Settled(run)'
          BY <4>2
        <5>2. CASE run = stop.run
          BY <2>5, <4>2, <5>2 DEF Settled
        <5>3. CASE Settled(run)
          BY <3>2, <5>3
        <5>4. QED
          BY <2>1, <5>1, <5>2, <5>3 DEF FollowInv, AskedInv
      <4>3. QED
        BY <2>5, <4>1, <4>2
    <3>5. QED
      BY <2>1, <2>5, <3>1, <3>2, <3>3, <3>4 DEF FollowInv, ClosedInv, DownInv, LastInv, AskedInv, ToldInv
  <2>6. CASE ~tells /\ ended' = ended /\ stop' = NoStop /\ ~stop.gone /\ Forgets(s)
    <3>1. run = 0 \/ run \in ended' \cup disturbed' \/ run \notin given
      BY <2>1, <2>4, <2>6 DEF FollowInv, DownInv, AskedInv, Settled, PollAwaits
    <3>2. run' = 0
      BY <2>6 DEF Forgets
    <3>3. Followed'
      BY <2>1, <2>4, <2>6, <3>1, <3>2, ForgetsSettled DEF FollowInv
    <3>4. QED
      BY <2>1, <2>6, <3>2, <3>3, NoStopIdle DEF FollowInv, ClosedInv, DownInv, LastInv, AskedInv, ToldInv, Settled
  <2>7. stop.gone \in BOOLEAN
    BY DEF StopTypes, StopCalls
  <2>8. QED
    BY <2>2, <2>3, <2>5, <2>6, <2>7, TellsOrEnds
<1>12. CASE StopEnds
  <2>1. UNCHANGED <<open, poll, given, ended, disturbed>> /\ stop.at = "telling" /\ stop' = NoStop
    BY <1>12 DEF StopEnds
  <2>2. CASE stop.gone /\ UNCHANGED chat
    <3>1. Followed' /\ (Settled(run) => Settled(run)')
      BY <2>1, <2>2, ForgetsSettled, SettledStays DEF FollowInv
    <3>2. QED
      BY <2>1, <2>2, <3>1, NoStopIdle DEF FollowInv, ClosedInv, DownInv, LastInv, AskedInv, ToldInv
  <2>3. CASE ~stop.gone /\ Forgets(stop)
    <3>1. Settled(run) /\ run' = 0
      BY <2>1, <2>3 DEF FollowInv, ToldInv, Forgets
    <3>2. Followed'
      BY <2>1, <3>1, ForgetsSettled DEF FollowInv, Settled
    <3>3. QED
      BY <2>1, <3>1, <3>2, NoStopIdle DEF FollowInv, ClosedInv, DownInv, LastInv, AskedInv, ToldInv, Settled
  <2>4. stop.gone \in BOOLEAN
    BY DEF StopTypes, StopCalls
  <2>5. QED
    BY <1>12, <2>2, <2>3, <2>4 DEF StopEnds
<1>13. CASE StopFails
  <2>1. UNCHANGED <<open, run, was, poll, given, ended>> /\ stop' = NoStop
    BY <1>13 DEF StopFails
  <2>2. disturbed \subseteq disturbed'
    BY <1>13, DisturbsSettles DEF StopFails
  <2>3. Followed' /\ (Settled(run) => Settled(run)')
    BY <2>1, <2>2, ForgetsSettled, SettledStays DEF FollowInv
  <2>4. QED
    BY <2>1, <2>3, NoStopIdle DEF FollowInv, ClosedInv, DownInv, LastInv, AskedInv, ToldInv
<1>14. QED
  BY <1>1, <1>2, <1>3, <1>4, <1>5, <1>6, <1>7, <1>8, <1>9, <1>10, <1>11, <1>12, <1>13 DEF Next

\* Whatever the send, the stop and the poll find in each other's awaits, a run
\* the phone was told of is never forgotten: it is the chat's still, the phone
\* was told of its end, or a newer run replaced it (bot_chats.py); the runs in
\* disturbed are the exception.  What EveryRunEnds needs besides progress.
THEOREM RunsFollowed == Spec => []Followed
<1>1. Init => FollowInv
  BY DEF Init, NoStop, FollowInv, Followed, ClosedInv, DownInv, LastInv, AskedInv, ToldInv, Settled
<1>2. FollowInv => Followed
  BY DEF FollowInv
<1>3. QED
  BY <1>1, <1>2, StepFollows, Inductive, PTL DEF Spec

-----------------------------------------------------------------------------
(* The log of a room.                                                      *)

\* The parts of RoomTypeOK.
RoomTypes ==
  /\ log \in Seq(BOOLEAN) /\ Len(log) <= MaxEvents /\ roomOpens \in 0..MaxRoomOpens
  /\ handle \in BOOLEAN /\ older \in BOOLEAN /\ capped \in BOOLEAN
  /\ shown \subseteq Messages /\ cursor \in 0..Len(log)
PageRecs(n, M) ==
  [kind : {"none", "open", "older"}, at : 0..n, goal : 0..n, got : SUBSET M, pages : 0..(MaxPages - 1)]
PageType == call \in PageRecs(Len(log), Messages)

\* A set of messages up to m that leaves out none behind its first.
Closed(S, m) ==
  /\ S \subseteq Messages /\ \A g \in S : g <= m
  /\ \A g \in S, i \in Messages : g <= i /\ i <= m => i \in S

\* A page on its way is complete up to where it has got, and a page of older
\* messages ends before the first message shown.
PageInv ==
  /\ call.kind = "open" => ~handle
  /\ call.kind = "older" => handle /\ call.goal \in shown /\ \A i \in shown : call.goal <= i
  /\ call.kind # "none" => Closed(call.got, call.at) /\ call.at < call.goal

\* So is what is shown, up to the cursor.
ShownInv ==
  /\ \A i \in shown : i <= cursor
  /\ handle /\ ~capped => Closed(shown, cursor)

RoomInv == RoomTypes /\ PageType /\ PageInv /\ ShownInv

\* A set of numbers that is not empty has a least.
LEMMA LeastNumber ==
  ASSUME NEW T \in SUBSET Nat, T # {}
  PROVE  \E n \in T : \A m \in T : n <= m
<1>1. PICK n \in T : \A m \in T : <<m, n>> \notin OpToRel(<, Nat)
  BY NatLessThanWellFounded, WFMin
<1>2. \A m \in T : ~(m < n)
  BY <1>1 DEF OpToRel
<1>3. QED
  BY <1>2

\* Min chooses it.
LEMMA MinIsLeast ==
  ASSUME NEW T \in SUBSET Nat, T # {}
  PROVE  Min(T) \in T /\ \A m \in T : Min(T) <= m
BY LeastNumber DEF Min

\* Of a pair of numbers, Min is no greater than either.
LEMMA MinOfTwo ==
  ASSUME NEW a \in Nat, NEW b \in Nat
  PROVE  Min({a, b}) \in Nat /\ Min({a, b}) <= a /\ Min({a, b}) <= b
<1>1. {a, b} \in SUBSET Nat /\ {a, b} # {}
  OBVIOUS
<1>2. QED
  BY <1>1, MinIsLeast

\* A page read after `since` ends behind it and not behind the log.
LEMMA EndsFacts ==
  ASSUME NEW since \in Nat, NEW end \in Ends(since), log \in Seq(BOOLEAN)
  PROVE  end \in Nat /\ since < end /\ end <= Len(log)
<1>1. Len(log) \in Nat /\ since + Limit \in Nat
  BY RoomAssumption
<1>2. Min({since + Limit, Len(log)}) \in Nat /\ Min({since + Limit, Len(log)}) <= Len(log)
  BY <1>1, MinOfTwo
<1>3. QED
  BY <1>1, <1>2 DEF Ends

\* TailStart counts back from the end of the log, but not past its beginning.
LEMMA MaxWithZero ==
  ASSUME NEW n \in Int
  PROVE  Max({0, n}) = IF n > 0 THEN n ELSE 0
<1>1. \A x \in {0, n} : (\A y \in {0, n} : x >= y) <=> x = IF n > 0 THEN n ELSE 0
  OBVIOUS
<1>2. QED
  BY <1>1 DEF Max

\* RoomLog counts as the library does.
LEMMA CountsAlike ==
  ASSUME NEW S
  PROVE  Cardinality(S) = Cardinality(S)
<1>1. IsFiniteSet(S) <=> IsFiniteSet(S)
  BY DEF IsFiniteSet, IsFiniteSet
<1>2. QED
  BY <1>1 DEF Cardinality, Cardinality

\* The last messages of a set leave out none behind their first.
LEMMA LastOfCloses ==
  ASSUME NEW S \in SUBSET Nat, IsFiniteSet(S)
  PROVE  /\ LastOf(S) \subseteq S
         /\ \A g \in LastOf(S), i \in S : g <= i => i \in LastOf(S)
<1>1. LastOf(S) \subseteq S
  BY DEF LastOf
<1>2. ASSUME NEW g \in LastOf(S), NEW i \in S, g <= i
      PROVE  i \in LastOf(S)
  <2> DEFINE above(k) == {j \in S : j > k}
  <2>1. above(g) \in SUBSET S /\ above(i) \in SUBSET above(g)
    <3>1. g \in Nat /\ i \in Nat
      BY <1>1
    <3>2. \A j \in S : j > i => j > g
      BY <1>2, <3>1
    <3>3. QED
      BY <3>2
  <2>2. IsFiniteSet(above(g)) /\ Cardinality(above(i)) <= Cardinality(above(g))
    BY <2>1, FS_Subset
  <2>3. Cardinality(above(i)) \in Nat /\ Cardinality(above(g)) \in Nat
    BY <2>1, <2>2, FS_Subset, FS_CardinalityType
  <2>4. Cardinality(above(g)) < Limit
    BY CountsAlike DEF LastOf
  <2>5. Cardinality(above(i)) < Limit
    BY <2>2, <2>3, <2>4, RoomAssumption
  <2>6. QED
    BY <2>5, CountsAlike DEF LastOf
<1>3. QED
  BY <1>1, <1>2

\* Messages are numbers of events of the log.
LEMMA MessagesAre ==
  ASSUME log \in Seq(BOOLEAN)
  PROVE  /\ Len(log) \in Nat /\ Messages \subseteq 1..Len(log) /\ Messages \subseteq Nat
         /\ \A S \in SUBSET Messages : IsFiniteSet(S)
<1>1. Len(log) \in Nat /\ Messages \subseteq 1..Len(log)
  BY DEF Messages
<1>2. IsFiniteSet(1..Len(log))
  BY <1>1, FS_Interval
<1>3. ASSUME NEW S \in SUBSET Messages PROVE IsFiniteSet(S)
  <2>1. S \in SUBSET (1..Len(log))
    BY <1>1
  <2>2. QED
    BY <1>2, <2>1, FS_Subset
<1>4. QED
  BY <1>1, <1>3

\* The messages of the next page complete a set that was complete before it.
LEMMA PageCloses ==
  ASSUME log \in Seq(BOOLEAN), NEW m \in Nat, NEW end \in Nat, m < end,
         NEW S, Closed(S, m)
  PROVE  Closed(S \cup PageMessages(m, end), end)
<1> DEFINE page == PageMessages(m, end)
<1>1. Messages \subseteq Nat
  BY MessagesAre
<1>2. \A i \in Messages : i \in page <=> m < i /\ i <= end
  BY <1>1 DEF PageMessages
<1>3. page \subseteq Messages
  BY DEF PageMessages
<1> HIDE DEF page
<1>4. Closed(S \cup page, end)
  BY <1>1, <1>2, <1>3 DEF Closed
<1>5. QED
  BY <1>4 DEF page

\* So does the part of the page before the goal.
LEMMA PartCloses ==
  ASSUME log \in Seq(BOOLEAN), NEW m \in Nat, NEW end \in Nat, NEW goal \in Nat, m < end, m < goal,
         NEW S, Closed(S, m)
  PROVE  Closed(S \cup {i \in PageMessages(m, end) : i < goal}, IF end < goal THEN end ELSE goal - 1)
<1> DEFINE part == {i \in PageMessages(m, end) : i < goal}
<1>1. Messages \subseteq Nat
  BY MessagesAre
<1>2. \A i \in Messages : i \in part <=> m < i /\ i <= end /\ i < goal
  BY <1>1 DEF PageMessages
<1>3. part \subseteq Messages
  BY DEF PageMessages
<1> HIDE DEF part
<1>4. Closed(S \cup part, IF end < goal THEN end ELSE goal - 1)
  BY <1>1, <1>2, <1>3 DEF Closed
<1>5. QED
  BY <1>4 DEF part

\* The last messages of a closed set are closed: only the first ones go.
LEMMA LastCloses ==
  ASSUME log \in Seq(BOOLEAN), NEW m \in Nat, NEW S, Closed(S, m)
  PROVE  Closed(LastOf(S), m)
<1>1. S \in SUBSET Nat /\ IsFiniteSet(S)
  BY MessagesAre DEF Closed
<1>2. QED
  BY <1>1, LastOfCloses DEF Closed

\* Events that come behind m make no difference.
LEMMA StaysClosed ==
  ASSUME log \in Seq(BOOLEAN), NEW m \in 0..Len(log), NEW S, Closed(S, m),
         NEW b \in BOOLEAN, log' = Append(log, b)
  PROVE  Closed(S, m)'
<1>1. /\ Len(log') = Len(log) + 1 /\ Len(log) \in Nat
      /\ \A i \in 1..Len(log) : log'[i] = log[i]
  BY AppendProperties
<1>2. \A i \in Nat : i <= Len(log) => (i \in Messages' <=> i \in Messages)
  BY <1>1 DEF Messages
<1>3. Messages \subseteq 1..Len(log) /\ Messages' \subseteq Nat
  BY <1>1 DEF Messages
<1>4. QED
  BY <1>2, <1>3 DEF Closed

\* A call's record.
LEMMA PageTyped ==
  ASSUME NEW k \in {"none", "open", "older"}, NEW n \in Nat, NEW a \in 0..n, NEW g \in 0..n,
         NEW M, NEW S \in SUBSET M, NEW p \in 0..(MaxPages - 1)
  PROVE  [kind |-> k, at |-> a, goal |-> g, got |-> S, pages |-> p] \in PageRecs(n, M)
BY DEF PageRecs

\* No call is one of the calls.
LEMMA NoCallTyped ==
  ASSUME NEW n \in Nat, NEW M
  PROVE  NoCall \in PageRecs(n, M)
<1>1. 0 \in 0..n /\ 0 \in 0..(MaxPages - 1) /\ {} \in SUBSET M
  BY RoomAssumption
<1>2. QED
  BY <1>1, PageTyped DEF NoCall

\* The messages are those of the log.
LEMMA SameMessages == UNCHANGED log => Messages' = Messages
  BY DEF Messages

\* At the start the phone has been shown nothing.
LEMMA RoomInitInv == RoomInit => RoomInv
<1> SUFFICES ASSUME RoomInit PROVE RoomInv
  OBVIOUS
<1> USE RoomAssumption DEF RoomInit
<1>1. RoomTypes /\ PageType
  <2>1. log \in Seq(BOOLEAN) /\ Len(log) = 0
    OBVIOUS
  <2>2. call \in PageRecs(Len(log), Messages)
    BY <2>1, NoCallTyped
  <2>3. QED
    <3>1. handle \in BOOLEAN /\ older \in BOOLEAN /\ capped \in BOOLEAN
      OBVIOUS
    <3>2. cursor \in 0..Len(log) /\ roomOpens \in 0..MaxRoomOpens /\ Len(log) <= MaxEvents
      BY <2>1
    <3>3. shown \subseteq Messages
      OBVIOUS
    <3>4. QED
      BY <2>1, <2>2, <3>1, <3>2, <3>3 DEF RoomTypes, PageType
<1>2. PageInv
  BY DEF PageInv, NoCall
<1>3. ShownInv
  BY DEF ShownInv
<1>4. QED
  BY <1>1, <1>2, <1>3 DEF RoomInv

\* A log that grows leaves what was read of it as it was.
LEMMA EventHappensStep == RoomInv /\ EventHappens => RoomInv'
<1> SUFFICES ASSUME RoomInv, EventHappens PROVE RoomInv'
  OBVIOUS
<1> USE DEF RoomInv
<1>1. /\ log \in Seq(BOOLEAN) /\ Len(log) < MaxEvents
      /\ UNCHANGED <<roomOpens, handle, call, shown, cursor, older, capped>>
  BY DEF EventHappens, RoomTypes, PageType, PageRecs
<1>2. PICK b \in BOOLEAN : log' = Append(log, b)
  BY DEF EventHappens
<1>3. /\ log' \in Seq(BOOLEAN) /\ Len(log') = Len(log) + 1 /\ Len(log) \in Nat
      /\ \A i \in 1..Len(log) : log'[i] = log[i]
  BY <1>1, <1>2, AppendProperties
<1>4. Messages \subseteq Messages'
  BY <1>3 DEF Messages
<1>5. RoomTypes' /\ PageType'
  <2>1. RoomTypes'
    BY <1>1, <1>3, <1>4, RoomAssumption DEF RoomTypes, OlderThan
  <2>2. PageType'
    <3>1. PageRecs(Len(log), Messages) \subseteq PageRecs(Len(log'), Messages')
      BY <1>3, <1>4 DEF PageRecs
    <3>2. QED
      BY <1>1, <3>1 DEF PageType
  <2>3. QED
    BY <2>1, <2>2
<1>6. PageInv'
  <2>1. call.at \in 0..Len(log)
    BY DEF RoomTypes, PageType, PageRecs
  <2>2. Closed(call.got, call.at) => Closed(call.got, call.at)'
    BY <1>1, <1>2, <2>1, StaysClosed
  <2>3. QED
    BY <1>1, <2>2 DEF PageInv
<1>7. ShownInv'
  <2>1. cursor \in 0..Len(log)
    BY DEF RoomTypes, PageType, PageRecs
  <2>2. Closed(shown, cursor) => Closed(shown, cursor)'
    BY <1>1, <1>2, <2>1, StaysClosed
  <2>3. QED
    BY <1>1, <2>2 DEF ShownInv
<1>8. QED
  BY <1>5, <1>6, <1>7

\* An open that finds an empty log is over; another starts to read at the tail.
LEMMA OpenBeginsStep == RoomInv /\ OpenBegins => RoomInv'
<1> SUFFICES ASSUME RoomInv, OpenBegins PROVE RoomInv'
  OBVIOUS
<1> USE DEF RoomInv
<1>1. /\ UNCHANGED log /\ ~handle /\ call = NoCall /\ capped' = FALSE
      /\ roomOpens < MaxRoomOpens /\ roomOpens' = roomOpens + 1
      /\ log \in Seq(BOOLEAN) /\ Len(log) \in Nat
  BY DEF OpenBegins, RoomTypes, PageType, PageRecs
<1>2. CASE log = <<>>
  <2>1. handle' = TRUE /\ shown' = {} /\ cursor' = 0 /\ older' = FALSE /\ call' = call
    BY <1>1, <1>2 DEF OpenBegins
  <2>2. RoomTypes' /\ PageType'
    <3>1. RoomTypes'
      <4>1. handle' \in BOOLEAN /\ older' \in BOOLEAN /\ capped' \in BOOLEAN
        BY <1>1, <2>1
      <4>2. /\ cursor' \in 0..Len(log') /\ roomOpens' \in 0..MaxRoomOpens
            /\ log' \in Seq(BOOLEAN) /\ Len(log') <= MaxEvents
        BY <1>1, <2>1, RoomAssumption DEF RoomTypes
      <4>3. shown' \subseteq Messages'
        BY <2>1
      <4>4. QED
        BY <4>1, <4>2, <4>3 DEF RoomTypes
    <3>2. PageType'
      BY <1>1, <2>1, SameMessages DEF PageType
    <3>3. QED
      BY <3>1, <3>2
  <2>3. QED
    BY <1>1, <2>1, <2>2 DEF PageInv, ShownInv, Closed, NoCall
<1>3. CASE log # <<>>
  <2> DEFINE start == TailStart(Len(log))
  <2>1. start \in Nat /\ start < Len(log)
    <3>1. Len(log) > 0 /\ Len(log) - Limit \in Int /\ Limit > 0
      BY <1>1, <1>3, RoomAssumption
    <3>2. start = IF Len(log) - Limit > 0 THEN Len(log) - Limit ELSE 0
      BY <3>1, MaxWithZero DEF TailStart
    <3>3. QED
      BY <1>1, <3>1, <3>2, RoomAssumption
  <2> HIDE DEF start
  <2>2. /\ UNCHANGED <<handle, shown, cursor, older>>
    BY <1>1, <1>3 DEF OpenBegins
  <2>3. call' = [kind |-> "open", at |-> start, goal |-> Len(log), got |-> {}, pages |-> 0]
    BY <1>1, <1>3 DEF OpenBegins, NoCall, start
  <2>4. RoomTypes' /\ PageType'
    <3>1. 0 \in 0..(MaxPages - 1) /\ Len(log) \in 0..Len(log) /\ start \in 0..Len(log)
      BY <1>1, <2>1, RoomAssumption
    <3>2. call' \in PageRecs(Len(log), Messages)
      BY <1>1, <2>3, <3>1, PageTyped
    <3>3. QED
      <4>1. roomOpens' \in 0..MaxRoomOpens /\ log' \in Seq(BOOLEAN) /\ Len(log') <= MaxEvents
        BY <1>1, RoomAssumption DEF RoomTypes
      <4>2. UNCHANGED <<log, handle, older, shown, cursor>> /\ capped' \in BOOLEAN
        BY <1>1, <2>2
      <4>3. Len(log') = Len(log) /\ Messages' = Messages
        BY <1>1, SameMessages
      <4>4. RoomTypes'
        BY <4>1, <4>2, <4>3 DEF RoomTypes
      <4>5. QED
        BY <1>1, <3>2, <4>4, SameMessages DEF PageType
  <2>5. PageInv'
    <3>1. call'.kind = "open" /\ call'.at = start /\ call'.goal = Len(log) /\ call'.got = {}
      BY <2>3
    <3>2. Closed(call.got, call.at)'
      BY <3>1 DEF Closed
    <3>3. QED
      BY <1>1, <2>1, <2>2, <3>1, <3>2 DEF PageInv
  <2>6. ShownInv'
    BY <1>1, <2>2 DEF ShownInv
  <2>7. QED
    BY <2>4, <2>5, <2>6
<1>4. QED
  BY <1>2, <1>3

\* A page read by an open, whether more of the log follows or not.
LEMMA OpenReadsStep == RoomInv /\ OpenReads => RoomInv'
<1> SUFFICES ASSUME RoomInv, OpenReads PROVE RoomInv'
  OBVIOUS
<1> USE DEF RoomInv
<1>1. /\ call.kind = "open" /\ UNCHANGED <<log, roomOpens, capped>>
      /\ log \in Seq(BOOLEAN) /\ Len(log) \in Nat /\ call.at \in Nat
      /\ ~handle /\ Closed(call.got, call.at)
  BY DEF OpenReads, RoomTypes, PageType, PageRecs, PageInv
<1>2. PICK end \in Ends(call.at) :
        LET got == LastOf(call.got \cup PageMessages(call.at, end))
            next == PageCursor(call.at, end)
        IN  IF end < Len(log) /\ next < call.goal
            THEN /\ call' = [call EXCEPT !.at = next, !.got = got]
                 /\ UNCHANGED <<handle, shown, cursor, older>>
            ELSE /\ call' = NoCall /\ handle' = TRUE
                 /\ shown' = got /\ cursor' = next /\ older' = OlderThan(got)
  BY DEF OpenReads
<1> DEFINE got == LastOf(call.got \cup PageMessages(call.at, end))
<1>3. end \in Nat /\ call.at < end /\ end <= Len(log)
  BY <1>1, EndsFacts
<1>4. Closed(got, end)
  BY <1>1, <1>3, PageCloses, LastCloses
<1> HIDE DEF got
<1>5. got \subseteq Messages /\ \A i \in got : i <= end
  BY <1>4 DEF Closed
<1>6. ASSUME NEW S, NEW m, Closed(S, m), shown' = S, cursor' = m
      PROVE  Closed(shown, cursor)'
  BY <1>1, <1>6, SameMessages DEF Closed
<1>7. CASE end < Len(log) /\ end < call.goal
  <2>1. /\ call' = [call EXCEPT !.at = end, !.got = got]
        /\ UNCHANGED <<handle, shown, cursor, older>>
    BY <1>2, <1>7 DEF PageCursor, got
  <2>2. /\ call'.kind = "open" /\ call'.at = end /\ call'.got = got /\ call'.goal = call.goal
        /\ call' \in PageRecs(Len(log), Messages)
    <3>1. call \in PageRecs(Len(log), Messages) /\ end \in 0..Len(log)
      BY <1>1, <1>3 DEF PageType
    <3>2. QED
      BY <1>1, <1>5, <2>1, <3>1 DEF PageRecs
  <2>3. RoomTypes' /\ PageType'
    <3>1. RoomTypes'
      BY <1>1, <2>1, <2>2, SameMessages, RoomAssumption DEF RoomTypes, OlderThan
    <3>2. PageType'
      BY <1>1, <2>1, <2>2, SameMessages DEF PageType
    <3>3. QED
      BY <3>1, <3>2
  <2>4. PageInv'
    BY <1>1, <1>4, <1>7, <2>1, <2>2, SameMessages DEF PageInv, Closed
  <2>5. ShownInv'
    BY <1>1, <2>1, SameMessages DEF ShownInv, Closed
  <2>6. QED
    BY <2>3, <2>4, <2>5
<1>8. CASE ~(end < Len(log) /\ end < call.goal)
  <2>1. /\ call' = NoCall /\ handle' = TRUE
        /\ shown' = got /\ cursor' = end /\ older' = OlderThan(got)
    BY <1>2, <1>8 DEF PageCursor, got
  <2>2. RoomTypes' /\ PageType'
    <3>1. RoomTypes'
      BY <1>1, <1>3, <1>5, <2>1, NoCallTyped, SameMessages, RoomAssumption DEF RoomTypes, OlderThan
    <3>2. PageType'
      BY <1>1, <1>3, <1>5, <2>1, NoCallTyped, SameMessages DEF PageType
    <3>3. QED
      BY <3>1, <3>2
  <2>3. PageInv'
    BY <2>1 DEF PageInv, NoCall
  <2>4. ShownInv'
    BY <1>4, <1>5, <1>6, <2>1 DEF ShownInv
  <2>5. QED
    BY <2>2, <2>3, <2>4
<1>9. QED
  BY <1>7, <1>8

\* Catching up continues behind the cursor.
LEMMA CatchUpStep == RoomInv /\ CatchUp => RoomInv'
<1> SUFFICES ASSUME RoomInv, CatchUp PROVE RoomInv'
  OBVIOUS
<1> USE DEF RoomInv
<1>1. /\ handle /\ UNCHANGED <<log, roomOpens, handle, call, older, capped>>
      /\ log \in Seq(BOOLEAN) /\ Len(log) \in Nat /\ cursor \in Nat
  BY DEF CatchUp, RoomTypes, PageType, PageRecs
<1>2. PICK end \in Ends(cursor) :
        shown' = shown \cup PageMessages(cursor, end) /\ cursor' = end
  BY DEF CatchUp, PageCursor
<1>3. end \in Nat /\ cursor < end /\ end <= Len(log)
  BY <1>1, EndsFacts
<1>4. /\ Messages \subseteq Nat /\ PageMessages(cursor, end) \subseteq Messages
      /\ \A i \in PageMessages(cursor, end) : cursor < i /\ i <= end
      /\ shown \subseteq Messages /\ \A i \in shown : i <= cursor
  BY <1>1, <1>3, MessagesAre DEF PageMessages, RoomTypes, PageType, PageRecs, ShownInv
<1>5. RoomTypes' /\ PageType'
  <2>1. RoomTypes'
    <3>1. shown' \subseteq Messages' /\ cursor' \in 0..Len(log')
      <4>1. cursor' \in 0..Len(log')
        BY <1>1, <1>2, <1>3
      <4>2. shown' \subseteq Messages
        BY <1>2, <1>4
      <4>3. QED
        BY <1>1, <4>1, <4>2, SameMessages
    <3>2. QED
      BY <1>1, <3>1 DEF RoomTypes
  <2>2. PageType'
    BY <1>1, <1>2, <1>3, <1>4, SameMessages DEF PageType
  <2>3. QED
    BY <2>1, <2>2
<1>6. PageInv'
  <2>1. call.kind = "older" => call.goal \in shown' /\ \A i \in shown' : call.goal <= i
    <3>1. call.goal \in Nat
      BY <1>1 DEF RoomTypes, PageType, PageRecs
    <3>2. QED
      BY <1>1, <1>2, <1>3, <1>4, <3>1 DEF PageInv
  <2>2. QED
    BY <1>1, <2>1, SameMessages DEF PageInv, Closed
<1>7. ShownInv'
  <2>1. \A i \in shown' : i <= cursor'
    BY <1>1, <1>2, <1>3, <1>4
  <2>2. ~capped => Closed(shown', cursor')
    BY <1>1, <1>2, <1>3, PageCloses DEF ShownInv
  <2>3. Closed(shown', cursor') => Closed(shown, cursor)'
    BY <1>1 DEF Closed, Messages
  <2>4. QED
    BY <1>1, <2>1, <2>2, <2>3 DEF ShownInv
<1>8. QED
  BY <1>5, <1>6, <1>7

\* Older messages are asked for in front of the first one shown.
LEMMA OlderBeginsStep == RoomInv /\ OlderBegins => RoomInv'
<1> SUFFICES ASSUME RoomInv, OlderBegins PROVE RoomInv'
  OBVIOUS
<1> USE DEF RoomInv
<1> DEFINE goal == Min(shown)
           start == Max({0, goal - 1 - Limit})
<1>1. /\ handle /\ shown # {} /\ UNCHANGED <<log, roomOpens, handle, shown, cursor, older, capped>>
      /\ log \in Seq(BOOLEAN) /\ Len(log) \in Nat /\ shown \subseteq Messages
  BY DEF OlderBegins, RoomTypes, PageType, PageRecs
<1>2. goal \in shown /\ \A i \in shown : goal <= i
  BY <1>1, MessagesAre, MinIsLeast
<1>3. goal \in 1..Len(log)
  BY <1>1, <1>2, MessagesAre
<1>4. start \in Nat /\ start < goal
  <2>1. goal - 1 - Limit \in Int
    BY <1>3, RoomAssumption
  <2>2. start = IF goal - 1 - Limit > 0 THEN goal - 1 - Limit ELSE 0
    BY <2>1, MaxWithZero
  <2>3. QED
    BY <1>3, <2>2, RoomAssumption
<1> HIDE DEF goal, start
<1>5. call' = [kind |-> "older", at |-> start, goal |-> goal, got |-> {}, pages |-> 0]
  BY DEF OlderBegins, NoCall, goal, start
<1>6. RoomTypes' /\ PageType'
  <2>1. 0 \in 0..(MaxPages - 1) /\ goal \in 0..Len(log) /\ start \in 0..Len(log)
    BY <1>1, <1>3, <1>4, RoomAssumption
  <2>2. call' \in PageRecs(Len(log), Messages)
    BY <1>1, <1>5, <2>1, PageTyped
  <2>3. QED
    BY <1>1, <2>2, SameMessages DEF RoomTypes, PageType
<1>7. PageInv'
  <2>1. /\ call'.kind = "older" /\ call'.at = start /\ call'.goal = goal /\ call'.got = {}
        /\ handle' /\ shown' = shown
    BY <1>1, <1>5
  <2>2. Closed(call.got, call.at)'
    BY <2>1 DEF Closed
  <2>3. QED
    BY <1>2, <1>4, <2>1, <2>2 DEF PageInv
<1>8. ShownInv'
  BY <1>1, SameMessages DEF ShownInv, Closed
<1>9. QED
  BY <1>6, <1>7, <1>8

\* A page of older messages joins what is shown when the call is done, and
\* unless the call is cut short the two leave no gap between them.
LEMMA OlderReadsStep == RoomInv /\ OlderReads => RoomInv'
<1> SUFFICES ASSUME RoomInv, OlderReads PROVE RoomInv'
  OBVIOUS
<1> USE DEF RoomInv
<1>1. /\ call.kind = "older" /\ UNCHANGED <<log, roomOpens, handle, cursor>>
      /\ log \in Seq(BOOLEAN) /\ Len(log) \in Nat
      /\ call.at \in Nat /\ call.goal \in Nat /\ call.at < call.goal
      /\ handle /\ Closed(call.got, call.at) /\ call.goal \in shown /\ \A i \in shown : call.goal <= i
      /\ shown \subseteq Messages /\ Messages \subseteq Nat /\ cursor \in 0..Len(log)
      /\ capped \in BOOLEAN /\ call.pages \in 0..(MaxPages - 1)
  BY MessagesAre DEF OlderReads, RoomTypes, PageType, PageRecs, PageInv
<1>2. PICK end \in Ends(call.at) :
        LET got == call.got \cup {i \in PageMessages(call.at, end) : i < call.goal} IN
        IF OlderDone(end, call)
        THEN /\ call' = NoCall
             /\ shown' = shown \cup LastOf(got) /\ older' = OlderThan(LastOf(got))
             /\ capped' = (capped \/ (call.pages + 1 = MaxPages /\ end < call.goal - 1))
        ELSE /\ call' = [call EXCEPT !.at = end, !.got = got, !.pages = @ + 1]
             /\ UNCHANGED <<shown, older, capped>>
  BY DEF OlderReads
<1> DEFINE got == call.got \cup {i \in PageMessages(call.at, end) : i < call.goal}
           upto == IF end < call.goal THEN end ELSE call.goal - 1
<1>3. end \in Nat /\ call.at < end /\ end <= Len(log) /\ upto \in Nat /\ upto < call.goal
  BY <1>1, EndsFacts
<1>4. Closed(got, upto)
  BY <1>1, <1>3, PartCloses
<1>5. CASE ~OlderDone(end, call)
  <2> HIDE DEF got
  <2>1. /\ call' = [call EXCEPT !.at = end, !.got = got, !.pages = @ + 1]
        /\ UNCHANGED <<shown, older, capped>>
    BY <1>2, <1>5 DEF got
  <2>2. end < call.goal - 1 /\ call.pages + 1 # MaxPages
    BY <1>1, <1>3, <1>5 DEF OlderDone
  <2>3. got \subseteq Messages
    BY <1>4 DEF Closed
  <2>4. call.pages + 1 \in 0..(MaxPages - 1) /\ end \in 0..Len(log)
    BY <1>1, <1>3, <2>2, RoomAssumption
  <2>5. /\ call'.kind = "older" /\ call'.at = end /\ call'.got = got /\ call'.goal = call.goal
        /\ call' \in PageRecs(Len(log), Messages)
    BY <1>1, <2>1, <2>3, <2>4 DEF RoomTypes, PageType, PageRecs
  <2>6. RoomTypes' /\ PageType'
    <3>1. RoomTypes'
      BY <1>1, <2>1, <2>5, SameMessages, RoomAssumption DEF RoomTypes, OlderThan
    <3>2. PageType'
      BY <1>1, <2>1, <2>5, SameMessages DEF PageType
    <3>3. QED
      BY <3>1, <3>2
  <2>7. upto = end /\ end < call.goal
    BY <1>1, <1>3, <2>2
  <2> HIDE DEF upto
  <2>8. Closed(call.got, call.at)'
    BY <1>1, <1>4, <2>5, <2>7, SameMessages DEF Closed
  <2>9. PageInv'
    BY <1>1, <2>1, <2>5, <2>7, <2>8 DEF PageInv
  <2>10. ShownInv'
    BY <1>1, <2>1, SameMessages DEF ShownInv, Closed
  <2>11. QED
    BY <2>6, <2>9, <2>10
<1>6. CASE OlderDone(end, call)
  <2> DEFINE found == LastOf(got)
  <2>1. /\ call' = NoCall
        /\ shown' = shown \cup found /\ older' = OlderThan(found)
        /\ capped' = (capped \/ (call.pages + 1 = MaxPages /\ end < call.goal - 1))
    BY <1>2, <1>6
  <2>2. Closed(found, upto)
    BY <1>3, <1>1, <1>4, LastCloses
  <2> HIDE DEF found, got
  <2>3. found \subseteq Messages /\ \A i \in found : i <= upto
    BY <2>2 DEF Closed
  <2>4. RoomTypes' /\ PageType'
    <3>1. RoomTypes'
      BY <1>1, <2>1, <2>3, NoCallTyped, SameMessages, RoomAssumption DEF RoomTypes, OlderThan
    <3>2. PageType'
      BY <1>1, <2>1, <2>3, NoCallTyped, SameMessages DEF PageType
    <3>3. QED
      BY <3>1, <3>2
  <2>5. PageInv'
    BY <2>1 DEF PageInv, NoCall
  <2>6. call.goal <= cursor /\ \A i \in shown' : i <= cursor
    <3>1. call.goal <= cursor
      BY <1>1 DEF ShownInv
    <3>2. \A i \in found : i \in Nat /\ i <= cursor
      BY <1>1, <1>3, <2>3, <3>1
    <3>3. QED
      BY <2>1, <3>1, <3>2 DEF ShownInv
  <2>7. ASSUME ~capped' PROVE Closed(shown', cursor)
    <3>1. ~capped /\ upto = call.goal - 1
      <4>1. ~capped /\ ~(call.pages + 1 = MaxPages /\ end < call.goal - 1)
        BY <1>1, <2>1, <2>7
      <4>2. call.goal <= Len(log)
        BY <1>1, <2>6
      <4>3. end >= call.goal - 1
        BY <1>1, <1>3, <1>6, <4>1, <4>2 DEF OlderDone
      <4>4. QED
        BY <1>1, <1>3, <4>1, <4>3
    <3>2. Closed(shown, cursor)
      BY <1>1, <3>1 DEF ShownInv
    <3> HIDE DEF upto
    <3>3. ASSUME NEW g \in shown', NEW i \in Messages, g <= i, i <= cursor PROVE i \in shown'
      <4>1. CASE i < call.goal
        <5>1. g \in found
          BY <1>1, <2>1, <3>3, <4>1
        <5>2. i <= upto
          BY <1>1, <3>1, <4>1
        <5>3. QED
          BY <2>1, <2>2, <3>3, <5>1, <5>2 DEF Closed
      <4>2. CASE call.goal <= i
        BY <1>1, <2>1, <3>2, <3>3, <4>2 DEF Closed
      <4>3. QED
        BY <1>1, <4>1, <4>2
    <3>4. QED
      BY <1>1, <2>1, <2>3, <2>6, <3>3 DEF Closed
  <2>8. ShownInv'
    <3>1. Closed(shown', cursor) => Closed(shown, cursor)'
      BY <1>1 DEF Closed, Messages
    <3>2. QED
      BY <1>1, <2>6, <2>7, <3>1 DEF ShownInv
  <2>9. QED
    BY <2>4, <2>5, <2>8
<1>7. QED
  BY <1>5, <1>6

\* A closed room shows nothing.
LEMMA CloseStep == RoomInv /\ Close => RoomInv'
<1> SUFFICES ASSUME RoomInv, Close PROVE RoomInv'
  OBVIOUS
<1>1. /\ UNCHANGED <<log, roomOpens, capped>> /\ handle' = FALSE /\ call' = NoCall
      /\ shown' = {} /\ cursor' = 0 /\ older' = FALSE
      /\ log \in Seq(BOOLEAN) /\ Len(log) \in Nat
  BY DEF Close, RoomInv, RoomTypes, PageType, PageRecs
<1>2. RoomTypes' /\ PageType'
  <2>1. RoomTypes'
    <3>1. handle' \in BOOLEAN /\ older' \in BOOLEAN /\ capped' \in BOOLEAN
      BY <1>1 DEF RoomInv, RoomTypes
    <3>2. /\ cursor' \in 0..Len(log') /\ roomOpens' \in 0..MaxRoomOpens
          /\ log' \in Seq(BOOLEAN) /\ Len(log') <= MaxEvents
      BY <1>1 DEF RoomInv, RoomTypes
    <3>3. shown' \subseteq Messages'
      BY <1>1
    <3>4. QED
      BY <3>1, <3>2, <3>3 DEF RoomTypes
  <2>2. PageType'
    BY <1>1, NoCallTyped, SameMessages DEF PageType
  <2>3. QED
    BY <2>1, <2>2
<1>3. QED
  BY <1>1, <1>2 DEF RoomInv, PageInv, ShownInv, NoCall

\* Every step preserves the invariant.
LEMMA RoomStepInv == RoomInv /\ [RoomNext]_roomVars => RoomInv'
<1> SUFFICES ASSUME RoomInv, [RoomNext]_roomVars PROVE RoomInv'
  OBVIOUS
<1>1. CASE UNCHANGED roomVars
  BY <1>1 DEF roomVars, RoomInv, RoomTypes, PageType, PageRecs, PageInv, ShownInv, Closed, Messages
<1>2. QED
  BY <1>1, EventHappensStep, OpenBeginsStep, OpenReadsStep, CatchUpStep, OlderBeginsStep,
     OlderReadsStep, CloseStep DEF RoomNext

\* What is shown is complete from its first message to the cursor, and so is
\* each page on its way (the loops of open_room and read_log).
THEOREM RoomInductive == RoomSpec => []RoomInv
<1>1. RoomInit => RoomInv
  BY RoomInitInv
<1>2. RoomInv /\ [RoomNext]_roomVars => RoomInv'
  BY RoomStepInv
<1>3. QED
  BY <1>1, <1>2, PTL DEF RoomSpec

\* Every variable of RoomLog keeps its type, and a call in progress has read fewer
\* than MaxPages pages.
THEOREM RoomTypeCorrect == RoomSpec => []RoomTypeOK
<1>1. RoomInv => RoomTypeOK
  BY DEF RoomInv, RoomTypes, PageType, PageRecs, RoomTypeOK
<1>2. QED
  BY <1>1, RoomInductive, PTL

\* The phone is never shown a log with a message missing in its midst, unless a
\* call stopped at its bound of pages.
THEOREM WithoutHoles == RoomSpec => []NoHole
<1>1. RoomInv => NoHole
  <2> SUFFICES ASSUME RoomInv, handle, ~capped
               PROVE  /\ \A i \in shown : i <= cursor
                      /\ shown # {} => \A i \in Messages :
                           Min(shown) <= i /\ i <= cursor => i \in shown
    BY DEF NoHole
  <2>1. Closed(shown, cursor) /\ \A i \in shown : i <= cursor
    BY DEF RoomInv, ShownInv
  <2>2. shown \subseteq Nat
    BY MessagesAre DEF RoomInv, RoomTypes
  <2>3. shown # {} => Min(shown) \in shown
    BY <2>2, MinIsLeast
  <2>4. QED
    BY <2>1, <2>3 DEF Closed
<1>2. QED
  BY <1>1, RoomInductive, PTL
=============================================================================
