------------------------------- MODULE BotChat -------------------------------
(***************************************************************************)
(* One open bot chat (bot_chats.py): the poll loop that watches the core   *)
(* session and turns it into run events, and the phone's open, send, stop  *)
(* and close.  The core session can also be prompted from the Desktop.     *)
(*                                                                         *)
(* _local_rpc holds one lock from request to response, and what a caller   *)
(* does with the response up to its next await follows it at once: such a  *)
(* request is one step here.  What is left of the concurrency are the      *)
(* awaits of _send_run_event and the gap between stop's two requests.      *)
(* The core refuses a prompt while a turn is running.                      *)
(***************************************************************************)
EXTENDS Integers

CONSTANTS
  MaxTurns,   \* bound: turns of the core session
  MaxWords,   \* bound: growths of the answer's text in one turn
  MaxRuns,    \* bound: run ids minted
  MaxStops,   \* bound: stop calls
  MaxOpens    \* bound: opens of the chat

ASSUME ChatAssumption ==
  /\ MaxTurns \in Nat /\ MaxWords \in Nat /\ MaxRuns \in Nat
  /\ MaxStops \in Nat /\ MaxOpens \in Nat

VARIABLES
  turn, running, dying, words, \* core: turn, in flight, interrupted, its text
  open, opens,                 \* the chat's token is in _bot_chats
  run,        \* chat["run_id"], 0 for None
  was,        \* chat["was_running"]
  last,       \* chat["last_text"]
  suppress,   \* chat["suppress_running_until_idle"]
  runs,       \* run ids minted
  poll,       \* poll_loop: "off", "ready", in the send of a "delta" or "done"
  held,       \* the text poll_loop holds while it awaits
  stop,       \* the stop call: where it is, and what it read
  stops

\* Observations, read by no action's guard.
VARIABLES
  given,      \* runs the phone has been told of since it opened the chat
  ended,      \* runs for which a done event was sent, or dropped with the socket
  interrupted,\* turns a stop of this opening of the chat interrupted, and heard so
  ghosts,     \* runs minted by the poll for an interrupted turn
  disturbed   \* runs on which one handler started during another's await

core == <<turn, running, dying, words>>
chat == <<run, was, last, suppress>>
history == <<given, ended, interrupted, ghosts, disturbed>>
vars == <<core, open, opens, chat, runs, poll, held, stop, stops, history>>

NoStop == [at |-> "idle", run |-> 0, active |-> FALSE, interrupts |-> FALSE,
           gone |-> FALSE, was |-> FALSE]

Init ==
  /\ turn = 0 /\ running = FALSE /\ dying = FALSE /\ words = 0
  /\ open = FALSE /\ opens = 0
  /\ run = 0 /\ was = FALSE /\ last = 0 /\ suppress = FALSE /\ runs = 0
  /\ poll = "off" /\ held = 0 /\ stop = NoStop /\ stops = 0
  /\ given = {} /\ ended = {} /\ interrupted = {} /\ ghosts = {}
  /\ disturbed = {}

\* A handler starts while another awaits: the runs it finds and leaves.
PollAwaits == poll \in {"delta", "done"}
StopAwaits == stop.at # "idle"
Disturbs(awaits) == disturbed' = IF awaits THEN disturbed \cup ({run, run'} \ {0})
                                ELSE disturbed

-----------------------------------------------------------------------------
(* The core session.                                                       *)

CoreWrites ==
  /\ running /\ words < MaxWords
  /\ words' = words + 1
  /\ UNCHANGED <<turn, running, dying, open, opens, chat, runs, poll, held, stop, stops, history>>

CoreEndsTurn ==
  /\ running
  /\ running' = FALSE /\ dying' = FALSE
  /\ UNCHANGED <<turn, words, open, opens, chat, runs, poll, held, stop, stops, history>>

Prompted ==
  /\ ~running /\ turn < MaxTurns
  /\ turn' = turn + 1 /\ running' = TRUE /\ dying' = FALSE /\ words' = 0

DesktopPrompts ==
  /\ Prompted
  /\ UNCHANGED <<open, opens, chat, runs, poll, held, stop, stops, history>>

-----------------------------------------------------------------------------
(* open_chat, close_chat and the idle expiry.                              *)

\* Resume and adopt_inflight_run: a turn in flight becomes a run.
Open ==
  /\ ~open /\ opens < MaxOpens /\ opens' = opens + 1
  /\ open' = TRUE
  /\ IF running THEN runs < MaxRuns /\ runs' = runs + 1 /\ run' = runs' /\ last' = words
                ELSE runs' = runs /\ run' = 0 /\ last' = 0
  /\ was' = running /\ suppress' = FALSE
  /\ given' = given \cup ({run'} \ {0})
  /\ poll' = "ready" /\ held' = 0
  /\ interrupted' = {}
  /\ UNCHANGED <<core, stop, stops, ended, ghosts, disturbed>>

\* A stop call in flight goes on with the record of the chat as it was.
Outlives(s) ==
  IF StopAwaits /\ ~s.gone THEN [s EXCEPT !.gone = TRUE, !.was = was] ELSE s

\* Mutant: the token is forgotten and the poll not cancelled.
Expire_KeepsPoll ==
  /\ open /\ open' = FALSE
  /\ UNCHANGED <<poll, held>>
  /\ run' = 0 /\ was' = FALSE /\ last' = 0 /\ suppress' = FALSE
  /\ stop' = Outlives(stop)
  /\ given' = {}
  /\ UNCHANGED <<core, opens, runs, stops, ended, interrupted, ghosts, disturbed>>

\* expire_chat: the token is gone and the poll cancelled at its await; a
\* stop call in flight goes on with a record nobody reads.
Expire ==
  /\ open /\ open' = FALSE
  /\ poll' = "off" /\ held' = 0
  /\ run' = 0 /\ was' = FALSE /\ last' = 0 /\ suppress' = FALSE
  /\ stop' = Outlives(stop)
  /\ given' = {}
  /\ UNCHANGED <<core, opens, runs, stops, ended, interrupted, ghosts, disturbed>>

-----------------------------------------------------------------------------
(* send_message.                                                           *)

\* prompt.submit succeeds, and the run is the chat's.
Send ==
  /\ open /\ Prompted
  /\ runs < MaxRuns /\ runs' = runs + 1
  /\ run' = runs' /\ was' = TRUE /\ last' = 0 /\ suppress' = FALSE
  /\ given' = given \cup {run'}
  /\ Disturbs(PollAwaits \/ StopAwaits)
  /\ UNCHANGED <<open, opens, poll, held, stop, stops, ended, interrupted, ghosts>>

-----------------------------------------------------------------------------
(* poll_loop.                                                              *)

\* After a stop, a session still running is not looked at.
Suppressed == suppress /\ running

\* Mutant: an unfinished turn is reported without marking it as running.
PollSeesRunning_NotMarked ==
  /\ poll = "ready" /\ running /\ ~Suppressed
  /\ suppress' = FALSE
  /\ IF run = 0 THEN runs < MaxRuns /\ runs' = runs + 1 /\ run' = runs'
                ELSE UNCHANGED <<runs, run>>
  /\ ghosts' = IF run = 0 /\ turn \in interrupted THEN ghosts \cup {run'} ELSE ghosts
  /\ last' = words /\ poll' = "ready" /\ UNCHANGED was
  /\ given' = IF words # last THEN given \cup {run'} ELSE given
  /\ Disturbs(StopAwaits)
  /\ UNCHANGED <<core, open, opens, held, stop, stops, ended, interrupted>>

\* A running turn gets a run unless the chat has one, and its new text is
\* sent; was_running is set after the send.
PollSeesRunning ==
  /\ poll = "ready" /\ running /\ ~Suppressed
  /\ suppress' = FALSE
  /\ IF run = 0 THEN runs < MaxRuns /\ runs' = runs + 1 /\ run' = runs'
                ELSE UNCHANGED <<runs, run>>
  /\ ghosts' = IF run = 0 /\ turn \in interrupted THEN ghosts \cup {run'} ELSE ghosts
  /\ IF words # last
     THEN /\ last' = words /\ poll' = "delta" /\ given' = given \cup {run'}
          /\ UNCHANGED was
     ELSE was' = TRUE /\ UNCHANGED <<last, poll, given>>
  /\ Disturbs(StopAwaits)
  /\ UNCHANGED <<core, open, opens, held, stop, stops, ended, interrupted>>

DeltaSent ==
  /\ poll = "delta"
  /\ poll' = "ready" /\ was' = TRUE
  /\ UNCHANGED <<core, open, opens, run, last, suppress, runs, held, stop, stops, history>>

\* An idle session ends the run that was running.  The event goes out, or
\* is dropped with the socket; both count as told.
PollSeesIdle ==
  /\ poll = "ready" /\ ~running
  /\ suppress' = FALSE
  /\ IF run # 0 /\ was
     THEN poll' = "done" /\ held' = words /\ ended' = ended \cup {run}
     ELSE UNCHANGED <<poll, held, ended>>
  /\ UNCHANGED <<run, was, last>>
  /\ Disturbs(StopAwaits)
  /\ UNCHANGED <<core, open, opens, runs, stop, stops, given, interrupted, ghosts>>

DoneSent ==
  /\ poll = "done"
  /\ poll' = "ready" /\ held' = 0
  /\ was' = FALSE /\ last' = held
  /\ UNCHANGED <<core, open, opens, run, suppress, runs, stop, stops, history>>

-----------------------------------------------------------------------------
(* stop_chat.                                                              *)

\* Mutant: a successful interrupt does not suppress the dying turn.
Forgets_NoSuppress(s) ==
  /\ was' = FALSE /\ run' = 0
  /\ last' = IF s.active THEN 0 ELSE last
  /\ suppress' = IF s.active THEN FALSE ELSE suppress

\* The end of the call: the chat has no run any more, and a turn that was
\* interrupted is ignored until it is over.
Forgets(s) ==
  /\ was' = FALSE /\ run' = 0
  /\ last' = IF s.active THEN 0 ELSE last
  /\ suppress' = IF s.active THEN s.interrupts ELSE suppress

\* The call tells the phone of the end of the run, or has no one to tell.
Tells(s, tells) ==
  IF tells
  THEN /\ ended' = ended \cup {s.run}
       /\ stop' = [s EXCEPT !.at = "telling"]
       /\ UNCHANGED chat
  ELSE /\ stop' = NoStop
       /\ IF s.gone THEN UNCHANGED chat ELSE Forgets(s)
       /\ UNCHANGED ended

StopFindsIdle ==
  /\ open /\ stop = NoStop /\ stops < MaxStops /\ stops' = stops + 1
  /\ ~running
  /\ Tells([NoStop EXCEPT !.run = run], run # 0 /\ was)
  /\ Disturbs(PollAwaits)
  /\ UNCHANGED <<core, open, opens, runs, poll, held, given, interrupted, ghosts>>

\* The session is found running, or its handle is stale and, resolved again,
\* is taken to be.
StopFindsRunning ==
  /\ open /\ stop = NoStop /\ stops < MaxStops /\ stops' = stops + 1
  /\ stop' = [NoStop EXCEPT !.at = "asking", !.run = run, !.active = TRUE]
  /\ UNCHANGED chat /\ Disturbs(PollAwaits)
  /\ UNCHANGED <<core, open, opens, runs, poll, held, given, ended, interrupted, ghosts>>

\* session.interrupt: it interrupts the turn in flight, whichever it is.
StopInterrupts ==
  /\ stop.at = "asking"
  /\ dying' = running
  /\ interrupted' = IF running /\ ~stop.gone THEN interrupted \cup {turn} ELSE interrupted
  /\ Tells([stop EXCEPT !.interrupts = running],
           stop.run # 0 /\ (running \/ IF stop.gone THEN stop.was ELSE was))
  /\ Disturbs(PollAwaits)
  /\ UNCHANGED <<turn, running, words, open, opens, runs, poll, held, stops, given, ghosts>>

\* session.interrupt fails, or its answer is lost after the core acted: the
\* call ends with an error and leaves the record of the chat as it is.
StopFails ==
  /\ stop.at = "asking"
  /\ dying' \in {dying, running}
  /\ stop' = NoStop /\ UNCHANGED chat /\ Disturbs(PollAwaits)
  /\ UNCHANGED <<turn, running, words, open, opens, runs, poll, held, stops, given,
                 ended, interrupted, ghosts>>

StopEnds ==
  /\ stop.at = "telling"
  /\ stop' = NoStop
  /\ IF stop.gone THEN UNCHANGED chat ELSE Forgets(stop)
  /\ UNCHANGED <<core, open, opens, runs, poll, held, stops, history>>

Next ==
  \/ CoreWrites \/ CoreEndsTurn \/ DesktopPrompts
  \/ Open \/ Expire \/ Send
  \/ PollSeesRunning \/ DeltaSent \/ PollSeesIdle \/ DoneSent
  \/ StopFindsIdle \/ StopFindsRunning \/ StopInterrupts \/ StopFails
  \/ StopEnds

Spec == Init /\ [][Next]_vars

\* Turns end; the poll loop keeps asking and its sends return.
Fairness ==
  /\ WF_vars(CoreEndsTurn)
  /\ SF_vars(PollSeesRunning) /\ SF_vars(PollSeesIdle)
  /\ WF_vars(DeltaSent) /\ WF_vars(DoneSent)
  /\ WF_vars(StopInterrupts \/ StopFails) /\ WF_vars(StopEnds)

FairSpec == Spec /\ Fairness

-----------------------------------------------------------------------------
(* Properties.                                                             *)

\* Every variable has its type; a chat that is not open has no poll.
TypeOK ==
  /\ turn \in 0..MaxTurns /\ running \in BOOLEAN /\ dying \in BOOLEAN /\ words \in 0..MaxWords
  /\ dying => running
  /\ open \in BOOLEAN /\ opens \in 0..MaxOpens
  /\ run \in 0..runs /\ was \in BOOLEAN /\ last \in 0..MaxWords /\ suppress \in BOOLEAN
  /\ runs \in 0..MaxRuns
  /\ poll \in {"off", "ready", "delta", "done"} /\ (poll = "off" <=> ~open)
  /\ held \in 0..MaxWords
  /\ stop \in [at : {"idle", "asking", "telling"}, run : 0..MaxRuns, active : BOOLEAN,
               interrupts : BOOLEAN, gone : BOOLEAN, was : BOOLEAN]
  /\ stops \in 0..MaxStops
  /\ given \subseteq 1..runs /\ ended \subseteq 1..runs
  /\ interrupted \subseteq 1..turn /\ ghosts \subseteq 1..runs /\ disturbed \subseteq 1..runs

\* The poll never brings a turn back as a run of its own that a stop has
\* interrupted, however long the core takes to stop and wherever the poll
\* was.  Two turns are not spoken of: a chat closed and opened again adopts a
\* turn that is still dying, and of a turn whose interruption was not
\* answered the chat does not know that it was interrupted.
NoGhostRun == ghosts = {}

\* The phone is told of the end of every run it knows, unless a newer run
\* has replaced it, the chat was closed, or a send, a stop and the poll met
\* in one of their awaits.
EveryRunEnds ==
  \A r \in 1..MaxRuns :
    r \in given ~> \/ r \in ended \cup disturbed
                   \/ \E n \in given : n > r
                   \/ r \notin given
=============================================================================
