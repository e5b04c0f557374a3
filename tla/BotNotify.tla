------------------------------ MODULE BotNotify ------------------------------
(***************************************************************************)
(* The opt-in observer of bot completions (bot_notify.py): a preference    *)
(* file, the RPCs that set the preference, and one observer task that      *)
(* looks at the recent turns of the bot and alerts the phone of new ones.  *)
(*                                                                         *)
(* The turns the bot completes are numbered 1, 2, ... in the order of      *)
(* their completion time.  A snapshot is the last Hist turns, or nothing   *)
(* when the chat is missing or the REST read fails; the request reads it   *)
(* at some moment while the caller waits.                                  *)
(***************************************************************************)
EXTENDS Integers, Sequences, SequencesExt, FiniteSetsExt

CONSTANTS
  Calls,       \* preference RPCs that may run at the same time
  Hist,        \* _ACTIVITY_HISTORY_LIMIT (50 in the code)
  SeenCap,     \* event ids kept in the file (200 in the code)
  MaxTurns,    \* bound: turns the bot completes
  MaxRestarts, \* bound: crashes of the process
  MaxEnables   \* bound: enable calls

ASSUME NotifyAssumption ==
  /\ Hist \in Nat \ {0} /\ SeenCap \in Nat \ {0}
  /\ MaxTurns \in Nat /\ MaxRestarts \in Nat /\ MaxEnables \in Nat

VARIABLES
  turns,     \* turns completed so far
  file,      \* bot_notify_<profile>.json, Default when absent or unreadable
  observer,  \* the task: "off", "idle", "looking", "sending", "cancelled"
  tick,      \* the observer's local copy of the file, and turns when it began
  toSend,    \* events of this tick not yet sent
  call,      \* call[c]: what a waiting enable call loaded, or Idle
  restarts, enables

\* Observations, read by no action's guard.
VARIABLES
  wanted,     \* the preference the last call to begin, of those that ended well, asked for
  quiet,      \* turns already completed when the last enable call began
  sent,       \* turns alerted
  twice,      \* turns alerted more than once
  historical, \* turns alerted although completed before the opt-in
  mishaps     \* what has gone wrong: "blind", "overlap", "overruled", "disk"

history == <<wanted, quiet, sent, twice, historical, mishaps>>
vars == <<turns, file, observer, tick, toSend, call, restarts, enables, history>>

\* default_state(); marker 0 is the absent cursor.  baseline_done is left
\* out: the code sets it with "enabled" and never clears it alone.
Default == [enabled |-> FALSE, marker |-> 0, seen |-> <<>>]
Idle == [waiting |-> FALSE, state |-> Default, at |-> 0, overtaken |-> FALSE,
         overruled |-> FALSE]
NoTick == [state |-> Default, at |-> 0]
Window(n) == {t \in 1..n : t > n - Hist}

\* What a snapshot requested when there were `at` turns may show.
Snapshots(at) == {Window(n) : n \in at..turns} \cup {{}}

Init ==
  /\ turns = 0 /\ file = Default
  /\ observer = "off" /\ tick = NoTick /\ toSend = <<>>
  /\ call = [c \in Calls |-> Idle]
  /\ restarts = 0 /\ enables = 0
  /\ wanted = FALSE /\ quiet = 0
  /\ sent = {} /\ twice = {} /\ historical = {} /\ mishaps = {}

Note(flag, condition) == IF condition THEN {flag} ELSE {}

\* save_state: open(..., "w") empties the file first and an OSError is only
\* logged, so the file may stay as it was or be unreadable afterwards.
\* Bound: one save goes wrong.
Save(s) == file' \in IF "disk" \in mishaps THEN {s} ELSE {s, file, Default}
DiskMishap(s) == Note("disk", file' # s)

\* The observer's send of one event, before the executor thread answers.
Alert(t) ==
  /\ sent' = sent \cup {t}
  /\ twice' = twice \cup ({t} \cap sent)
  /\ historical' = historical \cup ({t} \cap 1..quiet)

NoAlert == UNCHANGED <<sent, twice, historical>>

TurnCompletes ==
  /\ turns < MaxTurns
  /\ turns' = turns + 1
  /\ UNCHANGED <<file, observer, tick, toSend, call, restarts, enables, history>>

-----------------------------------------------------------------------------
(* set_preference.                                                         *)

\* _ensure_bot_notify_observer: a task that is not done is left alone, even
\* one that has been cancelled and has not run since.
EnsureObserver(state) ==
  observer' = IF state.enabled /\ observer = "off" THEN "idle" ELSE observer

\* An enable call loads the state and awaits the snapshot; when the file
\* already says enabled, it answers at once and changes nothing.
EnableBegins(c) ==
  /\ enables < MaxEnables /\ enables' = enables + 1
  /\ ~call[c].waiting /\ ~file.enabled /\ observer # "cancelled"
  /\ call' = [call EXCEPT ![c] = [waiting |-> TRUE, state |-> file, at |-> turns,
                                  overtaken |-> FALSE, overruled |-> FALSE]]
  /\ UNCHANGED <<turns, file, observer, tick, toSend, restarts, history>>

\* Mutant: the baseline is built on a fresh state, without the event ids.
Baseline_ForgetsSeen(state, view) ==
  [enabled |-> TRUE, marker |-> IF view = {} THEN 0 ELSE Max(view), seen |-> <<>>]

\* Mutant: the opt-in goes on from the marker of the last one.
Baseline_KeepsMarker(state, view) == [state EXCEPT !.enabled = TRUE]

\* establish_baseline: the latest turn of the snapshot becomes the marker,
\* and a snapshot without turns leaves none.
Baseline(state, view) ==
  [state EXCEPT !.enabled = TRUE, !.marker = IF view = {} THEN 0 ELSE Max(view)]

\* The snapshot has come: what the call loaded before is saved with the new
\* baseline, whatever the file says by now.
EnableEnds(c) ==
  /\ call[c].waiting
  /\ \E view \in Snapshots(call[c].at) :
       /\ Save(Baseline(call[c].state, view))
       /\ mishaps' = mishaps \cup Note("blind", view = {} /\ call[c].at > 0)
                             \cup Note("overlap", call[c].overtaken)
                             \cup Note("overruled", call[c].overruled)
                             \cup DiskMishap(Baseline(call[c].state, view))
  /\ EnsureObserver(file')
  /\ wanted' = (wanted \/ ~call[c].overruled) /\ quiet' = call[c].at
  /\ call' = [d \in Calls |-> IF d = c THEN Idle
                              ELSE [call[d] EXCEPT !.overtaken = call[d].waiting]]
  /\ NoAlert
  /\ UNCHANGED <<turns, tick, toSend, restarts, enables>>

\* The roster cannot be read: the call answers with an error.
EnableFails(c) ==
  /\ call[c].waiting
  /\ call' = [call EXCEPT ![c] = Idle]
  /\ UNCHANGED <<turns, file, observer, tick, toSend, restarts, enables, history>>

\* Waiting enable calls are overruled; their calls do not notice.
Overrules == call' = [c \in Calls |-> [call[c] EXCEPT !.overruled = call[c].waiting]]

\* Mutant: the opt-out is saved and the observer is left to find out.
Disable_NoCancel ==
  /\ Save([file EXCEPT !.enabled = FALSE])
  /\ mishaps' = mishaps \cup DiskMishap([file EXCEPT !.enabled = FALSE])
  /\ wanted' = FALSE /\ Overrules
  /\ NoAlert
  /\ UNCHANGED <<turns, observer, tick, toSend, restarts, enables, quiet>>

\* A disable call awaits nothing: it saves and cancels the observer.
Disable ==
  /\ Save([file EXCEPT !.enabled = FALSE])
  /\ mishaps' = mishaps \cup DiskMishap([file EXCEPT !.enabled = FALSE])
  /\ observer' = IF observer = "off" THEN "off" ELSE "cancelled"
  /\ wanted' = FALSE /\ Overrules
  /\ NoAlert
  /\ UNCHANGED <<turns, tick, toSend, restarts, enables, quiet>>

-----------------------------------------------------------------------------
(* poll_completions and observe_once.                                      *)

\* The cancelled task runs once more, to raise CancelledError and be done.
CancelSeen ==
  /\ observer = "cancelled"
  /\ observer' = "off" /\ tick' = NoTick /\ toSend' = <<>>
  /\ UNCHANGED <<turns, file, call, restarts, enables, history>>

TickBegins ==
  /\ observer = "idle" /\ file.enabled
  /\ observer' = "looking"
  /\ tick' = [state |-> file, at |-> turns]
  /\ UNCHANGED <<turns, file, toSend, call, restarts, enables, history>>

\* The file says disabled: the loop returns.
ObserverReturns ==
  /\ observer = "idle" /\ ~file.enabled
  /\ observer' = "off"
  /\ UNCHANGED <<turns, file, tick, toSend, call, restarts, enables, history>>

TickRaises ==
  /\ observer = "looking"
  /\ observer' = "idle" /\ tick' = NoTick
  /\ UNCHANGED <<turns, file, toSend, call, restarts, enables, history>>

\* turns_after_cursor, less the events already seen.
Fresh(state, view) == {t \in view : t > state.marker} \ ToSet(state.seen)

\* Mutant: the file keeps every id.
Recent_Unbounded(s) == s

Recent(s) == IF Len(s) > SeenCap THEN SubSeq(s, Len(s) - SeenCap + 1, Len(s)) ELSE s
InOrder(S) ==
  CHOOSE s \in [1..Cardinality(S) -> S] : \A i, j \in DOMAIN s : i < j => s[i] < s[j]

\* Mutant: the marker is saved only with a tick that alerts.
Observed_MarkerStays(state, view) ==
  [state EXCEPT !.seen = Recent(@ \o InOrder(Fresh(state, view)))]

\* discover_completions: the state after the events of the snapshot.
Observed(state, view) ==
  [state EXCEPT !.marker = IF view = {} THEN @ ELSE Max(view),
                !.seen = Recent(@ \o InOrder(Fresh(state, view)))]

\* Nothing new: the marker is saved when it moved.
TickQuiet ==
  /\ observer = "looking"
  /\ \E view \in Snapshots(tick.at) :
       LET next == Observed(tick.state, view) IN
       /\ Fresh(tick.state, view) = {}
       /\ IF next = tick.state
          THEN UNCHANGED <<file, mishaps>>
          ELSE Save(next) /\ mishaps' = mishaps \cup DiskMishap(next)
  /\ observer' = "idle" /\ tick' = NoTick
  /\ UNCHANGED <<turns, toSend, call, restarts, enables, wanted, quiet>> /\ NoAlert

\* New turns: the state is saved first, then the first event is sent; the
\* others follow, one await each.
TickAlerts ==
  /\ observer = "looking"
  /\ \E view \in Snapshots(tick.at) :
       LET events == InOrder(Fresh(tick.state, view))
           next == Observed(tick.state, view) IN
       /\ events # <<>>
       /\ Save(next) /\ mishaps' = mishaps \cup DiskMishap(next)
       /\ Alert(Head(events))
       /\ toSend' = Tail(events)
  /\ observer' = "sending" /\ tick' = NoTick
  /\ UNCHANGED <<turns, call, restarts, enables, wanted, quiet>>

SendNext ==
  /\ observer = "sending" /\ toSend # <<>>
  /\ Alert(Head(toSend))
  /\ toSend' = Tail(toSend)
  /\ UNCHANGED <<turns, file, observer, tick, call, restarts, enables, wanted, quiet, mishaps>>

TickEnds ==
  /\ observer = "sending" /\ toSend = <<>>
  /\ observer' = "idle"
  /\ UNCHANGED <<turns, file, tick, toSend, call, restarts, enables, history>>

-----------------------------------------------------------------------------
\* The process dies and starts again: connect() ensures the observer.
Restart ==
  /\ restarts < MaxRestarts /\ restarts' = restarts + 1
  /\ call' = [c \in Calls |-> Idle]
  /\ tick' = NoTick /\ toSend' = <<>>
  /\ observer' = IF file.enabled THEN "idle" ELSE "off"
  /\ UNCHANGED <<turns, file, enables, history>>

Next ==
  \/ TurnCompletes
  \/ \E c \in Calls : EnableBegins(c) \/ EnableEnds(c) \/ EnableFails(c)
  \/ Disable
  \/ CancelSeen \/ TickBegins \/ ObserverReturns
  \/ TickRaises \/ TickQuiet \/ TickAlerts \/ SendNext \/ TickEnds
  \/ Restart

Spec == Init /\ [][Next]_vars

\* A snapshot that shows the turns there are is read again and again as
\* long as the observer keeps looking; ready tasks run.
LooksWell ==
  /\ TickQuiet \/ TickAlerts
  /\ file'.marker >= tick.at \/ mishaps' # mishaps

Fairness ==
  /\ WF_vars(TickBegins) /\ WF_vars(TickEnds) /\ WF_vars(SendNext)
  /\ WF_vars(CancelSeen)
  /\ SF_vars(LooksWell)

FairSpec == Spec /\ Fairness

-----------------------------------------------------------------------------
(* Properties.                                                             *)

State == [enabled : BOOLEAN, marker : 0..MaxTurns, seen : Seq(1..MaxTurns)]

\* Every variable has its type, and the file keeps at most SeenCap ids.
TypeOK ==
  /\ turns \in 0..MaxTurns
  /\ file \in State /\ Len(file.seen) <= SeenCap
  /\ observer \in {"off", "idle", "looking", "sending", "cancelled"}
  /\ tick \in [state : State, at : 0..MaxTurns]
  /\ toSend \in Seq(1..MaxTurns)
  /\ call \in [Calls -> [waiting : BOOLEAN, state : State, at : 0..MaxTurns,
                         overtaken : BOOLEAN, overruled : BOOLEAN]]
  /\ restarts \in 0..MaxRestarts /\ enables \in 0..MaxEnables
  /\ wanted \in BOOLEAN /\ quiet \in 0..MaxTurns
  /\ sent \subseteq 1..MaxTurns /\ twice \subseteq sent /\ historical \subseteq sent
  /\ mishaps \subseteq {"blind", "overlap", "overruled", "disk"}

\* The comment in observe_once: cursors and ids are saved before an event
\* is sent, so that no crash alerts a turn twice.  Only a save that failed
\* or an enable call overtaken by another can.
AtMostOnce == twice # {} => mishaps \cap {"overlap", "disk"} # {}

\* The file says enabled only when the preference that was asked for last says
\* so: an opt-out is undone by no tick, whatever it had loaded before, and by no
\* restart.  An enable call that was waiting for its snapshot when the opt-out
\* came does undo it, and so may a save that failed; both have a name.
OptOutSticks == file.enabled => wanted \/ mishaps \cap {"overruled", "disk"} # {}

\* A turn completed before the opt-in is alerted only after the snapshot of
\* a baseline showed nothing although there were turns, two enable calls
\* overlapped, or a save failed; no order of ticks, opt-outs, restarts and
\* new turns alone brings it about.
HistoricalOnlyIfBlind == historical # {} => mishaps \cap {"blind", "overlap", "disk"} # {}

\* While opted in, the marker reaches every completed turn: the observer is
\* running whenever the file says enabled.
TurnsNoticed ==
  \A t \in 1..MaxTurns :
    (file.enabled /\ t <= turns) ~>
      (file.marker >= t \/ ~file.enabled \/ mishaps \cap {"overlap", "disk"} # {})

=============================================================================
