------------------------------- MODULE RoomLog -------------------------------
(***************************************************************************)
(* How the phone reads the log of a room: it opens the room and gets the    *)
(* tail, catches up from its cursor, and pages backwards.  The core's log   *)
(* grows meanwhile; a page of it may stop anywhere short of the limit (byte *)
(* budget), and only some of its events are messages the phone is shown.    *)
(***************************************************************************)
EXTENDS Integers, Sequences, FiniteSets, FiniteSetsExt

CONSTANTS
  Limit,        \* max_log_limit, at most 50
  MaxPages,     \* 32 in the code: core pages read for one page of older messages
  MaxEvents,    \* bound: events of the room
  MaxRoomOpens  \* bound: times the room is opened

ASSUME RoomAssumption ==
  /\ Limit \in Nat \ {0} /\ MaxPages \in Nat \ {0}
  /\ MaxEvents \in Nat /\ MaxRoomOpens \in Nat

VARIABLES
  log,     \* the core's events, in order: TRUE for a message
  roomOpens,
  handle,  \* the phone holds a handle of the room
  call,    \* open_room or read_log(before_seq) in progress: NoCall when none
  shown,   \* seqs of the messages the phone has been given since it opened
  cursor,  \* the phone's cursor: it has read the log up to here
  older,   \* has_more of the last page: older ones remain
  capped   \* observation: a call stopped because it had read MaxPages pages

roomVars == <<log, roomOpens, handle, call, shown, cursor, older, capped>>

NoCall == [kind |-> "none", at |-> 0, goal |-> 0, got |-> {}, pages |-> 0]

Messages == {i \in 1..Len(log) : log[i]}

\* The last Limit messages of a set.
LastOf(S) == {i \in S : Cardinality({j \in S : j > i}) < Limit}

\* has_more of a page: oldest > 1, where the oldest of no messages is 0.
OlderThan(S) == S # {} /\ Min(S) > 1

\* groups.log after `since`: how far it may read.
Ends(since) == (since + 1)..Min({since + Limit, Len(log)})

\* Mutant: the cursor is that of the last message.
PageCursor_OfMessage(since, end) ==
  Max({since} \cup {i \in Messages : i \in (since + 1)..end})

\* The cursor of a page counts the events that are not shown as well.
PageCursor(since, end) == end

PageMessages(since, end) == {i \in Messages : i \in (since + 1)..end}

RoomInit ==
  /\ log = <<>> /\ roomOpens = 0 /\ handle = FALSE /\ call = NoCall
  /\ shown = {} /\ cursor = 0 /\ older = FALSE /\ capped = FALSE

-----------------------------------------------------------------------------

EventHappens ==
  /\ Len(log) < MaxEvents
  /\ \E message \in BOOLEAN : log' = Append(log, message)
  /\ UNCHANGED <<roomOpens, handle, call, shown, cursor, older, capped>>

\* Mutant: no lower bound.
TailStart_Unbounded(latest) == latest - Limit

TailStart(latest) == Max({0, latest - Limit})

\* groups.state gives the latest seq; the tail is then read from there.
OpenBegins ==
  /\ ~handle /\ call = NoCall /\ roomOpens < MaxRoomOpens /\ roomOpens' = roomOpens + 1
  /\ IF log = <<>>
     THEN handle' = TRUE /\ shown' = {} /\ cursor' = 0 /\ older' = FALSE /\ UNCHANGED call
     ELSE /\ call' = [NoCall EXCEPT !.kind = "open", !.goal = Len(log),
                                    !.at = TailStart(Len(log))]
          /\ UNCHANGED <<handle, shown, cursor, older>>
  /\ capped' = FALSE
  /\ UNCHANGED log

\* _fetch_latest_page: forward to the latest seq, keeping the last messages.
\* (A page that does not advance would end the loop; the core's pages do.)
OpenReads ==
  /\ call.kind = "open"
  /\ \E end \in Ends(call.at) :
       LET got == LastOf(call.got \cup PageMessages(call.at, end))
           next == PageCursor(call.at, end) IN
       IF end < Len(log) /\ next < call.goal
       THEN /\ call' = [call EXCEPT !.at = next, !.got = got]
            /\ UNCHANGED <<handle, shown, cursor, older>>
       ELSE /\ call' = NoCall /\ handle' = TRUE
            /\ shown' = got /\ cursor' = next /\ older' = OlderThan(got)
  /\ UNCHANGED <<log, roomOpens, capped>>

\* read_log(since_seq): one page after the phone's cursor.
CatchUp ==
  /\ handle /\ cursor < Len(log)
  /\ \E end \in Ends(cursor) :
       /\ shown' = shown \cup PageMessages(cursor, end)
       /\ cursor' = PageCursor(cursor, end)
  /\ UNCHANGED <<log, roomOpens, handle, call, older, capped>>

\* read_log(before_seq) for the messages before the oldest one shown.
OlderBegins ==
  /\ handle /\ call = NoCall /\ older /\ shown # {}
  /\ call' = [NoCall EXCEPT !.kind = "older", !.goal = Min(shown),
                            !.at = Max({0, Min(shown) - 1 - Limit})]
  /\ UNCHANGED <<log, roomOpens, handle, shown, cursor, older, capped>>

\* Mutant: one page of the core is taken for the whole range.
OlderDone_OnePage(end, c) == TRUE

\* The range is read, or the core has no more, or enough pages were read.
OlderDone(end, c) ==
  \/ end >= c.goal - 1
  \/ end = Len(log)
  \/ c.pages + 1 = MaxPages

\* _fetch_older_page
OlderReads ==
  /\ call.kind = "older"
  /\ \E end \in Ends(call.at) :
       LET got == call.got \cup {i \in PageMessages(call.at, end) : i < call.goal} IN
       IF OlderDone(end, call)
       THEN /\ call' = NoCall
            /\ shown' = shown \cup LastOf(got) /\ older' = OlderThan(LastOf(got))
            /\ capped' = (capped \/ (call.pages + 1 = MaxPages /\ end < call.goal - 1))
       ELSE /\ call' = [call EXCEPT !.at = end, !.got = got, !.pages = @ + 1]
            /\ UNCHANGED <<shown, older, capped>>
  /\ UNCHANGED <<log, roomOpens, handle, cursor>>

\* close_room, or disconnect: the handle is gone, the phone starts over, and
\* a page on its way is for a room it has left.
Close ==
  /\ handle
  /\ handle' = FALSE /\ call' = NoCall
  /\ shown' = {} /\ cursor' = 0 /\ older' = FALSE
  /\ UNCHANGED <<log, roomOpens, capped>>

RoomNext ==
  \/ EventHappens \/ OpenBegins \/ OpenReads \/ CatchUp
  \/ OlderBegins \/ OlderReads \/ Close

RoomSpec == RoomInit /\ [][RoomNext]_roomVars

\* A phone that has the room open reads on; a call that has begun ends.
RoomFairSpec ==
  RoomSpec /\ WF_roomVars(CatchUp) /\ WF_roomVars(OlderBegins) /\ WF_roomVars(OlderReads) /\ WF_roomVars(OpenReads)

-----------------------------------------------------------------------------
(* Properties.                                                             *)

\* Every variable has its type; what a call has collected and what is shown
\* are messages of the log, and the number of pages read stays below its cap.
RoomTypeOK ==
  /\ log \in Seq(BOOLEAN) /\ Len(log) <= MaxEvents /\ roomOpens \in 0..MaxRoomOpens
  /\ handle \in BOOLEAN /\ older \in BOOLEAN /\ capped \in BOOLEAN
  /\ call \in [kind : {"none", "open", "older"}, at : 0..Len(log), goal : 0..Len(log),
               got : SUBSET Messages, pages : 0..(MaxPages - 1)]
  /\ shown \subseteq Messages /\ cursor \in 0..Len(log)

\* Between the oldest message shown and the cursor no message is missing,
\* whatever the core adds or leaves out of a page, unless a call for older
\* messages was cut short.
NoHole ==
  handle /\ ~capped =>
    /\ \A i \in shown : i <= cursor
    /\ shown # {} => \A i \in Messages : Min(shown) <= i /\ i <= cursor => i \in shown

\* A room that is kept open is read to its end, in both directions: the
\* cursor reaches the last event and the pages of older messages end.
ReadToTheEnd == <>[](handle => cursor = Len(log) /\ ~older)

=============================================================================
