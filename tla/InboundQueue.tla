---------------------------- MODULE InboundQueue ----------------------------
(***************************************************************************)
(* The durable inbound pipeline of the relay adapter: the supervisor       *)
(* (_run_loop) connects with the cursor, the reader (_receive_loop,        *)
(* _read_frame) filters frames and queues them, one worker                 *)
(* (_dispatch_worker) hands them to the gateway and owns the cursor.       *)
(*                                                                         *)
(* The relay numbers the phone's messages 1, 2, ...  Its stream on one     *)
(* connection is the backlog after the cursor, then the backlog_done       *)
(* marker, then live messages; it is represented by the position the       *)
(* reader has reached, since TCP delivers it in order and a lost           *)
(* connection loses everything in flight.  A message is resent as the      *)
(* same sealed frame, so its number also stands for its nonce.             *)
(***************************************************************************)
EXTENDS Integers, Sequences

CONSTANTS
  MaxSeq,       \* bound: messages the phone sends
  NonceCap,     \* MAX_NONCE_CACHE (256 in the code)
  MaxRestarts,  \* bound: crashes and orderly stops of the process
  Raises        \* the messages whose dispatch may raise

ASSUME InboundAssumption ==
  /\ MaxSeq \in Nat
  /\ NonceCap \in Nat \ {0}
  /\ MaxRestarts \in Nat
  /\ Raises \subseteq Nat

VARIABLES
  posted,       \* relay: messages stored so far
  tooOld,       \* relay and clock: messages up to this one are over 60 s old
  backlogEnd,   \* relay: the marker follows this message on the connection
  pos,          \* relay: last message handed to the reader on the connection
  phase,        \* supervisor: "off", "down", "reading", "draining", "stopping"
  seen,         \* _inbound_seen_seq
  backlogOpen,  \* _backlog_open, and the 30 s grace has not run out
  nonces,       \* _nonce_cache, oldest first; RpcNonce for any RPC frame
  queue,        \* frames read and not yet taken by the worker
  current,      \* the message the worker is dispatching, 0 when none
  failed,       \* the worker of this connection has returned on a failure
  cursor,       \* _inbound_cursor
  disk,         \* the cursor file, 0 when absent or unreadable
  restarts

\* Observations, read by no action's guard.
VARIABLES
  done,         \* messages handed to the gateway
  latest,       \* the last one handed over by this process, 0 when none
  tooLate,      \* messages dropped as stale since they could last be replayed
  raised,       \* messages whose dispatch raised
  abandoned     \* messages left in the queue of a worker that failed

relay == <<posted, tooOld, backlogEnd, pos>>
reader == <<seen, backlogOpen, nonces>>
worker == <<current, failed, cursor, disk>>
history == <<done, latest, tooLate, raised, abandoned>>
vars == <<relay, phase, reader, queue, worker, restarts, history>>

RpcNonce == 0
Queued == {queue[i] : i \in 1..Len(queue)}
Connected == phase = "reading"
WorkerLives == phase \in {"reading", "draining", "stopping"} /\ ~failed

Init ==
  /\ posted = 0 /\ tooOld = 0 /\ backlogEnd = 0 /\ pos = 0
  /\ phase = "down"
  /\ seen = 0 /\ backlogOpen = FALSE /\ nonces = <<>>
  /\ queue = <<>>
  /\ current = 0 /\ failed = FALSE /\ cursor = 0 /\ disk = 0
  /\ restarts = 0
  /\ done = {} /\ latest = 0 /\ tooLate = {} /\ raised = {} /\ abandoned = {}

-----------------------------------------------------------------------------
(* The phone, the relay and the clock.                                     *)

PhonePosts ==
  /\ posted < MaxSeq
  /\ posted' = posted + 1
  /\ UNCHANGED <<tooOld, backlogEnd, pos, phase, reader, queue, worker, restarts, history>>

\* The oldest message that is still fresh passes REPLAY_WINDOW_S.
TimePasses ==
  /\ tooOld < posted
  /\ tooOld' = tooOld + 1
  /\ UNCHANGED <<posted, backlogEnd, pos, phase, reader, queue, worker, restarts, history>>

\* _INBOUND_REPLAY_GRACE_S runs out before the marker has come.
GraceExpires ==
  /\ Connected /\ backlogOpen
  /\ backlogOpen' = FALSE
  /\ UNCHANGED <<relay, phase, seen, nonces, queue, worker, restarts, history>>

-----------------------------------------------------------------------------
(* The supervisor: _connect_ws and _run_loop.                              *)

\* The relay starts its stream after the cursor; the replay window opens.
\* (Messages dropped as stale that the cursor has not passed are resent.)
Connect ==
  /\ phase = "down"
  /\ phase' = "reading"
  /\ pos' = cursor /\ backlogEnd' = posted
  /\ backlogOpen' = TRUE
  /\ failed' = FALSE
  /\ tooLate' = tooLate \cap 1..cursor
  /\ UNCHANGED <<posted, tooOld, seen, nonces, queue, current, cursor, disk, restarts,
                 done, latest, raised, abandoned>>

\* Mutant: the backlog is dropped with the socket instead of being drained.
SocketLost_DropsQueue ==
  /\ Connected
  /\ phase' = "draining"
  /\ queue' = <<>>
  /\ UNCHANGED <<relay, reader, worker, restarts, history>>

\* The socket goes away, by itself or closed by the failed worker; the
\* reader queues the sentinel and awaits the worker, which drains the queue.
SocketLost ==
  /\ Connected
  /\ phase' = "draining"
  /\ UNCHANGED <<relay, reader, queue, worker, restarts, history>>

WorkerReturned == failed \/ (current = 0 /\ queue = <<>>)

\* Mutant: the high-water mark survives the connection.
Drained_KeepsSeen ==
  /\ phase \in {"draining", "stopping"}
  /\ WorkerReturned
  /\ phase' = IF phase = "draining" THEN "down" ELSE "off"
  /\ abandoned' = abandoned \cup Queued
  /\ queue' = <<>>
  /\ UNCHANGED <<relay, reader, worker, restarts, done, latest, tooLate, raised>>

\* The worker has returned: the supervisor resets the connection-scoped
\* state, and what a failed worker left in its queue is gone with it.
Drained ==
  /\ phase \in {"draining", "stopping"}
  /\ WorkerReturned
  /\ phase' = IF phase = "draining" THEN "down" ELSE "off"
  /\ seen' = 0
  /\ abandoned' = abandoned \cup Queued
  /\ queue' = <<>>
  /\ UNCHANGED <<relay, backlogOpen, nonces, worker, restarts, done, latest, tooLate, raised>>

-----------------------------------------------------------------------------
(* The reader: _read_frame and open_frame.                                 *)

\* Mutant: a cache without a bound.
Remember_Unbounded(n) == Append(nonces, n)

\* deque(maxlen = MAX_NONCE_CACHE): a full cache forgets its oldest nonce.
Remember(n) ==
  Append(IF Len(nonces) = NonceCap THEN Tail(nonces) ELSE nonces, n)

Remembered(n) == \E i \in 1..Len(nonces) : nonces[i] = n

\* Message s is the next one of the stream, and new on this connection.
Arrives(s) ==
  /\ Connected
  /\ s = pos + 1 /\ s <= posted
  /\ pos' = s
  /\ seen < s
  /\ seen' = s

\* The relay buffers live messages while it replays, so a message of the
\* backlog may come again before the marker.  A number not above the last
\* one read is skipped.
OnTheWire(s) ==
  \/ s = pos + 1 /\ s <= posted
  \/ s <= backlogEnd /\ backlogEnd <= pos

SkipSeen ==
  \E s \in 1..MaxSeq :
    /\ Connected /\ OnTheWire(s)
    /\ s <= seen
    /\ pos' = IF s > pos THEN s ELSE pos
    /\ UNCHANGED <<posted, tooOld, backlogEnd, phase, reader, queue, worker, restarts, history>>

\* Mutant: the nonce is remembered before the age is checked.
DropStale_Remembers ==
  \E s \in 1..MaxSeq :
    /\ Arrives(s)
    /\ s <= tooOld /\ ~backlogOpen
    /\ nonces' = Remember(s)
    /\ tooLate' = tooLate \cup {s}
    /\ UNCHANGED <<posted, tooOld, backlogEnd, phase, backlogOpen, queue, worker,
                   restarts, done, latest, raised, abandoned>>

\* open_frame rejects a frame over 60 s old outside the replay window,
\* before it looks at the nonce.
DropStale ==
  \E s \in 1..MaxSeq :
    /\ Arrives(s)
    /\ s <= tooOld /\ ~backlogOpen
    /\ tooLate' = tooLate \cup {s}
    /\ UNCHANGED <<posted, tooOld, backlogEnd, phase, backlogOpen, nonces, queue, worker,
                   restarts, done, latest, raised, abandoned>>

\* open_frame rejects a frame whose nonce it remembers, replay or not.
DropReplayed ==
  \E s \in 1..MaxSeq :
    /\ Arrives(s)
    /\ s > tooOld \/ backlogOpen
    /\ Remembered(s)
    /\ UNCHANGED <<posted, tooOld, backlogEnd, phase, backlogOpen, nonces, queue, worker,
                   restarts, history>>

Accept ==
  \E s \in 1..MaxSeq :
    /\ Arrives(s)
    /\ s > tooOld \/ backlogOpen
    /\ ~Remembered(s)
    /\ nonces' = Remember(s)
    /\ queue' = Append(queue, s)
    /\ UNCHANGED <<posted, tooOld, backlogEnd, phase, backlogOpen, worker, restarts, history>>

\* An rpc.request takes a place in the nonce cache and is detached; it has
\* no number and leaves the queue alone.
ReadRpc ==
  /\ Connected
  /\ nonces' = Remember(RpcNonce)
  /\ UNCHANGED <<relay, phase, seen, backlogOpen, queue, worker, restarts, history>>

ReadBacklogDone ==
  /\ Connected /\ pos >= backlogEnd /\ backlogOpen
  /\ backlogOpen' = FALSE
  /\ UNCHANGED <<relay, phase, seen, nonces, queue, worker, restarts, history>>

-----------------------------------------------------------------------------
(* The worker: _dispatch_worker.                                           *)

\* Mutant: the cursor file is written before the dispatch.
WorkerTakes_WritesFile ==
  /\ WorkerLives /\ current = 0 /\ queue # <<>>
  /\ current' = Head(queue)
  /\ disk' = Head(queue)
  /\ queue' = Tail(queue)
  /\ UNCHANGED <<relay, phase, reader, failed, cursor, restarts, history>>

WorkerTakes ==
  /\ WorkerLives /\ current = 0 /\ queue # <<>>
  /\ current' = Head(queue)
  /\ queue' = Tail(queue)
  /\ UNCHANGED <<relay, phase, reader, failed, cursor, disk, restarts, history>>

\* handle_message has returned: the cursor moves to the message, and the
\* file follows.  open(..., "w") empties the file first and every OSError
\* is swallowed, so the file may keep its old content or stay empty (0).
WorkerSucceeds ==
  /\ WorkerLives /\ current # 0
  /\ cursor' = current
  /\ disk' \in {current, disk, 0}
  /\ done' = done \cup {current}
  /\ latest' = current
  /\ current' = 0
  /\ UNCHANGED <<relay, phase, reader, queue, failed, restarts, tooLate, raised, abandoned>>

\* The dispatch raised: the worker closes the socket and returns.
WorkerFails ==
  /\ WorkerLives /\ current # 0
  /\ current \in Raises
  /\ failed' = TRUE
  /\ raised' = raised \cup {current}
  /\ current' = 0
  /\ UNCHANGED <<relay, phase, reader, queue, cursor, disk, restarts, done, latest,
                 tooLate, abandoned>>

-----------------------------------------------------------------------------
(* The process.                                                            *)

\* The process is gone, with the socket, the queue and the worker.
Ends ==
  /\ restarts < MaxRestarts
  /\ restarts' = restarts + 1
  /\ phase' = "off"
  /\ seen' = 0 /\ queue' = <<>> /\ current' = 0
  /\ UNCHANGED <<relay, backlogOpen, nonces, failed, cursor, latest, tooLate, raised, abandoned>>

\* A crash between two steps, or in the middle of a dispatch: the gateway
\* may have taken the message before the cursor file was touched, or after
\* the file was emptied.
Crash ==
  /\ phase # "off"
  /\ \/ UNCHANGED <<done, disk>>
     \/ /\ WorkerLives /\ current # 0
        /\ done' = done \cup {current}
        /\ disk' \in {disk, 0}
  /\ Ends

\* disconnect() while the reader waits for a frame: _should_run goes FALSE,
\* the cancelled reader still awaits the drain.
StopReading ==
  /\ Connected
  /\ restarts < MaxRestarts
  /\ restarts' = restarts + 1
  /\ phase' = "stopping"
  /\ UNCHANGED <<relay, reader, queue, worker, history>>

\* disconnect() while the supervisor waits for the worker or for its
\* backoff: the worker is cancelled with its queue, and the process ends.
StopAtOnce ==
  /\ phase \in {"down", "draining"}
  /\ UNCHANGED <<done, disk>>
  /\ Ends

\* A new process starts from the cursor file and an empty nonce cache.
Restart ==
  /\ phase = "off"
  /\ phase' = "down"
  /\ cursor' = disk
  /\ nonces' = <<>> /\ backlogOpen' = FALSE /\ failed' = FALSE /\ latest' = 0
  /\ UNCHANGED <<relay, seen, queue, current, disk, restarts, done, tooLate, raised, abandoned>>

-----------------------------------------------------------------------------
Next ==
  \/ PhonePosts \/ TimePasses \/ GraceExpires
  \/ Connect \/ SocketLost \/ Drained
  \/ SkipSeen \/ DropStale \/ DropReplayed \/ Accept \/ ReadRpc \/ ReadBacklogDone
  \/ WorkerTakes \/ WorkerSucceeds \/ WorkerFails
  \/ Crash \/ StopReading \/ StopAtOnce \/ Restart

Spec == Init /\ [][Next]_vars

\* asyncio runs every ready task; the network lets a frame through again
\* and again (strong fairness: the socket may be lost any number of times); a
\* dispatch ends and, when it is retried again and again, succeeds; a failed
\* worker's ws.close() ends the connection; the service manager restarts the
\* gateway.
Fairness ==
  /\ WF_vars(Connect) /\ WF_vars(Drained) /\ WF_vars(Restart)
  /\ WF_vars(WorkerTakes) /\ SF_vars(WorkerSucceeds)
  /\ WF_vars(failed /\ SocketLost)
  /\ SF_vars(Accept) /\ SF_vars(DropReplayed) /\ SF_vars(DropStale)

FairSpec == Spec /\ Fairness

-----------------------------------------------------------------------------
(* Properties.                                                             *)

\* Every variable has its type; the nonce cache stays within its capacity.
TypeOK ==
  /\ posted \in Nat /\ tooOld \in Nat /\ backlogEnd \in Nat /\ pos \in Nat
  /\ phase \in {"off", "down", "reading", "draining", "stopping"}
  /\ seen \in Nat /\ backlogOpen \in BOOLEAN
  /\ nonces \in Seq(Nat) /\ Len(nonces) <= NonceCap
  /\ queue \in Seq(Nat)
  /\ current \in Nat /\ failed \in BOOLEAN /\ cursor \in Nat /\ disk \in Nat
  /\ restarts \in Nat
  /\ done \subseteq Nat /\ latest \in Nat /\ tooLate \subseteq Nat
  /\ raised \subseteq Nat /\ abandoned \subseteq Nat

Excused == tooLate \cup raised \cup abandoned

\* The cursor passes no message silently: each one up to it was handed to
\* the gateway, was dropped as stale on the connection that passed it, or
\* is the victim of a dispatch that raised.  Without a raising dispatch the
\* drain of the queue (comment in _receive_loop) loses nothing.
NothingLostSilently == 1..cursor \subseteq done \cup Excused

\* The cursor file never claims more than the process does, so a restart
\* never skips a message.
FileBehindCursor == disk <= cursor

\* Within one process a message is dispatched at most once and in the order
\* sent, across any number of reconnections and overlapping replays.
InFlightIsNew == current # 0 => latest < current

\* A message the relay has stored is handed over in the end, unless it is
\* excused; no drop, crash or replay makes the pipeline forget it for good.
EveryMessageSettles ==
  \A s \in 1..MaxSeq : s <= posted ~> s \in done \cup Excused

\* The pipeline implements the promise of DurableInbox.
Inbox == INSTANCE DurableInbox WITH excused <- Excused
ImplementsInbox == Inbox!Spec

\* The docstring of _dispatch_worker: the cursor advances "never past a
\* failure".  The nonce of the message that failed is already remembered,
\* so its replay is rejected and the next success moves the cursor past it.
NeverPastFailure == \A s \in raised : s <= cursor => s \in done
=============================================================================
