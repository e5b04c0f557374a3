----------------------------- MODULE StreamEdits -----------------------------
(***************************************************************************)
(* One streamed reply: the gateway's stream consumer seeds a preview with  *)
(* send(expect_edits), rewrites it with edit_message, one call at a time,  *)
(* and finalizes it, or falls back to a plain send when an edit fails.     *)
(* Edits that come too fast are stashed for a flush task; a lost socket    *)
(* makes the supervisor forget the stream.                                 *)
(*                                                                         *)
(* Every call carries the whole text so far, represented by its number     *)
(* 1, 2, ...  A live edit is sent as a delta against the text of the last  *)
(* revision; a durable one is a row of the relay's store.                  *)
(***************************************************************************)
EXTENDS Integers, Sequences

CONSTANTS
  MaxText,    \* bound: texts the consumer produces
  MaxLosses,  \* bound: sockets lost
  MaxSends,   \* bound: plain sends, the first and its retries
  MaxRevisions, \* bound: durable revisions
  GoesOn      \* whether the consumer may edit the message after a failed edit

ASSUME StreamAssumption ==
  /\ MaxText \in Nat \ {0} /\ MaxLosses \in Nat /\ MaxSends \in Nat
  /\ MaxRevisions \in Nat /\ GoesOn \in BOOLEAN

VARIABLES
  ws,         \* "up", "lost" (closed, _ws still set), "none" (_ws is None)
  losses,
  pending,    \* the message is in _stream_pending
  rev, text,  \* _stream_rev, _stream_text
  recent,     \* the last live edit is less than _LIVE_EDIT_INTERVAL_S ago
  immediate,  \* _stream_immediate
  stash,      \* _stream_stash, 0 when empty
  sleeping,   \* a flush task sleeps and is registered in _stream_flush
  trailing,   \* flush tasks waiting for the socket: the revisions they send
  op,         \* the call in progress, NoOp when none
  consumer,   \* "seed", "streaming", "fallback", "finished"
  produced,   \* the text the consumer has reached
  revisions,  \* _message_revisions: durable replacements minted
  sends

\* Observations, read by no action's guard.
VARIABLES
  wire,       \* frames handed to an open socket: [rev, base, text]
  rows,       \* rows the relay has stored: [kind, text, final]
  believed,   \* the last text an edit answered "success" for
  mishaps     \* "unstored": an enqueue failed, "unsure": its answer was lost

stream == <<pending, rev, text, recent, immediate, stash, sleeping>>
seenByUser == <<wire, rows, believed, mishaps>>
vars == <<ws, losses, stream, trailing, op, consumer, produced, revisions, sends, seenByUser>>

NoOp == [kind |-> "none", text |-> 0, rev |-> 0, final |-> FALSE, stage |-> "none",
         live |-> FALSE]
Frame(r, b, t) == [rev |-> r, base |-> b, text |-> t]

Init ==
  /\ ws = "up" /\ losses = 0
  /\ pending = FALSE /\ rev = 0 /\ text = 0 /\ recent = FALSE /\ immediate = FALSE
  /\ stash = 0 /\ sleeping = FALSE /\ trailing = {}
  /\ op = NoOp /\ consumer = "seed" /\ produced = 0 /\ revisions = 0 /\ sends = 0
  /\ wire = <<>> /\ rows = <<>> /\ believed = 0 /\ mishaps = {}

-----------------------------------------------------------------------------
(* _clear_stream_edit, _stream_edit_payload and _deliver.                  *)

\* Mutant: the flush task survives the stream.
ClearStream_KeepsFlush ==
  /\ pending' = FALSE /\ rev' = 0 /\ text' = 0 /\ recent' = FALSE /\ immediate' = FALSE
  /\ UNCHANGED <<stash, sleeping>>

ClearStream ==
  /\ pending' = FALSE /\ rev' = 0 /\ text' = 0 /\ recent' = FALSE /\ immediate' = FALSE
  /\ stash' = 0 /\ sleeping' = FALSE

\* Mutant: the text the next delta starts from is not recorded.
Reserve_KeepsText(t) == rev' = rev + 1 /\ recent' = TRUE /\ UNCHANGED text

\* _record_stream_edit, before the frame reaches the socket.
Reserve(t) == rev' = rev + 1 /\ text' = t /\ recent' = TRUE

\* _deliver of a payload: with an open socket it awaits the send, otherwise
\* it goes on to the durable enqueue.
Deliver(kind, t, r, final, frame) ==
  /\ op' = [kind |-> kind, text |-> t, rev |-> r, final |-> final, live |-> FALSE,
            stage |-> IF ws = "up" THEN "live" ELSE "store"]
  /\ wire' = IF ws = "up" THEN Append(wire, frame) ELSE wire

\* A revision of its own id: a row that replaces the message as a whole.
NoDelta == Frame(0, 0, 0)

-----------------------------------------------------------------------------
(* The consumer's calls.                                                   *)

\* send(expect_edits): the preview is sent live and never stored.  Without a
\* socket it fails at once.
Seed ==
  /\ consumer = "seed" /\ op = NoOp
  /\ produced' = 1
  /\ IF ws = "up"
     THEN Deliver("seed", 1, 0, FALSE, Frame(0, 0, 1)) /\ UNCHANGED consumer
     ELSE consumer' = "fallback" /\ UNCHANGED <<op, wire>>
  /\ UNCHANGED <<ws, losses, stream, trailing, revisions, sends, rows, believed, mishaps>>

\* The socket took it, and the stream is pending; or it failed, and the reply is
\* sent plainly.  (A repeated preview has an id of its own: another stream.)
Seeded ==
  /\ op.kind = "seed" /\ op' = NoOp
  /\ \/ /\ consumer' = "streaming" /\ believed' = 1
        /\ pending' = TRUE /\ rev' = 0 /\ text' = 1 /\ recent' = TRUE
        /\ UNCHANGED <<immediate, stash, sleeping>>
     \/ ws # "up" /\ consumer' = "fallback" /\ UNCHANGED <<believed, stream>>
  /\ UNCHANGED <<ws, losses, trailing, produced, revisions, sends, wire, rows, mishaps>>

Calls == consumer = "streaming" /\ op = NoOp /\ produced < MaxText
NextText == produced' = produced + 1
AfterFailure == {"fallback"} \cup (IF GoesOn THEN {"streaming"} ELSE {})

\* An edit within the interval of the last one is stashed; a flush task is
\* started unless one sleeps already.  (A pending stream has a socket, open
\* or closed: SupervisorForgets drops both.)
StashEdit ==
  /\ Calls /\ NextText
  /\ pending /\ ~immediate /\ recent
  /\ stash' = produced' /\ sleeping' = TRUE
  /\ believed' = produced'
  /\ UNCHANGED <<ws, losses, pending, rev, text, recent, immediate, trailing, op, consumer,
                 revisions, sends, wire, rows, mishaps>>

\* Any other edit supersedes the stash and its sleeping flush.
SendEdit ==
  /\ Calls /\ NextText
  /\ pending /\ (immediate \/ ~recent)
  /\ ws = "up"
  /\ stash' = 0 /\ sleeping' = FALSE /\ immediate' = FALSE
  /\ Reserve(produced')
  /\ Deliver("edit", produced', rev + 1, FALSE, Frame(rev + 1, text, produced'))
  /\ UNCHANGED <<ws, losses, pending, trailing, consumer, revisions, sends,
                 rows, believed, mishaps>>

\* Mutant: the failed edit leaves the stream pending and is not stored.
Rescue_Nothing(t, r) ==
  /\ op' = NoOp /\ consumer' \in AfterFailure
  /\ UNCHANGED stream

\* Mutant: the rescued stream stays pending.
Rescue_StaysPending(t, r) ==
  /\ op' = [kind |-> "rescue", text |-> t, rev |-> r, final |-> TRUE, live |-> FALSE,
            stage |-> "store"]
  /\ UNCHANGED <<stream, consumer>>

\* A live edit failed: unless the stream is gone already, what it carried
\* is stored as final, once, and the stream is forgotten.  (The socket is
\* closed here: see SupervisorForgets.)
Rescue(t, r) ==
  IF pending
  THEN /\ op' = [kind |-> "rescue", text |-> t, rev |-> r, final |-> TRUE, live |-> FALSE,
                 stage |-> "store"]
       /\ ClearStream
       /\ UNCHANGED consumer
  ELSE /\ op' = NoOp /\ consumer' \in AfterFailure
       /\ UNCHANGED stream

\* On a closed socket the send raises without an await.
EditFailsAtOnce ==
  /\ Calls /\ NextText
  /\ pending /\ (immediate \/ ~recent)
  /\ ws = "lost"
  /\ Rescue(produced', rev + 1)
  /\ UNCHANGED <<ws, losses, trailing, revisions, sends, seenByUser>>

Finalize ==
  /\ consumer = "streaming" /\ op = NoOp
  /\ pending
  /\ stash' = 0 /\ sleeping' = FALSE
  /\ Deliver("final", produced, rev + 1, TRUE, Frame(rev + 1, text, produced))
  /\ UNCHANGED <<ws, losses, pending, rev, text, recent, immediate, trailing, consumer,
                 produced, revisions, sends, rows, believed, mishaps>>

\* A message that is not pending: every edit of it, final or not, becomes a
\* durable revision with an id of its own.
Revise ==
  /\ consumer = "streaming" /\ op = NoOp /\ ~pending
  /\ revisions < MaxRevisions /\ revisions' = revisions + 1
  /\ \E final \in BOOLEAN :
       /\ IF final THEN produced' = produced ELSE Calls /\ NextText
       /\ Deliver("revise", produced', 0, final, NoDelta)
  /\ UNCHANGED <<ws, losses, stream, trailing, consumer, sends, rows, believed, mishaps>>

\* The fallback: a plain, durable send of the rest; the base class repeats
\* it, with a new id, while the result says retryable.
Send ==
  /\ consumer = "fallback" /\ op = NoOp
  /\ sends < MaxSends /\ sends' = sends + 1
  /\ Deliver("send", produced, 0, TRUE, NoDelta)
  /\ UNCHANGED <<ws, losses, stream, trailing, consumer, produced, revisions, rows,
                 believed, mishaps>>

-----------------------------------------------------------------------------
(* The awaits of a call and what follows them.                             *)

\* The socket has taken the frame of a durable payload, or has failed.
LiveThenStore ==
  /\ op.stage = "live" /\ op.kind \notin {"seed", "edit"}
  /\ \E ok \in BOOLEAN :
       /\ ok \/ ws # "up"
       /\ op' = [op EXCEPT !.stage = "store", !.live = ok]
  /\ UNCHANGED <<ws, losses, stream, trailing, consumer, produced, revisions, sends, seenByUser>>

EditSent ==
  /\ op.stage = "live" /\ op.kind = "edit"
  /\ op' = NoOp /\ believed' = op.text
  /\ UNCHANGED <<ws, losses, stream, trailing, consumer, produced, revisions, sends,
                 wire, rows, mishaps>>

EditFails ==
  /\ op.stage = "live" /\ op.kind = "edit" /\ ws # "up"
  /\ Rescue(op.text, op.rev)
  /\ UNCHANGED <<ws, losses, trailing, produced, revisions, sends, seenByUser>>

\* success = not retryable = live_ok or durable_ok
Delivered(live, stored) == live \/ stored

\* The enqueue: stored, not stored, or stored with the answer lost.
\* finalize clears the stream; a rescue always answers "failed"; a revision
\* that succeeds keeps the consumer streaming unless it was the last; a
\* failed plain send is repeated.
Stored ==
  /\ op.stage = "store"
  /\ \E outcome \in {"ok", "unstored", "unsure"} :
       LET success == op.kind # "rescue" /\ Delivered(op.live, outcome = "ok") IN
       /\ rows' = IF outcome = "unstored" THEN rows
                  ELSE Append(rows, [kind |-> op.kind, text |-> op.text, final |-> op.final])
       /\ mishaps' = IF outcome = "ok" THEN mishaps ELSE mishaps \cup {outcome}
       /\ consumer' \in CASE ~success -> IF op.kind = "send" THEN {"fallback"} ELSE AfterFailure
                          [] success /\ op.final -> {"finished"}
                          [] OTHER -> {"streaming"}
       /\ believed' = IF success /\ op.kind = "revise" THEN op.text ELSE believed
  /\ IF op.kind = "final" THEN ClearStream ELSE UNCHANGED stream
  /\ op' = NoOp
  /\ UNCHANGED <<ws, losses, trailing, produced, revisions, sends, wire>>

-----------------------------------------------------------------------------
(* The flush task.                                                         *)

IntervalPasses ==
  /\ recent /\ recent' = FALSE
  /\ UNCHANGED <<ws, losses, pending, rev, text, immediate, stash, sleeping, trailing, op,
                 consumer, produced, revisions, sends, seenByUser>>

\* The task wakes, takes itself off the register and sends the stash.  It
\* was started while the stream was pending and is cancelled with it.
FlushWakes ==
  /\ sleeping /\ ~recent
  /\ sleeping' = FALSE /\ stash' = 0
  /\ Reserve(stash)
  /\ IF ws = "up"
     THEN /\ trailing' = trailing \cup {rev + 1}
          /\ wire' = Append(wire, Frame(rev + 1, text, stash))
          /\ UNCHANGED immediate
     ELSE /\ immediate' = TRUE
          /\ UNCHANGED <<trailing, wire>>
  /\ UNCHANGED <<ws, losses, pending, op, consumer, produced, revisions, sends,
                 rows, believed, mishaps>>

\* Its send is over; after a failure the next edit is not to be stashed.
FlushReturns ==
  /\ \E r \in trailing :
       /\ trailing' = trailing \ {r}
       /\ \E ok \in BOOLEAN :
            /\ ok \/ ws # "up"
            /\ immediate' = (immediate \/ (pending /\ ~ok))
  /\ UNCHANGED <<ws, losses, pending, rev, text, recent, stash, sleeping, op, consumer,
                 produced, revisions, sends, seenByUser>>

-----------------------------------------------------------------------------
(* The connection.                                                         *)

SocketLost ==
  /\ ws = "up" /\ losses < MaxLosses
  /\ ws' = "lost" /\ losses' = losses + 1
  /\ UNCHANGED <<stream, trailing, op, consumer, produced, revisions, sends, seenByUser>>

\* _run_loop after the reader has returned.  The sends that wait on the lost
\* socket are woken by its loss and return first: the reader has to await
\* the worker before it returns.
SupervisorForgets ==
  /\ ws = "lost"
  /\ op.stage # "live" /\ trailing = {}
  /\ ws' = "none"
  /\ ClearStream
  /\ UNCHANGED <<losses, trailing, op, consumer, produced, revisions, sends, seenByUser>>

Reconnect ==
  /\ ws = "none" /\ ws' = "up"
  /\ UNCHANGED <<losses, stream, trailing, op, consumer, produced, revisions, sends, seenByUser>>

Next ==
  \/ Seed \/ Seeded \/ StashEdit \/ SendEdit \/ EditFailsAtOnce \/ Finalize \/ Revise \/ Send
  \/ LiveThenStore \/ EditSent \/ EditFails \/ Stored
  \/ IntervalPasses \/ FlushWakes \/ FlushReturns
  \/ SocketLost \/ SupervisorForgets \/ Reconnect

Spec == Init /\ [][Next]_vars

-----------------------------------------------------------------------------
(* Properties.                                                             *)

Kinds == {"none", "seed", "edit", "final", "revise", "rescue", "send"}

\* Every variable has its type; an edit that was only stashed has a task that
\* will send it; a stream that is not pending has no state left, not even one
\* a late flush has put back.
TypeOK ==
  /\ ws \in {"up", "lost", "none"} /\ losses \in 0..MaxLosses
  /\ pending \in BOOLEAN /\ rev \in Nat /\ text \in 0..MaxText
  /\ recent \in BOOLEAN /\ immediate \in BOOLEAN
  /\ stash \in 0..MaxText /\ sleeping \in BOOLEAN
  /\ trailing \subseteq Nat
  /\ op \in [kind : Kinds, text : 0..MaxText, rev : Nat, final : BOOLEAN,
             stage : {"none", "live", "store"}, live : BOOLEAN]
  /\ consumer \in {"seed", "streaming", "fallback", "finished"}
  /\ produced \in 0..MaxText /\ revisions \in Nat /\ sends \in 0..MaxSends
  /\ stash # 0 => sleeping
  /\ ~pending => rev = 0 /\ text = 0 /\ stash = 0 /\ ~sleeping /\ ~immediate
  /\ believed \in 0..MaxText /\ mishaps \subseteq {"unstored", "unsure"}

Deltas == {i \in 1..Len(wire) : wire[i].text # 0}

\* The phone can rebuild the text: on the wire the revisions only grow, and
\* the delta of one is taken against the text of the one before it, though
\* a flush and an edit may both wait for the socket ("Reserve the delta base
\* before socket I/O can admit another edit").
DeltasChain ==
  \A i, j \in Deltas : i < j =>
    /\ wire[i].rev < wire[j].rev
    /\ wire[j].rev = wire[i].rev + 1 => wire[j].base = wire[i].text

OwnRows == {i \in 1..Len(rows) : rows[i].kind \in {"final", "rescue"}}

\* When the consumer stops editing, what it believes the phone has seen is
\* in the store, unless the store itself failed: the fallback only sends
\* what comes after.
NothingStreamedIsLost ==
  consumer \in {"fallback", "finished"} /\ believed # 0 =>
    \/ "unstored" \in mishaps
    \/ \E i \in 1..Len(rows) : rows[i].text >= believed

\* The reply is stored once: at most one row under the id of the stream, as
\* the relay would keep the first and drop the second, and a send is repeated
\* only when nothing has stored the message, unless an answer of the store
\* was lost.
StoredOnce ==
  /\ \A i, j \in OwnRows : i = j
  /\ (\E i, j \in 1..Len(rows) : i # j /\ rows[i].kind = "send" /\ rows[j].kind = "send")
       => "unsure" \in mishaps
=============================================================================
