---------------------------- MODULE DurableInbox ----------------------------
(***************************************************************************)
(* What the plugin promises about the messages the phone sends it: the     *)
(* durable queue of the relay numbers them 1, 2, 3, ..., the plugin hands  *)
(* them to the gateway in that order, and its cursor never moves past one  *)
(* that it neither dispatched nor has an excuse for.  A restart may move   *)
(* the cursor back (messages are then dispatched again), never forward.    *)
(* InboundQueue is shown to implement this specification.                  *)
(***************************************************************************)
EXTENDS Integers

VARIABLES
  posted,   \* the highest sequence number the relay has stored
  cursor,   \* the highest sequence number the plugin claims to have handled
  done,     \* the messages handed to the gateway at least once
  excused   \* the messages given up: too old, or their dispatch failed

vars == <<posted, cursor, done, excused>>

Init == /\ posted = 0
        /\ cursor = 0
        /\ done = {}
        /\ excused = {}

\* The phone sends one more message.
Post == /\ posted' = posted + 1
        /\ UNCHANGED <<cursor, done, excused>>

\* Message s is handed over.  Everything between the cursor and s has been
\* handed over before or is excused.
Dispatch(s) ==
  /\ cursor < s /\ s <= posted
  /\ (cursor + 1)..(s - 1) \subseteq done \cup excused
  /\ cursor' = s
  /\ done' = done \cup {s}
  /\ UNCHANGED <<posted, excused>>

\* Messages that were sent become excused; an excuse is withdrawn only
\* while the cursor has not passed the message, which then gets another try.
Excuse ==
  /\ \E more \in SUBSET (1..posted), retried \in SUBSET ((cursor + 1)..posted) :
        excused' = (excused \cup more) \ retried
  /\ UNCHANGED <<posted, cursor, done>>

\* The plugin restarts from an older cursor; the message in flight may have
\* been handed over although the cursor does not show it.
Rewind ==
  /\ cursor' \in 0..cursor
  /\ \E last \in SUBSET ((cursor + 1)..posted) : done' = done \cup last
  /\ UNCHANGED <<posted, excused>>

Next == Post \/ Excuse \/ Rewind \/ \E s \in 1..posted : Dispatch(s)

Spec == Init /\ [][Next]_vars
=============================================================================
