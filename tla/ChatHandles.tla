------------------------------ MODULE ChatHandles ------------------------------
(***************************************************************************)
(* The names under which one bot's chat is known: the phone's opaque chat  *)
(* token, the stored id of its session in the core's registry, the runtime *)
(* handle the core gives out while the session is loaded, and the opaque   *)
(* refs of its subagents (bot_chats.py, bot_subagents.py).  The phone's    *)
(* calls and the poll of every open chat run beside each other; sessions   *)
(* are unloaded and deleted behind their backs.                            *)
(*                                                                         *)
(* A request is put together when a handler reaches its await, and is      *)
(* served when _local_rpc has the lock of the local door; what the handler *)
(* does with the answer up to its next request belongs to the same step.   *)
(* A loaded session has at most one subagent, named after its runtime.     *)
(***************************************************************************)
EXTENDS Integers, FiniteSets

CONSTANTS
  MaxSessions,  \* bound: sessions with the bot's title, ever
  MaxRuntimes,  \* bound: times a session is loaded
  MaxTokens,    \* bound: chats open at a time
  MaxMessages,  \* bound: messages of the phone
  MaxCalls,     \* bound: calls of the phone
  MaxOut,       \* bound: calls out at a time
  MaxFaults     \* bound: prompts whose answer does not come within 30 s,
                \* sessions deleted from the Desktop, and disconnects

ASSUME ChatHandlesAssumption ==
  /\ MaxSessions \in Nat /\ MaxRuntimes \in Nat /\ MaxTokens \in Nat /\ MaxMessages \in Nat
  /\ MaxCalls \in Nat /\ MaxOut \in Nat /\ MaxFaults \in Nat

Sessions == 1..MaxSessions
Runtimes == 1..MaxRuntimes
Tokens == 1..MaxTokens
Messages == 1..MaxMessages
Calls == 1..MaxOut

VARIABLES
  made,     \* core: sessions created
  listed,   \* core: sessions session.list finds and session.resume loads
  rt,       \* core: the runtime of a session, 0 while it is not loaded
  own,      \* core: the session of a runtime
  loads,    \* core: runtimes so far
  open,     \* _bot_chats
  stored,   \* chat["stored_id"]
  handle,   \* chat["runtime_handle"]
  poll,     \* poll_loop of a chat: Off, Ready, or the session it asks for
  refs,     \* _subagent_refs
  call, calls,
  late,     \* prompts given up at the door that the core will still execute
  faults

\* Observations, read by no guard but the phone's own.
VARIABLES
  told,     \* tokens of open chats the phone got
  acked,    \* messages answered with a run id
  landed,   \* times the core took a message
  doubtful, \* messages, or 0 for a kickoff, that the phone was told have failed
            \* when the door had given up on them
  twins,    \* chats created beside another, by opens that met no other
  mixed,    \* chats re-resolved beside another request, or only half
  strayed   \* chats a request of which acted in a session not theirs

core == <<made, listed, rt, own, loads>>
chats == <<open, stored, handle, poll>>
history == <<told, acked, landed, doubtful, twins, mixed, strayed>>
vars == <<core, chats, refs, call, calls, late, faults, history>>

Off == -1
Ready == 0
NoRef == [chat |-> 0, runtime |-> 0, child |-> 0]
NoCall == [kind |-> "none", at |-> "none", chat |-> 0, req |-> 0, once |-> FALSE,
           msg |-> 0, met |-> FALSE, ref |-> NoRef]

\* Earlier opens have left any number of chats in the registry.
Init ==
  /\ made \in 0..MaxSessions /\ listed = 1..made /\ rt = [s \in Sessions |-> 0]
  /\ own = [r \in Runtimes |-> 0] /\ loads = 0
  /\ open = [t \in Tokens |-> FALSE]
  /\ stored = [t \in Tokens |-> 0] /\ handle = [t \in Tokens |-> 0]
  /\ poll = [t \in Tokens |-> Off]
  /\ refs = {} /\ call = [c \in Calls |-> NoCall] /\ calls = 0
  /\ late = {} /\ faults = 0
  /\ told = {} /\ acked = {} /\ landed = [m \in Messages |-> 0] /\ doubtful = {}
  /\ twins = {} /\ mixed = {} /\ strayed = {}

Loaded(r) == r # 0 /\ own[r] # 0 /\ rt[own[r]] = r

-----------------------------------------------------------------------------
(* The core on its own.                                                    *)

Unloads(s) ==
  /\ rt[s] # 0 /\ rt' = [rt EXCEPT ![s] = 0]
  /\ UNCHANGED <<made, listed, own, loads, chats, refs, call, calls, late, faults, history>>

Fault == faults < MaxFaults /\ faults' = faults + 1

Deleted(s) ==
  /\ s \in listed /\ Fault
  /\ listed' = listed \ {s} /\ rt' = [rt EXCEPT ![s] = 0]
  /\ UNCHANGED <<made, own, loads, chats, refs, call, calls, late, history>>

\* A prompt makes an unprompted session visible.
LateLands(p) ==
  /\ p \in late /\ late' = late \ {p}
  /\ IF Loaded(p.req)
     THEN /\ listed' = listed \cup {own[p.req]}
          /\ landed' = [m \in Messages |-> landed[m] + (IF m = p.msg THEN 1 ELSE 0)]
     ELSE UNCHANGED <<listed, landed>>
  /\ UNCHANGED <<made, rt, own, loads, chats, refs, call, calls, faults,
                 told, acked, doubtful, twins, mixed, strayed>>

\* session.resume loads a session that is not.
Load(s, r) ==
  IF rt[s] # 0 THEN r = rt[s] /\ UNCHANGED <<rt, own, loads>>
  ELSE /\ loads < MaxRuntimes /\ loads' = loads + 1 /\ r = loads'
       /\ rt' = [rt EXCEPT ![s] = r] /\ own' = [own EXCEPT ![r] = s]

-----------------------------------------------------------------------------
(* The phone's calls: each starts with the request of its first await.     *)

Out(t) == {c \in Calls : call[c].chat = t}
Opening == {c \in Calls : call[c].kind = "open"}
Goes(c, change) == call' = [call EXCEPT ![c] = change]

\* The calls that are out are kept in the order they began.
Ends(c) ==
  call' = [d \in Calls |-> IF d < c THEN call[d] ELSE IF d + 1 \in Calls THEN call[d + 1] ELSE NoCall]

Starts(c, t, new) ==
  /\ calls < MaxCalls /\ calls' = calls + 1
  /\ call[c] = NoCall /\ \A d \in 1..(c - 1) : call[d] # NoCall
  /\ IF t # 0 THEN t \in told /\ open[t] ELSE TRUE
  /\ Goes(c, [new EXCEPT !.chat = t])
  /\ mixed' = IF \E d \in Out(t) : call[d].once THEN mixed \cup ({t} \ {0}) ELSE mixed
  /\ UNCHANGED <<core, chats, refs, late, faults, told, acked, landed, doubtful, twins, strayed>>

StartsOpen(c) ==
  /\ calls < MaxCalls /\ calls' = calls + 1
  /\ call[c] = NoCall /\ \A d \in 1..(c - 1) : call[d] # NoCall
  /\ call' = [d \in Calls |->
       IF d = c THEN [NoCall EXCEPT !.kind = "open", !.at = "lookup", !.met = Opening # {}]
       ELSE IF d \in Opening THEN [call[d] EXCEPT !.met = TRUE] ELSE call[d]]
  /\ UNCHANGED <<core, chats, refs, late, faults, history>>

\* The phone sends a message again that it was not told of.
StartsSend(c) == \E t \in Tokens, m \in Messages \ acked :
  /\ \A d \in Calls : call[d].msg # m
  /\ \A n \in 1..(m - 1) : n \in acked
  /\ Starts(c, t, [NoCall EXCEPT !.kind = "send", !.at = "act", !.req = handle[t], !.msg = m])

\* The phone stops the run of a message it was answered.
StartsResume(c) == \E t \in Tokens, k \in {"stop", "list"} :
  /\ k = "stop" => acked # {}
  /\ Starts(c, t, [NoCall EXCEPT !.kind = k, !.at = "resume", !.req = stored[t]])

\* A steer, an interrupt or a tail: the ref is read, the session resumed.
StartsControl(c) == \E f \in refs :
  Starts(c, f.chat, [NoCall EXCEPT !.kind = "control", !.at = "resume",
                                  !.req = stored[f.chat], !.ref = f])

-----------------------------------------------------------------------------
(* What comes back.                                                        *)

Purged(t) == {f \in refs : f.chat # t}

\* Mutant: only sessions that are loaded are taken for the bot's chat.
Found_Loaded == {s \in listed : rt[s] # 0}

\* lookup_chat: the first of the listed sessions, in the core's order.
Found == listed

\* A re-resolution moves the chat to the session found before it is resumed.
Looks(c) ==
  /\ call[c].at = "lookup"
  /\ LET k == call[c]  t == k.chat IN
     IF Found = {}
     THEN /\ IF k.kind = "open" THEN Goes(c, [k EXCEPT !.at = "create"]) ELSE Ends(c)
          /\ UNCHANGED <<stored, mixed>>
     ELSE \E s \in Found :
          /\ Goes(c, [k EXCEPT !.at = "resume", !.req = s])
          /\ IF k.kind = "open" THEN UNCHANGED <<stored, mixed>>
             ELSE /\ stored' = [stored EXCEPT ![t] = s]
                  /\ mixed' = IF Out(t) # {c} \/ poll[t] > 0 THEN mixed \cup {t} ELSE mixed
  /\ UNCHANGED <<core, open, handle, poll, refs, calls, late, faults,
                 told, acked, landed, doubtful, twins, strayed>>

\* Tokens are random: one that nobody has any more stands for a new one.
Fresh == {t \in Tokens : ~open[t] /\ Out(t) = {} /\ Purged(t) = refs}

\* Mutant: the poll is started when the history has been read.
Mints_NoPoll(c, s, r) == \E t \in Fresh :
  /\ open' = [open EXCEPT ![t] = TRUE]
  /\ stored' = [stored EXCEPT ![t] = s] /\ handle' = [handle EXCEPT ![t] = r]
  /\ told' \in {told, told \cup {t}}
  /\ poll' = IF t \in told' THEN [poll EXCEPT ![t] = Ready] ELSE poll
  /\ mixed' = mixed \ {t} /\ strayed' = strayed \ {t}
  /\ Ends(c)

\* open_chat has a session: a token, a record and a poll.  Then fetch_history
\* fails and the open with it, or the answer finds no socket, and the phone
\* does not get the token.
Mints(c, s, r) == \E t \in Fresh :
  /\ open' = [open EXCEPT ![t] = TRUE]
  /\ stored' = [stored EXCEPT ![t] = s] /\ handle' = [handle EXCEPT ![t] = r]
  /\ told' \in {told, told \cup {t}}
  /\ poll' = [poll EXCEPT ![t] = Ready]
  /\ mixed' = mixed \ {t} /\ strayed' = strayed \ {t}
  /\ Ends(c)

\* Mutant: a ref is good for as long as it is in the map.
Revalidates_InMap(f, r) == f \in refs

\* _resolve_live_child: the ref is of the runtime the chat has now.
Revalidates(f, r) == f.runtime = r

\* The resume that stop, a listing, a control or a re-resolution asked for.
Resumes(c) ==
  /\ call[c].at = "resume" /\ call[c].req \in listed
  /\ \E r \in Runtimes : Load(call[c].req, r) /\
     LET k == call[c]  t == k.chat IN
     IF k.kind = "open" THEN Mints(c, k.req, r) /\ UNCHANGED refs
     ELSE /\ handle' = [handle EXCEPT ![t] = r]
          /\ refs' = IF k.kind = "list" \/ (k.kind = "control" /\ (r # handle[t] \/ ~Revalidates(k.ref, r)))
                     THEN Purged(t) ELSE refs
          /\ \/ /\ k.kind = "control" => Revalidates(k.ref, r)
                /\ Goes(c, [k EXCEPT !.at = "act", !.req = IF k.kind = "control" THEN k.ref.runtime ELSE r])
             \/ k.kind = "control" /\ ~Revalidates(k.ref, r) /\ Ends(c)
             \/ k.kind = "stop" /\ ~k.once /\ Ends(c) \* nothing runs: already_finished
          /\ UNCHANGED <<open, stored, poll, told, mixed, strayed>>
  /\ UNCHANGED <<made, listed, calls, late, faults, acked, landed, doubtful, twins>>

\* A re-resolution gave the chat its new session, and ends without a handle.
HalfMoved(c) ==
  mixed' = IF call[c].at = "resume" /\ call[c].once THEN mixed \cup {call[c].chat} ELSE mixed

\* A stop re-resolves a session that is not listed any more; others end.
ResumesNothing(c) ==
  /\ call[c].at = "resume" /\ call[c].req \notin listed
  /\ IF call[c].kind = "stop" /\ ~call[c].once
     THEN Goes(c, [call[c] EXCEPT !.at = "lookup", !.once = TRUE]) ELSE Ends(c)
  /\ HalfMoved(c)
  /\ UNCHANGED <<core, chats, refs, calls, late, faults, told, acked, landed, doubtful, twins, strayed>>

\* A session nobody has prompted yet is listed by no one.
Creates(c) ==
  /\ call[c].at = "create" /\ made < MaxSessions /\ made' = made + 1
  /\ \E r \in Runtimes : Load(made', r) /\ Goes(c, [call[c] EXCEPT !.at = "act", !.req = r])
  /\ UNCHANGED <<listed, chats, refs, calls, late, faults, history>>

\* The session a request acted in is the one of its chat.
Acts(t, r) == strayed' = IF own[r] # stored[t] THEN strayed \cup {t} ELSE strayed

KickoffLands(c) ==
  /\ call[c].at = "act" /\ call[c].kind = "open" /\ Loaded(call[c].req)
  /\ LET r == call[c].req IN
     /\ listed' = listed \cup {own[r]}
     /\ twins' = IF listed \ {own[r]} # {} /\ ~call[c].met THEN twins \cup {own[r]} ELSE twins
     /\ Mints(c, own[r], r)
  /\ UNCHANGED <<made, rt, own, loads, refs, calls, late, faults,
                 acked, landed, doubtful>>

\* prompt.submit and session.interrupt.
PromptLands(c) ==
  /\ call[c].at = "act" /\ call[c].kind \in {"send", "stop"} /\ Loaded(call[c].req)
  /\ LET k == call[c] IN
     /\ landed' = [m \in Messages |-> landed[m] + (IF m = k.msg THEN 1 ELSE 0)]
     /\ acked' = acked \cup ({k.msg} \ {0})
     /\ Acts(k.chat, k.req) /\ Ends(c)
  /\ UNCHANGED <<core, chats, refs, calls, late, faults, told, doubtful, twins, mixed>>

\* Mutant: the prompt is tried again when the door failed, too.
Reresolves_OfDoor(k, error) ==
  k.kind \in {"send", "stop"} /\ ~k.once /\ (error = "core" => ~Loaded(k.req))

\* One silent re-resolution, after the core's error that no such session is
\* loaded.
Reresolves(k, error) ==
  k.kind \in {"send", "stop"} /\ ~k.once /\ error = "core" /\ ~Loaded(k.req)

\* Any other error, of the core or of the door, ends the call.
Fails(c) ==
  /\ call[c].at \in {"lookup", "resume", "create", "act"}
  /\ IF call[c].at = "act" /\ Reresolves(call[c], "core")
     THEN Goes(c, [call[c] EXCEPT !.at = "lookup", !.once = TRUE]) ELSE Ends(c)
  /\ HalfMoved(c)
  /\ UNCHANGED <<core, chats, refs, calls, late, faults, told, acked, landed, doubtful, twins, strayed>>

\* The core took the prompt, or will, and the door gave up waiting.
Lost(c) ==
  /\ call[c].at = "act" /\ call[c].kind \in {"open", "send"} /\ Loaded(call[c].req)
  /\ Fault
  /\ LET k == call[c] IN
     /\ late' = late \cup {[req |-> k.req, msg |-> k.msg]}
     /\ IF Reresolves(k, "door")
        THEN Goes(c, [k EXCEPT !.at = "lookup", !.once = TRUE]) /\ UNCHANGED doubtful
        ELSE Ends(c) /\ doubtful' = doubtful \cup {k.msg}
  /\ UNCHANGED <<core, chats, refs, calls, told, acked, landed, twins, mixed, strayed>>

\* The session has a subagent, or none.  Its ref carries the handle the chat
\* has now, whatever was asked for.
ListReturns(c) ==
  /\ call[c].at = "act" /\ call[c].kind = "list" /\ Loaded(call[c].req)
  /\ LET k == call[c] IN
     refs' \in {refs, refs \cup {[chat |-> k.chat, runtime |-> handle[k.chat], child |-> k.req]}}
  /\ Ends(c)
  /\ UNCHANGED <<core, chats, calls, late, faults, history>>

\* The core finds a subagent under its own runtime only.
ControlLands(c) ==
  /\ call[c].at = "act" /\ call[c].kind = "control" /\ Loaded(call[c].req)
  /\ IF call[c].ref.child = call[c].req THEN Acts(call[c].chat, call[c].req) ELSE UNCHANGED strayed
  /\ Ends(c)
  /\ UNCHANGED <<core, chats, refs, calls, late, faults, told, acked, landed, doubtful, twins, mixed>>

-----------------------------------------------------------------------------
(* poll_loop, expire_chat, clear_chats.                                    *)

PollAsks(t) ==
  /\ poll[t] = Ready /\ poll' = [poll EXCEPT ![t] = stored[t]]
  /\ UNCHANGED <<core, open, stored, handle, refs, call, calls, late, faults, history>>

\* The handle is taken over, and the refs are not looked at.
PollHears(t) ==
  /\ poll[t] > 0 /\ poll' = [poll EXCEPT ![t] = Ready]
  /\ \/ UNCHANGED <<handle, rt, own, loads>>
     \/ /\ poll[t] \in listed
        /\ \E r \in Runtimes : Load(poll[t], r) /\ handle' = [handle EXCEPT ![t] = r]
  /\ UNCHANGED <<made, listed, open, stored, refs, call, calls, late, faults, history>>

\* Mutant: the token is forgotten and the poll not cancelled.
Expires_KeepsPoll(t) ==
  /\ open[t] /\ open' = [open EXCEPT ![t] = FALSE]
  /\ UNCHANGED poll /\ refs' = Purged(t)
  /\ told' = told \ {t}
  /\ UNCHANGED <<core, stored, handle, call, calls, late, faults, acked, landed, doubtful, twins, mixed, strayed>>

Expires(t) ==
  /\ open[t] /\ open' = [open EXCEPT ![t] = FALSE]
  /\ poll' = [poll EXCEPT ![t] = Off] /\ refs' = Purged(t)
  /\ told' = told \ {t}
  /\ UNCHANGED <<core, stored, handle, call, calls, late, faults, acked, landed, doubtful, twins, mixed, strayed>>

Close(t) == t \in told /\ Expires(t)
Idle(t) == poll[t] = Ready /\ Expires(t)

\* disconnect: chats, polls and refs go; calls that are out go on.
Clear ==
  /\ Fault
  /\ open' = [t \in Tokens |-> FALSE] /\ poll' = [t \in Tokens |-> Off] /\ refs' = {} /\ told' = {}
  /\ UNCHANGED <<core, stored, handle, call, calls, late, acked, landed, doubtful, twins, mixed, strayed>>

Next ==
  \/ \E s \in Sessions : Unloads(s) \/ Deleted(s)
  \/ \E p \in late : LateLands(p)
  \/ \E c \in Calls :
       \/ StartsOpen(c) \/ StartsSend(c) \/ StartsResume(c) \/ StartsControl(c)
       \/ Looks(c) \/ Resumes(c) \/ ResumesNothing(c) \/ Creates(c)
       \/ KickoffLands(c) \/ PromptLands(c) \/ ListReturns(c) \/ ControlLands(c)
       \/ Fails(c) \/ Lost(c)
  \/ \E t \in Tokens : PollAsks(t) \/ PollHears(t) \/ Close(t) \/ Idle(t)
  \/ Clear

Spec == Init /\ [][Next]_vars

\* A poll's request is answered or given up; a chat nobody touches becomes
\* idle, and the poll notices.
Fairness == \A t \in Tokens :
  WF_vars(PollHears(t)) /\ SF_vars(t \notin told /\ Idle(t))

FairSpec == Spec /\ Fairness

-----------------------------------------------------------------------------
(* Properties.                                                             *)

Refs == [chat : Tokens, runtime : Runtimes, child : Runtimes]

\* Every variable has its type, and a chat is polled just as long as it is
\* open (the poll task of poll_loop, the token in _bot_chats).
TypeOK ==
  /\ made \in 0..MaxSessions /\ listed \subseteq 1..made
  /\ rt \in [Sessions -> 0..loads] /\ own \in [Runtimes -> 0..made] /\ loads \in 0..MaxRuntimes
  /\ open \in [Tokens -> BOOLEAN]
  /\ stored \in [Tokens -> 0..made] /\ handle \in [Tokens -> 0..loads]
  /\ poll \in [Tokens -> Off..made] /\ \A t \in Tokens : open[t] <=> poll[t] # Off
  /\ refs \subseteq Refs
  /\ call \in [Calls -> [kind : {"none", "open", "send", "stop", "list", "control"},
                         at : {"none", "lookup", "resume", "create", "act"},
                         chat : 0..MaxTokens, req : 0..(MaxSessions + MaxRuntimes), once : BOOLEAN,
                         msg : 0..MaxMessages, met : BOOLEAN, ref : Refs \cup {NoRef}]]
  /\ calls \in 0..MaxCalls /\ faults \in 0..MaxFaults
  /\ late \subseteq [req : Runtimes, msg : 0..MaxMessages]
  /\ told \subseteq Tokens /\ acked \subseteq Messages /\ landed \in [Messages -> Nat]
  /\ doubtful \subseteq 0..MaxMessages
  /\ twins \subseteq Sessions /\ mixed \subseteq Tokens /\ strayed \subseteq Tokens

\* A bot has one forever-chat: an open creates a second one only if another
\* open was out meanwhile (both looked before either prompted), or a kickoff
\* whose answer was given up came to life later (open_chat).
NoTwinChat == twins = {} \/ 0 \in doubtful

\* The core takes a message once, however often the phone sends it again
\* after an error and whatever was re-resolved: an error told to the phone
\* means the message was not taken, except a door that gave up on its answer
\* (prompt_chat, _local_rpc).
MessageTakenOnce == \A m \in Messages : landed[m] <= 1 \/ m \in doubtful

\* A prompt, an interrupt or a subagent's control acts in the session its
\* chat stands for, through every unloading, deletion and re-resolution,
\* unless a re-resolution of the chat met another request, or ended between
\* its two halves: stored_id is set before the handle (prompt_chat,
\* stop_chat, reresolve_chat, _resolve_live_child).
ActsInItsSession == strayed \subseteq mixed

\* A chat the phone never got the token of, because its open failed after
\* the token was minted or the answer was lost, is expired by its own poll
\* (open_chat, poll_loop, expire_chat).
UnknownChatExpires ==
  \A t \in Tokens : open[t] /\ t \notin told ~> ~open[t] \/ t \in told
=============================================================================
