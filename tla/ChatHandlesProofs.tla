-------------------------- MODULE ChatHandlesProofs --------------------------
(***************************************************************************)
(* Theorems about ChatHandles, for every value of its constants.           *)
(***************************************************************************)
EXTENDS ChatHandles, TLAPS

\* The parts of TypeOK; a runtime of a session is its own.
CoreInv ==
  /\ made \in 0..MaxSessions /\ listed \subseteq 1..made /\ loads \in 0..MaxRuntimes
  /\ rt \in [Sessions -> 0..loads] /\ own \in [Runtimes -> 0..made]
  /\ \A s \in Sessions : rt[s] # 0 => own[rt[s]] = s
ChatNumbers ==
  /\ stored \in [Tokens -> 0..made] /\ handle \in [Tokens -> 0..loads]
  /\ poll \in [Tokens -> Off..made]
ChatFlags ==
  /\ open \in [Tokens -> BOOLEAN] /\ \A t \in Tokens : open[t] <=> poll[t] # Off
  /\ \A t \in Tokens : open[t] => handle[t] # 0
  /\ told \subseteq Tokens /\ refs \subseteq Refs
CallRecs == [kind : {"none", "open", "send", "stop", "list", "control"},
             at : {"none", "lookup", "resume", "create", "act"},
             chat : 0..MaxTokens, req : 0..(MaxSessions + MaxRuntimes), once : BOOLEAN,
             msg : 0..MaxMessages, met : BOOLEAN, ref : Refs \cup {NoRef}]
Rest ==
  /\ calls \in 0..MaxCalls /\ faults \in 0..MaxFaults
  /\ late \subseteq [req : Runtimes, msg : 0..MaxMessages]
  /\ acked \subseteq Messages /\ landed \in [Messages -> Nat]
  /\ doubtful \subseteq 0..MaxMessages
  /\ twins \subseteq Sessions /\ mixed \subseteq Tokens /\ strayed \subseteq Tokens

\* What a call is for: an open has no chat yet, every other has one, with a
\* handle; only a send carries a message; only a send and a stop look a session
\* up again.
Sane(k) ==
  /\ k.kind = "none" => k = NoCall
  /\ k.kind = "open" => k.chat = 0
  /\ k.kind \notin {"none", "open"} => k.chat \in Tokens /\ handle[k.chat] # 0
  /\ k.msg # 0 => k.kind = "send"
  /\ k.at = "lookup" /\ k.kind # "open" => k.once
  /\ k.once => k.kind \in {"send", "stop"}
  /\ k.at = "create" => k.kind = "open"
  /\ k.at = "act" => k.req <= loads
CallInv == call \in [Calls -> CallRecs] /\ \A c \in Calls : Sane(call[c])

\* A message is with one call at most, and with none once it is acked; a message
\* that is not doubtful was taken by the call that acked it, and by no other.
MessageInv ==
  /\ \A p \in late : p.msg \in doubtful
  /\ \A c \in Calls : call[c].msg \notin acked
  /\ \A c, d \in Calls : c # d /\ call[c].msg # 0 => call[c].msg # call[d].msg
  /\ \A m \in Messages : m \in doubtful \/ landed[m] = 0 \/ (landed[m] = 1 /\ m \in acked)

\* A loaded session that is not listed has not been prompted: no chat has its
\* runtime, and only an open is about to act in it.
Prompted(r) == Loaded(r) => own[r] \in listed
PromptedInv ==
  /\ \A t \in Tokens : Prompted(handle[t])
  /\ \A c \in Calls : call[c].at = "act" /\ call[c].kind # "open" => Prompted(call[c].req)
  /\ \A p \in late : p.req <= loads /\ (p.msg # 0 => Prompted(p.req))

\* While an open that met no other is creating a chat, there is none.
TwinInv ==
  /\ \A c, d \in Opening : c # d => call[c].met
  /\ 0 \notin doubtful =>
       /\ twins = {}
       /\ \A c \in Opening : call[c].at \in {"create", "act"} /\ ~call[c].met => listed = {}

\* A chat that is not mixed: its poll and its calls are for the session it stands
\* for, and so is its handle, but between the halves of a re-resolution.
HalfWay(t) == \E c \in Out(t) : call[c].once /\ call[c].at = "resume"
IsOf(r, s) == r = 0 \/ own[r] = s
AtHome(k, s) ==
  /\ k.at = "resume" => k.req = s
  /\ k.at = "act" => IsOf(k.req, s)
Home(t) ==
  /\ t \notin strayed
  /\ poll[t] > 0 => poll[t] = stored[t]
  /\ IsOf(handle[t], stored[t]) \/ HalfWay(t)
  /\ \A c \in Out(t) : AtHome(call[c], stored[t])
HomeInv == \A t \in Tokens : t \in mixed \/ Home(t)

IInv ==
  /\ CoreInv /\ ChatNumbers /\ ChatFlags /\ CallInv /\ Rest
  /\ MessageInv /\ PromptedInv /\ TwinInv /\ HomeInv

-----------------------------------------------------------------------------
(* The calls that are out, after one of them has gone on or ended.         *)

\* The call of slot c is k now, or gone; the others are there, each once.
Shifted(c, k) ==
  \E f \in [Calls -> Nat] :
    /\ \A d, e \in Calls : f[d] = f[e] => d = e
    /\ \A d \in Calls : call'[d] = IF f[d] \notin Calls THEN NoCall
                                   ELSE IF f[d] = c THEN k ELSE call[f[d]]
    /\ \A e \in Calls \ {c} : \E d \in Calls : f[d] = e
    /\ call' \in [Calls -> {call'[d] : d \in Calls}]

LEMMA NoCallFacts ==
  /\ NoCall \in CallRecs /\ Sane(NoCall) /\ Sane(NoCall)'
  /\ NoCall.kind = "none" /\ NoCall.at = "none" /\ NoCall.chat = 0 /\ NoCall.msg = 0 /\ ~NoCall.once
<1>1. NoCall \in CallRecs
  BY ChatHandlesAssumption DEF NoCall, CallRecs
<1>2. QED
  BY <1>1 DEF NoCall, Sane

LEMMA GoesShifts ==
  ASSUME call \in [Calls -> CallRecs], NEW c \in Calls, NEW k, Goes(c, k)
  PROVE  Shifted(c, k)
<1> DEFINE f == [d \in Calls |-> d]
<1>1. f \in [Calls -> Nat] /\ \A d \in Calls : f[d] = d
  BY ChatHandlesAssumption DEF Calls
<1>2. \A d \in Calls : call'[d] = IF d = c THEN k ELSE call[d]
  BY DEF Goes
<1>3. call' \in [Calls -> {call'[d] : d \in Calls}]
  BY DEF Goes
<1> HIDE DEF f
<1>4. QED
  BY <1>1, <1>2, <1>3 DEF Shifted

LEMMA EndsShifts ==
  ASSUME call \in [Calls -> CallRecs], NEW c \in Calls, Ends(c)
  PROVE  Shifted(c, NoCall)
<1> DEFINE f == [d \in Calls |-> IF d < c THEN d ELSE d + 1]
<1>1. Calls \subseteq Nat /\ c \in Nat
  BY DEF Calls
<1>2. f \in [Calls -> Nat] /\ \A d \in Calls : f[d] = IF d < c THEN d ELSE d + 1
  BY <1>1
<1>3. \A d, e \in Calls : f[d] = f[e] => d = e
  BY <1>1, <1>2
<1>4. \A d \in Calls : f[d] # c
  BY <1>1, <1>2
<1>5. \A d \in Calls : call'[d] = IF d < c THEN call[d] ELSE IF d + 1 \in Calls THEN call[d + 1] ELSE NoCall
  BY DEF Ends
<1>6. \A d \in Calls : call'[d] = IF f[d] \notin Calls THEN NoCall ELSE call[f[d]]
  BY <1>2, <1>5
<1>7. \A e \in Calls \ {c} : \E d \in Calls : f[d] = e
  <2> SUFFICES ASSUME NEW e \in Calls, e # c PROVE \E d \in Calls : f[d] = e
    OBVIOUS
  <2>1. CASE e < c
    BY <1>2, <2>1
  <2>2. CASE e > c
    <3>1. e - 1 \in Calls /\ ~(e - 1 < c) /\ (e - 1) + 1 = e
      BY <2>2, ChatHandlesAssumption DEF Calls
    <3>2. QED
      BY <1>2, <3>1
  <2>3. QED
    BY <1>1, <2>1, <2>2
<1>8. call' \in [Calls -> {call'[d] : d \in Calls}]
  BY DEF Ends
<1> HIDE DEF f
<1>9. QED
  BY <1>2, <1>3, <1>4, <1>6, <1>7, <1>8 DEF Shifted

\* What that means for a fact about every call, and for one about some call.
LEMMA ShiftedCalls ==
  ASSUME NEW c \in Calls, NEW k, Shifted(c, k)
  PROVE  /\ \A d \in Calls : call'[d] = NoCall \/ call'[d] = k
                             \/ \E e \in Calls : e # c /\ call'[d] = call[e]
         /\ \A e \in Calls : e # c => \E d \in Calls : call'[d] = call[e]
BY DEF Shifted

\* Every call stays sane, if the one that moves does.
LEMMA CallsSane ==
  ASSUME CallInv, NEW c \in Calls, NEW k \in CallRecs, Shifted(c, k), Sane(k)',
         loads \in Nat, loads' \in Nat, loads <= loads',
         \A t \in Tokens : handle[t] # 0 => handle'[t] # 0
  PROVE  CallInv'
<1>1. \A d \in Calls : call'[d] \in CallRecs /\ Sane(call[d])'
  <2> SUFFICES ASSUME NEW d \in Calls PROVE call'[d] \in CallRecs /\ Sane(call[d])'
    OBVIOUS
  <2>1. CASE call'[d] = NoCall
    BY <2>1, NoCallFacts
  <2>2. CASE call'[d] = k
    BY <2>2
  <2>3. CASE \E e \in Calls : e # c /\ call'[d] = call[e]
    <3>1. PICK e \in Calls : call'[d] = call[e]
      BY <2>3
    <3>2. call[e] \in CallRecs /\ Sane(call[e])
      BY DEF CallInv
    <3>3. call[e].req \in Int
      BY <3>2, ChatHandlesAssumption DEF CallRecs
    <3>4. QED
      BY <3>1, <3>2, <3>3 DEF Sane
  <2>4. QED
    BY <2>1, <2>2, <2>3, ShiftedCalls
<1>2. call' \in [Calls -> CallRecs]
  BY <1>1 DEF Shifted
<1>3. QED
  BY <1>1, <1>2 DEF CallInv

\* A message stays with one call.
LEMMA CallsMessages ==
  ASSUME CallInv, MessageInv, NEW c \in Calls, NEW k, Shifted(c, k),
         k.msg = 0 \/ k.msg = call[c].msg \/ \A d \in Calls : call[d].msg # k.msg
  PROVE  \A d, e \in Calls : d # e /\ call'[d].msg # 0 => call'[d].msg # call'[e].msg
<1>1. PICK f \in [Calls -> Nat] :
        /\ \A d, e \in Calls : f[d] = f[e] => d = e
        /\ \A d \in Calls : call'[d] = IF f[d] \notin Calls THEN NoCall
                                       ELSE IF f[d] = c THEN k ELSE call[f[d]]
  BY DEF Shifted
<1> SUFFICES ASSUME NEW d \in Calls, NEW e \in Calls, d # e, call'[d].msg # 0
             PROVE  call'[d].msg # call'[e].msg
  OBVIOUS
<1>2. f[d] # f[e] /\ f[d] \in Calls
  BY <1>1, NoCallFacts
<1>3. CASE f[e] \notin Calls
  BY <1>1, <1>3, NoCallFacts
<1>4. CASE f[e] \in Calls
  <2>1. \A a, b \in Calls : a # b /\ call[a].msg # 0 => call[a].msg # call[b].msg
    BY DEF MessageInv
  <2>2. CASE f[d] = c
    BY <1>1, <1>2, <1>4, <2>1, <2>2
  <2>3. CASE f[e] = c
    BY <1>1, <1>2, <1>4, <2>1, <2>3
  <2>4. CASE f[d] # c /\ f[e] # c
    BY <1>1, <1>2, <1>4, <2>1, <2>4
  <2>5. QED
    BY <2>2, <2>3, <2>4
<1>5. QED
  BY <1>3, <1>4

\* All that most of the invariant asks of the calls: each is the moved one or
\* one of the others.
Known(c, k) ==
  \A d \in Calls : call'[d] = NoCall \/ call'[d] = k \/ \E e \in Calls : e # c /\ call'[d] = call[e]

LEMMA CallsKnown ==
  /\ \A c \in Calls : \A k : Shifted(c, k) => Known(c, k)
  /\ call' = call => Known(0, NoCall)
<1>1. ASSUME NEW c \in Calls, NEW k, Shifted(c, k) PROVE Known(c, k)
  BY <1>1, ShiftedCalls DEF Known
<1>2. ASSUME call' = call PROVE Known(0, NoCall)
  <2>1. 0 \notin Calls
    BY ChatHandlesAssumption DEF Calls
  <2>2. QED
    BY <1>2, <2>1 DEF Known
<1>3. QED
  BY <1>1, <1>2

-----------------------------------------------------------------------------
(* The core: sessions and runtimes are only added, a runtime stays its       *)
(* session's, and a prompted one stays prompted.                             *)

CoreStep ==
  /\ CoreInv' /\ made <= made' /\ loads <= loads'
  /\ \A r \in 1..loads : own'[r] = own[r]
  /\ \A r \in 0..loads : Prompted(r) => Prompted(r)'

LEMMA CoreSame ==
  ASSUME CoreInv, UNCHANGED core
  PROVE  CoreStep
<1>1. made' = made /\ listed' = listed /\ rt' = rt /\ own' = own /\ loads' = loads
  BY DEF core
<1>2. QED
  BY <1>1, ChatHandlesAssumption DEF CoreStep, CoreInv, Prompted, Loaded

\* Whatever is loaded, a session keeps its runtime or gets the next.
LEMMA Loading ==
  ASSUME CoreInv, NEW s \in 1..made', NEW r \in Runtimes, Load(s, r),
         made' \in made..MaxSessions, listed' = listed
  PROVE  /\ CoreStep /\ own'[r] = s /\ r \in 1..loads'
         /\ s \in listed => Prompted(r)'
<1>1. made \in Nat /\ loads \in Nat /\ loads <= MaxRuntimes /\ made' \in Nat /\ r \in Nat /\ s \in Nat
  BY ChatHandlesAssumption DEF CoreInv, Runtimes
<1>2. s \in Sessions /\ rt[s] \in 0..loads
  BY <1>1, ChatHandlesAssumption DEF CoreInv, Sessions
<1>3. \A x \in Sessions : rt[x] \in 0..loads /\ (rt[x] # 0 => own[rt[x]] = x)
  BY DEF CoreInv
<1>4. \A x \in Runtimes : own[x] \in 0..made
  BY DEF CoreInv
<1>5. listed' \subseteq 1..made'
  BY <1>1 DEF CoreInv
<1>6. CASE rt[s] # 0
  <2>1. r = rt[s] /\ rt' = rt /\ own' = own /\ loads' = loads
    BY <1>6 DEF Load
  <2>2. own[r] = s
    BY <1>2, <1>3, <1>6, <2>1
  <2>3. CoreInv'
    BY <1>1, <1>3, <1>4, <1>5, <2>1, ChatHandlesAssumption DEF CoreInv
  <2>4. \A x \in 0..loads : Prompted(x) => Prompted(x)'
    BY <2>1 DEF Prompted, Loaded
  <2>5. s \in listed => Prompted(r)'
    BY <2>1, <2>2 DEF Prompted, Loaded
  <2>6. QED
    BY <1>1, <1>2, <1>6, <2>1, <2>2, <2>3, <2>4, <2>5 DEF CoreStep
<1>7. CASE rt[s] = 0
  <2>1. /\ loads < MaxRuntimes /\ loads' = loads + 1 /\ r = loads + 1
        /\ rt' = [rt EXCEPT ![s] = r] /\ own' = [own EXCEPT ![r] = s]
    BY <1>7 DEF Load
  <2>2. own'[r] = s /\ \A x \in Runtimes : x # r => own'[x] = own[x]
    BY <2>1 DEF CoreInv
  <2>3. rt'[s] = r /\ \A x \in Sessions : x # s => rt'[x] = rt[x]
    BY <1>2, <2>1 DEF CoreInv
  <2>4. \A x \in 1..loads : x \in Runtimes /\ x # r
    BY <1>1, <2>1, ChatHandlesAssumption DEF Runtimes
  <2>5. rt' \in [Sessions -> 0..loads'] /\ own' \in [Runtimes -> 0..made']
    <3>1. rt \in [Sessions -> 0..loads'] /\ r \in 0..loads'
      BY <1>1, <2>1 DEF CoreInv
    <3>2. own \in [Runtimes -> 0..made'] /\ s \in 0..made'
      BY <1>1 DEF CoreInv
    <3>3. QED
      BY <2>1, <3>1, <3>2
  <2>6. \A x \in Sessions : rt'[x] # 0 => own'[rt'[x]] = x
    <3> SUFFICES ASSUME NEW x \in Sessions, rt'[x] # 0 PROVE own'[rt'[x]] = x
      OBVIOUS
    <3>1. CASE x = s
      BY <2>2, <2>3, <3>1
    <3>2. CASE x # s
      <4>1. rt'[x] = rt[x] /\ rt[x] \in 1..loads
        BY <1>1, <1>3, <2>3, <3>2
      <4>2. QED
        BY <1>3, <2>2, <2>4, <4>1
    <3>3. QED
      BY <3>1, <3>2
  <2>7. CoreInv'
    BY <1>1, <1>5, <2>1, <2>5, <2>6, ChatHandlesAssumption DEF CoreInv
  <2>8. ASSUME NEW x \in 0..loads, Prompted(x) PROVE Prompted(x)'
    <3> SUFFICES ASSUME x # 0, own'[x] # 0, rt'[own'[x]] = x PROVE own'[x] \in listed'
      BY DEF Prompted, Loaded
    <3>1. own'[x] = own[x] /\ x # r /\ own[x] \in Sessions
      <4>1. x \in 1..loads
        OBVIOUS
      <4>2. x \in Runtimes /\ x # r
        BY <2>4, <4>1
      <4>3. own'[x] = own[x]
        BY <2>2, <4>2
      <4>4. own[x] \in 0..made
        BY <1>4, <4>2
      <4>5. QED
        BY <1>1, <4>2, <4>3, <4>4, ChatHandlesAssumption DEF Sessions
    <3>2. own[x] # s
      BY <2>3, <3>1
    <3>3. rt[own[x]] = x
      BY <2>3, <3>1, <3>2
    <3>4. QED
      BY <2>8, <3>1, <3>3 DEF Prompted, Loaded
  <2>9. s \in listed => Prompted(r)'
    BY <2>2 DEF Prompted, Loaded
  <2>10. QED
    BY <1>1, <2>1, <2>2, <2>4, <2>7, <2>8, <2>9 DEF CoreStep
<1>8. QED
  BY <1>6, <1>7

\* A session that is unloaded, and one that is deleted as well.
LEMMA Unloading ==
  ASSUME CoreInv, NEW s \in Sessions, rt' = [rt EXCEPT ![s] = 0],
         listed' = listed \/ listed' = listed \ {s}, UNCHANGED <<made, own, loads>>
  PROVE  CoreStep
<1>1. made' = made /\ own' = own /\ loads' = loads
  OBVIOUS
<1>2. \A x \in Sessions : rt'[x] = IF x = s THEN 0 ELSE rt[x]
  BY DEF CoreInv
<1>3. rt' \in [Sessions -> 0..loads']
  BY <1>1, ChatHandlesAssumption DEF CoreInv
<1>4. CoreInv'
  BY <1>1, <1>2, <1>3 DEF CoreInv
<1>5. ASSUME NEW x \in 0..loads, Prompted(x) PROVE Prompted(x)'
  <2> SUFFICES ASSUME x # 0, own[x] # 0, rt'[own[x]] = x PROVE own[x] \in listed'
    BY <1>1 DEF Prompted, Loaded
  <2>1. own[x] \in Sessions
    <3>1. x \in Runtimes
      BY ChatHandlesAssumption DEF CoreInv, Runtimes
    <3>2. own[x] \in 0..made /\ made \in 0..MaxSessions
      BY <3>1 DEF CoreInv
    <3>3. QED
      BY <3>2, ChatHandlesAssumption DEF Sessions
  <2>2. own[x] # s /\ rt[own[x]] = x
    BY <1>2, <2>1
  <2>3. QED
    BY <1>5, <2>2 DEF Prompted, Loaded
<1>6. QED
  BY <1>1, <1>4, <1>5, ChatHandlesAssumption DEF CoreStep, CoreInv

\* A prompt that makes its session visible.
LEMMA Showing ==
  ASSUME CoreInv, NEW r \in Runtimes, Loaded(r), listed' = listed \cup {own[r]},
         UNCHANGED <<made, rt, own, loads>>
  PROVE  CoreStep /\ Prompted(r)'
<1>1. own[r] \in 1..made
  <2>1. own[r] \in 0..made /\ own[r] # 0 /\ made \in Nat
    BY ChatHandlesAssumption DEF CoreInv, Loaded
  <2>2. QED
    BY <2>1
<1>2. CoreInv'
  BY <1>1 DEF CoreInv
<1>3. \A x \in 0..loads : Prompted(x) => Prompted(x)'
  BY DEF Prompted, Loaded
<1>4. QED
  BY <1>1, <1>2, <1>3, ChatHandlesAssumption DEF CoreStep, CoreInv, Prompted, Loaded

-----------------------------------------------------------------------------
(* The parts of the invariant that a step of a call can disturb.           *)

LEMMA NumbersKept ==
  ASSUME CoreInv, CoreStep, ChatNumbers
  PROVE  /\ made \in Nat /\ made' \in Nat /\ made <= made'
         /\ loads \in Nat /\ loads' \in Nat /\ loads <= loads'
         /\ \A t \in Tokens : stored[t] \in 0..made' /\ handle[t] \in 0..loads' /\ poll[t] \in Off..made'
         /\ stored \in [Tokens -> 0..made'] /\ handle \in [Tokens -> 0..loads']
         /\ poll \in [Tokens -> Off..made']
<1>1. /\ made \in Nat /\ made' \in Nat /\ made <= made'
      /\ loads \in Nat /\ loads' \in Nat /\ loads <= loads'
  BY ChatHandlesAssumption DEF CoreInv, CoreStep
<1>2. 0..made \subseteq 0..made' /\ 0..loads \subseteq 0..loads' /\ Off..made \subseteq Off..made'
  BY <1>1 DEF Off
<1>3. QED
  BY <1>1, <1>2 DEF ChatNumbers

\* A call about to act in a chat's session acts in one that has been prompted.
LEMMA CallsPrompted ==
  ASSUME CallInv, CoreInv, CoreStep, PromptedInv, NEW c, NEW k, Known(c, k),
         k.at = "act" /\ k.kind # "open" => Prompted(k.req)'
  PROVE  \A d \in Calls : call'[d].at = "act" /\ call'[d].kind # "open" => Prompted(call[d].req)'
<1> SUFFICES ASSUME NEW d \in Calls, call'[d].at = "act", call'[d].kind # "open"
             PROVE  Prompted(call[d].req)'
  OBVIOUS
<1>1. CASE call'[d] = NoCall
  BY <1>1, NoCallFacts
<1>2. CASE call'[d] = k
  BY <1>2
<1>3. CASE \E e \in Calls : e # c /\ call'[d] = call[e]
  <2>1. PICK e \in Calls : call'[d] = call[e]
    BY <1>3
  <2>2. call[e] \in CallRecs /\ Sane(call[e])
    BY DEF CallInv
  <2>3. call[e].req \in 0..loads
    BY <2>1, <2>2, ChatHandlesAssumption DEF CallRecs, Sane, CoreInv
  <2>4. PICK r \in 0..loads : r = call[e].req
    BY <2>3
  <2>5. Prompted(r)
    BY <2>1, <2>4 DEF PromptedInv
  <2>6. Prompted(r)' /\ call'[d].req = r
    BY <2>1, <2>4, <2>5 DEF CoreStep
  <2>7. QED
    BY <2>6 DEF Prompted, Loaded
<1>4. QED
  BY <1>1, <1>2, <1>3 DEF Known

\* Two opens have met, and one that met no other is alone.
LEMMA CallsTwins ==
  ASSUME CallInv, TwinInv, NEW c \in Calls, NEW k, Shifted(c, k),
         k.kind = "open" => call[c].kind = "open" /\ k.met = call[c].met
  PROVE  \A d, e \in Opening' : d # e => call'[d].met
<1>1. PICK f \in [Calls -> Nat] :
        /\ \A d, e \in Calls : f[d] = f[e] => d = e
        /\ \A d \in Calls : call'[d] = IF f[d] \notin Calls THEN NoCall
                                       ELSE IF f[d] = c THEN k ELSE call[f[d]]
  BY DEF Shifted
<1> SUFFICES ASSUME NEW d \in Calls, NEW e \in Calls, d # e, call'[d].kind = "open", call'[e].kind = "open"
             PROVE  call'[d].met
  BY DEF Opening
<1>2. f[d] # f[e] /\ f[d] \in Calls /\ f[e] \in Calls
  BY <1>1, NoCallFacts
<1>3. call[f[d]].kind = "open" /\ call[f[e]].kind = "open" /\ call'[d].met = call[f[d]].met
  BY <1>1, <1>2
<1>4. QED
  BY <1>2, <1>3 DEF TwinInv, Opening

LEMMA CallsAlone ==
  ASSUME TwinInv, NEW c, NEW k, Known(c, k), 0 \notin doubtful,
         k.kind = "open" /\ k.at \in {"create", "act"} /\ ~k.met => listed' = {},
         \A e \in Opening : e # c /\ listed = {} /\ ~call[e].met => listed' = {}
  PROVE  \A d \in Opening' : call'[d].at \in {"create", "act"} /\ ~call'[d].met => listed' = {}
<1> SUFFICES ASSUME NEW d \in Calls, call'[d].kind = "open", call'[d].at \in {"create", "act"}, ~call'[d].met
             PROVE  listed' = {}
  BY DEF Opening
<1>1. CASE call'[d] = NoCall
  BY <1>1, NoCallFacts
<1>2. CASE call'[d] = k
  BY <1>2
<1>3. CASE \E e \in Calls : e # c /\ call'[d] = call[e]
  BY <1>3 DEF TwinInv, Opening
<1>4. QED
  BY <1>1, <1>2, <1>3 DEF Known

\* A chat stays half way through a re-resolution until that call moves.
LEMMA HalfWayStays ==
  ASSUME NEW t \in Tokens, HalfWay(t), NEW c \in Calls, NEW k, Shifted(c, k),
         ~(call[c].chat = t /\ call[c].once /\ call[c].at = "resume")
  PROVE  HalfWay(t)'
<1>1. PICK e \in Calls : call[e].chat = t /\ call[e].once /\ call[e].at = "resume"
  BY DEF HalfWay, Out
<1>2. PICK d \in Calls : call'[d] = call[e]
  BY <1>1, ShiftedCalls
<1>3. QED
  BY <1>1, <1>2 DEF HalfWay, Out

\* A runtime that is of a session stays so.
LEMMA IsOfStays ==
  ASSUME CoreInv, CoreStep, NEW r \in 0..loads, NEW s, IsOf(r, s)
  PROVE  r = 0 \/ own'[r] = s
<1>1. r = 0 \/ r \in 1..loads
  BY ChatHandlesAssumption DEF CoreInv
<1>2. QED
  BY <1>1 DEF IsOf, CoreStep

\* The calls of a chat stay at home, if the one that moves does.
LEMMA CallsAtHome ==
  ASSUME CallInv, CoreInv, CoreStep, NEW t \in Tokens, NEW c, NEW k, Known(c, k),
         \A d \in Out(t) : d # c => AtHome(call[d], stored'[t]),
         k.chat = t => (k.at = "resume" => k.req = stored'[t])
                       /\ (k.at = "act" => k.req = 0 \/ own'[k.req] = stored'[t])
  PROVE  \A d \in Out(t)' : AtHome(call[d], stored[t])'
<1> SUFFICES ASSUME NEW d \in Calls, call'[d].chat = t
             PROVE  /\ call'[d].at = "resume" => call'[d].req = stored'[t]
                    /\ call'[d].at = "act" => call'[d].req = 0 \/ own'[call'[d].req] = stored'[t]
  BY DEF Out, AtHome, IsOf
<1>1. CASE call'[d] = NoCall
  BY <1>1, NoCallFacts
<1>2. CASE call'[d] = k
  BY <1>2
<1>3. CASE \E e \in Calls : e # c /\ call'[d] = call[e]
  <2>1. PICK e \in Calls : e # c /\ call'[d] = call[e]
    BY <1>3
  <2>2. AtHome(call[e], stored'[t])
    BY <2>1 DEF Out
  <2>3. call[e] \in CallRecs /\ Sane(call[e])
    BY DEF CallInv
  <2>4. CASE call[e].at = "act"
    <3>1. call[e].req \in 0..loads
      BY <2>3, <2>4, ChatHandlesAssumption DEF CallRecs, Sane, CoreInv
    <3>2. IsOf(call[e].req, stored'[t])
      BY <2>2, <2>4 DEF AtHome
    <3>3. call[e].req = 0 \/ own'[call[e].req] = stored'[t]
      BY <3>1, <3>2, IsOfStays
    <3>4. QED
      BY <2>1, <2>4, <3>3
  <2>5. CASE call[e].at # "act"
    BY <2>1, <2>2, <2>5 DEF AtHome
  <2>6. QED
    BY <2>4, <2>5
<1>4. QED
  BY <1>1, <1>2, <1>3 DEF Known

\* The calls' part of the invariant, when none moves and when one does.
CallsOK ==
  /\ CallInv
  /\ \A c \in Calls : call[c].at = "act" /\ call[c].kind # "open" => Prompted(call[c].req)
  /\ \A c, d \in Calls : c # d /\ call[c].msg # 0 => call[c].msg # call[d].msg
  /\ \A c, d \in Opening : c # d => call[c].met

LEMMA CallsStill ==
  ASSUME IInv, CoreStep, call' = call,
         \A t \in Tokens : handle[t] # 0 => handle'[t] # 0
  PROVE  CallsOK'
<1>1. CoreInv /\ CallInv /\ ChatNumbers /\ PromptedInv /\ MessageInv /\ TwinInv
  BY DEF IInv
<1>2. CallInv'
  <2>1. \A c \in Calls : Sane(call[c]) /\ call[c].req \in Int
    BY <1>1, ChatHandlesAssumption DEF CallInv, CallRecs
  <2>2. \A c \in Calls : Sane(call[c])'
    BY <1>1, <2>1, NumbersKept DEF Sane
  <2>3. QED
    BY <1>1, <2>2 DEF CallInv
<1>3. \A d \in Calls : call'[d].at = "act" /\ call'[d].kind # "open" => Prompted(call[d].req)'
  BY <1>1, CallsKnown, CallsPrompted, NoCallFacts
<1>4. \A c, d \in Calls : c # d /\ call'[c].msg # 0 => call'[c].msg # call'[d].msg
  BY <1>1 DEF MessageInv
<1>5. \A c, d \in Opening' : c # d => call'[c].met
  BY <1>1 DEF TwinInv, Opening
<1>6. QED
  BY <1>2, <1>3, <1>4, <1>5 DEF CallsOK

LEMMA CallsMove ==
  ASSUME IInv, CoreStep, NEW c \in Calls, NEW k \in CallRecs, Shifted(c, k), Sane(k)',
         k.msg = 0 \/ k.msg = call[c].msg \/ \A d \in Calls : call[d].msg # k.msg,
         k.at = "act" /\ k.kind # "open" => Prompted(k.req)',
         k.kind = "open" => call[c].kind = "open" /\ k.met = call[c].met,
         \A t \in Tokens : handle[t] # 0 => handle'[t] # 0
  PROVE  CallsOK'
<1>1. CoreInv /\ CallInv /\ ChatNumbers /\ PromptedInv /\ MessageInv /\ TwinInv
  BY DEF IInv
<1>2. CallInv'
  BY <1>1, NumbersKept, CallsSane
<1>3. \A d \in Calls : call'[d].at = "act" /\ call'[d].kind # "open" => Prompted(call[d].req)'
  BY <1>1, CallsKnown, CallsPrompted
<1>4. \A d, e \in Calls : d # e /\ call'[d].msg # 0 => call'[d].msg # call'[e].msg
  BY <1>1, CallsMessages
<1>5. \A d, e \in Opening' : d # e => call'[d].met
  BY <1>1, CallsTwins
<1>6. QED
  BY <1>2, <1>3, <1>4, <1>5 DEF CallsOK

\* The chats' part, when no call moves.
LEMMA HomeStill ==
  ASSUME IInv, CoreStep, UNCHANGED <<call, stored, mixed, strayed>>,
         \A t \in Tokens : poll'[t] > 0 => poll'[t] = stored[t] \/ poll'[t] = poll[t],
         \A t \in Tokens : handle'[t] = handle[t] \/ (Home(t) => own'[handle'[t]] = stored[t])
  PROVE  HomeInv'
<1>1. CoreInv /\ CallInv /\ ChatNumbers /\ HomeInv
  BY DEF IInv
<1> SUFFICES ASSUME NEW t \in Tokens, Home(t) PROVE Home(t)'
  BY <1>1 DEF HomeInv
<1>2. poll'[t] > 0 => poll'[t] = stored'[t]
  BY DEF Home
<1>3. \A d \in Out(t)' : AtHome(call[d], stored[t])'
  <2>1. Known(0, NoCall)
    BY CallsKnown
  <2>2. NoCall.chat # t
    BY NoCallFacts, ChatHandlesAssumption DEF Tokens
  <2>3. \A d \in Out(t) : AtHome(call[d], stored'[t])
    BY DEF Home
  <2>4. QED
    BY <1>1, <2>1, <2>2, <2>3, CallsAtHome
<1>4. IsOf(handle[t], stored[t])' \/ HalfWay(t)'
  <2>1. CASE HalfWay(t)
    BY <2>1 DEF HalfWay, Out
  <2>2. CASE IsOf(handle[t], stored[t])
    <3>1. handle[t] \in 0..loads
      BY <1>1 DEF ChatNumbers
    <3>2. handle[t] = 0 \/ own'[handle[t]] = stored[t]
      BY <1>1, <2>2, <3>1, IsOfStays
    <3>3. handle'[t] = 0 \/ own'[handle'[t]] = stored'[t]
      BY <3>2
    <3>4. QED
      BY <3>3 DEF IsOf
  <2>3. QED
    BY <2>1, <2>2 DEF Home
<1>5. t \notin strayed'
  BY DEF Home
<1>6. QED
  BY <1>2, <1>3, <1>4, <1>5 DEF Home

\* And when one does and leaves the chats' names alone.
LEMMA HomeMoves ==
  ASSUME IInv, CoreStep, NEW c \in Calls, NEW k, Shifted(c, k), UNCHANGED <<stored, handle, poll>>,
         mixed \subseteq mixed',
         \A t \in Tokens : t \notin mixed' /\ Home(t) =>
           /\ t \notin strayed'
           /\ ~(call[c].chat = t /\ call[c].once /\ call[c].at = "resume")
           /\ k.chat = t /\ k.at = "resume" => k.req = stored[t]
           /\ k.chat = t /\ k.at = "act" => k.req = 0 \/ own'[k.req] = stored[t]
  PROVE  HomeInv'
<1>1. CoreInv /\ CallInv /\ ChatNumbers /\ HomeInv
  BY DEF IInv
<1> SUFFICES ASSUME NEW t \in Tokens, t \notin mixed' PROVE Home(t)'
  BY DEF HomeInv
<1>2. Home(t)
  BY <1>1 DEF HomeInv
<1>3. poll'[t] > 0 => poll'[t] = stored'[t]
  BY <1>2 DEF Home
<1>4. \A d \in Out(t)' : AtHome(call[d], stored[t])'
  <2>1. Known(c, k)
    BY CallsKnown
  <2>2. \A d \in Out(t) : d # c => AtHome(call[d], stored'[t])
    BY <1>2 DEF Home
  <2>3. QED
    BY <1>1, <1>2, <2>1, <2>2, CallsAtHome
<1>5. IsOf(handle[t], stored[t])' \/ HalfWay(t)'
  <2>1. CASE HalfWay(t)
    BY <1>2, <2>1, HalfWayStays
  <2>2. CASE IsOf(handle[t], stored[t])
    <3>1. handle[t] \in 0..loads
      BY <1>1 DEF ChatNumbers
    <3>2. handle[t] = 0 \/ own'[handle[t]] = stored[t]
      BY <1>1, <2>2, <3>1, IsOfStays
    <3>3. QED
      BY <3>2 DEF IsOf
  <2>3. QED
    BY <1>2, <2>1, <2>2 DEF Home
<1>6. QED
  BY <1>2, <1>3, <1>4, <1>5 DEF Home

-----------------------------------------------------------------------------
(* The steps that move no call.                                            *)

\* What is left of the invariant once the calls and the chats are seen to.
LEMMA Assembled ==
  ASSUME CoreInv', ChatNumbers', ChatFlags', Rest', CallsOK', HomeInv',
         \A p \in late' : p.msg \in doubtful' /\ p.req <= loads' /\ (p.msg # 0 => Prompted(p.req)'),
         \A c \in Calls : call'[c].msg \notin acked',
         \A m \in Messages : m \in doubtful' \/ landed'[m] = 0 \/ (landed'[m] = 1 /\ m \in acked'),
         \A t \in Tokens : Prompted(handle[t])',
         0 \notin doubtful' =>
           /\ twins' = {}
           /\ \A c \in Opening' : call'[c].at \in {"create", "act"} /\ ~call'[c].met => listed' = {}
  PROVE  IInv'
<1>1. MessageInv' /\ TwinInv'
  BY DEF MessageInv, TwinInv, CallsOK
<1>2. PromptedInv'
  BY DEF PromptedInv, CallsOK
<1>3. CallInv'
  BY DEF CallsOK
<1>4. QED
  BY <1>1, <1>2, <1>3 DEF IInv

\* The parts of the invariant that only the core can disturb.
LEMMA PromptedKept ==
  ASSUME IInv, CoreStep
  PROVE  /\ \A t \in Tokens : handle'[t] = handle[t] => Prompted(handle[t])'
         /\ \A p \in late : p.req <= loads' /\ (p.msg # 0 => Prompted(p.req)')
<1>1. CoreInv /\ ChatNumbers /\ PromptedInv /\ Rest
  BY DEF IInv
<1>2. ASSUME NEW t \in Tokens, handle'[t] = handle[t] PROVE Prompted(handle[t])'
  <2>1. handle[t] \in 0..loads
    BY <1>1 DEF ChatNumbers
  <2>2. PICK r \in 0..loads : r = handle[t]
    BY <2>1
  <2>3. Prompted(r)
    BY <1>1, <2>2 DEF PromptedInv
  <2>4. Prompted(r)' /\ handle'[t] = r
    BY <1>2, <2>2, <2>3 DEF CoreStep
  <2>5. QED
    BY <2>4 DEF Prompted, Loaded
<1>3. ASSUME NEW p \in late PROVE p.req <= loads' /\ (p.msg # 0 => Prompted(p.req)')
  <2>1. p \in [req : Runtimes, msg : 0..MaxMessages] /\ p.req <= loads
    BY <1>1 DEF Rest, PromptedInv
  <2>2. p.req \in 0..loads
    BY <1>1, <2>1, ChatHandlesAssumption DEF Runtimes, CoreInv
  <2>3. p.req <= loads'
    BY <1>1, <2>2, NumbersKept
  <2>4. p.msg # 0 => Prompted(p.req)
    BY <1>1 DEF PromptedInv
  <2>5. QED
    BY <2>2, <2>3, <2>4 DEF CoreStep
<1>4. QED
  BY <1>2, <1>3

\* A step that moves neither a call nor the phone's side of the story.
LEMMA StillStep ==
  ASSUME IInv, CoreStep, ChatNumbers', ChatFlags', HomeInv', faults' \in 0..MaxFaults,
         UNCHANGED <<call, calls, late, acked, landed, doubtful, twins, mixed, strayed>>,
         listed' \subseteq listed, \A t \in Tokens : Prompted(handle[t])',
         \A t \in Tokens : handle[t] # 0 => handle'[t] # 0
  PROVE  IInv'
<1>1. CoreInv /\ CallInv /\ MessageInv /\ TwinInv /\ Rest
  BY DEF IInv
<1>2. CallsOK'
  BY CallsStill
<1>3. Rest'
  BY <1>1 DEF Rest
<1>4. \A p \in late' : p.msg \in doubtful' /\ p.req <= loads' /\ (p.msg # 0 => Prompted(p.req)')
  BY <1>1, PromptedKept DEF MessageInv
<1>5. \A c \in Calls : call'[c].msg \notin acked'
  BY <1>1 DEF MessageInv
<1>6. \A m \in Messages : m \in doubtful' \/ landed'[m] = 0 \/ (landed'[m] = 1 /\ m \in acked')
  BY <1>1 DEF MessageInv
<1>7. 0 \notin doubtful' =>
        /\ twins' = {}
        /\ \A c \in Opening' : call'[c].at \in {"create", "act"} /\ ~call'[c].met => listed' = {}
  BY <1>1 DEF TwinInv, Opening
<1>8. CoreInv'
  BY DEF CoreStep
<1>9. QED
  BY <1>2, <1>3, <1>4, <1>5, <1>6, <1>7, <1>8, Assembled

LEMMA UnloadsStep ==
  ASSUME IInv, NEW s \in Sessions, Unloads(s) \/ Deleted(s)
  PROVE  IInv'
<1>1. CoreInv /\ ChatNumbers /\ ChatFlags /\ HomeInv /\ Rest
  BY DEF IInv
<1>2. /\ rt' = [rt EXCEPT ![s] = 0] /\ (listed' = listed \/ listed' = listed \ {s})
      /\ UNCHANGED <<made, own, loads>>
      /\ UNCHANGED <<open, stored, handle, poll, refs, told>>
      /\ UNCHANGED <<call, calls, late, acked, landed, doubtful, twins, mixed, strayed>>
  BY DEF Unloads, Deleted, chats, history
<1>3. CoreStep
  BY <1>1, <1>2, Unloading
<1>4. faults' \in 0..MaxFaults
  <2>1. faults' = faults \/ Fault
    BY DEF Unloads, Deleted
  <2>2. QED
    BY <1>1, <2>1, ChatHandlesAssumption DEF Fault, Rest
<1>5. ChatNumbers' /\ ChatFlags'
  BY <1>1, <1>2 DEF ChatNumbers, ChatFlags
<1>6. \A t \in Tokens : Prompted(handle[t])'
  BY <1>2, <1>3, PromptedKept
<1>7. HomeInv'
  BY <1>2, <1>3, HomeStill
<1>8. listed' \subseteq listed
  BY <1>2
<1>9. QED
  BY <1>2, <1>3, <1>4, <1>5, <1>6, <1>7, <1>8, StillStep

\* A late prompt shows its session, which matters to an open only if it was a
\* kickoff; and only a message that is doubtful can still be taken.
LEMMA LateLandsStep ==
  ASSUME IInv, NEW p \in late, LateLands(p)
  PROVE  IInv'
<1>1. CoreInv /\ ChatNumbers /\ ChatFlags /\ HomeInv /\ Rest /\ MessageInv /\ TwinInv /\ PromptedInv
  BY DEF IInv
<1>2. /\ late' = late \ {p} /\ UNCHANGED <<made, rt, own, loads>>
      /\ UNCHANGED <<open, stored, handle, poll, refs, call, calls, faults>>
      /\ UNCHANGED <<told, acked, doubtful, twins, mixed, strayed>>
  BY DEF LateLands, chats
<1>3. p \in [req : Runtimes, msg : 0..MaxMessages] /\ p.msg \in doubtful /\ p.req <= loads
      /\ (p.msg # 0 => Prompted(p.req))
  BY <1>1 DEF Rest, MessageInv, PromptedInv
<1>4. CoreStep
  <2>1. CASE Loaded(p.req)
    <3>1. listed' = listed \cup {own[p.req]}
      BY <2>1 DEF LateLands
    <3>2. PICK r \in Runtimes : r = p.req
      BY <1>3
    <3>3. QED
      BY <1>1, <1>2, <2>1, <3>1, <3>2, Showing
  <2>2. CASE ~Loaded(p.req)
    BY <1>1, <1>2, <2>2, CoreSame DEF LateLands, core
  <2>3. QED
    BY <2>1, <2>2
<1>5. p.msg # 0 => listed' = listed
  BY <1>3 DEF LateLands, Prompted
<1>6. \A m \in Messages : landed'[m] = landed[m] \/ (m = p.msg /\ landed'[m] = landed[m] + 1)
  BY <1>1 DEF LateLands, Rest
<1>7. landed' \in [Messages -> Nat]
  BY <1>1 DEF LateLands, Rest
<1>8. Rest'
  BY <1>1, <1>2, <1>7 DEF Rest
<1>9. ChatNumbers' /\ ChatFlags'
  BY <1>1, <1>2 DEF ChatNumbers, ChatFlags
<1>10. CallsOK' /\ HomeInv'
  BY <1>2, <1>4, CallsStill, HomeStill
<1>11. \A q \in late' : q.msg \in doubtful' /\ q.req <= loads' /\ (q.msg # 0 => Prompted(q.req)')
  <2>1. \A q \in late : q.req <= loads' /\ (q.msg # 0 => Prompted(q.req)')
    BY <1>4, PromptedKept
  <2>2. QED
    BY <1>1, <1>2, <2>1 DEF MessageInv
<1>12. \A t \in Tokens : Prompted(handle[t])'
  BY <1>2, <1>4, PromptedKept
<1>13. \A c \in Calls : call'[c].msg \notin acked'
  BY <1>1, <1>2 DEF MessageInv
<1>14. \A m \in Messages : m \in doubtful' \/ landed'[m] = 0 \/ (landed'[m] = 1 /\ m \in acked')
  BY <1>1, <1>2, <1>3, <1>6 DEF MessageInv
<1>15. 0 \notin doubtful' =>
        /\ twins' = {}
        /\ \A c \in Opening' : call'[c].at \in {"create", "act"} /\ ~call'[c].met => listed' = {}
  BY <1>1, <1>2, <1>3, <1>5 DEF TwinInv, Opening
<1>16. CoreInv'
  BY <1>4 DEF CoreStep
<1>17. QED
  BY <1>8, <1>9, <1>10, <1>11, <1>12, <1>13, <1>14, <1>15, <1>16, Assembled

LEMMA PollAsksStep ==
  ASSUME IInv, NEW t \in Tokens, PollAsks(t)
  PROVE  IInv'
<1>1. CoreInv /\ ChatNumbers /\ ChatFlags /\ Rest
  BY DEF IInv
<1>2. /\ poll[t] = 0 /\ poll' = [poll EXCEPT ![t] = stored[t]]
      /\ UNCHANGED core /\ UNCHANGED <<open, stored, handle, refs, told, faults>>
      /\ UNCHANGED <<call, calls, late, acked, landed, doubtful, twins, mixed, strayed>>
  BY DEF PollAsks, history, Ready
<1>3. CoreStep /\ made' = made /\ loads' = loads /\ listed' = listed /\ own' = own
  BY <1>1, <1>2, CoreSame DEF core
<1>4. stored[t] \in 0..made /\ made \in Nat
  BY <1>1, ChatHandlesAssumption DEF ChatNumbers, CoreInv
<1>5. poll' \in [Tokens -> Off..made]
  <2>1. stored[t] \in Off..made
    BY <1>4 DEF Off
  <2>2. QED
    BY <1>1, <1>2, <2>1 DEF ChatNumbers
<1>6. ChatNumbers'
  BY <1>1, <1>2, <1>3, <1>5 DEF ChatNumbers
<1>7. \A x \in Tokens : poll'[x] = IF x = t THEN stored[t] ELSE poll[x]
  BY <1>1, <1>2 DEF ChatNumbers
<1>8. \A x \in Tokens : poll'[x] # Off <=> poll[x] # Off
  BY <1>2, <1>4, <1>7 DEF Off
<1>9. ChatFlags'
  BY <1>1, <1>2, <1>8 DEF ChatFlags
<1>10. HomeInv'
  BY <1>2, <1>3, <1>7, HomeStill
<1>11. \A x \in Tokens : Prompted(handle[x])'
  BY <1>2, <1>3, PromptedKept
<1>12. faults' \in 0..MaxFaults
  BY <1>1, <1>2 DEF Rest
<1>13. QED
  BY <1>2, <1>3, <1>6, <1>9, <1>10, <1>11, <1>12, StillStep

\* The handle that a poll hears is of the session it asked for.
LEMMA PollHearsStep ==
  ASSUME IInv, NEW t \in Tokens, PollHears(t)
  PROVE  IInv'
<1>1. CoreInv /\ ChatNumbers /\ ChatFlags /\ Rest
  BY DEF IInv
<1>2. /\ poll[t] > 0 /\ poll' = [poll EXCEPT ![t] = 0]
      /\ UNCHANGED <<made, listed, open, stored, refs, told, faults>>
      /\ UNCHANGED <<call, calls, late, acked, landed, doubtful, twins, mixed, strayed>>
  BY DEF PollHears, history, Ready
<1>3. poll[t] \in 1..made /\ made \in Nat /\ made \in made..MaxSessions /\ loads \in Nat
  BY <1>1, <1>2, ChatHandlesAssumption DEF ChatNumbers, CoreInv, Off
<1>4. /\ CoreStep
      /\ handle' \in [Tokens -> 0..loads']
      /\ \A x \in Tokens : handle[x] # 0 => handle'[x] # 0
      /\ \A x \in Tokens : handle'[x] = handle[x] \/ (x = t /\ own'[handle'[t]] = poll[t] /\ Prompted(handle[t])')
  <2>1. CASE UNCHANGED <<handle, rt, own, loads>>
    BY <1>1, <1>2, <2>1, CoreSame DEF core, ChatNumbers
  <2>2. CASE poll[t] \in listed /\ \E r \in Runtimes : Load(poll[t], r) /\ handle' = [handle EXCEPT ![t] = r]
    <3>1. PICK r \in Runtimes : Load(poll[t], r) /\ handle' = [handle EXCEPT ![t] = r]
      BY <2>2
    <3>2. PICK s \in 1..made' : s = poll[t]
      BY <1>2, <1>3
    <3>3. CoreStep /\ own'[r] = s /\ r \in 1..loads' /\ Prompted(r)'
      BY <1>1, <1>2, <1>3, <2>2, <3>1, <3>2, Loading
    <3>4. handle' \in [Tokens -> 0..loads']
      <4>1. handle \in [Tokens -> 0..loads'] /\ loads' \in Nat
        BY <1>1, <3>3, NumbersKept
      <4>2. QED
        BY <3>1, <3>3, <4>1
    <3>5. handle'[t] = r /\ \A x \in Tokens : x # t => handle'[x] = handle[x]
      BY <1>1, <3>1 DEF ChatNumbers
    <3>6. Prompted(handle[t])'
      BY <3>3, <3>5 DEF Prompted, Loaded
    <3>7. r # 0
      BY <1>1, <3>3, NumbersKept
    <3>8. QED
      BY <3>2, <3>3, <3>4, <3>5, <3>6, <3>7
  <2>3. QED
    BY <2>1, <2>2 DEF PollHears
<1>5. \A x \in Tokens : poll'[x] = IF x = t THEN 0 ELSE poll[x]
  BY <1>1, <1>2 DEF ChatNumbers
<1>6. ChatNumbers'
  <2>1. poll' \in [Tokens -> Off..made]
    BY <1>1, <1>2, <1>3 DEF ChatNumbers, Off
  <2>2. QED
    BY <1>1, <1>2, <1>4, <2>1 DEF ChatNumbers
<1>7. \A x \in Tokens : poll'[x] # Off <=> poll[x] # Off
  BY <1>2, <1>3, <1>5 DEF Off
<1>8. ChatFlags'
  BY <1>1, <1>2, <1>4, <1>7 DEF ChatFlags
<1>9. HomeInv'
  <2>1. \A x \in Tokens : poll'[x] > 0 => poll'[x] = poll[x]
    BY <1>5
  <2>2. \A x \in Tokens : handle'[x] = handle[x] \/ (Home(x) => own'[handle'[x]] = stored[x])
    BY <1>2, <1>4 DEF Home
  <2>3. QED
    BY <1>2, <1>4, <2>1, <2>2, HomeStill
<1>10. \A x \in Tokens : Prompted(handle[x])'
  BY <1>4, PromptedKept
<1>11. faults' \in 0..MaxFaults
  BY <1>1, <1>2 DEF Rest
<1>12. QED
  BY <1>2, <1>4, <1>6, <1>8, <1>9, <1>10, <1>11, StillStep

\* An expiry and a disconnect forget tokens, polls and refs.
LEMMA ExpiresStep ==
  ASSUME IInv, (\E t \in Tokens : Close(t) \/ Idle(t)) \/ Clear
  PROVE  IInv'
<1>1. CoreInv /\ ChatNumbers /\ ChatFlags /\ Rest
  BY DEF IInv
<1>2. /\ UNCHANGED core /\ UNCHANGED <<stored, handle>>
      /\ UNCHANGED <<call, calls, late, acked, landed, doubtful, twins, mixed, strayed>>
  BY DEF Close, Idle, Expires, Clear
<1>3. CoreStep /\ made' = made /\ loads' = loads /\ listed' = listed /\ own' = own
  BY <1>1, <1>2, CoreSame DEF core
<1>4. refs' \subseteq refs /\ told' \subseteq told
  BY DEF Close, Idle, Expires, Clear, Purged
<1>5. /\ open' \in [Tokens -> BOOLEAN] /\ poll' \in [Tokens -> Off..made]
      /\ \A x \in Tokens : (poll'[x] = Off /\ ~open'[x]) \/ (poll'[x] = poll[x] /\ open'[x] = open[x])
  <2>1. Off \in Off..made
    BY <1>1, ChatHandlesAssumption DEF CoreInv, Off
  <2>2. CASE Clear
    BY <2>1, <2>2 DEF Clear
  <2>3. ASSUME NEW t \in Tokens, Expires(t) PROVE <1>5!:
    BY <1>1, <2>1, <2>3 DEF Expires, ChatFlags, ChatNumbers
  <2>4. QED
    BY <2>2, <2>3 DEF Close, Idle
<1>6. ChatNumbers'
  BY <1>1, <1>2, <1>3, <1>5 DEF ChatNumbers
<1>7. ChatFlags'
  BY <1>1, <1>2, <1>4, <1>5 DEF ChatFlags
<1>8. HomeInv'
  <2>1. \A x \in Tokens : poll'[x] > 0 => poll'[x] = poll[x]
    BY <1>5 DEF Off
  <2>2. QED
    BY <1>2, <1>3, <2>1, HomeStill
<1>9. \A x \in Tokens : Prompted(handle[x])'
  BY <1>2, <1>3, PromptedKept
<1>10. faults' \in 0..MaxFaults
  <2>1. faults' = faults \/ Fault
    BY DEF Close, Idle, Expires, Clear
  <2>2. QED
    BY <1>1, <2>1, ChatHandlesAssumption DEF Fault, Rest
<1>11. QED
  BY <1>2, <1>3, <1>6, <1>7, <1>8, <1>9, <1>10, StillStep

-----------------------------------------------------------------------------
(* The steps of a call.                                                    *)

\* A call that moves, when the chats, if they change, keep the invariant.
LEMMA MoveStep ==
  ASSUME IInv, CoreStep, ChatNumbers', ChatFlags', HomeInv', Rest',
         NEW c \in Calls, NEW k \in CallRecs, Shifted(c, k), Sane(k)', k.msg \notin acked',
         k.msg = 0 \/ k.msg = call[c].msg \/ \A d \in Calls : call[d].msg # k.msg,
         k.at = "act" /\ k.kind # "open" => Prompted(k.req)',
         k.kind = "open" => call[c].kind = "open" /\ k.met = call[c].met,
         k.kind = "open" /\ k.at \in {"create", "act"} /\ ~k.met => listed' = {} \/ 0 \in doubtful',
         \A t \in Tokens : Prompted(handle[t])' /\ (handle[t] # 0 => handle'[t] # 0),
         \A e \in Opening : e # c /\ listed = {} /\ ~call[e].met => listed' = {},
         0 \notin doubtful' => twins' = twins,
         doubtful \subseteq doubtful', acked' \subseteq acked \cup {call[c].msg},
         \A p \in late' : p \in late \/ (p.msg \in doubtful' /\ p.req <= loads' /\ (p.msg # 0 => Prompted(p.req)')),
         \A m \in Messages : m \in doubtful' \/ landed'[m] = 0 \/ (landed'[m] = 1 /\ m \in acked')
  PROVE  IInv'
<1>1. CoreInv /\ CallInv /\ MessageInv /\ TwinInv
  BY DEF IInv
<1>2. CallsOK'
  BY CallsMove
<1>3. Known(c, k) /\ CoreInv'
  BY CallsKnown DEF CoreStep
<1>4. \A p \in late' : p.msg \in doubtful' /\ p.req <= loads' /\ (p.msg # 0 => Prompted(p.req)')
  <2>1. \A p \in late : p.msg \in doubtful' /\ p.req <= loads' /\ (p.msg # 0 => Prompted(p.req)')
    BY <1>1, PromptedKept DEF MessageInv
  <2>2. QED
    BY <2>1
<1>5. \A d \in Calls : call'[d].msg \notin acked'
  <2> SUFFICES ASSUME NEW d \in Calls, call'[d].msg \in acked' PROVE FALSE
    OBVIOUS
  <2>0. 0 \notin acked'
    BY ChatHandlesAssumption DEF Rest, Messages
  <2>1. CASE call'[d] = NoCall
    BY <2>0, <2>1, NoCallFacts
  <2>2. CASE call'[d] = k
    BY <2>2
  <2>3. CASE \E e \in Calls : e # c /\ call'[d] = call[e]
    <3>1. PICK e \in Calls : e # c /\ call'[d] = call[e]
      BY <2>3
    <3>2. call[e].msg \notin acked /\ (call[c].msg # 0 => call[c].msg # call[e].msg)
      BY <1>1, <3>1 DEF MessageInv
    <3>3. QED
      BY <2>0, <3>1, <3>2
  <2>4. QED
    BY <1>3, <2>1, <2>2, <2>3 DEF Known
<1>6. 0 \notin doubtful' =>
        /\ twins' = {}
        /\ \A d \in Opening' : call'[d].at \in {"create", "act"} /\ ~call'[d].met => listed' = {}
  <2> SUFFICES ASSUME 0 \notin doubtful' PROVE <1>6!2
    OBVIOUS
  <2>1. 0 \notin doubtful
    OBVIOUS
  <2>2. twins' = {}
    BY <1>1, <2>1 DEF TwinInv
  <2>3. k.kind = "open" /\ k.at \in {"create", "act"} /\ ~k.met => listed' = {}
    OBVIOUS
  <2>4. QED
    BY <1>1, <1>3, <2>1, <2>2, <2>3, CallsAlone
<1>7. QED
  BY <1>2, <1>3, <1>4, <1>5, <1>6, Assembled

\* A step that leaves the core, and the names of the chats, as they are.
LEMMA SameNames ==
  ASSUME IInv, UNCHANGED core, UNCHANGED chats
  PROVE  /\ CoreStep /\ ChatNumbers' /\ \A t \in Tokens : Prompted(handle[t])'
         /\ UNCHANGED <<made, listed, rt, own, loads, open, stored, handle, poll>>
<1>1. CoreInv /\ ChatNumbers
  BY DEF IInv
<1>2. UNCHANGED <<made, listed, rt, own, loads, open, stored, handle, poll>>
  BY DEF core, chats
<1>3. CoreStep
  BY <1>1, CoreSame
<1>4. QED
  BY <1>1, <1>2, <1>3, PromptedKept DEF ChatNumbers

LEMMA StartsStep ==
  ASSUME IInv, NEW c \in Calls, NEW t \in Tokens, NEW new \in CallRecs, Starts(c, t, new),
         new.kind \notin {"none", "open"}, ~new.once,
         \/ new.at = "resume" /\ new.req = stored[t]
         \/ new.at = "act" /\ new.req = handle[t],
         new.msg # 0 => /\ new.kind = "send" /\ new.msg \notin acked
                        /\ \A d \in Calls : call[d].msg # new.msg
  PROVE  IInv'
<1>1. CoreInv /\ ChatNumbers /\ ChatFlags /\ CallInv /\ Rest /\ MessageInv /\ TwinInv /\ HomeInv /\ PromptedInv
  BY DEF IInv
<1>2. PICK k : k = [new EXCEPT !.chat = t]
  OBVIOUS
<1>3. /\ k \in CallRecs /\ k.chat = t /\ k.kind = new.kind /\ k.at = new.at /\ k.req = new.req
      /\ k.once = new.once /\ k.msg = new.msg
  <2>1. t \in 0..MaxTokens
    BY ChatHandlesAssumption DEF Tokens
  <2>2. QED
    BY <1>2, <2>1 DEF CallRecs
<1>4. Shifted(c, k) /\ call[c] = NoCall
  BY <1>1, <1>2, GoesShifts DEF Starts, CallInv
<1>5. /\ UNCHANGED core /\ UNCHANGED chats /\ calls' \in 0..MaxCalls /\ t # 0
      /\ UNCHANGED <<refs, late, faults, told, acked, landed, doubtful, twins, strayed>>
      /\ mixed' = IF \E d \in Out(t) : call[d].once THEN mixed \cup {t} ELSE mixed
  <2>1. t # 0
    BY ChatHandlesAssumption DEF Tokens
  <2>2. {t} \ {0} = {t}
    BY <2>1
  <2>3. calls' \in 0..MaxCalls
    BY <1>1, ChatHandlesAssumption DEF Starts, Rest
  <2>4. QED
    BY <2>1, <2>2, <2>3 DEF Starts
<1>6. /\ CoreStep /\ ChatNumbers' /\ \A x \in Tokens : Prompted(handle[x])'
      /\ UNCHANGED <<made, listed, rt, own, loads, open, stored, handle, poll>>
  BY <1>5, SameNames
<1>7. ChatFlags'
  BY <1>1, <1>5, <1>6 DEF ChatFlags
<1>8. Rest'
  BY <1>1, <1>5 DEF Rest
<1>9. Sane(k)'
  <2>1. handle[t] <= loads
    BY <1>1, ChatHandlesAssumption DEF ChatNumbers, CoreInv
  <2>2. handle[t] # 0
    BY <1>1, <1>5 DEF Starts, ChatFlags
  <2>3. QED
    BY <1>3, <1>6, <2>1, <2>2 DEF Sane
<1>10. HomeInv'
  <2> SUFFICES ASSUME NEW x \in Tokens, x \notin mixed', Home(x)
               PROVE  /\ x \notin strayed'
                      /\ ~(call[c].chat = x /\ call[c].once /\ call[c].at = "resume")
                      /\ k.chat = x /\ k.at = "resume" => k.req = stored[x]
                      /\ k.chat = x /\ k.at = "act" => k.req = 0 \/ own'[k.req] = stored[x]
    BY <1>4, <1>5, <1>6, HomeMoves
  <2>1. k.chat = x /\ k.at = "act" => IsOf(handle[x], stored[x])
    BY <1>3, <1>5 DEF Home, HalfWay
  <2>2. QED
    BY <1>3, <1>4, <1>5, <1>6, <2>1, NoCallFacts DEF Home, IsOf
<1>11. k.at = "act" /\ k.kind # "open" => Prompted(k.req)'
  BY <1>3, <1>6 DEF Prompted, Loaded
<1>12. k.msg \notin acked'
  BY <1>3, <1>5, <1>1, ChatHandlesAssumption DEF Rest, Messages
<1>13. \A m \in Messages : m \in doubtful' \/ landed'[m] = 0 \/ (landed'[m] = 1 /\ m \in acked')
  BY <1>1, <1>5 DEF MessageInv
<1>14. QED
  BY <1>3, <1>4, <1>5, <1>6, <1>7, <1>8, <1>9, <1>10, <1>11, <1>12, <1>13, MoveStep

LEMMA NameRanges ==
  ASSUME IInv, NEW t \in Tokens
  PROVE  stored[t] \in 0..(MaxSessions + MaxRuntimes) /\ handle[t] \in 0..(MaxSessions + MaxRuntimes)
BY ChatHandlesAssumption DEF IInv, ChatNumbers, CoreInv

LEMMA StartsSomeStep ==
  ASSUME IInv, NEW c \in Calls, StartsSend(c) \/ StartsResume(c) \/ StartsControl(c)
  PROVE  IInv'
<1>1. CASE StartsSend(c)
  <2>1. PICK t \in Tokens, m \in Messages \ acked :
          /\ \A d \in Calls : call[d].msg # m
          /\ Starts(c, t, [NoCall EXCEPT !.kind = "send", !.at = "act", !.req = handle[t], !.msg = m])
    BY <1>1 DEF StartsSend
  <2>2. PICK new : new = [NoCall EXCEPT !.kind = "send", !.at = "act", !.req = handle[t], !.msg = m]
    OBVIOUS
  <2>3. m \in 0..MaxMessages /\ handle[t] \in 0..(MaxSessions + MaxRuntimes)
    BY NameRanges, ChatHandlesAssumption DEF Messages
  <2>4. /\ new \in CallRecs /\ new.kind = "send" /\ new.at = "act" /\ new.req = handle[t]
        /\ new.msg = m /\ ~new.once
    BY <2>2, <2>3, NoCallFacts DEF CallRecs
  <2>5. QED
    BY <2>1, <2>2, <2>4, StartsStep
<1>2. CASE StartsResume(c)
  <2>1. PICK t \in Tokens, k \in {"stop", "list"} :
          Starts(c, t, [NoCall EXCEPT !.kind = k, !.at = "resume", !.req = stored[t]])
    BY <1>2 DEF StartsResume
  <2>2. PICK new : new = [NoCall EXCEPT !.kind = k, !.at = "resume", !.req = stored[t]]
    OBVIOUS
  <2>3. stored[t] \in 0..(MaxSessions + MaxRuntimes)
    BY NameRanges
  <2>4. /\ new \in CallRecs /\ new.kind = k /\ new.at = "resume" /\ new.req = stored[t]
        /\ new.msg = 0 /\ ~new.once
    BY <2>2, <2>3, NoCallFacts DEF CallRecs
  <2>5. QED
    BY <2>1, <2>2, <2>4, StartsStep
<1>3. CASE StartsControl(c)
  <2>1. PICK f \in refs :
          Starts(c, f.chat, [NoCall EXCEPT !.kind = "control", !.at = "resume",
                                          !.req = stored[f.chat], !.ref = f])
    BY <1>3 DEF StartsControl
  <2>2. f \in Refs
    BY DEF IInv, ChatFlags
  <2>3. PICK t \in Tokens : t = f.chat
    BY <2>2 DEF Refs
  <2>4. PICK new : new = [NoCall EXCEPT !.kind = "control", !.at = "resume",
                                        !.req = stored[f.chat], !.ref = f]
    OBVIOUS
  <2>5. stored[t] \in 0..(MaxSessions + MaxRuntimes)
    BY NameRanges
  <2>6. /\ new \in CallRecs /\ new.kind = "control" /\ new.at = "resume" /\ new.req = stored[t]
        /\ new.msg = 0 /\ ~new.once
    BY <2>2, <2>3, <2>4, <2>5, NoCallFacts DEF CallRecs
  <2>7. QED
    BY <2>1, <2>3, <2>4, <2>6, StartsStep
<1>4. QED
  BY <1>1, <1>2, <1>3

\* An open that starts meets the opens that are out, and they meet it.
LEMMA StartsOpenStep ==
  ASSUME IInv, NEW c \in Calls, StartsOpen(c)
  PROVE  IInv'
<1>1. CoreInv /\ ChatNumbers /\ ChatFlags /\ CallInv /\ Rest /\ MessageInv /\ TwinInv /\ HomeInv /\ PromptedInv
  BY DEF IInv
<1>2. /\ UNCHANGED core /\ UNCHANGED chats /\ calls' \in 0..MaxCalls
      /\ UNCHANGED <<refs, late, faults>> /\ call[c] = NoCall
      /\ UNCHANGED <<told, acked, landed, doubtful, twins, mixed, strayed>>
  <2>1. calls < MaxCalls /\ calls' = calls + 1
    BY DEF StartsOpen
  <2>2. calls' \in 0..MaxCalls
    BY <1>1, <2>1, ChatHandlesAssumption DEF Rest
  <2>3. QED
    BY <2>2 DEF StartsOpen, history
<1>3. /\ CoreStep /\ ChatNumbers' /\ \A x \in Tokens : Prompted(handle[x])'
      /\ UNCHANGED <<made, listed, rt, own, loads, open, stored, handle, poll>>
  BY <1>2, SameNames
<1>4. ChatFlags' /\ Rest'
  BY <1>1, <1>2, <1>3 DEF ChatFlags, Rest
<1>5. DOMAIN call' = Calls /\ call' = [d \in Calls |-> call'[d]]
  BY DEF StartsOpen
<1>6. /\ call'[c].kind = "open" /\ call'[c].at = "lookup" /\ call'[c].chat = 0 /\ call'[c].req = 0
      /\ ~call'[c].once /\ call'[c].msg = 0 /\ call'[c].ref = NoRef /\ call'[c].met = (Opening # {})
      /\ call'[c] \in CallRecs
  <2>1. call'[c] = [NoCall EXCEPT !.kind = "open", !.at = "lookup", !.met = Opening # {}]
    BY DEF StartsOpen
  <2>2. PICK b \in BOOLEAN : b = (Opening # {})
    OBVIOUS
  <2>3. [NoCall EXCEPT !.kind = "open", !.at = "lookup", !.met = b] \in CallRecs
    BY NoCallFacts DEF CallRecs
  <2>4. QED
    BY <2>1, <2>2, <2>3 DEF NoCall
<1>7. ASSUME NEW d \in Opening PROVE
        /\ d # c /\ call'[d].met /\ call'[d] \in CallRecs
        /\ call'[d].kind = "open" /\ call'[d].at = call[d].at /\ call'[d].chat = 0
        /\ call'[d].req = call[d].req /\ call'[d].msg = call[d].msg /\ ~call'[d].once
  <2>1. d # c /\ d \in Calls /\ call[d].kind = "open"
    BY <1>2, NoCallFacts DEF Opening
  <2>2. call'[d] = [call[d] EXCEPT !.met = TRUE]
    BY <2>1 DEF StartsOpen
  <2>3. call[d] \in CallRecs /\ call[d].chat = 0 /\ ~call[d].once
    BY <1>1, <2>1 DEF CallInv, Sane
  <2>4. QED
    BY <2>1, <2>2, <2>3 DEF CallRecs
<1>8. ASSUME NEW d \in Calls, d # c, d \notin Opening PROVE call'[d] = call[d]
  BY <1>8 DEF StartsOpen
<1>9. CallInv'
  <2> SUFFICES ASSUME NEW d \in Calls PROVE call'[d] \in CallRecs /\ Sane(call[d])'
    BY <1>5 DEF CallInv
  <2>0. call[d] \in CallRecs /\ Sane(call[d])
    BY <1>1 DEF CallInv
  <2>1. CASE d = c
    BY <1>6, <2>1 DEF Sane
  <2>2. CASE d \in Opening
    BY <1>3, <1>7, <2>0, <2>2 DEF Sane, Opening
  <2>3. CASE d # c /\ d \notin Opening
    BY <1>3, <1>8, <2>0, <2>3 DEF Sane
  <2>4. QED
    BY <2>1, <2>2, <2>3
<1>10. \A d \in Calls : call'[d].msg = call[d].msg
  BY <1>2, <1>6, <1>7, <1>8, NoCallFacts
<1>11. Opening' = Opening \cup {c}
  <2>1. \A d \in Calls : call'[d].kind = "open" <=> (d = c \/ d \in Opening)
    BY <1>6, <1>7, <1>8 DEF Opening
  <2>2. QED
    BY <2>1 DEF Opening
<1>12. CallsOK'
  <2>1. \A d \in Calls : call'[d].at = "act" /\ call'[d].kind # "open" => Prompted(call[d].req)'
    <3> SUFFICES ASSUME NEW d \in Calls, call'[d].at = "act", call'[d].kind # "open"
                 PROVE  Prompted(call[d].req)'
      OBVIOUS
    <3>1. call'[d] = call[d]
      BY <1>6, <1>7, <1>8
    <3>2. Prompted(call[d].req)
      BY <1>1, <3>1 DEF PromptedInv
    <3>3. QED
      BY <1>3, <3>1, <3>2 DEF Prompted, Loaded
  <2>2. \A d, e \in Calls : d # e /\ call'[d].msg # 0 => call'[d].msg # call'[e].msg
    BY <1>1, <1>10 DEF MessageInv
  <2>3. \A d, e \in Opening' : d # e => call'[d].met
    BY <1>6, <1>7, <1>11
  <2>4. QED
    BY <1>9, <2>1, <2>2, <2>3 DEF CallsOK
<1>13. HomeInv'
  <2>1. ASSUME NEW t \in Tokens PROVE /\ Out(t)' = Out(t)
                                      /\ \A d \in Out(t) : call'[d] = call[d]
    <3>1. t # 0
      BY ChatHandlesAssumption DEF Tokens
    <3>2. \A d \in Opening : call[d].chat = 0
      BY <1>1 DEF CallInv, Sane, Opening
    <3>3. \A d \in Calls : call'[d].chat = call[d].chat /\ (call[d].chat = t => call'[d] = call[d])
      BY <1>2, <1>6, <1>7, <1>8, <3>1, <3>2, NoCallFacts
    <3>4. QED
      BY <3>3 DEF Out
  <2> SUFFICES ASSUME NEW t \in Tokens, Home(t) PROVE Home(t)'
    BY <1>1, <1>2 DEF HomeInv
  <2>2. \A d \in Out(t)' : AtHome(call[d], stored[t])'
    BY <1>3, <2>1 DEF Home, AtHome, IsOf
  <2>3. (IsOf(handle[t], stored[t]) \/ HalfWay(t))'
    BY <1>3, <2>1 DEF Home, HalfWay, IsOf
  <2>4. QED
    BY <1>2, <1>3, <2>2, <2>3 DEF Home
<1>14. \A p \in late' : p.msg \in doubtful' /\ p.req <= loads' /\ (p.msg # 0 => Prompted(p.req)')
  BY <1>1, <1>2, <1>3, PromptedKept DEF MessageInv
<1>15. \A d \in Calls : call'[d].msg \notin acked'
  BY <1>1, <1>2, <1>10 DEF MessageInv
<1>16. \A m \in Messages : m \in doubtful' \/ landed'[m] = 0 \/ (landed'[m] = 1 /\ m \in acked')
  BY <1>1, <1>2 DEF MessageInv
<1>17. 0 \notin doubtful' =>
        /\ twins' = {}
        /\ \A d \in Opening' : call'[d].at \in {"create", "act"} /\ ~call'[d].met => listed' = {}
  BY <1>1, <1>2, <1>6, <1>7, <1>11 DEF TwinInv
<1>18. CoreInv'
  BY <1>3 DEF CoreStep
<1>19. QED
  BY <1>3, <1>4, <1>12, <1>13, <1>14, <1>15, <1>16, <1>17, <1>18, Assembled

\* A call that ends, or is sent back to look its session up once more.
BackTo(k, c) ==
  /\ k \in CallRecs /\ k.at = "lookup" /\ k.once /\ k.kind \in {"send", "stop"}
  /\ k.kind = call[c].kind /\ k.chat = call[c].chat /\ k.msg = call[c].msg

LEMMA QuietStep ==
  ASSUME IInv, NEW c \in Calls, NEW k, Shifted(c, k), k = NoCall \/ (BackTo(k, c) /\ acked' = acked),
         UNCHANGED core, UNCHANGED chats, UNCHANGED <<told, twins>>, refs' \subseteq Refs, Rest',
         mixed \subseteq mixed',
         \A t \in Tokens : t \notin mixed' /\ Home(t) =>
           t \notin strayed' /\ ~(call[c].chat = t /\ call[c].once /\ call[c].at = "resume"),
         doubtful \subseteq doubtful', acked' \subseteq acked \cup {call[c].msg},
         \A p \in late' : p \in late \/ (p.msg \in doubtful' /\ p.req <= loads /\ (p.msg # 0 => Prompted(p.req)')),
         \A m \in Messages : m \in doubtful' \/ landed'[m] = 0 \/ (landed'[m] = 1 /\ m \in acked')
  PROVE  IInv'
<1>1. CoreInv /\ ChatNumbers /\ ChatFlags /\ CallInv /\ MessageInv
  BY DEF IInv
<1>2. /\ CoreStep /\ ChatNumbers' /\ \A x \in Tokens : Prompted(handle[x])'
      /\ UNCHANGED <<made, listed, rt, own, loads, open, stored, handle, poll>>
  BY SameNames
<1>3. ChatFlags'
  BY <1>1, <1>2 DEF ChatFlags
<1>4. /\ k \in CallRecs /\ k.at \notin {"resume", "act", "create"} /\ Sane(k)'
      /\ k.msg = 0 \/ (k.msg = call[c].msg /\ acked' = acked)
      /\ k.kind # "open"
  <2>1. CASE k = NoCall
    BY <2>1, NoCallFacts
  <2>2. CASE BackTo(k, c) /\ acked' = acked
    <3>1. call[c] \in CallRecs /\ Sane(call[c])
      BY <1>1 DEF CallInv
    <3>2. QED
      BY <1>2, <2>2, <3>1 DEF BackTo, Sane
  <2>3. QED
    BY <2>1, <2>2
<1>5. k.msg \notin acked'
  <2>1. 0 \notin acked'
    BY ChatHandlesAssumption DEF Rest, Messages
  <2>2. QED
    BY <1>1, <1>4, <2>1 DEF MessageInv
<1>6. HomeInv'
  BY <1>2, <1>4, HomeMoves
<1>7. QED
  BY <1>2, <1>3, <1>4, <1>5, <1>6, MoveStep

\* What an error makes of a call, whichever errors are tried again.
LEMMA Answers ==
  ASSUME IInv, NEW c \in Calls,
         Ends(c) \/ (call[c].kind \in {"send", "stop"}
                     /\ Goes(c, [call[c] EXCEPT !.at = "lookup", !.once = TRUE]))
  PROVE  \E k : Shifted(c, k) /\ (k = NoCall \/ BackTo(k, c))
<1>1. call \in [Calls -> CallRecs] /\ call[c] \in CallRecs
  BY DEF IInv, CallInv
<1>2. CASE Ends(c)
  BY <1>1, <1>2, EndsShifts
<1>3. CASE call[c].kind \in {"send", "stop"} /\ Goes(c, [call[c] EXCEPT !.at = "lookup", !.once = TRUE])
  <2>1. PICK k : k = [call[c] EXCEPT !.at = "lookup", !.once = TRUE]
    OBVIOUS
  <2>2. Shifted(c, k)
    BY <1>1, <1>3, <2>1, GoesShifts
  <2>3. BackTo(k, c)
    BY <1>1, <1>3, <2>1 DEF BackTo, CallRecs
  <2>4. QED
    BY <2>2, <2>3
<1>4. QED
  BY <1>2, <1>3

LEMMA ErrorStep ==
  ASSUME IInv, NEW c \in Calls, ResumesNothing(c) \/ Fails(c)
  PROVE  IInv'
<1>1. CoreInv /\ ChatNumbers /\ ChatFlags /\ CallInv /\ MessageInv /\ Rest
  BY DEF IInv
<1>2. /\ UNCHANGED core /\ UNCHANGED chats
      /\ UNCHANGED <<refs, calls, late, faults, told, acked, landed, doubtful, twins, strayed>>
      /\ HalfMoved(c)
  BY DEF ResumesNothing, Fails
<1>3. PICK k : Shifted(c, k) /\ (k = NoCall \/ BackTo(k, c))
  BY Answers DEF ResumesNothing, Fails, Reresolves
<1>4. Sane(call[c]) /\ call[c].once \in BOOLEAN
  BY <1>1 DEF CallInv, CallRecs
<1>5. mixed \subseteq mixed' /\ mixed' \subseteq Tokens
  <2>1. call[c].at = "resume" /\ call[c].once => call[c].chat \in Tokens
    BY <1>4 DEF Sane
  <2>2. QED
    BY <1>1, <1>2, <2>1 DEF HalfMoved, Rest
<1>6. Rest' /\ refs' \subseteq Refs
  BY <1>1, <1>2, <1>5 DEF Rest, ChatFlags
<1>7. ASSUME NEW t \in Tokens, t \notin mixed', Home(t)
      PROVE t \notin strayed' /\ ~(call[c].chat = t /\ call[c].once /\ call[c].at = "resume")
  BY <1>2, <1>7 DEF Home, HalfMoved
<1>8. \A m \in Messages : m \in doubtful' \/ landed'[m] = 0 \/ (landed'[m] = 1 /\ m \in acked')
  BY <1>1, <1>2 DEF MessageInv
<1>9. QED
  BY <1>2, <1>3, <1>5, <1>6, <1>7, <1>8, QuietStep

\* A call that acts in a chat's own session does not stray.
LEMMA ActsHome ==
  ASSUME IInv, NEW c \in Calls, call[c].at = "act", Loaded(call[c].req),
         strayed' = strayed \/ Acts(call[c].chat, call[c].req),
         NEW t \in Tokens, Home(t)
  PROVE  t \notin strayed'
<1>1. CASE call[c].chat = t
  <2>1. AtHome(call[c], stored[t])
    BY <1>1 DEF Home, Out
  <2>2. own[call[c].req] = stored[t]
    BY <2>1 DEF AtHome, IsOf, Loaded
  <2>3. QED
    BY <1>1, <2>2 DEF Acts, Home
<1>2. CASE call[c].chat # t
  BY <1>2 DEF Acts, Home
<1>3. QED
  BY <1>1, <1>2

LEMMA PromptLandsStep ==
  ASSUME IInv, NEW c \in Calls, PromptLands(c)
  PROVE  IInv'
<1>1. ChatFlags /\ CallInv /\ MessageInv /\ Rest
  BY DEF IInv
<1>2. /\ UNCHANGED core /\ UNCHANGED chats
      /\ UNCHANGED <<refs, calls, late, faults, told, doubtful, twins, mixed>>
      /\ call[c].at = "act" /\ call[c].kind \in {"send", "stop"} /\ Loaded(call[c].req)
      /\ Acts(call[c].chat, call[c].req) /\ Ends(c)
      /\ landed' = [m \in Messages |-> landed[m] + (IF m = call[c].msg THEN 1 ELSE 0)]
      /\ acked' = acked \cup ({call[c].msg} \ {0})
  BY DEF PromptLands
<1>3. Shifted(c, NoCall)
  BY <1>1, <1>2, EndsShifts DEF CallInv
<1>4. call[c] \in CallRecs /\ call[c].chat \in Tokens
  BY <1>1, <1>2 DEF CallInv, Sane
<1>5. strayed' \subseteq Tokens
  BY <1>1, <1>2, <1>4 DEF Acts, Rest
<1>6. acked' \subseteq Messages
  <2>1. call[c].msg = 0 \/ call[c].msg \in Messages
    BY <1>4, ChatHandlesAssumption DEF CallRecs, Messages
  <2>2. QED
    BY <1>1, <1>2, <2>1 DEF Rest
<1>7. landed' \in [Messages -> Nat]
  BY <1>1, <1>2 DEF Rest
<1>8. Rest' /\ refs' \subseteq Refs
  BY <1>1, <1>2, <1>5, <1>6, <1>7 DEF Rest, ChatFlags
<1>9. \A m \in Messages : m \in doubtful' \/ landed'[m] = 0 \/ (landed'[m] = 1 /\ m \in acked')
  <2> SUFFICES ASSUME NEW m \in Messages, m \notin doubtful
               PROVE  landed'[m] = 0 \/ (landed'[m] = 1 /\ m \in acked')
    BY <1>2
  <2>1. landed[m] = 0 \/ (landed[m] = 1 /\ m \in acked)
    BY <1>1 DEF MessageInv
  <2>2. m # 0 /\ landed[m] \in Nat
    BY <1>1, ChatHandlesAssumption DEF Messages, Rest
  <2>3. CASE m = call[c].msg
    <3>1. m \notin acked
      BY <1>1, <2>3 DEF MessageInv
    <3>2. QED
      BY <1>2, <2>1, <2>2, <2>3, <3>1
  <2>4. CASE m # call[c].msg
    BY <1>2, <2>1, <2>2, <2>4
  <2>5. QED
    BY <2>3, <2>4
<1>10. \A t \in Tokens : t \notin mixed' /\ Home(t) =>
         t \notin strayed' /\ ~(call[c].chat = t /\ call[c].once /\ call[c].at = "resume")
  BY <1>2, ActsHome
<1>11. QED
  BY <1>2, <1>3, <1>8, <1>9, <1>10, QuietStep

\* A subagent's list and a control carry no message.
LEMMA OtherLandsStep ==
  ASSUME IInv, NEW c \in Calls, ListReturns(c) \/ ControlLands(c)
  PROVE  IInv'
<1>1. ChatNumbers /\ ChatFlags /\ CallInv /\ MessageInv /\ Rest /\ CoreInv
  BY DEF IInv
<1>2. /\ UNCHANGED core /\ UNCHANGED chats
      /\ UNCHANGED <<calls, late, faults, told, acked, landed, doubtful, twins, mixed>>
      /\ call[c].at = "act" /\ call[c].kind \in {"list", "control"} /\ Loaded(call[c].req)
      /\ strayed' = strayed \/ Acts(call[c].chat, call[c].req)
      /\ Ends(c)
  BY DEF ListReturns, ControlLands, history
<1>3. Shifted(c, NoCall)
  BY <1>1, <1>2, EndsShifts DEF CallInv
<1>4. /\ call[c].chat \in Tokens /\ handle[call[c].chat] # 0
      /\ call[c] \in CallRecs /\ call[c].req <= loads
  BY <1>1, <1>2 DEF CallInv, Sane
<1>5. strayed' \subseteq Tokens
  BY <1>1, <1>2, <1>4 DEF Acts, Rest
<1>6. Rest'
  BY <1>1, <1>2, <1>5 DEF Rest
<1>7. refs' \subseteq Refs
  <2>1. CASE ControlLands(c)
    BY <1>1, <2>1 DEF ControlLands, ChatFlags
  <2>2. CASE ListReturns(c)
    <3>1. \A r \in 0..loads : r # 0 => r \in Runtimes
      BY <1>1, ChatHandlesAssumption DEF CoreInv, Runtimes
    <3>2. handle[call[c].chat] \in 0..loads
      BY <1>1, <1>4 DEF ChatNumbers
    <3>3. call[c].req \in 0..loads /\ call[c].req # 0
      BY <1>1, <1>2, <1>4, ChatHandlesAssumption DEF CoreInv, CallRecs, Loaded
    <3>4. handle[call[c].chat] \in Runtimes /\ call[c].req \in Runtimes
      BY <1>4, <3>1, <3>2, <3>3
    <3>5. QED
      BY <1>1, <1>4, <2>2, <3>4 DEF ListReturns, ChatFlags, Refs
  <2>3. QED
    BY <2>1, <2>2
<1>8. \A m \in Messages : m \in doubtful' \/ landed'[m] = 0 \/ (landed'[m] = 1 /\ m \in acked')
  BY <1>1, <1>2 DEF MessageInv
<1>9. \A t \in Tokens : t \notin mixed' /\ Home(t) =>
         t \notin strayed' /\ ~(call[c].chat = t /\ call[c].once /\ call[c].at = "resume")
  BY <1>2, ActsHome
<1>10. QED
  BY <1>2, <1>3, <1>6, <1>7, <1>8, <1>9, QuietStep

\* A prompt the door gave up on is still to come, and its message is doubtful.
LEMMA LostStep ==
  ASSUME IInv, NEW c \in Calls, Lost(c)
  PROVE  IInv'
<1>1. ChatFlags /\ CallInv /\ MessageInv /\ PromptedInv /\ Rest /\ CoreInv
  BY DEF IInv
<1>2. /\ UNCHANGED core /\ UNCHANGED chats
      /\ UNCHANGED <<refs, calls, told, acked, landed, twins, mixed, strayed>>
      /\ call[c].at = "act" /\ call[c].kind \in {"open", "send"} /\ Loaded(call[c].req) /\ Fault
      /\ late' = late \cup {[req |-> call[c].req, msg |-> call[c].msg]}
      /\ Ends(c) /\ doubtful' = doubtful \cup {call[c].msg}
  BY DEF Lost, Reresolves
<1>3. Shifted(c, NoCall)
  BY <1>1, <1>2, EndsShifts DEF CallInv
<1>4. call[c] \in CallRecs /\ call[c].req <= loads /\ (call[c].msg # 0 => call[c].kind = "send")
  BY <1>1, <1>2 DEF CallInv, Sane
<1>5. call[c].req \in Runtimes /\ call[c].msg \in 0..MaxMessages
  BY <1>1, <1>2, <1>4, ChatHandlesAssumption DEF CoreInv, CallRecs, Loaded, Runtimes
<1>6. late' \subseteq [req : Runtimes, msg : 0..MaxMessages] /\ doubtful' \subseteq 0..MaxMessages
  <2>1. [req |-> call[c].req, msg |-> call[c].msg] \in [req : Runtimes, msg : 0..MaxMessages]
    BY <1>5
  <2>2. late \subseteq [req : Runtimes, msg : 0..MaxMessages] /\ doubtful \subseteq 0..MaxMessages
    BY <1>1 DEF Rest
  <2>3. QED
    BY <1>2, <1>5, <2>1, <2>2
<1>7. faults' \in 0..MaxFaults
  BY <1>1, <1>2, ChatHandlesAssumption DEF Rest, Fault
<1>8. Rest' /\ refs' \subseteq Refs
  BY <1>1, <1>2, <1>6, <1>7 DEF Rest, ChatFlags
<1>9. call[c].msg # 0 => Prompted(call[c].req)
  BY <1>1, <1>2, <1>4 DEF PromptedInv
<1>10. ASSUME NEW p \in late'
       PROVE  p \in late \/ (p.msg \in doubtful' /\ p.req <= loads /\ (p.msg # 0 => Prompted(p.req)'))
  <2>1. CASE p \in late
    BY <2>1
  <2>2. CASE p = [req |-> call[c].req, msg |-> call[c].msg]
    BY <1>2, <1>4, <1>9, <2>2 DEF Prompted, Loaded, core
  <2>3. QED
    BY <1>2, <2>1, <2>2
<1>11. \A m \in Messages : m \in doubtful' \/ landed'[m] = 0 \/ (landed'[m] = 1 /\ m \in acked')
  BY <1>1, <1>2 DEF MessageInv
<1>12. \A t \in Tokens : t \notin mixed' /\ Home(t) =>
         t \notin strayed' /\ ~(call[c].chat = t /\ call[c].once /\ call[c].at = "resume")
  BY <1>2 DEF Home
<1>13. QED
  BY <1>2, <1>3, <1>8, <1>10, <1>11, <1>12, QuietStep

LEMMA CreatesStep ==
  ASSUME IInv, NEW c \in Calls, Creates(c)
  PROVE  IInv'
<1>1. CoreInv /\ ChatNumbers /\ ChatFlags /\ CallInv /\ MessageInv /\ TwinInv /\ Rest
  BY DEF IInv
<1>2. /\ call[c].at = "create" /\ made < MaxSessions /\ made' = made + 1
      /\ UNCHANGED <<listed, refs, calls, late, faults>>
      /\ UNCHANGED <<open, stored, handle, poll>>
      /\ UNCHANGED <<told, acked, landed, doubtful, twins, mixed, strayed>>
  BY DEF Creates, chats, history
<1>3. PICK r \in Runtimes : Load(made', r) /\ Goes(c, [call[c] EXCEPT !.at = "act", !.req = r])
  BY DEF Creates
<1>4. PICK k : k = [call[c] EXCEPT !.at = "act", !.req = r]
  OBVIOUS
<1>5. call[c] \in CallRecs /\ call[c].kind = "open" /\ call[c].chat = 0 /\ ~call[c].once /\ call[c].msg = 0
  BY <1>1, <1>2 DEF CallInv, Sane
<1>6. made \in Nat /\ made' \in made..MaxSessions /\ made' \in 1..made'
  BY <1>1, <1>2, ChatHandlesAssumption DEF CoreInv
<1>7. CoreStep /\ r \in 1..loads'
  <2>1. PICK s \in 1..made' : s = made'
    BY <1>6
  <2>2. Load(s, r)
    BY <1>3, <2>1
  <2>3. QED
    BY <1>1, <1>2, <1>6, <2>2, Loading
<1>8. /\ k \in CallRecs /\ k.kind = "open" /\ k.at = "act" /\ k.req = r /\ k.chat = 0 /\ k.msg = 0
      /\ ~k.once /\ k.met = call[c].met
  <2>1. r \in 0..(MaxSessions + MaxRuntimes)
    BY ChatHandlesAssumption DEF Runtimes
  <2>2. QED
    BY <1>4, <1>5, <2>1 DEF CallRecs
<1>9. Shifted(c, k)
  BY <1>1, <1>3, <1>4, GoesShifts DEF CallInv
<1>10. Sane(k)'
  BY <1>1, <1>7, <1>8, NumbersKept DEF Sane
<1>11. ChatNumbers' /\ ChatFlags' /\ Rest'
  <2>1. ChatNumbers'
    BY <1>1, <1>2, <1>7, NumbersKept DEF ChatNumbers
  <2>2. ChatFlags' /\ Rest'
    BY <1>1, <1>2 DEF ChatFlags, Rest
  <2>3. QED
    BY <2>1, <2>2
<1>12. HomeInv'
  <2> SUFFICES ASSUME NEW x \in Tokens, x \notin mixed', Home(x)
               PROVE  /\ x \notin strayed'
                      /\ ~(call[c].chat = x /\ call[c].once /\ call[c].at = "resume")
                      /\ k.chat # x
    BY <1>2, <1>7, <1>9, HomeMoves
  <2>1. x # 0
    BY ChatHandlesAssumption DEF Tokens
  <2>2. QED
    BY <1>2, <1>8, <2>1 DEF Home
<1>13. ~call[c].met => listed = {} \/ 0 \in doubtful
  BY <1>1, <1>2, <1>5 DEF TwinInv, Opening
<1>14. \A m \in Messages : m \in doubtful' \/ landed'[m] = 0 \/ (landed'[m] = 1 /\ m \in acked')
  BY <1>1, <1>2 DEF MessageInv
<1>15. k.msg \notin acked'
  BY <1>1, <1>2, <1>8, ChatHandlesAssumption DEF Rest, Messages
<1>16. \A t \in Tokens : Prompted(handle[t])'
  BY <1>2, <1>7, PromptedKept
<1>17. QED
  BY <1>2, <1>5, <1>7, <1>8, <1>9, <1>10, <1>11, <1>12, <1>13, <1>14, <1>15, <1>16, MoveStep

\* A chat that is re-resolved on its own has its call as the only one that is
\* out, and no poll for the session it had.
LEMMA LooksStep ==
  ASSUME IInv, NEW c \in Calls, Looks(c)
  PROVE  IInv'
<1>1. CoreInv /\ ChatNumbers /\ ChatFlags /\ CallInv /\ MessageInv /\ TwinInv /\ Rest /\ HomeInv
  BY DEF IInv
<1>2. /\ UNCHANGED core /\ UNCHANGED <<open, handle, poll, refs, calls, late, faults>>
      /\ UNCHANGED <<told, acked, landed, doubtful, twins, strayed>> /\ call[c].at = "lookup"
  BY DEF Looks
<1>3. call[c] \in CallRecs /\ Sane(call[c])
  BY <1>1 DEF CallInv
<1>4. /\ CoreStep /\ UNCHANGED <<made, listed, loads, own>>
      /\ \A t \in Tokens : Prompted(handle[t])'
  BY <1>1, <1>2, CoreSame, PromptedKept DEF core
<1>5. \A m \in Messages : m \in doubtful' \/ landed'[m] = 0 \/ (landed'[m] = 1 /\ m \in acked')
  BY <1>1, <1>2 DEF MessageInv
<1>6. call[c].msg \notin acked' /\ 0 \notin acked'
  BY <1>1, <1>2, ChatHandlesAssumption DEF MessageInv, Rest, Messages
<1>7. CASE Found = {} \/ call[c].kind = "open"
  <2>1. UNCHANGED <<stored, mixed>>
    BY <1>7 DEF Looks
  <2>2. PICK k : /\ Shifted(c, k)
                 /\ \/ k = NoCall
                    \/ k = [call[c] EXCEPT !.at = "create"] /\ call[c].kind = "open" /\ listed = {}
                    \/ \E s \in listed : k = [call[c] EXCEPT !.at = "resume", !.req = s] /\ call[c].kind = "open"
    BY <1>1, <1>7, GoesShifts, EndsShifts DEF Looks, Found, CallInv
  <2>3. /\ k \in CallRecs /\ k.at # "act" /\ ~k.once /\ k.msg = 0 /\ k.chat = 0
        /\ Sane(k)' /\ (k.kind = "open" => call[c].kind = "open" /\ k.met = call[c].met)
        /\ k.kind = "open" /\ k.at = "create" => listed = {}
    <3>1. CASE k = NoCall
      BY <3>1, NoCallFacts
    <3>2. CASE k = [call[c] EXCEPT !.at = "create"] /\ call[c].kind = "open" /\ listed = {}
      BY <1>3, <3>2 DEF CallRecs, Sane
    <3>3. CASE \E s \in listed : k = [call[c] EXCEPT !.at = "resume", !.req = s] /\ call[c].kind = "open"
      <4>1. PICK s \in listed : k = [call[c] EXCEPT !.at = "resume", !.req = s]
        BY <3>3
      <4>2. s \in 0..(MaxSessions + MaxRuntimes)
        BY <1>1, ChatHandlesAssumption DEF CoreInv
      <4>3. QED
        BY <1>3, <3>3, <4>1, <4>2 DEF CallRecs, Sane
    <3>4. QED
      BY <2>2, <3>1, <3>2, <3>3
  <2>4. ChatNumbers' /\ ChatFlags' /\ Rest'
    BY <1>1, <1>2, <1>4, <2>1 DEF ChatNumbers, ChatFlags, Rest
  <2>5. HomeInv'
    <3> SUFFICES ASSUME NEW x \in Tokens, x \notin mixed', Home(x)
                 PROVE  /\ x \notin strayed'
                        /\ ~(call[c].chat = x /\ call[c].once /\ call[c].at = "resume")
                        /\ k.chat # x
      <4>1. Shifted(c, k)
        BY <2>2
      <4>2. UNCHANGED <<stored, handle, poll>> /\ mixed' = mixed
        BY <1>2, <2>1
      <4>3. QED
        BY <1>4, <4>1, <4>2, HomeMoves
    <3>1. x # 0
      BY ChatHandlesAssumption DEF Tokens
    <3>2. QED
      BY <1>2, <2>3, <3>1 DEF Home
  <2>6. QED
    BY <1>2, <1>4, <1>5, <1>6, <2>1, <2>2, <2>3, <2>4, <2>5, MoveStep
<1>8. CASE Found # {} /\ call[c].kind # "open"
  <2>1. PICK s \in listed :
          /\ Goes(c, [call[c] EXCEPT !.at = "resume", !.req = s])
          /\ stored' = [stored EXCEPT ![call[c].chat] = s]
          /\ mixed' = IF Out(call[c].chat) # {c} \/ poll[call[c].chat] > 0 THEN mixed \cup {call[c].chat} ELSE mixed
    BY <1>8 DEF Looks, Found
  <2>2. PICK k : k = [call[c] EXCEPT !.at = "resume", !.req = s]
    OBVIOUS
  <2>3. s \in 1..made /\ s \in 0..(MaxSessions + MaxRuntimes) /\ made \in Nat
    BY <1>1, ChatHandlesAssumption DEF CoreInv
  <2>4. /\ k \in CallRecs /\ k.at = "resume" /\ k.req = s /\ k.once /\ k.kind = call[c].kind
        /\ k.msg = call[c].msg /\ k.chat = call[c].chat /\ k.chat \in Tokens /\ handle[k.chat] # 0
    BY <1>2, <1>3, <1>8, <2>2, <2>3, NoCallFacts DEF CallRecs, Sane
  <2>5. Sane(k)'
    BY <1>2, <1>3, <1>8, <2>4 DEF Sane
  <2>6. Shifted(c, k)
    BY <1>1, <2>1, <2>2, GoesShifts DEF CallInv
  <2>7. stored' \in [Tokens -> 0..made]
    BY <1>1, <2>1, <2>3, <2>4 DEF ChatNumbers
  <2>8. ChatNumbers' /\ ChatFlags'
    BY <1>1, <1>2, <1>4, <2>7 DEF ChatNumbers, ChatFlags
  <2>9. Rest'
    BY <1>1, <1>2, <2>1, <2>4 DEF Rest
  <2>10. HomeInv'
    <3> SUFFICES ASSUME NEW x \in Tokens, x \notin mixed' PROVE Home(x)'
      BY DEF HomeInv
    <3>1. Home(x)
      BY <1>1, <2>1 DEF HomeInv
    <3>2. CASE x = k.chat
      <4>1. Out(x) = {c} /\ ~(poll[x] > 0) /\ stored'[x] = s
        BY <1>1, <2>1, <2>4, <3>2 DEF ChatNumbers
      <4>2. \A d \in Out(x)' : AtHome(call[d], stored[x])'
        BY <1>1, <1>4, <2>4, <2>6, <3>2, <4>1, CallsKnown, CallsAtHome
      <4>3. HalfWay(x)'
        <5>1. call'[c] = k
          BY <1>1, <2>1, <2>2 DEF Goes, CallInv
        <5>2. QED
          BY <2>4, <3>2, <5>1 DEF HalfWay, Out
      <4>4. QED
        BY <1>2, <3>1, <4>1, <4>2, <4>3 DEF Home
    <3>3. CASE x # k.chat
      <4>1. stored'[x] = stored[x]
        BY <1>1, <2>1, <2>4, <3>3 DEF ChatNumbers
      <4>2. \A d \in Out(x)' : AtHome(call[d], stored[x])'
        <5>1. Known(c, k)
          BY <2>6, CallsKnown
        <5>2. \A d \in Out(x) : d # c => AtHome(call[d], stored'[x])
          BY <3>1, <4>1 DEF Home
        <5>3. QED
          BY <1>1, <1>4, <3>3, <5>1, <5>2, CallsAtHome
      <4>3. HalfWay(x) => HalfWay(x)'
        BY <2>4, <2>6, <3>3, HalfWayStays
      <4>4. IsOf(handle[x], stored[x]) => IsOf(handle[x], stored[x])'
        BY <1>2, <1>4, <4>1 DEF IsOf
      <4>5. QED
        BY <1>2, <3>1, <4>1, <4>2, <4>3, <4>4 DEF Home
    <3>4. QED
      BY <3>2, <3>3
  <2>11. QED
    BY <1>2, <1>4, <1>5, <1>6, <1>8, <2>4, <2>5, <2>6, <2>8, <2>9, <2>10, MoveStep
<1>9. QED
  BY <1>7, <1>8

\* A chat that is minted stands for the session of its handle, and no call and
\* no poll was ever for it.
LEMMA Minting ==
  ASSUME IInv, CoreStep, NEW c \in Calls, call[c].kind = "open", refs' = refs,
         NEW s \in 1..made', NEW r \in 1..loads', own'[r] = s, Prompted(r)', Mints(c, s, r)
  PROVE  /\ Shifted(c, NoCall) /\ ChatNumbers' /\ ChatFlags' /\ HomeInv'
         /\ \A t \in Tokens : Prompted(handle[t])' /\ (handle[t] # 0 => handle'[t] # 0)
         /\ mixed' \subseteq mixed /\ strayed' \subseteq strayed
<1>1. CoreInv /\ ChatNumbers /\ ChatFlags /\ CallInv /\ HomeInv
  BY DEF IInv
<1>2. PICK t \in Fresh :
        /\ open' = [open EXCEPT ![t] = TRUE] /\ poll' = [poll EXCEPT ![t] = 0]
        /\ stored' = [stored EXCEPT ![t] = s] /\ handle' = [handle EXCEPT ![t] = r]
        /\ told' \in {told, told \cup {t}}
        /\ mixed' = mixed \ {t} /\ strayed' = strayed \ {t} /\ Ends(c)
  BY DEF Mints, Ready
<1>3. t \in Tokens /\ Out(t) = {}
  BY <1>2 DEF Fresh
<1>4. Shifted(c, NoCall)
  BY <1>1, <1>2, EndsShifts DEF CallInv
<1>5. r # 0 /\ made' \in Nat /\ loads' \in Nat /\ Off \in Int
  BY <1>1, NumbersKept DEF Off
<1>6. /\ stored' \in [Tokens -> 0..made'] /\ handle' \in [Tokens -> 0..loads'] /\ poll' \in [Tokens -> Off..made']
      /\ stored'[t] = s /\ handle'[t] = r /\ poll'[t] = 0
      /\ \A x \in Tokens : x # t => stored'[x] = stored[x] /\ handle'[x] = handle[x] /\ poll'[x] = poll[x]
  <2>1. /\ stored \in [Tokens -> 0..made'] /\ handle \in [Tokens -> 0..loads'] /\ poll \in [Tokens -> Off..made']
        /\ s \in 0..made' /\ r \in 0..loads' /\ 0 \in Off..made'
    BY <1>1, <1>5, NumbersKept DEF Off
  <2>2. QED
    BY <1>2, <1>3, <2>1
<1>7. ChatNumbers'
  BY <1>6 DEF ChatNumbers
<1>8. ChatFlags'
  <2>1. open' \in [Tokens -> BOOLEAN] /\ open'[t] /\ \A x \in Tokens : x # t => open'[x] = open[x]
    BY <1>1, <1>2, <1>3 DEF ChatFlags
  <2>2. poll'[t] # Off
    BY <1>6 DEF Off
  <2>3. told' \subseteq Tokens
    BY <1>1, <1>2, <1>3 DEF ChatFlags
  <2>4. QED
    BY <1>1, <1>5, <1>6, <2>1, <2>2, <2>3 DEF ChatFlags
<1>9. ASSUME NEW x \in Tokens PROVE Prompted(handle[x])' /\ (handle[x] # 0 => handle'[x] # 0)
  <2>1. CASE x = t
    BY <1>5, <1>6, <2>1 DEF Prompted, Loaded
  <2>2. CASE x # t
    BY <1>6, <2>2, PromptedKept
  <2>3. QED
    BY <2>1, <2>2
<1>10. HomeInv'
  <2> SUFFICES ASSUME NEW x \in Tokens, x \notin mixed' PROVE Home(x)'
    BY DEF HomeInv
  <2>1. Known(c, NoCall) /\ NoCall.chat # x
    BY <1>4, CallsKnown, NoCallFacts, ChatHandlesAssumption DEF Tokens
  <2>2. CASE x = t
    <3>1. Out(x)' = {}
      <4>1. \A d \in Calls : call'[d].chat # x
        BY <1>3, <2>1, <2>2 DEF Known, Out
      <4>2. QED
        BY <4>1 DEF Out
    <3>2. IsOf(handle[x], stored[x])'
      BY <1>6, <2>2 DEF IsOf
    <3>3. QED
      BY <1>2, <1>6, <2>2, <3>1, <3>2 DEF Home
  <2>3. CASE x # t
    <3>1. Home(x)
      BY <1>1, <1>2, <2>3 DEF HomeInv
    <3>2. \A d \in Out(x)' : AtHome(call[d], stored[x])'
      <4>1. \A d \in Out(x) : d # c => AtHome(call[d], stored'[x])
        BY <1>6, <2>3, <3>1 DEF Home
      <4>2. QED
        BY <1>1, <2>1, <4>1, CallsAtHome
    <3>3. HalfWay(x) => HalfWay(x)'
      <4>1. call[c].chat # x
        BY <1>1, ChatHandlesAssumption DEF CallInv, Sane, Tokens
      <4>2. QED
        BY <1>4, <4>1, HalfWayStays
    <3>4. IsOf(handle[x], stored[x]) => IsOf(handle[x], stored[x])'
      <4>1. handle[x] \in 0..loads
        BY <1>1 DEF ChatNumbers
      <4>2. IsOf(handle[x], stored[x]) => handle[x] = 0 \/ own'[handle[x]] = stored[x]
        BY <1>1, <4>1, IsOfStays
      <4>3. QED
        BY <1>6, <2>3, <4>2 DEF IsOf
    <3>5. QED
      BY <1>2, <1>6, <2>3, <3>1, <3>2, <3>3, <3>4 DEF Home
  <2>4. QED
    BY <2>2, <2>3
<1>11. QED
  BY <1>2, <1>4, <1>7, <1>8, <1>9, <1>10

\* The kickoff of an open that met no other finds no session listed.
LEMMA KickoffLandsStep ==
  ASSUME IInv, NEW c \in Calls, KickoffLands(c)
  PROVE  IInv'
<1>1. CoreInv /\ ChatNumbers /\ ChatFlags /\ CallInv /\ MessageInv /\ TwinInv /\ Rest
  BY DEF IInv
<1>2. PICK r : r = call[c].req
  OBVIOUS
<1>3. /\ call[c].at = "act" /\ call[c].kind = "open" /\ Loaded(r)
      /\ listed' = listed \cup {own[r]}
      /\ twins' = IF listed \ {own[r]} # {} /\ ~call[c].met THEN twins \cup {own[r]} ELSE twins
      /\ Mints(c, own[r], r)
      /\ UNCHANGED <<made, rt, own, loads, refs, calls, late, faults, acked, landed, doubtful>>
  BY <1>2 DEF KickoffLands
<1>4. r \in Runtimes /\ r \in 1..loads
  <2>1. call[c] \in CallRecs /\ call[c].req <= loads
    BY <1>1, <1>3 DEF CallInv, Sane
  <2>2. QED
    BY <1>1, <1>2, <1>3, <2>1, ChatHandlesAssumption DEF CallRecs, Loaded, CoreInv, Runtimes
<1>5. CoreStep /\ Prompted(r)'
  BY <1>1, <1>3, <1>4, Showing
<1>6. PICK s \in 1..made' : s = own[r]
  <2>1. own[r] \in 0..made /\ own[r] # 0 /\ made \in Nat
    BY <1>1, <1>3, <1>4, ChatHandlesAssumption DEF CoreInv, Loaded
  <2>2. QED
    BY <1>3, <2>1
<1>7. /\ Shifted(c, NoCall) /\ ChatNumbers' /\ ChatFlags' /\ HomeInv'
      /\ \A t \in Tokens : Prompted(handle[t])' /\ (handle[t] # 0 => handle'[t] # 0)
      /\ mixed' \subseteq mixed /\ strayed' \subseteq strayed
  <2>1. Mints(c, s, r) /\ own'[r] = s /\ refs' = refs /\ r \in 1..loads'
    BY <1>3, <1>4, <1>6
  <2>2. QED
    BY <1>3, <1>5, <2>1, Minting
<1>8. own[r] \in Sessions
  BY <1>1, <1>3, <1>6, ChatHandlesAssumption DEF CoreInv, Sessions
<1>9. Rest'
  <2>1. twins' \subseteq Sessions
    BY <1>1, <1>3, <1>8 DEF Rest
  <2>2. QED
    BY <1>1, <1>3, <1>7, <2>1 DEF Rest
<1>10. 0 \notin doubtful /\ ~call[c].met => listed = {}
  BY <1>1, <1>3 DEF TwinInv, Opening
<1>11. 0 \notin doubtful' => twins' = twins
  BY <1>3, <1>10
<1>12. ASSUME NEW e \in Opening, e # c PROVE call[e].met
  BY <1>1, <1>3, <1>12 DEF TwinInv, Opening
<1>13. \A m \in Messages : m \in doubtful' \/ landed'[m] = 0 \/ (landed'[m] = 1 /\ m \in acked')
  BY <1>1, <1>3 DEF MessageInv
<1>14. NoCall.msg \notin acked'
  BY <1>1, <1>3, NoCallFacts, ChatHandlesAssumption DEF Rest, Messages
<1>15. QED
  BY <1>3, <1>5, <1>7, <1>9, <1>11, <1>12, <1>13, <1>14, NoCallFacts, MoveStep

\* A resume gives its chat, and its call, the runtime of the session it asked for.
LEMMA ResumesStep ==
  ASSUME IInv, NEW c \in Calls, Resumes(c)
  PROVE  IInv'
<1>1. CoreInv /\ ChatNumbers /\ ChatFlags /\ CallInv /\ MessageInv /\ TwinInv /\ Rest /\ HomeInv
  BY DEF IInv
<1>2. /\ call[c].at = "resume" /\ call[c].req \in listed
      /\ UNCHANGED <<made, listed, calls, late, faults, acked, landed, doubtful, twins>>
  BY DEF Resumes
<1>3. made \in Nat /\ made' \in made..MaxSessions
  BY <1>1, <1>2, ChatHandlesAssumption DEF CoreInv
<1>4. PICK s \in 1..made' : s = call[c].req
  BY <1>1, <1>2 DEF CoreInv
<1>5. \A m \in Messages : m \in doubtful' \/ landed'[m] = 0 \/ (landed'[m] = 1 /\ m \in acked')
  BY <1>1, <1>2 DEF MessageInv
<1>6. call[c].msg \notin acked' /\ 0 \notin acked'
  BY <1>1, <1>2, ChatHandlesAssumption DEF MessageInv, Rest, Messages
<1>7. call[c] \in CallRecs /\ Sane(call[c])
  BY <1>1 DEF CallInv
<1>8. CASE call[c].kind = "open"
  <2>1. PICK r \in Runtimes : Load(s, r) /\ Mints(c, s, r) /\ UNCHANGED refs
    BY <1>4, <1>8 DEF Resumes
  <2>2. CoreStep /\ own'[r] = s /\ r \in 1..loads' /\ Prompted(r)'
    BY <1>1, <1>2, <1>3, <1>4, <2>1, Loading
  <2>3. /\ Shifted(c, NoCall) /\ ChatNumbers' /\ ChatFlags' /\ HomeInv'
        /\ \A t \in Tokens : Prompted(handle[t])' /\ (handle[t] # 0 => handle'[t] # 0)
        /\ mixed' \subseteq mixed /\ strayed' \subseteq strayed
    BY <1>8, <2>1, <2>2, Minting
  <2>4. Rest'
    BY <1>1, <1>2, <2>3 DEF Rest
  <2>5. QED
    BY <1>2, <1>5, <1>6, <2>2, <2>3, <2>4, NoCallFacts, MoveStep
<1>9. CASE call[c].kind # "open"
  <2>1. PICK t : t = call[c].chat
    OBVIOUS
  <2>2. t \in Tokens /\ handle[t] # 0 /\ call[c].kind # "none"
    BY <1>2, <1>7, <1>9, <2>1, NoCallFacts DEF Sane
  <2>3. PICK r \in Runtimes :
          /\ Load(s, r) /\ handle' = [handle EXCEPT ![t] = r]
          /\ refs' \in {Purged(t), refs}
          /\ \/ /\ call[c].kind = "control" => Revalidates(call[c].ref, r)
                /\ Goes(c, [call[c] EXCEPT !.at = "act", !.req = IF call[c].kind = "control" THEN call[c].ref.runtime ELSE r])
             \/ Ends(c)
          /\ UNCHANGED <<open, stored, poll, told, mixed, strayed>>
    BY <1>4, <1>9, <2>1 DEF Resumes
  <2>4. CoreStep /\ own'[r] = s /\ r \in 1..loads' /\ Prompted(r)'
    BY <1>1, <1>2, <1>3, <1>4, <2>3, Loading
  <2>5. r # 0 /\ r \in 0..loads' /\ r \in 0..(MaxSessions + MaxRuntimes)
    BY <1>1, <2>4, NumbersKept, ChatHandlesAssumption DEF Runtimes
  <2>6. PICK k : Shifted(c, k) /\ (k = NoCall \/ k = [call[c] EXCEPT !.at = "act", !.req = r])
    <3>1. CASE Ends(c)
      BY <1>1, <3>1, EndsShifts DEF CallInv
    <3>2. CASE ~Ends(c)
      <4>1. Goes(c, [call[c] EXCEPT !.at = "act", !.req = r])
        BY <2>3, <3>2 DEF Revalidates
      <4>2. QED
        BY <1>1, <4>1, GoesShifts DEF CallInv
    <3>3. QED
      BY <3>1, <3>2
  <2>7. /\ k \in CallRecs /\ k.msg \notin acked' /\ k.kind # "open"
        /\ k.msg = 0 \/ k.msg = call[c].msg
        /\ k.at # "resume" /\ (k.at = "act" => k.req = r)
        /\ k = NoCall \/ (k.chat = t /\ k.kind = call[c].kind /\ k.at = "act" /\ k.once = call[c].once)
    <3>1. CASE k = NoCall
      BY <1>6, <3>1, NoCallFacts
    <3>2. CASE k = [call[c] EXCEPT !.at = "act", !.req = r]
      BY <1>6, <1>7, <1>9, <2>1, <2>5, <3>2 DEF CallRecs
    <3>3. QED
      BY <2>6, <3>1, <3>2
  <2>8. handle' \in [Tokens -> 0..loads'] /\ handle'[t] = r /\ \A x \in Tokens : x # t => handle'[x] = handle[x]
    <3>1. handle \in [Tokens -> 0..loads']
      BY <1>1, <2>4, NumbersKept
    <3>2. QED
      BY <2>2, <2>3, <2>5, <3>1
  <2>9. Sane(k)'
    <3>1. CASE k = NoCall
      BY <3>1, NoCallFacts
    <3>2. CASE k # NoCall
      <4>1. /\ k.chat = t /\ k.kind = call[c].kind /\ k.at = "act" /\ k.req = r
            /\ k.once = call[c].once /\ (k.msg = 0 \/ k.msg = call[c].msg)
        BY <2>7, <3>2
      <4>2. r <= loads' /\ handle'[k.chat] # 0
        BY <2>5, <2>8, <4>1
      <4>3. QED
        BY <1>7, <1>9, <2>2, <4>1, <4>2 DEF Sane
    <3>3. QED
      BY <3>1, <3>2
  <2>10. ChatNumbers' /\ ChatFlags' /\ Rest'
    <3>1. ChatNumbers'
      BY <1>1, <1>2, <2>3, <2>8 DEF ChatNumbers
    <3>2. ChatFlags'
      BY <1>1, <2>3, <2>5, <2>8 DEF ChatFlags, Purged
    <3>3. Rest'
      BY <1>1, <1>2, <2>3 DEF Rest
    <3>4. QED
      BY <3>1, <3>2, <3>3
  <2>11. ASSUME NEW x \in Tokens PROVE Prompted(handle[x])' /\ (handle[x] # 0 => handle'[x] # 0)
    <3>1. CASE x = t
      BY <2>4, <2>5, <2>8, <3>1 DEF Prompted, Loaded
    <3>2. CASE x # t
      BY <2>4, <2>8, <3>2, PromptedKept
    <3>3. QED
      BY <3>1, <3>2
  <2>12. HomeInv'
    <3> SUFFICES ASSUME NEW x \in Tokens, x \notin mixed' PROVE Home(x)'
      BY DEF HomeInv
    <3>1. Home(x) /\ stored'[x] = stored[x]
      BY <1>1, <2>3 DEF HomeInv
    <3>2. x = t => s = stored[x]
      BY <1>2, <1>4, <2>1, <3>1 DEF Home, AtHome, Out
    <3>3. \A d \in Out(x)' : AtHome(call[d], stored[x])'
      <4>1. Known(c, k)
        BY <2>6, CallsKnown
      <4>2. \A d \in Out(x) : d # c => AtHome(call[d], stored'[x])
        BY <3>1 DEF Home
      <4>3. k.chat = x => x = t
        BY <2>7, NoCallFacts, ChatHandlesAssumption DEF Tokens
      <4>4. k.chat = x => (k.at = "resume" => k.req = stored'[x])
                          /\ (k.at = "act" => k.req = 0 \/ own'[k.req] = stored'[x])
        BY <2>4, <2>7, <3>1, <3>2, <4>3
      <4>5. QED
        BY <1>1, <2>4, <4>1, <4>2, <4>4, CallsAtHome
    <3>4. (IsOf(handle[x], stored[x]) \/ HalfWay(x))'
      <4>1. CASE x = t
        BY <2>4, <2>8, <3>1, <3>2, <4>1 DEF IsOf
      <4>2. CASE x # t
        <5>1. HalfWay(x) => HalfWay(x)'
          BY <2>1, <2>6, <4>2, HalfWayStays
        <5>2. handle[x] \in 0..loads
          BY <1>1 DEF ChatNumbers
        <5>3. IsOf(handle[x], stored[x]) => IsOf(handle[x], stored[x])'
          BY <1>1, <2>4, <2>8, <3>1, <4>2, <5>2, IsOfStays DEF IsOf
        <5>4. QED
          BY <3>1, <5>1, <5>3 DEF Home
      <4>3. QED
        BY <4>1, <4>2
    <3>5. poll'[x] > 0 => poll'[x] = stored'[x]
      BY <2>3, <3>1 DEF Home
    <3>6. x \notin strayed'
      BY <2>3, <3>1 DEF Home
    <3>7. QED
      BY <3>3, <3>4, <3>5, <3>6 DEF Home
  <2>13. QED
    BY <1>2, <1>5, <2>4, <2>6, <2>7, <2>9, <2>10, <2>11, <2>12, MoveStep
<1>10. QED
  BY <1>8, <1>9

-----------------------------------------------------------------------------
(* The theorems.                                                           *)

LEMMA InitInv == Init => IInv
<1> SUFFICES ASSUME Init PROVE IInv
  OBVIOUS
<1>1. made \in Nat /\ Off \in Int /\ Off < 0 /\ 0 \in 0..made /\ 0 \in 0..MaxRuntimes
  BY ChatHandlesAssumption DEF Init, Off
<1>2. /\ made \in 0..MaxSessions /\ listed = 1..made /\ rt = [s \in Sessions |-> 0]
      /\ own = [r \in Runtimes |-> 0] /\ loads = 0
      /\ stored = [t \in Tokens |-> 0] /\ handle = [t \in Tokens |-> 0]
      /\ poll = [t \in Tokens |-> Off]
  BY DEF Init
<1>3. /\ open = [t \in Tokens |-> FALSE]
      /\ refs = {} /\ call = [c \in Calls |-> NoCall] /\ calls = 0 /\ late = {} /\ faults = 0
      /\ told = {} /\ acked = {} /\ landed = [m \in Messages |-> 0] /\ doubtful = {}
      /\ twins = {} /\ mixed = {} /\ strayed = {}
  BY DEF Init
<1>4. CoreInv
  BY <1>1, <1>2 DEF CoreInv
<1>5. ChatNumbers
  <2>1. Off \in Off..made /\ 0 \in 0..loads
    BY <1>1, <1>2
  <2>2. QED
    BY <1>1, <1>2, <2>1 DEF ChatNumbers
<1>6. ChatFlags
  BY <1>2, <1>3 DEF ChatFlags
<1>7. \A c \in Calls : call[c] = NoCall
  BY <1>3
<1>8. CallInv
  BY <1>3, <1>7, NoCallFacts DEF CallInv
<1>9. Rest
  <2>1. 0 \in 0..MaxCalls /\ 0 \in 0..MaxFaults /\ landed \in [Messages -> Nat]
    BY <1>3, ChatHandlesAssumption
  <2>2. QED
    BY <1>3, <2>1 DEF Rest
<1>10. MessageInv
  BY <1>3, <1>7, NoCallFacts DEF MessageInv
<1>11. PromptedInv
  BY <1>2, <1>3, <1>7, NoCallFacts DEF PromptedInv, Prompted, Loaded
<1>12. TwinInv
  BY <1>3, <1>7, NoCallFacts DEF TwinInv, Opening
<1>13. HomeInv
  <2> SUFFICES ASSUME NEW t \in Tokens PROVE Home(t)
    BY DEF HomeInv
  <2>1. Out(t) = {}
    BY <1>7, NoCallFacts, ChatHandlesAssumption DEF Out, Tokens
  <2>2. ~(poll[t] > 0) /\ handle[t] = 0
    BY <1>1, <1>2
  <2>3. QED
    BY <1>3, <2>1, <2>2 DEF Home, IsOf
<1>14. QED
  BY <1>4, <1>5, <1>6, <1>8, <1>9, <1>10, <1>11, <1>12, <1>13 DEF IInv

LEMMA StepInv == IInv /\ [Next]_vars => IInv'
<1> SUFFICES ASSUME IInv, [Next]_vars PROVE IInv'
  OBVIOUS
<1>1. CASE UNCHANGED vars
  <2>1. /\ UNCHANGED <<made, listed, rt, own, loads>> /\ UNCHANGED <<open, stored, handle, poll>>
        /\ UNCHANGED <<refs, call, calls, late, faults>>
        /\ UNCHANGED <<told, acked, landed, doubtful, twins, mixed, strayed>>
    BY <1>1 DEF vars, core, chats, history
  <2>2. CoreInv /\ ChatNumbers /\ ChatFlags /\ Rest
    BY DEF IInv
  <2>3. CoreStep
    BY <2>1, <2>2, CoreSame DEF core
  <2>4. ChatNumbers' /\ ChatFlags' /\ faults' \in 0..MaxFaults
    BY <2>1, <2>2 DEF ChatNumbers, ChatFlags, Rest
  <2>5. HomeInv'
    BY <2>1, <2>3, HomeStill
  <2>6. \A t \in Tokens : Prompted(handle[t])'
    BY <2>1, <2>3, PromptedKept
  <2>7. QED
    BY <2>1, <2>3, <2>4, <2>5, <2>6, StillStep
<1>2. CASE \E s \in Sessions : Unloads(s) \/ Deleted(s)
  BY <1>2, UnloadsStep
<1>3. CASE \E p \in late : LateLands(p)
  BY <1>3, LateLandsStep
<1>4. ASSUME NEW c \in Calls,
             \/ StartsOpen(c) \/ StartsSend(c) \/ StartsResume(c) \/ StartsControl(c)
             \/ Looks(c) \/ Resumes(c) \/ ResumesNothing(c) \/ Creates(c)
             \/ KickoffLands(c) \/ PromptLands(c) \/ ListReturns(c) \/ ControlLands(c)
             \/ Fails(c) \/ Lost(c)
      PROVE  IInv'
  BY <1>4, StartsOpenStep, StartsSomeStep, LooksStep, ResumesStep, ErrorStep, CreatesStep,
     KickoffLandsStep, PromptLandsStep, OtherLandsStep, LostStep
<1>5. CASE \E t \in Tokens : PollAsks(t) \/ PollHears(t) \/ Close(t) \/ Idle(t)
  BY <1>5, PollAsksStep, PollHearsStep, ExpiresStep
<1>6. CASE Clear
  BY <1>6, ExpiresStep
<1>7. QED
  BY <1>1, <1>2, <1>3, <1>4, <1>5, <1>6 DEF Next

\* Every behaviour of the bot's chats keeps the whole invariant.
THEOREM Inductive == Spec => []IInv
BY InitInv, StepInv, PTL DEF Spec

\* The tokens, the stored ids, the runtime handles and the refs keep their
\* types, and a chat is polled just as long as it is open, however many
\* sessions, chats and calls there are (bot_chats.py, bot_subagents.py).
THEOREM TypeCorrect == Spec => []TypeOK
<1>1. IInv => TypeOK
  BY DEF IInv, CoreInv, ChatNumbers, ChatFlags, CallInv, CallRecs, Rest, TypeOK
<1>2. QED
  BY <1>1, Inductive, PTL

\* open_chat makes no second forever-chat, but beside an open it met or after a
\* kickoff it gave up on, whatever is unloaded or deleted meanwhile.
THEOREM NoTwin == Spec => []NoTwinChat
<1>1. IInv => NoTwinChat
  BY DEF IInv, TwinInv, NoTwinChat
<1>2. QED
  BY <1>1, Inductive, PTL

\* The core takes a message of the phone once, whatever prompt_chat tried again
\* and however often the phone sent it, unless the door gave up on an answer.
THEOREM TakenOnce == Spec => []MessageTakenOnce
<1>1. IInv => MessageTakenOnce
  BY DEF IInv, MessageInv, Rest, MessageTakenOnce
<1>2. QED
  BY <1>1, Inductive, PTL

\* No prompt, interrupt or control acts in a session its chat does not stand
\* for, unless a re-resolution of that chat met another request or ended half
\* way (prompt_chat, stop_chat, reresolve_chat).
THEOREM ActsAtHome == Spec => []ActsInItsSession
<1>1. IInv => ActsInItsSession
  BY DEF IInv, HomeInv, Home, Rest, ActsInItsSession
<1>2. QED
  BY <1>1, Inductive, PTL
=============================================================================
