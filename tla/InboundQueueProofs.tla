------------------------- MODULE InboundQueueProofs -------------------------
(***************************************************************************)
(* Theorems about InboundQueue, for every value of its constants.          *)
(***************************************************************************)
EXTENDS InboundQueue, TLAPS

\* Where the worker, the queue and the cursor stand: what is in flight lies
\* above the cursor and not above the reader's mark, in the order read.
PositionInv ==
  /\ disk <= cursor /\ cursor <= posted /\ pos <= posted
  /\ latest <= cursor
  /\ phase \in {"off", "down"} => seen = 0 /\ queue = <<>> /\ current = 0
  /\ phase \in {"reading", "draining", "stopping"} =>
       pos = IF seen = 0 THEN cursor ELSE seen
  /\ seen # 0 => cursor <= seen
  /\ current # 0 => cursor < current /\ current <= seen
  /\ seen <= posted
  /\ failed => current = 0

QueueInv ==
  /\ \A i \in 1..Len(queue) :
       /\ cursor < queue[i] /\ queue[i] <= seen
       /\ current < queue[i]
  /\ \A i, j \in 1..Len(queue) : i < j => queue[i] < queue[j]

\* Messages that will never be dispatched for sure, although the reader may
\* reject their replay: the victims of a dispatch that raised.
Victims == raised \cup abandoned
InFlight(s) == s = current \/ s \in Queued

\* Every message up to the cursor has been handed over or is excused.
PassedInv == \A s \in Nat : 1 <= s /\ s <= cursor => s \in done \cup Excused

\* Every message read above the cursor is in flight, or has its account.
ReadInv ==
  \A s \in Nat : cursor < s /\ s <= seen => InFlight(s) \/ s \in done \cup Excused

\* A message whose nonce is remembered was accepted, so rejecting it again
\* is right unless a dispatch raised.
NonceInv ==
  phase # "off" => \A i \in 1..Len(nonces) :
    nonces[i] # RpcNonce => InFlight(nonces[i]) \/ nonces[i] \in done \cup Victims

AccountInv == PassedInv /\ ReadInv /\ NonceInv

\* Only messages the relay has stored are given up.
ExcusedInv == Excused \subseteq 1..posted

IInv == TypeOK /\ PositionInv /\ QueueInv /\ AccountInv /\ ExcusedInv

-----------------------------------------------------------------------------
\* The messages in a queue of naturals are naturals.
LEMMA QueuedType == TypeOK => Queued \subseteq Nat
  BY DEF TypeOK, Queued

\* Every step keeps every variable in its type.
LEMMA TypeStep == TypeOK /\ [Next]_vars => TypeOK'
<1> SUFFICES ASSUME TypeOK, [Next]_vars PROVE TypeOK'
  OBVIOUS
<1> USE InboundAssumption DEF TypeOK, relay, reader, worker, history
<1>1. CASE PhonePosts
  BY <1>1 DEF PhonePosts
<1>2. CASE TimePasses
  BY <1>2 DEF TimePasses
<1>3. CASE GraceExpires
  BY <1>3 DEF GraceExpires, Connected
<1>4. CASE Connect
  BY <1>4 DEF Connect
<1>5. CASE SocketLost
  BY <1>5 DEF SocketLost, Connected
<1>6. CASE Drained
  <2>1. abandoned' \subseteq Nat
    BY <1>6, QueuedType DEF Drained
  <2>2. QED
    BY <1>6, <2>1 DEF Drained
<1>7. CASE SkipSeen
  BY <1>7 DEF SkipSeen, OnTheWire, Connected
<1>8. CASE DropStale
  BY <1>8 DEF DropStale, Arrives, Connected
<1>9. CASE DropReplayed
  BY <1>9 DEF DropReplayed, Arrives, Remembered, Connected
<1>10. CASE Accept
  BY <1>10 DEF Accept, Arrives, Remembered, Remember, Connected
<1>11. CASE ReadRpc
  BY <1>11 DEF ReadRpc, Remember, RpcNonce, Connected
<1>12. CASE ReadBacklogDone
  BY <1>12 DEF ReadBacklogDone, Connected
<1>13. CASE WorkerTakes
  BY <1>13 DEF WorkerTakes, WorkerLives
<1>14. CASE WorkerSucceeds
  BY <1>14 DEF WorkerSucceeds, WorkerLives
<1>15. CASE WorkerFails
  BY <1>15 DEF WorkerFails, WorkerLives
<1>16. CASE Crash
  <2>1. CASE UNCHANGED <<done, disk>>
    BY <1>16, <2>1 DEF Crash, Ends
  <2>2. CASE done' = done \cup {current} /\ disk' \in {disk, 0}
    BY <1>16, <2>2 DEF Crash, Ends
  <2>3. QED
    BY <1>16, <2>1, <2>2 DEF Crash
<1>17. CASE StopReading
  BY <1>17 DEF StopReading, Connected
<1>18. CASE StopAtOnce
  BY <1>18 DEF StopAtOnce, Ends
<1>19. CASE Restart
  <2>1. cursor' \in Nat /\ nonces' \in Seq(Nat) /\ Len(nonces') <= NonceCap
    BY <1>19 DEF Restart
  <2>2. phase' = "down" /\ backlogOpen' = FALSE /\ failed' = FALSE /\ latest' = 0
    BY <1>19 DEF Restart
  <2>3. UNCHANGED <<posted, tooOld, backlogEnd, pos, seen, queue, current, disk, restarts,
                    done, tooLate, raised, abandoned>>
    BY <1>19 DEF Restart
  <2>4. QED
    BY <2>1, <2>2, <2>3
<1>20. CASE UNCHANGED vars
  BY <1>20 DEF vars
<1>21. QED
  BY <1>1, <1>2, <1>3, <1>4, <1>5, <1>6, <1>7, <1>8, <1>9, <1>10, <1>11, <1>12, <1>13, <1>14, <1>15, <1>16, <1>17, <1>18, <1>19, <1>20 DEF Next

\* Every step keeps cursor, mark and the message in flight in order.
LEMMA PositionStep == TypeOK /\ PositionInv /\ QueueInv /\ [Next]_vars => PositionInv'
<1> SUFFICES ASSUME TypeOK, PositionInv, QueueInv, [Next]_vars PROVE PositionInv'
  OBVIOUS
<1> USE DEF TypeOK, PositionInv, relay, reader, worker, history
<1>1. CASE PhonePosts
  BY <1>1 DEF PhonePosts
<1>2. CASE TimePasses
  BY <1>2 DEF TimePasses
<1>3. CASE GraceExpires
  BY <1>3 DEF GraceExpires, Connected
<1>4. CASE Connect
  BY <1>4 DEF Connect
<1>5. CASE SocketLost
  BY <1>5 DEF SocketLost, Connected
<1>6. CASE Drained
  BY <1>6 DEF Drained, WorkerReturned
<1>7. CASE SkipSeen
  BY <1>7 DEF SkipSeen, OnTheWire, Connected
<1>8. CASE DropStale
  BY <1>8 DEF DropStale, Arrives, Connected
<1>9. CASE DropReplayed
  BY <1>9 DEF DropReplayed, Arrives, Remembered, Connected
<1>10. CASE Accept
  BY <1>10 DEF Accept, Arrives, Remembered, Remember, Connected
<1>11. CASE ReadRpc
  BY <1>11 DEF ReadRpc, Remember, RpcNonce, Connected
<1>12. CASE ReadBacklogDone
  BY <1>12 DEF ReadBacklogDone, Connected
<1>13. CASE WorkerTakes
  BY <1>13 DEF WorkerTakes, WorkerLives, QueueInv
<1>14. CASE WorkerSucceeds
  BY <1>14 DEF WorkerSucceeds, WorkerLives
<1>15. CASE WorkerFails
  BY <1>15 DEF WorkerFails, WorkerLives
<1>16. CASE Crash
  BY <1>16 DEF Crash, Ends, WorkerLives
<1>17. CASE StopReading
  BY <1>17 DEF StopReading, Connected
<1>18. CASE StopAtOnce
  BY <1>18 DEF StopAtOnce, Ends
<1>19. CASE Restart
  BY <1>19 DEF Restart
<1>20. CASE UNCHANGED vars
  BY <1>20 DEF vars
<1>21. QED
  BY <1>1, <1>2, <1>3, <1>4, <1>5, <1>6, <1>7, <1>8, <1>9, <1>10, <1>11, <1>12, <1>13, <1>14, <1>15, <1>16, <1>17, <1>18, <1>19, <1>20 DEF Next

\* Every step keeps the queue increasing and between cursor and mark.
LEMMA QueueStep == TypeOK /\ PositionInv /\ QueueInv /\ [Next]_vars => QueueInv'
<1> SUFFICES ASSUME TypeOK, PositionInv, QueueInv, [Next]_vars PROVE QueueInv'
  OBVIOUS
<1> USE DEF TypeOK, QueueInv, PositionInv, relay, reader, worker, history
<1>1. CASE PhonePosts
  BY <1>1 DEF PhonePosts
<1>2. CASE TimePasses
  BY <1>2 DEF TimePasses
<1>3. CASE GraceExpires
  BY <1>3 DEF GraceExpires, Connected
<1>4. CASE Connect
  BY <1>4 DEF Connect
<1>5. CASE SocketLost
  BY <1>5 DEF SocketLost, Connected
<1>6. CASE Drained
  BY <1>6 DEF Drained, WorkerReturned
<1>7. CASE SkipSeen
  BY <1>7 DEF SkipSeen, OnTheWire, Connected
<1>8. CASE DropStale
  BY <1>8 DEF DropStale, Arrives, Connected
<1>9. CASE DropReplayed
  BY <1>9 DEF DropReplayed, Arrives, Remembered, Connected
<1>10. CASE Accept
  <2>1. PICK s \in 1..MaxSeq : /\ Arrives(s)
                               /\ queue' = Append(queue, s)
                               /\ UNCHANGED <<cursor, current>>
    BY <1>10 DEF Accept
  <2>2. seen' = s /\ seen < s /\ cursor < s /\ current < s
    BY <2>1 DEF Arrives, Connected
  <2>3. Len(queue') = Len(queue) + 1 /\ queue'[Len(queue) + 1] = s
    BY <2>1
  <2>4. \A i \in 1..Len(queue) : queue'[i] = queue[i]
    BY <2>1
  <2>5. QED
    BY <2>1, <2>2, <2>3, <2>4
<1>11. CASE ReadRpc
  BY <1>11 DEF ReadRpc, Remember, RpcNonce, Connected
<1>12. CASE ReadBacklogDone
  BY <1>12 DEF ReadBacklogDone, Connected
<1>13. CASE WorkerTakes
  <2>1. /\ queue # <<>> /\ current' = queue[1] /\ queue' = Tail(queue)
        /\ UNCHANGED <<seen, cursor>>
    BY <1>13 DEF WorkerTakes
  <2>2. Len(queue) >= 1 /\ Len(queue') = Len(queue) - 1
    BY <2>1
  <2>3. \A i \in 1..Len(queue') : queue'[i] = queue[i + 1]
    BY <2>1, <2>2
  <2>4. QED
    BY <2>1, <2>2, <2>3
<1>14. CASE WorkerSucceeds
  BY <1>14 DEF WorkerSucceeds, WorkerLives
<1>15. CASE WorkerFails
  BY <1>15 DEF WorkerFails, WorkerLives
<1>16. CASE Crash
  BY <1>16 DEF Crash, Ends, WorkerLives
<1>17. CASE StopReading
  BY <1>17 DEF StopReading, Connected
<1>18. CASE StopAtOnce
  BY <1>18 DEF StopAtOnce, Ends
<1>19. CASE Restart
  BY <1>19 DEF Restart
<1>20. CASE UNCHANGED vars
  BY <1>20 DEF vars
<1>21. QED
  BY <1>1, <1>2, <1>3, <1>4, <1>5, <1>6, <1>7, <1>8, <1>9, <1>10, <1>11, <1>12, <1>13, <1>14, <1>15, <1>16, <1>17, <1>18, <1>19, <1>20 DEF Next

\* What the cache holds after it has remembered n.
LEMMA RememberRange ==
  ASSUME TypeOK, NEW n \in Nat
  PROVE  \A i \in 1..Len(Remember(n)) :
           Remember(n)[i] = n \/ \E j \in 1..Len(nonces) : nonces[j] = Remember(n)[i]
<1>1. CASE Len(nonces) = NonceCap
  <2>1. nonces # <<>> /\ Len(Tail(nonces)) = Len(nonces) - 1
    BY <1>1, InboundAssumption DEF TypeOK
  <2>2. \A j \in 1..Len(Tail(nonces)) : Tail(nonces)[j] = nonces[j + 1]
    BY <2>1 DEF TypeOK
  <2>3. QED
    BY <1>1, <2>1, <2>2 DEF Remember, TypeOK
<1>2. CASE Len(nonces) # NonceCap
  BY <1>2 DEF Remember, TypeOK
<1>3. QED
  BY <1>1, <1>2

\* A frame queued is in flight, and so is what was in flight before.
LEMMA AppendInFlight ==
  ASSUME TypeOK, NEW s \in Nat, queue' = Append(queue, s), current' = current
  PROVE  InFlight(s)' /\ \A r \in Nat : InFlight(r) => InFlight(r)'
<1>1. Len(queue') = Len(queue) + 1 /\ queue'[Len(queue) + 1] = s
  BY DEF TypeOK
<1>2. \A i \in 1..Len(queue) : queue'[i] = queue[i]
  BY DEF TypeOK
<1>3. QED
  BY <1>1, <1>2 DEF InFlight, Queued, TypeOK

\* What is in flight stays so when the worker takes the head of the queue.
LEMMA TakeInFlight ==
  ASSUME TypeOK, queue # <<>>, current = 0, current' = queue[1], queue' = Tail(queue)
  PROVE  \A s \in Nat \ {0} : InFlight(s) => InFlight(s)'
<1>1. Len(queue) >= 1 /\ Len(queue') = Len(queue) - 1
  BY DEF TypeOK
<1>2. \A i \in 1..Len(queue') : queue'[i] = queue[i + 1]
  BY <1>1 DEF TypeOK
<1>3. ASSUME NEW i \in 1..Len(queue), i # 1
      PROVE  i - 1 \in 1..Len(queue') /\ queue'[i - 1] = queue[i]
  BY <1>1, <1>2, <1>3 DEF TypeOK
<1>4. ASSUME NEW s \in Nat \ {0}, InFlight(s)
      PROVE  InFlight(s)'
  <2>1. PICK i \in 1..Len(queue) : queue[i] = s
    BY <1>4 DEF InFlight, Queued
  <2>2. CASE i = 1
    BY <2>1, <2>2 DEF InFlight
  <2>3. CASE i # 1
    <3>1. i - 1 \in 1..Len(queue') /\ queue'[i - 1] = s
      BY <1>3, <2>1, <2>3
    <3>2. QED
      BY <3>1 DEF InFlight, Queued
  <2>4. QED
    BY <2>2, <2>3
<1>5. QED
  BY <1>4

\* Every step keeps the account of every message.
LEMMA AccountStep == IInv /\ [Next]_vars => AccountInv'
<1> SUFFICES ASSUME TypeOK, PositionInv, QueueInv, AccountInv, [Next]_vars PROVE AccountInv'
  BY DEF IInv
<1> USE DEF TypeOK, AccountInv, PassedInv, ReadInv, NonceInv, Excused, Victims, relay, reader, worker, history
<1>1. CASE PhonePosts
  BY <1>1 DEF PhonePosts, Connected, PositionInv, InFlight, Queued
<1>2. CASE TimePasses
  BY <1>2 DEF TimePasses, Connected, PositionInv, InFlight, Queued
<1>3. CASE GraceExpires
  BY <1>3 DEF GraceExpires, Connected, PositionInv, InFlight, Queued
<1>4. CASE Connect
  BY <1>4 DEF Connect, Connected, PositionInv, InFlight, Queued
<1>5. CASE SocketLost
  BY <1>5 DEF SocketLost, Connected, PositionInv, InFlight, Queued
<1>6. CASE Drained
  BY <1>6 DEF Drained, Connected, PositionInv, InFlight, Queued
<1>7. CASE SkipSeen
  BY <1>7 DEF SkipSeen, OnTheWire, PositionInv, InFlight, Queued
<1>8. CASE DropStale
  <2>1. PICK s \in 1..MaxSeq : Arrives(s) /\ tooLate' = tooLate \cup {s}
    BY <1>8 DEF DropStale
  <2>2. UNCHANGED <<phase, queue, current, cursor, nonces, done, raised, abandoned>>
    BY <1>8 DEF DropStale
  <2>3. seen' = s /\ \A r \in Nat : cursor < r /\ r < s => r <= seen
    BY <2>1 DEF Arrives, Connected, PositionInv
  <2>4. \A r \in Nat : InFlight(r)' <=> InFlight(r)
    BY <2>2 DEF InFlight, Queued
  <2>5. PassedInv'
    BY <2>1, <2>2
  <2>6. ReadInv'
    <3>1. ASSUME NEW r \in Nat, cursor < r, r <= s
          PROVE  InFlight(r) \/ r \in done \cup Excused \/ r = s
      <4>1. r < s => r <= seen
        BY <2>3, <3>1
      <4>2. r < s \/ r = s
        BY <3>1, InboundAssumption
      <4>3. QED
        BY <3>1, <4>1, <4>2
    <3>2. QED
      BY <2>1, <2>2, <2>3, <2>4, <3>1
  <2>7. NonceInv'
    BY <2>2, <2>4
  <2>8. QED
    BY <2>5, <2>6, <2>7
<1>9. CASE DropReplayed
  <2>1. PICK s \in 1..MaxSeq : Arrives(s) /\ Remembered(s)
    BY <1>9 DEF DropReplayed
  <2>2. UNCHANGED <<queue, current, cursor, nonces, phase, history>> /\ phase = "reading"
    BY <1>9, <2>1 DEF DropReplayed, Arrives, Connected
  <2>3. InFlight(s) \/ s \in done \cup Excused
    BY <2>1, <2>2 DEF Remembered, RpcNonce, Arrives, Connected
  <2>4. seen' = s /\ \A r \in Nat : cursor < r /\ r < s => r <= seen
    BY <2>1 DEF Arrives, Connected, PositionInv
  <2>5. \A r \in Nat : InFlight(r)' <=> InFlight(r)
    BY <2>2 DEF InFlight, Queued
  <2>6. QED
    BY <2>2, <2>3, <2>4, <2>5
<1>10. CASE Accept
  <2>1. PICK s \in 1..MaxSeq : /\ Arrives(s)
                               /\ queue' = Append(queue, s) /\ nonces' = Remember(s)
                               /\ UNCHANGED <<current, cursor, history>>
    BY <1>10 DEF Accept
  <2>2. phase = "reading" /\ seen' = s /\ \A r \in Nat : cursor < r /\ r < s => r <= seen
    BY <2>1 DEF Arrives, Connected, PositionInv
  <2>3. InFlight(s)' /\ \A r \in Nat : InFlight(r) => InFlight(r)'
    <3>1. s \in Nat /\ queue' = Append(queue, s) /\ current' = current
      BY <2>1
    <3>2. QED
      BY <3>1, AppendInFlight
  <2>4. \A i \in 1..Len(nonces') :
          nonces'[i] = s \/ \E j \in 1..Len(nonces) : nonces[j] = nonces'[i]
    <3>1. s \in Nat /\ nonces' = Remember(s)
      BY <2>1
    <3>2. QED
      BY <3>1, RememberRange
  <2>5. \A r \in Nat : InFlight(r) \/ r \in done \cup Victims
                         => InFlight(r)' \/ r \in done' \cup Victims'
    BY <2>1, <2>3
  <2>6. PassedInv'
    BY <2>1
  <2>7. ReadInv'
    <3>1. ASSUME NEW r \in Nat, cursor < r, r <= s
          PROVE  InFlight(r) \/ r \in done \cup Excused \/ r = s
      <4>1. r < s => r <= seen
        BY <2>2, <3>1
      <4>2. r < s \/ r = s
        BY <3>1, InboundAssumption
      <4>3. QED
        BY <3>1, <4>1, <4>2
    <3>2. QED
      BY <2>1, <2>2, <2>3, <3>1
  <2>8. NonceInv'
    <3>1. ASSUME NEW i \in 1..Len(nonces'), nonces'[i] # RpcNonce, nonces'[i] # s
          PROVE  InFlight(nonces'[i]) \/ nonces'[i] \in done \cup Victims
      BY <2>2, <2>4, <3>1
    <3>2. \A i \in 1..Len(nonces') : nonces'[i] \in Nat
      <4>1. nonces' \in Seq(Nat)
        BY TypeStep
      <4>2. QED
        BY <4>1
    <3>3. QED
      BY <2>3, <2>5, <3>1, <3>2
  <2>9. QED
    BY <2>6, <2>7, <2>8
<1>11. CASE ReadRpc
  <2>1. /\ nonces' = Remember(RpcNonce) /\ phase = "reading"
        /\ UNCHANGED <<queue, current, cursor, seen, history>>
    BY <1>11 DEF ReadRpc, Connected
  <2>2. \A i \in 1..Len(nonces') :
          nonces'[i] = RpcNonce \/ \E j \in 1..Len(nonces) : nonces[j] = nonces'[i]
    BY <2>1, RememberRange DEF RpcNonce
  <2>3. \A r \in Nat : InFlight(r)' <=> InFlight(r)
    BY <2>1 DEF InFlight, Queued
  <2>4. PassedInv' /\ ReadInv'
    BY <2>1, <2>3
  <2>5. NonceInv'
    <3>1. ASSUME NEW i \in 1..Len(nonces'), nonces'[i] # RpcNonce
          PROVE  nonces'[i] \in Nat /\ (InFlight(nonces'[i]) \/ nonces'[i] \in done \cup Victims)
      BY <2>1, <2>2, <3>1
    <3>2. QED
      BY <2>1, <2>3, <3>1
  <2>6. QED
    BY <2>4, <2>5
<1>12. CASE ReadBacklogDone
  BY <1>12 DEF ReadBacklogDone, Connected, PositionInv, InFlight, Queued
<1>13. CASE WorkerTakes
  <2>1. /\ phase # "off"
        /\ current = 0 /\ queue # <<>> /\ current' = queue[1] /\ queue' = Tail(queue)
        /\ UNCHANGED <<seen, cursor, nonces, phase, history>>
    BY <1>13 DEF WorkerTakes, WorkerLives
  <2>2. \A s \in Nat \ {0} : InFlight(s) => InFlight(s)'
    <3> HIDE DEF TypeOK
    <3>1. QED
      BY <2>1, TakeInFlight
  <2>3. QED
    BY <2>1, <2>2 DEF RpcNonce
<1>14. CASE WorkerSucceeds
  <2>1. /\ phase # "off" /\ current # 0 /\ cursor' = current
        /\ done' = done \cup {current}
        /\ UNCHANGED <<seen, queue, nonces, phase, tooLate, raised, abandoned>>
    BY <1>14 DEF WorkerSucceeds, WorkerLives
  <2>2. \A s \in Nat : s < current => ~InFlight(s)
    BY DEF QueueInv, InFlight, Queued
  <2>3. \A s \in Nat : 1 <= s /\ s <= current => s \in done' \cup Excused'
    BY <2>1, <2>2 DEF PositionInv, InFlight
  <2>4. \A s \in Nat : InFlight(s) => InFlight(s)' \/ s \in done'
    BY <2>1 DEF InFlight, Queued
  <2>5. cursor < current
    BY <2>1 DEF PositionInv
  <2>6. QED
    BY <2>1, <2>3, <2>4, <2>5
<1>15. CASE WorkerFails
  BY <1>15 DEF WorkerFails, Connected, PositionInv, InFlight, Queued
<1>16. CASE Crash
  BY <1>16 DEF Crash, Ends, WorkerLives, PositionInv, InFlight, Queued
<1>17. CASE StopReading
  BY <1>17 DEF StopReading, Connected, PositionInv, InFlight, Queued
<1>18. CASE StopAtOnce
  BY <1>18 DEF StopAtOnce, Ends, PositionInv, InFlight, Queued
<1>19. CASE Restart
  BY <1>19 DEF Restart, Connected, PositionInv, InFlight, Queued
<1>20. CASE UNCHANGED vars
  BY <1>20 DEF vars, InFlight, Queued
<1>21. QED
  BY <1>1, <1>2, <1>3, <1>4, <1>5, <1>6, <1>7, <1>8, <1>9, <1>10,
     <1>11, <1>12, <1>13, <1>14, <1>15, <1>16, <1>17, <1>18, <1>19, <1>20 DEF Next

\* Only messages the relay has stored are ever given up.
LEMMA ExcusedStep ==
  TypeOK /\ PositionInv /\ QueueInv /\ ExcusedInv /\ [Next]_vars => ExcusedInv'
<1> SUFFICES ASSUME TypeOK, PositionInv, QueueInv, ExcusedInv, [Next]_vars PROVE ExcusedInv'
  OBVIOUS
<1> USE DEF TypeOK, ExcusedInv, Excused, relay, reader, worker, history
<1>1. CASE PhonePosts
  BY <1>1 DEF PhonePosts
<1>2. CASE TimePasses
  BY <1>2 DEF TimePasses
<1>3. CASE GraceExpires
  BY <1>3 DEF GraceExpires
<1>4. CASE Connect
  BY <1>4 DEF Connect
<1>5. CASE SocketLost
  BY <1>5 DEF SocketLost
<1>6. CASE Drained
  <2>1. Queued \subseteq 1..posted
    BY DEF Queued, QueueInv, PositionInv
  <2>2. QED
    BY <1>6, <2>1 DEF Drained
<1>7. CASE SkipSeen
  BY <1>7 DEF SkipSeen
<1>8. CASE DropStale
  BY <1>8 DEF DropStale, Arrives
<1>9. CASE DropReplayed
  BY <1>9 DEF DropReplayed
<1>10. CASE Accept
  BY <1>10 DEF Accept
<1>11. CASE ReadRpc
  BY <1>11 DEF ReadRpc
<1>12. CASE ReadBacklogDone
  BY <1>12 DEF ReadBacklogDone
<1>13. CASE WorkerTakes
  BY <1>13 DEF WorkerTakes
<1>14. CASE WorkerSucceeds
  BY <1>14 DEF WorkerSucceeds
<1>15. CASE WorkerFails
  BY <1>15 DEF WorkerFails, PositionInv
<1>16. CASE Crash
  BY <1>16 DEF Crash, Ends
<1>17. CASE StopReading
  BY <1>17 DEF StopReading
<1>18. CASE StopAtOnce
  BY <1>18 DEF StopAtOnce, Ends
<1>19. CASE Restart
  BY <1>19 DEF Restart
<1>20. CASE UNCHANGED vars
  BY <1>20 DEF vars
<1>21. QED
  BY <1>1, <1>2, <1>3, <1>4, <1>5, <1>6, <1>7, <1>8, <1>9, <1>10,
     <1>11, <1>12, <1>13, <1>14, <1>15, <1>16, <1>17, <1>18, <1>19, <1>20 DEF Next

\* The inductive invariant holds in every reachable state.
THEOREM Inductive == Spec => []IInv
<1>1. Init => IInv
  <2>1. Init => TypeOK
    <3> SUFFICES ASSUME Init PROVE TypeOK
      OBVIOUS
    <3>1. nonces = <<>> /\ queue = <<>> /\ <<>> \in Seq(Nat) /\ Len(<<>>) = 0 /\ 0 <= NonceCap
      BY InboundAssumption DEF Init
    <3>2. done \subseteq Nat /\ tooLate \subseteq Nat /\ raised \subseteq Nat
          /\ abandoned \subseteq Nat
      BY DEF Init
    <3>3. /\ posted \in Nat /\ tooOld \in Nat /\ backlogEnd \in Nat /\ pos \in Nat
          /\ seen \in Nat /\ current \in Nat /\ cursor \in Nat /\ disk \in Nat
          /\ restarts \in Nat /\ latest \in Nat
      BY DEF Init
    <3>4. /\ phase \in {"off", "down", "reading", "draining", "stopping"}
          /\ backlogOpen \in BOOLEAN /\ failed \in BOOLEAN
      BY DEF Init
    <3>5. QED
      BY <3>1, <3>2, <3>3, <3>4 DEF TypeOK
  <2>2. Init => PositionInv /\ QueueInv
    BY DEF Init, PositionInv, QueueInv
  <2>3. Init => AccountInv
    BY DEF Init, AccountInv, PassedInv, ReadInv, NonceInv
  <2>4. Init => ExcusedInv
    BY DEF Init, ExcusedInv, Excused
  <2>5. QED
    BY <2>1, <2>2, <2>3, <2>4 DEF IInv
<1>2. IInv /\ [Next]_vars => IInv'
  BY TypeStep, PositionStep, QueueStep, AccountStep, ExcusedStep DEF IInv
<1>3. QED
  BY <1>1, <1>2, PTL DEF Spec

\* Every variable keeps its type.
THEOREM TypeCorrect == Spec => []TypeOK
<1>1. IInv => TypeOK
  BY DEF IInv
<1>2. QED
  BY <1>1, Inductive, PTL

\* The cursor passes no message silently, whatever is lost, replayed,
\* restarted or evicted.
THEOREM CursorAccounts == Spec => []NothingLostSilently
<1>1. IInv => NothingLostSilently
  BY DEF IInv, TypeOK, AccountInv, PassedInv, NothingLostSilently
<1>2. QED
  BY <1>1, Inductive, PTL

\* A restart never skips a message, and each process dispatches in order,
\* at most once.
THEOREM CursorFileSafe == Spec => [](FileBehindCursor /\ InFlightIsNew)
<1>1. IInv => FileBehindCursor /\ InFlightIsNew
  BY DEF IInv, TypeOK, PositionInv, FileBehindCursor, InFlightIsNew
<1>2. QED
  BY <1>1, Inductive, PTL

\* Every step of the pipeline is a step of the inbox, or leaves it alone.
LEMMA RefinementStep == IInv /\ [Next]_vars => [Inbox!Next]_(Inbox!vars)
<1> SUFFICES ASSUME TypeOK, PositionInv, QueueInv, AccountInv, ExcusedInv, [Next]_vars
             PROVE  Inbox!Next \/ UNCHANGED Inbox!vars
  BY DEF IInv
<1> USE DEF TypeOK, Inbox!vars, relay, reader, worker, history
<1>1. CASE PhonePosts
  BY <1>1 DEF PhonePosts, Inbox!Next, Inbox!Post, Excused
<1>2. CASE Connect
  <2> DEFINE retried == (tooLate \ (1..cursor)) \ (raised \cup abandoned)
  <2>1. retried \in SUBSET ((cursor + 1)..posted)
    BY DEF ExcusedInv, Excused
  <2>2. Excused' = (Excused \cup {}) \ retried /\ UNCHANGED <<posted, cursor, done>>
    BY <1>2 DEF Connect, Excused
  <2>3. Inbox!Excuse
    BY <2>1, <2>2 DEF Inbox!Excuse
  <2>4. QED
    BY <2>3 DEF Inbox!Next
<1>3. CASE Drained
  <2>1. Queued \in SUBSET (1..posted)
    BY DEF Queued, QueueInv, PositionInv
  <2>2. Excused' = (Excused \cup Queued) \ {} /\ UNCHANGED <<posted, cursor, done>>
    BY <1>3 DEF Drained, Excused
  <2>3. Inbox!Excuse
    BY <2>1, <2>2 DEF Inbox!Excuse
  <2>4. QED
    BY <2>3 DEF Inbox!Next
<1>4. CASE DropStale
  <2>1. PICK s \in 1..MaxSeq : Arrives(s) /\ tooLate' = tooLate \cup {s}
    BY <1>4 DEF DropStale
  <2>2. {s} \in SUBSET (1..posted)
    BY <2>1 DEF Arrives
  <2>3. Excused' = (Excused \cup {s}) \ {} /\ UNCHANGED <<posted, cursor, done>>
    BY <1>4, <2>1 DEF DropStale, Excused
  <2>4. Inbox!Excuse
    BY <2>2, <2>3 DEF Inbox!Excuse
  <2>5. QED
    BY <2>4 DEF Inbox!Next
<1>5. CASE WorkerFails
  <2>1. {current} \in SUBSET (1..posted)
    BY <1>5 DEF WorkerFails, PositionInv
  <2>2. Excused' = (Excused \cup {current}) \ {} /\ UNCHANGED <<posted, cursor, done>>
    BY <1>5 DEF WorkerFails, Excused
  <2>3. Inbox!Excuse
    BY <2>1, <2>2 DEF Inbox!Excuse
  <2>4. QED
    BY <2>3 DEF Inbox!Next
<1>6. CASE WorkerSucceeds
  <2>1. /\ current # 0 /\ cursor' = current /\ done' = done \cup {current}
        /\ UNCHANGED <<posted, tooLate, raised, abandoned>>
    BY <1>6 DEF WorkerSucceeds
  <2>2. cursor < current /\ current <= seen /\ current \in 1..posted
    BY <2>1 DEF PositionInv
  <2>3. (cursor + 1)..(current - 1) \subseteq done \cup Excused
    <3>1. ASSUME NEW s \in (cursor + 1)..(current - 1)
          PROVE  s \in done \cup Excused
      <4>1. s \in Nat /\ cursor < s /\ s <= seen /\ s < current
        BY <2>2
      <4>2. ~InFlight(s)
        BY <4>1 DEF InFlight, Queued, QueueInv
      <4>3. QED
        BY <4>1, <4>2 DEF AccountInv, ReadInv
    <3>2. QED
      BY <3>1
  <2>4. Inbox!Dispatch(current)
    BY <2>1, <2>2, <2>3 DEF Inbox!Dispatch, Excused
  <2>5. QED
    BY <2>2, <2>4 DEF Inbox!Next
<1>7. CASE Crash
  <2>1. CASE UNCHANGED <<done, disk>>
    BY <1>7, <2>1 DEF Crash, Ends, Excused
  <2>2. CASE current # 0 /\ done' = done \cup {current}
    <3>1. {current} \in SUBSET ((cursor + 1)..posted)
      BY <2>2 DEF PositionInv
    <3>2. cursor' \in 0..cursor /\ UNCHANGED <<posted, Excused>>
      BY <1>7 DEF Crash, Ends, Excused
    <3>3. Inbox!Rewind
      BY <2>2, <3>1, <3>2 DEF Inbox!Rewind
    <3>4. QED
      BY <3>3 DEF Inbox!Next
  <2>3. QED
    BY <1>7, <2>1, <2>2 DEF Crash
<1>8. CASE Restart
  <2>1. cursor' \in 0..cursor /\ done' = done \cup {} /\ UNCHANGED <<posted, Excused>>
    BY <1>8 DEF Restart, PositionInv, Excused
  <2>2. {} \in SUBSET ((cursor + 1)..posted)
    OBVIOUS
  <2>3. Inbox!Rewind
    BY <2>1, <2>2 DEF Inbox!Rewind
  <2>4. QED
    BY <2>3 DEF Inbox!Next
<1>9. CASE TimePasses
  BY <1>9 DEF TimePasses, Excused
<1>10. CASE GraceExpires
  BY <1>10 DEF GraceExpires, Excused
<1>11. CASE SocketLost
  BY <1>11 DEF SocketLost, Excused
<1>12. CASE SkipSeen
  BY <1>12 DEF SkipSeen, Excused
<1>13. CASE DropReplayed
  BY <1>13 DEF DropReplayed, Excused, Arrives
<1>14. CASE Accept
  BY <1>14 DEF Accept, Excused, Arrives
<1>15. CASE ReadRpc
  BY <1>15 DEF ReadRpc, Excused
<1>16. CASE ReadBacklogDone
  BY <1>16 DEF ReadBacklogDone, Excused
<1>17. CASE WorkerTakes
  BY <1>17 DEF WorkerTakes, Excused
<1>18. CASE StopReading
  BY <1>18 DEF StopReading, Excused
<1>19. CASE StopAtOnce
  BY <1>19 DEF StopAtOnce, Excused, Ends
<1>20. CASE UNCHANGED vars
  BY <1>20 DEF vars, Excused
<1>21. QED
  BY <1>1, <1>2, <1>3, <1>4, <1>5, <1>6, <1>7, <1>8, <1>9, <1>10,
     <1>11, <1>12, <1>13, <1>14, <1>15, <1>16, <1>17, <1>18, <1>19, <1>20 DEF Next

\* The pipeline implements the promise of the durable inbox.
THEOREM Refinement == Spec => ImplementsInbox
<1>1. Init => Inbox!Init
  BY DEF Init, Inbox!Init, Excused
<1>2. QED
  BY <1>1, RefinementStep, Inductive, PTL DEF Spec, ImplementsInbox, Inbox!Spec

-----------------------------------------------------------------------------
(* What the pipeline gives up when no dispatch has raised.                 *)

\* Only a raising dispatch makes a worker give up, and only a worker that gave
\* up leaves messages in its queue.
FailureInv == (failed => raised # {}) /\ (abandoned # {} => raised # {})

LEMMA FailureStep == TypeOK /\ FailureInv /\ [Next]_vars => FailureInv'
<1> SUFFICES ASSUME TypeOK, FailureInv, [Next]_vars PROVE FailureInv'
  OBVIOUS
<1> USE DEF FailureInv, relay, reader, worker, history
<1>1. CASE Drained
  <2>1. failed \/ Queued = {}
    BY <1>1 DEF Drained, WorkerReturned, Queued
  <2>2. failed' = failed /\ raised' = raised /\ abandoned' = abandoned \cup Queued
    BY <1>1 DEF Drained
  <2>3. QED
    BY <2>1, <2>2
<1>2. CASE WorkerFails
  BY <1>2 DEF WorkerFails
<1>3. CASE Connect \/ SocketLost \/ PhonePosts \/ TimePasses \/ GraceExpires
  BY <1>3 DEF Connect, SocketLost, PhonePosts, TimePasses, GraceExpires
<1>4. CASE SkipSeen \/ DropStale \/ DropReplayed \/ Accept \/ ReadRpc \/ ReadBacklogDone
  BY <1>4 DEF SkipSeen, DropStale, DropReplayed, Accept, ReadRpc, ReadBacklogDone
<1>5. CASE WorkerTakes \/ WorkerSucceeds
  BY <1>5 DEF WorkerTakes, WorkerSucceeds
<1>6. CASE Crash \/ StopReading \/ StopAtOnce \/ Restart
  BY <1>6 DEF Crash, StopReading, StopAtOnce, Restart, Ends
<1>7. CASE UNCHANGED vars
  BY <1>7 DEF vars
<1>8. QED
  BY <1>1, <1>2, <1>3, <1>4, <1>5, <1>6, <1>7 DEF Next

\* Until a dispatch raises, a lost socket, a crash, a torn cursor file or a
\* repetition costs no message: the cursor passes only what the gateway has
\* taken, or what was too old on the connection that passed it.
LostOnlyByFailure == raised = {} => \A s \in 1..cursor : s \in done \cup tooLate

\* _dispatch_worker and the drain in _run_loop lose messages only together
\* with a dispatch that raised.
THEOREM FailureOnly == Spec => []LostOnlyByFailure
<1>1. Init => FailureInv
  BY DEF Init, history, FailureInv
<1>2. IInv /\ FailureInv /\ [Next]_vars => FailureInv'
  BY FailureStep DEF IInv
<1>3. IInv /\ FailureInv => LostOnlyByFailure
  <2> SUFFICES ASSUME IInv, FailureInv, raised = {}, NEW s \in 1..cursor
               PROVE  s \in done \cup tooLate
    BY DEF LostOnlyByFailure
  <2>1. s \in Nat /\ 1 <= s /\ s <= cursor
    BY DEF IInv, TypeOK
  <2>2. s \in done \cup Excused
    BY <2>1 DEF IInv, AccountInv, PassedInv
  <2>3. QED
    BY <2>2 DEF Excused, FailureInv
<1>4. QED
  BY <1>1, <1>2, <1>3, Inductive, PTL DEF Spec
=============================================================================
