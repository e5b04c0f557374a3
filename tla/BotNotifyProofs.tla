--------------------------- MODULE BotNotifyProofs ---------------------------
(***************************************************************************)
(* Theorems about BotNotify, for every value of its constants.             *)
(***************************************************************************)
EXTENDS BotNotify, FiniteSetTheorems, SequenceTheorems, WellFoundedInduction, TLAPS

\* The parts of TypeOK; what has been noted is never ahead of the turns.
Numbers ==
  /\ turns \in 0..MaxTurns /\ restarts \in 0..MaxRestarts /\ enables \in 0..MaxEnables
  /\ quiet \in 0..turns
Flags ==
  /\ observer \in {"off", "idle", "looking", "sending", "cancelled"} /\ wanted \in BOOLEAN
  /\ mishaps \subseteq {"blind", "overlap", "overruled", "disk"}
Kept == {s \in State : Len(s.seen) <= SeenCap}
Waits == [waiting : BOOLEAN, state : Kept, at : 0..MaxTurns, overtaken : BOOLEAN, overruled : BOOLEAN]
Shapes ==
  /\ file \in Kept
  /\ tick \in [state : Kept, at : 0..MaxTurns] /\ tick.at <= turns
  /\ toSend \in Seq(1..MaxTurns)
  /\ call \in [Calls -> Waits] /\ \A c \in Calls : call[c].at <= turns
Alerts == sent \subseteq 1..MaxTurns /\ twice \subseteq sent /\ historical \subseteq sent

\* An observer that looks was started by an opt-in, which still stands.
Stands == wanted \/ mishaps \cap {"overruled", "disk"} # {}
OptOut ==
  /\ OptOutSticks
  /\ observer = "looking" => tick.state.enabled /\ Stands

\* Unless enable calls overlap or a save fails, the observer runs only while the
\* file says enabled and looks with what the file says, and a call that waits
\* will save what the file says.
Clean == mishaps \cap {"overlap", "disk"} = {}
Runs ==
  /\ observer \in {"idle", "looking", "sending"} => file.enabled
  /\ observer = "looking" => tick.state = file
  /\ \A c \in Calls :
       call[c].waiting /\ ~call[c].overtaken => ~file.enabled /\ call[c].state = file
RunsInv == Clean => Runs

\* Nothing at or before the opt-in is about to be alerted.
New ==
  /\ historical = {}
  /\ file.enabled => quiet <= file.marker
  /\ observer = "looking" => quiet <= tick.at
  /\ observer = "sending" => \A i \in 1..Len(toSend) : toSend[i] > quiet
Sighted == mishaps \cap {"blind", "overlap", "disk"} = {}
NewInv == Sighted => New

\* The ids in the file: no turn twice, none in a window that was over when its
\* predecessors were noted.
Windowed(s) ==
  \A i, j \in 1..Len(s) : i < j => s[i] # s[j] /\ s[j] > s[i] - Hist
Noted ==
  /\ Windowed(file.seen)
  /\ \A i \in 1..Len(file.seen) :
       file.seen[i] <= turns /\ (observer = "looking" => file.seen[i] <= tick.at)
NotedInv == Clean => Noted

\* The ids outnumber those that can follow a turn while a snapshot shows it
\* (50 turns and 200 ids in the code).
EnoughIds == 2 * Hist - 1 <= SeenCap

\* Then an alerted turn that a snapshot may still show is in the file, and so
\* is one that is about to be alerted, which has not been yet.
Horizon == (IF observer = "looking" THEN tick.at ELSE turns) - Hist
Known(t) == t > Horizon => t \in ToSet(file.seen)
Once ==
  /\ twice = {}
  /\ \A t \in sent : Known(t)
  /\ observer = "sending" =>
       \A i \in 1..Len(toSend) :
         /\ toSend[i] \notin sent /\ Known(toSend[i])
         /\ \A j \in 1..Len(toSend) : i # j => toSend[i] # toSend[j]
OnceInv == Clean /\ EnoughIds => Once

IInv ==
  /\ Numbers /\ Flags /\ Shapes /\ Alerts /\ OptOut /\ RunsInv /\ NewInv /\ NotedInv /\ OnceInv

-----------------------------------------------------------------------------
(* Putting turns in order.                                                 *)

\* A set of naturals that is not empty has a least element.
LEMMA LeastNumber ==
  ASSUME NEW T \in SUBSET Nat, T # {}
  PROVE  \E n \in T : \A m \in T : n <= m
<1>1. PICK n \in T : \A m \in T : <<m, n>> \notin OpToRel(<, Nat)
  BY NatLessThanWellFounded, WFMin
<1>2. \A m \in T : ~(m < n)
  BY <1>1 DEF OpToRel
<1>3. QED
  BY <1>2

\* How many numbers there are from 1 to n.
LEMMA IntervalSize ==
  ASSUME NEW n \in Nat
  PROVE  IsFiniteSet(1..n) /\ Cardinality(1..n) = n
<1>1. IsFiniteSet(1..n) /\ Cardinality(1..n) = IF 1 > n THEN 0 ELSE n - 1 + 1
  BY FS_Interval
<1>2. QED
  BY <1>1

\* s holds the elements of S, in their order.
Sorts(s, S) ==
  /\ s \in Seq(S) /\ \A t \in S : \E i \in 1..Len(s) : s[i] = t
  /\ \A i, j \in 1..Len(s) : i < j => s[i] < s[j]

\* Every set of turns can be put in order.
LEMMA SortExists ==
  ASSUME NEW N \in Nat, NEW S \in SUBSET (1..N)
  PROVE  \E s \in Seq(S) : Sorts(s, S)
<1> DEFINE Unsorted == {n \in Nat : \E U \in SUBSET (1..n) : ~ \E s \in Seq(U) : Sorts(s, U)}
<1>1. SUFFICES ASSUME Unsorted # {} PROVE FALSE
  OBVIOUS
<1>2. PICK n \in Unsorted : \A m \in Unsorted : n <= m
  BY <1>1, LeastNumber
<1>3. n \in Nat /\ \E U \in SUBSET (1..n) : ~ \E s \in Seq(U) : Sorts(s, U)
  OBVIOUS
<1>4. PICK U \in SUBSET (1..n) : ~ \E s \in Seq(U) : Sorts(s, U)
  BY <1>3
<1>5. U # {}
  <2>1. << >> \in Seq({}) /\ Sorts(<< >>, {})
    BY DEF Sorts
  <2>2. QED
    BY <1>4, <2>1
<1>6. n # 0
  <2>1. 1..0 = {}
    OBVIOUS
  <2>2. QED
    BY <1>5, <2>1
<1>7. n - 1 \in Nat /\ ~ (n <= n - 1)
  BY <1>3, <1>6
<1>8. \A W \in SUBSET (1..(n - 1)) : \E s \in Seq(W) : Sorts(s, W)
  <2>1. n - 1 \notin Unsorted
    <3> HIDE DEF Unsorted
    <3>1. QED
      BY <1>2, <1>7
  <2>2. QED
    BY <1>7, <2>1
<1>9. n \in U
  <2>1. SUFFICES ASSUME n \notin U PROVE FALSE
    OBVIOUS
  <2>2. U \in SUBSET (1..(n - 1))
    BY <1>3, <2>1
  <2>3. QED
    BY <1>4, <1>8, <2>2
<1> DEFINE V == U \ {n}
<1>10. V \in SUBSET (1..(n - 1))
  BY <1>3
<1>11. PICK s \in Seq(V) : Sorts(s, V)
  BY <1>8, <1>10
<1> DEFINE r == Append(s, n)
<1>12. /\ r \in Seq(U) /\ Len(r) = Len(s) + 1 /\ r[Len(s) + 1] = n
       /\ \A i \in 1..Len(s) : r[i] = s[i] /\ s[i] \in V
  <2>1. s \in Seq(U)
    BY SeqMonotonic
  <2>2. QED
    BY <1>9, <2>1, AppendProperties, ElementOfSeq
<1>13. Len(s) \in Nat
  BY LenProperties
<1>14. Sorts(r, U)
  <2>1. ASSUME NEW t \in U PROVE \E i \in 1..Len(r) : r[i] = t
    <3>1. CASE t = n
      BY <1>12, <1>13, <3>1
    <3>2. CASE t # n
      <4>1. PICK i \in 1..Len(s) : s[i] = t
        BY <1>11, <3>2 DEF Sorts
      <4>2. QED
        BY <1>12, <1>13, <4>1
    <3>3. QED
      BY <3>1, <3>2
  <2>2. ASSUME NEW i \in 1..Len(r), NEW j \in 1..Len(r), i < j PROVE r[i] < r[j]
    <3>1. i \in 1..Len(s) /\ j \in 1..(Len(s) + 1)
      BY <1>12, <1>13, <2>2
    <3>2. r[i] = s[i] /\ s[i] \in 1..(n - 1)
      BY <1>10, <1>12, <3>1
    <3>3. CASE j = Len(s) + 1
      BY <1>3, <1>12, <3>2, <3>3
    <3>4. CASE j # Len(s) + 1
      <4>1. j \in 1..Len(s)
        BY <1>13, <3>1, <3>4
      <4>2. QED
        BY <1>11, <1>12, <2>2, <3>1, <4>1 DEF Sorts
    <3>5. QED
      BY <3>3, <3>4
  <2>3. QED
    BY <1>12, <2>1, <2>2 DEF Sorts
<1>15. QED
  BY <1>4, <1>12, <1>14

\* What InOrder returns.
LEMMA InOrderSorts ==
  ASSUME NEW N \in Nat, NEW S \in SUBSET (1..N)
  PROVE  Sorts(InOrder(S), S)
<1>1. PICK s \in Seq(S) : Sorts(s, S)
  BY SortExists
<1> DEFINE n == Len(s)
<1>2. n \in Nat /\ s \in [1..n -> S]
  BY LenProperties
<1>3. s \in Bijection(1..n, S)
  <2>1. \A i, j \in 1..n : s[i] = s[j] => i = j
    <3>1. \A i \in 1..n : s[i] \in 1..N
      BY <1>2
    <3>2. QED
      BY <1>1, <1>2, <3>1 DEF Sorts
  <2>2. \A t \in S : \E i \in 1..n : s[i] = t
    BY <1>1 DEF Sorts
  <2>3. QED
    BY <1>2, <2>1, <2>2 DEF Bijection, Injection, Surjection, IsInjective
<1>4. Cardinality(S) = n
  <2>1. ExistsBijection(1..n, S)
    BY <1>3 DEF ExistsBijection
  <2>2. IsFiniteSet(1..n) /\ Cardinality(1..n) = n
    BY <1>2, IntervalSize
  <2>3. QED
    BY <2>1, <2>2, FS_Bijection
<1>5. \E r \in [1..n -> S] : \A i, j \in DOMAIN r : i < j => r[i] < r[j]
  BY <1>1, <1>2 DEF Sorts
<1> DEFINE o == InOrder(S)
<1>6. o \in [1..n -> S] /\ \A i, j \in 1..n : i < j => o[i] < o[j]
  BY <1>4, <1>5 DEF InOrder
<1>7. o \in Seq(S) /\ Len(o) = n
  BY <1>2, <1>6
<1>8. \A t \in S : \E i \in 1..n : o[i] = t
  <2>1. o \in Injection(1..n, S)
    <3>1. \A i \in 1..n : o[i] \in 1..N
      BY <1>6
    <3>2. \A i, j \in 1..n : o[i] = o[j] => i = j
      BY <1>2, <1>6, <3>1
    <3>3. QED
      BY <1>6, <3>2 DEF Injection, IsInjective
  <2>2. IsFiniteSet(1..n) /\ Cardinality(1..n) = n /\ IsFiniteSet(S)
    <3>1. IsFiniteSet(1..N)
      BY IntervalSize
    <3>2. QED
      BY <1>2, <3>1, IntervalSize, FS_Subset
  <2>3. o \in Surjection(1..n, S)
    BY <1>4, <2>1, <2>2, FS_Injection
  <2>4. QED
    BY <2>3 DEF Surjection
<1>9. QED
  BY <1>6, <1>7, <1>8 DEF Sorts

-----------------------------------------------------------------------------
(* What a snapshot shows, and what becomes of the file's state.            *)

\* A snapshot shows nothing, or a window that ends when it was read.
LEMMA SnapshotShows ==
  ASSUME Numbers, NEW at \in 0..turns, NEW view \in Snapshots(at), view # {}
  PROVE  /\ \E n \in at..turns : n # 0 /\ view = Window(n) /\ Max(view) = n
         /\ view \in SUBSET (1..MaxTurns)
<1>1. turns \in Nat /\ at \in Nat /\ turns <= MaxTurns /\ Hist \in Nat \ {0} /\ MaxTurns \in Nat
  BY NotifyAssumption DEF Numbers
<1>2. PICK n \in at..turns : view = Window(n)
  BY DEF Snapshots
<1>3. n \in Nat /\ n <= MaxTurns
  BY <1>1
<1>4. n # 0
  BY <1>2, <1>3 DEF Window
<1>5. n \in view /\ \A t \in view : t \in 1..n
  BY <1>1, <1>2, <1>3, <1>4 DEF Window
<1>6. Max(view) = n
  <2>1. \E x \in view : \A y \in view : x >= y
    BY <1>3, <1>5
  <2>2. Max(view) \in view /\ \A y \in view : Max(view) >= y
    BY <2>1 DEF Max
  <2>3. Max(view) \in 1..n /\ Max(view) >= n
    BY <1>5, <2>2
  <2>4. QED
    BY <1>3, <2>3
<1>7. view \in SUBSET (1..MaxTurns)
  <2>1. \A t \in 1..n : t \in 1..MaxTurns
    BY <1>1, <1>3
  <2>2. QED
    BY <1>5, <2>1
<1>8. QED
  BY <1>2, <1>4, <1>6, <1>7

LEMMA KeptFields ==
  ASSUME NEW s \in Kept
  PROVE  /\ s.enabled \in BOOLEAN /\ s.marker \in 0..MaxTurns /\ s.seen \in Seq(1..MaxTurns)
         /\ Len(s.seen) <= SeenCap
BY DEF Kept, State

LEMMA DefaultKept == Default \in Kept /\ ~Default.enabled
<1>1. << >> \in Seq(1..MaxTurns) /\ Len(<< >>) = 0 /\ 0 <= SeenCap /\ 0 \in 0..MaxTurns
  BY NotifyAssumption
<1>2. QED
  BY <1>1 DEF Default, Kept, State

\* An opt-in keeps the ids and puts the marker at the end of the snapshot.
LEMMA BaselineKeeps ==
  ASSUME Numbers, NEW at \in 0..turns, NEW view \in Snapshots(at), NEW s \in Kept
  PROVE  /\ Baseline(s, view) \in Kept /\ Baseline(s, view).enabled
         /\ Baseline(s, view).seen = s.seen
         /\ view # {} => at <= Baseline(s, view).marker
<1> DEFINE m == IF view = {} THEN 0 ELSE Max(view)
<1>1. m \in 0..MaxTurns /\ (view # {} => at <= m)
  <2>1. CASE view = {}
    BY <2>1, NotifyAssumption
  <2>2. CASE view # {}
    <3>1. PICK n \in at..turns : Max(view) = n
      BY <2>2, SnapshotShows
    <3>2. QED
      BY <2>2, <3>1, NotifyAssumption DEF Numbers
  <2>3. QED
    BY <2>1, <2>2
<1>2. Baseline(s, view) = [s EXCEPT !.enabled = TRUE, !.marker = m]
  BY DEF Baseline
<1> HIDE DEF m
<1>3. QED
  BY <1>1, <1>2 DEF Kept, State

\* An opt-out keeps all but the flag.
LEMMA DisabledKeeps ==
  ASSUME NEW s \in Kept
  PROVE  LET d == [s EXCEPT !.enabled = FALSE] IN
         /\ d \in Kept /\ ~d.enabled /\ d.seen = s.seen /\ d.marker = s.marker
         /\ ~s.enabled => d = s
BY DEF Kept, State

\* A save stores the state, unless it goes wrong; then that is noted.
LEMMA SaveKeeps ==
  ASSUME NEW s \in Kept, file \in Kept, Save(s), mishaps' = mishaps \cup DiskMishap(s)
  PROVE  /\ file' \in Kept
         /\ mishaps \subseteq mishaps' /\ mishaps' \subseteq mishaps \cup {"disk"}
         /\ "disk" \notin mishaps' => file' = s
BY DefaultKept DEF Save, DiskMishap, Note

-----------------------------------------------------------------------------
(* The ids.                                                                *)

\* Keeping the last ids keeps what held of them all, and keeps a turn that is
\* still in the window of m when there are EnoughIds.
LEMMA RecentKeeps ==
  ASSUME NEW s \in Seq(1..MaxTurns)
  PROVE  /\ Recent(s) \in Seq(1..MaxTurns) /\ Len(Recent(s)) <= SeenCap
         /\ \A i \in 1..Len(Recent(s)) : \E k \in 1..Len(s) : Recent(s)[i] = s[k]
         /\ Windowed(s) => Windowed(Recent(s))
         /\ \A m \in Nat : \A i \in 1..Len(s) :
              /\ EnoughIds /\ Windowed(s) /\ (\A j \in 1..Len(s) : s[j] <= m)
              /\ s[i] > m - Hist
              => s[i] \in ToSet(Recent(s))
<1> DEFINE n == Len(s)
           d == n - SeenCap
<1>1. n \in Nat /\ SeenCap \in Nat /\ SeenCap >= 1 /\ Hist \in Nat /\ Hist >= 1 /\ MaxTurns \in Nat
      /\ \A i \in 1..n : s[i] \in 1..MaxTurns
  BY NotifyAssumption, LenProperties, ElementOfSeq
<1>2. CASE n <= SeenCap
  <2>1. Recent(s) = s
    BY <1>1, <1>2 DEF Recent
  <2>2. \A i \in 1..n : s[i] \in ToSet(s)
    BY LenProperties DEF ToSet
  <2>3. QED
    BY <1>2, <2>1, <2>2
<1>3. CASE ~(n <= SeenCap)
  <2>1. d \in Nat /\ d # 0 /\ d + SeenCap = n
    BY <1>1, <1>3
  <2> DEFINE r == SubSeq(s, d + 1, n)
  <2>2. Recent(s) = r
    BY <1>1, <1>3 DEF Recent
  <2> HIDE DEF d, n
  <2>3. \A i \in (d + 1)..n : s[i] \in 1..MaxTurns
    <3>1. \A i \in (d + 1)..n : i \in 1..n
      BY <1>1, <2>1
    <3>2. QED
      BY <1>1, <3>1
  <2>4. r \in Seq(1..MaxTurns) /\ Len(r) = n - (d + 1) + 1
        /\ \A i \in 1..(n - (d + 1) + 1) : r[i] = s[d + 1 + i - 1]
    <3>1. d + 1 \in Int /\ n \in Int /\ d + 1 <= n
      BY <1>1, <2>1
    <3>2. QED
      BY <2>3, <3>1, SubSeqProperties
  <2>5. Len(r) = SeenCap /\ \A i \in 1..SeenCap : r[i] = s[d + i] /\ d + i \in 1..n
    BY <1>1, <2>1, <2>4
  <2> HIDE DEF r
  <2>6. Windowed(s) => Windowed(r)
    <3> SUFFICES ASSUME Windowed(s), NEW i \in 1..SeenCap, NEW j \in 1..SeenCap, i < j
                 PROVE  r[i] # r[j] /\ r[j] > r[i] - Hist
      BY <2>5 DEF Windowed
    <3>1. d + i < d + j
      BY <1>1, <2>1
    <3>2. QED
      BY <2>5, <3>1 DEF Windowed, n
  <2>7. ASSUME NEW m \in Nat, NEW i \in 1..n, EnoughIds, Windowed(s),
               \A j \in 1..n : s[j] <= m, s[i] > m - Hist
        PROVE  s[i] \in ToSet(r)
    <3>1. s[i] \in Nat /\ s[i] <= m
      BY <1>1, <2>7
    <3>2. i > d
      <4>1. SUFFICES ASSUME i <= d PROVE FALSE
        BY <1>1, <2>1
      <4> DEFINE D == i..n
                 W == (s[i] - Hist + 1)..m
                 f == [j \in D |-> s[j]]
      <4>2. IsFiniteSet(D) /\ Cardinality(D) = n - i + 1
        <5>1. i \in Int /\ n \in Int /\ ~(i > n)
          BY <1>1
        <5>2. QED
          BY <5>1, FS_Interval
      <4>3. IsFiniteSet(W) /\ Cardinality(W) = m - (s[i] - Hist + 1) + 1
        <5>1. s[i] - Hist + 1 \in Int /\ m \in Int /\ ~(s[i] - Hist + 1 > m)
          BY <1>1, <3>1
        <5>2. QED
          BY <5>1, FS_Interval
      <4>4. f \in [D -> W]
        <5> SUFFICES ASSUME NEW j \in D PROVE s[j] \in W
          OBVIOUS
        <5>1. j \in 1..n /\ s[j] \in Nat /\ s[j] <= m
          BY <1>1, <2>7
        <5>2. j = i \/ i < j
          BY <1>1
        <5>3. s[j] > s[i] - Hist
          BY <1>1, <2>7, <3>1, <5>1, <5>2 DEF Windowed, n
        <5>4. QED
          BY <1>1, <3>1, <5>1, <5>3
      <4>5. Cardinality(W) < Cardinality(D)
        <5>1. 2 * Hist - 1 <= SeenCap /\ s[i] > m - Hist
          BY <2>7 DEF EnoughIds
        <5>2. m - (s[i] - Hist + 1) + 1 < n - i + 1
          BY <1>1, <2>1, <3>1, <4>1, <5>1
        <5>3. QED
          BY <4>2, <4>3, <5>2
      <4> HIDE DEF D, W, f
      <4>6. PICK x, y \in D : x # y /\ f[x] = f[y]
        BY <4>2, <4>3, <4>4, <4>5, FS_PigeonHole
      <4>7. x \in 1..n /\ y \in 1..n /\ s[x] = s[y]
        BY <1>1, <4>6 DEF D, f
      <4>8. x < y \/ y < x
        BY <1>1, <4>6, <4>7
      <4>9. QED
        BY <2>7, <4>7, <4>8 DEF Windowed, n
    <3>3. i - d \in 1..SeenCap /\ d + (i - d) = i
      BY <1>1, <2>1, <3>2
    <3>4. r[i - d] = s[i] /\ i - d \in DOMAIN r
      BY <2>4, <2>5, <3>3, LenProperties
    <3>5. QED
      BY <3>4 DEF ToSet
  <2>8. \A i \in 1..Len(r) : \E k \in 1..n : r[i] = s[k]
    BY <2>5
  <2>9. SeenCap <= SeenCap
    BY <1>1
  <2>10. QED
    BY <2>2, <2>4, <2>5, <2>6, <2>7, <2>8, <2>9 DEF n
<1>4. QED
  BY <1>2, <1>3

\* What a tick makes of its state: the marker follows the snapshot, and the
\* events are turns after the marker the file has no id of.
LEMMA ObservedKeeps ==
  ASSUME Numbers, NEW at \in 0..turns, NEW view \in Snapshots(at), NEW s \in Kept
  PROVE  /\ Observed(s, view) \in Kept /\ Observed(s, view).enabled = s.enabled
         /\ IF view = {} THEN Observed(s, view).marker = s.marker
            ELSE at <= Observed(s, view).marker
         /\ Fresh(s, view) \in SUBSET (1..MaxTurns)
         /\ Sorts(InOrder(Fresh(s, view)), Fresh(s, view))
         /\ InOrder(Fresh(s, view)) \in Seq(1..MaxTurns)
         /\ Observed(s, view).seen = Recent(s.seen \o InOrder(Fresh(s, view)))
         /\ Fresh(s, view) = {} => Observed(s, view).seen = s.seen
<1> DEFINE fresh == Fresh(s, view)
           events == InOrder(fresh)
           m == IF view = {} THEN s.marker ELSE Max(view)
           r == Recent(s.seen \o events)
<1>1. m \in 0..MaxTurns /\ (view # {} => at <= m) /\ view \in SUBSET (1..MaxTurns)
  <2>1. CASE view = {}
    BY <2>1, KeptFields
  <2>2. CASE view # {}
    <3>1. PICK n \in at..turns : Max(view) = n
      BY <2>2, SnapshotShows
    <3>2. QED
      BY <2>2, <3>1, NotifyAssumption, SnapshotShows DEF Numbers
  <2>3. QED
    BY <2>1, <2>2
<1>2. fresh \in SUBSET (1..MaxTurns)
  BY <1>1 DEF Fresh
<1>3. Sorts(events, fresh)
  BY <1>2, InOrderSorts, NotifyAssumption
<1>4. events \in Seq(1..MaxTurns)
  <2>1. events \in Seq(fresh)
    BY <1>3 DEF Sorts
  <2>2. QED
    BY <1>2, <2>1, SeqMonotonic
<1>5. s.seen \in Seq(1..MaxTurns) /\ Len(s.seen) <= SeenCap
  BY KeptFields
<1>6. s.seen \o events \in Seq(1..MaxTurns)
  BY <1>4, <1>5, ConcatProperties
<1>7. r \in Seq(1..MaxTurns) /\ Len(r) <= SeenCap
  BY <1>6, RecentKeeps
<1>8. fresh = {} => r = s.seen
  <2>1. SUFFICES ASSUME fresh = {} PROVE r = s.seen
    OBVIOUS
  <2>2. events = << >>
    <3>1. events \in Seq({})
      BY <1>3, <2>1 DEF Sorts
    <3>2. QED
      BY <3>1, EmptySeq, ElementOfSeq
  <2>3. s.seen \o events = s.seen
    BY <1>5, <2>2, ConcatEmptySeq
  <2>4. Len(s.seen) \in Nat /\ SeenCap \in Nat
    BY <1>5, LenProperties, NotifyAssumption
  <2>5. QED
    BY <1>5, <2>3, <2>4 DEF Recent
<1>9. Observed(s, view) = [s EXCEPT !.marker = m, !.seen = r]
  BY DEF Observed, Kept, State
<1> HIDE DEF fresh, events, m, r
<1>10. /\ Observed(s, view) \in Kept /\ Observed(s, view).enabled = s.enabled
       /\ Observed(s, view).marker = m /\ Observed(s, view).seen = r
  BY <1>1, <1>7, <1>9 DEF Kept, State
<1>11. QED
  BY <1>1, <1>2, <1>3, <1>4, <1>8, <1>10 DEF fresh, events, m, r

\* The ids a tick saves: again no turn twice, and every turn that was alerted or
\* is to be, as long as a later snapshot can show it.
LEMMA ObservedIds ==
  ASSUME Numbers, NEW at \in 0..turns, NEW view \in Snapshots(at), NEW s \in Kept,
         Windowed(s.seen), \A i \in 1..Len(s.seen) : s.seen[i] <= at
  PROVE  LET next == Observed(s, view).seen IN
         /\ Windowed(next)
         /\ \A i \in 1..Len(next) : next[i] <= turns
         /\ EnoughIds => \A t \in ToSet(s.seen) \cup Fresh(s, view) :
                           t > turns - Hist => t \in ToSet(next)
<1> DEFINE fresh == Fresh(s, view)
           old == s.seen
           events == InOrder(fresh)
           all == old \o events
<1>1. /\ old \in Seq(1..MaxTurns) /\ events \in Seq(1..MaxTurns) /\ Sorts(events, fresh)
      /\ Observed(s, view).seen = Recent(all)
  BY KeptFields, ObservedKeeps
<1>2. /\ turns \in Nat /\ at \in Nat /\ at <= turns /\ Hist \in Nat /\ Hist >= 1 /\ MaxTurns \in Nat
      /\ Len(old) \in Nat /\ Len(events) \in Nat
  BY <1>1, NotifyAssumption, LenProperties DEF Numbers
<1> HIDE DEF events
<1>3. /\ all \in Seq(1..MaxTurns) /\ Len(all) = Len(old) + Len(events)
      /\ \A i \in 1..Len(old) + Len(events) :
           all[i] = IF i <= Len(old) THEN old[i] ELSE events[i - Len(old)]
  BY <1>1, ConcatProperties
<1> HIDE DEF old, all
<1>4. \A i \in 1..Len(events) : events[i] \in fresh
  <2>1. events \in Seq(fresh)
    BY <1>1 DEF Sorts
  <2>2. QED
    BY <2>1, ElementOfSeq
<1>5. \A t \in fresh : t \in view /\ t \notin ToSet(old)
  BY DEF Fresh, old
<1>6. \A t \in view, u \in 0..turns : t \in Nat /\ t <= turns /\ (u <= at \/ u \in view => t > u - Hist)
  <2>1. SUFFICES ASSUME NEW t \in view, NEW u \in 0..turns
                 PROVE  t \in Nat /\ t <= turns /\ (u <= at \/ u \in view => t > u - Hist)
    OBVIOUS
  <2>2. PICK n \in at..turns : view = Window(n)
    BY SnapshotShows
  <2>3. n \in Nat /\ at <= n /\ n <= turns
    BY <1>2
  <2>4. t \in 1..n /\ t > n - Hist /\ (u \in view => u \in 1..n)
    BY <2>1, <2>2 DEF Window
  <2>5. QED
    BY <1>2, <2>3, <2>4
<1>7. \A i \in 1..Len(old) : old[i] \in Nat /\ old[i] <= at /\ old[i] \in ToSet(old)
  <2>1. \A i \in 1..Len(old) : old[i] \in 1..MaxTurns /\ i \in DOMAIN old
    BY <1>1, ElementOfSeq, LenProperties
  <2>2. QED
    BY <2>1 DEF ToSet, old
<1>8. \A i \in 1..Len(all) :
        IF i <= Len(old) THEN i \in 1..Len(old) /\ all[i] = old[i]
        ELSE i - Len(old) \in 1..Len(events) /\ all[i] = events[i - Len(old)] /\ all[i] \in fresh
  BY <1>2, <1>3, <1>4
<1>9. \A i \in 1..Len(all) : all[i] \in Nat /\ all[i] <= turns
  <2>1. \A t \in fresh : t \in Nat /\ t <= turns
    BY <1>2, <1>5, <1>6
  <2>2. \A i \in 1..Len(old) : old[i] \in Nat /\ old[i] <= turns
    BY <1>2, <1>7
  <2>3. QED
    BY <1>8, <2>1, <2>2
<1>10. Windowed(all)
  <2> SUFFICES ASSUME NEW i \in 1..Len(all), NEW j \in 1..Len(all), i < j
               PROVE  all[i] # all[j] /\ all[j] > all[i] - Hist
    BY DEF Windowed
  <2>1. i \in Nat /\ j \in Nat
    BY <1>2, <1>3
  <2>2. CASE j <= Len(old)
    <3>1. i <= Len(old)
      BY <1>2, <2>1, <2>2
    <3>2. QED
      BY <1>8, <2>2, <3>1 DEF Windowed, old
  <2>3. CASE ~(j <= Len(old)) /\ i <= Len(old)
    <3>1. all[i] = old[i] /\ i \in 1..Len(old) /\ all[j] \in fresh
      BY <1>8, <2>3
    <3>2. all[i] \in 0..turns /\ all[i] <= at
      BY <1>2, <1>7, <3>1
    <3>3. QED
      BY <1>5, <1>6, <1>7, <3>1, <3>2
  <2>4. CASE ~(j <= Len(old)) /\ ~(i <= Len(old))
    <3>1. /\ i - Len(old) \in 1..Len(events) /\ all[i] = events[i - Len(old)] /\ all[i] \in fresh
          /\ j - Len(old) \in 1..Len(events) /\ all[j] = events[j - Len(old)] /\ all[j] \in fresh
      BY <1>8, <2>4
    <3>2. i - Len(old) < j - Len(old)
      BY <1>2, <2>1
    <3>3. all[i] < all[j]
      BY <1>1, <3>1, <3>2 DEF Sorts
    <3>4. all[i] \in Nat /\ all[j] \in Nat
      BY <1>9
    <3>5. QED
      BY <1>2, <3>3, <3>4
  <2>5. QED
    BY <2>2, <2>3, <2>4
<1>11. Windowed(Recent(all))
  BY <1>3, <1>10, RecentKeeps
<1>12. \A i \in 1..Len(Recent(all)) : Recent(all)[i] <= turns
  BY <1>3, <1>9, RecentKeeps
<1>13. \A t \in ToSet(old) \cup fresh : \E i \in 1..Len(all) : all[i] = t
  <2>1. ASSUME NEW t \in ToSet(old) PROVE \E i \in 1..Len(all) : all[i] = t
    <3>1. PICK i \in 1..Len(old) : old[i] = t
      BY <1>1, LenProperties DEF ToSet
    <3>2. i \in 1..Len(all) /\ i <= Len(old)
      BY <1>2, <1>3
    <3>3. QED
      BY <1>8, <3>1, <3>2
  <2>2. ASSUME NEW t \in fresh PROVE \E i \in 1..Len(all) : all[i] = t
    <3>1. PICK i \in 1..Len(events) : events[i] = t
      BY <1>1 DEF Sorts
    <3>2. i + Len(old) \in 1..(Len(old) + Len(events)) /\ ~(i + Len(old) <= Len(old))
          /\ (i + Len(old)) - Len(old) = i
      BY <1>2
    <3>3. QED
      BY <1>3, <3>1, <3>2
  <2>3. QED
    BY <2>1, <2>2
<1>14. ASSUME EnoughIds, NEW t \in ToSet(old) \cup fresh, t > turns - Hist
       PROVE  t \in ToSet(Recent(all))
  <2>1. PICK i \in 1..Len(all) : all[i] = t
    BY <1>13
  <2>2. QED
    BY <1>2, <1>3, <1>9, <1>10, <1>14, <2>1, RecentKeeps
<1>15. QED
  BY <1>1, <1>11, <1>12, <1>14 DEF old

-----------------------------------------------------------------------------
(* The steps.                                                              *)

LEMMA InitInv == Init => IInv
<1> SUFFICES ASSUME Init PROVE IInv
  OBVIOUS
<1>1. Numbers
  BY NotifyAssumption DEF Init, Numbers
<1>2. Flags
  BY DEF Init, Flags
<1>3. Shapes
  BY DefaultKept, NotifyAssumption DEF Init, Shapes, Waits, NoTick, Idle
<1>4. Alerts /\ OptOut
  BY DefaultKept DEF Init, Alerts, OptOut, OptOutSticks, Stands
<1>5. RunsInv /\ NewInv
  BY DefaultKept DEF Init, RunsInv, Runs, NewInv, New, Idle
<1>6. NotedInv
  BY DEF Init, NotedInv, Noted, Windowed, Default
<1>7. OnceInv
  BY DEF Init, OnceInv, Once
<1>8. QED
  BY <1>1, <1>2, <1>3, <1>4, <1>5, <1>6, <1>7 DEF IInv

LEMMA HorizonType ==
  ASSUME Numbers, Shapes
  PROVE  Horizon \in Int /\ Horizon <= turns - Hist /\ turns \in Nat /\ Hist \in Nat
         /\ tick.at \in Nat /\ tick.at <= turns
BY NotifyAssumption DEF Numbers, Shapes, Horizon

\* A step that neither saves ids nor alerts: what a later snapshot may show only
\* gets less.
LEMMA NothingNew ==
  ASSUME IInv, Numbers', Shapes', mishaps \subseteq mishaps', turns <= turns',
         Clean' => file'.seen = file.seen,
         observer' = "looking" => (observer = "looking" /\ tick' = tick) \/ tick'.at = turns,
         observer' = "sending" => observer = "sending" /\ toSend' = toSend,
         UNCHANGED <<sent, twice>>
  PROVE  NotedInv' /\ OnceInv'
<1>1. Numbers /\ Shapes
  BY DEF IInv
<1>2. Clean' => Clean
  BY DEF Clean
<1>3. /\ Horizon \in Int /\ Horizon <= turns - Hist /\ turns \in Nat /\ Hist \in Nat
      /\ tick.at \in Nat /\ tick.at <= turns
  BY <1>1, HorizonType
<1>4. turns' \in Nat /\ tick'.at \in Nat
  BY NotifyAssumption DEF Numbers, Shapes
<1>5. \A i \in 1..Len(file.seen) : file.seen[i] \in Nat
  <2>1. file.seen \in Seq(1..MaxTurns)
    BY <1>1, KeptFields DEF Shapes
  <2>2. \A i \in 1..Len(file.seen) : file.seen[i] \in 1..MaxTurns
    BY <2>1, ElementOfSeq
  <2>3. QED
    BY <2>2
<1>6. NotedInv'
  <2> SUFFICES ASSUME Clean' PROVE Noted'
    BY DEF NotedInv
  <2>1. Noted /\ file'.seen = file.seen
    BY <1>2 DEF IInv, NotedInv
  <2>2. Windowed(file.seen)'
    BY <2>1 DEF Noted, Windowed
  <2>3. ASSUME NEW i \in 1..Len(file'.seen)
        PROVE  file'.seen[i] <= turns' /\ (observer' = "looking" => file'.seen[i] <= tick'.at)
    <3>1. file'.seen[i] \in Nat /\ file'.seen[i] <= turns
          /\ (observer = "looking" => file'.seen[i] <= tick.at)
      BY <1>5, <2>1 DEF Noted
    <3>2. QED
      BY <1>3, <1>4, <3>1
  <2>4. QED
    BY <2>2, <2>3 DEF Noted
<1>7. OnceInv'
  <2> SUFFICES ASSUME Clean', EnoughIds PROVE Once'
    BY DEF OnceInv
  <2>1. Once /\ file'.seen = file.seen
    BY <1>2 DEF IInv, OnceInv
  <2>2. Horizon' \in Int /\ Horizon <= Horizon'
    <3>1. Horizon' = (IF observer' = "looking" THEN tick'.at ELSE turns') - Hist
      BY DEF Horizon
    <3>2. CASE observer' = "looking" /\ tick'.at = turns
      BY <1>3, <3>1, <3>2
    <3>3. CASE observer' = "looking" /\ observer = "looking" /\ tick' = tick
      BY <1>3, <3>1, <3>3 DEF Horizon
    <3>4. CASE observer' # "looking"
      BY <1>3, <1>4, <3>1, <3>4
    <3>5. QED
      BY <3>2, <3>3, <3>4
  <2>3. \A t \in 1..MaxTurns : Known(t) => Known(t)'
    <3> SUFFICES ASSUME NEW t \in 1..MaxTurns, Known(t) PROVE Known(t)'
      OBVIOUS
    <3>1. t > Horizon' => t > Horizon
      BY <1>3, <2>2
    <3>2. QED
      BY <2>1, <3>1 DEF Known
  <2>4. \A t \in sent' : Known(t)'
    BY <2>1, <2>3 DEF Once, IInv, Alerts
  <2>5. observer' = "sending" =>
          \A i \in 1..Len(toSend') :
            /\ toSend'[i] \notin sent' /\ Known(toSend[i])'
            /\ \A j \in 1..Len(toSend') : i # j => toSend'[i] # toSend'[j]
    <3> SUFFICES ASSUME observer' = "sending", NEW i \in 1..Len(toSend')
                 PROVE  /\ toSend'[i] \notin sent' /\ Known(toSend[i])'
                        /\ \A j \in 1..Len(toSend') : i # j => toSend'[i] # toSend'[j]
      OBVIOUS
    <3>1. toSend[i] \in 1..MaxTurns /\ toSend' = toSend /\ observer = "sending" /\ sent' = sent
      BY <1>1, ElementOfSeq DEF Shapes
    <3>2. /\ toSend[i] \notin sent /\ Known(toSend[i])
          /\ \A j \in 1..Len(toSend) : i # j => toSend[i] # toSend[j]
      BY <2>1, <3>1 DEF Once
    <3>3. Known(toSend[i])'
      BY <2>3, <3>1, <3>2 DEF Known
    <3>4. QED
      BY <3>1, <3>2, <3>3
  <2>6. twice' = {}
    BY <2>1 DEF Once
  <2>7. QED
    BY <2>4, <2>5, <2>6 DEF Once
<1>8. QED
  BY <1>6, <1>7

LEMMA TurnCompletesStep == IInv /\ TurnCompletes => IInv'
<1> SUFFICES ASSUME IInv, TurnCompletes PROVE IInv'
  OBVIOUS
<1> USE DEF IInv
<1>1. turns \in Nat /\ turns' = turns + 1 /\ turns < MaxTurns
  BY DEF TurnCompletes, Numbers
<1>2. Numbers'
  <2>1. UNCHANGED <<restarts, enables, quiet>>
    BY DEF TurnCompletes, history
  <2>2. QED
    BY <1>1, <2>1, NotifyAssumption DEF Numbers
<1>3. Flags'
  BY DEF TurnCompletes, history, Flags
<1>4. Shapes'
  <2>1. \A n \in 0..MaxTurns : n <= turns => n <= turns'
    BY <1>1, NotifyAssumption
  <2>2. tick'.at <= turns'
    BY <2>1 DEF TurnCompletes, Shapes
  <2>3. \A c \in Calls : call'[c].at <= turns'
    BY <2>1 DEF TurnCompletes, Shapes, Waits
  <2>4. QED
    BY <2>2, <2>3 DEF TurnCompletes, Shapes
<1>5. Alerts' /\ OptOut' /\ RunsInv'
  BY DEF TurnCompletes, history, Alerts, OptOut, OptOutSticks, Stands, RunsInv, Runs, Clean
<1>6. NewInv'
  BY DEF TurnCompletes, history, NewInv, New, Sighted
<1>7. NotedInv' /\ OnceInv'
  <2>1. turns <= turns'
    BY <1>1
  <2>2. QED
    BY <1>2, <1>4, <2>1, NothingNew DEF TurnCompletes, history
<1>8. QED
  BY <1>2, <1>3, <1>4, <1>5, <1>6, <1>7

\* An enable call that waits will save what the file says.
LEMMA EnableBeginsStep == IInv => \A c \in Calls : EnableBegins(c) => IInv'
<1> SUFFICES ASSUME IInv, NEW c \in Calls, EnableBegins(c) PROVE IInv'
  OBVIOUS
<1> USE DEF IInv
<1>1. Numbers'
  <2>1. UNCHANGED <<turns, restarts, quiet>> /\ enables < MaxEnables /\ enables' = enables + 1
    BY DEF EnableBegins, history
  <2>2. QED
    BY <2>1, NotifyAssumption DEF Numbers
<1>2. Flags'
  BY DEF EnableBegins, history, Flags
<1> DEFINE new == [waiting |-> TRUE, state |-> file, at |-> turns, overtaken |-> FALSE,
                  overruled |-> FALSE]
<1>3. call' = [call EXCEPT ![c] = new]
  BY DEF EnableBegins
<1>4. new \in Waits /\ new.at <= turns
  <2>1. turns \in 0..MaxTurns /\ turns <= turns
    BY DEF Numbers
  <2>2. QED
    BY <2>1 DEF Shapes, Waits
<1>5. Shapes'
  BY <1>3, <1>4 DEF EnableBegins, Shapes
<1>6. Alerts' /\ OptOut'
  BY DEF EnableBegins, history, Alerts, OptOut, OptOutSticks, Stands
<1>7. RunsInv'
  <2> SUFFICES ASSUME Clean' PROVE Runs'
    BY DEF RunsInv
  <2>1. Runs /\ UNCHANGED <<file, observer, tick>> /\ ~file.enabled
    BY DEF EnableBegins, history, RunsInv, Clean
  <2>2. \A d \in Calls : call'[d] = IF d = c THEN new ELSE call[d]
    BY <1>3 DEF Shapes
  <2>3. QED
    BY <2>1, <2>2 DEF Runs
<1>8. NewInv'
  BY DEF EnableBegins, history, NewInv, New, Sighted
<1>9. NotedInv' /\ OnceInv'
  <2>1. turns <= turns
    BY DEF Numbers
  <2>2. QED
    BY <1>1, <1>5, <2>1, NothingNew DEF EnableBegins, history
<1>10. QED
  BY <1>1, <1>2, <1>5, <1>6, <1>7, <1>8, <1>9

LEMMA EnableFailsStep == IInv => \A c \in Calls : EnableFails(c) => IInv'
<1> SUFFICES ASSUME IInv, NEW c \in Calls, EnableFails(c) PROVE IInv'
  OBVIOUS
<1> USE DEF IInv
<1>1. Numbers'
  BY DEF EnableFails, history, Numbers
<1>2. Flags'
  BY DEF EnableFails, history, Flags
<1>3. Idle \in Waits /\ Idle.at = 0 /\ ~Idle.waiting /\ turns >= 0
  BY DefaultKept, NotifyAssumption DEF Idle, Waits, Numbers
<1>4. Shapes'
  BY <1>3 DEF EnableFails, Shapes
<1>5. Alerts' /\ OptOut'
  BY DEF EnableFails, history, Alerts, OptOut, OptOutSticks, Stands
<1>6. RunsInv'
  <2> SUFFICES ASSUME Clean' PROVE Runs'
    BY DEF RunsInv
  <2>1. Runs /\ UNCHANGED <<file, observer, tick>>
    BY DEF EnableFails, history, RunsInv, Clean
  <2>2. \A d \in Calls : call'[d] = IF d = c THEN Idle ELSE call[d]
    BY DEF EnableFails, Shapes
  <2>3. QED
    BY <1>3, <2>1, <2>2 DEF Runs
<1>7. NewInv'
  BY DEF EnableFails, history, NewInv, New, Sighted
<1>8. NotedInv' /\ OnceInv'
  <2>1. turns <= turns
    BY DEF Numbers
  <2>2. QED
    BY <1>1, <1>4, <2>1, NothingNew DEF EnableFails, history
<1>9. QED
  BY <1>1, <1>2, <1>4, <1>5, <1>6, <1>7, <1>8

\* The opt-in: a call that no other has overtaken saves the ids of the file, and
\* a marker that is not before the turns there were when it began.
LEMMA EnableEndsStep == IInv => \A c \in Calls : EnableEnds(c) => IInv'
<1> SUFFICES ASSUME IInv, NEW c \in Calls, EnableEnds(c) PROVE IInv'
  OBVIOUS
<1> USE DEF IInv
<1>1. PICK view \in Snapshots(call[c].at) :
        /\ Save(Baseline(call[c].state, view))
        /\ mishaps' = mishaps \cup Note("blind", view = {} /\ call[c].at > 0)
                              \cup Note("overlap", call[c].overtaken)
                              \cup Note("overruled", call[c].overruled)
                              \cup DiskMishap(Baseline(call[c].state, view))
  BY DEF EnableEnds
<1> DEFINE s == Baseline(call[c].state, view)
<1>2. call[c].state \in Kept /\ call[c].at \in 0..turns /\ call[c].waiting
  BY NotifyAssumption DEF EnableEnds, Shapes, Waits, Numbers
<1>3. s \in Kept /\ s.enabled /\ s.seen = call[c].state.seen /\ (view # {} => call[c].at <= s.marker)
  BY <1>2, BaselineKeeps
<1>4. /\ mishaps \subseteq mishaps' /\ mishaps' \subseteq {"blind", "overlap", "overruled", "disk"}
      /\ view = {} /\ call[c].at > 0 => "blind" \in mishaps'
      /\ call[c].overtaken => "overlap" \in mishaps'
      /\ call[c].overruled => "overruled" \in mishaps'
      /\ "disk" \notin mishaps' => file' = s
      /\ file' \in Kept
  BY <1>1, <1>3, DefaultKept DEF Save, DiskMishap, Note, Flags, Shapes
<1>5. observer' = IF file'.enabled /\ observer = "off" THEN "idle" ELSE observer
  BY DEF EnableEnds, EnsureObserver
<1>6. Clean' => Clean /\ ~call[c].overtaken /\ file' = s
  BY <1>4 DEF Clean
<1>7. Clean' => call[c].state = file /\ ~file.enabled /\ observer \in {"off", "cancelled"}
                /\ file'.seen = file.seen
  <2> SUFFICES ASSUME Clean' PROVE call[c].state = file /\ ~file.enabled
                                   /\ observer \in {"off", "cancelled"} /\ file'.seen = file.seen
    OBVIOUS
  <2>1. call[c].overtaken \in BOOLEAN
    BY DEF Shapes, Waits
  <2>2. call[c].state = file /\ ~file.enabled
    BY <1>2, <1>6, <2>1 DEF RunsInv, Runs
  <2>3. observer \in {"off", "cancelled"}
    BY <1>6, <2>2 DEF RunsInv, Runs, Flags
  <2>4. QED
    BY <1>3, <1>6, <2>2, <2>3
<1>8. Numbers'
  <2>1. UNCHANGED <<turns, restarts, enables>> /\ quiet' = call[c].at
    BY DEF EnableEnds
  <2>2. QED
    BY <1>2, <2>1 DEF Numbers
<1>9. Flags'
  BY <1>4, <1>5 DEF EnableEnds, Flags
<1>10. \A d \in Calls : call'[d] = IF d = c THEN Idle ELSE [call[d] EXCEPT !.overtaken = call[d].waiting]
  BY DEF EnableEnds
<1>11. Shapes'
  <2>1. Idle \in Waits /\ Idle.at = 0 /\ 0 <= turns
    BY DefaultKept, NotifyAssumption DEF Idle, Waits, Numbers
  <2>2. ASSUME NEW d \in Calls PROVE call'[d] \in Waits /\ call'[d].at <= turns
    <3>1. call[d] \in Waits /\ call[d].at <= turns
      BY DEF Shapes
    <3>2. QED
      BY <1>10, <2>1, <3>1 DEF Waits
  <2>3. call' \in [Calls -> Waits]
    BY <2>2 DEF EnableEnds
  <2>4. UNCHANGED <<turns, tick, toSend>>
    BY DEF EnableEnds
  <2>5. QED
    BY <1>4, <2>2, <2>3, <2>4 DEF Shapes
<1>12. Alerts'
  BY DEF EnableEnds, NoAlert, Alerts
<1>13. OptOut'
  <2>1. wanted' = (wanted \/ ~call[c].overruled) /\ UNCHANGED tick
    BY DEF EnableEnds
  <2>2. Stands'
    BY <1>4, <2>1 DEF Stands
  <2>3. QED
    BY <1>5, <2>1, <2>2 DEF OptOut, OptOutSticks, Stands
<1>14. RunsInv'
  <2> SUFFICES ASSUME Clean' PROVE Runs'
    BY DEF RunsInv
  <2>1. file'.enabled /\ observer' \in {"idle", "cancelled"}
    BY <1>3, <1>5, <1>6, <1>7
  <2>2. ASSUME NEW d \in Calls PROVE ~(call'[d].waiting /\ ~call'[d].overtaken)
    <3>1. call[d] \in Waits
      BY DEF Shapes
    <3>2. CASE d = c
      <4>1. call'[d] = Idle
        BY <1>10, <3>2
      <4>2. QED
        BY <4>1 DEF Idle
    <3>3. CASE d # c
      <4>1. call'[d].waiting = call[d].waiting /\ call'[d].overtaken = call[d].waiting
        BY <1>10, <3>1, <3>3 DEF Waits
      <4>2. QED
        BY <4>1
    <3>4. QED
      BY <3>2, <3>3
  <2>3. QED
    BY <2>1, <2>2 DEF Runs
<1>15. NewInv'
  <2> SUFFICES ASSUME Sighted' PROVE New'
    BY DEF NewInv
  <2>1. Clean' /\ Sighted
    BY <1>4 DEF Clean, Sighted
  <2>2. historical' = {}
    BY <2>1 DEF EnableEnds, NoAlert, NewInv, New, Sighted
  <2>3. observer' \in {"idle", "cancelled", "off"}
    BY <1>5, <1>7, <2>1
  <2>4. quiet' <= file'.marker
    <3>1. quiet' = call[c].at /\ file' = s /\ s.marker \in 0..MaxTurns
      BY <1>3, <1>6, <2>1, KeptFields DEF EnableEnds
    <3>2. view # {} \/ ~(call[c].at > 0)
      BY <1>4 DEF Sighted
    <3>3. call[c].at \in Nat
      BY <1>2, NotifyAssumption DEF Numbers
    <3>4. QED
      BY <1>3, <3>1, <3>2, <3>3
  <2>5. QED
    BY <2>2, <2>3, <2>4 DEF New
<1>16. NotedInv' /\ OnceInv'
  <2>1. turns <= turns'
    BY DEF EnableEnds, Numbers
  <2>2. observer' \notin {"looking", "sending"} \/ observer' = observer
    BY <1>5
  <2>3. UNCHANGED <<tick, toSend, sent, twice>>
    BY DEF EnableEnds, NoAlert
  <2>4. QED
    BY <1>4, <1>7, <1>8, <1>11, <2>1, <2>2, <2>3, NothingNew
<1>17. QED
  BY <1>8, <1>9, <1>11, <1>12, <1>13, <1>14, <1>15, <1>16

\* The opt-out: what the observer knows is dropped with it.
LEMMA DisableStep == IInv /\ Disable => IInv'
<1> SUFFICES ASSUME IInv, Disable PROVE IInv'
  OBVIOUS
<1> USE DEF IInv
<1> DEFINE s == [file EXCEPT !.enabled = FALSE]
<1>1. s \in Kept /\ ~s.enabled /\ s.seen = file.seen /\ s.marker = file.marker
      /\ (~file.enabled => s = file)
  BY DisabledKeeps DEF Shapes
<1>2. Save(s) /\ mishaps' = mishaps \cup DiskMishap(s)
  BY DEF Disable
<1> HIDE DEF s
<1>3. /\ file' \in Kept
      /\ mishaps \subseteq mishaps' /\ mishaps' \subseteq mishaps \cup {"disk"}
      /\ "disk" \notin mishaps' => file' = s
  BY <1>1, <1>2, SaveKeeps DEF Shapes
<1>4. observer' \in {"off", "cancelled"}
  BY DEF Disable
<1>5. Clean' => Clean /\ file' = s
  BY <1>3 DEF Clean
<1>6. Numbers'
  BY DEF Disable, Numbers
<1>7. Flags'
  BY <1>3, <1>4 DEF Disable, Flags
<1> DEFINE waits(c) == [call[c] EXCEPT !.overruled = call[c].waiting]
<1>8. ASSUME NEW c \in Calls
       PROVE  /\ waits(c) \in Waits /\ waits(c).waiting = call[c].waiting /\ waits(c).at = call[c].at
              /\ waits(c).state = call[c].state /\ waits(c).overtaken = call[c].overtaken
  BY DEF Shapes, Waits
<1>9. call' = [c \in Calls |-> waits(c)]
  BY DEF Disable, Overrules
<1> HIDE DEF waits
<1>10. Shapes'
  BY <1>3, <1>8, <1>9 DEF Disable, Shapes
<1>11. Alerts'
  BY DEF Disable, NoAlert, Alerts
<1>12. OptOut'
  BY <1>1, <1>3, <1>4 DEF OptOut, OptOutSticks, Stands
<1>13. RunsInv'
  <2> SUFFICES ASSUME Clean' PROVE Runs'
    BY DEF RunsInv
  <2>1. Runs
    BY <1>5 DEF RunsInv
  <2>2. QED
    BY <1>1, <1>4, <1>5, <1>8, <1>9, <2>1 DEF Runs
<1>14. NewInv'
  <2> SUFFICES ASSUME Sighted' PROVE New'
    BY DEF NewInv
  <2>1. Clean' /\ Sighted
    BY <1>3 DEF Clean, Sighted
  <2>2. QED
    BY <1>1, <1>4, <1>5, <2>1 DEF Disable, NoAlert, NewInv, New, Sighted
<1>15. NotedInv' /\ OnceInv'
  <2>1. turns <= turns'
    BY DEF Disable, Numbers
  <2>2. QED
    BY <1>1, <1>3, <1>4, <1>5, <1>6, <1>10, <2>1, NothingNew DEF Disable, NoAlert
<1>16. QED
  BY <1>6, <1>7, <1>10, <1>11, <1>12, <1>13, <1>14, <1>15

\* Steps of the observer that keep the file.
LEMMA ObserverKeepsStep ==
  IInv /\ (CancelSeen \/ ObserverReturns \/ TickRaises \/ TickEnds \/ UNCHANGED vars) => IInv'
<1> SUFFICES ASSUME IInv, CancelSeen \/ ObserverReturns \/ TickRaises \/ TickEnds \/ UNCHANGED vars
             PROVE  IInv'
  OBVIOUS
<1> USE DEF IInv
<1>1. UNCHANGED <<turns, file, call, restarts, enables, history>>
  BY DEF CancelSeen, ObserverReturns, TickRaises, TickEnds, vars
<1>2. /\ tick' \in {tick, NoTick} /\ toSend' \in {toSend, << >>}
      /\ observer' = "looking" => observer = "looking" /\ tick' = tick
      /\ observer' = "sending" => observer = "sending" /\ toSend' = toSend
      /\ observer' = "idle" => observer \in {"idle", "looking", "sending"}
      /\ observer' \in {"off", "idle", "looking", "sending", "cancelled"}
  BY DEF CancelSeen, ObserverReturns, TickRaises, TickEnds, vars, Flags
<1>3. Numbers'
  BY <1>1 DEF history, Numbers
<1>4. Flags'
  BY <1>1, <1>2 DEF history, Flags
<1>5. NoTick \in [state : Kept, at : 0..MaxTurns] /\ NoTick.at <= turns
  BY DefaultKept, NotifyAssumption DEF NoTick, Numbers
<1>6. Shapes'
  <2>1. tick' \in [state : Kept, at : 0..MaxTurns] /\ tick'.at <= turns
    BY <1>2, <1>5 DEF Shapes
  <2>2. toSend' \in Seq(1..MaxTurns)
    <3>1. << >> \in Seq(1..MaxTurns)
      OBVIOUS
    <3>2. QED
      BY <1>2, <3>1 DEF Shapes
  <2>3. QED
    BY <1>1, <2>1, <2>2 DEF Shapes
<1>7. Alerts' /\ OptOut'
  BY <1>1, <1>2 DEF history, Alerts, OptOut, OptOutSticks, Stands
<1>8. RunsInv'
  BY <1>1, <1>2 DEF history, RunsInv, Runs, Clean
<1>9. NewInv'
  BY <1>1, <1>2 DEF history, NewInv, New, Sighted
<1>10. NotedInv' /\ OnceInv'
  <2>1. turns <= turns'
    BY <1>1 DEF Numbers
  <2>2. QED
    BY <1>1, <1>2, <1>3, <1>6, <2>1, NothingNew DEF history
<1>11. QED
  BY <1>3, <1>4, <1>6, <1>7, <1>8, <1>9, <1>10

\* A tick begins with what the file says now, after the opt-in.
LEMMA TickBeginsStep == IInv /\ TickBegins => IInv'
<1> SUFFICES ASSUME IInv, TickBegins PROVE IInv'
  OBVIOUS
<1> USE DEF IInv
<1>1. UNCHANGED <<turns, file, toSend, call, restarts, enables, history>>
      /\ tick' = [state |-> file, at |-> turns] /\ observer' = "looking"
  BY DEF TickBegins
<1>2. Numbers'
  BY <1>1 DEF history, Numbers
<1>3. Flags'
  BY <1>1 DEF history, Flags
<1>4. Shapes'
  <2>1. turns \in 0..MaxTurns /\ turns <= turns
    BY DEF Numbers
  <2>2. QED
    BY <1>1, <2>1 DEF Shapes
<1>5. Alerts' /\ OptOut'
  BY <1>1 DEF TickBegins, history, Alerts, OptOut, OptOutSticks, Stands
<1>6. RunsInv'
  BY <1>1 DEF TickBegins, history, RunsInv, Runs, Clean
<1>7. NewInv'
  <2>1. quiet <= turns
    BY DEF Numbers
  <2>2. QED
    BY <1>1, <2>1 DEF history, NewInv, New, Sighted
<1>8. NotedInv' /\ OnceInv'
  <2>1. turns <= turns'
    BY <1>1 DEF Numbers
  <2>2. QED
    BY <1>1, <1>2, <1>4, <2>1, NothingNew DEF history
<1>9. QED
  BY <1>2, <1>3, <1>4, <1>5, <1>6, <1>7, <1>8

\* A crash: calls and ticks are gone, and the observer runs if the file says so.
LEMMA RestartStep == IInv /\ Restart => IInv'
<1> SUFFICES ASSUME IInv, Restart PROVE IInv'
  OBVIOUS
<1> USE DEF IInv
<1>1. Numbers'
  <2>1. UNCHANGED <<turns, enables, quiet>> /\ restarts < MaxRestarts /\ restarts' = restarts + 1
    BY DEF Restart, history
  <2>2. QED
    BY <2>1, NotifyAssumption DEF Numbers
<1>2. observer' = (IF file.enabled THEN "idle" ELSE "off") /\ call' = [c \in Calls |-> Idle]
      /\ tick' = NoTick /\ toSend' = << >> /\ UNCHANGED <<turns, file, history>>
  BY DEF Restart
<1>3. Flags'
  BY <1>2 DEF history, Flags
<1>4. Shapes'
  <2>1. NoTick \in [state : Kept, at : 0..MaxTurns] /\ NoTick.at <= turns
        /\ Idle \in Waits /\ Idle.at <= turns
    BY DefaultKept, NotifyAssumption DEF NoTick, Idle, Waits, Numbers
  <2>2. QED
    BY <1>2, <2>1 DEF Shapes
<1>5. Alerts' /\ OptOut'
  BY <1>2 DEF history, Alerts, OptOut, OptOutSticks, Stands
<1>6. RunsInv'
  BY <1>2 DEF history, RunsInv, Runs, Clean, Idle
<1>7. NewInv'
  BY <1>2 DEF history, NewInv, New, Sighted
<1>8. NotedInv' /\ OnceInv'
  <2>1. turns <= turns'
    BY <1>2 DEF Numbers
  <2>2. QED
    BY <1>1, <1>2, <1>4, <2>1, NothingNew DEF history
<1>9. QED
  BY <1>1, <1>3, <1>4, <1>5, <1>6, <1>7, <1>8

\* A tick that finds nothing new saves the marker, and the file is as enabled as
\* it was when the tick began.
LEMMA TickQuietStep == IInv /\ TickQuiet => IInv'
<1> SUFFICES ASSUME IInv, TickQuiet PROVE IInv'
  OBVIOUS
<1> USE DEF IInv
<1>1. PICK view \in Snapshots(tick.at) :
        LET next == Observed(tick.state, view) IN
        /\ Fresh(tick.state, view) = {}
        /\ IF next = tick.state
           THEN UNCHANGED <<file, mishaps>>
           ELSE Save(next) /\ mishaps' = mishaps \cup DiskMishap(next)
  BY DEF TickQuiet
<1> DEFINE next == Observed(tick.state, view)
<1>2. tick.state \in Kept /\ tick.at \in 0..turns
  BY NotifyAssumption DEF Shapes, Numbers
<1>3. /\ next \in Kept /\ next.enabled = tick.state.enabled /\ next.seen = tick.state.seen
      /\ IF view = {} THEN next.marker = tick.state.marker ELSE tick.at <= next.marker
  BY <1>1, <1>2, ObservedKeeps
<1>4. next = tick.state \/ (Save(next) /\ mishaps' = mishaps \cup DiskMishap(next))
  BY <1>1
<1>5. next = tick.state => UNCHANGED <<file, mishaps>>
  BY <1>1
<1> HIDE DEF next
<1>6. /\ file' \in Kept
      /\ mishaps \subseteq mishaps' /\ mishaps' \subseteq mishaps \cup {"disk"}
      /\ "disk" \notin mishaps' => file' = next \/ (next = tick.state /\ file' = file)
  <2>1. CASE next = tick.state
    BY <1>5, <2>1 DEF Shapes
  <2>2. CASE next # tick.state
    BY <1>3, <1>4, <2>2, SaveKeeps DEF Shapes
  <2>3. QED
    BY <2>1, <2>2
<1>7. observer = "looking" /\ observer' = "idle" /\ tick' = NoTick
      /\ UNCHANGED <<turns, toSend, call, restarts, enables, wanted, quiet, sent, twice, historical>>
  BY DEF TickQuiet, NoAlert
<1>8. Clean' => Clean /\ tick.state = file /\ file' = next
  <2> SUFFICES ASSUME Clean' PROVE Clean /\ tick.state = file /\ file' = next
    OBVIOUS
  <2>1. Clean /\ "disk" \notin mishaps'
    BY <1>6 DEF Clean
  <2>2. tick.state = file
    BY <1>7, <2>1 DEF RunsInv, Runs
  <2>3. QED
    BY <1>6, <2>1, <2>2
<1>9. Numbers'
  BY <1>7 DEF Numbers
<1>10. Flags'
  BY <1>6, <1>7 DEF Flags
<1>11. Shapes'
  <2>1. NoTick \in [state : Kept, at : 0..MaxTurns] /\ NoTick.at <= turns
    BY DefaultKept, NotifyAssumption DEF NoTick, Numbers
  <2>2. QED
    BY <1>6, <1>7, <2>1 DEF Shapes
<1>12. Alerts'
  BY <1>7 DEF Alerts
<1>13. OptOut'
  <2>1. tick.state.enabled /\ Stands
    BY <1>7 DEF OptOut
  <2>2. QED
    BY <1>6, <1>7, <2>1 DEF OptOut, OptOutSticks, Stands
<1>14. file.enabled /\ Clean' => file'.enabled
  BY <1>3, <1>8
<1>15. RunsInv'
  BY <1>7, <1>8, <1>14 DEF RunsInv, Runs
<1>16. NewInv'
  <2> SUFFICES ASSUME Sighted' PROVE New'
    BY DEF NewInv
  <2>1. Clean' /\ Sighted
    BY <1>6 DEF Clean, Sighted
  <2>2. New /\ Runs
    BY <1>8, <2>1 DEF NewInv, RunsInv
  <2>3. quiet <= file.marker /\ quiet <= tick.at
    BY <1>7, <2>2 DEF New, Runs
  <2>4. quiet <= next.marker
    <3>1. /\ quiet \in Nat /\ tick.at \in Nat /\ next.marker \in Nat /\ file.marker \in Nat
      BY <1>2, <1>3, KeptFields, NotifyAssumption DEF Numbers, Shapes
    <3>2. QED
      BY <1>3, <1>8, <2>1, <2>3, <3>1
  <2>5. QED
    BY <1>7, <1>8, <2>1, <2>2, <2>4 DEF New
<1>17. NotedInv' /\ OnceInv'
  <2>1. turns <= turns'
    BY <1>7 DEF Numbers
  <2>2. QED
    BY <1>3, <1>6, <1>7, <1>8, <1>9, <1>11, <2>1, NothingNew
<1>18. QED
  BY <1>9, <1>10, <1>11, <1>12, <1>13, <1>15, <1>16, <1>17

\* A tick that finds new turns saves their ids first; none of them was alerted
\* before, and none was there at the opt-in.
LEMMA TickAlertsStep == IInv /\ TickAlerts => IInv'
<1> SUFFICES ASSUME IInv, TickAlerts PROVE IInv'
  OBVIOUS
<1> USE DEF IInv
<1>1. PICK view \in Snapshots(tick.at) :
        LET events == InOrder(Fresh(tick.state, view))
            next == Observed(tick.state, view) IN
        /\ events # << >>
        /\ Save(next) /\ mishaps' = mishaps \cup DiskMishap(next)
        /\ Alert(Head(events))
        /\ toSend' = Tail(events)
  BY DEF TickAlerts
<1> DEFINE fresh == Fresh(tick.state, view)
           events == InOrder(fresh)
           next == Observed(tick.state, view)
<1>2. tick.state \in Kept /\ tick.at \in 0..turns
  BY NotifyAssumption DEF Shapes, Numbers
<1>3. /\ next \in Kept /\ next.enabled = tick.state.enabled
      /\ IF view = {} THEN next.marker = tick.state.marker ELSE tick.at <= next.marker
      /\ fresh \in SUBSET (1..MaxTurns) /\ Sorts(events, fresh) /\ events \in Seq(1..MaxTurns)
  BY <1>2, ObservedKeeps
<1>4. \A t \in fresh : t \in view /\ t > tick.state.marker /\ t \notin ToSet(tick.state.seen)
  BY DEF Fresh
<1>5. /\ Windowed(tick.state.seen) /\ (\A i \in 1..Len(tick.state.seen) : tick.state.seen[i] <= tick.at)
      => /\ Windowed(next.seen)
         /\ \A i \in 1..Len(next.seen) : next.seen[i] <= turns
         /\ EnoughIds => \A t \in ToSet(tick.state.seen) \cup fresh :
                           t > turns - Hist => t \in ToSet(next.seen)
  BY <1>2, ObservedIds
<1>6. events # << >> /\ Save(next) /\ mishaps' = mishaps \cup DiskMishap(next)
      /\ Alert(Head(events)) /\ toSend' = Tail(events)
  BY <1>1
<1> HIDE DEF fresh, events, next
<1>7. /\ file' \in Kept
      /\ mishaps \subseteq mishaps' /\ mishaps' \subseteq mishaps \cup {"disk"}
      /\ "disk" \notin mishaps' => file' = next
  BY <1>3, <1>6, SaveKeeps DEF Shapes
<1>8. observer = "looking" /\ observer' = "sending" /\ tick' = NoTick
      /\ UNCHANGED <<turns, call, restarts, enables, wanted, quiet>>
  BY DEF TickAlerts
<1>9. Clean' => Clean /\ tick.state = file /\ file' = next
  <2> SUFFICES ASSUME Clean' PROVE Clean /\ tick.state = file /\ file' = next
    OBVIOUS
  <2>1. Clean /\ "disk" \notin mishaps'
    BY <1>7 DEF Clean
  <2>2. QED
    BY <1>7, <1>8, <2>1 DEF RunsInv, Runs
<1> DEFINE h == Head(events)
<1>10. /\ Tail(events) \in Seq(1..MaxTurns) /\ Len(Tail(events)) = Len(events) - 1
       /\ \A i \in 1..Len(Tail(events)) : Tail(events)[i] = events[i + 1]
       /\ Len(events) \in Nat /\ Len(events) # 0
  BY <1>3, <1>6, HeadTailProperties, EmptySeq
<1>11. h = events[1] /\ 1 \in 1..Len(events)
  BY <1>3, <1>6, <1>10
<1>12. \A i \in 1..Len(events) : events[i] \in fresh
  <2>1. events \in Seq(fresh)
    BY <1>3 DEF Sorts
  <2>2. QED
    BY <2>1, ElementOfSeq
<1>13. \A i, j \in 1..Len(events) : i # j => events[i] # events[j]
  <2> SUFFICES ASSUME NEW i \in 1..Len(events), NEW j \in 1..Len(events), i # j
               PROVE  events[i] # events[j]
    OBVIOUS
  <2>1. events[i] \in 1..MaxTurns /\ events[j] \in 1..MaxTurns
    BY <1>3, <1>12
  <2>2. i < j \/ j < i
    BY <1>10
  <2>3. QED
    BY <1>3, <2>1, <2>2 DEF Sorts
<1> HIDE DEF h
<1>14. /\ sent' = sent \cup {h} /\ twice' = twice \cup ({h} \cap sent)
       /\ historical' = historical \cup ({h} \cap 1..quiet)
  BY <1>6 DEF Alert, h
<1>15. h \in fresh /\ h \in 1..MaxTurns
  BY <1>3, <1>11, <1>12
<1>16. \A i \in 1..Len(toSend') : i + 1 \in 1..Len(events) /\ toSend'[i] = events[i + 1]
                                   /\ toSend'[i] \in fresh /\ toSend'[i] # h
  BY <1>6, <1>10, <1>11, <1>12, <1>13
<1>17. Numbers'
  BY <1>8 DEF Numbers
<1>18. Flags'
  BY <1>7, <1>8 DEF Flags
<1>19. Shapes'
  <2>1. NoTick \in [state : Kept, at : 0..MaxTurns] /\ NoTick.at <= turns
    BY DefaultKept, NotifyAssumption DEF NoTick, Numbers
  <2>2. QED
    BY <1>6, <1>7, <1>8, <1>10, <2>1 DEF Shapes
<1>20. Alerts'
  BY <1>14, <1>15 DEF Alerts
<1>21. OptOut'
  <2>1. Stands
    BY <1>8 DEF OptOut
  <2>2. QED
    BY <1>7, <1>8, <2>1 DEF OptOut, OptOutSticks, Stands
<1>22. RunsInv'
  <2>1. tick.state.enabled
    BY <1>8 DEF OptOut
  <2>2. Clean' => file'.enabled
    BY <1>3, <1>9, <2>1
  <2>3. Clean' => ~ \E c \in Calls : call'[c].waiting /\ ~call'[c].overtaken
    BY <1>8, <1>9, <2>1 DEF RunsInv, Runs
  <2>4. QED
    BY <1>8, <2>2, <2>3 DEF RunsInv, Runs
<1>23. NewInv'
  <2> SUFFICES ASSUME Sighted' PROVE New'
    BY DEF NewInv
  <2>1. Clean' /\ Sighted
    BY <1>7 DEF Clean, Sighted
  <2>2. New /\ Runs /\ tick.state = file /\ file' = next
    BY <1>9, <2>1 DEF NewInv, RunsInv
  <2>3. quiet <= file.marker /\ quiet <= tick.at
    BY <1>8, <2>2 DEF New, Runs
  <2>4. quiet \in Nat /\ tick.at \in Nat /\ next.marker \in Nat /\ file.marker \in Nat
    BY <1>2, <1>3, KeptFields, NotifyAssumption DEF Numbers, Shapes
  <2>5. quiet <= next.marker
    BY <1>3, <2>2, <2>3, <2>4
  <2>6. \A t \in fresh : t > quiet
    <3> SUFFICES ASSUME NEW t \in fresh PROVE t > quiet
      OBVIOUS
    <3>1. t \in 1..MaxTurns /\ t > file.marker
      BY <1>3, <1>4, <2>2
    <3>2. QED
      BY <2>3, <2>4, <3>1
  <2>7. historical' = {}
    <3>1. h > quiet /\ h \in Nat
      BY <1>3, <1>15, <2>6
    <3>2. h \notin 1..quiet
      BY <2>4, <3>1
    <3>3. historical = {}
      BY <2>2 DEF New
    <3>4. QED
      BY <1>14, <3>2, <3>3
  <2>8. \A i \in 1..Len(toSend') : toSend'[i] > quiet
    BY <1>16, <2>6
  <2>9. QED
    BY <1>8, <2>2, <2>5, <2>7, <2>8 DEF New
<1>24. Clean' => /\ Windowed(file.seen) /\ tick.state = file /\ file' = next
                 /\ \A i \in 1..Len(file.seen) : file.seen[i] <= tick.at
  BY <1>8, <1>9 DEF NotedInv, Noted
<1>25. NotedInv'
  <2> SUFFICES ASSUME Clean' PROVE Noted'
    BY DEF NotedInv
  <2>1. Windowed(next.seen) /\ \A i \in 1..Len(next.seen) : next.seen[i] <= turns
    BY <1>5, <1>24
  <2>2. file' = next /\ turns' = turns
    BY <1>8, <1>24
  <2>3. Windowed(file.seen)'
    BY <2>1, <2>2 DEF Windowed
  <2>4. QED
    BY <1>8, <2>1, <2>2, <2>3 DEF Noted
<1>26. OnceInv'
  <2> SUFFICES ASSUME Clean', EnoughIds PROVE Once'
    BY DEF OnceInv
  <2>1. Once
    BY <1>9 DEF OnceInv
  <2>2. /\ turns \in Nat /\ Hist \in Nat /\ tick.at \in Nat /\ tick.at <= turns
        /\ Horizon = tick.at - Hist /\ Horizon' = turns - Hist
    BY <1>8, HorizonType DEF Horizon
  <2>3. \A t \in sent \cup fresh : t \in Nat
    BY <1>3 DEF Alerts
  <2>4. \A t \in fresh : t > Horizon
    <3> SUFFICES ASSUME NEW t \in fresh PROVE t > Horizon
      OBVIOUS
    <3>1. t \in view
      BY <1>4
    <3>2. PICK n \in tick.at..turns : view = Window(n)
      BY <1>2, <3>1, SnapshotShows
    <3>3. t > n - Hist /\ t \in Nat
      BY <2>3, <3>1, <3>2 DEF Window
    <3>4. QED
      BY <2>2, <3>3
  <2>5. \A t \in fresh : t \notin sent
    BY <1>4, <1>24, <2>1, <2>4 DEF Once, Known
  <2>6. \A t \in sent \cup fresh : Known(t)'
    <3> SUFFICES ASSUME NEW t \in sent \cup fresh, t > turns - Hist PROVE t \in ToSet(file'.seen)
      BY <2>2 DEF Known
    <3>1. t > Horizon
      BY <2>2, <2>3
    <3>2. t \in ToSet(file.seen) \cup fresh
      BY <2>1, <3>1 DEF Once, Known
    <3>3. t \in ToSet(next.seen)
      BY <1>5, <1>24, <3>2
    <3>4. QED
      BY <1>24, <3>3
  <2>7. twice' = {} /\ \A t \in sent' : Known(t)'
    BY <1>14, <1>15, <2>1, <2>5, <2>6 DEF Once
  <2>8. ASSUME NEW i \in 1..Len(toSend')
        PROVE  /\ toSend'[i] \notin sent' /\ Known(toSend[i])'
               /\ \A j \in 1..Len(toSend') : i # j => toSend'[i] # toSend'[j]
    <3>1. toSend'[i] \notin sent'
      BY <1>14, <1>16, <2>5
    <3>2. Known(toSend[i])'
      BY <1>16, <2>6 DEF Known
    <3>3. ASSUME NEW j \in 1..Len(toSend'), i # j PROVE toSend'[i] # toSend'[j]
      <4>1. i + 1 # j + 1
        BY <3>3
      <4>2. QED
        BY <1>13, <1>16, <4>1
    <3>4. QED
      BY <3>1, <3>2, <3>3
  <2>9. QED
    BY <2>7, <2>8 DEF Once
<1>27. QED
  BY <1>17, <1>18, <1>19, <1>20, <1>21, <1>22, <1>23, <1>25, <1>26

\* The next event of a tick: its id has been saved with the others.
LEMMA SendNextStep == IInv /\ SendNext => IInv'
<1> SUFFICES ASSUME IInv, SendNext PROVE IInv'
  OBVIOUS
<1> USE DEF IInv
<1> DEFINE h == Head(toSend)
<1>1. /\ observer = "sending" /\ toSend # << >> /\ toSend' = Tail(toSend)
      /\ sent' = sent \cup {h} /\ twice' = twice \cup ({h} \cap sent)
      /\ historical' = historical \cup ({h} \cap 1..quiet)
      /\ UNCHANGED <<turns, file, observer, tick, call, restarts, enables, wanted, quiet, mishaps>>
  BY DEF SendNext, Alert
<1>2. toSend \in Seq(1..MaxTurns)
  BY DEF Shapes
<1>3. /\ Tail(toSend) \in Seq(1..MaxTurns) /\ Len(Tail(toSend)) = Len(toSend) - 1
      /\ \A i \in 1..Len(Tail(toSend)) : Tail(toSend)[i] = toSend[i + 1]
      /\ Len(toSend) \in Nat /\ Len(toSend) # 0
  BY <1>1, <1>2, HeadTailProperties, EmptySeq
<1>4. h = toSend[1] /\ 1 \in 1..Len(toSend) /\ h \in 1..MaxTurns
  <2>1. 1 \in 1..Len(toSend)
    BY <1>3
  <2>2. toSend[1] \in 1..MaxTurns
    BY <1>2, <2>1, ElementOfSeq
  <2>3. h = toSend[1]
    BY <1>1, <1>2, <1>3
  <2>4. QED
    BY <2>1, <2>2, <2>3
<1>5. \A i \in 1..Len(toSend') : i + 1 \in 2..Len(toSend) /\ i + 1 \in 1..Len(toSend)
                                  /\ toSend'[i] = toSend[i + 1]
  BY <1>1, <1>3
<1> HIDE DEF h
<1>6. Numbers'
  BY <1>1 DEF Numbers
<1>7. Flags'
  BY <1>1 DEF Flags
<1>8. Shapes'
  BY <1>1, <1>3 DEF Shapes
<1>9. Alerts' /\ OptOut'
  BY <1>1, <1>4 DEF Alerts, OptOut, OptOutSticks, Stands
<1>10. RunsInv'
  BY <1>1 DEF RunsInv, Runs, Clean
<1>11. NewInv'
  <2> SUFFICES ASSUME Sighted' PROVE New'
    BY DEF NewInv
  <2>1. New
    BY <1>1 DEF NewInv, Sighted
  <2>2. h > quiet /\ h \in Nat /\ quiet \in Nat
    BY <1>1, <1>4, <2>1, NotifyAssumption DEF New, Numbers
  <2>3. h \notin 1..quiet
    BY <2>2
  <2>4. historical' = {}
    BY <1>1, <2>1, <2>3 DEF New
  <2>5. \A i \in 1..Len(toSend') : toSend'[i] > quiet
    BY <1>1, <1>5, <2>1 DEF New
  <2>6. QED
    BY <1>1, <2>1, <2>4, <2>5 DEF New
<1>12. NotedInv'
  BY <1>1 DEF NotedInv, Noted, Windowed, Clean
<1>13. OnceInv'
  <2> SUFFICES ASSUME Clean', EnoughIds PROVE Once'
    BY DEF OnceInv
  <2>1. Once /\ Horizon' = Horizon /\ file' = file
    BY <1>1 DEF OnceInv, Clean, Horizon
  <2>2. h \notin sent /\ Known(h) /\ \A j \in 1..Len(toSend) : 1 # j => toSend[j] # h
    BY <1>1, <1>4, <2>1 DEF Once
  <2>3. twice' = {} /\ \A t \in sent' : Known(t)'
    BY <1>1, <2>1, <2>2 DEF Once, Known
  <2>4. ASSUME NEW i \in 1..Len(toSend')
        PROVE  /\ toSend'[i] \notin sent' /\ Known(toSend[i])'
               /\ \A j \in 1..Len(toSend') : i # j => toSend'[i] # toSend'[j]
    <3>1. i + 1 \in 1..Len(toSend) /\ 1 # i + 1 /\ toSend'[i] = toSend[i + 1]
      BY <1>3, <1>5
    <3>2. toSend'[i] \notin sent'
      BY <1>1, <2>1, <2>2, <3>1 DEF Once
    <3>3. Known(toSend[i])'
      BY <1>1, <2>1, <3>1 DEF Once, Known
    <3>4. ASSUME NEW j \in 1..Len(toSend'), i # j PROVE toSend'[i] # toSend'[j]
      <4>1. i + 1 # j + 1
        BY <3>4
      <4>2. QED
        BY <1>1, <1>5, <2>1, <4>1 DEF Once
    <3>5. QED
      BY <3>2, <3>3, <3>4
  <2>5. QED
    BY <2>3, <2>4 DEF Once
<1>14. QED
  BY <1>6, <1>7, <1>8, <1>9, <1>10, <1>11, <1>12, <1>13

LEMMA StepInv == IInv /\ [Next]_vars => IInv'
BY TurnCompletesStep, EnableBeginsStep, EnableEndsStep, EnableFailsStep, DisableStep,
   ObserverKeepsStep, TickBeginsStep, TickQuietStep, TickAlertsStep, SendNextStep, RestartStep
   DEF Next

-----------------------------------------------------------------------------
(* The theorems.                                                           *)

\* The inductive invariant.
THEOREM Inductive == Spec => []IInv
<1>1. Init => IInv
  BY InitInv
<1>2. IInv /\ [Next]_vars => IInv'
  BY StepInv
<1>3. QED
  BY <1>1, <1>2, PTL DEF Spec

\* Every variable keeps its type, and the file never holds more than SeenCap ids.
THEOREM TypeCorrect == Spec => []TypeOK
<1>1. IInv => TypeOK
  <2> SUFFICES ASSUME IInv PROVE TypeOK
    OBVIOUS
  <2>1. quiet \in 0..MaxTurns
    BY NotifyAssumption DEF IInv, Numbers
  <2>2. tick \in [state : State, at : 0..MaxTurns]
    BY DEF IInv, Shapes, Kept
  <2>3. call \in [Calls -> [waiting : BOOLEAN, state : State, at : 0..MaxTurns, overtaken : BOOLEAN, overruled : BOOLEAN]]
    BY DEF IInv, Shapes, Waits, Kept
  <2>4. QED
    BY <2>1, <2>2, <2>3 DEF IInv, Numbers, Flags, Shapes, Kept, Alerts, TypeOK
<1>2. QED
  BY <1>1, Inductive, PTL

\* No tick and no restart undoes an opt-out: what makes the file say enabled
\* against the last preference is an enable call whose await the opt-out fell
\* into, or a save that failed.
THEOREM OptOutStands == Spec => []OptOutSticks
<1>1. IInv => OptOutSticks
  BY DEF IInv, OptOut
<1>2. QED
  BY <1>1, Inductive, PTL

\* Without a blind snapshot, overlapping calls or a failed save, no turn from
\* before the opt-in is alerted.
THEOREM NoHistory == Spec => []HistoricalOnlyIfBlind
<1>1. IInv => HistoricalOnlyIfBlind
  BY DEF IInv, NewInv, New, Sighted, HistoricalOnlyIfBlind
<1>2. QED
  BY <1>1, Inductive, PTL

\* With as many ids as the code keeps, no turn is alerted twice unless enable
\* calls overlapped or a save failed, whatever was blind and whatever crashed.
THEOREM AlertedOnce == ASSUME EnoughIds PROVE Spec => []AtMostOnce
<1>1. IInv => AtMostOnce
  BY DEF IInv, OnceInv, Once, Clean, AtMostOnce
<1>2. QED
  BY <1>1, Inductive, PTL
=============================================================================
