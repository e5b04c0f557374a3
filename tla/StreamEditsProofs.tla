-------------------------- MODULE StreamEditsProofs --------------------------
(***************************************************************************)
(* Theorems about StreamEdits, for every value of its constants.           *)
(***************************************************************************)
EXTENDS StreamEdits, SequenceTheorems, TLAPS

\* The parts of TypeOK.
Counters ==
  /\ losses \in 0..MaxLosses /\ rev \in Nat /\ text \in 0..MaxText /\ stash \in 0..MaxText
  /\ trailing \subseteq Nat /\ produced \in 0..MaxText /\ revisions \in Nat /\ sends \in 0..MaxSends
  /\ believed \in 0..produced
Flags ==
  /\ ws \in {"up", "lost", "none"} /\ consumer \in {"seed", "streaming", "fallback", "finished"}
  /\ pending \in BOOLEAN /\ recent \in BOOLEAN /\ immediate \in BOOLEAN /\ sleeping \in BOOLEAN
  /\ mishaps \subseteq {"unstored", "unsure"}
Ops == [kind : Kinds, text : 0..MaxText, rev : Nat, final : BOOLEAN,
        stage : {"none", "live", "store"}, live : BOOLEAN]
OpInv == op \in Ops

\* A stream that is not pending has no state, and none is pending when the
\* consumer falls back; a stash and its task come and go together.
StreamInv ==
  /\ consumer = "fallback" => ~pending
  /\ ~pending => rev = 0 /\ text = 0 /\ ~sleeping /\ ~immediate
  /\ sleeping <=> stash # 0

\* A call carries all the text there is.  An edit lasts as long as its frame is
\* on the way, with the stream pending; a rescue has forgotten the stream; the
\* last frame of a stream leaves nothing to flush.  Only the fallback sends.
CallInv ==
  /\ op # NoOp => op.text = produced /\ op.kind # "none"
  /\ op.stage = "live" => op # NoOp
  /\ op.kind = "edit" => pending /\ op.stage = "live"
  /\ op.kind = "seed" => consumer = "seed" /\ op.stage = "live" /\ op.text = 1
  /\ op.kind = "rescue" => ~pending /\ op.stage = "store"
  /\ op.kind = "revise" => ~pending
  /\ op.kind = "final" => op.final /\ ~sleeping
  /\ op.kind \in {"edit", "final", "rescue", "revise"} => consumer = "streaming"
  /\ op.kind = "send" => op.final /\ consumer = "fallback"

\* Before the preview is sent there is nothing but its frame.
SeedInv ==
  consumer = "seed" =>
    /\ wire = IF op = NoOp THEN <<>> ELSE <<Frame(0, 0, 1)>>
    /\ rows = <<>> /\ ~pending /\ believed = 0

\* What is on the wire: no delta is newer than the stream's revision, whose text
\* is the one the next delta is taken against; the last frame closes the chain.
Frames == [rev : Nat, base : Nat, text : Nat]
WireInv ==
  /\ wire \in Seq(Frames)
  /\ pending /\ op.kind # "final" =>
       \A i \in Deltas : wire[i].rev <= rev /\ (wire[i].rev = rev => wire[i].text = text)
  /\ DeltasChain

\* What is in the store: nothing under the id of the stream while the stream
\* may still be stored; nothing sent in full before the reply is finished.
Rows == [kind : Kinds, text : 0..MaxText, final : BOOLEAN]
SendRows == {i \in 1..Len(rows) : rows[i].kind = "send"}
RowInv ==
  /\ rows \in Seq(Rows)
  /\ pending \/ op.kind \in {"final", "rescue"} => OwnRows = {}
  /\ SendRows # {} => "unsure" \in mishaps \/ consumer = "finished"
  /\ StoredOnce

IInv ==
  /\ Counters /\ Flags /\ OpInv /\ StreamInv /\ CallInv /\ SeedInv /\ WireInv /\ RowInv
  /\ NothingStreamedIsLost

-----------------------------------------------------------------------------
(* What a step that leaves a part alone owes to it.                        *)

\* The wire keeps its invariant while the stream keeps its text, or ends.
LEMMA WireKept ==
  ASSUME WireInv, UNCHANGED wire,
         pending' /\ op'.kind # "final" => pending /\ op.kind # "final" /\ UNCHANGED <<rev, text>>
  PROVE  WireInv'
<1>1. Deltas' = Deltas
  BY DEF Deltas
<1>2. QED
  BY <1>1 DEF WireInv, DeltasChain

\* The rows keep theirs unless the stream comes back or the consumer resumes.
LEMMA RowsKept ==
  ASSUME RowInv, UNCHANGED <<rows, mishaps>>,
         consumer = "finished" => consumer' = "finished",
         pending' \/ op'.kind \in {"final", "rescue"} => pending \/ op.kind \in {"final", "rescue"}
  PROVE  RowInv'
<1>1. OwnRows' = OwnRows /\ SendRows' = SendRows
  BY DEF OwnRows, SendRows
<1>2. QED
  BY <1>1 DEF RowInv, StoredOnce

\* What the consumer believes is safe until it stops.
LEMMA LostKept ==
  ASSUME NothingStreamedIsLost, UNCHANGED <<rows, mishaps>>,
         consumer' \in {"fallback", "finished"} =>
           consumer \in {"fallback", "finished"} /\ UNCHANGED believed
  PROVE  NothingStreamedIsLost'
BY DEF NothingStreamedIsLost

-----------------------------------------------------------------------------
(* The chain of deltas.                                                    *)

\* A delta taken against the stream's text, one revision further, extends the
\* chain and is its newest link.
LEMMA DeltaAppended ==
  ASSUME WireInv, pending, op.kind # "final",
         rev \in Nat, text \in Nat, NEW t \in Nat,
         wire' = Append(wire, Frame(rev + 1, text, t))
  PROVE  /\ wire' \in Seq(Frames)
         /\ DeltasChain'
         /\ \A i \in Deltas' : wire'[i].rev <= rev + 1
                               /\ (wire'[i].rev = rev + 1 => wire'[i].text = t)
<1> DEFINE frame == Frame(rev + 1, text, t)
           n == Len(wire)
<1>1. frame \in Frames /\ frame.rev = rev + 1 /\ frame.base = text /\ frame.text = t
  BY DEF Frame, Frames
<1>2. wire \in Seq(Frames) /\ DeltasChain
      /\ \A i \in Deltas : wire[i].rev <= rev /\ (wire[i].rev = rev => wire[i].text = text)
  BY DEF WireInv
<1> HIDE DEF frame
<1>3. /\ wire' \in Seq(Frames) /\ Len(wire') = n + 1 /\ wire'[n + 1] = frame
      /\ \A i \in 1..n : wire'[i] = wire[i]
  BY <1>1, <1>2, AppendProperties DEF frame
<1>4. n \in Nat
  BY <1>2, LenProperties
<1>5. \A i \in Deltas' : i = n + 1 \/ (i \in Deltas /\ wire'[i] = wire[i])
  BY <1>3, <1>4 DEF Deltas
<1>6. \A i \in Deltas : i \in 1..n /\ wire[i].rev \in Nat
  <2>1. \A i \in 1..n : wire[i] \in Frames
    BY <1>2, ElementOfSeq
  <2>2. QED
    BY <2>1 DEF Deltas, Frames
<1>7. \A i \in Deltas' : wire'[i].rev <= rev + 1 /\ (wire'[i].rev = rev + 1 => wire'[i].text = t)
  BY <1>1, <1>2, <1>3, <1>5, <1>6
<1>8. DeltasChain'
  <2> SUFFICES ASSUME NEW i \in Deltas', NEW j \in Deltas', i < j
               PROVE  /\ wire'[i].rev < wire'[j].rev
                      /\ wire'[j].rev = wire'[i].rev + 1 => wire'[j].base = wire'[i].text
    BY DEF DeltasChain
  <2>1. i \in 1..(n + 1) /\ j \in 1..(n + 1)
    BY <1>3, <1>4 DEF Deltas
  <2>2. i \in Deltas /\ wire'[i] = wire[i]
    BY <2>1, <1>4, <1>5
  <2>3. CASE j = n + 1
    BY <2>2, <2>3, <1>1, <1>2, <1>3, <1>6
  <2>4. CASE j # n + 1
    BY <2>2, <2>4, <1>2, <1>5 DEF DeltasChain
  <2>5. QED
    BY <2>3, <2>4
<1>9. QED
  BY <1>3, <1>7, <1>8

\* A frame that is no delta leaves the chain as it is.
LEMMA PlainAppended ==
  ASSUME WireInv, wire' = Append(wire, NoDelta)
  PROVE  wire' \in Seq(Frames) /\ DeltasChain' /\ Deltas' = Deltas
         /\ \A i \in Deltas : wire'[i] = wire[i]
<1>1. NoDelta \in Frames /\ NoDelta.text = 0
  BY DEF NoDelta, Frame, Frames
<1>2. wire \in Seq(Frames) /\ DeltasChain
  BY DEF WireInv
<1>3. /\ wire' \in Seq(Frames) /\ Len(wire') = Len(wire) + 1 /\ wire'[Len(wire) + 1] = NoDelta
      /\ \A i \in 1..Len(wire) : wire'[i] = wire[i]
  BY <1>1, <1>2, AppendProperties
<1>4. Len(wire) \in Nat
  BY <1>2, LenProperties
<1>5. Deltas' = Deltas /\ \A i \in Deltas : wire'[i] = wire[i]
  BY <1>1, <1>3, <1>4 DEF Deltas
<1>6. DeltasChain'
  <2> SUFFICES ASSUME NEW i \in Deltas', NEW j \in Deltas', i < j
               PROVE  /\ wire'[i].rev < wire'[j].rev
                      /\ wire'[j].rev = wire'[i].rev + 1 => wire'[j].base = wire'[i].text
    BY DEF DeltasChain
  <2>1. i \in Deltas /\ j \in Deltas /\ wire'[i] = wire[i] /\ wire'[j] = wire[j]
    BY <1>5
  <2>2. QED
    BY <1>2, <2>1 DEF DeltasChain
<1>7. QED
  BY <1>3, <1>5, <1>6

-----------------------------------------------------------------------------
(* The rows.                                                               *)

\* A row added for the call op: the own row of a stream is its only one, and a
\* second plain send follows a lost answer.
LEMMA RowAppended ==
  ASSUME RowInv, CallInv, NEW row \in Rows, row.kind = op.kind,
         rows' = Append(rows, row), mishaps \subseteq mishaps'
  PROVE  /\ rows' \in Seq(Rows)
         /\ StoredOnce'
         /\ op.kind \notin {"final", "rescue"} => OwnRows' = OwnRows
         /\ SendRows' # {} => SendRows # {} \/ op.kind = "send"
         /\ \E i \in 1..Len(rows') : rows'[i].text = row.text
         /\ \A i \in 1..Len(rows) : i \in 1..Len(rows') /\ rows'[i] = rows[i]
<1> DEFINE n == Len(rows)
<1>1. rows \in Seq(Rows) /\ StoredOnce
  BY DEF RowInv
<1>2. /\ rows' \in Seq(Rows) /\ Len(rows') = n + 1 /\ rows'[n + 1] = row
      /\ \A i \in 1..n : rows'[i] = rows[i]
  BY <1>1, AppendProperties
<1>3. n \in Nat
  BY <1>1, LenProperties
<1>4. OwnRows' = OwnRows \cup (IF op.kind \in {"final", "rescue"} THEN {n + 1} ELSE {})
  BY <1>2, <1>3 DEF OwnRows
<1>5. SendRows' = SendRows \cup (IF op.kind = "send" THEN {n + 1} ELSE {})
  BY <1>2, <1>3 DEF SendRows
<1>6. \A i, j \in OwnRows' : i = j
  <2>1. op.kind \in {"final", "rescue"} => OwnRows = {}
    BY DEF RowInv
  <2>2. QED
    BY <1>1, <1>4, <2>1 DEF StoredOnce
<1>7. ASSUME NEW i \in 1..Len(rows'), NEW j \in 1..Len(rows'), i # j,
             rows'[i].kind = "send", rows'[j].kind = "send"
      PROVE  "unsure" \in mishaps'
  <2>1. i \in SendRows' /\ j \in SendRows'
    BY <1>7 DEF SendRows
  <2>2. CASE i \in SendRows /\ j \in SendRows
    BY <1>1, <1>7, <2>2 DEF SendRows, StoredOnce
  <2>3. CASE ~(i \in SendRows /\ j \in SendRows)
    <3>1. op.kind = "send" /\ SendRows # {}
      BY <1>5, <1>7, <2>1, <2>3
    <3>2. consumer = "fallback"
      BY <3>1 DEF CallInv
    <3>3. QED
      BY <3>1, <3>2 DEF RowInv
  <2>4. QED
    BY <2>2, <2>3
<1>8. StoredOnce'
  BY <1>6, <1>7 DEF StoredOnce
<1>9. QED
  BY <1>2, <1>3, <1>4, <1>5, <1>8

-----------------------------------------------------------------------------
(* The steps.                                                              *)

LEMMA InitInv == Init => IInv
<1> SUFFICES ASSUME Init PROVE IInv
  OBVIOUS
<1>1. Counters
  BY StreamAssumption DEF Init, Counters
<1>2. Flags
  BY DEF Init, Flags
<1>3. OpInv
  BY StreamAssumption DEF Init, OpInv, Ops, NoOp, Kinds
<1>4. StreamInv
  BY DEF Init, StreamInv
<1>5. CallInv
  BY DEF Init, CallInv, NoOp
<1>6. SeedInv
  BY DEF Init, SeedInv
<1>7. Deltas = {} /\ OwnRows = {} /\ SendRows = {}
  BY DEF Init, Deltas, OwnRows, SendRows
<1>8. WireInv
  <2>1. wire \in Seq(Frames)
    BY DEF Init
  <2>2. QED
    BY <1>7, <2>1 DEF WireInv, DeltasChain
<1>9. RowInv
  <2>1. rows \in Seq(Rows) /\ 1..Len(rows) = {}
    BY DEF Init
  <2>2. QED
    BY <1>7, <2>1 DEF RowInv, StoredOnce
<1>10. NothingStreamedIsLost
  BY DEF Init, NothingStreamedIsLost
<1>11. QED
  BY <1>1, <1>2, <1>3, <1>4, <1>5, <1>6, <1>8, <1>9, <1>10 DEF IInv

\* The preview is on its way, or has failed at once.
LEMMA SeedStep == IInv /\ Seed => IInv'
<1> SUFFICES ASSUME IInv, Seed PROVE IInv'
  OBVIOUS
<1> USE DEF IInv
<1>1. /\ op = NoOp /\ wire = <<>> /\ rows = <<>> /\ ~pending /\ believed = 0 /\ produced' = 1
      /\ UNCHANGED <<ws, losses, stream, trailing, revisions, sends, rows, believed, mishaps>>
  BY DEF Seed, SeedInv
<1>2. \/ /\ consumer' = "seed" /\ wire' = <<Frame(0, 0, 1)>> /\ op'.stage = "live"
         /\ op'.kind = "seed" /\ op'.text = 1 /\ op' \in Ops /\ op' # NoOp
      \/ consumer' = "fallback" /\ op' = NoOp /\ wire' = <<>>
  <2>1. CASE ws = "up"
    <3>1. /\ op' = [kind |-> "seed", text |-> 1, rev |-> 0, final |-> FALSE, live |-> FALSE, stage |-> "live"]
          /\ wire' = Append(<<>>, Frame(0, 0, 1)) /\ consumer' = "seed"
      BY <1>1, <2>1 DEF Seed, Deliver
    <3>2. op' \in Ops /\ op' # NoOp
      <4>1. 1 \in 0..MaxText
        BY StreamAssumption
      <4>2. op'.kind = "seed" /\ NoOp.kind = "none"
        BY <3>1 DEF NoOp
      <4>3. QED
        BY <3>1, <4>1, <4>2 DEF Ops, Kinds
    <3>3. Append(<<>>, Frame(0, 0, 1)) = <<Frame(0, 0, 1)>>
      OBVIOUS
    <3>4. QED
      BY <3>1, <3>2, <3>3
  <2>2. CASE ws # "up"
    BY <1>1, <2>2 DEF Seed
  <2>3. QED
    BY <2>1, <2>2
<1>3. Counters'
  BY <1>1, StreamAssumption DEF stream, Counters
<1>4. Flags'
  BY <1>1, <1>2 DEF stream, Flags
<1>5. OpInv' /\ CallInv' /\ StreamInv' /\ SeedInv'
  <2>1. CASE op' = NoOp
    BY <1>1, <1>2, <2>1 DEF stream, OpInv, CallInv, StreamInv, SeedInv, NoOp
  <2>2. CASE op' # NoOp
    <3>1. op'.kind = "seed" /\ op'.stage = "live" /\ op'.text = 1 /\ op' \in Ops /\ consumer' = "seed"
          /\ wire' = <<Frame(0, 0, 1)>>
      BY <1>2, <2>2
    <3>2. OpInv' /\ CallInv'
      BY <1>1, <2>2, <3>1 DEF OpInv, CallInv
    <3>3. StreamInv' /\ SeedInv'
      BY <1>1, <2>2, <3>1 DEF stream, StreamInv, SeedInv
    <3>4. QED
      BY <3>2, <3>3
  <2>3. QED
    BY <2>1, <2>2
<1>6. WireInv'
  <2>1. wire' \in Seq(Frames) /\ Len(wire') <= 1
    <3>1. Frame(0, 0, 1) \in Frames
      BY DEF Frame, Frames
    <3>2. CASE wire' = <<Frame(0, 0, 1)>>
      BY <3>1, <3>2
    <3>3. CASE wire' = <<>>
      BY <3>3
    <3>4. QED
      BY <1>2, <3>2, <3>3
  <2>2. DeltasChain'
    BY <2>1 DEF Deltas, DeltasChain
  <2>3. QED
    BY <1>1, <2>1, <2>2 DEF stream, WireInv
<1>7. RowInv'
  <2>1. OwnRows' = {} /\ SendRows' = {} /\ 1..Len(rows') = {} /\ rows' \in Seq(Rows)
    BY <1>1 DEF OwnRows, SendRows
  <2>2. QED
    BY <2>1 DEF RowInv, StoredOnce
<1>8. NothingStreamedIsLost'
  BY <1>1 DEF NothingStreamedIsLost
<1>9. QED
  BY <1>3, <1>4, <1>5, <1>6, <1>7, <1>8

\* The preview opens the stream, and the chain; or there is no stream.
LEMMA SeededStep == IInv /\ Seeded => IInv'
<1> SUFFICES ASSUME IInv, Seeded PROVE IInv'
  OBVIOUS
<1> USE DEF IInv
<1>1. /\ consumer = "seed" /\ op # NoOp /\ produced = op.text /\ wire = <<Frame(0, 0, 1)>>
      /\ rows = <<>> /\ ~pending /\ believed = 0
  BY DEF Seeded, CallInv, SeedInv, NoOp
<1>2. /\ op' = NoOp
      /\ UNCHANGED <<ws, losses, trailing, produced, revisions, sends, wire, rows, mishaps>>
  BY DEF Seeded
<1>3. CASE /\ consumer' = "streaming" /\ believed' = 1
           /\ pending' = TRUE /\ rev' = 0 /\ text' = 1 /\ recent' = TRUE
           /\ UNCHANGED <<immediate, stash, sleeping>>
  <2>1. Counters'
    <3>1. produced' = 1
      BY <1>1, <1>2 DEF Seeded, CallInv
    <3>2. QED
      BY <1>2, <1>3, <3>1, StreamAssumption DEF Counters
  <2>2. Flags' /\ StreamInv' /\ SeedInv'
    BY <1>2, <1>3 DEF Flags, StreamInv, SeedInv
  <2>3. OpInv' /\ CallInv'
    BY <1>2, StreamAssumption DEF OpInv, Ops, Kinds, CallInv, NoOp
  <2>4. WireInv'
    <3>1. wire' \in Seq(Frames) /\ Len(wire') = 1 /\ wire'[1] = Frame(0, 0, 1)
      BY <1>1, <1>2 DEF Frame, Frames
    <3>2. \A i \in Deltas' : i = 1
      BY <3>1 DEF Deltas
    <3>3. DeltasChain'
      BY <3>2 DEF DeltasChain
    <3>4. QED
      BY <1>3, <3>1, <3>2, <3>3 DEF WireInv, Frame
  <2>5. RowInv'
    <3>1. OwnRows' = {} /\ SendRows' = {} /\ 1..Len(rows') = {} /\ rows' \in Seq(Rows)
      BY <1>1, <1>2 DEF OwnRows, SendRows
    <3>2. QED
      BY <3>1 DEF RowInv, StoredOnce
  <2>6. NothingStreamedIsLost'
    BY <1>3 DEF NothingStreamedIsLost
  <2>7. QED
    BY <2>1, <2>2, <2>3, <2>4, <2>5, <2>6
<1>4. CASE consumer' = "fallback" /\ UNCHANGED <<believed, stream>>
  <2>1. Counters' /\ Flags' /\ StreamInv' /\ SeedInv'
    BY <1>1, <1>2, <1>4 DEF stream, Counters, Flags, StreamInv, SeedInv
  <2>2. OpInv' /\ CallInv'
    BY <1>2, StreamAssumption DEF OpInv, Ops, Kinds, CallInv, NoOp
  <2>3. WireInv'
    BY <1>1, <1>2, <1>4, WireKept DEF stream
  <2>4. RowInv'
    <3>1. OwnRows' = {} /\ SendRows' = {} /\ 1..Len(rows') = {} /\ rows' \in Seq(Rows)
      BY <1>1, <1>2 DEF OwnRows, SendRows
    <3>2. QED
      BY <3>1 DEF RowInv, StoredOnce
  <2>5. NothingStreamedIsLost'
    BY <1>1, <1>4 DEF NothingStreamedIsLost
  <2>6. QED
    BY <2>1, <2>2, <2>3, <2>4, <2>5
<1>5. QED
  BY <1>3, <1>4 DEF Seeded

\* An edit that is stashed touches neither the wire nor the store.
LEMMA StashEditStep == IInv /\ StashEdit => IInv'
<1> SUFFICES ASSUME IInv, StashEdit PROVE IInv'
  OBVIOUS
<1> USE DEF IInv
<1>1. op = NoOp /\ UNCHANGED op
  BY DEF StashEdit, Calls
<1>2. /\ UNCHANGED <<losses, rev, text, trailing, revisions, sends>>
      /\ produced' = produced + 1 /\ believed' = produced' /\ stash' = produced'
      /\ produced < MaxText
  BY DEF StashEdit, Calls, NextText
<1>3. Counters' /\ stash' # 0
  BY <1>2, StreamAssumption DEF Counters
<1>4. Flags'
  BY DEF StashEdit, Flags
<1>5. OpInv' /\ CallInv'
  BY <1>1 DEF OpInv, CallInv, NoOp
<1>6. StreamInv' /\ SeedInv'
  BY <1>3 DEF StashEdit, Calls, StreamInv, SeedInv
<1>7. WireInv'
  BY WireKept DEF StashEdit
<1>8. RowInv'
  BY RowsKept DEF StashEdit
<1>9. NothingStreamedIsLost'
  BY DEF StashEdit, Calls, NothingStreamedIsLost
<1>10. QED
  BY <1>3, <1>4, <1>5, <1>6, <1>7, <1>8, <1>9

\* An edit that is sent reserves the next revision before its frame leaves.
LEMMA SendEditStep == IInv /\ SendEdit => IInv'
<1> SUFFICES ASSUME IInv, SendEdit PROVE IInv'
  OBVIOUS
<1> USE DEF IInv
<1>1. op = NoOp
  BY DEF SendEdit, Calls
<1>2. /\ UNCHANGED <<losses, trailing, revisions, sends, believed>>
      /\ produced' = produced + 1 /\ rev' = rev + 1 /\ text' = produced' /\ stash' = 0
      /\ produced < MaxText
  BY DEF SendEdit, Calls, NextText, Reserve
<1>3. Counters'
  BY <1>2, StreamAssumption DEF Counters
<1>4. Flags'
  BY DEF SendEdit, Flags, Reserve
<1>5. op' = [kind |-> "edit", text |-> produced', rev |-> rev + 1, final |-> FALSE,
             live |-> FALSE, stage |-> "live"]
      /\ wire' = Append(wire, Frame(rev + 1, text, produced'))
  BY DEF SendEdit, Deliver
<1>6. OpInv'
  BY <1>2, <1>3, <1>5 DEF OpInv, Ops, Kinds, Counters
<1>7. CallInv'
  BY <1>5 DEF SendEdit, Calls, CallInv
<1>8. StreamInv' /\ SeedInv'
  BY DEF SendEdit, Calls, StreamInv, SeedInv
<1>9. WireInv'
  <2>1. rev \in Nat /\ text \in Nat /\ produced' \in Nat
    BY <1>2, StreamAssumption DEF Counters
  <2>2. pending /\ op.kind # "final"
    BY <1>1 DEF SendEdit, NoOp
  <2>3. /\ wire' \in Seq(Frames) /\ DeltasChain'
        /\ \A i \in Deltas' : wire'[i].rev <= rev + 1
                              /\ (wire'[i].rev = rev + 1 => wire'[i].text = produced')
    BY <1>5, <2>1, <2>2, DeltaAppended
  <2>4. QED
    BY <1>2, <2>3 DEF WireInv
<1>10. RowInv'
  BY RowsKept DEF SendEdit
<1>11. NothingStreamedIsLost'
  BY LostKept DEF SendEdit
<1>12. QED
  BY <1>3, <1>4, <1>6, <1>7, <1>8, <1>9, <1>10, <1>11

\* A failed edit hands what it carried to the store and forgets the stream.
LEMMA RescueStep ==
  ASSUME IInv, pending, op.kind # "final", consumer = "streaming",
         NEW r \in Nat, Rescue(produced', r), produced' \in produced..MaxText,
         UNCHANGED <<ws, losses, trailing, revisions, sends, seenByUser>>
  PROVE  IInv'
<1> USE DEF IInv
<1>1. /\ op' = [kind |-> "rescue", text |-> produced', rev |-> r, final |-> TRUE,
                live |-> FALSE, stage |-> "store"]
      /\ ClearStream
      /\ UNCHANGED consumer
  BY DEF Rescue
<1>2. /\ UNCHANGED <<losses, trailing, revisions, sends, believed>>
      /\ rev' = 0 /\ text' = 0 /\ stash' = 0
  BY <1>1 DEF ClearStream, seenByUser
<1>3. Counters'
  BY <1>2, StreamAssumption DEF Counters
<1>4. Flags'
  BY <1>1 DEF Flags, ClearStream, seenByUser
<1>5. OpInv'
  <2>1. produced' \in 0..MaxText
    BY <1>3 DEF Counters
  <2>2. QED
    BY <1>1, <2>1 DEF OpInv, Ops, Kinds
<1>6. CallInv' /\ StreamInv' /\ SeedInv'
  BY <1>1 DEF ClearStream, CallInv, StreamInv, SeedInv
<1>7. WireInv'
  BY <1>1, WireKept DEF ClearStream, seenByUser
<1>8. RowInv'
  BY <1>1, RowsKept DEF seenByUser
<1>9. NothingStreamedIsLost'
  BY <1>1, LostKept DEF seenByUser
<1>10. QED
  BY <1>3, <1>4, <1>5, <1>6, <1>7, <1>8, <1>9

LEMMA EditFailsAtOnceStep == IInv /\ EditFailsAtOnce => IInv'
<1> SUFFICES ASSUME IInv, EditFailsAtOnce PROVE IInv'
  OBVIOUS
<1>1. produced' \in produced..MaxText
  BY StreamAssumption DEF EditFailsAtOnce, Calls, NextText, IInv, Counters
<1>2. op.kind # "final" /\ consumer = "streaming"
  BY DEF EditFailsAtOnce, Calls, NoOp
<1>3. rev + 1 \in Nat
  BY DEF IInv, Counters
<1>4. QED
  BY <1>1, <1>2, <1>3, RescueStep DEF EditFailsAtOnce

LEMMA EditFailsStep == IInv /\ EditFails => IInv'
<1> SUFFICES ASSUME IInv, EditFails PROVE IInv'
  OBVIOUS
<1>1. pending /\ op.kind # "final" /\ consumer = "streaming" /\ op.text = produced
  BY DEF EditFails, IInv, CallInv, NoOp
<1>2. produced' = produced /\ produced' \in produced..MaxText
  BY StreamAssumption DEF EditFails, IInv, Counters
<1>3. op.rev \in Nat /\ Rescue(produced', op.rev)
  BY <1>1, <1>2 DEF EditFails, IInv, OpInv, Ops
<1>4. QED
  BY <1>1, <1>2, <1>3, RescueStep DEF EditFails

\* The last frame of the stream leaves nothing to flush.
LEMMA FinalizeStep == IInv /\ Finalize => IInv'
<1> SUFFICES ASSUME IInv, Finalize PROVE IInv'
  OBVIOUS
<1> USE DEF IInv
<1>1. /\ UNCHANGED <<losses, rev, text, trailing, produced, revisions, sends, believed>>
      /\ stash' = 0
  BY DEF Finalize
<1>2. Counters'
  BY <1>1, StreamAssumption DEF Counters
<1>3. Flags'
  BY DEF Finalize, Flags
<1>4. /\ op' = [kind |-> "final", text |-> produced, rev |-> rev + 1, final |-> TRUE,
                live |-> FALSE, stage |-> IF ws = "up" THEN "live" ELSE "store"]
      /\ wire' = IF ws = "up" THEN Append(wire, Frame(rev + 1, text, produced)) ELSE wire
  BY DEF Finalize, Deliver
<1>5. OpInv'
  <2>1. produced \in 0..MaxText /\ rev + 1 \in Nat
    BY DEF Counters
  <2>2. QED
    BY <1>4, <2>1 DEF OpInv, Ops, Kinds
<1>6. CallInv' /\ StreamInv' /\ SeedInv'
  BY <1>4 DEF Finalize, CallInv, StreamInv, SeedInv
<1>7. WireInv'
  <2>1. CASE ws = "up"
    <3>1. rev \in Nat /\ text \in Nat /\ produced \in Nat
      BY StreamAssumption DEF Counters
    <3>2. pending /\ op.kind # "final"
      BY DEF Finalize, NoOp
    <3>3. wire' \in Seq(Frames) /\ DeltasChain'
      BY <1>4, <2>1, <3>1, <3>2, DeltaAppended
    <3>4. QED
      BY <1>4, <3>3 DEF WireInv
  <2>2. CASE ws # "up"
    BY <1>4, <2>2, WireKept
  <2>3. QED
    BY <2>1, <2>2
<1>8. RowInv'
  BY RowsKept DEF Finalize
<1>9. NothingStreamedIsLost'
  BY LostKept DEF Finalize
<1>10. QED
  BY <1>2, <1>3, <1>5, <1>6, <1>7, <1>8, <1>9

\* What a delivery without a delta leaves of the wire.
LEMMA PlainWire ==
  ASSUME WireInv, wire' = (IF ws = "up" THEN Append(wire, NoDelta) ELSE wire),
         op.kind # "final", op'.kind # "final", UNCHANGED <<pending, rev, text>>
  PROVE  WireInv'
<1>1. CASE ws = "up"
  <2>1. wire' \in Seq(Frames) /\ DeltasChain' /\ Deltas' = Deltas
        /\ \A i \in Deltas : wire'[i] = wire[i]
    BY <1>1, PlainAppended
  <2>2. pending' => \A i \in Deltas' : wire'[i].rev <= rev' /\ (wire'[i].rev = rev' => wire'[i].text = text')
    BY <2>1 DEF WireInv
  <2>3. QED
    BY <2>1, <2>2 DEF WireInv
<1>2. CASE ws # "up"
  BY <1>2, WireKept
<1>3. QED
  BY <1>1, <1>2

\* A durable revision of a message whose stream is over.
LEMMA ReviseStep == IInv /\ Revise => IInv'
<1> SUFFICES ASSUME IInv, Revise PROVE IInv'
  OBVIOUS
<1> USE DEF IInv
<1>1. PICK final \in BOOLEAN :
        /\ IF final THEN produced' = produced ELSE Calls /\ NextText
        /\ Deliver("revise", produced', 0, final, NoDelta)
  BY DEF Revise
<1>2. /\ UNCHANGED <<losses, rev, text, trailing, stash, sends, believed>>
      /\ revisions' = revisions + 1
  BY DEF Revise, stream
<1>3. produced' \in produced..MaxText
  <2>1. produced' = produced \/ (produced < MaxText /\ produced' = produced + 1)
    BY <1>1 DEF Calls, NextText
  <2>2. QED
    BY <2>1, StreamAssumption DEF Counters
<1>4. Counters'
  BY <1>2, <1>3, StreamAssumption DEF Counters
<1>5. Flags'
  BY DEF Revise, stream, Flags
<1>6. /\ op' = [kind |-> "revise", text |-> produced', rev |-> 0, final |-> final,
                live |-> FALSE, stage |-> IF ws = "up" THEN "live" ELSE "store"]
      /\ wire' = IF ws = "up" THEN Append(wire, NoDelta) ELSE wire
  BY <1>1 DEF Deliver
<1>7. OpInv'
  <2>1. produced' \in 0..MaxText
    BY <1>4 DEF Counters
  <2>2. QED
    BY <1>6, <2>1 DEF OpInv, Ops, Kinds
<1>8. CallInv' /\ StreamInv' /\ SeedInv'
  BY <1>6 DEF Revise, stream, CallInv, StreamInv, SeedInv
<1>9. WireInv'
  <2>1. op.kind # "final" /\ op'.kind # "final" /\ UNCHANGED <<pending, rev, text>>
    BY <1>6 DEF Revise, stream, NoOp
  <2>2. QED
    BY <1>6, <2>1, PlainWire
<1>10. RowInv'
  BY <1>6, RowsKept DEF Revise, stream
<1>11. NothingStreamedIsLost'
  BY LostKept DEF Revise
<1>12. QED
  BY <1>4, <1>5, <1>7, <1>8, <1>9, <1>10, <1>11

\* The fallback's plain send.
LEMMA SendStep == IInv /\ Send => IInv'
<1> SUFFICES ASSUME IInv, Send PROVE IInv'
  OBVIOUS
<1> USE DEF IInv
<1>1. /\ UNCHANGED <<losses, rev, text, trailing, stash, produced, revisions, believed>>
      /\ sends < MaxSends /\ sends' = sends + 1
  BY DEF Send, stream
<1>2. Counters'
  BY <1>1, StreamAssumption DEF Counters
<1>3. Flags'
  BY DEF Send, stream, Flags
<1>4. /\ op' = [kind |-> "send", text |-> produced, rev |-> 0, final |-> TRUE,
                live |-> FALSE, stage |-> IF ws = "up" THEN "live" ELSE "store"]
      /\ wire' = IF ws = "up" THEN Append(wire, NoDelta) ELSE wire
  BY DEF Send, Deliver
<1>5. OpInv'
  <2>1. produced \in 0..MaxText
    BY DEF Counters
  <2>2. QED
    BY <1>4, <2>1 DEF OpInv, Ops, Kinds
<1>6. CallInv' /\ StreamInv' /\ SeedInv'
  BY <1>4 DEF Send, stream, CallInv, StreamInv, SeedInv
<1>7. WireInv'
  <2>1. op.kind # "final" /\ op'.kind # "final" /\ UNCHANGED <<pending, rev, text>>
    BY <1>4 DEF Send, stream, NoOp
  <2>2. QED
    BY <1>4, <2>1, PlainWire
<1>8. RowInv'
  BY <1>4, RowsKept DEF Send, stream
<1>9. NothingStreamedIsLost'
  BY LostKept DEF Send
<1>10. QED
  BY <1>2, <1>3, <1>5, <1>6, <1>7, <1>8, <1>9

\* The socket's answer to a durable payload: the call goes on to the store.
LEMMA LiveThenStoreStep == IInv /\ LiveThenStore => IInv'
<1> SUFFICES ASSUME IInv, LiveThenStore PROVE IInv'
  OBVIOUS
<1> USE DEF IInv
<1>1. PICK ok \in BOOLEAN : op' = [op EXCEPT !.stage = "store", !.live = ok]
  BY DEF LiveThenStore
<1>2. OpInv' /\ op'.kind = op.kind /\ op'.text = op.text /\ op'.final = op.final /\ op'.stage = "store"
  BY <1>1 DEF OpInv, Ops
<1>3. Counters'
  BY DEF LiveThenStore, stream, seenByUser, Counters
<1>4. Flags' /\ StreamInv' /\ SeedInv'
  <2>1. consumer # "seed"
    BY DEF LiveThenStore, CallInv, OpInv, Ops, Kinds
  <2>2. QED
    BY <2>1 DEF LiveThenStore, stream, seenByUser, Flags, StreamInv, SeedInv
<1>5. CallInv'
  BY <1>2 DEF LiveThenStore, stream, CallInv
<1>6. WireInv'
  BY <1>2, WireKept DEF LiveThenStore, stream, seenByUser
<1>7. RowInv'
  BY <1>2, RowsKept DEF LiveThenStore, stream, seenByUser
<1>8. NothingStreamedIsLost'
  BY LostKept DEF LiveThenStore, seenByUser
<1>9. QED
  BY <1>2, <1>3, <1>4, <1>5, <1>6, <1>7, <1>8

\* An edit that was sent: the consumer believes all its text was seen.
LEMMA EditSentStep == IInv /\ EditSent => IInv'
<1> SUFFICES ASSUME IInv, EditSent PROVE IInv'
  OBVIOUS
<1> USE DEF IInv
<1>1. op.text = produced /\ pending /\ consumer = "streaming" /\ op'.kind = "none"
  BY DEF EditSent, CallInv, NoOp
<1>2. Counters'
  <2>1. /\ UNCHANGED <<losses, rev, text, trailing, stash, produced, revisions, sends>>
        /\ believed' = produced
    BY <1>1 DEF EditSent, stream
  <2>2. QED
    BY <2>1, StreamAssumption DEF Counters
<1>3. Flags' /\ StreamInv'
  BY DEF EditSent, stream, Flags, StreamInv
<1>4. SeedInv'
  BY <1>1 DEF EditSent, SeedInv
<1>5. OpInv' /\ CallInv'
  BY StreamAssumption DEF EditSent, OpInv, Ops, Kinds, CallInv, NoOp
<1>6. WireInv'
  BY <1>1, WireKept DEF EditSent, stream
<1>7. RowInv'
  BY <1>1, RowsKept DEF EditSent, stream
<1>8. NothingStreamedIsLost'
  BY <1>1 DEF EditSent, NothingStreamedIsLost
<1>9. QED
  BY <1>2, <1>3, <1>4, <1>5, <1>6, <1>7, <1>8

\* The end of a call: what it carried is in the store, or the store failed.
LEMMA StoredStep == IInv /\ Stored => IInv'
<1> SUFFICES ASSUME IInv, Stored PROVE IInv'
  OBVIOUS
<1> USE DEF IInv
<1> DEFINE row == [kind |-> op.kind, text |-> op.text, final |-> op.final]
<1>1. PICK outcome \in {"ok", "unstored", "unsure"} :
        LET success == op.kind # "rescue" /\ Delivered(op.live, outcome = "ok") IN
        /\ rows' = IF outcome = "unstored" THEN rows ELSE Append(rows, row)
        /\ mishaps' = IF outcome = "ok" THEN mishaps ELSE mishaps \cup {outcome}
        /\ consumer' \in CASE ~success -> IF op.kind = "send" THEN {"fallback"} ELSE AfterFailure
                           [] success /\ op.final -> {"finished"}
                           [] OTHER -> {"streaming"}
        /\ believed' = IF success /\ op.kind = "revise" THEN op.text ELSE believed
  BY DEF Stored
<1> DEFINE success == op.kind # "rescue" /\ Delivered(op.live, outcome = "ok")
<1>2. op.kind \in {"final", "rescue", "revise", "send"} /\ op.text = produced
  BY DEF Stored, CallInv, OpInv, Ops, Kinds, NoOp
<1>3. row \in Rows /\ row.kind = op.kind /\ row.text = op.text
  BY DEF OpInv, Ops, Rows
<1>4. /\ consumer' \in {"fallback", "finished", "streaming"}
      /\ op.kind = "send" => IF success THEN consumer' = "finished" ELSE consumer' = "fallback"
  <2>1. CASE ~success
    BY <1>1, <2>1 DEF AfterFailure
  <2>2. CASE success /\ op.final
    BY <1>1, <2>2
  <2>3. CASE success /\ ~op.final
    BY <1>1, <2>3 DEF CallInv
  <2>4. QED
    BY <2>1, <2>2, <2>3
<1>5. IF op.kind = "final" THEN ClearStream ELSE UNCHANGED stream
  BY DEF Stored
<1>6. ~pending'
  BY <1>2, <1>5 DEF ClearStream, stream, CallInv, StreamInv
<1>7. Counters'
  <2>1. UNCHANGED <<losses, trailing, produced, revisions, sends>>
    BY DEF Stored
  <2>2. rev' \in {0, rev} /\ text' \in {0, text} /\ stash' \in {0, stash}
    BY <1>5 DEF ClearStream, stream
  <2>3. believed' \in {believed, produced}
    BY <1>1, <1>2
  <2>4. QED
    BY <2>1, <2>2, <2>3, StreamAssumption DEF Counters
<1>8. Flags'
  BY <1>1, <1>4, <1>5 DEF Stored, ClearStream, stream, Flags
<1>9. OpInv' /\ CallInv' /\ op'.kind = "none"
  BY StreamAssumption DEF Stored, OpInv, Ops, Kinds, CallInv, NoOp
<1>10. StreamInv'
  BY <1>5, <1>6 DEF ClearStream, stream, StreamInv
<1>11. SeedInv'
  BY <1>4 DEF SeedInv
<1>12. WireInv'
  BY <1>6, WireKept DEF Stored
<1>13. outcome # "unstored" => rows' = Append(rows, row) /\ mishaps \subseteq mishaps'
  BY <1>1
<1>14. RowInv'
  <2>1. CASE outcome = "unstored"
    <3>1. UNCHANGED rows /\ ("unsure" \in mishaps <=> "unsure" \in mishaps')
      BY <1>1, <2>1
    <3>2. OwnRows' = OwnRows /\ SendRows' = SendRows
      BY <3>1 DEF OwnRows, SendRows
    <3>3. consumer # "finished"
      BY <1>2 DEF CallInv
    <3>4. QED
      BY <1>6, <1>9, <3>1, <3>2, <3>3 DEF RowInv, StoredOnce
  <2>2. CASE outcome # "unstored"
    <3>1. /\ rows' \in Seq(Rows) /\ StoredOnce'
          /\ SendRows' # {} => SendRows # {} \/ op.kind = "send"
      BY <1>3, <1>13, <2>2, RowAppended
    <3>2. consumer # "finished"
      BY <1>2 DEF CallInv
    <3>3. op.kind = "send" => "unsure" \in mishaps' \/ consumer' = "finished"
      BY <1>1, <1>4, <2>2 DEF Delivered
    <3>4. SendRows' # {} => "unsure" \in mishaps' \/ consumer' = "finished"
      BY <1>13, <2>2, <3>1, <3>2, <3>3 DEF RowInv
    <3>5. QED
      BY <1>6, <1>9, <3>1, <3>4 DEF RowInv
  <2>3. QED
    BY <2>1, <2>2
<1>15. NothingStreamedIsLost'
  <2>1. CASE outcome = "unstored"
    BY <1>1, <2>1 DEF NothingStreamedIsLost
  <2>2. CASE outcome # "unstored"
    <3>1. PICK i \in 1..Len(rows') : rows'[i].text = op.text
      BY <1>3, <1>13, <2>2, RowAppended
    <3>2. believed' \in {believed, produced} /\ believed \in Nat /\ produced \in Nat
          /\ believed <= produced
      BY <1>1, <1>2, StreamAssumption DEF Counters
    <3>3. rows'[i].text >= believed'
      BY <1>2, <3>1, <3>2
    <3>4. QED
      BY <3>3 DEF NothingStreamedIsLost
  <2>3. QED
    BY <2>1, <2>2
<1>16. QED
  BY <1>7, <1>8, <1>9, <1>10, <1>11, <1>12, <1>14, <1>15

LEMMA IntervalPassesStep == IInv /\ IntervalPasses => IInv'
<1> SUFFICES ASSUME IInv, IntervalPasses PROVE IInv'
  OBVIOUS
<1> USE DEF IInv
<1>1. Counters' /\ OpInv' /\ StreamInv' /\ CallInv' /\ SeedInv'
  BY DEF IntervalPasses, seenByUser, Counters, OpInv, StreamInv, CallInv, SeedInv, NoOp
<1>2. Flags'
  BY DEF IntervalPasses, seenByUser, Flags
<1>3. WireInv' /\ RowInv' /\ NothingStreamedIsLost'
  BY WireKept, RowsKept, LostKept DEF IntervalPasses, seenByUser
<1>4. QED
  BY <1>1, <1>2, <1>3

\* A flush reserves its revision as an edit does, also while an edit is on its
\* way, but never after the last frame.
LEMMA FlushWakesStep == IInv /\ FlushWakes => IInv'
<1> SUFFICES ASSUME IInv, FlushWakes PROVE IInv'
  OBVIOUS
<1> USE DEF IInv
<1>1. pending /\ op.kind # "final"
  BY DEF FlushWakes, StreamInv, CallInv
<1>2. /\ UNCHANGED <<losses, produced, revisions, sends, believed>>
      /\ rev' = rev + 1 /\ text' = stash /\ stash' = 0
      /\ trailing' \subseteq trailing \cup {rev + 1}
  BY DEF FlushWakes, Reserve
<1>3. Counters'
  BY <1>2, StreamAssumption DEF Counters
<1>4. Flags'
  BY DEF FlushWakes, Reserve, Flags
<1>5. OpInv' /\ CallInv'
  BY <1>1 DEF FlushWakes, OpInv, CallInv, NoOp
<1>6. StreamInv' /\ SeedInv'
  BY <1>1 DEF FlushWakes, StreamInv, SeedInv
<1>7. WireInv'
  <2>1. rev \in Nat /\ text \in Nat /\ stash \in Nat
    BY StreamAssumption DEF Counters
  <2>2. CASE ws = "up"
    <3>1. wire' = Append(wire, Frame(rev + 1, text, stash))
      BY <2>2 DEF FlushWakes
    <3>2. /\ wire' \in Seq(Frames) /\ DeltasChain'
          /\ \A i \in Deltas' : wire'[i].rev <= rev + 1
                                /\ (wire'[i].rev = rev + 1 => wire'[i].text = stash)
      BY <1>1, <2>1, <3>1, DeltaAppended
    <3>3. QED
      BY <1>2, <3>2 DEF WireInv
  <2>3. CASE ws # "up"
    <3>1. UNCHANGED wire
      BY <2>3 DEF FlushWakes
    <3>2. Deltas' = Deltas
      BY <3>1 DEF Deltas
    <3>3. \A i \in Deltas : wire[i].rev \in Nat /\ wire[i].rev <= rev
      <4>1. \A i \in 1..Len(wire) : wire[i] \in Frames
        BY ElementOfSeq DEF WireInv
      <4>2. QED
        BY <1>1, <4>1 DEF WireInv, Deltas, Frames
    <3>4. \A i \in Deltas' : wire'[i].rev <= rev' /\ (wire'[i].rev = rev' => wire'[i].text = text')
      BY <1>2, <2>1, <3>1, <3>2, <3>3
    <3>5. DeltasChain'
      BY <3>1, <3>2 DEF WireInv, DeltasChain
    <3>6. QED
      BY <3>1, <3>4, <3>5 DEF WireInv
  <2>4. QED
    BY <2>2, <2>3
<1>8. RowInv' /\ NothingStreamedIsLost'
  BY RowsKept, LostKept DEF FlushWakes
<1>9. QED
  BY <1>3, <1>4, <1>5, <1>6, <1>7, <1>8

LEMMA FlushReturnsStep == IInv /\ FlushReturns => IInv'
<1> SUFFICES ASSUME IInv, FlushReturns PROVE IInv'
  OBVIOUS
<1> USE DEF IInv
<1>1. PICK ok \in BOOLEAN : immediate' = (immediate \/ (pending /\ ~ok))
  BY DEF FlushReturns
<1>2. trailing' \subseteq trailing
  BY DEF FlushReturns
<1>3. Counters'
  <2>1. UNCHANGED <<losses, rev, text, stash, produced, revisions, sends, believed>>
    BY DEF FlushReturns, seenByUser
  <2>2. QED
    BY <1>2, <2>1 DEF Counters
<1>4. Flags' /\ StreamInv'
  BY <1>1 DEF FlushReturns, seenByUser, Flags, StreamInv
<1>5. OpInv' /\ CallInv' /\ SeedInv'
  BY DEF FlushReturns, seenByUser, OpInv, CallInv, SeedInv, NoOp
<1>6. WireInv' /\ RowInv' /\ NothingStreamedIsLost'
  BY WireKept, RowsKept, LostKept DEF FlushReturns, seenByUser
<1>7. QED
  BY <1>3, <1>4, <1>5, <1>6

LEMMA SocketLostStep == IInv /\ SocketLost => IInv'
<1> SUFFICES ASSUME IInv, SocketLost PROVE IInv'
  OBVIOUS
<1> USE DEF IInv
<1>1. Counters'
  BY StreamAssumption DEF SocketLost, stream, seenByUser, Counters
<1>2. Flags'
  BY DEF SocketLost, stream, seenByUser, Flags
<1>3. OpInv' /\ StreamInv' /\ CallInv' /\ SeedInv'
  BY DEF SocketLost, stream, seenByUser, OpInv, StreamInv, CallInv, SeedInv, NoOp
<1>4. WireInv' /\ RowInv' /\ NothingStreamedIsLost'
  BY WireKept, RowsKept, LostKept DEF SocketLost, stream, seenByUser
<1>5. QED
  BY <1>1, <1>2, <1>3, <1>4

\* The supervisor waits for the calls on the lost socket, so that no edit is
\* left without its stream.
LEMMA SupervisorForgetsStep == IInv /\ SupervisorForgets => IInv'
<1> SUFFICES ASSUME IInv, SupervisorForgets PROVE IInv'
  OBVIOUS
<1> USE DEF IInv
<1>1. Counters'
  BY StreamAssumption DEF SupervisorForgets, ClearStream, seenByUser, Counters
<1>2. Flags'
  BY DEF SupervisorForgets, ClearStream, seenByUser, Flags
<1>3. OpInv' /\ StreamInv' /\ CallInv' /\ SeedInv'
  BY DEF SupervisorForgets, ClearStream, seenByUser, OpInv, StreamInv, CallInv, SeedInv, NoOp
<1>4. WireInv' /\ RowInv' /\ NothingStreamedIsLost'
  BY WireKept, RowsKept, LostKept DEF SupervisorForgets, ClearStream, seenByUser
<1>5. QED
  BY <1>1, <1>2, <1>3, <1>4

LEMMA ReconnectStep == IInv /\ (Reconnect \/ UNCHANGED vars) => IInv'
<1> SUFFICES ASSUME IInv, Reconnect \/ UNCHANGED vars PROVE IInv'
  OBVIOUS
<1> USE DEF IInv
<1>1. UNCHANGED <<losses, stream, trailing, op, consumer, produced, revisions, sends, seenByUser>>
      /\ ws' \in {ws, "up"}
  BY DEF Reconnect, vars
<1>2. Counters'
  BY <1>1 DEF stream, seenByUser, Counters
<1>3. Flags'
  BY <1>1 DEF stream, seenByUser, Flags
<1>4. OpInv' /\ StreamInv' /\ CallInv' /\ SeedInv'
  BY <1>1 DEF stream, seenByUser, OpInv, StreamInv, CallInv, SeedInv, NoOp
<1>5. WireInv' /\ RowInv' /\ NothingStreamedIsLost'
  BY <1>1, WireKept, RowsKept, LostKept DEF stream, seenByUser
<1>6. QED
  BY <1>2, <1>3, <1>4, <1>5

LEMMA StepInv == IInv /\ [Next]_vars => IInv'
BY SeedStep, SeededStep, StashEditStep, SendEditStep, EditFailsAtOnceStep, FinalizeStep, ReviseStep, SendStep,
   LiveThenStoreStep, EditSentStep, EditFailsStep, StoredStep, IntervalPassesStep, FlushWakesStep,
   FlushReturnsStep, SocketLostStep, SupervisorForgetsStep, ReconnectStep DEF Next

-----------------------------------------------------------------------------
(* The theorems.                                                           *)

\* The inductive invariant.
THEOREM Inductive == Spec => []IInv
<1>1. Init => IInv
  BY InitInv
<1>2. IInv /\ [Next]_vars => IInv'
  BY StepInv
<1>3. QED
  BY <1>1, <1>2, PTL DEF Spec

\* Every variable keeps its type, and a stream that is over leaves nothing.
THEOREM TypeCorrect == Spec => []TypeOK
<1>1. IInv => TypeOK
  <2> SUFFICES ASSUME IInv PROVE TypeOK
    OBVIOUS
  <2>1. believed \in 0..MaxText
    BY StreamAssumption DEF IInv, Counters
  <2>2. ~pending => stash = 0
    BY DEF IInv, StreamInv
  <2>3. QED
    BY <2>1, <2>2 DEF IInv, Counters, Flags, OpInv, Ops, StreamInv, TypeOK
<1>2. QED
  BY <1>1, Inductive, PTL

\* On the wire the revisions grow, and each delta follows from the one before.
THEOREM Chain == Spec => []DeltasChain
<1>1. IInv => DeltasChain
  BY DEF IInv, WireInv
<1>2. QED
  BY <1>1, Inductive, PTL

\* What the consumer believes was seen is stored when it stops editing.
THEOREM NothingLost == Spec => []NothingStreamedIsLost
<1>1. IInv => NothingStreamedIsLost
  BY DEF IInv
<1>2. QED
  BY <1>1, Inductive, PTL

\* The reply is stored once.
THEOREM Once == Spec => []StoredOnce
<1>1. IInv => StoredOnce
  BY DEF IInv, RowInv
<1>2. QED
  BY <1>1, Inductive, PTL
=============================================================================
