---------------------------- MODULE SenderProofs ----------------------------
(***************************************************************************)
(* Proofs about the delivery pipeline, for every ring size, batch size,    *)
(* retry bound and mix of faults: its type invariant, that no accepted     *)
(* event is lost without being counted, that backpressure windows are      *)
(* honoured, and what shutdown and the hand-over of a crash report leave.  *)
(* SenderDeliveryProofs continues with the order of events, their count    *)
(* and flush.                                                              *)
(***************************************************************************)
EXTENDS Sender, TLAPS, SequenceTheorems

(* What a queue or a list of records holds, when it grows or shrinks.      *)
LEMMA RangeIsImage ==
  ASSUME NEW S, NEW s \in Seq(S)
  PROVE  Range(s) = {s[i] : i \in 1 .. Len(s)} /\ Range(s) \subseteq S
<1>1. DOMAIN s = 1 .. Len(s) /\ \A i \in 1 .. Len(s) : s[i] \in S
  BY LenProperties, ElementOfSeq
<1> QED BY <1>1 DEF Range

LEMMA RangeAppend ==
  ASSUME NEW S, NEW s \in Seq(S), NEW e \in S
  PROVE  Range(Append(s, e)) = Range(s) \cup {e}
<1>1. /\ Append(s, e) \in Seq(S) /\ Len(Append(s, e)) = Len(s) + 1
      /\ \A i \in 1 .. Len(s) : Append(s, e)[i] = s[i]
      /\ Append(s, e)[Len(s) + 1] = e
      /\ Len(s) \in Nat
  BY AppendProperties, LenProperties
<1>2. /\ Range(Append(s, e)) = {Append(s, e)[i] : i \in 1 .. Len(s) + 1}
      /\ Range(s) = {s[i] : i \in 1 .. Len(s)}
  BY <1>1, RangeIsImage
<1>3. 1 .. Len(s) + 1 = 1 .. Len(s) \cup {Len(s) + 1}
  BY <1>1
<1> QED BY <1>1, <1>2, <1>3

(* A sequence cut in two: its parts, and what each of them holds.          *)
LEMMA Parts ==
  ASSUME NEW S, NEW s \in Seq(S), NEW d \in 0 .. Len(s)
  PROVE  /\ SubSeq(s, 1, d) \in Seq(S) /\ Len(SubSeq(s, 1, d)) = d
         /\ \A i \in 1 .. d : SubSeq(s, 1, d)[i] = s[i]
         /\ SubSeq(s, d + 1, Len(s)) \in Seq(S)
         /\ Len(SubSeq(s, d + 1, Len(s))) = Len(s) - d
         /\ \A i \in 1 .. Len(s) - d : SubSeq(s, d + 1, Len(s))[i] = s[d + i]
<1>1. Len(s) \in Nat /\ \A i \in 1 .. Len(s) : s[i] \in S
  BY LenProperties, ElementOfSeq
<1> DEFINE a == SubSeq(s, 1, d)
           b == SubSeq(s, d + 1, Len(s))
<1>2. /\ a \in Seq(S) /\ Len(a) = d
      /\ \A i \in 1 .. d : a[i] = s[i]
  <2>1. /\ \A i \in 1 .. d : s[i] \in S
        /\ 1 \in Int /\ d \in Int /\ d - 1 + 1 = d /\ (IF 1 <= d THEN d ELSE 0) = d
        /\ \A i \in 1 .. d : 1 + i - 1 = i
    BY <1>1
  <2> QED BY <2>1, SubSeqProperties
<1>3. /\ b \in Seq(S) /\ Len(b) = Len(s) - d
      /\ \A i \in 1 .. Len(s) - d : b[i] = s[d + i]
  <2>1. /\ \A i \in d + 1 .. Len(s) : s[i] \in S
        /\ d + 1 \in Int /\ Len(s) \in Int /\ Len(s) - (d + 1) + 1 = Len(s) - d
        /\ (IF d + 1 <= Len(s) THEN Len(s) - d ELSE 0) = Len(s) - d
        /\ \A i \in 1 .. Len(s) - d : (d + 1) + i - 1 = d + i
    BY <1>1
  <2>2. ASSUME NEW m \in Int, NEW n \in Int, \A i \in m .. n : s[i] \in S
        PROVE  /\ SubSeq(s, m, n) \in Seq(S)
               /\ Len(SubSeq(s, m, n)) = IF m <= n THEN n - m + 1 ELSE 0
               /\ \A i \in 1 .. n - m + 1 : SubSeq(s, m, n)[i] = s[m + i - 1]
    BY <2>2, SubSeqProperties
  <2>3. /\ b \in Seq(S)
        /\ Len(b) = IF d + 1 <= Len(s) THEN Len(s) - (d + 1) + 1 ELSE 0
        /\ \A i \in 1 .. Len(s) - (d + 1) + 1 : b[i] = s[(d + 1) + i - 1]
    BY <2>1, <2>2, Zenon
  <2> QED BY <2>1, <2>3, Zenon
<1> QED BY <1>2, <1>3

LEMMA RangeSplit ==
  ASSUME NEW S, NEW s \in Seq(S), NEW d \in 0 .. Len(s)
  PROVE  /\ SubSeq(s, 1, d) \in Seq(S) /\ SubSeq(s, d + 1, Len(s)) \in Seq(S)
         /\ Len(SubSeq(s, d + 1, Len(s))) = Len(s) - d
         /\ Range(s) = Range(SubSeq(s, 1, d)) \cup Range(SubSeq(s, d + 1, Len(s)))
<1> DEFINE a == SubSeq(s, 1, d)
           b == SubSeq(s, d + 1, Len(s))
<1>1. Len(s) \in Nat
  BY LenProperties
<1>2. /\ a \in Seq(S) /\ Len(a) = d
      /\ \A i \in 1 .. d : a[i] = s[i]
  BY Parts
<1>3. /\ b \in Seq(S) /\ Len(b) = Len(s) - d
      /\ \A i \in 1 .. Len(s) - d : b[i] = s[d + i]
  BY Parts
<1> HIDE DEF a, b
<1>4. /\ Range(s) = {s[i] : i \in 1 .. Len(s)}
      /\ Range(a) = {a[i] : i \in 1 .. d}
      /\ Range(b) = {b[i] : i \in 1 .. Len(s) - d}
  BY <1>2, <1>3, RangeIsImage, Zenon
<1>5. ASSUME NEW x \in Range(s) PROVE x \in Range(a) \cup Range(b)
  <2>1. PICK i \in 1 .. Len(s) : x = s[i]
    BY <1>4
  <2>2. CASE i <= d
    BY <1>1, <1>2, <1>4, <2>1, <2>2
  <2>3. CASE ~(i <= d)
    <3>1. i - d \in 1 .. Len(s) - d /\ d + (i - d) = i
      BY <1>1, <2>3
    <3> QED BY <1>3, <1>4, <2>1, <3>1, Zenon
  <2> QED BY <2>2, <2>3
<1>6. ASSUME NEW x \in Range(a) \cup Range(b) PROVE x \in Range(s)
  <2>1. CASE x \in Range(a)
    BY <1>1, <1>2, <1>4, <2>1
  <2>2. CASE x \in Range(b)
    <3>1. PICK i \in 1 .. Len(s) - d : x = b[i]
      BY <1>4, <2>2
    <3>2. d + i \in 1 .. Len(s)
      BY <1>1
    <3> QED BY <1>3, <1>4, <3>1, <3>2
  <2> QED BY <1>6, <2>1, <2>2
<1> QED BY <1>2, <1>3, <1>5, <1>6 DEF a, b

LEMMA RangeTail ==
  ASSUME NEW S, NEW s \in Seq(S), s # <<>>
  PROVE  /\ Head(s) \in S /\ Tail(s) \in Seq(S) /\ Len(Tail(s)) = Len(s) - 1
         /\ Range(s) = {Head(s)} \cup Range(Tail(s))
<1>1. /\ Head(s) \in S /\ Tail(s) \in Seq(S) /\ Len(Tail(s)) = Len(s) - 1
      /\ \A i \in 1 .. Len(Tail(s)) : Tail(s)[i] = s[i + 1]
  BY HeadTailProperties
<1>2. Len(s) \in Nat \ {0} /\ Head(s) = s[1]
  BY LenProperties, EmptySeq
<1>3. /\ Range(s) = {s[i] : i \in 1 .. Len(s)}
      /\ Range(Tail(s)) = {Tail(s)[i] : i \in 1 .. Len(s) - 1}
  BY <1>1, RangeIsImage
<1>4. ASSUME NEW x \in Range(s) PROVE x \in {Head(s)} \cup Range(Tail(s))
  <2>1. PICK i \in 1 .. Len(s) : x = s[i]
    BY <1>3
  <2>2. CASE i # 1
    <3>1. i - 1 \in 1 .. Len(s) - 1 /\ (i - 1) + 1 = i
      BY <1>2, <2>2
    <3> QED BY <1>1, <1>3, <2>1, <3>1
  <2> QED BY <1>2, <2>1, <2>2
<1>5. ASSUME NEW x \in {Head(s)} \cup Range(Tail(s)) PROVE x \in Range(s)
  <2>1. CASE x = Head(s)
    BY <1>2, <1>3, <2>1
  <2>2. CASE x \in Range(Tail(s))
    <3>1. PICK i \in 1 .. Len(s) - 1 : x = Tail(s)[i]
      BY <1>3, <2>2
    <3>2. i + 1 \in 1 .. Len(s) /\ i \in 1 .. Len(Tail(s))
      BY <1>1, <1>2
    <3> QED BY <1>1, <1>3, <3>1, <3>2
  <2> QED BY <1>5, <2>1, <2>2
<1> QED BY <1>1, <1>4, <1>5

LEMMA RangeConcat ==
  ASSUME NEW S, NEW s \in Seq(S), NEW t \in Seq(S)
  PROVE  s \o t \in Seq(S) /\ Range(s \o t) = Range(s) \cup Range(t)
BY ConcatProperties, RangeConcatenation

LEMMA UnionEmpty == Union(<<>>) = {}
BY DEF Union, Range

LEMMA UnionAppend ==
  ASSUME NEW S, NEW s \in Seq(SUBSET S), NEW r \in SUBSET S
  PROVE  Append(s, r) \in Seq(SUBSET S) /\ Union(Append(s, r)) = Union(s) \cup r
<1>1. Append(s, r) \in Seq(SUBSET S)
  BY AppendProperties
<1>2. Range(Append(s, r)) = Range(s) \cup {r}
  BY RangeAppend
<1> QED BY <1>1, <1>2 DEF Union

LEMMA UnionTail ==
  ASSUME NEW S, NEW s \in Seq(SUBSET S), s # <<>>
  PROVE  /\ Head(s) \in SUBSET S /\ Tail(s) \in Seq(SUBSET S)
         /\ Union(s) = Head(s) \cup Union(Tail(s))
<1>1. /\ Head(s) \in SUBSET S /\ Tail(s) \in Seq(SUBSET S)
      /\ Range(s) = {Head(s)} \cup Range(Tail(s))
  BY RangeTail
<1> QED BY <1>1 DEF Union

LEMMA UnionConcat ==
  ASSUME NEW S, NEW s \in Seq(SUBSET S), NEW t \in Seq(SUBSET S)
  PROVE  s \o t \in Seq(SUBSET S) /\ Union(s \o t) = Union(s) \cup Union(t)
<1>1. s \o t \in Seq(SUBSET S) /\ Range(s \o t) = Range(s) \cup Range(t)
  BY RangeConcat
<1> QED BY <1>1 DEF Union

LEMMA UnionSplit ==
  ASSUME NEW S, NEW s \in Seq(SUBSET S), NEW d \in 0 .. Len(s)
  PROVE  /\ SubSeq(s, d + 1, Len(s)) \in Seq(SUBSET S)
         /\ Union(s) = Union(SubSeq(s, 1, d)) \cup Union(SubSeq(s, d + 1, Len(s)))
         /\ Union(SubSeq(s, 1, d)) \subseteq S
<1>1. /\ SubSeq(s, 1, d) \in Seq(SUBSET S)
      /\ SubSeq(s, d + 1, Len(s)) \in Seq(SUBSET S)
      /\ Range(s) = Range(SubSeq(s, 1, d)) \cup Range(SubSeq(s, d + 1, Len(s)))
  BY RangeSplit
<1>2. Range(SubSeq(s, 1, d)) \subseteq SUBSET S
  BY <1>1, RangeIsImage
<1> QED BY <1>1, <1>2 DEF Union

LEMMA UnionOne ==
  ASSUME NEW S, NEW r \in SUBSET S
  PROVE  <<r>> \in Seq(SUBSET S) /\ Union(<<r>>) = r
<1>1. <<r>> \in Seq(SUBSET S) /\ Range(<<r>>) = {r}
  BY DEF Range
<1> QED BY <1>1 DEF Union

LEMMA UnionTwo ==
  ASSUME NEW S, NEW r \in SUBSET S, NEW t \in SUBSET S
  PROVE  <<r, t>> \in Seq(SUBSET S) /\ Union(<<r, t>>) = r \cup t
<1>1. <<r, t>> \in Seq(SUBSET S) /\ Range(<<r, t>>) = {r, t}
  BY DEF Range
<1> QED BY <1>1 DEF Union

(* A push keeps what the ring held or evicts it; a pop takes what it gives. *)
LEMMA RingPush ==
  ASSUME NEW q \in Seq(Events), Len(q) <= MaxQueue, NEW e \in Events
  PROVE  /\ Ring!Pushed(q, e) \in Seq(Events)
         /\ Len(Ring!Pushed(q, e)) <= MaxQueue
         /\ Ring!Evicted(q) \subseteq Events
         /\ Range(q) \cup {e} = Range(Ring!Pushed(q, e)) \cup Ring!Evicted(q)
<1>1. Len(q) \in Nat /\ MaxQueue \in Nat \ {0}
  BY LenProperties, SenderAssumption
<1>2. CASE Len(q) = MaxQueue
  <2>1. q # <<>>
    BY <1>1, <1>2, EmptySeq
  <2>2. /\ Head(q) \in Events /\ Tail(q) \in Seq(Events)
        /\ Len(Tail(q)) = Len(q) - 1 /\ Range(q) = {Head(q)} \cup Range(Tail(q))
    BY <2>1, RangeTail
  <2>3. /\ Ring!Pushed(q, e) = Append(Tail(q), e)
        /\ Ring!Evicted(q) = {Head(q)}
    BY <1>2 DEF Ring!Pushed, Ring!Evicted, Ring!Full
  <2>4. /\ Append(Tail(q), e) \in Seq(Events) /\ Len(Append(Tail(q), e)) = Len(q)
        /\ Range(Append(Tail(q), e)) = Range(Tail(q)) \cup {e}
    <3>1. /\ Append(Tail(q), e) \in Seq(Events)
          /\ Len(Append(Tail(q), e)) = Len(Tail(q)) + 1
      BY <2>2, AppendProperties
    <3>2. Range(Append(Tail(q), e)) = Range(Tail(q)) \cup {e}
      <4>1. Tail(q) \in Seq(Events)
        BY <2>2
      <4>2. \A s \in Seq(Events), x \in Events : Range(Append(s, x)) = Range(s) \cup {x}
        BY RangeAppend
      <4> QED BY <4>1, <4>2
    <3> QED BY <1>1, <2>2, <3>1, <3>2
  <2> QED BY <1>2, <2>2, <2>3, <2>4
<1>3. CASE Len(q) # MaxQueue
  <2>1. Ring!Pushed(q, e) = Append(q, e) /\ Ring!Evicted(q) = {}
    BY <1>3 DEF Ring!Pushed, Ring!Evicted, Ring!Full
  <2>2. /\ Append(q, e) \in Seq(Events) /\ Len(Append(q, e)) = Len(q) + 1
        /\ Range(Append(q, e)) = Range(q) \cup {e}
    BY RangeAppend, AppendProperties
  <2> QED BY <1>1, <1>3, <2>1, <2>2
<1> QED BY <1>2, <1>3

LEMMA RingPop ==
  ASSUME NEW q \in Seq(Events), Len(q) <= MaxQueue
  PROVE  /\ Ring!Rest(q, MaxBatch) \in Seq(Events)
         /\ Len(Ring!Rest(q, MaxBatch)) <= MaxQueue
         /\ Range(Ring!Batch(q, MaxBatch)) \subseteq Events
         /\ Range(q) = Range(Ring!Batch(q, MaxBatch)) \cup Range(Ring!Rest(q, MaxBatch))
<1> DEFINE d == Ring!Taken(q, MaxBatch)
<1>1. Len(q) \in Nat
  BY LenProperties
<1>2. d \in 0 .. Len(q)
  BY <1>1, SenderAssumption DEF Ring!Taken
<1> HIDE DEF d
<1>3. /\ SubSeq(q, 1, d) \in Seq(Events) /\ SubSeq(q, d + 1, Len(q)) \in Seq(Events)
      /\ Len(SubSeq(q, d + 1, Len(q))) = Len(q) - d
      /\ Range(q) = Range(SubSeq(q, 1, d)) \cup Range(SubSeq(q, d + 1, Len(q)))
  BY <1>2, RangeSplit
<1>4. Range(SubSeq(q, 1, d)) \subseteq Events
  BY <1>3, RangeIsImage
<1>5. Len(q) - d <= MaxQueue
  BY <1>1, <1>2, SenderAssumption
<1> QED BY <1>3, <1>4, <1>5 DEF d, Ring!Batch, Ring!Rest

(* The inductive invariant.  Where control is tells which lists are not    *)
(* empty; a replay in progress never holds a record the file does not, so  *)
(* a failed rewrite loses nothing; and the accounting is in terms of what  *)
(* the replay still means to keep.                                         *)
ControlOK ==
  /\ pc = "rpost" => lines # <<>>
  /\ pc = "rewrite" => lines = <<>>
  /\ pc \in {"post", "retry", "backoff", "giveUp"} => todo # <<>>
  /\ pc = "backoff" => attempt < MaxRetries
  /\ todo = <<>> \/ pc \in {"run", "post", "retry", "backoff", "giveUp", "return"}

ReplayOK == Replaying => Union(keep) \cup Union(lines) \subseteq Union(disk)

OnFile == IF Replaying THEN Union(keep) \cup Union(lines) ELSE Union(disk)

LossOK ==
  ~DirSyncFaults =>
    1 .. accepted \subseteq Range(queue) \cup InHand \cup OnFile \cup Counted

TInv == TypeOK /\ ControlOK
IInv == TInv /\ ReplayOK /\ LossOK

USE DEF ringVars, countVars, timeVars, replayVars, runVars, flushVars

LEMMA InitInv == Init => IInv
<1> SUFFICES ASSUME Init PROVE IInv
  OBVIOUS
<1>0. offline \in Configs /\ accepted \in 0 .. MaxEvents
  BY SenderAssumption DEF Init
<1>1. disk \in Seq(SUBSET Events) /\ Union(disk) = 1 .. accepted
  <2>1. \A i \in 1 .. accepted : {i} \in SUBSET Events
    BY <1>0, SenderAssumption DEF Events
  <2>2. disk \in Seq(SUBSET Events)
    BY <1>0, <2>1 DEF Init
  <2>3. Range(disk) = {{i} : i \in 1 .. accepted}
    BY DEF Init, Range
  <2> QED BY <2>2, <2>3 DEF Union
<1>2. TypeOK
  <2>1. /\ fpc \in [Flushers -> {"out", "waiting", "idle", "gone"}]
        /\ cycled \in [Flushers -> BOOLEAN] /\ target \in [Flushers -> Nat]
        /\ sawStart \in [Flushers -> BOOLEAN]
    BY DEF Init
  <2>2. /\ attempt \in 0 .. MaxRetries
        /\ Len(queue) <= MaxQueue
    BY SenderAssumption DEF Init
  <2>3. /\ queue \in Seq(Events) /\ todo \in Seq(SUBSET Events)
        /\ lines \in Seq(SUBSET Events) /\ keep \in Seq(SUBSET Events)
    BY DEF Init
  <2>4. record \in BOOLEAN
    BY SenderAssumption DEF Init
  <2>5. pc \in Places /\ armedBy \in {"replay", "live"} /\ back \in {"held", "settle", "settleTail"}
    BY DEF Init, Places
  <2> QED BY <1>0, <1>1, <2>1, <2>2, <2>3, <2>4, <2>5 DEF Init, TypeOK, EventsTyped,
             ControlTyped, FlushTyped
<1>3. ControlOK /\ ~Replaying
  BY DEF Init, ControlOK, Replaying
<1>4. LossOK
  BY <1>1, <1>3, Zenon DEF Init, LossOK, OnFile
<1> QED BY <1>2, <1>3, <1>4 DEF IInv, TInv, ReplayOK

(* A step that leaves the lists and counters alone and neither enters nor  *)
(* leaves the replay keeps the accounting.                                 *)
LEMMA SameData ==
  ASSUME IInv, Replaying' = Replaying,
         UNCHANGED <<accepted, queue, overflowed, disk, sent, failed, vetoed,
                     lines, keep, todo>>
  PROVE  ReplayOK' /\ LossOK'
BY DEF IInv, ReplayOK, LossOK, OnFile, InHand, Counted

LEMMA MoveInv ==
  ASSUME IInv, NEW from, NEW to \in Places, Move(from, to),
         Replaying' = Replaying, ControlOK'
  PROVE  IInv'
<1>1. TypeOK'
  <2>1. EventsTyped'
    BY DEF Move, Goto, IInv, TInv, TypeOK, EventsTyped
  <2>2. ControlTyped'
    BY DEF Move, Goto, IInv, TInv, TypeOK, ControlTyped
  <2>3. FlushTyped'
    BY DEF Move, Goto, IInv, TInv, TypeOK, FlushTyped
  <2> QED BY <2>1, <2>2, <2>3 DEF TypeOK
<1>2. ReplayOK' /\ LossOK'
  BY SameData DEF Move
<1> QED BY <1>1, <1>2 DEF IInv, TInv

LEMMA BranchInv ==
  ASSUME IInv,
         Gate \/ ReplaySkip \/ ReplayPost \/ LoopEnd \/ Held \/ TailDeadline
         \/ TailHold \/ Park \/ Retry
  PROVE  IInv'
<1>c. ControlOK
  BY DEF IInv, TInv
<1> USE DEF Places, Replaying, ControlOK, Move, Goto
<1>1. CASE Gate
  BY <1>1, <1>c, MoveInv DEF Gate
<1>2. CASE ReplaySkip
  BY <1>2, <1>c, MoveInv DEF ReplaySkip
<1>3. CASE ReplayPost
  BY <1>3, <1>c, MoveInv DEF ReplayPost
<1>4. CASE LoopEnd
  BY <1>4, <1>c, MoveInv DEF LoopEnd
<1>5. CASE Held
  BY <1>5, <1>c, MoveInv DEF Held
<1>6. CASE TailDeadline
  BY <1>6, <1>c, MoveInv DEF TailDeadline
<1>7. CASE TailHold
  BY <1>7, <1>c, MoveInv DEF TailHold
<1>8. CASE Park
  BY <1>8, <1>c, MoveInv DEF Park
<1>9. CASE Retry
  <2>1. attempt \in 0 .. MaxRetries
    BY DEF IInv, TInv, TypeOK, ControlTyped
  <2>2. ControlOK' /\ Replaying' = Replaying
    BY <1>9, <1>c, <2>1, SenderAssumption DEF Retry
  <2>3. Retry => \E to \in {"giveUp", "backoff"} : Move("retry", to)
    BY DEF Retry
  <2> HIDE DEF Replaying, ControlOK, Move, Goto
  <2> QED BY <1>9, <2>2, <2>3, MoveInv
<1> QED BY <1>1, <1>2, <1>3, <1>4, <1>5, <1>6, <1>7, <1>8, <1>9

LEMMA EnvironmentInv ==
  ASSUME IInv, Environment
  PROVE  IInv'
<1>1. CASE Capture
  <2>1. /\ accepted \in 0 .. MaxEvents /\ accepted < MaxEvents
        /\ queue \in Seq(Events) /\ Len(queue) <= MaxQueue
        /\ accepted + 1 \in Events
    BY <1>1, SenderAssumption DEF Capture, IInv, TInv, TypeOK, EventsTyped,
       ControlTyped, FlushTyped, Events
  <2>2. /\ queue' \in Seq(Events) /\ Len(queue') <= MaxQueue
        /\ Ring!Evicted(queue) \subseteq Events
        /\ Range(queue) \cup {accepted + 1} = Range(queue') \cup Ring!Evicted(queue)
    BY <1>1, <2>1, RingPush DEF Capture
  <2>3. overflowed' = overflowed \cup Ring!Evicted(queue) /\ accepted' = accepted + 1
    BY <1>1 DEF Capture
  <2>4. accepted' \in 0 .. MaxEvents /\ 1 .. accepted' = 1 .. accepted \cup {accepted + 1}
    BY <2>1, <2>3, SenderAssumption
  <2>5. TInv'
    <3>1. EventsTyped'
      BY <1>1, <2>2, <2>3, <2>4 DEF Capture, IInv, TInv, TypeOK, EventsTyped
    <3>2. ControlTyped'
      BY <1>1, <2>2, <2>3, <2>4 DEF Capture, IInv, TInv, TypeOK, ControlTyped
    <3>3. FlushTyped'
      BY <1>1, <2>2, <2>3, <2>4 DEF Capture, IInv, TInv, TypeOK, FlushTyped
    <3>4. ControlOK'
      BY <1>1, <2>2, <2>3, <2>4 DEF Capture, IInv, TInv, ControlOK
    <3> QED BY <3>1, <3>2, <3>3, <3>4 DEF TInv, TypeOK
  <2>6. ReplayOK'
    BY <1>1 DEF Capture, IInv, ReplayOK, Replaying
  <2>7. OnFile' = OnFile /\ InHand' = InHand /\ Counted' = Counted \cup Ring!Evicted(queue)
    BY <1>1, <2>3 DEF Capture, OnFile, Replaying, InHand, Counted
  <2>8. LossOK'
    BY <2>2, <2>4, <2>7 DEF IInv, LossOK
  <2> QED BY <2>5, <2>6, <2>8 DEF IInv
<1>2. CASE HoldLapses \/ StopRequest \/ DeadlinePasses
  <2>1. TInv'
    <3>1. ControlOK'
      BY <1>2 DEF HoldLapses, StopRequest, DeadlinePasses, IInv, TInv, ControlOK
    <3>2. hold' \in BOOLEAN /\ stop' \in BOOLEAN /\ expired' \in BOOLEAN
      BY <1>2, Zenon DEF HoldLapses, StopRequest, DeadlinePasses, IInv, TInv, TypeOK,
         EventsTyped, ControlTyped, FlushTyped
    <3>3. TypeOK'
      <4>1. EventsTyped'
        BY <1>2, <3>2, SMTT(15) DEF HoldLapses, StopRequest, DeadlinePasses, IInv, TInv, TypeOK,
           EventsTyped
      <4>2. ControlTyped'
        BY <1>2, <3>2 DEF HoldLapses, StopRequest, DeadlinePasses, IInv, TInv, TypeOK,
           ControlTyped
      <4>3. FlushTyped'
        BY <1>2, <3>2 DEF HoldLapses, StopRequest, DeadlinePasses, IInv, TInv, TypeOK,
           FlushTyped
      <4> QED BY <4>1, <4>2, <4>3 DEF TypeOK
    <3> QED BY <3>1, <3>3 DEF TInv
  <2>2. ReplayOK' /\ LossOK'
    BY <1>2, SameData DEF HoldLapses, StopRequest, DeadlinePasses, Replaying
  <2> QED BY <2>1, <2>2 DEF IInv
<1> QED BY <1>1, <1>2 DEF Environment

LEMMA FlushInv ==
  ASSUME IInv, NEW f \in Flushers, Flush(f)
  PROVE  IInv'
<1>1. TInv'
  <2>1. /\ fpc' \in [Flushers -> {"out", "waiting", "idle", "gone"}]
        /\ cycled' \in [Flushers -> BOOLEAN]
        /\ sawStart' \in [Flushers -> BOOLEAN]
    BY Zenon DEF Flush, FlushBegin, FlushReturn, FlushTimeout, IInv, TInv, TypeOK,
       EventsTyped, ControlTyped, FlushTyped
  <2>2. target' \in [Flushers -> Nat]
    <3>1. target \in [Flushers -> Nat] /\ accepted \in Nat
      BY SenderAssumption DEF IInv, TInv, TypeOK, EventsTyped, ControlTyped, FlushTyped
    <3>2. target' = target \/ target' = [target EXCEPT ![f] = accepted]
      BY DEF Flush, FlushBegin, FlushReturn, FlushTimeout
    <3> QED BY <3>1, <3>2
  <2> QED BY <2>1, <2>2, SMTT(30) DEF Flush, FlushBegin, FlushReturn, FlushTimeout, IInv,
                            TInv, TypeOK, EventsTyped, ControlTyped, FlushTyped, ControlOK
<1>2. ReplayOK' /\ LossOK'
  BY SameData DEF Flush, FlushBegin, FlushReturn, FlushTimeout, Replaying
<1> QED BY <1>1, <1>2 DEF IInv

LEMMA ReplayInv ==
  ASSUME IInv, Replay
  PROVE  IInv'
<1> USE DEF Goto
<1>t. /\ disk \in Seq(SUBSET Events) /\ todo \in Seq(SUBSET Events)
      /\ lines \in Seq(SUBSET Events) /\ keep \in Seq(SUBSET Events)
      /\ sent \subseteq Events /\ failed \subseteq Events
  BY DEF IInv, TInv, TypeOK, EventsTyped, ControlTyped, FlushTyped
<1>1. CASE ReplayBegin
  <2>1. TInv'
    <3>1. keep' \in Seq(SUBSET Events)
      <4>1. keep' = <<>>
        BY <1>1 DEF ReplayBegin
      <4> QED BY <4>1
    <3>2. pc' \in Places /\ stopped' \in BOOLEAN
      BY <1>1 DEF ReplayBegin, Places
    <3> QED BY <1>1, <3>1, <3>2, Zenon DEF ReplayBegin, IInv, TInv, TypeOK, EventsTyped,
               ControlTyped, FlushTyped, ControlOK
  <2>2. Replaying' /\ ~Replaying /\ lines' = disk /\ keep' = <<>> /\ disk' = disk
    BY <1>1 DEF ReplayBegin, Replaying
  <2>3. Union(keep') = {}
    BY <2>2, UnionEmpty
  <2>4. ReplayOK'
    BY <2>2, <2>3 DEF ReplayOK
  <2>5. LossOK'
    BY <1>1, <2>2, <2>3 DEF ReplayBegin, IInv, LossOK, OnFile, InHand, Counted
  <2> QED BY <2>1, <2>4, <2>5 DEF IInv
<1>2. CASE ReplayStop
  <2>1. keep' = keep \o lines /\ lines' = <<>> /\ pc' = "rewrite"
    BY <1>2 DEF ReplayStop
  <2>2. keep' \in Seq(SUBSET Events) /\ Union(keep') = Union(keep) \cup Union(lines)
    <3>1. /\ keep \o lines \in Seq(SUBSET Events)
          /\ Union(keep \o lines) = Union(keep) \cup Union(lines)
      BY <1>t, UnionConcat, SMTT(30)
    <3> QED BY <2>1, <3>1
  <2>3. Union(lines') = {} /\ lines' \in Seq(SUBSET Events)
    BY <2>1, UnionEmpty
  <2>4. TInv'
    <3>1. pc' \in Places
      BY <2>1 DEF Places
    <3> QED BY <1>2, <2>1, <2>2, <2>3, <3>1
          DEF ReplayStop, IInv, TInv, TypeOK, EventsTyped, ControlTyped, FlushTyped,
            ControlOK
  <2>5. Replaying /\ Replaying'
    BY <1>2 DEF ReplayStop, Replaying
  <2>6. OnFile' = OnFile
    BY <2>2, <2>3, <2>5 DEF OnFile
  <2>7. ReplayOK'
    BY <1>2, <2>2, <2>3, <2>5 DEF IInv, ReplayOK, ReplayStop
  <2>8. LossOK'
    BY <1>2, <2>6 DEF ReplayStop, IInv, LossOK, InHand, Counted
  <2> QED BY <2>4, <2>7, <2>8 DEF IInv
<1>3. ASSUME lines # <<>>, lines' = Tail(lines), Replaying, Replaying',
             keep' = keep \/ keep' = Append(keep, Head(lines)),
             keep' = keep => Head(lines) \subseteq Counted', Counted \subseteq Counted',
             UNCHANGED <<accepted, queue, disk, todo>>
      PROVE  /\ ReplayOK' /\ LossOK'
             /\ lines' \in Seq(SUBSET Events) /\ keep' \in Seq(SUBSET Events)
             /\ Head(lines) \subseteq Events
  <2>1. /\ Head(lines) \in SUBSET Events /\ Tail(lines) \in Seq(SUBSET Events)
        /\ Union(lines) = Head(lines) \cup Union(lines')
    BY <1>t, <1>3, UnionTail
  <2>2. CASE keep' = keep
    <3>1. ReplayOK'
      BY <1>3, <2>1, <2>2 DEF IInv, ReplayOK
    <3>2. OnFile \subseteq OnFile' \cup Counted'
      BY <1>3, <2>1, <2>2 DEF OnFile
    <3>3. LossOK'
      BY <1>3, <3>2 DEF IInv, LossOK, InHand
    <3> QED BY <1>t, <1>3, <2>1, <2>2, <3>1, <3>3
  <2>3. CASE keep' = Append(keep, Head(lines))
    <3>1. keep' \in Seq(SUBSET Events) /\ Union(keep') = Union(keep) \cup Head(lines)
      <4>1. /\ Append(keep, Head(lines)) \in Seq(SUBSET Events)
            /\ Union(Append(keep, Head(lines))) = Union(keep) \cup Head(lines)
        <5>1. ASSUME NEW h \in SUBSET Events
              PROVE  /\ Append(keep, h) \in Seq(SUBSET Events)
                     /\ Union(Append(keep, h)) = Union(keep) \cup h
          <6>1. keep \in Seq(SUBSET Events)
            BY <1>t
          <6> QED BY <6>1, UnionAppend
        <5> QED BY <2>1, <5>1
      <4> QED BY <2>3, <4>1
    <3>2. ReplayOK'
      BY <1>3, <2>1, <3>1 DEF IInv, ReplayOK
    <3>3. OnFile \subseteq OnFile'
      BY <1>3, <2>1, <3>1 DEF OnFile
    <3>4. LossOK'
      BY <1>3, <3>3 DEF IInv, LossOK, InHand
    <3> QED BY <1>3, <2>1, <3>1, <3>2, <3>4
  <2> QED BY <1>3, <2>2, <2>3
<1>4. CASE ReplayOversize
  <2>1. /\ lines # <<>> /\ lines' = Tail(lines) /\ Replaying /\ Replaying'
        /\ keep' = keep /\ failed' = failed \cup Head(lines)
        /\ UNCHANGED <<accepted, queue, disk, todo>>
    BY <1>4 DEF ReplayOversize, Replaying
  <2>2. Head(lines) \subseteq Counted' /\ Counted \subseteq Counted'
    BY <1>4 DEF ReplayOversize, Counted
  <2>3. /\ ReplayOK' /\ LossOK' /\ lines' \in Seq(SUBSET Events)
        /\ Head(lines) \subseteq Events
    BY <1>3, <2>1, <2>2
  <2>4. failed' \subseteq Events
    BY <1>t, <2>1, <2>3
  <2>5. TInv'
    <3>1. EventsTyped'
      BY <1>4, <2>3, <2>4 DEF ReplayOversize, IInv, TInv, TypeOK, EventsTyped
    <3>2. ControlTyped'
      BY <1>4, <2>3, <2>4 DEF ReplayOversize, IInv, TInv, TypeOK, ControlTyped
    <3>3. FlushTyped'
      BY <1>4, <2>3, <2>4 DEF ReplayOversize, IInv, TInv, TypeOK, FlushTyped
    <3>4. ControlOK'
      BY <1>4, <2>3, <2>4 DEF ReplayOversize, IInv, TInv, ControlOK
    <3> QED BY <3>1, <3>2, <3>3, <3>4 DEF TInv, TypeOK
  <2> QED BY <2>3, <2>5 DEF IInv
<1>5. ASSUME NEW r \in Answers, ReplayAnswer(r) PROVE IInv'
  <2>1. /\ lines # <<>> /\ lines' = Tail(lines) /\ Replaying /\ Replaying'
        /\ keep' = keep \/ keep' = Append(keep, Head(lines))
        /\ UNCHANGED <<accepted, queue, disk, todo>>
    BY <1>5 DEF ReplayAnswer, Replaying, IInv, TInv, ControlOK
  <2>2. Counted \subseteq Counted'
    BY <1>5 DEF ReplayAnswer, Counted
  <2>3. keep' = keep => Head(lines) \subseteq Counted'
    <3>1. CASE r \in Delivers \cup {"reject"}
      BY <1>5, <3>1 DEF ReplayAnswer, Counted, Delivers
    <3>2. CASE r \notin Delivers \cup {"reject"}
      <4>1. keep' = Append(keep, Head(lines)) /\ Head(lines) \in SUBSET Events
        BY <1>5, <1>t, <2>1, <3>2, UnionTail DEF ReplayAnswer
      <4>2. Len(keep') # Len(keep)
        <5>1. Len(keep') = Len(keep) + 1 /\ Len(keep) \in Nat
          BY <1>t, <4>1, AppendProperties, LenProperties
        <5> QED BY <5>1
      <4> QED BY <4>2
    <3> QED BY <3>1, <3>2
  <2>4. /\ ReplayOK' /\ LossOK' /\ lines' \in Seq(SUBSET Events)
        /\ keep' \in Seq(SUBSET Events) /\ Head(lines) \subseteq Events
    BY <1>3, <2>1, <2>2, <2>3
  <2>5. sent' \subseteq Events /\ failed' \subseteq Events
    BY <1>t, <1>5, <2>4 DEF ReplayAnswer
  <2>6. /\ hold' \in BOOLEAN /\ armedBy' \in {"replay", "live"}
        /\ stopped' \in BOOLEAN /\ pc' \in Places /\ pc' \in {"rcheck", "line"}
    BY <1>5 DEF ReplayAnswer, Note, IInv, TInv, TypeOK, EventsTyped, ControlTyped,
       FlushTyped, Places
  <2>7. TypeOK'
    <3>1. EventsTyped'
      BY <1>5, <2>4, <2>5, <2>6 DEF ReplayAnswer, IInv, TInv, TypeOK, EventsTyped
    <3>2. ControlTyped'
      BY <1>5, <2>4, <2>5, <2>6 DEF ReplayAnswer, IInv, TInv, TypeOK, ControlTyped
    <3>3. FlushTyped'
      BY <1>5, <2>4, <2>5, <2>6 DEF ReplayAnswer, IInv, TInv, TypeOK, FlushTyped
    <3> QED BY <3>1, <3>2, <3>3 DEF TypeOK
  <2>8. ControlOK'
    BY <1>5, <2>1, <2>6 DEF IInv, TInv, ControlOK, Replaying
  <2> QED BY <2>4, <2>7, <2>8 DEF IInv, TInv
<1>6. CASE ReplayCheck
  <2>1. TInv'
    <3>1. stopped' \in BOOLEAN /\ pc' \in Places
      BY <1>6 DEF ReplayCheck, IInv, TInv, TypeOK, EventsTyped, ControlTyped,
         FlushTyped, Places
    <3> QED BY <1>6, <3>1 DEF ReplayCheck, IInv, TInv, TypeOK, EventsTyped,
               ControlTyped, FlushTyped, ControlOK
  <2>2. ReplayOK' /\ LossOK'
    BY <1>6, SameData DEF ReplayCheck, Replaying
  <2> QED BY <2>1, <2>2 DEF IInv
<1>7. CASE Rewrite
  <2>1. lines = <<>> /\ Replaying /\ ~Replaying' /\ disk' \in {keep, disk}
    BY <1>7 DEF Rewrite, Replaying, IInv, TInv, ControlOK
  <2>2. keep' \in Seq(SUBSET Events)
    BY <1>7 DEF Rewrite
  <2>3. TInv'
    <3>1. disk' \in Seq(SUBSET Events) /\ pc' \in Places
      BY <1>t, <1>7, <2>1 DEF Rewrite, Places
    <3> QED BY <1>7, <2>2, <3>1 DEF Rewrite, IInv, TInv, TypeOK, EventsTyped,
               ControlTyped, FlushTyped, ControlOK
  <2>4. OnFile \subseteq OnFile'
    BY <2>1, UnionEmpty DEF IInv, ReplayOK, OnFile
  <2>5. LossOK'
    BY <1>7, <2>4 DEF Rewrite, IInv, LossOK, InHand, Counted
  <2> QED BY <2>1, <2>3, <2>5 DEF IInv, ReplayOK
<1> QED BY <1>1, <1>2, <1>4, <1>5, <1>6, <1>7, BranchInv DEF Replay

(* Popping a batch moves its events from the ring into the run in hand or  *)
(* among the vetoed.                                                       *)
LEMMA PopInv ==
  ASSUME IInv, NEW next, next \in {"held", "settle", "settleTail"},
         pc \in {"loop", "settle", "settleTail"}, PopScrubbed(next)
  PROVE  IInv'
<1> DEFINE batch == Range(Ring!Batch(queue, MaxBatch))
<1>1. queue \in Seq(Events) /\ Len(queue) <= MaxQueue /\ vetoed \subseteq Events
  BY DEF IInv, TInv, TypeOK, EventsTyped, ControlTyped, FlushTyped
<1>2. /\ Ring!Rest(queue, MaxBatch) \in Seq(Events)
      /\ Len(Ring!Rest(queue, MaxBatch)) <= MaxQueue /\ batch \subseteq Events
      /\ Range(queue) = batch \cup Range(Ring!Rest(queue, MaxBatch))
  BY <1>1, RingPop
<1>3. PICK gone \in Vetoes(batch) :
        /\ vetoed' = vetoed \cup gone
        /\ todo' = IF batch = gone THEN <<>> ELSE <<batch \ gone>>
  BY DEF PopScrubbed
<1>4. gone \subseteq batch
  BY <1>3 DEF Vetoes
<1> HIDE DEF batch
<1>5. todo' \in Seq(SUBSET Events) /\ Union(todo') = batch \ gone
  <2>1. CASE batch = gone
    <3>1. todo' = <<>>
      BY <1>3, <2>1
    <3> QED BY <2>1, <3>1, UnionEmpty
  <2>2. CASE batch # gone
    <3>1. todo' = <<batch \ gone>>
      BY <1>3, <2>2
    <3>2. ASSUME NEW r \in SUBSET Events
          PROVE <<r>> \in Seq(SUBSET Events) /\ Union(<<r>>) = r
      BY UnionOne
    <3>3. batch \ gone \in SUBSET Events
      BY <1>2
    <3> QED BY <3>1, <3>2, <3>3
  <2> QED BY <2>1, <2>2
<1>6. /\ queue' = Ring!Rest(queue, MaxBatch) /\ pc' = "run" /\ back' = next
      /\ persisting' \in BOOLEAN
      /\ UNCHANGED <<offline, accepted, overflowed, disk, sent, failed, record, timeVars,
                     final, sending, replayVars, attempt, flushVars>>
  BY DEF PopScrubbed
<1>7. TInv'
  <2>1. vetoed' \subseteq Events /\ pc' \in Places
    BY <1>1, <1>2, <1>3, <1>4, <1>6 DEF Places
  <2>2. TypeOK'
    <3>1. EventsTyped'
      BY <1>2, <1>5, <1>6, <2>1 DEF IInv, TInv, TypeOK, EventsTyped
    <3>2. ControlTyped'
      BY <1>2, <1>5, <1>6, <2>1 DEF IInv, TInv, TypeOK, ControlTyped
    <3>3. FlushTyped'
      BY <1>2, <1>5, <1>6, <2>1 DEF IInv, TInv, TypeOK, FlushTyped
    <3> QED BY <3>1, <3>2, <3>3 DEF TypeOK
  <2> QED BY <1>6, <2>2 DEF TInv, ControlOK
<1>8. ~Replaying /\ ~Replaying'
  BY <1>6 DEF Replaying
<1>9. /\ Range(queue) \subseteq Range(queue') \cup InHand' \cup Counted'
      /\ Counted \subseteq Counted'
  BY <1>2, <1>3, <1>5, <1>6, Zenon DEF InHand, Counted
<1>10. InHand = {}
  <2>1. todo = <<>>
    BY DEF IInv, TInv, ControlOK
  <2> QED BY <2>1, UnionEmpty DEF InHand
<1>11. LossOK'
  BY <1>6, <1>8, <1>9, <1>10 DEF IInv, LossOK, OnFile
<1> QED BY <1>7, <1>8, <1>11 DEF IInv, ReplayOK

LEMMA DrainInv ==
  ASSUME IInv, Drain
  PROVE  IInv'
<1>1. CASE DrainBegin \/ SettleEnd \/ Finish \/ After
  <2>1. pc' \in Places /\ ~Replaying /\ ~Replaying' /\ ControlOK'
    <3>1. /\ pc \in {"wait", "final", "settle", "settleTail", "finish", "after"}
          /\ pc' \in {"gate", "tail", "finish", "done", "after", "final", "park", "wait"}
      BY <1>1 DEF DrainBegin, SettleEnd, Finish, After, Goto
    <3>2. UNCHANGED <<queue, todo, lines, keep>>
      BY <1>1 DEF DrainBegin, SettleEnd, Finish, After
    <3> QED BY <3>1, <3>2, SMTT(15) DEF Places, Replaying, IInv, TInv, ControlOK
  <2>2. final' \in BOOLEAN /\ sending' \in BOOLEAN
    BY <1>1, Zenon DEF DrainBegin, SettleEnd, Finish, After, IInv, TInv, TypeOK, EventsTyped,
       ControlTyped, FlushTyped
  <2>3. cycled' \in [Flushers -> BOOLEAN] /\ sawStart' \in [Flushers -> BOOLEAN]
    BY <1>1, Zenon DEF DrainBegin, SettleEnd, Finish, After, IInv, TInv, TypeOK, EventsTyped,
       ControlTyped, FlushTyped
  <2>4. TypeOK'
    <3>1. EventsTyped'
      BY <1>1, <2>1, <2>2, <2>3, Zenon DEF DrainBegin, SettleEnd, Finish, After, IInv, TInv,
         TypeOK, EventsTyped
    <3>2. ControlTyped'
      BY <1>1, <2>1, <2>2, <2>3, Zenon DEF DrainBegin, SettleEnd, Finish, After, IInv, TInv,
         TypeOK, ControlTyped
    <3>3. FlushTyped'
      BY <1>1, <2>1, <2>2, <2>3, Zenon DEF DrainBegin, SettleEnd, Finish, After, IInv, TInv,
         TypeOK, FlushTyped
    <3> QED BY <3>1, <3>2, <3>3 DEF TypeOK
  <2>5. UNCHANGED <<accepted, queue, overflowed, disk, sent, failed, vetoed,
                    lines, keep, todo>>
    BY <1>1 DEF DrainBegin, SettleEnd, Finish, After
  <2>6. ReplayOK' /\ LossOK'
    <3>1. Replaying' = Replaying
      BY <2>1 DEF Replaying
    <3> QED BY <2>5, <3>1, SameData
  <2> QED BY <2>1, <2>4, <2>6, SMTT(15) DEF IInv, TInv
<1>2. CASE LoopPop
  BY <1>2, PopInv DEF LoopPop
<1>3. CASE SettlePersist
  BY <1>3, PopInv DEF SettlePersist
<1>4. CASE SettleDrop
  <2> DEFINE batch == Range(Ring!Batch(queue, MaxBatch))
  <2>1. queue \in Seq(Events) /\ Len(queue) <= MaxQueue /\ failed \subseteq Events
    BY DEF IInv, TInv, TypeOK, EventsTyped, ControlTyped, FlushTyped
  <2>2. /\ Ring!Rest(queue, MaxBatch) \in Seq(Events)
        /\ Len(Ring!Rest(queue, MaxBatch)) <= MaxQueue /\ batch \subseteq Events
        /\ Range(queue) = batch \cup Range(Ring!Rest(queue, MaxBatch))
    BY <2>1, RingPop
  <2>3. queue' = Ring!Rest(queue, MaxBatch) /\ failed' = failed \cup batch
    BY <1>4 DEF SettleDrop
  <2> HIDE DEF batch
  <2>4. failed' \subseteq Events
    BY <2>1, <2>2, <2>3
  <2>5. TInv'
    <3>1. EventsTyped'
      BY <1>4, <2>2, <2>3, <2>4 DEF SettleDrop, IInv, TInv, TypeOK, EventsTyped
    <3>2. ControlTyped'
      BY <1>4, <2>2, <2>3, <2>4, SMTT(15) DEF SettleDrop, IInv, TInv, TypeOK, ControlTyped
    <3>3. FlushTyped'
      BY <1>4, <2>2, <2>3, <2>4 DEF SettleDrop, IInv, TInv, TypeOK, FlushTyped
    <3>4. ControlOK'
      BY <1>4, <2>2, <2>3, <2>4 DEF SettleDrop, IInv, TInv, ControlOK
    <3> QED BY <3>1, <3>2, <3>3, <3>4 DEF TInv, TypeOK
  <2>6. ReplayOK' /\ OnFile' = OnFile /\ InHand' = InHand
    BY <1>4 DEF SettleDrop, IInv, ReplayOK, Replaying, OnFile, InHand
  <2>7. Counted' = Counted \cup batch
    BY <1>4, <2>3 DEF SettleDrop, Counted
  <2>8. accepted' = accepted
    BY <1>4 DEF SettleDrop
  <2>9. LossOK'
    BY <2>2, <2>3, <2>6, <2>7, <2>8 DEF IInv, LossOK
  <2> QED BY <2>5, <2>6, <2>9 DEF IInv
<1> QED BY <1>1, <1>2, <1>3, <1>4, BranchInv DEF Drain

(* Persisting a run counts it or leaves it on disk, and every record the   *)
(* cap evicts is counted.                                                  *)
LEMMA PersistFacts ==
  ASSUME IInv, NEW run \in SUBSET Events, Persist(run)
  PROVE  /\ disk' \in Seq(SUBSET Events) /\ failed' \subseteq Events
         /\ record' \in BOOLEAN /\ failed \subseteq failed'
         /\ ~DirSyncFaults => Union(disk) \cup run \subseteq Union(disk') \cup failed'
<1>1. /\ disk \in Seq(SUBSET Events) /\ failed \subseteq Events
      /\ record \in BOOLEAN
  BY DEF IInv, TInv, TypeOK, EventsTyped, ControlTyped, FlushTyped
<1>2. ASSUME NEW d \in CapDrops
      PROVE  /\ Kept(d) \in Seq(SUBSET Events) /\ Evicted(d) \subseteq Events
             /\ Union(disk) = Evicted(d) \cup Union(Kept(d))
             /\ Append(Kept(d), run) \in Seq(SUBSET Events)
             /\ Union(Append(Kept(d), run)) = Union(Kept(d)) \cup run
  <2>1. d \in 0 .. Len(disk)
    BY <1>1, <1>2, LenProperties DEF CapDrops
  <2>2. /\ Kept(d) \in Seq(SUBSET Events) /\ Evicted(d) \subseteq Events
        /\ Union(disk) = Evicted(d) \cup Union(Kept(d))
    BY <1>1, <2>1, UnionSplit, Zenon DEF Kept, Evicted
  <2>3. ASSUME NEW k \in Seq(SUBSET Events)
        PROVE  /\ Append(k, run) \in Seq(SUBSET Events)
               /\ Union(Append(k, run)) = Union(k) \cup run
    BY UnionAppend
  <2> QED BY <2>2, <2>3
<1>3. CASE ~offline /\ failed' = failed \cup run /\ UNCHANGED <<disk, record>>
  BY <1>1, <1>3
<1>4. CASE Spill(run)
  <2>1. PICK d \in CapDrops : /\ disk' = Append(Kept(d), run)
                             /\ failed' = failed \cup Evicted(d)
    BY <1>4 DEF Spill
  <2>2. record' \in BOOLEAN
    BY <1>4, <1>1, SenderAssumption DEF Spill, Handoff
  <2> QED BY <1>1, <1>2, <2>1, <2>2
<1>5. CASE SpillFails(run)
  <2>1. PICK d \in CapDrops : /\ disk' \in {Kept(d), Append(Kept(d), run)}
                             /\ failed' = failed \cup Evicted(d) \cup run
    BY <1>5 DEF SpillFails
  <2>2. record' \in BOOLEAN
    BY <1>5, <1>1 DEF SpillFails
  <2> QED BY <1>1, <1>2, <2>1, <2>2
<1>6. CASE CapRewriteFails(run)
  <2>1. PICK d \in CapDrops : disk' = Kept(d) /\ failed' = failed \cup run
    BY <1>6 DEF CapRewriteFails
  <2>2. record' \in BOOLEAN /\ DirSyncFaults
    BY <1>6, <1>1 DEF CapRewriteFails
  <2> QED BY <1>1, <1>2, <2>1, <2>2
<1> QED BY <1>3, <1>4, <1>5, <1>6 DEF Persist

LEMMA SendRunInv ==
  ASSUME IInv, SendRun
  PROVE  IInv'
<1> USE DEF Goto, RunFrame
<1>t. /\ todo \in Seq(SUBSET Events) /\ disk \in Seq(SUBSET Events)
      /\ sent \subseteq Events /\ failed \subseteq Events
      /\ attempt \in 0 .. MaxRetries
  BY DEF IInv, TInv, TypeOK, EventsTyped, ControlTyped, FlushTyped
<1>1. CASE RunsDone \/ RunPost \/ Backoff \/ Return
  <2>1. pc' \in Places /\ ControlOK' /\ Replaying' = Replaying
    <3>c. ControlOK /\ back \in {"held", "settle", "settleTail"}
      BY SMTT(15) DEF IInv, TInv, TypeOK, ControlTyped
    <3> USE DEF Places, Replaying, ControlOK
    <3>1. CASE RunsDone
      BY <1>t, <3>c, <3>1, SMTT(15) DEF RunsDone
    <3>2. CASE RunPost
      BY <1>t, <3>c, <3>2, SMTT(15) DEF RunPost
    <3>3. CASE Backoff
      BY <1>t, <3>c, <3>3 DEF Backoff
    <3>4. CASE Return
      BY <1>t, <3>c, <3>4 DEF Return
    <3> QED BY <1>1, <3>1, <3>2, <3>3, <3>4
  <2>2. attempt' \in 0 .. MaxRetries
    <3>1. attempt' = attempt \/ attempt' = 0 \/ (Backoff /\ attempt' = attempt + 1)
      BY <1>1, Zenon DEF RunsDone, RunPost, Backoff, Return
    <3>2. Backoff => attempt < MaxRetries
      BY DEF Backoff, IInv, TInv, ControlOK
    <3> QED BY <3>1, <3>2, <1>t, SenderAssumption
  <2>3. persisting' \in BOOLEAN
    BY <1>1, Zenon DEF RunsDone, RunPost, Backoff, Return, IInv, TInv, TypeOK, EventsTyped,
       ControlTyped, FlushTyped
  <2>4. TypeOK'
    <3>1. EventsTyped'
      BY <1>1, <2>1, <2>2, <2>3, Zenon DEF RunsDone, RunPost, Backoff, Return, IInv, TInv,
         TypeOK, EventsTyped
    <3>2. ControlTyped'
      BY <1>1, <2>1, <2>2, <2>3, Zenon DEF RunsDone, RunPost, Backoff, Return, IInv, TInv,
         TypeOK, ControlTyped
    <3>3. FlushTyped'
      BY <1>1, <2>1, <2>2, <2>3, Zenon DEF RunsDone, RunPost, Backoff, Return, IInv, TInv,
         TypeOK, FlushTyped
    <3> QED BY <3>1, <3>2, <3>3 DEF TypeOK
  <2>5. UNCHANGED <<accepted, queue, overflowed, disk, sent, failed, vetoed,
                    lines, keep, todo>>
    BY <1>1, Zenon DEF RunsDone, RunPost, Backoff, Return
  <2>6. ReplayOK' /\ LossOK'
    BY <2>1, <2>5, SameData
  <2> QED BY <2>1, <2>4, <2>6, SMTT(15) DEF IInv, TInv
<1>2. CASE RunSplit
  <2>1. /\ Run \in SUBSET Events /\ Tail(todo) \in Seq(SUBSET Events)
        /\ Union(todo) = Run \cup Union(Tail(todo))
    BY <1>t, <1>2, UnionTail, Zenon DEF RunSplit, Run
  <2> DEFINE a == FirstHalf(Run)
             b == Run \ FirstHalf(Run)
             rest == Tail(todo)
  <2>2. a \in SUBSET Events /\ b \in SUBSET Events /\ a \cup b = Run
    BY <2>1 DEF FirstHalf
  <2>3. todo' = <<a, b>> \o rest
    BY <1>2 DEF RunSplit
  <2>4. rest \in Seq(SUBSET Events) /\ Union(todo) = Run \cup Union(rest)
    BY <2>1
  <2> HIDE DEF a, b, rest
  <2>5. <<a, b>> \in Seq(SUBSET Events) /\ Union(<<a, b>>) = a \cup b
    BY <2>2, UnionTwo
  <2>6. /\ <<a, b>> \o rest \in Seq(SUBSET Events)
        /\ Union(<<a, b>> \o rest) = Union(<<a, b>>) \cup Union(rest)
    <3>1. ASSUME NEW p \in Seq(SUBSET Events), NEW q \in Seq(SUBSET Events)
          PROVE  /\ p \o q \in Seq(SUBSET Events)
                 /\ Union(p \o q) = Union(p) \cup Union(q)
      BY UnionConcat
    <3> QED BY <2>4, <2>5, <3>1, Zenon
  <2>7. todo' \in Seq(SUBSET Events) /\ InHand' = InHand
    BY <2>2, <2>3, <2>4, <2>5, <2>6, Zenon DEF InHand
  <2>8. TInv'
    <3>1. EventsTyped'
      BY <1>2, <2>7 DEF RunSplit, IInv, TInv, TypeOK, EventsTyped
    <3>2. ControlTyped'
      BY <1>2, <2>7 DEF RunSplit, IInv, TInv, TypeOK, ControlTyped
    <3>3. FlushTyped'
      BY <1>2, <2>7 DEF RunSplit, IInv, TInv, TypeOK, FlushTyped
    <3>4. ControlOK'
      BY <1>2, <2>7, SMTT(15) DEF RunSplit, IInv, TInv, ControlOK
    <3> QED BY <3>1, <3>2, <3>3, <3>4 DEF TInv, TypeOK
  <2>9. ReplayOK' /\ OnFile' = OnFile /\ Counted' = Counted
    BY <1>2 DEF RunSplit, IInv, ReplayOK, Replaying, OnFile, Counted
  <2>10. LossOK'
    BY <1>2, <2>7, <2>9 DEF RunSplit, IInv, LossOK
  <2> QED BY <2>8, <2>9, <2>10 DEF IInv
<1>3. ASSUME todo # <<>>, Settled, ~Replaying, ~Replaying',
             UNCHANGED <<accepted, queue, overflowed, vetoed>>,
             sent \subseteq sent', failed \subseteq failed',
             ~DirSyncFaults => Union(disk) \cup Run \subseteq Union(disk') \cup failed' \cup sent'
      PROVE  ReplayOK' /\ LossOK' /\ todo' \in Seq(SUBSET Events)
  <2>1. /\ Run \in SUBSET Events /\ todo' \in Seq(SUBSET Events)
        /\ InHand = Run \cup InHand'
    BY <1>t, <1>3, UnionTail DEF Run, Settled, InHand
  <2>2. Counted \subseteq Counted' /\ sent' \cup failed' \subseteq Counted'
    BY <1>3 DEF Counted
  <2>3. LossOK'
    BY <1>3, <2>1, <2>2 DEF IInv, LossOK, OnFile
  <2> QED BY <1>3, <2>1, <2>3 DEF ReplayOK
<1>4. todo # <<>> => Run \in SUBSET Events
  BY <1>t, UnionTail DEF Run
<1>5. CASE RunFails
  <2>1. /\ todo # <<>> /\ Settled /\ ~Replaying /\ ~Replaying'
        /\ UNCHANGED <<accepted, queue, overflowed, vetoed, disk, sent>>
        /\ failed' = failed \cup Run
    BY <1>5 DEF RunFails, Replaying
  <2>2. ReplayOK' /\ LossOK' /\ todo' \in Seq(SUBSET Events)
    BY <1>3, <2>1
  <2>3. failed' \subseteq Events
    BY <1>t, <1>4, <2>1
  <2>4. TInv'
    <3>1. EventsTyped'
      BY <1>5, <2>2, <2>3 DEF RunFails, IInv, TInv, TypeOK, EventsTyped
    <3>2. ControlTyped'
      BY <1>5, <2>2, <2>3 DEF RunFails, IInv, TInv, TypeOK, ControlTyped
    <3>3. FlushTyped'
      BY <1>5, <2>2, <2>3 DEF RunFails, IInv, TInv, TypeOK, FlushTyped
    <3>4. ControlOK'
      BY <1>5, <2>2, <2>3 DEF RunFails, IInv, TInv, ControlOK
    <3> QED BY <3>1, <3>2, <3>3, <3>4 DEF TInv, TypeOK
  <2> QED BY <2>2, <2>4 DEF IInv
<1>6. CASE RunPersist \/ GiveUp
  <2>1. /\ todo # <<>> /\ Settled /\ ~Replaying /\ ~Replaying' /\ Persist(Run)
        /\ UNCHANGED <<accepted, queue, overflowed, vetoed, sent>>
    BY <1>6 DEF RunPersist, GiveUp, Replaying, IInv, TInv, ControlOK
  <2>2. /\ disk' \in Seq(SUBSET Events) /\ failed' \subseteq Events
        /\ record' \in BOOLEAN /\ failed \subseteq failed'
        /\ ~DirSyncFaults => Union(disk) \cup Run \subseteq Union(disk') \cup failed'
    <3>1. Run \in SUBSET Events
      BY <1>4, <2>1
    <3> QED BY <2>1, <3>1, PersistFacts
  <2>3. ReplayOK' /\ LossOK' /\ todo' \in Seq(SUBSET Events)
    BY <1>3, <2>1, <2>2, SMTT(15)
  <2>4. pc' \in Places /\ ControlOK'
    BY <1>6, SMTT(15) DEF RunPersist, GiveUp, Places, ControlOK
  <2>5. TypeOK'
    <3>1. EventsTyped'
      BY <1>6, <2>2, <2>3, <2>4 DEF RunPersist, GiveUp, IInv, TInv, TypeOK, EventsTyped
    <3>2. ControlTyped'
      <4>1. UNCHANGED <<hold, armedBy, stop, expired, final, sending, stopped,
                        persisting, attempt, back>>
        BY <1>6, SMTT(15) DEF RunPersist, GiveUp
      <4> QED BY <2>2, <2>4, <4>1, SMTT(15) DEF IInv, TInv, TypeOK, ControlTyped
    <3>3. FlushTyped'
      BY <1>6, <2>2, <2>3, <2>4 DEF RunPersist, GiveUp, IInv, TInv, TypeOK, FlushTyped
    <3> QED BY <3>1, <3>2, <3>3 DEF TypeOK
  <2> QED BY <2>3, <2>4, <2>5, SMTT(15) DEF IInv, TInv
<1>7. ASSUME NEW r \in Answers, Answer(r) PROVE IInv'
  <2>1. /\ todo # <<>> /\ ~Replaying /\ ~Replaying'
        /\ UNCHANGED <<accepted, queue, overflowed, vetoed, disk, lines, keep>>
        /\ sent \subseteq sent' /\ failed \subseteq failed'
    BY <1>7 DEF Answer, Replaying, IInv, TInv, ControlOK
  <2>2. ReplayOK' /\ LossOK' /\ todo' \in Seq(SUBSET Events)
    <3>1. CASE r \in Delivers \cup {"reject"}
      <4>1. Settled /\ Run \subseteq failed' \cup sent'
        BY <1>7, <3>1 DEF Answer
      <4> QED BY <1>3, <2>1, <4>1
    <3>2. CASE r \notin Delivers \cup {"reject"}
      <4>1. UNCHANGED <<sent, failed, todo>>
        BY <1>7, <3>2 DEF Answer
      <4>2. Replaying' = Replaying
        BY <2>1, SMTT(15) DEF Replaying
      <4> QED BY <1>t, <2>1, <4>1, <4>2, SameData, SMTT(15)
    <3> QED BY <3>1, <3>2
  <2>3. sent' \subseteq Events /\ failed' \subseteq Events
    BY <1>t, <1>4, <1>7, <2>1 DEF Answer
  <2>4. hold' \in BOOLEAN /\ armedBy' \in {"replay", "live"}
    BY <1>7, Zenon DEF Answer, Note, IInv, TInv, TypeOK, EventsTyped, ControlTyped, FlushTyped
  <2>5. record' \in BOOLEAN
    BY <1>7, SenderAssumption, Zenon DEF Answer, Handoff, IInv, TInv, TypeOK, EventsTyped,
       ControlTyped, FlushTyped
  <2>6. pc' \in Places /\ ControlOK'
    BY <1>7, <2>1 DEF Answer, Places, ControlOK
  <2>7. TypeOK'
    <3>1. EventsTyped'
      BY <1>7, <2>2, <2>3, <2>4, <2>5, <2>6, Zenon DEF Answer, IInv, TInv, TypeOK, EventsTyped
    <3>2. ControlTyped'
      BY <1>7, <2>2, <2>3, <2>4, <2>5, <2>6, Zenon DEF Answer, IInv, TInv, TypeOK, ControlTyped
    <3>3. FlushTyped'
      BY <1>7, <2>2, <2>3, <2>4, <2>5, <2>6 DEF Answer, IInv, TInv, TypeOK, FlushTyped
    <3> QED BY <3>1, <3>2, <3>3 DEF TypeOK
  <2> QED BY <2>2, <2>6, <2>7, SMTT(15) DEF IInv, TInv
<1> QED BY <1>1, <1>2, <1>5, <1>6, <1>7, BranchInv DEF SendRun
-----------------------------------------------------------------------------
LEMMA NextInv == IInv /\ [Next]_vars => IInv'
<1> SUFFICES ASSUME IInv, [Next]_vars PROVE IInv'
  OBVIOUS
<1>1. CASE SenderThread
  BY <1>1, ReplayInv, DrainInv, SendRunInv DEF SenderThread
<1>2. CASE Environment
  BY <1>2, EnvironmentInv
<1>3. CASE \E f \in Flushers : Flush(f)
  BY <1>3, FlushInv
<1>4. CASE UNCHANGED vars
  <2>1. TInv'
    <3>1. EventsTyped'
      BY <1>4, Zenon DEF vars, IInv, TInv, TypeOK, EventsTyped
    <3>2. ControlTyped'
      BY <1>4, Zenon DEF vars, IInv, TInv, TypeOK, ControlTyped
    <3>3. FlushTyped'
      BY <1>4, Zenon DEF vars, IInv, TInv, TypeOK, FlushTyped
    <3>4. ControlOK'
      BY <1>4, Zenon DEF vars, IInv, TInv, ControlOK
    <3> QED BY <3>1, <3>2, <3>3, <3>4 DEF TInv, TypeOK
  <2>2. ReplayOK' /\ LossOK'
    BY <1>4, SameData DEF vars, Replaying
  <2> QED BY <2>1, <2>2 DEF IInv
<1> QED BY <1>1, <1>2, <1>3, <1>4 DEF Next, Terminated

(* Every reachable state satisfies the inductive invariant.                *)
THEOREM DeliveryInvariant == Spec => []IInv
BY InitInv, NextInv, PTL DEF Spec

(* The sender's state always has its type: in particular the ring of       *)
(* queued events never exceeds its capacity and no POST is retried more    *)
(* than max_retries times.                                                 *)
THEOREM TypeCorrect == Spec => []TypeOK
<1>1. IInv => TypeOK
  BY DEF IInv, TInv
<1> QED BY <1>1, DeliveryInvariant, PTL

(* No accepted event is lost silently, for any number of events, flushers  *)
(* and retries, any sizes and any server: it is in the ring, in the        *)
(* sender's hands, on disk, delivered or counted, as long as no directory  *)
(* sync fails behind a completed rename.                                   *)
THEOREM NothingLostSilently == ~DirSyncFaults /\ Spec => []NoSilentLoss
<1>1. ~DirSyncFaults /\ IInv => NoSilentLoss
  <2> SUFFICES ASSUME ~DirSyncFaults, IInv PROVE NoSilentLoss
    OBVIOUS
  <2>1. keep \in Seq(SUBSET Events) /\ lines \in Seq(SUBSET Events)
    BY DEF IInv, TInv, TypeOK, EventsTyped, ControlTyped, FlushTyped
  <2>2. Union(keep \o lines) = Union(keep) \cup Union(lines)
    BY <2>1, UnionConcat
  <2>3. Union(Backlog) = OnFile
    BY <2>2 DEF Backlog, OnFile
  <2> QED BY <2>3 DEF IInv, LossOK, NoSilentLoss
<1>2. CASE ~DirSyncFaults
  <2>1. IInv => NoSilentLoss
    BY <1>1, <1>2
  <2> QED BY <2>1, DeliveryInvariant, PTL
<1>3. CASE DirSyncFaults
  BY <1>3, SMTT(15)
<1> QED BY <1>2, <1>3

-----------------------------------------------------------------------------
(* Backpressure windows.                                                   *)

(* Between the gate and the next look at the limiter, an open window can   *)
(* only be one that a replayed record opened: the gate lets nobody through *)
(* under a window, and a live POST that opens one leads to a step that     *)
(* looks.                                                                  *)
HoldOK ==
  hold /\ (\/ pc \in {"open", "line", "rpost", "rcheck", "rewrite", "loop", "post",
                      "backoff"}
           \/ pc = "run" /\ ~persisting)
    => armedBy = "replay"

LEMMA HoldNext ==
  ASSUME TypeOK, HoldOK, [Next]_vars
  PROVE  HoldOK'
<1> USE DEF HoldOK, Goto, Move
<1>1. CASE Replay
  <2>1. CASE ReplayBegin \/ ReplaySkip \/ ReplayStop \/ ReplayOversize \/ ReplayPost
    BY <2>1, Zenon DEF ReplayBegin, ReplaySkip, ReplayStop, ReplayOversize, ReplayPost
  <2>2. ASSUME NEW r \in Answers, ReplayAnswer(r) PROVE HoldOK'
    BY <2>2, Zenon DEF ReplayAnswer, Note
  <2>3. CASE ReplayCheck \/ Rewrite
    BY <2>3, Zenon DEF ReplayCheck, Rewrite
  <2> QED BY <1>1, <2>1, <2>2, <2>3 DEF Replay
<1>2. CASE Drain
  <2>1. CASE DrainBegin \/ Gate \/ LoopEnd \/ Held \/ TailDeadline \/ TailHold
    BY <2>1, Zenon DEF DrainBegin, Gate, LoopEnd, Held, TailDeadline, TailHold
  <2>2. CASE LoopPop
    BY <2>2, SMTT(15) DEF LoopPop, PopScrubbed
  <2>3. CASE SettlePersist
    BY <2>3 DEF SettlePersist, PopScrubbed
  <2>4. CASE SettleDrop \/ SettleEnd \/ Finish \/ After \/ Park
    BY <2>4, Zenon DEF SettleDrop, SettleEnd, Finish, After, Park
  <2> QED BY <1>2, <2>1, <2>2, <2>3, <2>4 DEF Drain
<1>3. CASE SendRun
  <2> USE DEF RunFrame
  <2>1. CASE RunsDone
    BY <2>1 DEF RunsDone, TypeOK, ControlTyped
  <2>2. CASE RunSplit \/ RunFails \/ RunPost \/ RunPersist
    BY <2>2, Zenon DEF RunSplit, RunFails, RunPost, RunPersist, Persists
  <2>3. ASSUME NEW r \in Answers, Answer(r) PROVE HoldOK'
    BY <2>3, SMTT(15) DEF Answer
  <2>4. CASE Retry \/ Backoff \/ GiveUp
    BY <2>4, Zenon DEF Retry, Backoff, GiveUp
  <2>5. CASE Return
    BY <2>5, Zenon DEF Return, TypeOK, ControlTyped
  <2> QED BY <1>3, <2>1, <2>2, <2>3, <2>4, <2>5, SMTT(15) DEF SendRun
<1>4. CASE Environment
  BY <1>4, Zenon DEF Environment, Capture, HoldLapses, StopRequest, DeadlinePasses
<1>5. ASSUME NEW f \in Flushers, Flush(f) PROVE HoldOK'
  BY <1>5, Zenon DEF Flush, FlushBegin, FlushReturn, FlushTimeout
<1>6. CASE UNCHANGED vars
  BY <1>6 DEF vars
<1> QED BY <1>1, <1>2, <1>3, <1>4, <1>5, <1>6 DEF Next, SenderThread, Terminated

(* A window opened by the answer to a live batch is honoured until it      *)
(* ends, for every server, retry bound and interleaving: no POST starts    *)
(* under it (drain's gate, the look after each batch, send_one's result).  *)
THEOREM WindowsAreHonoured == Spec => []LiveHoldHonoured
<1>1. Init => HoldOK
  BY DEF Init, HoldOK
<1>2. TypeOK /\ HoldOK /\ [Next]_vars => HoldOK'
  BY HoldNext
<1>3. HoldOK => LiveHoldHonoured
  BY DEF HoldOK, LiveHoldHonoured, Posting
<1> QED BY <1>1, <1>2, <1>3, TypeCorrect, PTL DEF Spec

-----------------------------------------------------------------------------
(* Shutdown, and the crash report.                                         *)

(* What the final drain has established by the time it looks at its last   *)
(* conditions: the ring is empty, or the deadline or a window that cannot  *)
(* end any more sends it to settle_queued.                                 *)
FinalOK ==
  /\ final \/ pc \in {"final", "done"} => stop
  /\ final /\ pc = "tail" => queue = <<>> \/ expired \/ hold
  /\ final /\ pc = "tailHold" => queue = <<>> \/ hold
  /\ final /\ pc = "finish" => queue = <<>>
  /\ pc = "done" => queue = <<>>

LEMMA FinalNext ==
  ASSUME HoldOutlivesStop, TypeOK, FinalOK, [Next]_vars
  PROVE  FinalOK'
<1> USE DEF FinalOK, Goto, Move
<1>t. final \in BOOLEAN /\ back \in {"held", "settle", "settleTail"}
  BY DEF TypeOK, ControlTyped
<1>1. CASE Replay
  <2>1. /\ UNCHANGED <<final, stop, queue, expired>>
        /\ pc' \notin {"final", "tail", "tailHold", "finish", "done"}
    BY <1>1, Zenon DEF Replay, ReplayBegin, ReplaySkip, ReplayStop, ReplayOversize, ReplayPost,
       ReplayAnswer, ReplayCheck, Rewrite
  <2> QED BY <2>1
<1>2. CASE Drain
  <2>1. CASE DrainBegin
    BY <1>t, <2>1 DEF DrainBegin
  <2>2. CASE Gate
    BY <1>t, <2>2 DEF Gate
  <2>3. CASE LoopEnd
    BY <1>t, <2>3 DEF LoopEnd
  <2>4. CASE Held
    BY <1>t, <2>4 DEF Held
  <2>5. CASE TailDeadline
    BY <1>t, <2>5 DEF TailDeadline
  <2>6. CASE TailHold
    BY <1>t, <2>6 DEF TailHold
  <2>7. CASE LoopPop
    BY <2>7 DEF LoopPop, PopScrubbed
  <2>8. CASE SettlePersist
    BY <2>8 DEF SettlePersist, PopScrubbed
  <2>9. CASE SettleDrop
    BY <1>t, <2>9 DEF SettleDrop
  <2>10. CASE SettleEnd
    BY <1>t, <2>10, SMTT(15) DEF SettleEnd
  <2>11. CASE Finish
    BY <1>t, <2>11 DEF Finish
  <2>12. CASE After
    BY <1>t, <2>12 DEF After
  <2>13. CASE Park
    BY <1>t, <2>13 DEF Park
  <2> QED BY <1>2, <2>1, <2>2, <2>3, <2>4, <2>5, <2>6, <2>7, <2>8, <2>9, <2>10, <2>11, <2>12,
             <2>13, Zenon DEF Drain
<1>3. CASE SendRun
  <2>1. /\ UNCHANGED <<final, stop, queue, expired>>
        /\ pc' \notin {"final", "tail", "tailHold", "finish", "done"}
    BY <1>3, <1>t, Zenon DEF SendRun, RunFrame, RunsDone, RunSplit, RunFails, RunPost, RunPersist,
       Answer, Retry, Backoff, GiveUp, Return
  <2> QED BY <2>1
<1>4. CASE Environment
  <2>1. CASE Capture
    BY <2>1 DEF Capture
  <2>2. CASE HoldLapses
    BY <2>2 DEF HoldLapses
  <2>3. CASE StopRequest
    BY <2>3 DEF StopRequest
  <2>4. CASE DeadlinePasses
    BY <2>4 DEF DeadlinePasses
  <2> QED BY <1>4, <2>1, <2>2, <2>3, <2>4, Zenon DEF Environment
<1>5. ASSUME NEW f \in Flushers, Flush(f) PROVE FinalOK'
  <2>1. UNCHANGED <<pc, final, stop, queue, expired, hold>>
    BY <1>5, Zenon DEF Flush, FlushBegin, FlushReturn, FlushTimeout
  <2> QED BY <2>1
<1>6. CASE UNCHANGED vars
  BY <1>6 DEF vars
<1> QED BY <1>1, <1>2, <1>3, <1>4, <1>5, <1>6, Zenon DEF Next, SenderThread, Terminated

(* When the sender thread has ended, ph_shutdown frees an empty ring and   *)
(* no run is in hand, for every ring, server and fault, provided that no   *)
(* backpressure window ends between the final drain's looks at it.         *)
THEOREM ShutdownLeavesNothing == HoldOutlivesStop /\ Spec => []ShutdownSettles
<1>1. Init => FinalOK
  BY DEF Init, FinalOK
<1>2. HoldOutlivesStop /\ TypeOK /\ FinalOK /\ [Next]_vars => FinalOK'
  BY FinalNext
<1>3. IInv /\ FinalOK => TypeOK /\ ShutdownSettles
  BY DEF FinalOK, ShutdownSettles, IInv, TInv, ControlOK
<1>4. CASE HoldOutlivesStop
  <2>1. TypeOK /\ FinalOK /\ [Next]_vars => FinalOK'
    BY <1>2, <1>4
  <2>2. IInv => TypeOK
    BY DEF IInv, TInv
  <2> QED BY <1>1, <1>3, <2>1, <2>2, DeliveryInvariant, PTL DEF Spec
<1>5. CASE ~HoldOutlivesStop
  BY <1>5
<1> QED BY <1>4, <1>5

(* A run whose persisting removes the crash record is on the file.         *)
LEMMA HandoffKeeps ==
  ASSUME IInv, NEW run \in SUBSET Events, Persist(run), record' # record
  PROVE  CrashEvent \in Union(disk')
<1>1. disk \in Seq(SUBSET Events) /\ record \in BOOLEAN
  BY DEF IInv, TInv, TypeOK, EventsTyped, ControlTyped
<1>2. Spill(run)
  BY SMTT(15) DEF Persist, SpillFails, CapRewriteFails
<1>3. CrashEvent \in run
  BY <1>1, <1>2, SenderAssumption DEF Spill, Handoff
<1>4. PICK d \in CapDrops : disk' = Append(Kept(d), run)
  BY <1>2 DEF Spill
<1>5. Kept(d) \in Seq(SUBSET Events)
  <2>1. d \in 0 .. Len(disk)
    BY <1>1, <1>4, LenProperties DEF CapDrops
  <2> QED BY <1>1, <2>1, UnionSplit DEF Kept
<1>6. Union(disk') = Union(Kept(d)) \cup run
  <2>1. ASSUME NEW k \in Seq(SUBSET Events)
        PROVE  Union(Append(k, run)) = Union(k) \cup run
    BY UnionAppend
  <2> QED BY <1>4, <1>5, <2>1
<1> QED BY <1>3, <1>6

(* The step that removes the crash record (ph_signal_crash_handoff_complete) *)
(* is one that has just delivered the report or written it to the spill    *)
(* file, whatever the server answers and whichever file operation fails.   *)
THEOREM CrashReportHandedOver == Spec => CrashRecordKept
<1>1. IInv /\ [Next]_vars => [~record' => CrashEvent \in sent' \cup Union(disk')]_record
  <2> SUFFICES ASSUME IInv, [Next]_vars, record' # record
               PROVE  CrashEvent \in sent' \cup Union(disk')
    OBVIOUS
  <2>1. todo \in Seq(SUBSET Events)
    BY SMTT(15) DEF IInv, TInv, TypeOK, EventsTyped
  <2>2. \/ RunPersist \/ GiveUp
        \/ \E r \in Answers : Answer(r)
    <3>1. ~Replay
      BY Zenon DEF Replay, ReplayBegin, ReplaySkip, ReplayStop, ReplayOversize, ReplayPost,
         ReplayAnswer, ReplayCheck, Rewrite, Move
    <3>2. ~Drain
      BY Zenon DEF Drain, DrainBegin, Gate, LoopEnd, Held, TailDeadline, TailHold, LoopPop,
         SettlePersist, PopScrubbed, SettleDrop, SettleEnd, Finish, After, Park, Move
    <3>3. ~(Environment \/ \E f \in Flushers : Flush(f))
      BY Zenon DEF Environment, Capture, HoldLapses, StopRequest, DeadlinePasses, Flush,
         FlushBegin, FlushReturn, FlushTimeout
    <3>4. ~(RunsDone \/ RunSplit \/ RunFails \/ RunPost \/ Retry \/ Backoff \/ Return)
      BY Zenon DEF RunsDone, RunSplit, RunFails, RunPost, Retry, Backoff, Return, Move
    <3> QED BY <3>1, <3>2, <3>3, <3>4 DEF Next, vars, SenderThread, SendRun, Terminated
  <2>3. CASE RunPersist \/ GiveUp
    <3>1. todo # <<>> /\ Persist(Run)
      BY <2>3 DEF RunPersist, GiveUp, Goto, IInv, TInv, ControlOK
    <3>2. Run \in SUBSET Events
      BY <2>1, <3>1, UnionTail DEF Run
    <3> QED BY <3>1, <3>2, HandoffKeeps
  <2>4. ASSUME NEW r \in Answers, Answer(r) PROVE CrashEvent \in sent'
    <3>1. r \in Delivers /\ Handoff(Run) /\ sent' = sent \cup Run
      BY <2>4 DEF Answer
    <3>2. record \in BOOLEAN
      BY DEF IInv, TInv, TypeOK, ControlTyped
    <3> QED BY <3>1, <3>2, SenderAssumption, Zenon DEF Handoff
  <2> QED BY <2>2, <2>3, <2>4
<1> QED BY <1>1, DeliveryInvariant, PTL DEF Spec, CrashRecordKept
=============================================================================
