------------------------ MODULE SenderDeliveryProofs ------------------------
(***************************************************************************)
(* How events travel and leave the delivery pipeline, on top of the        *)
(* invariant of SenderProofs: the backlog keeps capture order through      *)
(* every pop, split, spill, replay and rewrite; no event is in two places  *)
(* or counted twice; and ph_flush keeps its promise.                       *)
(***************************************************************************)
EXTENDS SenderProofs, FiniteSetTheorems

USE DEF ringVars, countVars, timeVars, replayVars, runVars, flushVars

(* Every event of the first set is older than every event of the second;   *)
(* a list of records, and a queue of events, in that order.                *)
Before(A, B) == \A a \in A, b \in B : a < b
Ordered(s) == \A i, j \in 1 .. Len(s) : i < j => Before(s[i], s[j])
Increasing(q) == \A i, j \in 1 .. Len(q) : i < j => q[i] < q[j]

LEMMA BeforeApart ==
  ASSUME NEW A \in SUBSET Events, NEW B \in SUBSET Events, Before(A, B)
  PROVE  A \cap B = {}
BY DEF Before, Events

LEMMA UnionMember ==
  ASSUME NEW S, NEW s \in Seq(SUBSET S)
  PROVE  \A x : x \in Union(s) <=> \E i \in 1 .. Len(s) : x \in s[i]
<1>1. Range(s) = {s[i] : i \in 1 .. Len(s)}
  BY RangeIsImage
<1> QED BY <1>1 DEF Union

LEMMA OrderedAppend ==
  ASSUME NEW s \in Seq(SUBSET Events), NEW r \in SUBSET Events,
         Ordered(s), Before(Union(s), r)
  PROVE  Ordered(Append(s, r))
<1>1. /\ Len(Append(s, r)) = Len(s) + 1 /\ Len(s) \in Nat
      /\ \A i \in 1 .. Len(s) : Append(s, r)[i] = s[i]
      /\ Append(s, r)[Len(s) + 1] = r
  BY AppendProperties, LenProperties
<1>2. \A i \in 1 .. Len(s) : Before(s[i], r)
  BY UnionMember DEF Before
<1> SUFFICES ASSUME NEW i \in 1 .. Len(s) + 1, NEW j \in 1 .. Len(s) + 1, i < j
             PROVE  Before(Append(s, r)[i], Append(s, r)[j])
  BY <1>1 DEF Ordered
<1>3. i \in 1 .. Len(s)
  BY <1>1
<1>4. CASE j \in 1 .. Len(s)
  BY <1>1, <1>3, <1>4 DEF Ordered
<1>5. CASE j = Len(s) + 1
  BY <1>1, <1>2, <1>3, <1>5
<1> QED BY <1>1, <1>4, <1>5

LEMMA OrderedTail ==
  ASSUME NEW s \in Seq(SUBSET Events), s # <<>>, Ordered(s)
  PROVE  Ordered(Tail(s)) /\ Before(Head(s), Union(Tail(s)))
<1>1. /\ Tail(s) \in Seq(SUBSET Events) /\ Len(Tail(s)) = Len(s) - 1
      /\ \A i \in 1 .. Len(Tail(s)) : Tail(s)[i] = s[i + 1]
  BY HeadTailProperties
<1>2. Len(s) \in Nat \ {0} /\ Head(s) = s[1]
  BY LenProperties, EmptySeq
<1>3. ASSUME NEW i \in 1 .. Len(Tail(s)), NEW j \in 1 .. Len(Tail(s)), i < j
      PROVE  Before(Tail(s)[i], Tail(s)[j])
  <2>1. i + 1 \in 1 .. Len(s) /\ j + 1 \in 1 .. Len(s) /\ i + 1 < j + 1
    BY <1>1, <1>2, <1>3
  <2> QED BY <1>1, <2>1 DEF Ordered
<1>4. ASSUME NEW i \in 1 .. Len(Tail(s)) PROVE Before(Head(s), Tail(s)[i])
  <2>1. i + 1 \in 1 .. Len(s) /\ 1 < i + 1 /\ 1 \in 1 .. Len(s)
    BY <1>1, <1>2
  <2> QED BY <1>1, <1>2, <2>1 DEF Ordered
<1>5. \A x \in Union(Tail(s)) : \E i \in 1 .. Len(Tail(s)) : x \in Tail(s)[i]
  BY <1>1, UnionMember
<1>6. Before(Head(s), Union(Tail(s)))
  BY <1>4, <1>5 DEF Before
<1> QED BY <1>3, <1>6 DEF Ordered

LEMMA OrderedSplit ==
  ASSUME NEW s \in Seq(SUBSET Events), NEW d \in 0 .. Len(s), Ordered(s)
  PROVE  /\ Ordered(SubSeq(s, d + 1, Len(s)))
         /\ Before(Union(SubSeq(s, 1, d)), Union(SubSeq(s, d + 1, Len(s))))
<1> DEFINE a == SubSeq(s, 1, d)
           b == SubSeq(s, d + 1, Len(s))
<1>1. /\ a \in Seq(SUBSET Events) /\ Len(a) = d
      /\ \A i \in 1 .. d : a[i] = s[i]
      /\ b \in Seq(SUBSET Events) /\ Len(b) = Len(s) - d
      /\ \A i \in 1 .. Len(s) - d : b[i] = s[d + i]
  BY Parts
<1>2. Len(s) \in Nat
  BY LenProperties
<1> HIDE DEF a, b
<1>3. ASSUME NEW i \in 1 .. Len(b), NEW j \in 1 .. Len(b), i < j
      PROVE  Before(b[i], b[j])
  <2>1. d + i \in 1 .. Len(s) /\ d + j \in 1 .. Len(s) /\ d + i < d + j
    BY <1>1, <1>2, <1>3
  <2> QED BY <1>1, <2>1, Zenon DEF Ordered
<1>4. ASSUME NEW i \in 1 .. d, NEW j \in 1 .. Len(b) PROVE Before(a[i], b[j])
  <2>1. i \in 1 .. Len(s) /\ d + j \in 1 .. Len(s) /\ i < d + j
    BY <1>1, <1>2
  <2> QED BY <1>1, <2>1, Zenon DEF Ordered
<1>5. /\ \A x \in Union(a) : \E i \in 1 .. d : x \in a[i]
      /\ \A x \in Union(b) : \E i \in 1 .. Len(b) : x \in b[i]
  BY <1>1, UnionMember, Zenon
<1>6. Before(Union(a), Union(b))
  BY <1>4, <1>5 DEF Before
<1> QED BY <1>3, <1>6 DEF Ordered, a, b

LEMMA OrderedConcat ==
  ASSUME NEW s \in Seq(SUBSET Events), NEW t \in Seq(SUBSET Events),
         Ordered(s), Ordered(t), Before(Union(s), Union(t))
  PROVE  Ordered(s \o t)
<1>1. /\ Len(s) \in Nat /\ Len(t) \in Nat /\ Len(s \o t) = Len(s) + Len(t)
      /\ \A i \in 1 .. Len(s) + Len(t) :
           (s \o t)[i] = IF i <= Len(s) THEN s[i] ELSE t[i - Len(s)]
  BY ConcatProperties, LenProperties
<1>2. \A i \in 1 .. Len(s), j \in 1 .. Len(t) : Before(s[i], t[j])
  BY UnionMember DEF Before
<1> SUFFICES ASSUME NEW i \in 1 .. Len(s) + Len(t), NEW j \in 1 .. Len(s) + Len(t), i < j
             PROVE  Before((s \o t)[i], (s \o t)[j])
  BY <1>1 DEF Ordered
<1>3. CASE j <= Len(s)
  BY <1>1, <1>3 DEF Ordered
<1>4. CASE i <= Len(s) /\ ~(j <= Len(s))
  <2>1. i \in 1 .. Len(s) /\ j - Len(s) \in 1 .. Len(t)
    BY <1>1, <1>4
  <2> QED BY <1>1, <1>2, <1>4, <2>1
<1>5. CASE ~(i <= Len(s))
  <2>1. /\ i - Len(s) \in 1 .. Len(t) /\ j - Len(s) \in 1 .. Len(t)
        /\ i - Len(s) < j - Len(s) /\ ~(j <= Len(s))
    BY <1>1, <1>5
  <2>2. (s \o t)[i] = t[i - Len(s)] /\ (s \o t)[j] = t[j - Len(s)]
    BY <1>1, <1>5, <2>1
  <2> QED BY <2>1, <2>2 DEF Ordered
<1> QED BY <1>1, <1>3, <1>4, <1>5

LEMMA OrderedTwo ==
  ASSUME NEW a, NEW b, Before(a, b)
  PROVE  Ordered(<<a, b>>)
<1>1. Len(<<a, b>>) = 2 /\ <<a, b>>[1] = a /\ <<a, b>>[2] = b
  OBVIOUS
<1>2. \A i, j \in 1 .. 2 : i < j => i = 1 /\ j = 2
  OBVIOUS
<1> QED BY <1>1, <1>2 DEF Ordered

LEMMA OrderedEmpty == Ordered(<<>>)
<1>1. Len(<<>>) = 0
  OBVIOUS
<1> QED BY <1>1 DEF Ordered

LEMMA OrderedOne == \A a : Ordered(<<a>>)
<1>1. \A a : Len(<<a>>) = 1
  OBVIOUS
<1> QED BY <1>1 DEF Ordered

(* A pushed event is the newest of the ring, and is not evicted; a popped  *)
(* batch is older than what stays.                                         *)
LEMMA RingPushOrder ==
  ASSUME NEW q \in Seq(Events), Len(q) <= MaxQueue, NEW e \in Events,
         Increasing(q), \A x \in Range(q) : x < e
  PROVE  /\ Increasing(Ring!Pushed(q, e))
         /\ Ring!Evicted(q) \subseteq Range(q)
         /\ Ring!Evicted(q) \cap Range(Ring!Pushed(q, e)) = {}
<1>1. Len(q) \in Nat /\ MaxQueue \in Nat \ {0}
  BY LenProperties, SenderAssumption
<1>2. ASSUME NEW s \in Seq(Events), Increasing(s), \A x \in Range(s) : x < e
      PROVE  Increasing(Append(s, e))
  <2>1. /\ Len(Append(s, e)) = Len(s) + 1 /\ Len(s) \in Nat
        /\ \A i \in 1 .. Len(s) : Append(s, e)[i] = s[i]
        /\ Append(s, e)[Len(s) + 1] = e
    BY AppendProperties, LenProperties
  <2>2. \A i \in 1 .. Len(s) : s[i] < e
    BY <1>2, RangeIsImage
  <2>3. ASSUME NEW i \in 1 .. Len(s) + 1, NEW j \in 1 .. Len(s) + 1, i < j
        PROVE  Append(s, e)[i] < Append(s, e)[j]
    <3>1. i \in 1 .. Len(s) /\ (j \in 1 .. Len(s) \/ j = Len(s) + 1)
      BY <2>1, <2>3
    <3> QED BY <1>2, <2>1, <2>2, <2>3, <3>1 DEF Increasing
  <2> QED BY <2>1, <2>3 DEF Increasing
<1>3. CASE Len(q) = MaxQueue
  <2>1. q # <<>>
    BY <1>1, <1>3, EmptySeq
  <2>2. /\ Head(q) \in Events /\ Tail(q) \in Seq(Events) /\ Len(Tail(q)) = Len(q) - 1
        /\ \A i \in 1 .. Len(Tail(q)) : Tail(q)[i] = q[i + 1]
        /\ Head(q) = q[1]
    BY <2>1, HeadTailProperties
  <2>3. Range(q) = {Head(q)} \cup Range(Tail(q))
    BY <2>1, RangeTail
  <2>4. ASSUME NEW i \in 1 .. Len(Tail(q)) PROVE Head(q) < Tail(q)[i]
    <3>1. i + 1 \in 1 .. Len(q) /\ 1 \in 1 .. Len(q) /\ 1 < i + 1
      BY <1>1, <2>2
    <3> QED BY <2>2, <3>1 DEF Increasing
  <2>5. Increasing(Tail(q))
    <3>1. ASSUME NEW i \in 1 .. Len(Tail(q)), NEW j \in 1 .. Len(Tail(q)), i < j
          PROVE  Tail(q)[i] < Tail(q)[j]
      <4>1. i + 1 \in 1 .. Len(q) /\ j + 1 \in 1 .. Len(q) /\ i + 1 < j + 1
        BY <1>1, <2>2, <3>1
      <4> QED BY <2>2, <4>1 DEF Increasing
    <3> QED BY <3>1 DEF Increasing
  <2>6. /\ Ring!Pushed(q, e) = Append(Tail(q), e)
        /\ Ring!Evicted(q) = {Head(q)}
    BY <1>3 DEF Ring!Pushed, Ring!Evicted, Ring!Full
  <2>7. Increasing(Append(Tail(q), e))
    BY <1>2, <2>2, <2>3, <2>5, Zenon
  <2>8. Range(Append(Tail(q), e)) = Range(Tail(q)) \cup {e}
    <3>1. \A s \in Seq(Events), x \in Events : Range(Append(s, x)) = Range(s) \cup {x}
      BY RangeAppend
    <3> QED BY <2>2, <3>1
  <2>9. \A x \in Range(Tail(q)) \cup {e} : Head(q) < x
    <3>1. Range(Tail(q)) = {Tail(q)[i] : i \in 1 .. Len(Tail(q))}
      BY <2>2, RangeIsImage
    <3> QED BY <2>3, <2>4, <3>1
  <2>10. Head(q) \notin Range(Append(Tail(q), e))
    BY <2>2, <2>8, <2>9 DEF Events
  <2> QED BY <2>3, <2>6, <2>7, <2>10
<1>4. CASE Len(q) # MaxQueue
  <2>1. Ring!Pushed(q, e) = Append(q, e) /\ Ring!Evicted(q) = {}
    BY <1>4 DEF Ring!Pushed, Ring!Evicted, Ring!Full
  <2> QED BY <1>2, <2>1
<1> QED BY <1>3, <1>4

LEMMA RingPopOrder ==
  ASSUME NEW q \in Seq(Events), Increasing(q)
  PROVE  /\ Increasing(Ring!Rest(q, MaxBatch))
         /\ Before(Range(Ring!Batch(q, MaxBatch)), Range(Ring!Rest(q, MaxBatch)))
<1> DEFINE d == Ring!Taken(q, MaxBatch)
           a == SubSeq(q, 1, d)
           b == SubSeq(q, d + 1, Len(q))
<1>1. Len(q) \in Nat
  BY LenProperties
<1>2. d \in 0 .. Len(q)
  BY <1>1, SenderAssumption DEF Ring!Taken
<1> HIDE DEF d
<1>3. /\ a \in Seq(Events) /\ Len(a) = d
      /\ \A i \in 1 .. d : a[i] = q[i]
      /\ b \in Seq(Events) /\ Len(b) = Len(q) - d
      /\ \A i \in 1 .. Len(q) - d : b[i] = q[d + i]
  BY <1>2, Parts
<1>4. a = Ring!Batch(q, MaxBatch) /\ b = Ring!Rest(q, MaxBatch)
  BY DEF d, Ring!Batch, Ring!Rest
<1> HIDE DEF a, b
<1>5. ASSUME NEW i \in 1 .. Len(b), NEW j \in 1 .. Len(b), i < j
      PROVE  b[i] < b[j]
  <2>1. d + i \in 1 .. Len(q) /\ d + j \in 1 .. Len(q) /\ d + i < d + j
    BY <1>1, <1>2, <1>3, <1>5
  <2> QED BY <1>3, <2>1 DEF Increasing
<1>6. ASSUME NEW i \in 1 .. d, NEW j \in 1 .. Len(b) PROVE a[i] < b[j]
  <2>1. i \in 1 .. Len(q) /\ d + j \in 1 .. Len(q) /\ i < d + j
    BY <1>1, <1>2, <1>3
  <2> QED BY <1>3, <2>1 DEF Increasing
<1>7. Range(a) = {a[i] : i \in 1 .. d} /\ Range(b) = {b[i] : i \in 1 .. Len(b)}
  BY <1>3, RangeIsImage
<1>8. Before(Range(a), Range(b))
  BY <1>6, <1>7 DEF Before
<1> QED BY <1>4, <1>5, <1>8 DEF Increasing

(* Halving a run keeps its order.                                          *)
LEMMA HalvesInOrder ==
  ASSUME NEW run \in SUBSET Events
  PROVE  Before(FirstHalf(run), run \ FirstHalf(run))
<1>1. IsFiniteSet(run)
  <2>1. IsFiniteSet(1 .. MaxEvents)
    BY SenderAssumption, FS_Interval
  <2> QED BY <2>1, FS_Subset, Zenon DEF Events
<1> SUFFICES ASSUME NEW a \in FirstHalf(run), NEW b \in run \ FirstHalf(run), ~(a < b)
             PROVE  FALSE
  BY DEF Before
<1>2. a \in run /\ a \in Int /\ b \in Int /\ b <= a
  BY DEF FirstHalf, Events
<1> DEFINE A == {d \in run : d <= a}
           B == {d \in run : d <= b}
<1>3. B \subseteq A
  <2>1. ASSUME NEW d \in run, d <= b PROVE d <= a
    <3>1. d \in Int
      BY DEF Events
    <3> QED BY <1>2, <2>1, <3>1
  <2> QED BY <2>1
<1>4. /\ IsFiniteSet(A) /\ Cardinality(B) <= Cardinality(A)
      /\ Cardinality(A) \in Nat /\ Cardinality(B) \in Nat /\ Cardinality(run) \in Nat
  <2>1. IsFiniteSet(A) /\ IsFiniteSet(B)
    BY <1>1, FS_Subset
  <2>2. Cardinality(B) <= Cardinality(A)
    BY <1>3, <2>1, FS_Subset
  <2> QED BY <1>1, <2>1, <2>2, FS_CardinalityType
<1>5. 2 * Cardinality(A) <= Cardinality(run) /\ ~(2 * Cardinality(B) <= Cardinality(run))
  BY DEF FirstHalf
<1> HIDE DEF A, B
<1> QED BY <1>4, <1>5

-----------------------------------------------------------------------------
(* What a step may do to the lists of events: the eight kinds besides a    *)
(* capture, the end of a replay's loop and its rewrite of the file.        *)
RingBatch == Range(Ring!Batch(queue, MaxBatch))

Still ==
  /\ UNCHANGED <<accepted, queue, overflowed, disk, sent, failed, vetoed, lines, keep,
                 todo>>
  /\ Replaying' = Replaying

Opened ==
  /\ ~Replaying /\ Replaying'
  /\ lines' = disk /\ keep' = <<>>
  /\ UNCHANGED <<accepted, queue, overflowed, disk, sent, failed, vetoed, todo>>

Tried ==
  /\ lines # <<>> /\ lines' = Tail(lines)
  /\ Replaying /\ Replaying'
  /\ UNCHANGED <<accepted, queue, overflowed, disk, vetoed, todo>>
  /\ \/ sent' = sent \cup Head(lines) /\ UNCHANGED <<failed, keep>>
     \/ failed' = failed \cup Head(lines) /\ UNCHANGED <<sent, keep>>
     \/ keep' = Append(keep, Head(lines)) /\ UNCHANGED <<sent, failed>>

Popped ==
  /\ ~Replaying /\ ~Replaying'
  /\ todo = <<>>
  /\ queue' = Ring!Rest(queue, MaxBatch)
  /\ \E gone \in SUBSET RingBatch :
       /\ vetoed' = vetoed \cup gone
       /\ todo' = IF RingBatch = gone THEN <<>> ELSE <<RingBatch \ gone>>
  /\ UNCHANGED <<accepted, overflowed, disk, sent, failed>>

Dropped ==
  /\ ~Replaying /\ ~Replaying'
  /\ todo = <<>> /\ todo' = <<>>
  /\ queue' = Ring!Rest(queue, MaxBatch)
  /\ failed' = failed \cup RingBatch
  /\ UNCHANGED <<accepted, overflowed, disk, sent, vetoed>>

Halved ==
  /\ ~Replaying /\ ~Replaying'
  /\ todo # <<>>
  /\ todo' = <<FirstHalf(Run), Run \ FirstHalf(Run)>> \o Tail(todo)
  /\ UNCHANGED <<accepted, queue, overflowed, disk, sent, failed, vetoed>>

RunSettled ==
  /\ ~Replaying /\ ~Replaying'
  /\ todo # <<>> /\ Settled
  /\ UNCHANGED <<accepted, queue, overflowed, vetoed>>
  /\ \/ sent' = sent \cup Run /\ UNCHANGED <<disk, failed>>
     \/ failed' = failed \cup Run /\ UNCHANGED <<disk, sent>>
     \/ Persist(Run) /\ UNCHANGED sent

LEMMA StepKinds ==
  ASSUME IInv, [Next]_vars
  PROVE  \/ Still \/ Capture \/ Opened \/ Tried \/ ReplayStop \/ Rewrite
         \/ Popped \/ Dropped \/ Halved \/ RunSettled
<1> USE DEF Goto, Replaying
<1>c. ControlOK
  BY DEF IInv, TInv
<1>1. CASE Replay
  <2>1. CASE ReplaySkip \/ ReplayPost \/ ReplayCheck
    BY <2>1 DEF ReplaySkip, ReplayPost, ReplayCheck, Move, Still
  <2>2. CASE ReplayBegin
    BY <2>2 DEF ReplayBegin, Opened
  <2>3. CASE ReplayOversize
    BY <2>3 DEF ReplayOversize, Tried
  <2>4. ASSUME NEW r \in Answers, ReplayAnswer(r) PROVE Tried
    BY <1>c, <2>4 DEF ReplayAnswer, Tried, ControlOK, Delivers
  <2> QED BY <1>1, <2>1, <2>2, <2>3, <2>4 DEF Replay
<1>2. CASE Drain
  <2>1. CASE Gate \/ LoopEnd \/ Held \/ TailDeadline \/ TailHold \/ Park
    BY <2>1 DEF Gate, LoopEnd, Held, TailDeadline, TailHold, Park, Move, Still
  <2>2. CASE DrainBegin \/ SettleEnd \/ Finish \/ After
    BY <2>2 DEF DrainBegin, SettleEnd, Finish, After, Still
  <2>3. ASSUME NEW next, pc \in {"loop", "settle", "settleTail"}, PopScrubbed(next)
        PROVE  Popped
    <3>1. todo = <<>> /\ ~Replaying /\ ~Replaying'
      BY <1>c, <2>3 DEF PopScrubbed, ControlOK
    <3>2. Vetoes(RingBatch) \subseteq SUBSET RingBatch
      BY DEF Vetoes
    <3> QED BY <2>3, <3>1, <3>2, Zenon DEF PopScrubbed, Popped, RingBatch
  <2>4. CASE LoopPop \/ SettlePersist
    BY <2>3, <2>4 DEF LoopPop, SettlePersist
  <2>5. CASE SettleDrop
    BY <1>c, <2>5 DEF SettleDrop, Dropped, RingBatch, ControlOK
  <2> QED BY <1>2, <2>1, <2>2, <2>4, <2>5, SMTT(15) DEF Drain
<1>3. CASE SendRun
  <2> USE DEF RunFrame
  <2>1. CASE RunsDone \/ RunPost \/ Retry \/ Backoff \/ Return
    <3>1. back \in {"held", "settle", "settleTail"}
      BY DEF IInv, TInv, TypeOK, ControlTyped
    <3> QED BY <2>1, <3>1 DEF RunsDone, RunPost, Retry, Backoff, Return, Move, Still
  <2>2. CASE RunSplit
    BY <2>2 DEF RunSplit, Halved
  <2>3. CASE RunFails
    BY <2>3 DEF RunFails, RunSettled
  <2>4. CASE RunPersist \/ GiveUp
    BY <1>c, <2>4 DEF RunPersist, GiveUp, RunSettled, ControlOK
  <2>5. ASSUME NEW r \in Answers, Answer(r) PROVE RunSettled \/ Still
    BY <1>c, <2>5 DEF Answer, RunSettled, Still, ControlOK, Delivers
  <2> QED BY <1>3, <2>1, <2>2, <2>3, <2>4, <2>5 DEF SendRun
<1>4. CASE Environment
  BY <1>4 DEF Environment, HoldLapses, StopRequest, DeadlinePasses, Still
<1>5. ASSUME NEW f \in Flushers, Flush(f) PROVE Still
  BY <1>5 DEF Flush, FlushBegin, FlushReturn, FlushTimeout, Still
<1>6. CASE UNCHANGED vars
  BY <1>6 DEF vars, Still
<1> QED BY <1>1, <1>2, <1>3, <1>4, <1>5, <1>6 DEF Next, SenderThread, Terminated

LEMMA SeqTypes ==
  ASSUME IInv
  PROVE  /\ disk \in Seq(SUBSET Events) /\ todo \in Seq(SUBSET Events)
         /\ lines \in Seq(SUBSET Events) /\ keep \in Seq(SUBSET Events)
         /\ queue \in Seq(Events) /\ Len(queue) <= MaxQueue
         /\ accepted \in 0 .. MaxEvents
         /\ Union(disk) \subseteq Events /\ InHand \subseteq Events
         /\ Range(queue) \subseteq Events
<1>1. /\ disk \in Seq(SUBSET Events) /\ todo \in Seq(SUBSET Events)
      /\ lines \in Seq(SUBSET Events) /\ keep \in Seq(SUBSET Events)
      /\ queue \in Seq(Events) /\ Len(queue) <= MaxQueue
      /\ accepted \in 0 .. MaxEvents
  BY DEF IInv, TInv, TypeOK, EventsTyped
<1>2. ASSUME NEW s \in Seq(SUBSET Events) PROVE Union(s) \subseteq Events
  <2>1. Range(s) \subseteq SUBSET Events
    BY RangeIsImage
  <2> QED BY <2>1 DEF Union
<1>3. Range(queue) \subseteq Events
  BY <1>1, RangeIsImage
<1> QED BY <1>1, <1>2, <1>3 DEF InHand

(* What a capture changes.                                                 *)
LEMMA CaptureFrame ==
  ASSUME IInv, Capture
  PROVE  /\ accepted + 1 \in Events /\ accepted' = accepted + 1 /\ accepted \in Nat
         /\ queue' = Ring!Pushed(queue, accepted + 1)
         /\ overflowed' = overflowed \cup Ring!Evicted(queue)
         /\ UNCHANGED <<disk, todo, keep, lines, pc, sent, failed, vetoed, fpc, target>>
<1>1. /\ accepted < MaxEvents /\ accepted' = accepted + 1
      /\ queue' = Ring!Pushed(queue, accepted + 1)
      /\ overflowed' = overflowed \cup Ring!Evicted(queue)
  BY DEF Capture
<1>2. UNCHANGED <<disk, todo, keep, lines, pc, sent, failed, vetoed, fpc, target>>
  BY DEF Capture
<1>3. accepted \in 0 .. MaxEvents /\ MaxEvents \in Nat
  BY SeqTypes, SenderAssumption
<1>4. accepted + 1 \in Events /\ accepted \in Nat
  BY <1>1, <1>3 DEF Events
<1> QED BY <1>1, <1>2, <1>4

(* The sender's hands after a pop, before and after a run is halved, and   *)
(* the run it turns to next.                                               *)
LEMMA PoppedInHand ==
  ASSUME IInv, NEW gone \in SUBSET RingBatch,
         todo' = IF RingBatch = gone THEN <<>> ELSE <<RingBatch \ gone>>
  PROVE  InHand' = RingBatch \ gone /\ todo' \in Seq(SUBSET Events) /\ Ordered(todo')
<1>1. CASE RingBatch = gone
  <2>1. todo' = <<>>
    BY <1>1
  <2>2. Ordered(<<>>) /\ Union(<<>>) = {}
    BY OrderedEmpty, UnionEmpty
  <2> QED BY <1>1, <2>1, <2>2 DEF InHand
<1>2. CASE RingBatch # gone
  <2>1. RingBatch \subseteq Events
    BY SeqTypes, RingPop DEF RingBatch
  <2>2. ASSUME NEW r \in SUBSET Events
        PROVE  <<r>> \in Seq(SUBSET Events) /\ Ordered(<<r>>) /\ Union(<<r>>) = r
    BY OrderedOne, UnionOne
  <2> QED BY <1>2, <2>1, <2>2 DEF InHand
<1> QED BY <1>1, <1>2

LEMMA RunInHand ==
  ASSUME IInv, todo # <<>>
  PROVE  /\ Run \in SUBSET Events /\ Tail(todo) \in Seq(SUBSET Events)
         /\ InHand = Run \cup Union(Tail(todo))
         /\ Ordered(todo) => Ordered(Tail(todo)) /\ Before(Run, Union(Tail(todo)))
BY SeqTypes, UnionTail, OrderedTail, Zenon DEF Run, InHand

LEMMA HalvedInHand ==
  ASSUME IInv, Halved
  PROVE  InHand' = InHand /\ (Ordered(todo) => Ordered(todo'))
<1> DEFINE a == FirstHalf(Run)
           b == Run \ FirstHalf(Run)
           rest == Tail(todo)
<1>1. /\ Run \in SUBSET Events /\ rest \in Seq(SUBSET Events)
      /\ InHand = Run \cup Union(rest) /\ todo' = <<a, b>> \o rest
      /\ Ordered(todo) => Ordered(rest) /\ Before(Run, Union(rest))
  BY RunInHand DEF Halved
<1>2. a \in SUBSET Events /\ b \in SUBSET Events /\ a \cup b = Run /\ Before(a, b)
  <2>1. Before(a, b)
    BY <1>1, HalvesInOrder
  <2> QED BY <1>1, <2>1 DEF FirstHalf
<1> HIDE DEF a, b, rest
<1>3. <<a, b>> \in Seq(SUBSET Events) /\ Union(<<a, b>>) = a \cup b /\ Ordered(<<a, b>>)
  BY <1>2, UnionTwo, OrderedTwo
<1>4. ASSUME NEW p \in Seq(SUBSET Events), NEW q \in Seq(SUBSET Events)
      PROVE  /\ Union(p \o q) = Union(p) \cup Union(q)
             /\ Ordered(p) /\ Ordered(q) /\ Before(Union(p), Union(q)) => Ordered(p \o q)
  BY UnionConcat, OrderedConcat
<1> QED BY <1>1, <1>2, <1>3, <1>4, Zenon DEF InHand

-----------------------------------------------------------------------------
(* Capture order, list by list: the file, then the runs in hand, then the  *)
(* ring.  During a replay the file still holds every record, and what is   *)
(* kept of it is older than what is still to be tried.                     *)
OrderOK ==
  /\ Ordered(disk) /\ Ordered(todo) /\ Increasing(queue)
  /\ Replaying => Ordered(keep) /\ Ordered(lines) /\ Before(Union(keep), Union(lines))
  /\ Before(Union(disk), InHand) /\ Before(Union(disk), Range(queue))
  /\ Before(InHand, Range(queue))
  /\ \A e \in Union(disk) \cup InHand \cup Range(queue) : e <= accepted

(* Persisting the oldest run in hand keeps the file in order; the records  *)
(* the cap evicts, or else the run, are counted and leave the file.        *)
LEMMA PersistOrder ==
  ASSUME IInv, OrderOK, NEW run \in SUBSET Events, Before(Union(disk), run), Persist(run)
  PROVE  /\ Ordered(disk') /\ Union(disk') \subseteq Union(disk) \cup run
         /\ ~IoFaults => \E X \in SUBSET (Union(disk) \cup run) :
                           failed' = failed \cup X /\ Union(disk') \cap X = {}
<1>1. disk \in Seq(SUBSET Events) /\ Ordered(disk) /\ Union(disk) \subseteq Events
  BY SeqTypes DEF OrderOK
<1>2. ASSUME NEW A \in SUBSET Events, NEW B \in SUBSET Events, Before(A, B)
      PROVE  A \cap B = {}
  BY <1>2, BeforeApart
<1>3. ASSUME NEW d \in CapDrops
      PROVE  /\ Ordered(Kept(d)) /\ Ordered(Append(Kept(d), run))
             /\ Evicted(d) \subseteq Union(disk) /\ Union(Kept(d)) \subseteq Union(disk)
             /\ Evicted(d) \cap Union(Kept(d)) = {} /\ Evicted(d) \cap run = {}
             /\ Union(Append(Kept(d), run)) = Union(Kept(d)) \cup run
  <2>1. d \in 0 .. Len(disk)
    BY <1>1, <1>3, LenProperties DEF CapDrops
  <2>2. /\ Kept(d) \in Seq(SUBSET Events) /\ Evicted(d) \subseteq Events
        /\ Union(disk) = Evicted(d) \cup Union(Kept(d))
    BY <1>1, <2>1, UnionSplit DEF Kept, Evicted
  <2>3. Ordered(Kept(d)) /\ Before(Evicted(d), Union(Kept(d)))
    BY <1>1, <2>1, OrderedSplit DEF Kept, Evicted
  <2>4. Before(Union(Kept(d)), run) /\ Before(Evicted(d), run)
    BY <2>2 DEF Before
  <2>5. ASSUME NEW k \in Seq(SUBSET Events), Ordered(k), Before(Union(k), run)
        PROVE  Ordered(Append(k, run)) /\ Union(Append(k, run)) = Union(k) \cup run
    BY <2>5, OrderedAppend, UnionAppend
  <2>6. Ordered(Append(Kept(d), run)) /\ Union(Append(Kept(d), run)) = Union(Kept(d)) \cup run
    BY <2>2, <2>3, <2>4, <2>5
  <2>7. Evicted(d) \cap Union(Kept(d)) = {} /\ Evicted(d) \cap run = {}
    <3>1. Union(Kept(d)) \in SUBSET Events /\ Evicted(d) \in SUBSET Events
      BY <1>1, <2>2
    <3> QED BY <1>2, <2>3, <2>4, <3>1
  <2> QED BY <2>2, <2>3, <2>6, <2>7
<1>4. Union(disk) \cap run = {}
  BY <1>1, <1>2
<1>5. CASE ~offline /\ failed' = failed \cup run /\ UNCHANGED <<disk, record>>
  BY <1>1, <1>4, <1>5
<1>6. CASE Spill(run)
  <2>1. PICK d \in CapDrops : /\ disk' = Append(Kept(d), run)
                             /\ failed' = failed \cup Evicted(d)
    BY <1>6 DEF Spill
  <2>2. Union(disk') = Union(Kept(d)) \cup run /\ Ordered(disk')
    BY <1>3, <2>1
  <2>3. Union(disk') \cap Evicted(d) = {}
    BY <1>3, <2>2
  <2> QED BY <1>3, <2>1, <2>2, <2>3, SMTT(15)
<1>7. CASE SpillFails(run)
  <2>1. PICK d \in CapDrops : disk' \in {Kept(d), Append(Kept(d), run)}
    BY <1>7 DEF SpillFails
  <2>2. IoFaults
    BY <1>7 DEF SpillFails
  <2> QED BY <1>3, <2>1, <2>2, Zenon
<1>8. CASE CapRewriteFails(run)
  <2>1. PICK d \in CapDrops : disk' = Kept(d) /\ failed' = failed \cup run
    BY <1>8 DEF CapRewriteFails
  <2>2. Union(disk') \cap run = {}
    BY <1>3, <1>4, <2>1
  <2> QED BY <1>3, <2>1, <2>2
<1> QED BY <1>5, <1>6, <1>7, <1>8, SMTT(15) DEF Persist

LEMMA OrderNext ==
  ASSUME IInv, OrderOK, [Next]_vars
  PROVE  OrderOK'
<1>t. /\ disk \in Seq(SUBSET Events) /\ todo \in Seq(SUBSET Events)
      /\ lines \in Seq(SUBSET Events) /\ keep \in Seq(SUBSET Events)
      /\ queue \in Seq(Events) /\ Len(queue) <= MaxQueue
      /\ accepted \in 0 .. MaxEvents
      /\ Union(disk) \subseteq Events /\ InHand \subseteq Events
      /\ Range(queue) \subseteq Events
  BY SeqTypes
<1>e. Ordered(<<>>) /\ Union(<<>>) = {}
  BY OrderedEmpty, UnionEmpty
<1>1. CASE Still
  BY <1>1 DEF Still, OrderOK, InHand
<1>2. CASE Capture
  <2>1. /\ accepted + 1 \in Events /\ accepted' = accepted + 1 /\ accepted \in Nat
        /\ UNCHANGED <<disk, todo, keep, lines, pc>>
    BY <1>2, CaptureFrame
  <2>2. ASSUME NEW e \in Union(disk) \cup InHand \cup Range(queue)
        PROVE  e < accepted + 1
    <3>1. e \in Events /\ e <= accepted
      BY <1>t DEF OrderOK
    <3> QED BY <2>1, <3>1 DEF Events
  <2>3. Increasing(queue') /\ Range(queue') \subseteq Range(queue) \cup {accepted + 1}
    <3>1. Increasing(Ring!Pushed(queue, accepted + 1))
      BY <1>t, <2>1, <2>2, RingPushOrder DEF OrderOK
    <3>2. Range(queue) \cup {accepted + 1} =
            Range(Ring!Pushed(queue, accepted + 1)) \cup Ring!Evicted(queue)
      BY <1>t, <2>1, RingPush
    <3> QED BY <1>2, <3>1, <3>2, SMTT(15) DEF Capture
  <2>4. Before(Union(disk), Range(queue')) /\ Before(InHand, Range(queue'))
    BY <2>2, <2>3 DEF OrderOK, Before
  <2>5. ASSUME NEW e \in Union(disk) \cup InHand \cup Range(queue')
        PROVE  e <= accepted'
    <3>1. CASE e = accepted + 1
      BY <2>1, <3>1
    <3>2. CASE e # accepted + 1
      <4>1. e \in Union(disk) \cup InHand \cup Range(queue)
        BY <2>3, <3>2
      <4>2. e \in Events /\ e <= accepted
        BY <1>t, <4>1 DEF OrderOK
      <4> QED BY <2>1, <4>2 DEF Events
    <3> QED BY <3>1, <3>2
  <2>6. InHand' = InHand /\ Replaying' = Replaying
    BY <2>1 DEF InHand, Replaying
  <2> QED BY <2>1, <2>3, <2>4, <2>5, <2>6 DEF OrderOK
<1>3. CASE Opened
  <2>1. Union(keep') = {} /\ Ordered(keep')
    BY <1>3, <1>e, SMTT(15) DEF Opened
  <2> QED BY <1>3, <2>1 DEF Opened, OrderOK, Before, InHand
<1>4. CASE Tried
  <2>1. /\ Head(lines) \in SUBSET Events /\ Union(lines) = Head(lines) \cup Union(lines')
        /\ Ordered(lines') /\ Before(Head(lines), Union(lines'))
    BY <1>t, <1>4, UnionTail, OrderedTail, Zenon DEF Tried, OrderOK
  <2>2. Ordered(keep') /\ Before(Union(keep'), Union(lines'))
    <3>1. Ordered(keep) /\ Before(Union(keep), Union(lines))
      BY <1>4 DEF Tried, OrderOK
    <3>2. CASE keep' = keep
      BY <2>1, <3>1, <3>2 DEF Before
    <3>3. CASE keep' = Append(keep, Head(lines))
      <4>1. ASSUME NEW h \in SUBSET Events, Before(Union(keep), h)
            PROVE  /\ Ordered(Append(keep, h))
                   /\ Union(Append(keep, h)) = Union(keep) \cup h
        <5>1. Ordered(Append(keep, h))
          BY <1>t, <3>1, <4>1, OrderedAppend
        <5>2. Union(Append(keep, h)) = Union(keep) \cup h
          <6>1. \A s \in Seq(SUBSET Events), r \in SUBSET Events :
                  Union(Append(s, r)) = Union(s) \cup r
            BY UnionAppend
          <6> QED BY <1>t, <6>1, Zenon
        <5> QED BY <5>1, <5>2
      <4>2. Before(Union(keep), Head(lines))
        BY <2>1, <3>1 DEF Before
      <4>3. Ordered(keep') /\ Union(keep') = Union(keep) \cup Head(lines)
        BY <2>1, <3>3, <4>1, <4>2
      <4> QED BY <2>1, <3>1, <4>3 DEF Before
    <3> QED BY <1>4, <3>2, <3>3 DEF Tried
  <2> QED BY <1>4, <2>1, <2>2 DEF Tried, OrderOK, InHand
<1>5. CASE ReplayStop
  <2>1. /\ keep' = keep \o lines /\ lines' = <<>> /\ Replaying
        /\ UNCHANGED <<accepted, queue, disk, todo>>
    BY <1>5 DEF ReplayStop, Goto, Replaying
  <2>2. Ordered(keep')
    BY <1>t, <2>1, OrderedConcat, Zenon DEF OrderOK
  <2>3. Ordered(lines') /\ Union(lines') = {}
    BY <1>e, <2>1
  <2> QED BY <2>1, <2>2, <2>3 DEF OrderOK, Before, InHand
<1>6. CASE Rewrite
  <2>1. /\ Replaying /\ ~Replaying' /\ disk' \in {keep, disk}
        /\ UNCHANGED <<accepted, queue, todo>>
    BY <1>6, SMTT(15) DEF Rewrite, Goto, Replaying
  <2>2. Union(disk') \subseteq Union(disk) /\ Ordered(disk')
    BY <2>1 DEF OrderOK, IInv, ReplayOK
  <2> QED BY <2>1, <2>2 DEF OrderOK, Before, InHand
<1>7. ASSUME queue' = Ring!Rest(queue, MaxBatch), ~Replaying', todo = <<>>,
             todo' \in Seq(SUBSET Events), Ordered(todo'), InHand' \subseteq RingBatch,
             UNCHANGED <<accepted, disk>>
      PROVE  OrderOK'
  <2>1. Range(queue) = RingBatch \cup Range(queue')
    BY <1>t, <1>7, RingPop DEF RingBatch
  <2>2. Increasing(queue') /\ Before(RingBatch, Range(queue'))
    BY <1>t, <1>7, RingPopOrder DEF OrderOK, RingBatch
  <2> QED BY <1>7, <2>1, <2>2 DEF OrderOK, Before
<1>8. CASE Popped
  <2>1. PICK gone \in SUBSET RingBatch :
          todo' = IF RingBatch = gone THEN <<>> ELSE <<RingBatch \ gone>>
    BY <1>8, Zenon DEF Popped
  <2>2. todo' \in Seq(SUBSET Events) /\ Ordered(todo') /\ InHand' \subseteq RingBatch
    BY <2>1, PoppedInHand, Zenon
  <2> QED BY <1>7, <1>8, <2>2 DEF Popped
<1>9. CASE Dropped
  <2>1. todo' \in Seq(SUBSET Events) /\ Ordered(todo') /\ InHand' \subseteq RingBatch
    BY <1>9, <1>e, SMTT(15) DEF Dropped, InHand
  <2> QED BY <1>7, <1>9, <2>1 DEF Dropped
<1>10. todo # <<>> => /\ Run \in SUBSET Events /\ Tail(todo) \in Seq(SUBSET Events)
                      /\ InHand = Run \cup Union(Tail(todo))
                      /\ Ordered(Tail(todo)) /\ Before(Run, Union(Tail(todo)))
  BY RunInHand, SMTT(15) DEF OrderOK
<1>11. CASE Halved
  <2>1. Ordered(todo') /\ InHand' = InHand
    BY <1>11, HalvedInHand DEF OrderOK
  <2>2. UNCHANGED <<disk, queue, accepted>> /\ ~Replaying'
    BY <1>11 DEF Halved
  <2> QED BY <2>1, <2>2 DEF OrderOK
<1>12. CASE RunSettled
  <2>1. /\ todo # <<>> /\ InHand' = Union(Tail(todo)) /\ todo' = Tail(todo) /\ ~Replaying'
        /\ UNCHANGED <<accepted, queue>>
    BY <1>12 DEF RunSettled, Settled, InHand
  <2>2. Before(Union(disk), Run)
    BY <1>10, <2>1 DEF OrderOK, Before
  <2>3. Ordered(disk') /\ Union(disk') \subseteq Union(disk) \cup Run
    <3>1. CASE UNCHANGED disk
      BY <3>1 DEF OrderOK
    <3>2. CASE Persist(Run)
      <4>1. Run \in SUBSET Events
        BY <1>10, <2>1
      <4> QED BY <2>2, <3>2, <4>1, PersistOrder
    <3> QED BY <1>12, <3>1, <3>2, SMTT(15) DEF RunSettled
  <2> QED BY <1>10, <2>1, <2>3 DEF OrderOK, Before
<1> QED BY <1>1, <1>2, <1>3, <1>4, <1>5, <1>6, <1>8, <1>9, <1>11, <1>12, StepKinds

LEMMA InitOrder == Init => OrderOK
<1> SUFFICES ASSUME Init PROVE OrderOK
  OBVIOUS
<1>0. accepted \in Nat /\ accepted <= MaxEvents
  BY SenderAssumption DEF Init
<1>1. DOMAIN disk = 1 .. accepted /\ \A i \in 1 .. accepted : disk[i] = {i}
  BY DEF Init
<1>2. IInv
  BY InitInv
<1>3. disk \in Seq(SUBSET Events) /\ Len(disk) = accepted
  <2>1. disk \in Seq(SUBSET Events)
    BY <1>2, SeqTypes
  <2>2. DOMAIN disk = 1 .. Len(disk) /\ Len(disk) \in Nat
    BY <2>1, LenProperties
  <2>3. Len(disk) = accepted
    BY <1>0, <1>1, <2>2
  <2> QED BY <2>1, <2>3
<1>4. Ordered(disk)
  BY <1>0, <1>1, <1>3 DEF Ordered, Before
<1>5. \A e \in Union(disk) : e <= accepted
  <2>1. \A e \in Union(disk) : \E i \in 1 .. Len(disk) : e \in disk[i]
    BY <1>3, UnionMember
  <2> QED BY <1>0, <1>1, <1>3, <2>1
<1>6. /\ queue = <<>> /\ todo = <<>> /\ Ordered(todo) /\ InHand = {} /\ Range(queue) = {}
      /\ ~Replaying /\ Increasing(queue)
  <2>1. queue = <<>> /\ todo = <<>> /\ ~Replaying
    BY DEF Init, Replaying
  <2>2. Range(queue) = {} /\ Len(queue) = 0
    BY <2>1 DEF Range
  <2>3. Increasing(queue)
    BY <2>2 DEF Increasing
  <2>4. Ordered(todo) /\ InHand = {}
    BY <2>1, OrderedEmpty, UnionEmpty DEF InHand
  <2> QED BY <2>1, <2>2, <2>3, <2>4
<1> QED BY <1>4, <1>5, <1>6 DEF OrderOK, Before

(* Every reachable state keeps capture order across the file, the runs in *)
(* hand and the ring, list by list.                                        *)
THEOREM OrderInvariant == Spec => [](IInv /\ OrderOK)
<1>1. IInv /\ OrderOK /\ [Next]_vars => OrderOK'
  BY OrderNext
<1> QED BY <1>1, InitOrder, DeliveryInvariant, PTL DEF Spec

(* The backlog keeps capture order, for every ring, batch and split size,  *)
(* every server and every fault of the file system, a failed rewrite and a *)
(* failed directory sync included.                                         *)
THEOREM BacklogKeepsOrder == Spec => []BacklogInOrder
<1>1. IInv /\ OrderOK => BacklogInOrder
  <2> SUFFICES ASSUME IInv, OrderOK PROVE BacklogInOrder
    OBVIOUS
  <2> DEFINE Q == [i \in DOMAIN queue |-> {queue[i]}]
  <2>1. /\ disk \in Seq(SUBSET Events) /\ todo \in Seq(SUBSET Events)
        /\ lines \in Seq(SUBSET Events) /\ keep \in Seq(SUBSET Events)
        /\ queue \in Seq(Events)
    BY SeqTypes
  <2>2. DOMAIN queue = 1 .. Len(queue) /\ Len(queue) \in Nat /\ Range(queue) \subseteq Events
    BY <2>1, LenProperties, RangeIsImage
  <2>3. Q \in Seq(SUBSET Events) /\ Len(Q) = Len(queue)
    <3>1. \A i \in 1 .. Len(queue) : {queue[i]} \in SUBSET Events
      BY <2>1, ElementOfSeq
    <3>2. Q = [i \in 1 .. Len(queue) |-> {queue[i]}]
      BY <2>2
    <3> HIDE DEF Q
    <3> QED BY <2>2, <3>1, <3>2
  <2>4. Union(Q) = Range(queue)
    BY SMTT(15) DEF Union, Range
  <2>5. Ordered(Q)
    BY <2>2, <2>3 DEF OrderOK, Increasing, Ordered, Before
  <2> HIDE DEF Q
  <2>6. ASSUME NEW p \in Seq(SUBSET Events), NEW q \in Seq(SUBSET Events),
               Ordered(p), Ordered(q), Before(Union(p), Union(q))
        PROVE  /\ p \o q \in Seq(SUBSET Events) /\ Ordered(p \o q)
               /\ Union(p \o q) = Union(p) \cup Union(q)
    BY <2>6, UnionConcat, OrderedConcat
  <2>7. /\ Backlog \in Seq(SUBSET Events) /\ Ordered(Backlog)
        /\ Union(Backlog) \subseteq Union(disk)
    <3>1. CASE Replaying
      BY <2>1, <2>6, <3>1, SMTT(15) DEF Backlog, OrderOK, IInv, ReplayOK
    <3>2. CASE ~Replaying
      BY <2>1, <3>2 DEF Backlog, OrderOK
    <3> QED BY <3>1, <3>2, SMTT(15)
  <2>8. /\ Before(Union(Backlog), Union(todo))
        /\ Before(Union(Backlog) \cup Union(todo), Union(Q))
    BY <2>4, <2>7, SMTT(15) DEF OrderOK, InHand, Before
  <2>9. /\ Backlog \o todo \in Seq(SUBSET Events) /\ Ordered(Backlog \o todo)
        /\ Union(Backlog \o todo) = Union(Backlog) \cup Union(todo)
    BY <2>1, <2>6, <2>7, <2>8 DEF OrderOK
  <2> DEFINE b == Backlog \o todo \o Q
  <2>10. b \in Seq(SUBSET Events) /\ Ordered(b)
    BY <2>3, <2>5, <2>6, <2>8, <2>9, Zenon
  <2>11. DOMAIN b = 1 .. Len(b)
    BY <2>10, LenProperties
  <2> HIDE DEF b
  <2>12. \A i, j \in DOMAIN b : i < j => \A d \in b[i], e \in b[j] : d < e
    BY <2>10, <2>11 DEF Ordered, Before
  <2> QED BY <2>12 DEF BacklogInOrder, b, Q
<1> QED BY <1>1, OrderInvariant, PTL

-----------------------------------------------------------------------------
(* The counters and the lists share no event.                              *)
Pending == Range(queue) \cup InHand \cup OnFile

OnceOK ==
  /\ Pending \cap Counted = {}
  /\ sent \cap failed = {} /\ sent \cap vetoed = {} /\ sent \cap overflowed = {}
  /\ failed \cap vetoed = {} /\ failed \cap overflowed = {} /\ vetoed \cap overflowed = {}
  /\ \A e \in Counted : e <= accepted

(* What is pending is typed and captured already.                          *)
LEMMA PendingTypes ==
  ASSUME IInv, OrderOK
  PROVE  /\ OnFile \subseteq Union(disk) /\ Pending \subseteq Events
         /\ \A e \in Pending : e <= accepted
<1>1. OnFile \subseteq Union(disk)
  BY DEF OnFile, IInv, ReplayOK
<1> QED BY <1>1, SeqTypes DEF OrderOK, Pending

(* A step that moves pending events into one counter.                      *)
LEMMA Transfer ==
  ASSUME IInv, OrderOK, OnceOK, NEW X \in SUBSET Pending,
         Pending' \subseteq Pending, X \cap Pending' = {}, UNCHANGED accepted,
         \/ sent' = sent \cup X /\ UNCHANGED <<failed, vetoed, overflowed>>
         \/ failed' = failed \cup X /\ UNCHANGED <<sent, vetoed, overflowed>>
         \/ vetoed' = vetoed \cup X /\ UNCHANGED <<sent, failed, overflowed>>
  PROVE  OnceOK'
<1>1. Counted' = Counted \cup X
  BY DEF Counted
<1>2. Pending' \cap Counted' = {}
  BY <1>1 DEF OnceOK
<1>3. \A e \in Counted' : e <= accepted'
  BY <1>1, PendingTypes DEF OnceOK
<1>4. /\ X \cap sent = {} /\ X \cap failed = {} /\ X \cap vetoed = {} /\ X \cap overflowed = {}
  BY DEF OnceOK, Counted
<1>5. /\ (sent \cap failed)' = {} /\ (sent \cap vetoed)' = {} /\ (sent \cap overflowed)' = {}
      /\ (failed \cap vetoed)' = {} /\ (failed \cap overflowed)' = {}
      /\ (vetoed \cap overflowed)' = {}
  BY <1>4 DEF OnceOK
<1> QED BY <1>2, <1>3, <1>5 DEF OnceOK

LEMMA OnceNext ==
  ASSUME ~IoFaults, IInv, OrderOK, OnceOK, [Next]_vars
  PROVE  OnceOK'
<1>t. /\ disk \in Seq(SUBSET Events) /\ todo \in Seq(SUBSET Events)
      /\ lines \in Seq(SUBSET Events) /\ keep \in Seq(SUBSET Events)
      /\ queue \in Seq(Events) /\ Len(queue) <= MaxQueue
      /\ accepted \in 0 .. MaxEvents
      /\ Union(disk) \subseteq Events /\ InHand \subseteq Events
      /\ Range(queue) \subseteq Events
  BY SeqTypes
<1>p. /\ OnFile \subseteq Union(disk) /\ Pending \subseteq Events
      /\ \A e \in Pending : e <= accepted
  BY PendingTypes
<1>a. ASSUME NEW A \in SUBSET Events, NEW B \in SUBSET Events, Before(A, B)
      PROVE  A \cap B = {}
  BY <1>a, BeforeApart
<1>0. ASSUME Pending' \subseteq Pending, UNCHANGED <<accepted, sent, failed, vetoed, overflowed>>
      PROVE  OnceOK'
  BY <1>0 DEF OnceOK, Counted
<1>1. CASE Still
  <2>1. Pending' = Pending
    BY <1>1 DEF Still, Pending, InHand, OnFile
  <2> QED BY <1>0, <1>1, <2>1 DEF Still
<1>2. CASE Capture
  <2>1. /\ accepted + 1 \in Events /\ accepted' = accepted + 1 /\ accepted \in Nat
        /\ UNCHANGED <<disk, todo, keep, lines, pc, sent, failed, vetoed>>
        /\ overflowed' = overflowed \cup Ring!Evicted(queue)
    BY <1>2, CaptureFrame
  <2>2. ASSUME NEW e \in Range(queue) PROVE e < accepted + 1
    <3>1. e \in Events /\ e <= accepted
      BY <1>t DEF OrderOK
    <3> QED BY <2>1, <3>1 DEF Events
  <2> DEFINE X == Ring!Evicted(queue)
  <2>3. /\ X \subseteq Range(queue) /\ X \cap Range(queue') = {}
        /\ Range(queue') \subseteq Range(queue) \cup {accepted + 1}
    <3>1. /\ Ring!Evicted(queue) \subseteq Range(queue)
          /\ Ring!Evicted(queue) \cap Range(Ring!Pushed(queue, accepted + 1)) = {}
      BY <1>t, <2>1, <2>2, RingPushOrder DEF OrderOK
    <3>2. Range(queue) \cup {accepted + 1} =
            Range(Ring!Pushed(queue, accepted + 1)) \cup Ring!Evicted(queue)
      BY <1>t, <2>1, RingPush
    <3> QED BY <1>2, <3>1, <3>2 DEF Capture
  <2> HIDE DEF X
  <2>4. InHand' = InHand /\ OnFile' = OnFile
    BY <2>1 DEF InHand, OnFile, Replaying
  <2>5. Range(queue) \cap Union(disk) = {} /\ Range(queue) \cap InHand = {}
    <3>1. Union(disk) \cap Range(queue) = {} /\ InHand \cap Range(queue) = {}
      BY <1>a, <1>t DEF OrderOK
    <3> QED BY <3>1
  <2>6. X \cap Pending' = {} /\ Pending' \subseteq Pending \cup {accepted + 1} /\ X \subseteq Pending
    BY <1>p, <2>3, <2>4, <2>5 DEF Pending
  <2>7. accepted + 1 \notin Counted /\ accepted + 1 \notin Pending
    BY <1>p, <2>1 DEF OnceOK
  <2>8. Counted' = Counted \cup X
    BY <2>1 DEF Counted, X
  <2>9. Pending' \cap Counted' = {}
    BY <2>6, <2>7, <2>8 DEF OnceOK
  <2>10. ASSUME NEW e \in Counted' PROVE e <= accepted'
    <3>1. e \in Counted \cup Pending
      BY <2>6, <2>8
    <3>2. e <= accepted
      BY <1>p, <3>1 DEF OnceOK
    <3>3. e \in Nat
      BY <3>1, <1>p DEF Counted, IInv, TInv, TypeOK, EventsTyped, Events
    <3> QED BY <2>1, <3>2, <3>3
  <2>11. X \cap sent = {} /\ X \cap failed = {} /\ X \cap vetoed = {}
    BY <2>6 DEF OnceOK, Counted
  <2> QED BY <2>1, <2>9, <2>10, <2>11 DEF OnceOK, X
<1>3. CASE Opened
  <2>1. Union(keep') = {}
    BY <1>3, UnionEmpty DEF Opened
  <2>2. Pending' = Pending
    BY <1>3, <2>1 DEF Opened, Pending, InHand, OnFile
  <2> QED BY <1>0, <1>3, <2>2 DEF Opened
<1>4. CASE Tried
  <2>1. /\ Head(lines) \in SUBSET Events /\ Union(lines) = Head(lines) \cup Union(lines')
        /\ Before(Head(lines), Union(lines')) /\ Before(Union(keep), Head(lines))
    <3>1. /\ Head(lines) \in SUBSET Events /\ Union(lines) = Head(lines) \cup Union(lines')
          /\ Before(Head(lines), Union(lines'))
      BY <1>t, <1>4, UnionTail, OrderedTail, Zenon DEF Tried, OrderOK
    <3>2. Before(Union(keep), Union(lines))
      BY <1>4 DEF Tried, OrderOK
    <3> QED BY <3>1, <3>2 DEF Before
  <2>2. /\ OnFile = Union(keep) \cup Union(lines) /\ OnFile' = Union(keep') \cup Union(lines')
        /\ InHand' = InHand /\ InHand = {} /\ queue' = queue
    <3>1. todo = <<>>
      BY <1>4 DEF Tried, Replaying, IInv, TInv, ControlOK
    <3> QED BY <1>4, <3>1, UnionEmpty DEF Tried, OnFile, InHand
  <2>3. CASE keep' = keep
    <3>1. Head(lines) \cap Union(lines') = {} /\ Union(keep) \cap Head(lines) = {}
      <4>1. Union(keep) \in SUBSET Events /\ Union(lines') \in SUBSET Events
        BY <1>p, <1>t, <2>1, <2>2
      <4> QED BY <1>a, <2>1, <4>1
    <3>2. Range(queue) \cap Head(lines) = {}
      <4>1. Union(disk) \cap Range(queue) = {}
        BY <1>a, <1>t DEF OrderOK
      <4> QED BY <1>p, <2>1, <2>2, <4>1
    <3>3. /\ Head(lines) \in SUBSET Pending /\ Pending' \subseteq Pending
          /\ Head(lines) \cap Pending' = {}
      BY <2>1, <2>2, <2>3, <3>1, <3>2 DEF Pending
    <3>4. CASE UNCHANGED <<sent, failed>>
      BY <1>0, <1>4, <3>3, <3>4 DEF Tried
    <3>5. CASE ~UNCHANGED <<sent, failed>>
      BY <1>4, <3>3, <3>5, Transfer, Zenon DEF Tried
    <3> QED BY <3>4, <3>5
  <2>4. CASE keep' = Append(keep, Head(lines)) /\ UNCHANGED <<sent, failed>>
    <3>1. ASSUME NEW h \in SUBSET Events
          PROVE  Union(Append(keep, h)) = Union(keep) \cup h
      <4>1. keep \in Seq(SUBSET Events)
        BY <1>t
      <4> QED BY <4>1, UnionAppend
    <3>2. Union(keep') = Union(keep) \cup Head(lines)
      BY <2>1, <2>4, <3>1
    <3>3. Pending' = Pending
      BY <2>1, <2>2, <3>2 DEF Pending
    <3> QED BY <1>0, <1>4, <2>4, <3>3 DEF Tried
  <2> QED BY <1>4, <2>3, <2>4 DEF Tried
<1>5. CASE ReplayStop
  <2>1. /\ keep' = keep \o lines /\ lines' = <<>> /\ Replaying /\ Replaying'
        /\ UNCHANGED <<accepted, queue, disk, todo, sent, failed, vetoed, overflowed>>
    BY <1>5 DEF ReplayStop, Goto, Replaying
  <2>2. Union(keep') = Union(keep) \cup Union(lines) /\ Union(lines') = {}
    <3>1. keep \in Seq(SUBSET Events) /\ lines \in Seq(SUBSET Events)
      BY <1>t
    <3>2. Union(keep \o lines) = Union(keep) \cup Union(lines)
      BY <3>1, UnionConcat
    <3> QED BY <2>1, <3>2, UnionEmpty
  <2>3. Pending' = Pending
    BY <2>1, <2>2 DEF Pending, InHand, OnFile
  <2> QED BY <1>0, <2>1, <2>3
<1>6. CASE Rewrite
  <2>1. /\ Replaying /\ ~Replaying' /\ disk' = keep
        /\ UNCHANGED <<accepted, queue, todo, sent, failed, vetoed, overflowed>>
    BY <1>6 DEF Rewrite, Goto, Replaying
  <2>2. Pending' \subseteq Pending
    BY <2>1 DEF Pending, InHand, OnFile
  <2> QED BY <1>0, <2>1, <2>2
<1>7. ASSUME queue' = Ring!Rest(queue, MaxBatch), ~Replaying, ~Replaying', UNCHANGED disk,
             todo = <<>>, NEW X \in SUBSET RingBatch, InHand' = RingBatch \ X
      PROVE  X \in SUBSET Pending /\ Pending' \subseteq Pending /\ X \cap Pending' = {}
  <2>1. Range(queue) = RingBatch \cup Range(queue') /\ RingBatch \cap Range(queue') = {}
    <3>1. Range(queue) = RingBatch \cup Range(queue')
      BY <1>t, <1>7, RingPop DEF RingBatch
    <3>2. Before(RingBatch, Range(queue'))
      BY <1>t, <1>7, RingPopOrder DEF OrderOK, RingBatch
    <3>3. RingBatch \in SUBSET Events /\ Range(queue') \in SUBSET Events
      BY <1>t, <3>1
    <3> QED BY <1>a, <3>1, <3>2, <3>3
  <2>2. Union(disk) \cap Range(queue) = {} /\ OnFile = Union(disk) /\ OnFile' = Union(disk)
    <3>1. Union(disk) \cap Range(queue) = {}
      BY <1>a, <1>t DEF OrderOK
    <3>2. OnFile = Union(disk)
      BY <1>7, Zenon DEF OnFile
    <3>3. OnFile' = Union(disk)
      BY <1>7, Zenon DEF OnFile, Union, Range
    <3> QED BY <3>1, <3>2, <3>3, Zenon
  <2> QED BY <1>7, <2>1, <2>2 DEF Pending
<1>8. CASE Popped
  <2>1. PICK gone \in SUBSET RingBatch :
          /\ vetoed' = vetoed \cup gone
          /\ todo' = IF RingBatch = gone THEN <<>> ELSE <<RingBatch \ gone>>
    BY <1>8, Zenon DEF Popped
  <2>2. InHand' = RingBatch \ gone
    BY <2>1, PoppedInHand
  <2>3. gone \in SUBSET Pending /\ Pending' \subseteq Pending /\ gone \cap Pending' = {}
    BY <1>7, <1>8, <2>2 DEF Popped
  <2> QED BY <1>8, <2>1, <2>3, Transfer DEF Popped
<1>9. CASE Dropped
  <2>1. InHand' = RingBatch \ RingBatch
    BY <1>9, UnionEmpty DEF Dropped, InHand
  <2>2. RingBatch \in SUBSET Pending /\ Pending' \subseteq Pending /\ RingBatch \cap Pending' = {}
    BY <1>7, <1>9, <2>1 DEF Dropped
  <2> QED BY <1>9, <2>2, Transfer DEF Dropped
<1>10. todo # <<>> => /\ Run \in SUBSET Events /\ Tail(todo) \in Seq(SUBSET Events)
                      /\ InHand = Run \cup Union(Tail(todo))
                      /\ Before(Run, Union(Tail(todo)))
  BY RunInHand DEF OrderOK
<1>11. CASE Halved
  <2>1. InHand' = InHand
    BY <1>11, HalvedInHand
  <2>2. Pending' = Pending
    BY <1>11, <2>1 DEF Halved, Pending, OnFile
  <2> QED BY <1>0, <1>11, <2>2 DEF Halved
<1>12. CASE RunSettled
  <2>1. /\ todo # <<>> /\ InHand' = Union(Tail(todo))
        /\ OnFile = Union(disk) /\ OnFile' = Union(disk')
        /\ UNCHANGED <<accepted, queue, vetoed, overflowed>>
    BY <1>12 DEF RunSettled, Settled, InHand, OnFile
  <2>2. /\ Union(disk) \cap Run = {} /\ Run \cap InHand' = {}
        /\ Union(disk) \cap InHand' = {}
        /\ Union(disk) \cap Range(queue) = {} /\ Run \cap Range(queue) = {}
    <3>1. Run \in SUBSET Events /\ InHand' \in SUBSET Events /\ InHand = Run \cup InHand'
      BY <1>10, <1>t, <2>1
    <3>2. /\ Before(Union(disk), Run) /\ Before(Run, InHand') /\ Before(Union(disk), InHand')
          /\ Before(Union(disk), Range(queue)) /\ Before(Run, Range(queue))
      BY <1>10, <2>1, <3>1 DEF OrderOK, Before
    <3> QED BY <1>a, <1>t, <3>1, <3>2, Zenon
  <2>3. InHand = Run \cup InHand'
    BY <1>10, <2>1
  <2>4. CASE /\ UNCHANGED disk
             /\ \/ sent' = sent \cup Run /\ UNCHANGED failed
                \/ failed' = failed \cup Run /\ UNCHANGED sent
    <3>1. Run \in SUBSET Pending /\ Pending' \subseteq Pending /\ Run \cap Pending' = {}
      BY <2>1, <2>2, <2>3, <2>4 DEF Pending
    <3> QED BY <2>1, <2>4, <3>1, Transfer, Zenon
  <2>5. CASE Persist(Run) /\ UNCHANGED sent
    <3>1. PICK X \in SUBSET (Union(disk) \cup Run) :
               /\ failed' = failed \cup X /\ Union(disk') \cap X = {}
               /\ Union(disk') \subseteq Union(disk) \cup Run
      <4>1. Run \in SUBSET Events /\ Before(Union(disk), Run)
        BY <1>10, <2>1, <2>3 DEF OrderOK, Before
      <4> QED BY <2>5, <4>1, PersistOrder
    <3>2. X \in SUBSET Pending /\ X \cap Pending' = {} /\ Pending' \subseteq Pending
      BY <2>1, <2>2, <2>3, <3>1 DEF Pending
    <3> QED BY <2>1, <2>5, <3>1, <3>2, Transfer, Zenon
  <2> QED BY <1>12, <2>4, <2>5 DEF RunSettled
<1> QED BY <1>1, <1>2, <1>3, <1>4, <1>5, <1>6, <1>8, <1>9, <1>11, <1>12, StepKinds

(* Records that share no event.                                            *)
Apart(s) == \A i, j \in 1 .. Len(s) : i # j => s[i] \cap s[j] = {}

LEMMA ApartConcat ==
  ASSUME NEW s \in Seq(SUBSET Events), NEW t \in Seq(SUBSET Events),
         Apart(s), Apart(t), Union(s) \cap Union(t) = {}
  PROVE  Apart(s \o t)
<1>1. /\ Len(s) \in Nat /\ Len(t) \in Nat /\ Len(s \o t) = Len(s) + Len(t)
      /\ \A i \in 1 .. Len(s) + Len(t) :
           (s \o t)[i] = IF i <= Len(s) THEN s[i] ELSE t[i - Len(s)]
  BY ConcatProperties, LenProperties
<1>2. \A i \in 1 .. Len(s), j \in 1 .. Len(t) : s[i] \cap t[j] = {}
  <2>1. /\ \A i \in 1 .. Len(s) : s[i] \subseteq Union(s)
        /\ \A j \in 1 .. Len(t) : t[j] \subseteq Union(t)
    BY UnionMember
  <2> QED BY <2>1
<1> SUFFICES ASSUME NEW i \in 1 .. Len(s) + Len(t), NEW j \in 1 .. Len(s) + Len(t), i # j
             PROVE  (s \o t)[i] \cap (s \o t)[j] = {}
  BY <1>1 DEF Apart
<1>3. CASE i <= Len(s) /\ j <= Len(s)
  BY <1>1, <1>3 DEF Apart
<1>4. CASE i <= Len(s) /\ ~(j <= Len(s))
  <2>1. i \in 1 .. Len(s) /\ j - Len(s) \in 1 .. Len(t)
    BY <1>1, <1>4
  <2> QED BY <1>1, <1>2, <1>4, <2>1
<1>5. CASE ~(i <= Len(s)) /\ j <= Len(s)
  <2>1. j \in 1 .. Len(s) /\ i - Len(s) \in 1 .. Len(t)
    BY <1>1, <1>5
  <2>2. s[j] \cap t[i - Len(s)] = {}
    BY <1>2, <2>1
  <2> QED BY <1>1, <1>5, <2>2
<1>6. CASE ~(i <= Len(s)) /\ ~(j <= Len(s))
  <2>1. /\ i - Len(s) \in 1 .. Len(t) /\ j - Len(s) \in 1 .. Len(t)
        /\ i - Len(s) # j - Len(s)
    BY <1>1, <1>6
  <2>2. (s \o t)[i] = t[i - Len(s)] /\ (s \o t)[j] = t[j - Len(s)]
    BY <1>1, <1>6
  <2> QED BY <2>1, <2>2 DEF Apart
<1> QED BY <1>3, <1>4, <1>5, <1>6

LEMMA OrderedApart ==
  ASSUME NEW s \in Seq(SUBSET Events), Ordered(s)
  PROVE  Apart(s)
<1>1. Len(s) \in Nat /\ \A i \in 1 .. Len(s) : s[i] \in SUBSET Events
  BY LenProperties, ElementOfSeq
<1> SUFFICES ASSUME NEW i \in 1 .. Len(s), NEW j \in 1 .. Len(s), i # j,
                    NEW x \in s[i], x \in s[j]
             PROVE  FALSE
  BY DEF Apart
<1>2. x \in Nat
  BY <1>1 DEF Events
<1>3. i < j \/ j < i
  BY <1>1
<1> QED BY <1>2, <1>3 DEF Ordered, Before

(* Without I/O faults no event is in two places, delivered twice or        *)
(* counted twice, for every ring, batch and split size and every server:   *)
(* each hand-over of drain, send_run, settle_queued, offline_spill and     *)
(* offline_replay takes the event from where it was.                       *)
THEOREM EachEventCountedOnce == ~IoFaults /\ Spec => []CountedOnce
<1>1. Init => OnceOK
  <2> SUFFICES ASSUME Init PROVE OnceOK
    OBVIOUS
  <2>1. sent = {} /\ failed = {} /\ vetoed = {} /\ overflowed = {}
    BY DEF Init
  <2> QED BY <2>1 DEF OnceOK, Counted
<1>2. IInv /\ OrderOK /\ OnceOK => CountedOnce
  <2> SUFFICES ASSUME IInv, OrderOK, OnceOK PROVE CountedOnce
    OBVIOUS
  <2> DEFINE five == <<Range(queue), overflowed, sent, failed, vetoed>>
  <2>1. /\ todo \in Seq(SUBSET Events) /\ lines \in Seq(SUBSET Events)
        /\ keep \in Seq(SUBSET Events) /\ disk \in Seq(SUBSET Events)
        /\ InHand \subseteq Events /\ Range(queue) \subseteq Events
        /\ Union(disk) \subseteq Events
    BY SeqTypes
  <2>2. overflowed \subseteq Events /\ sent \subseteq Events /\ failed \subseteq Events
        /\ vetoed \subseteq Events
    BY DEF IInv, TInv, TypeOK, EventsTyped
  <2>3. /\ five \in Seq(SUBSET Events) /\ Len(five) = 5
        /\ five[1] = Range(queue) /\ five[2] = overflowed /\ five[3] = sent
        /\ five[4] = failed /\ five[5] = vetoed
    BY <2>1, <2>2
  <2> HIDE DEF five
  <2>4. Union(five) = Range(queue) \cup Counted
    <3>1. \A x : x \in Union(five) <=> \E i \in 1 .. 5 : x \in five[i]
      BY <2>3, UnionMember
    <3>2. 1 .. 5 = {1, 2, 3, 4, 5}
      OBVIOUS
    <3> QED BY <2>3, <3>1, <3>2 DEF Counted
  <2>5. Apart(five)
    <3>1. Range(queue) \cap Counted = {}
      BY DEF OnceOK, Pending
    <3>2. 1 .. Len(five) = {1, 2, 3, 4, 5}
      BY <2>3
    <3> QED BY <2>3, <3>1, <3>2 DEF Apart, OnceOK, Counted
  <2>6. /\ Backlog \in Seq(SUBSET Events) /\ Ordered(Backlog) /\ Union(Backlog) = OnFile
    <3>1. CASE Replaying
      <4>1. /\ keep \o lines \in Seq(SUBSET Events) /\ Ordered(keep \o lines)
            /\ Union(keep \o lines) = Union(keep) \cup Union(lines)
        BY <2>1, <3>1, UnionConcat, OrderedConcat DEF OrderOK
      <4> QED BY <3>1, <4>1 DEF Backlog, OnFile
    <3>2. CASE ~Replaying
      BY <2>1, <3>2 DEF Backlog, OrderOK, OnFile
    <3> QED BY <3>1, <3>2
  <2>7. /\ OnFile \cap Range(queue) = {} /\ OnFile \cap InHand = {}
        /\ InHand \cap Range(queue) = {}
    <3>1. ASSUME NEW A \in SUBSET Events, NEW B \in SUBSET Events, Before(A, B)
          PROVE  A \cap B = {}
      BY <3>1, BeforeApart
    <3>2. /\ Union(disk) \cap Range(queue) = {} /\ Union(disk) \cap InHand = {}
          /\ InHand \cap Range(queue) = {}
      BY <2>1, <3>1 DEF OrderOK
    <3>3. OnFile \subseteq Union(disk)
      BY PendingTypes
    <3> QED BY <3>2, <3>3
  <2>8. ASSUME NEW p \in Seq(SUBSET Events), NEW q \in Seq(SUBSET Events),
               Apart(p), Apart(q), Union(p) \cap Union(q) = {}
        PROVE  /\ p \o q \in Seq(SUBSET Events) /\ Apart(p \o q)
               /\ Union(p \o q) = Union(p) \cup Union(q)
    BY <2>8, UnionConcat, ApartConcat
  <2>9. Apart(Backlog) /\ Apart(todo)
    BY <2>1, <2>6, OrderedApart DEF OrderOK
  <2>10. /\ five \o Backlog \in Seq(SUBSET Events) /\ Apart(five \o Backlog)
         /\ Union(five \o Backlog) = Union(five) \cup Union(Backlog)
    <3>1. Union(five) \cap Union(Backlog) = {}
      BY <2>4, <2>6, <2>7 DEF OnceOK, Pending
    <3> QED BY <2>3, <2>5, <2>6, <2>8, <2>9, <3>1
  <2> DEFINE places == five \o Backlog \o todo
  <2>11. places \in Seq(SUBSET Events) /\ Apart(places)
    <3>1. Union(five \o Backlog) \cap Union(todo) = {}
      BY <2>4, <2>6, <2>7, <2>10 DEF OnceOK, Pending, InHand
    <3> QED BY <2>1, <2>8, <2>9, <2>10, <3>1, Zenon
  <2>12. DOMAIN places = 1 .. Len(places)
    BY <2>11, LenProperties
  <2> HIDE DEF places
  <2>13. \A i, j \in DOMAIN places : i # j => places[i] \cap places[j] = {}
    BY <2>11, <2>12 DEF Apart
  <2> QED BY <2>13 DEF CountedOnce, places, five
<1>3. CASE ~IoFaults
  <2>1. IInv /\ OrderOK /\ OnceOK /\ [Next]_vars => OnceOK'
    BY <1>3, OnceNext
  <2> QED BY <1>1, <1>2, <2>1, OrderInvariant, PTL DEF Spec
<1>4. CASE IoFaults
  BY <1>4
<1> QED BY <1>3, <1>4

-----------------------------------------------------------------------------
(* A ph_flush call that returned idle stays settled: the sender announces  *)
(* itself idle only with nothing in hand, and what is accepted afterwards  *)
(* is newer than the call.                                                 *)
FlushOK ==
  /\ sending \/ pc \in {"wait", "final", "after", "park", "done"}
  /\ \A f \in Flushers : target[f] <= accepted
  /\ FlushSettles

(* Only a capture brings events back into the ring or the sender's hands.   *)
LEMMA NothingReappears ==
  ASSUME IInv, [Next]_vars, ~Capture
  PROVE  accepted' = accepted /\ Range(queue') \cup InHand' \subseteq Range(queue) \cup InHand
<1>t. /\ todo \in Seq(SUBSET Events) /\ queue \in Seq(Events) /\ Len(queue) <= MaxQueue
  BY SeqTypes
<1>1. CASE Still \/ Opened \/ Tried \/ ReplayStop \/ Rewrite
  BY <1>1 DEF Still, Opened, Tried, ReplayStop, Rewrite, InHand
<1>2. queue' = Ring!Rest(queue, MaxBatch) => Range(queue) = RingBatch \cup Range(queue')
  BY <1>t, RingPop DEF RingBatch
<1>3. CASE Popped
  <2>1. PICK gone \in SUBSET RingBatch :
          todo' = IF RingBatch = gone THEN <<>> ELSE <<RingBatch \ gone>>
    BY <1>3, Zenon DEF Popped
  <2>2. InHand' \subseteq RingBatch
    BY <2>1, PoppedInHand
  <2> QED BY <1>2, <1>3, <2>2 DEF Popped
<1>4. CASE Dropped
  BY <1>2, <1>4 DEF Dropped, InHand
<1>5. CASE Halved
  BY <1>5, HalvedInHand DEF Halved
<1>6. CASE RunSettled
  <2>1. InHand = Run \cup InHand'
    BY <1>6, RunInHand DEF RunSettled, Settled, InHand
  <2> QED BY <1>6, <2>1 DEF RunSettled
<1> QED BY <1>1, <1>3, <1>4, <1>5, <1>6, StepKinds

LEMMA FlushNext ==
  ASSUME IInv, FlushOK, [Next]_vars
  PROVE  FlushOK'
<1>t. /\ target \in [Flushers -> Nat] /\ accepted \in Nat
      /\ fpc \in [Flushers -> {"out", "waiting", "idle", "gone"}]
      /\ back \in {"held", "settle", "settleTail"} /\ final \in BOOLEAN
  BY SenderAssumption DEF IInv, TInv, TypeOK, EventsTyped, ControlTyped, FlushTyped
<1>1. (sending \/ pc \in {"wait", "final", "after", "park", "done"})'
  <2> USE <1>t DEF FlushOK, Goto, Move
  <2>1. CASE Replay
    BY <2>1, Zenon DEF Replay, ReplayBegin, ReplaySkip, ReplayStop, ReplayOversize, ReplayPost,
       ReplayAnswer, ReplayCheck, Rewrite
  <2>2. CASE Drain
    BY <2>2, Zenon DEF Drain, DrainBegin, Gate, LoopEnd, Held, TailDeadline, TailHold, LoopPop,
       SettlePersist, PopScrubbed, SettleDrop, SettleEnd, Finish, After, Park
  <2>3. CASE SendRun
    BY <2>3, Zenon DEF SendRun, RunFrame, RunsDone, RunSplit, RunFails, RunPost, RunPersist,
       Answer, Retry, Backoff, GiveUp, Return
  <2>4. CASE Environment \/ \E f \in Flushers : Flush(f)
    BY <2>4, Zenon DEF Environment, Capture, HoldLapses, StopRequest, DeadlinePasses, Flush,
       FlushBegin, FlushReturn, FlushTimeout
  <2>5. CASE UNCHANGED vars
    BY <2>5 DEF vars
  <2> QED BY <2>1, <2>2, <2>3, <2>4, <2>5 DEF Next, SenderThread, Terminated
<1>2. ASSUME NEW f \in Flushers, Flush(f) PROVE FlushOK'
  <2>1. UNCHANGED <<accepted, queue, todo>>
    BY <1>2 DEF Flush, FlushBegin, FlushReturn, FlushTimeout
  <2>2. CASE FlushReturn(f)
    <3>1. queue = <<>> /\ todo = <<>>
      BY <2>2, Zenon DEF FlushReturn, FlushOK, IInv, TInv, ControlOK
    <3>2. Range(queue') \cup InHand' = {}
      BY <2>1, <3>1, UnionEmpty DEF InHand, Range
    <3>3. UNCHANGED target
      BY <2>2 DEF FlushReturn
    <3> QED BY <1>1, <2>1, <3>2, <3>3, Zenon DEF FlushOK, FlushSettles
  <2>3. CASE FlushBegin(f) \/ FlushTimeout(f)
    <3>1. \A g \in Flushers :
            \/ fpc'[g] = fpc[g] /\ target'[g] = target[g]
            \/ fpc'[g] # "idle" /\ target'[g] \in {target[g], accepted}
      BY <1>t, <2>3, SMTT(15) DEF FlushBegin, FlushTimeout
    <3>2. \A g \in Flushers : target'[g] <= accepted'
      BY <1>t, <2>1, <3>1, SMTT(15) DEF FlushOK
    <3>3. FlushSettles'
      BY <2>1, <3>1, Zenon DEF FlushOK, FlushSettles, InHand
    <3> QED BY <1>1, <3>2, <3>3, Zenon DEF FlushOK
  <2> QED BY <1>2, <2>2, <2>3, SMTT(15) DEF Flush
<1>3. CASE Capture
  <2>1. /\ accepted' = accepted + 1 /\ UNCHANGED <<fpc, target, todo>>
        /\ Range(queue') \subseteq Range(queue) \cup {accepted + 1}
    <3>1. queue \in Seq(Events) /\ Len(queue) <= MaxQueue /\ accepted + 1 \in Events
      BY <1>3, SeqTypes, CaptureFrame
    <3>2. Range(queue) \cup {accepted + 1} =
            Range(Ring!Pushed(queue, accepted + 1)) \cup Ring!Evicted(queue)
      BY <3>1, RingPush
    <3> QED BY <1>3, <3>2, CaptureFrame
  <2>2. \A f \in Flushers : target[f] <= accepted' /\ accepted + 1 > target[f]
    BY <1>t, <2>1, SMTT(15) DEF FlushOK
  <2>3. FlushSettles'
    BY <2>1, <2>2 DEF FlushOK, FlushSettles, InHand
  <2> QED BY <1>1, <2>1, <2>2, <2>3 DEF FlushOK
<1>4. CASE ~Capture /\ ~\E f \in Flushers : Flush(f)
  <2>1. UNCHANGED <<fpc, target>>
    <3>1. CASE Replay
      BY <3>1, Zenon DEF Replay, ReplayBegin, ReplaySkip, ReplayStop, ReplayOversize, ReplayPost,
         ReplayAnswer, ReplayCheck, Rewrite, Move
    <3>2. CASE Drain
      BY <3>2, Zenon DEF Drain, DrainBegin, Gate, LoopEnd, Held, TailDeadline, TailHold, LoopPop,
         SettlePersist, PopScrubbed, SettleDrop, SettleEnd, Finish, After, Park, Move
    <3>3. CASE SendRun
      BY <3>3, Zenon DEF SendRun, RunFrame, RunsDone, RunSplit, RunFails, RunPost, RunPersist,
         Answer, Retry, Backoff, GiveUp, Return, Move
    <3>4. CASE Environment \/ UNCHANGED vars
      BY <3>4, Zenon DEF Environment, Capture, HoldLapses, StopRequest, DeadlinePasses, vars
    <3> QED BY <1>4, <3>1, <3>2, <3>3, <3>4 DEF Next, SenderThread, Terminated
  <2>2. accepted' = accepted /\ Range(queue') \cup InHand' \subseteq Range(queue) \cup InHand
    BY <1>4, NothingReappears
  <2> QED BY <1>1, <2>1, <2>2 DEF FlushOK, FlushSettles
<1> QED BY <1>2, <1>3, <1>4

(* ph_flush keeps its promise for every number of callers, whichever drain *)
(* each overlaps with: when it returns because the sender is idle, no      *)
(* event captured before the call is in the ring or in the sender's hands. *)
THEOREM FlushKeepsPromise == Spec => []FlushSettles
<1>1. Init => FlushOK
  <2> SUFFICES ASSUME Init PROVE FlushOK
    OBVIOUS
  <2>1. accepted \in Nat /\ \A f \in Flushers : target[f] = 0 /\ fpc[f] = "out"
    BY SenderAssumption DEF Init
  <2> QED BY <2>1, SMTT(15) DEF Init, FlushOK, FlushSettles
<1>2. IInv /\ FlushOK /\ [Next]_vars => FlushOK'
  BY FlushNext
<1>3. FlushOK => FlushSettles
  BY DEF FlushOK
<1> QED BY <1>1, <1>2, <1>3, DeliveryInvariant, PTL DEF Spec
=============================================================================
