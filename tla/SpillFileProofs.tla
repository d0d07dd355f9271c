--------------------------- MODULE SpillFileProofs ---------------------------
(***************************************************************************)
(* Proofs about SpillFile, for any number of batches of any size, any cap  *)
(* and any number of crashes: its type invariant, that a batch stays until *)
(* it is settled (SpilledStays), that lines are in order, and that the     *)
(* file stays under the cap (UnderCap).                                    *)
(***************************************************************************)
EXTENDS SpillFile, FiniteSetTheorems, SequenceTheorems, WellFoundedInduction, TLAPS

LineRecords == [id : Batches \cup {Garbage}, size : Nat \ {0}]

(* Batches come in increasing order along ls, and are all below n.         *)
InOrder(ls, n) ==
  /\ \A i \in DOMAIN ls : ls[i].id < n
  /\ \A i, j \in DOMAIN ls :
       i < j /\ Garbage \notin {ls[i].id, ls[j].id} => ls[i].id < ls[j].id

-----------------------------------------------------------------------------
(* Lemmas about lines.                                                     *)

LEMMA HeldOfNone == Held(<<>>) = {} /\ <<>> \in Lines /\ \A n : InOrder(<<>>, n)
BY DEF Held, Lines, InOrder

LEMMA LinesTyped ==
  ASSUME NEW ls \in Lines
  PROVE  /\ ls \in Seq(LineRecords) /\ Len(ls) \in Nat /\ DOMAIN ls = 1..Len(ls)
         /\ \A i \in DOMAIN ls : ls[i] \in LineRecords /\ ls[i].id \in Nat
<1>1. ls \in Seq(LineRecords)
  BY DEF Lines, LineRecords
<1>2. Len(ls) \in Nat /\ DOMAIN ls = 1..Len(ls)
  BY <1>1
<1>3. \A i \in DOMAIN ls : ls[i] \in LineRecords
  BY <1>1, <1>2, ElementOfSeq
<1>4. \A r \in LineRecords : r.id \in Nat
  BY SpillAssumption DEF LineRecords, Batches, Garbage
<1> QED BY <1>1, <1>2, <1>3, <1>4

(* A run of the lines holds no more batches, in the same order.            *)
LEMMA PartOfLines ==
  ASSUME NEW ls \in Lines, NEW m \in 1..(Len(ls) + 1), NEW n \in 0..Len(ls)
  PROVE  /\ SubSeq(ls, m, n) \in Lines
         /\ Held(SubSeq(ls, m, n)) \subseteq Held(ls)
         /\ \A k : InOrder(ls, k) => InOrder(SubSeq(ls, m, n), k)
<1> DEFINE s == SubSeq(ls, m, n)
<1>1. ls \in Seq(LineRecords)
  BY DEF Lines, LineRecords
<1>2. Len(ls) \in Nat /\ DOMAIN ls = 1..Len(ls)
  BY <1>1
<1>3. \A i \in m..n : ls[i] \in LineRecords
  BY <1>1, <1>2, ElementOfSeq
<1>4. /\ s \in Seq(LineRecords)
      /\ Len(s) = IF m <= n THEN n - m + 1 ELSE 0
      /\ \A i \in 1..(n - m + 1) : s[i] = ls[m + i - 1]
  BY <1>2, <1>3
<1>5. \A i \in DOMAIN s : m + i - 1 \in DOMAIN ls /\ s[i] = ls[m + i - 1]
  BY <1>2, <1>4
<1>6. Held(s) \subseteq Held(ls)
  BY <1>5 DEF Held
<1>7. \A i \in DOMAIN s : i \in Nat
  BY <1>4
<1>8. ASSUME NEW k, InOrder(ls, k) PROVE InOrder(s, k)
  <2>1. \A i, j \in DOMAIN s : i < j => m + i - 1 < m + j - 1
    BY <1>7
  <2> QED BY <1>5, <1>8, <2>1 DEF InOrder
<1> QED BY <1>4, <1>6, <1>8 DEF Lines, LineRecords

LEMMA TailOfLines ==
  ASSUME NEW ls \in Lines, ls # <<>>
  PROVE  /\ Tail(ls) \in Lines
         /\ Held(ls) = Held(<<Head(ls)>>) \cup Held(Tail(ls))
         /\ Held(<<Head(ls)>>) \subseteq Batches
         /\ \A k : InOrder(ls, k) => InOrder(Tail(ls), k)
<1>1. ls \in Seq(LineRecords)
  BY DEF Lines, LineRecords
<1>2. Len(ls) \in Nat /\ Len(ls) > 0 /\ DOMAIN ls = 1..Len(ls)
  BY <1>1
<1>3. /\ Tail(ls) \in Seq(LineRecords)
      /\ DOMAIN Tail(ls) = 1..(Len(ls) - 1)
      /\ \A i \in DOMAIN Tail(ls) : i + 1 \in DOMAIN ls /\ Tail(ls)[i] = ls[i + 1]
  BY <1>1, <1>2
<1>4. Head(ls) = ls[1] /\ ls[1] \in LineRecords
  BY <1>1, <1>2
<1>5. Held(<<Head(ls)>>) = {ls[1].id} \ {Garbage}
  BY <1>4 DEF Held
<1>6. \A i \in DOMAIN ls : i = 1 \/ (i - 1 \in DOMAIN Tail(ls) /\ Tail(ls)[i - 1] = ls[i])
  BY <1>2, <1>3
<1>7. Held(ls) \subseteq Held(<<Head(ls)>>) \cup Held(Tail(ls))
  BY <1>5, <1>6 DEF Held
<1>8. Held(<<Head(ls)>>) \cup Held(Tail(ls)) \subseteq Held(ls)
  BY <1>2, <1>3, <1>5 DEF Held
<1>9. ASSUME NEW k, InOrder(ls, k) PROVE InOrder(Tail(ls), k)
  BY <1>2, <1>3, <1>9 DEF InOrder
<1> QED BY <1>3, <1>4, <1>5, <1>7, <1>8, <1>9 DEF Lines, LineRecords

(* A line at the end.                                                      *)
LEMMA LinePlus ==
  ASSUME NEW ls \in Lines, NEW l \in LineRecords
  PROVE  /\ Append(ls, l) \in Lines
         /\ Held(Append(ls, l)) = Held(ls) \cup ({l.id} \ {Garbage})
         /\ \A k \in Nat : InOrder(ls, k) /\ l.id \in {k, Garbage} => InOrder(Append(ls, l), k + 1)
<1> DEFINE s == Append(ls, l)
<1>1. ls \in Seq(LineRecords)
  BY DEF Lines, LineRecords
<1>2. /\ Len(ls) \in Nat /\ DOMAIN ls = 1..Len(ls)
      /\ s \in Seq(LineRecords) /\ DOMAIN s = 1..(Len(ls) + 1)
      /\ \A i \in DOMAIN ls : s[i] = ls[i]
      /\ s[Len(ls) + 1] = l
  BY <1>1
<1>3. Held(s) \subseteq Held(ls) \cup ({l.id} \ {Garbage})
  BY <1>2 DEF Held
<1>4. Held(ls) \cup ({l.id} \ {Garbage}) \subseteq Held(s)
  BY <1>2 DEF Held
<1>5. ASSUME NEW k \in Nat, InOrder(ls, k), l.id \in {k, Garbage}
      PROVE  InOrder(s, k + 1)
  <2>1. \A r \in LineRecords : r.id \in Nat
    BY SpillAssumption DEF LineRecords, Batches, Garbage
  <2>2. \A i \in DOMAIN s : s[i].id < k + 1
    <3>1. \A i \in DOMAIN ls : ls[i].id \in Nat
      BY <1>1, <1>2, <2>1, ElementOfSeq
    <3> QED BY <1>2, <1>5, <2>1, <3>1 DEF InOrder, Garbage
  <2>3. ASSUME NEW i \in DOMAIN s, NEW j \in DOMAIN s, i < j,
               Garbage \notin {s[i].id, s[j].id}
        PROVE  s[i].id < s[j].id
    <3>1. i \in DOMAIN ls
      BY <1>2, <2>3
    <3>2. CASE j \in DOMAIN ls
      BY <1>2, <1>5, <2>3, <3>1, <3>2 DEF InOrder
    <3>3. CASE j = Len(ls) + 1
      BY <1>2, <1>5, <2>3, <3>1, <3>3 DEF InOrder
    <3> QED BY <1>2, <3>2, <3>3
  <2> QED BY <2>2, <2>3 DEF InOrder
<1> QED BY <1>2, <1>3, <1>4, <1>5 DEF Lines, LineRecords

LEMMA HeldBelow ==
  ASSUME NEW ls \in Lines, NEW n \in Nat, InOrder(ls, n)
  PROVE  Held(ls) \subseteq 1..(n - 1) /\ Held(ls) \subseteq Batches
<1>1. \A i \in DOMAIN ls : ls[i] \in LineRecords
  BY LinesTyped
<1> QED BY <1>1, SpillAssumption DEF InOrder, Held, LineRecords, Batches, Garbage

(* What an append leaves of a file.                                        *)
LEMMA WrittenFile ==
  ASSUME NEW c \in Files, NEW b \in Batches, NEW k \in Nat
  PROVE  /\ Written(c, b, k) \in Files
         /\ Written(c, b, k).exists
         /\ Own(c) \subseteq Own(Written(c, b, k))
         /\ k > BodyLen[b] /\ c.tail = 0 => b \in Own(Written(c, b, k))
         /\ InOrder(c.lines, b) => InOrder(Written(c, b, k).lines, b + 1)
<1>1. BodyLen[b] \in Nat \ {0} /\ b \in Nat \ {0}
  BY SpillAssumption DEF Batches
<1>2. c.lines \in Lines /\ c.tail \in Nat
  BY DEF Files
<1>3. CASE k <= BodyLen[b]
  <2>1. Written(c, b, k) = [exists |-> TRUE, lines |-> c.lines, tail |-> c.tail + k]
    BY <1>3 DEF Written, Files
  <2>2. /\ Written(c, b, k) \in Files /\ Written(c, b, k).exists
        /\ Written(c, b, k).lines = c.lines
    BY <2>1, <1>2 DEF Files
  <2>3. InOrder(c.lines, b) => InOrder(c.lines, b + 1)
    <3>1. \A i \in DOMAIN c.lines : c.lines[i].id \in Nat
      BY <1>2, LinesTyped
    <3> QED BY <1>1, <3>1 DEF InOrder
  <2> QED BY <1>1, <1>3, <2>2, <2>3 DEF Own
<1>4. CASE ~(k <= BodyLen[b])
  <2> DEFINE l == IF c.tail = 0 THEN Line(b)
                  ELSE [id |-> Garbage, size |-> c.tail + BodyLen[b]]
  <2>1. Written(c, b, k) = [exists |-> TRUE, tail |-> 0, lines |-> Append(c.lines, l)]
    BY <1>4 DEF Written
  <2>2. l \in LineRecords /\ l.id \in {b, Garbage} /\ (c.tail = 0 => l.id = b)
    BY <1>1, <1>2 DEF Line, LineRecords, Garbage
  <2> HIDE DEF l
  <2>3. /\ Append(c.lines, l) \in Lines
        /\ Held(Append(c.lines, l)) = Held(c.lines) \cup ({l.id} \ {Garbage})
        /\ \A n \in Nat : InOrder(c.lines, n) /\ l.id \in {n, Garbage}
                           => InOrder(Append(c.lines, l), n + 1)
    BY <1>2, <2>2, LinePlus
  <2>4. /\ Written(c, b, k) \in Files /\ Written(c, b, k).exists
        /\ Written(c, b, k).lines = Append(c.lines, l)
    BY <2>1, <2>3 DEF Files
  <2>5. c.tail = 0 => b \in Held(Append(c.lines, l))
    BY <1>1, <2>2, <2>3 DEF Garbage
  <2> QED BY <1>1, <2>2, <2>3, <2>4, <2>5 DEF Own
<1> QED BY <1>1, <1>3, <1>4

LEMMA EmptyFiles ==
  /\ Absent \in Files /\ Empty \in Files
  /\ Own(Absent) = {} /\ Own(Empty) = {}
  /\ Absent.lines = <<>> /\ Empty.lines = <<>>
  /\ Absent.tail = 0 /\ ~Absent.exists /\ Empty.exists
BY HeldOfNone, Zenon DEF Absent, Empty, Files, Own

(* The cap takes lines away and reorders nothing.                          *)
LEMMA TrimmedFile ==
  ASSUME NEW c \in Files, c.exists, NEW n \in Nat, InOrder(c.lines, n), NEW incoming
  PROVE  /\ Trimmed(c, incoming) \in Files
         /\ Trimmed(c, incoming).exists
         /\ InOrder(Trimmed(c, incoming).lines, n)
<1> DEFINE drop == Bytes(c) - (MaxBytes - incoming - 1)
           K == {k \in 1..(Len(c.lines) + 1) :
                   LineBytes(SubSeq(c.lines, 1, k - 1)) <= drop}
           m == Cardinality(K)
<1>1. c.lines \in Lines /\ Len(c.lines) \in Nat
  BY DEF Files, Lines
<1>2. m \in Nat
  <2>1. IsFiniteSet(1..(Len(c.lines) + 1))
    BY <1>1, FS_Interval
  <2>2. K \subseteq 1..(Len(c.lines) + 1)
    OBVIOUS
  <2> QED BY <2>1, <2>2, FS_Subset, FS_CardinalityType
<1>3. Trimmed(c, incoming) =
        IF m > Len(c.lines) THEN Empty
        ELSE [c EXCEPT !.lines = SubSeq(c.lines, m + 1, Len(c.lines))]
  BY Zenon DEF Trimmed
<1> HIDE DEF m
<1>4. CASE m > Len(c.lines)
  BY <1>3, <1>4, EmptyFiles, HeldOfNone
<1>5. CASE ~(m > Len(c.lines))
  <2>1. m + 1 \in 1..(Len(c.lines) + 1) /\ Len(c.lines) \in 0..Len(c.lines)
    BY <1>1, <1>2, <1>5
  <2>2. /\ SubSeq(c.lines, m + 1, Len(c.lines)) \in Lines
        /\ InOrder(SubSeq(c.lines, m + 1, Len(c.lines)), n)
    BY <1>1, <2>1, PartOfLines
  <2> QED BY <1>3, <1>5, <2>2 DEF Files
<1> QED BY <1>4, <1>5

-----------------------------------------------------------------------------
(* The inductive invariant.                                                *)

(* A record is in the file before its number is passed.                    *)
InHand == pc \in {"flush", "rollback", "entry"}
Limit == IF InHand THEN next + 1 ELSE next

Contents == {cache, base, draft} \cup inode \cup behind

Sorted ==
  /\ \A c \in Contents : InOrder(c.lines, Limit) /\ (~c.exists => c = Absent)
  /\ InOrder(todo, next)
  /\ InHand => InOrder(base.lines, next)

(* The batch in hand, and what a rewrite leaves out.                       *)
Bounded ==
  /\ pc \in {"append", "flush", "rollback", "entry", "evict", "evicted"}
       => next \in Batches
  /\ victims \subseteq 1..(next - 1)
  /\ pc \in {"evict", "keep"} => draft.exists

(* Where the batches that must not be lost are, call by call.              *)
Safe == acked \ (settled \cup excused)

Places ==
  /\ InHand => Safe \subseteq Own(base)
  /\ pc \in {"flush", "entry"} /\ base.tail = 0 => next \in Own(cache)
  /\ pc = "entry" => inode = {cache} /\ base = Absent
  /\ pc \in {"evict", "keep"} => Safe \subseteq Own(draft) \cup victims
  /\ pc = "replay" => Safe \subseteq Held(todo) \cup victims
  /\ pc = "remove" => Safe \subseteq victims

IInv == SpillTypeOK /\ Sorted /\ Bounded /\ Places /\ SpilledStays

LEMMA InitInv == SpillInit => IInv
<1> SUFFICES ASSUME SpillInit PROVE IInv
  OBVIOUS
<1>1. SpillTypeOK
  BY EmptyFiles, HeldOfNone, SpillAssumption DEF SpillInit, SpillTypeOK, Pcs
<1>2. Sorted
  BY EmptyFiles, HeldOfNone DEF SpillInit, Sorted, Contents, InHand
<1>3. Bounded /\ Places /\ SpilledStays
  BY DEF SpillInit, Bounded, Places, Safe, SpilledStays, InHand
<1> QED BY <1>1, <1>2, <1>3 DEF IInv

LEMMA InOrderLater ==
  ASSUME NEW ls \in Lines, NEW m \in Nat, NEW n \in Nat, m <= n, InOrder(ls, m)
  PROVE  InOrder(ls, n)
<1>1. \A i \in DOMAIN ls : ls[i].id \in Nat
  BY LinesTyped
<1> QED BY <1>1 DEF InOrder

(* What the invariant says of the numbers and the contents in play.        *)
LEMMA KnownNumbers ==
  ASSUME IInv
  PROVE  /\ next \in 1..(MaxBatches + 1) /\ next \in Nat /\ Limit \in {next, next + 1}
         /\ acked \subseteq 1..(next - 1)
         /\ settled \subseteq 1..(next - 1)
         /\ excused \subseteq 1..(next - 1)
         /\ 1..(next - 1) \subseteq 1..next
BY SpillAssumption DEF IInv, SpillTypeOK, Limit

LEMMA KnownFile ==
  ASSUME IInv, NEW c \in Contents
  PROVE  /\ c \in Files /\ c.lines \in Lines
         /\ InOrder(c.lines, Limit)
         /\ InOrder(c.lines, next + 1)
         /\ (~c.exists => c = Absent)
<1>1. next \in Nat /\ Limit \in {next, next + 1}
  BY KnownNumbers
<1>2. c \in Files /\ c.lines \in Lines
  BY DEF IInv, SpillTypeOK, Contents, Files
<1>3. InOrder(c.lines, Limit) /\ (~c.exists => c = Absent)
  BY DEF IInv, Sorted
<1>4. InOrder(c.lines, next + 1)
  BY <1>1, <1>2, <1>3, InOrderLater
<1> QED BY <1>2, <1>3, <1>4

(* The end of a call or of a process: nothing is in hand, so the invariant *)
(* is what it says of the file.                                            *)
LEMMA OverInv ==
  ASSUME NEW to \in {"idle", "down", "append"}, Over(to),
         next' \in 1..(MaxBatches + 1), to = "append" => next' \in Batches,
         \A c \in {cache'} \cup inode' \cup behind' :
           c \in Files /\ InOrder(c.lines, next') /\ (~c.exists => c = Absent),
         acked' \cup settled' \cup excused' \subseteq 1..(next' - 1),
         crashes' \in 0..MaxCrashes,
         \A b \in acked' \ (settled' \cup excused') :
           \A c \in {cache'} \cup inode' : b \in Own(c)
  PROVE  IInv'
<1>1. /\ pc' = to /\ base' = Absent /\ draft' = Absent /\ victims' = {} /\ todo' = <<>>
  BY DEF Over
<1>2. SpillTypeOK'
  BY <1>1, EmptyFiles, HeldOfNone DEF SpillTypeOK, Pcs
<1>3. ~InHand' /\ Limit' = next'
  BY <1>1 DEF InHand, Limit
<1>4. Sorted'
  BY <1>1, <1>3, EmptyFiles, HeldOfNone DEF Sorted, Contents
<1>5. Bounded' /\ Places'
  BY <1>1, <1>3 DEF Bounded, Places
<1>6. SpilledStays'
  BY DEF SpilledStays
<1> QED BY <1>2, <1>4, <1>5, <1>6 DEF IInv

(* A call that returns 0 without touching the ghosts, leaving the file     *)
(* among what it was or may have been.                                     *)
LEMMA RefusedInv ==
  ASSUME IInv, Refused, next \in Batches,
         {cache'} \cup inode' \cup behind' \subseteq Contents \cup {Empty},
         excused \subseteq excused', excused' \subseteq 1..(next - 1),
         \A b \in acked \ (settled \cup excused') :
           \A c \in {cache'} \cup inode' : b \in Own(c)
  PROVE  IInv'
<1>1. /\ Over("idle") /\ next' = next + 1
      /\ acked' = acked /\ settled' = settled /\ crashes' = crashes
  BY DEF Refused
<1>2. next' \in 1..(MaxBatches + 1)
  BY <1>1, SpillAssumption DEF Batches
<1>3. \A c \in {cache'} \cup inode' \cup behind' :
        c \in Files /\ InOrder(c.lines, next') /\ (~c.exists => c = Absent)
  <2>1. \A c \in Contents : c \in Files /\ InOrder(c.lines, next + 1)
                            /\ (~c.exists => c = Absent)
    BY KnownFile
  <2>2. Empty \in Files /\ InOrder(Empty.lines, next + 1) /\ Empty.exists
    BY EmptyFiles, HeldOfNone
  <2> QED BY <1>1, <2>1, <2>2
<1>4. acked' \cup settled' \cup excused' \subseteq 1..(next' - 1)
  <2>1. /\ next \in Nat /\ 1..(next - 1) \subseteq 1..next
        /\ acked \subseteq 1..(next - 1) /\ settled \subseteq 1..(next - 1)
    BY KnownNumbers
  <2>2. next' - 1 = next
    BY <1>1, <2>1
  <2> QED BY <1>1, <2>1, <2>2, Zenon
<1>5. crashes' \in 0..MaxCrashes
  BY <1>1 DEF IInv, SpillTypeOK
<1> QED BY <1>1, <1>2, <1>3, <1>4, <1>5, OverInv

-----------------------------------------------------------------------------
(* offline_spill.                                                          *)

(* A call that returns 1: the record is on a line of its own, and safe, or *)
(* it went behind a torn tail.                                             *)
LEMMA AcknowledgedInv ==
  ASSUME IInv, pc \in {"flush", "entry"}, Acknowledged,
         cache' = cache, inode' = {cache}, behind' \in {behind, {}}
  PROVE  IInv'
<1>1. /\ Over("idle") /\ next' = next + 1 /\ acked' = acked \cup {next}
      /\ settled' = settled /\ crashes' = crashes
      /\ excused' = IF base.tail = 0 THEN excused ELSE excused \cup {next}
  BY DEF Acknowledged
<1>2. next \in Batches
  BY DEF IInv, Bounded
<1>3. next' \in 1..(MaxBatches + 1)
  BY <1>1, <1>2, SpillAssumption DEF Batches
<1>4. \A c \in {cache'} \cup inode' \cup behind' :
        c \in Files /\ InOrder(c.lines, next') /\ (~c.exists => c = Absent)
  <2>1. \A c \in Contents : c \in Files /\ InOrder(c.lines, next + 1)
                            /\ (~c.exists => c = Absent)
    BY KnownFile
  <2> QED BY <1>1, <2>1 DEF Contents
<1>5. acked' \cup settled' \cup excused' \subseteq 1..(next' - 1)
  <2>1. /\ next \in Nat /\ next >= 1 /\ 1..(next - 1) \subseteq 1..next
        /\ acked \subseteq 1..(next - 1) /\ settled \subseteq 1..(next - 1)
        /\ excused \subseteq 1..(next - 1)
    BY KnownNumbers
  <2>2. next' - 1 = next /\ next \in 1..next
    BY <1>1, <2>1
  <2>3. acked' \subseteq 1..next /\ settled' \subseteq 1..next /\ excused' \subseteq 1..next
    BY <1>1, <2>1, <2>2
  <2> QED BY <2>2, <2>3
<1>6. crashes' \in 0..MaxCrashes
  BY <1>1 DEF IInv, SpillTypeOK
<1>7. ASSUME NEW b \in acked' \ (settled' \cup excused') PROVE b \in Own(cache)
  <2>1. CASE b \in acked
    <3>1. b \in acked \ (settled \cup excused \cup Uncounted)
      BY <1>1, <1>7, <2>1 DEF Uncounted
    <3> QED BY <3>1 DEF IInv, SpilledStays
  <2>2. CASE b = next
    <3>1. base.tail = 0
      BY <1>1, <1>7, <2>2
    <3> QED BY <2>2, <3>1 DEF IInv, Places
  <2> QED BY <1>1, <2>1, <2>2
<1> QED BY <1>1, <1>3, <1>4, <1>5, <1>6, <1>7, OverInv

LEMMA SpillCallsInv ==
  ASSUME IInv, SpillFails \/ FlushRecord \/ FlushFails \/ RollBack \/ SyncNewEntry
  PROVE  IInv'
<1>1. CASE SpillFails
  <2>1. /\ pc # "evicted" /\ next \in Batches /\ Refused
        /\ cache' = cache /\ inode' = inode /\ behind' = behind /\ excused' = excused
    BY <1>1 DEF SpillFails, diskVars
  <2>2. \A b \in acked \ (settled \cup excused) : \A c \in {cache} \cup inode : b \in Own(c)
    BY <2>1 DEF IInv, SpilledStays, Uncounted
  <2>3. excused \subseteq 1..(next - 1)
    BY KnownNumbers
  <2> QED BY <2>1, <2>2, <2>3, RefusedInv DEF Contents
<1>2. CASE FlushRecord
  <2>1. pc = "flush" /\ inode' = {cache} /\ cache' = cache /\ behind' = behind
    BY <1>2 DEF FlushRecord, Synced
  <2>2. CASE Acknowledged
    BY <2>1, <2>2, AcknowledgedInv
  <2>3. CASE Refused /\ UNCHANGED excused
    <3>1. \A b \in acked \ (settled \cup excused) : b \in Own(cache)
      BY <2>1 DEF IInv, SpilledStays, Uncounted
    <3>2. excused \subseteq 1..(next - 1)
      BY KnownNumbers
    <3>3. next \in Batches
      BY <2>1 DEF IInv, Bounded
    <3> QED BY <2>1, <2>3, <3>1, <3>2, <3>3, RefusedInv DEF Contents
  <2>4. CASE ~base.exists /\ pc' = "entry" /\ UNCHANGED <<localVars, ghostVars, crashes>>
    <3>1. base = Absent
      BY <2>4, KnownFile DEF Contents
    <3>2. InHand /\ InHand' /\ Limit' = Limit /\ Contents' \subseteq Contents
      BY <2>1, <2>4 DEF InHand, Limit, Contents, localVars, ghostVars
    <3>3. SpillTypeOK'
      BY <2>1, <2>4 DEF IInv, SpillTypeOK, Pcs, localVars, ghostVars
    <3>4. Sorted'
      BY <2>1, <2>4, <3>2 DEF IInv, Sorted, localVars, ghostVars
    <3>5. Bounded' /\ Places' /\ SpilledStays'
      BY <2>1, <2>4, <3>1, <3>2 DEF IInv, Bounded, Places, Safe, SpilledStays, Uncounted,
           localVars, ghostVars
    <3> QED BY <3>3, <3>4, <3>5 DEF IInv
  <2> QED BY <1>2, <2>2, <2>3, <2>4 DEF FlushRecord
<1>3. CASE FlushFails
  <2>1. pc = "flush" /\ pc' = "rollback" /\ UNCHANGED <<diskVars, localVars, ghostVars, crashes>>
    BY <1>3 DEF FlushFails
  <2>2. InHand /\ InHand' /\ Limit' = Limit /\ Contents' = Contents
    BY <2>1 DEF InHand, Limit, Contents, diskVars, localVars, ghostVars
  <2>3. SpillTypeOK'
    BY <2>1 DEF IInv, SpillTypeOK, Pcs, diskVars, localVars, ghostVars
  <2>4. Sorted'
    BY <2>1, <2>2 DEF IInv, Sorted, localVars, ghostVars
  <2>5. Bounded' /\ Places' /\ SpilledStays'
    BY <2>1, <2>2 DEF IInv, Bounded, Places, Safe, SpilledStays, Uncounted,
         diskVars, localVars, ghostVars
  <2> QED BY <2>3, <2>4, <2>5 DEF IInv
<1>4. CASE RollBack
  <2>1. /\ pc = "rollback" /\ Refused /\ behind' = behind /\ excused' = excused
        /\ cache' \in {cache, [base EXCEPT !.exists = TRUE]}
        /\ inode' \in {{cache'}, inode \cup {cache'}}
    BY <1>4 DEF RollBack
  <2>2. base \in Files /\ (~base.exists => base = Absent)
    BY KnownFile DEF Contents
  <2>3. [base EXCEPT !.exists = TRUE] \in {base, Empty}
    BY <2>2, Zenon DEF Files, Absent, Empty
  <2>4. \A b \in acked \ (settled \cup excused) :
          /\ b \in Own(base) /\ \A c \in {cache} \cup inode : b \in Own(c)
    BY <2>1 DEF IInv, Places, InHand, Safe, SpilledStays, Uncounted
  <2>5. Own([base EXCEPT !.exists = TRUE]) = Own(base)
    BY <2>2 DEF Own, Files
  <2>6. next \in Batches /\ excused \subseteq 1..(next - 1)
    BY <2>1, KnownNumbers DEF IInv, Bounded
  <2>7. {cache'} \cup inode' \cup behind' \subseteq Contents \cup {Empty}
    BY <2>1, <2>3, Zenon DEF Contents
  <2>8. \A b \in acked \ (settled \cup excused) : \A c \in {cache'} \cup inode' : b \in Own(c)
    BY <2>1, <2>4, <2>5
  <2> QED BY <2>1, <2>6, <2>7, <2>8, RefusedInv
<1>5. CASE SyncNewEntry
  <2>1. pc = "entry" /\ cache' = cache /\ inode' = inode /\ inode = {cache}
    BY <1>5 DEF SyncNewEntry, IInv, Places
  <2>2. CASE behind' = {} /\ Acknowledged
    BY <2>1, <2>2, AcknowledgedInv
  <2>3. CASE Refused /\ UNCHANGED <<behind, excused>>
    <3>1. \A b \in acked \ (settled \cup excused) : \A c \in {cache} \cup inode : b \in Own(c)
      BY <2>1 DEF IInv, SpilledStays, Uncounted
    <3>2. next \in Batches /\ excused \subseteq 1..(next - 1)
      BY <2>1, KnownNumbers DEF IInv, Bounded
    <3> QED BY <2>1, <2>3, <3>1, <3>2, RefusedInv DEF Contents
  <2> QED BY <1>5, <2>2, <2>3 DEF SyncNewEntry
<1> QED BY <1>1, <1>2, <1>3, <1>4, <1>5

LEMMA EnforceCapInv ==
  ASSUME IInv, EnforceCap
  PROVE  IInv'
<1>1. /\ pc = "idle" /\ next \in Batches
      /\ UNCHANGED <<diskVars, base, todo, ghostVars, crashes>>
  BY DEF EnforceCap
<1>2. ~InHand /\ Limit = next
  BY <1>1 DEF InHand, Limit
<1>3. \A b \in Safe : \A c \in {cache} \cup inode : b \in Own(c)
  BY <1>1 DEF IInv, SpilledStays, Uncounted, Safe
<1>4. CASE pc' = "append" /\ UNCHANGED <<draft, victims>>
  <2>1. ~InHand' /\ Limit' = Limit /\ Contents' = Contents /\ Safe' = Safe
    BY <1>1, <1>2, <1>4 DEF InHand, Limit, Contents, Safe, diskVars, ghostVars
  <2>2. SpillTypeOK'
    BY <1>1, <1>4 DEF IInv, SpillTypeOK, Pcs, diskVars, ghostVars
  <2>3. Sorted'
    BY <1>1, <1>4, <2>1 DEF IInv, Sorted, ghostVars
  <2>4. Bounded' /\ Places'
    BY <1>1, <1>4, <2>1 DEF IInv, Bounded, Places, ghostVars
  <2>5. SpilledStays'
    BY <1>1, <1>3, <2>1 DEF SpilledStays, Safe, diskVars
  <2> QED BY <2>2, <2>3, <2>4, <2>5 DEF IInv
<1>5. CASE /\ cache.exists
           /\ draft' = Trimmed(cache, BodyLen[next])
           /\ victims' = Own(cache) \ Own(draft')
           /\ pc' = "evict"
  <2>1. cache \in Files /\ cache.lines \in Lines /\ InOrder(cache.lines, next) /\ next \in Nat
    BY <1>2, KnownFile, KnownNumbers DEF Contents
  <2>2. draft' \in Files /\ draft'.exists /\ InOrder(draft'.lines, next)
    BY <1>5, <2>1, TrimmedFile
  <2>3. victims' \subseteq 1..(next - 1) /\ victims' \subseteq Batches
    BY <1>5, <2>1, HeldBelow DEF Own
  <2>4. ~InHand' /\ Limit' = Limit /\ Contents' \subseteq Contents \cup {draft'} /\ Safe' = Safe
    BY <1>1, <1>2, <1>5 DEF InHand, Limit, Contents, Safe, diskVars, ghostVars
  <2>5. SpillTypeOK'
    BY <1>1, <1>5, <2>2, <2>3 DEF IInv, SpillTypeOK, Pcs, diskVars, ghostVars
  <2>6. Sorted'
    BY <1>1, <1>2, <2>2, <2>4 DEF IInv, Sorted, ghostVars
  <2>7. Bounded'
    BY <1>1, <1>5, <2>2, <2>3 DEF Bounded, ghostVars
  <2>8. Places'
    BY <1>3, <1>5, <2>4 DEF Places
  <2>9. SpilledStays'
    BY <1>1, <1>3, <2>4 DEF SpilledStays, Safe, diskVars
  <2> QED BY <2>5, <2>6, <2>7, <2>8, <2>9 DEF IInv
<1> QED BY <1>4, <1>5 DEF EnforceCap

LEMMA AppendRecordInv ==
  ASSUME IInv, AppendRecord
  PROVE  IInv'
<1>1. /\ pc = "append" /\ base' = cache
      /\ UNCHANGED <<draft, victims, todo, ghostVars, crashes>>
      /\ behind' = IF cache.exists THEN behind ELSE behind \cup inode
  BY DEF AppendRecord
<1>2. PICK k \in 0..(BodyLen[next] + 1) :
        /\ cache' = Written(cache, next, k)
        /\ inode' = (IF cache.exists THEN inode ELSE {})
                       \cup {Written(cache, next, j) : j \in 0..k}
        /\ pc' = IF k = BodyLen[next] + 1 THEN "flush" ELSE "rollback"
  BY DEF AppendRecord
<1>3. next \in Batches /\ BodyLen[next] \in Nat \ {0} /\ next \in Nat
  BY <1>1, SpillAssumption, KnownNumbers DEF IInv, Bounded
<1>4. cache \in Files /\ cache.lines \in Lines /\ InOrder(cache.lines, next) /\ Limit = next
  BY <1>1, KnownFile DEF Contents, Limit, InHand
<1>5. \A j \in Nat : /\ Written(cache, next, j) \in Files
                     /\ Written(cache, next, j).exists
                     /\ Own(cache) \subseteq Own(Written(cache, next, j))
                     /\ InOrder(Written(cache, next, j).lines, next + 1)
  BY <1>3, <1>4, WrittenFile
<1>6. k = BodyLen[next] + 1 /\ cache.tail = 0 => next \in Own(Written(cache, next, k))
  BY <1>3, <1>4, WrittenFile
<1>7. \A c \in ({cache'} \cup inode') \ inode :
        /\ c \in Files /\ c.exists /\ Own(cache) \subseteq Own(c)
        /\ InOrder(c.lines, next + 1)
  BY <1>2, <1>3, <1>5
<1>8. pc' \in {"flush", "rollback"} /\ InHand' /\ Limit' = next + 1 /\ Safe' = Safe
  BY <1>1, <1>2 DEF InHand, Limit, Safe, ghostVars
<1>9. \A b \in Safe : \A c \in {cache} \cup inode : b \in Own(c)
  BY <1>1 DEF IInv, SpilledStays, Uncounted, Safe
<1>10. Contents' \subseteq Contents \cup (({cache'} \cup inode') \ inode)
  BY <1>1, <1>2 DEF Contents
<1>11. SpillTypeOK'
  <2>1. Contents \subseteq Files
    BY KnownFile
  <2>2. Contents' \subseteq Files
    BY <1>7, <1>10, <2>1
  <2> QED BY <1>1, <1>8, <2>2 DEF IInv, SpillTypeOK, Contents, Pcs, ghostVars
<1>12. Sorted'
  <2>1. \A c \in Contents : InOrder(c.lines, next + 1) /\ (~c.exists => c = Absent)
    BY KnownFile
  <2>2. \A c \in Contents' : InOrder(c.lines, Limit') /\ (~c.exists => c = Absent)
    BY <1>7, <1>8, <1>10, <2>1
  <2>3. InOrder(todo, next)
    BY DEF IInv, Sorted
  <2> QED BY <1>1, <1>4, <2>2, <2>3 DEF Sorted, ghostVars
<1>13. Bounded'
  BY <1>1, <1>3, <1>8 DEF IInv, Bounded, ghostVars
<1>14. Places'
  <2>1. pc' = "flush" => k = BodyLen[next] + 1
    BY <1>2
  <2>2. pc' = "flush" /\ base'.tail = 0 => next' \in Own(cache')
    BY <1>1, <1>2, <1>6, <2>1 DEF ghostVars
  <2> QED BY <1>1, <1>8, <1>9, <2>2 DEF Places
<1>15. SpilledStays'
  <2>1. \A b \in Safe : \A c \in {cache'} \cup inode' : b \in Own(c)
    BY <1>7, <1>9, <1>2, <1>5, <1>3
  <2> QED BY <1>8, <2>1 DEF SpilledStays, Safe
<1> QED BY <1>11, <1>12, <1>13, <1>14, <1>15 DEF IInv

-----------------------------------------------------------------------------
(* write_atomic.                                                           *)

(* The rename: what the draft leaves out is in hand, or excused.           *)
LEMMA ReplaceInv ==
  ASSUME IInv, ReplaceKept \/ ReplaceTrimmed
  PROVE  IInv'
<1>1. /\ pc \in {"keep", "evict"} /\ pc' = IF pc = "keep" THEN "kept" ELSE "evicted"
      /\ cache' = draft /\ inode' = {draft} /\ behind' = behind \cup inode
      /\ UNCHANGED <<base, draft, victims, todo, next, acked, settled, crashes>>
      /\ excused' = IF pc = "keep" THEN excused \cup victims ELSE excused
  BY DEF ReplaceKept, ReplaceTrimmed, Replace, TmpContents
<1>2. ~InHand /\ ~InHand' /\ Limit' = Limit /\ Limit = next /\ Contents' \subseteq Contents
  BY <1>1 DEF InHand, Limit, Contents
<1>3. SpillTypeOK'
  <2>1. excused' \subseteq 1..(next - 1)
    BY <1>1 DEF IInv, SpillTypeOK, Bounded
  <2>2. pc' \in Pcs
    BY <1>1 DEF Pcs
  <2> QED BY <1>1, <2>1, <2>2 DEF IInv, SpillTypeOK
<1>4. Sorted'
  BY <1>1, <1>2 DEF IInv, Sorted
<1>5. Bounded'
  BY <1>1 DEF IInv, Bounded
<1>6. Places'
  BY <1>1, <1>2 DEF Places
<1>7. SpilledStays'
  <2>1. Safe \subseteq Own(draft) \cup victims
    BY <1>1 DEF IInv, Places
  <2>2. acked' \ (settled' \cup excused' \cup Uncounted') \subseteq Safe \ victims
    BY <1>1 DEF Safe, Uncounted
  <2> QED BY <1>1, <2>1, <2>2 DEF SpilledStays
<1> QED BY <1>3, <1>4, <1>5, <1>6, <1>7 DEF IInv

LEMMA RewriteEndsInv ==
  ASSUME IInv, EvictionDone \/ EvictionFails \/ RewriteReturns
  PROVE  IInv'
<1>1. CASE EvictionDone
  <2>1. /\ pc = "evicted" /\ Over("append") /\ behind' = {} /\ settled' = settled \cup victims
        /\ UNCHANGED <<cache, inode, next, acked, excused, crashes>>
    BY <1>1 DEF EvictionDone
  <2>2. next \in Batches /\ victims \subseteq 1..(next - 1) /\ crashes \in 0..MaxCrashes
    BY <2>1 DEF IInv, Bounded, SpillTypeOK
  <2>3. Limit = next
    BY <2>1 DEF Limit, InHand
  <2>4. \A c \in {cache} \cup inode :
          c \in Files /\ InOrder(c.lines, next) /\ (~c.exists => c = Absent)
    BY <2>3, KnownFile DEF Contents
  <2>5. \A b \in acked \ (settled' \cup excused) : \A c \in {cache} \cup inode : b \in Own(c)
    BY <2>1 DEF IInv, SpilledStays, Uncounted
  <2>6. acked' \cup settled' \cup excused' \subseteq 1..(next' - 1)
    BY <2>1, <2>2, KnownNumbers, Zenon
  <2>7. next' \in 1..(MaxBatches + 1)
    BY <2>1, KnownNumbers
  <2> QED BY <2>1, <2>2, <2>4, <2>5, <2>6, <2>7, OverInv
<1>2. CASE EvictionFails
  <2>1. /\ pc \in {"evict", "evicted"} /\ Refused
        /\ excused' = IF pc = "evicted" THEN excused \cup victims ELSE excused
        /\ UNCHANGED <<cache, inode, behind>>
    BY <1>2 DEF EvictionFails, diskVars
  <2>2. next \in Batches /\ victims \subseteq 1..(next - 1)
    BY <2>1 DEF IInv, Bounded
  <2>3. excused' \subseteq 1..(next - 1) /\ excused \subseteq excused'
    BY <2>1, <2>2, KnownNumbers
  <2>4. \A b \in acked \ (settled \cup excused') : \A c \in {cache} \cup inode : b \in Own(c)
    BY <2>1 DEF IInv, SpilledStays, Uncounted
  <2>5. {cache'} \cup inode' \cup behind' \subseteq Contents \cup {Empty}
    BY <2>1 DEF Contents
  <2> QED BY <2>1, <2>2, <2>3, <2>4, <2>5, RefusedInv
<1>3. CASE RewriteReturns
  <2>1. /\ pc \in {"keep", "kept"} /\ Over("idle") /\ behind' \in {behind, {}}
        /\ UNCHANGED <<cache, inode, ghostVars, crashes>>
    BY <1>3 DEF RewriteReturns
  <2>2. Limit = next /\ crashes \in 0..MaxCrashes
    BY <2>1 DEF Limit, InHand, IInv, SpillTypeOK
  <2>3. \A c \in {cache} \cup inode \cup behind :
          c \in Files /\ InOrder(c.lines, next) /\ (~c.exists => c = Absent)
    BY <2>2, KnownFile DEF Contents
  <2>4. \A b \in acked \ (settled \cup excused) : \A c \in {cache} \cup inode : b \in Own(c)
    BY <2>1 DEF IInv, SpilledStays, Uncounted
  <2>5. acked' \cup settled' \cup excused' \subseteq 1..(next' - 1) /\ next' \in 1..(MaxBatches + 1)
    BY <2>1, KnownNumbers DEF ghostVars
  <2>6. /\ cache' = cache /\ inode' = inode /\ next' = next /\ acked' = acked
        /\ settled' = settled /\ excused' = excused /\ crashes' = crashes
    BY <2>1 DEF ghostVars
  <2> QED BY <2>1, <2>2, <2>3, <2>4, <2>5, <2>6, OverInv
<1> QED BY <1>1, <1>2, <1>3

-----------------------------------------------------------------------------
(* offline_replay.                                                         *)

LEMMA ReplayBeginInv ==
  ASSUME IInv, ReplayBegin
  PROVE  IInv'
<1>1. /\ pc = "idle" /\ pc' = "replay"
      /\ UNCHANGED <<diskVars, base, draft, ghostVars, crashes>>
  BY DEF ReplayBegin
<1>2. PICK n \in 0..Len(cache.lines) :
        todo' = SubSeq(cache.lines, 1, n) /\ victims' = Own(cache) \ Held(todo')
  BY DEF ReplayBegin
<1>3. Limit = next /\ ~InHand /\ ~InHand' /\ Limit' = Limit /\ Contents' = Contents /\ Safe' = Safe
  BY <1>1 DEF Limit, InHand, Contents, Safe, diskVars, ghostVars
<1>4. cache.lines \in Lines /\ InOrder(cache.lines, next) /\ next \in Nat
  BY <1>3, KnownFile, KnownNumbers DEF Contents
<1>5. todo' \in Lines /\ InOrder(todo', next)
  <2>1. 1 \in 1..(Len(cache.lines) + 1)
    BY <1>4, LinesTyped
  <2> QED BY <1>2, <1>4, <2>1, PartOfLines
<1>6. victims' \subseteq 1..(next - 1) /\ victims' \subseteq Batches
  BY <1>2, <1>4, HeldBelow DEF Own
<1>7. \A b \in Safe : \A c \in {cache} \cup inode : b \in Own(c)
  BY <1>1 DEF IInv, SpilledStays, Uncounted, Safe
<1>8. SpillTypeOK'
  BY <1>1, <1>5, <1>6 DEF IInv, SpillTypeOK, Pcs, diskVars, ghostVars
<1>9. Sorted'
  BY <1>1, <1>3, <1>5 DEF IInv, Sorted, ghostVars
<1>10. Bounded' /\ Places'
  BY <1>1, <1>2, <1>3, <1>6, <1>7 DEF Bounded, Places, ghostVars
<1>11. SpilledStays'
  BY <1>1, <1>3, <1>7 DEF SpilledStays, Safe, diskVars
<1> QED BY <1>8, <1>9, <1>10, <1>11 DEF IInv

LEMMA ReplayLineInv ==
  ASSUME IInv, ReplayLine
  PROVE  IInv'
<1>1. /\ pc = "replay" /\ todo # <<>> /\ todo' = Tail(todo)
      /\ settled' = settled \cup Held(<<Head(todo)>>)
      /\ UNCHANGED <<cache, inode, behind, pc, base, draft, victims, next, acked, excused, crashes>>
  BY DEF ReplayLine, diskVars
<1>2. todo \in Lines /\ InOrder(todo, next) /\ next \in Nat
  BY KnownNumbers DEF IInv, SpillTypeOK, Sorted
<1>3. /\ todo' \in Lines /\ InOrder(todo', next)
      /\ Held(todo) = Held(<<Head(todo)>>) \cup Held(todo')
  BY <1>1, <1>2, TailOfLines
<1>4. settled' \subseteq 1..(next - 1)
  <2>1. Held(todo) \subseteq 1..(next - 1)
    BY <1>2, HeldBelow
  <2> QED BY <1>1, <1>3, <2>1, KnownNumbers
<1>5. ~InHand /\ ~InHand' /\ Limit' = Limit /\ Contents' = Contents
  BY <1>1 DEF Limit, InHand, Contents
<1>6. SpillTypeOK'
  BY <1>1, <1>3, <1>4 DEF IInv, SpillTypeOK
<1>7. Sorted'
  BY <1>1, <1>3, <1>5 DEF IInv, Sorted
<1>8. Bounded' /\ Places'
  BY <1>1, <1>3, <1>5 DEF IInv, Bounded, Places, Safe
<1>9. SpilledStays'
  BY <1>1 DEF IInv, SpilledStays, Uncounted
<1> QED BY <1>6, <1>7, <1>8, <1>9 DEF IInv

LEMMA ReplayStopInv ==
  ASSUME IInv, ReplayStop
  PROVE  IInv'
<1>1. /\ pc = "replay" /\ todo # <<>> /\ todo' = <<>>
      /\ victims' = victims \cup (Held(todo) \ Own(draft'))
      /\ pc' = IF draft' = Empty THEN "remove" ELSE "keep"
      /\ UNCHANGED <<cache, inode, behind, base, ghostVars, crashes>>
  BY DEF ReplayStop, diskVars
<1>2. PICK n \in 0..Len(todo) :
        \E t \in {0} \cup {todo[n + 1].size : i \in {n} \ {Len(todo)}} :
          draft' = [exists |-> TRUE, lines |-> SubSeq(todo, 1, n), tail |-> t]
  BY Zenon DEF ReplayStop
<1>3. PICK t \in {0} \cup {todo[n + 1].size : i \in {n} \ {Len(todo)}} :
          draft' = [exists |-> TRUE, lines |-> SubSeq(todo, 1, n), tail |-> t]
  BY <1>2, Zenon
<1>4. todo \in Lines /\ InOrder(todo, next) /\ next \in Nat
  BY KnownNumbers DEF IInv, SpillTypeOK, Sorted
<1>5. t \in Nat
  <2>1. n # Len(todo) => n + 1 \in DOMAIN todo /\ todo[n + 1] \in LineRecords
    BY <1>4, LinesTyped
  <2> QED BY <2>1 DEF LineRecords
<1>6. draft' \in Files /\ InOrder(draft'.lines, next) /\ draft'.exists
  <2>1. 1 \in 1..(Len(todo) + 1)
    BY <1>4, LinesTyped
  <2>2. SubSeq(todo, 1, n) \in Lines /\ InOrder(SubSeq(todo, 1, n), next)
    BY <1>4, <2>1, PartOfLines
  <2> QED BY <1>3, <1>5, <2>2 DEF Files
<1>7. victims' \subseteq 1..(next - 1) /\ victims' \subseteq Batches
  BY <1>1, <1>4, HeldBelow, Zenon DEF IInv, SpillTypeOK, Bounded
<1>8. /\ ~InHand /\ ~InHand' /\ Limit' = Limit /\ Limit = next
      /\ Contents' \subseteq Contents \cup {draft'} /\ Safe' = Safe
  BY <1>1 DEF Limit, InHand, Contents, Safe, ghostVars
<1>9. Safe \subseteq Own(draft') \cup victims' /\ (draft' = Empty => Safe \subseteq victims')
  <2>1. Safe \subseteq Held(todo) \cup victims
    BY <1>1 DEF IInv, Places
  <2>2. Own(Empty) = {}
    BY EmptyFiles
  <2> QED BY <1>1, <2>1, <2>2
<1>10. SpillTypeOK'
  BY <1>1, <1>6, <1>7, HeldOfNone, SMTT(15) DEF IInv, SpillTypeOK, Pcs, ghostVars
<1>11. Sorted'
  BY <1>1, <1>6, <1>8, HeldOfNone DEF IInv, Sorted, ghostVars
<1>12. Bounded' /\ Places'
  BY <1>1, <1>6, <1>7, <1>8, <1>9 DEF Bounded, Places, ghostVars
<1>13. SpilledStays'
  BY <1>1, <1>8 DEF IInv, SpilledStays, Safe, Uncounted
<1> QED BY <1>10, <1>11, <1>12, <1>13 DEF IInv

LEMMA ReplayEndsInv ==
  ASSUME IInv, ReplayDone \/ RemoveFile \/ ReplaySkip
  PROVE  IInv'
<1>1. CASE ReplayDone
  <2>1. /\ pc = "replay" /\ todo = <<>> /\ pc' = "remove"
        /\ UNCHANGED <<diskVars, localVars, ghostVars, crashes>>
    BY <1>1 DEF ReplayDone
  <2>2. /\ ~InHand /\ ~InHand' /\ Limit' = Limit /\ Contents' = Contents /\ Safe' = Safe
    BY <2>1 DEF Limit, InHand, Contents, Safe, diskVars, localVars, ghostVars
  <2>3. Safe \subseteq victims
    BY <2>1, HeldOfNone DEF IInv, Places
  <2>4. SpillTypeOK' /\ Bounded'
    BY <2>1 DEF IInv, SpillTypeOK, Bounded, Pcs, diskVars, localVars, ghostVars
  <2>5. Sorted'
    BY <2>1, <2>2 DEF IInv, Sorted, localVars, ghostVars
  <2>6. Places' /\ SpilledStays'
    BY <2>1, <2>2, <2>3 DEF IInv, Places, SpilledStays, Uncounted,
         diskVars, localVars, ghostVars
  <2> QED BY <2>4, <2>5, <2>6 DEF IInv
<1>2. CASE RemoveFile
  <2>1. /\ pc = "remove" /\ Over("idle")
        /\ UNCHANGED <<next, acked, settled, crashes>>
        /\ \/ /\ cache' = Absent /\ inode' = {Absent} /\ behind' = behind \cup inode
              /\ excused' = excused \cup victims
           \/ UNCHANGED <<cache, inode, behind, excused>>
    BY <1>2 DEF RemoveFile, diskVars
  <2>2. Limit = next /\ crashes \in 0..MaxCrashes /\ victims \subseteq 1..(next - 1)
    BY <2>1 DEF Limit, InHand, IInv, SpillTypeOK, Bounded
  <2>3. \A c \in {cache} \cup inode \cup behind :
          c \in Files /\ InOrder(c.lines, next) /\ (~c.exists => c = Absent)
    BY <2>2, KnownFile DEF Contents
  <2>4. Absent \in Files /\ InOrder(Absent.lines, next)
    BY EmptyFiles, HeldOfNone
  <2>5. \A c \in {cache'} \cup inode' \cup behind' :
          c \in Files /\ InOrder(c.lines, next) /\ (~c.exists => c = Absent)
    BY <2>1, <2>3, <2>4
  <2>6. \A b \in acked \ (settled \cup excused') : \A c \in {cache'} \cup inode' : b \in Own(c)
    <3>1. Safe \subseteq victims
      BY <2>1 DEF IInv, Places
    <3>2. \A b \in Safe : \A c \in {cache} \cup inode : b \in Own(c)
      BY <2>1 DEF IInv, SpilledStays, Uncounted, Safe
    <3> QED BY <2>1, <3>1, <3>2 DEF Safe
  <2>7. /\ acked' \cup settled' \cup excused' \subseteq 1..(next' - 1)
        /\ next' \in 1..(MaxBatches + 1)
    BY <2>1, <2>2, KnownNumbers
  <2> QED BY <2>1, <2>2, <2>5, <2>6, <2>7, OverInv
<1>3. CASE ReplaySkip
  BY <1>3, SMTT(15) DEF ReplaySkip, spillVars, diskVars, localVars, ghostVars, IInv, SpillTypeOK, Sorted,
       Bounded, Places, SpilledStays, Uncounted, Safe, Contents, Limit, InHand
<1> QED BY <1>1, <1>2, <1>3

-----------------------------------------------------------------------------
(* Crashes.                                                                *)

LEMMA CrashInv ==
  ASSUME IInv, Kill \/ PowerLoss
  PROVE  IInv'
<1>1. /\ Over("down") /\ acked' = acked /\ settled' = settled /\ crashes' = crashes + 1
      /\ crashes < MaxCrashes
      /\ next' = IF pc \in {"append", "flush", "rollback", "entry", "evict", "evicted"}
                 THEN next + 1 ELSE next
  BY DEF Kill, PowerLoss, Dies
<1>2. crashes' \in 0..MaxCrashes
  BY <1>1, SpillAssumption DEF IInv, SpillTypeOK
<1>3. next' \in 1..(MaxBatches + 1) /\ next' \in {next, next + 1} /\ Limit <= next' /\ Limit \in Nat
  <2>1. next \in Nat /\ next \in 1..(MaxBatches + 1)
    BY KnownNumbers
  <2>2. next' = next + 1 => next \in Batches
    BY <1>1, <2>1 DEF IInv, Bounded
  <2> QED BY <1>1, <2>1, <2>2, SpillAssumption DEF Batches, Limit, InHand
<1>4. \A c \in Contents : c \in Files /\ InOrder(c.lines, next') /\ (~c.exists => c = Absent)
  <2>1. next' \in Nat
    BY <1>3, KnownNumbers
  <2>2. \A c \in Contents : /\ c \in Files /\ c.lines \in Lines /\ InOrder(c.lines, Limit)
                            /\ (~c.exists => c = Absent)
    BY KnownFile
  <2> QED BY <1>3, <2>1, <2>2, InOrderLater
<1>5. Uncounted \subseteq 1..(next - 1)
  BY DEF IInv, Bounded, Uncounted
<1>6. 1..(next - 1) \subseteq 1..(next' - 1)
  <2>1. next \in Nat
    BY KnownNumbers
  <2>2. next' = next \/ next' = next + 1
    BY <1>3
  <2> QED BY <2>1, <2>2
<1>7. CASE Kill
  <2>1. cache' = cache /\ inode' = inode /\ behind' = behind /\ excused' = excused \cup Uncounted
    BY <1>7 DEF Kill, diskVars
  <2>2. acked' \cup settled' \cup excused' \subseteq 1..(next' - 1)
    BY <1>1, <1>5, <1>6, <2>1, KnownNumbers, Zenon
  <2>3. \A b \in acked \ (settled \cup excused') : \A c \in {cache} \cup inode : b \in Own(c)
    BY <2>1 DEF IInv, SpilledStays
  <2>4. {cache'} \cup inode' \cup behind' \subseteq Contents
    BY <2>1 DEF Contents
  <2> QED BY <1>1, <1>2, <1>3, <1>4, <2>1, <2>2, <2>3, <2>4, OverInv
<1>8. CASE PowerLoss
  <2>1. /\ cache' \in inode \cup behind /\ inode' = {cache'} /\ behind' = {}
        /\ excused' = excused \cup (Uncounted \ Own(cache'))
                        \cup (IF cache' \in inode THEN {} ELSE acked \ Own(cache'))
    BY <1>8 DEF PowerLoss
  <2>2. acked' \cup settled' \cup excused' \subseteq 1..(next' - 1)
    BY <1>1, <1>5, <1>6, <2>1, KnownNumbers
  <2>3. ASSUME NEW b \in acked \ (settled \cup excused') PROVE b \in Own(cache')
    <3>1. CASE cache' \in inode
      BY <2>1, <2>3, <3>1 DEF IInv, SpilledStays
    <3>2. CASE cache' \notin inode
      BY <2>1, <2>3, <3>2
    <3> QED BY <3>1, <3>2
  <2>4. {cache'} \cup inode' \cup behind' \subseteq Contents
    BY <2>1 DEF Contents
  <2> QED BY <1>1, <1>2, <1>3, <1>4, <2>1, <2>2, <2>3, <2>4, OverInv
<1> QED BY <1>7, <1>8

LEMMA RestartInv ==
  ASSUME IInv, Restart
  PROVE  IInv'
<1>1. pc = "down" /\ pc' = "idle" /\ UNCHANGED <<diskVars, localVars, ghostVars, crashes>>
  BY DEF Restart
<1>2. ~InHand /\ ~InHand' /\ Limit' = Limit /\ Contents' = Contents
  BY <1>1 DEF Limit, InHand, Contents, diskVars, localVars, ghostVars
<1>3. SpillTypeOK' /\ Bounded'
  BY <1>1 DEF IInv, SpillTypeOK, Bounded, Pcs, diskVars, localVars, ghostVars
<1>4. Sorted'
  BY <1>1, <1>2 DEF IInv, Sorted, localVars, ghostVars
<1>5. Places' /\ SpilledStays'
  BY <1>1, <1>2 DEF IInv, Places, SpilledStays, Uncounted, diskVars, localVars, ghostVars
<1> QED BY <1>3, <1>4, <1>5 DEF IInv

-----------------------------------------------------------------------------
THEOREM SpillInvariant == SpillSpec => []IInv
<1>1. IInv /\ [SpillNext]_spillVars => IInv'
  <2> SUFFICES ASSUME IInv, [SpillNext]_spillVars PROVE IInv'
    BY SMTT(15)
  <2>1. CASE UNCHANGED spillVars
    BY <2>1 DEF spillVars, diskVars, localVars, ghostVars, IInv, SpillTypeOK, Sorted,
         Bounded, Places, SpilledStays, Uncounted, Safe, Contents, Limit, InHand
  <2>2. CASE SpillNext
    BY <2>2, EnforceCapInv, SpillCallsInv, AppendRecordInv, ReplaceInv, RewriteEndsInv,
       ReplayBeginInv, ReplayLineInv, ReplayStopInv, ReplayEndsInv, CrashInv, RestartInv
       DEF SpillNext
  <2> QED BY <2>1, <2>2
<1> QED BY <1>1, InitInv, PTL DEF SpillSpec

(* The variables of the spill file keep their types: in particular nothing *)
(* is counted or excused that was not spilled before.                      *)
THEOREM SpillTypes == SpillSpec => []SpillTypeOK
<1>1. IInv => SpillTypeOK
  BY DEF IInv
<1> QED BY <1>1, SpillInvariant, PTL

(* A batch that offline_spill took stays in the file, also in what a power *)
(* loss leaves of it, until it is posted or counted; the four ways excused *)
(* names are the only other ends it can meet.                              *)
THEOREM SpilledBatchesStay == SpillSpec => []SpilledStays
<1>1. IInv => SpilledStays
  BY DEF IInv
<1> QED BY <1>1, SpillInvariant, PTL

(* offline_replay finds the batches in the order they were spilled.        *)
THEOREM SpillKeepsOrder == SpillSpec => []LinesInOrder
<1>1. IInv => LinesInOrder
  BY DEF IInv, Sorted, LinesInOrder, Contents, InOrder
<1> QED BY <1>1, SpillInvariant, PTL

-----------------------------------------------------------------------------
(* The bytes of lines and of files.                                        *)

LEMMA LeastElement ==
  ASSUME NEW T \in SUBSET Nat, T # {}
  PROVE  \E x \in T : \A y \in T : x <= y
<1>1. \E x \in T : \A y \in T : <<y, x>> \notin OpToRel(<, Nat)
  BY WFMin, NatLessThanWellFounded, Zenon
<1>2. \A x, y \in Nat : y < x => <<y, x>> \in OpToRel(<, Nat)
  BY Zenon DEF OpToRel
<1>3. PICK x \in T : \A y \in T : ~(y < x)
  BY <1>1, <1>2
<1> QED BY <1>3

(* A set that holds 0 and is closed under successor holds every number.    *)
LEMMA SetInduction ==
  ASSUME NEW T, 0 \in T, \A n \in Nat : n \in T => n + 1 \in T
  PROVE  Nat \subseteq T
<1> SUFFICES ASSUME Nat \ T # {} PROVE FALSE
  OBVIOUS
<1>1. PICK x \in Nat \ T : \A y \in Nat \ T : x <= y
  <2>1. Nat \ T \in SUBSET Nat
    OBVIOUS
  <2> QED BY <2>1, LeastElement, Zenon
<1>2. x - 1 \in Nat
  BY <1>1
<1>3. x - 1 \in T
  BY <1>1, <1>2
<1>4. (x - 1) + 1 = x
  BY <1>2
<1> QED BY <1>1, <1>2, <1>3, <1>4

(* The running sum of the numbers a[1], a[2], ..., each plus one, up to    *)
(* index n.                                                                *)
IsSum(f, n, a) == f = [i \in 0 .. n |-> IF i = 0 THEN 0 ELSE f[i - 1] + a[i] + 1]

LEMMA SumExists ==
  ASSUME NEW a \in [Nat -> Nat]
  PROVE  \A n \in Nat : \E f \in [0 .. n -> Nat] : IsSum(f, n, a)
<1> DEFINE T == {n \in Nat : \E f \in [0 .. n -> Nat] : IsSum(f, n, a)}
<1>1. 0 \in T
  <2> DEFINE f == [i \in 0 .. 0 |-> 0]
  <2>1. f \in [0 .. 0 -> Nat] /\ IsSum(f, 0, a)
    BY DEF IsSum
  <2> QED BY <2>1
<1>2. ASSUME NEW n \in Nat, n \in T PROVE n + 1 \in T
  <2>1. PICK f \in [0 .. n -> Nat] : IsSum(f, n, a)
    BY <1>2, Zenon
  <2> DEFINE h == [i \in 0 .. (n + 1) |-> IF i = n + 1 THEN f[n] + a[n + 1] + 1 ELSE f[i]]
  <2>2. n + 1 \in Nat /\ a[n + 1] \in Nat /\ f[n] \in Nat
    OBVIOUS
  <2>3. h \in [0 .. (n + 1) -> Nat]
    <3>1. \A i \in 0 .. (n + 1) : i # n + 1 => i \in 0 .. n
      OBVIOUS
    <3>2. f[n] + a[n + 1] + 1 \in Nat
      <4>1. \A x, y \in Nat : x + y + 1 \in Nat
        OBVIOUS
      <4> QED BY <2>2, <4>1, Zenon
    <3> QED BY <3>1, <3>2, Zenon
  <2>4. ASSUME NEW i \in 0 .. (n + 1)
        PROVE  h[i] = IF i = 0 THEN 0 ELSE h[i - 1] + a[i] + 1
    <3>1. CASE i = n + 1
      <4>1. h[i - 1] = f[n]
        BY <3>1
      <4> QED BY <3>1, <4>1
    <3>2. CASE i # n + 1
      <4>1. i \in 0 .. n /\ h[i] = f[i]
        BY <3>2
      <4>2. f[i] = IF i = 0 THEN 0 ELSE f[i - 1] + a[i] + 1
        BY <2>1, <4>1, Zenon DEF IsSum
      <4>3. i # 0 => h[i - 1] = f[i - 1]
        BY <4>1
      <4> QED BY <4>1, <4>2, <4>3, Zenon
    <3> QED BY <3>1, <3>2
  <2>5. IsSum(h, n + 1, a)
    <3> HIDE DEF h
    <3>1. h = [i \in 0 .. (n + 1) |-> h[i]]
      BY <2>3
    <3> QED BY <2>4, <3>1, Zenon DEF IsSum
  <2> QED BY <2>2, <2>3, <2>5, Zenon
<1>3. Nat \subseteq T
  <2> HIDE DEF T
  <2> QED BY <1>1, <1>2, SetInduction
<1> QED BY <1>3, Zenon

(* LineBytes adds up along the lines.                                      *)
LEMMA LineBytesPrefix ==
  ASSUME NEW ls \in Lines
  PROVE  \E f \in [0 .. Len(ls) -> Nat] :
           /\ f[0] = 0
           /\ \A k \in 0 .. (Len(ls) - 1) : f[k + 1] = f[k] + ls[k + 1].size + 1
           /\ LineBytes(ls) = f[Len(ls)]
<1> DEFINE n == Len(ls)
           P(g) == g = [i \in 0 .. n |-> IF i = 0 THEN 0 ELSE g[i - 1] + ls[i].size + 1]
           a == [i \in Nat |-> IF i \in 1 .. n THEN ls[i].size ELSE 0]
           h == CHOOSE g : P(g)
<1>1. n \in Nat /\ \A i \in 1 .. n : ls[i].size \in Nat
  BY LinesTyped DEF LineRecords
<1>2. a \in [Nat -> Nat] /\ \A i \in 1 .. n : a[i] = ls[i].size
  BY <1>1
<1>3. LineBytes(ls) = h[n]
  BY Zenon DEF LineBytes
<1> HIDE DEF n, a
<1>4. PICK f \in [0 .. n -> Nat] : IsSum(f, n, a)
  BY <1>1, <1>2, SumExists, Zenon
<1>5. P(f)
  <2>1. \A i \in 0 .. n : i # 0 => a[i] = ls[i].size
    <3>1. \A i \in 0 .. n : i # 0 => i \in 1 .. n
      BY <1>1
    <3> QED BY <1>2, <3>1, Zenon
  <2>2. [i \in 0 .. n |-> IF i = 0 THEN 0 ELSE f[i - 1] + a[i] + 1]
          = [i \in 0 .. n |-> IF i = 0 THEN 0 ELSE f[i - 1] + ls[i].size + 1]
    BY <2>1
  <2> QED BY <1>4, <2>2, Zenon DEF IsSum
<1>6. P(h)
  <2> HIDE DEF P
  <2> QED BY <1>5
<1> HIDE DEF h
<1>7. h[0] = 0 /\ \A i \in 1 .. n : h[i] = h[i - 1] + ls[i].size + 1
  <2>1. \A i \in 0 .. n : h[i] = IF i = 0 THEN 0 ELSE h[i - 1] + ls[i].size + 1
    BY <1>6, Zenon
  <2>2. 0 \in 0 .. n /\ \A i \in 1 .. n : i \in 0 .. n /\ i # 0
    BY <1>1
  <2> HIDE DEF P
  <2> QED BY <2>1, <2>2
<1> DEFINE T == {k \in Nat : k <= n => h[k] \in Nat}
<1>8. ASSUME NEW k \in Nat, k \in T PROVE k + 1 \in T
  <2> SUFFICES ASSUME k + 1 <= n PROVE h[k + 1] \in Nat
    OBVIOUS
  <2>1. k + 1 \in 1 .. n /\ h[k] \in Nat /\ (k + 1) - 1 = k
    BY <1>1, <1>8
  <2>2. h[k + 1] = h[(k + 1) - 1] + ls[k + 1].size + 1 /\ ls[k + 1].size \in Nat
    BY <1>1, <1>7, <2>1, Zenon
  <2> QED BY <2>1, <2>2
<1>9. Nat \subseteq T
  <2>1. 0 \in T
    BY <1>7
  <2> HIDE DEF T
  <2> QED BY <1>8, <2>1, SetInduction
<1>10. h \in [0 .. n -> Nat]
  <2>1. \A k \in 0 .. n : h[k] \in Nat
    BY <1>1, <1>9
  <2>2. h = [i \in 0 .. n |-> h[i]]
    BY <1>6
  <2> QED BY <2>1, <2>2
<1>11. ASSUME NEW k \in 0 .. (n - 1) PROVE h[k + 1] = h[k] + ls[k + 1].size + 1
  <2>1. k + 1 \in 1 .. n /\ (k + 1) - 1 = k
    BY <1>1
  <2> QED BY <1>7, <2>1
<1> QED BY <1>3, <1>7, <1>10, <1>11 DEF n

LEMMA LineBytesNone == LineBytes(<<>>) = 0
<1>1. <<>> \in Lines /\ Len(<<>>) = 0
  BY HeldOfNone
<1> QED BY <1>1, LineBytesPrefix

LEMMA LineBytesNat ==
  ASSUME NEW ls \in Lines
  PROVE  LineBytes(ls) \in Nat
<1>1. Len(ls) \in Nat
  BY LinesTyped
<1> QED BY <1>1, LineBytesPrefix

(* The sums of a run of the lines, from the sums up to its ends.           *)
LEMMA LineBytesRuns ==
  ASSUME NEW ls \in Lines
  PROVE  \E f \in [0 .. Len(ls) -> Nat] :
           /\ f[0] = 0 /\ LineBytes(ls) = f[Len(ls)]
           /\ \A k \in 0 .. (Len(ls) - 1) : f[k + 1] = f[k] + ls[k + 1].size + 1
           /\ \A m \in 0 .. Len(ls) : \A n \in m .. Len(ls) :
                f[n] = f[m] + LineBytes(SubSeq(ls, m + 1, n))
<1>1. PICK f \in [0 .. Len(ls) -> Nat] :
           /\ f[0] = 0
           /\ \A k \in 0 .. (Len(ls) - 1) : f[k + 1] = f[k] + ls[k + 1].size + 1
           /\ LineBytes(ls) = f[Len(ls)]
  BY LineBytesPrefix
<1>2. Len(ls) \in Nat /\ DOMAIN ls = 1 .. Len(ls) /\ \A i \in DOMAIN ls : ls[i].size \in Nat
  BY LinesTyped DEF LineRecords
<1>3. ASSUME NEW m \in 0 .. Len(ls), NEW n \in m .. Len(ls)
      PROVE  f[n] = f[m] + LineBytes(SubSeq(ls, m + 1, n))
  <2> DEFINE s == SubSeq(ls, m + 1, n)
             len == n - m
             w == [k \in 1 .. len |-> ls[m + k].size]
  <2>1. len \in Nat /\ m \in Nat /\ n \in Nat /\ m + len = n
    BY <1>2
  <2>2. s \in Lines
    <3>1. m + 1 \in 1 .. (Len(ls) + 1) /\ n \in 0 .. Len(ls)
      BY <1>2
    <3> QED BY <3>1, PartOfLines
  <2>3. Len(s) = len /\ \A k \in 1 .. len : s[k] = ls[m + k]
    <3>1. ls \in Seq(LineRecords)
      BY LinesTyped
    <3>2. \A i \in (m + 1) .. n : ls[i] \in LineRecords
      BY <1>2, <2>1, LinesTyped
    <3>3. /\ Len(s) = IF m + 1 <= n THEN n - (m + 1) + 1 ELSE 0
          /\ \A i \in 1 .. (n - (m + 1) + 1) : s[i] = ls[(m + 1) + i - 1]
      BY <2>1, <3>1, <3>2
    <3>4. \A i \in 1 .. len : (m + 1) + i - 1 = m + i /\ i \in 1 .. (n - (m + 1) + 1)
      BY <2>1
    <3> QED BY <2>1, <3>3, <3>4
  <2> HIDE DEF s
  <2>4. PICK g \in [0 .. len -> Nat] :
           /\ g[0] = 0
           /\ \A k \in 0 .. (len - 1) : g[k + 1] = g[k] + s[k + 1].size + 1
           /\ LineBytes(s) = g[len]
    BY <2>2, <2>3, LineBytesPrefix
  <2>5. \A k \in 0 .. (len - 1) : /\ k + 1 \in 1 .. len /\ m + (k + 1) \in DOMAIN ls
                                  /\ m + k \in 0 .. (Len(ls) - 1)
                                  /\ m + (k + 1) = (m + k) + 1
    BY <1>2, <2>1
  <2>6. \A k \in 0 .. (len - 1) : w[k + 1] \in Nat
    BY <1>2, <2>5, Zenon
  <2>7. \A k \in 0 .. (len - 1) : g[k + 1] = g[k] + w[k + 1] + 1
    BY <2>3, <2>4, <2>5, Zenon
  <2>8. \A k \in 0 .. (len - 1) : f[(m + k) + 1] = f[m + k] + w[k + 1] + 1
    BY <1>1, <2>5, Zenon
  <2>9. \A k \in 0 .. len : f[m + k] \in Nat /\ g[k] \in Nat
    <3>1. \A k \in 0 .. len : m + k \in 0 .. Len(ls)
      BY <1>2, <2>1
    <3> QED BY <3>1, Zenon
  <2>10. f[m] \in Nat
    OBVIOUS
  <2> HIDE DEF w, len
  <2>11. \A k \in 0 .. len : f[m + k] = f[m] + g[k]
    <3> DEFINE T == {k \in Nat : k <= len => f[m + k] = f[m] + g[k]}
    <3>1. 0 \in T
      <4>1. m + 0 = m
        BY <2>1
      <4> QED BY <2>4, <2>10, <4>1
    <3>2. ASSUME NEW k \in T PROVE k + 1 \in T
      <4> SUFFICES ASSUME k + 1 <= len PROVE f[m + (k + 1)] = f[m] + g[k + 1]
        OBVIOUS
      <4>1. k \in 0 .. (len - 1) /\ k \in 0 .. len /\ m + (k + 1) = (m + k) + 1
        BY <2>1
      <4>2. f[m + k] = f[m] + g[k]
        BY <2>1, <4>1
      <4>3. f[m + (k + 1)] = f[m + k] + w[k + 1] + 1 /\ g[k + 1] = g[k] + w[k + 1] + 1
        BY <2>7, <2>8, <4>1
      <4>4. w[k + 1] \in Nat /\ g[k] \in Nat
        BY <2>6, <2>9, <4>1
      <4> QED BY <2>10, <4>2, <4>3, <4>4
    <3>3. T \in SUBSET Nat
      OBVIOUS
    <3>4. Nat \subseteq T
      <4> HIDE DEF T
      <4> QED BY <3>1, <3>2, <3>3, SetInduction
    <3> QED BY <2>1, <3>4
  <2>12. f[m + len] = f[m] + g[len]
    <3>1. len \in 0 .. len
      BY <2>1
    <3> QED BY <2>11, <3>1
  <2> QED BY <2>1, <2>4, <2>12, Zenon DEF s
<1> QED BY <1>1, <1>3

(* A line at the end adds its bytes and a newline.                         *)
LEMMA LineBytesPlus ==
  ASSUME NEW ls \in Lines, NEW l \in LineRecords
  PROVE  LineBytes(Append(ls, l)) = LineBytes(ls) + l.size + 1
<1> DEFINE s == Append(ls, l)
           n == Len(ls)
<1>1. s \in Lines
  BY LinePlus
<1>2. /\ ls \in Seq(LineRecords) /\ n \in Nat
  BY LinesTyped
<1>3. Len(s) = n + 1 /\ s[n + 1] = l
  BY <1>2
<1>4. SubSeq(s, 1, n) = ls
  BY <1>2, AppendProperties
<1> HIDE DEF s, n
<1>5. PICK f \in [0 .. Len(s) -> Nat] :
           /\ f[0] = 0 /\ LineBytes(s) = f[Len(s)]
           /\ \A k \in 0 .. (Len(s) - 1) : f[k + 1] = f[k] + s[k + 1].size + 1
           /\ \A a \in 0 .. Len(s) : \A b \in a .. Len(s) :
                f[b] = f[a] + LineBytes(SubSeq(s, a + 1, b))
  BY <1>1, LineBytesRuns
<1>6. n \in 0 .. (Len(s) - 1) /\ 0 \in 0 .. Len(s) /\ n \in 0 .. Len(s) /\ 0 + 1 = 1
  BY <1>2, <1>3
<1>7. f[n] = 0 + LineBytes(SubSeq(s, 1, n))
  BY <1>5, <1>6
<1>8. LineBytes(ls) \in Nat
  BY LineBytesNat
<1>9. f[n + 1] = f[n] + l.size + 1
  BY <1>3, <1>5, <1>6
<1>10. LineBytes(s) = LineBytes(ls) + l.size + 1
  <2>1. LineBytes(s) = f[n + 1]
    BY <1>3, <1>5
  <2>2. f[n] = LineBytes(ls)
    <3>1. f[n] = 0 + LineBytes(ls)
      BY <1>4, <1>7, Zenon
    <3> QED BY <1>8, <3>1
  <2> QED BY <1>9, <2>1, <2>2
<1> QED BY <1>10 DEF s

(* What is read or kept of the lines takes no more bytes than they do,     *)
(* the next line without its newline included.                             *)
LEMMA PartBytes ==
  ASSUME NEW ls \in Lines, NEW n \in 0 .. Len(ls)
  PROVE  /\ LineBytes(SubSeq(ls, 1, n)) <= LineBytes(ls)
         /\ n < Len(ls) => LineBytes(SubSeq(ls, 1, n)) + ls[n + 1].size <= LineBytes(ls)
<1>1. Len(ls) \in Nat /\ DOMAIN ls = 1 .. Len(ls) /\ \A i \in DOMAIN ls : ls[i].size \in Nat
  BY LinesTyped DEF LineRecords
<1>2. PICK f \in [0 .. Len(ls) -> Nat] :
           /\ f[0] = 0 /\ LineBytes(ls) = f[Len(ls)]
           /\ \A k \in 0 .. (Len(ls) - 1) : f[k + 1] = f[k] + ls[k + 1].size + 1
           /\ \A a \in 0 .. Len(ls) : \A b \in a .. Len(ls) :
                f[b] = f[a] + LineBytes(SubSeq(ls, a + 1, b))
  BY LineBytesRuns
<1>3. ASSUME NEW a \in 0 .. Len(ls) PROVE f[a] <= LineBytes(ls) /\ f[a] \in Nat
  <2>1. Len(ls) \in a .. Len(ls) /\ a + 1 \in 1 .. (Len(ls) + 1) /\ Len(ls) \in 0 .. Len(ls)
    BY <1>1
  <2>2. LineBytes(SubSeq(ls, a + 1, Len(ls))) \in Nat
    BY <2>1, PartOfLines, LineBytesNat
  <2>3. f[Len(ls)] = f[a] + LineBytes(SubSeq(ls, a + 1, Len(ls))) /\ f[a] \in Nat
    BY <1>2, <2>1
  <2> QED BY <1>2, <2>2, <2>3
<1>4. f[n] = LineBytes(SubSeq(ls, 1, n))
  <2>1. 0 \in 0 .. Len(ls) /\ n \in 0 .. Len(ls) /\ 1 \in 1 .. (Len(ls) + 1)
    BY <1>1
  <2>2. f[n] = f[0] + LineBytes(SubSeq(ls, 0 + 1, n)) /\ 0 + 1 = 1
    BY <1>2, <2>1
  <2>3. LineBytes(SubSeq(ls, 1, n)) \in Nat
    BY <2>1, PartOfLines, LineBytesNat
  <2> QED BY <1>2, <2>2, <2>3
<1>5. ASSUME n < Len(ls)
      PROVE  f[n] + ls[n + 1].size <= LineBytes(ls)
  <2>1. n \in 0 .. (Len(ls) - 1) /\ n + 1 \in 0 .. Len(ls) /\ n + 1 \in DOMAIN ls
    BY <1>1, <1>5
  <2>2. f[n + 1] = f[n] + ls[n + 1].size + 1 /\ f[n] \in Nat /\ ls[n + 1].size \in Nat
    BY <1>1, <1>2, <1>3, <2>1
  <2>3. f[n + 1] <= LineBytes(ls)
    BY <1>3, <2>1
  <2>4. LineBytes(ls) \in Nat
    BY LineBytesNat
  <2> QED BY <2>2, <2>3, <2>4
<1>6. f[n] <= LineBytes(ls)
  BY <1>3
<1> QED BY <1>4, <1>5, <1>6

LEMMA TailBytes ==
  ASSUME NEW ls \in Lines, ls # <<>>
  PROVE  LineBytes(Tail(ls)) <= LineBytes(ls)
<1>1. ls \in Seq(LineRecords) /\ Len(ls) \in Nat
  BY LinesTyped
<1>2. Len(ls) # 0
  BY <1>1, EmptySeq
<1>3. Tail(ls) = SubSeq(ls, 2, Len(ls))
  BY <1>1, <1>2
<1>4. PICK f \in [0 .. Len(ls) -> Nat] :
           /\ f[0] = 0 /\ LineBytes(ls) = f[Len(ls)]
           /\ \A k \in 0 .. (Len(ls) - 1) : f[k + 1] = f[k] + ls[k + 1].size + 1
           /\ \A a \in 0 .. Len(ls) : \A b \in a .. Len(ls) :
                f[b] = f[a] + LineBytes(SubSeq(ls, a + 1, b))
  BY LineBytesRuns
<1>5. 1 \in 0 .. Len(ls) /\ Len(ls) \in 1 .. Len(ls) /\ 1 + 1 = 2
  BY <1>1, <1>2
<1>6. f[Len(ls)] = f[1] + LineBytes(SubSeq(ls, 2, Len(ls))) /\ f[1] \in Nat
  BY <1>4, <1>5
<1>7. LineBytes(Tail(ls)) \in Nat
  BY TailOfLines, LineBytesNat
<1>8. LineBytes(ls) = f[1] + LineBytes(Tail(ls))
  BY <1>3, <1>4, <1>6, Zenon
<1> QED BY <1>6, <1>7, <1>8

LEMMA BytesNat ==
  ASSUME NEW c \in Files
  PROVE  Bytes(c) \in Nat /\ LineBytes(c.lines) \in Nat /\ c.tail \in Nat /\ c.lines \in Lines
<1>1. c.lines \in Lines /\ c.tail \in Nat
  BY DEF Files
<1>2. LineBytes(c.lines) \in Nat
  BY <1>1, LineBytesNat
<1> QED BY <1>1, <1>2 DEF Bytes

LEMMA EmptyBytes == Bytes(Absent) = 0 /\ Bytes(Empty) = 0
BY LineBytesNone, EmptyFiles DEF Bytes, Absent, Empty

(* A write adds at most the record and its newline.                        *)
LEMMA WrittenBytes ==
  ASSUME NEW c \in Files, NEW b \in Batches, NEW k \in 0 .. (BodyLen[b] + 1)
  PROVE  Bytes(Written(c, b, k)) <= Bytes(c) + BodyLen[b] + 1
<1>1. BodyLen[b] \in Nat \ {0} /\ b \in Nat \ {0}
  BY SpillAssumption DEF Batches
<1>2. c.lines \in Lines /\ c.tail \in Nat /\ LineBytes(c.lines) \in Nat
  BY BytesNat, SMTT(15)
<1>3. CASE k <= BodyLen[b]
  <2>1. /\ Written(c, b, k).lines = c.lines
        /\ Written(c, b, k).tail = c.tail + k
    BY <1>3 DEF Written, Files
  <2>2. Bytes(Written(c, b, k)) = LineBytes(c.lines) + (c.tail + k)
    BY <2>1, SMTT(15) DEF Bytes
  <2> QED BY <1>1, <1>2, <1>3, <2>2 DEF Bytes
<1>4. CASE ~(k <= BodyLen[b])
  <2> DEFINE l == IF c.tail = 0 THEN Line(b)
                  ELSE [id |-> Garbage, size |-> c.tail + BodyLen[b]]
  <2>1. /\ Written(c, b, k).lines = Append(c.lines, l)
        /\ Written(c, b, k).tail = 0
    BY <1>4, SMTT(15) DEF Written
  <2>2. l \in LineRecords /\ l.size = c.tail + BodyLen[b]
    BY <1>1, <1>2 DEF Line, LineRecords, Garbage
  <2> HIDE DEF l
  <2>3. LineBytes(Append(c.lines, l)) = LineBytes(c.lines) + l.size + 1
    BY <1>2, <2>2, LineBytesPlus
  <2>4. Bytes(Written(c, b, k)) = LineBytes(c.lines) + l.size + 1 + 0
    BY <2>1, <2>3 DEF Bytes
  <2> QED BY <1>1, <1>2, <2>2, <2>4 DEF Bytes
<1> QED BY <1>3, <1>4

(* The cap leaves room for the record and its newline: the lines that are  *)
(* cut away hold more than the excess.                                     *)
LEMMA TrimmedFits ==
  ASSUME NEW c \in Files, NEW b \in Batches, BodyLen[b] < MaxBytes, ~Fits(c, b)
  PROVE  Fits(Trimmed(c, BodyLen[b]), b)
<1> DEFINE ls == c.lines
           len == Len(ls)
           room == MaxBytes - BodyLen[b] - 1
           drop == Bytes(c) - room
           K == {k \in 1 .. (len + 1) : LineBytes(SubSeq(ls, 1, k - 1)) <= drop}
           m == Cardinality(K)
<1>1. /\ BodyLen[b] \in Nat /\ MaxBytes \in Nat /\ room \in Nat
  BY SpillAssumption
<1>2. /\ Bytes(c) \in Nat /\ LineBytes(ls) \in Nat /\ c.tail \in Nat /\ ls \in Lines
  BY BytesNat
<1>3. len \in Nat
  BY <1>2, LinesTyped, SMTT(15)
<1>4. PICK f \in [0 .. len -> Nat] :
           /\ f[0] = 0 /\ LineBytes(ls) = f[len]
           /\ \A k \in 0 .. (len - 1) : f[k + 1] = f[k] + ls[k + 1].size + 1
           /\ \A i \in 0 .. len : \A j \in i .. len :
                f[j] = f[i] + LineBytes(SubSeq(ls, i + 1, j))
  BY <1>2, LineBytesRuns, Zenon
<1>5. ASSUME NEW i \in 0 .. len, NEW j \in i .. len
      PROVE  /\ f[j] = f[i] + LineBytes(SubSeq(ls, i + 1, j)) /\ f[i] <= f[j]
             /\ LineBytes(SubSeq(ls, i + 1, j)) \in Nat
  <2>1. i + 1 \in 1 .. (len + 1) /\ j \in 0 .. len
    BY <1>3
  <2>2. LineBytes(SubSeq(ls, i + 1, j)) \in Nat
    BY <1>2, <2>1, PartOfLines, LineBytesNat
  <2>3. f[j] = f[i] + LineBytes(SubSeq(ls, i + 1, j)) /\ f[i] \in Nat
    BY <1>4
  <2> QED BY <2>2, <2>3
<1>6. \A k \in 0 .. len : LineBytes(SubSeq(ls, 1, k)) = f[k] /\ f[k] \in Nat
  <2> TAKE k \in 0 .. len
  <2>1. 0 \in 0 .. len /\ k \in 0 .. len /\ 0 + 1 = 1
    BY <1>3
  <2>2. f[k] = f[0] + LineBytes(SubSeq(ls, 1, k)) /\ LineBytes(SubSeq(ls, 1, k)) \in Nat
    BY <1>5, <2>1
  <2> QED BY <1>4, <2>2
<1> HIDE DEF ls, room, drop
<1>7. drop \in Nat
  BY <1>1, <1>2 DEF Fits, room, drop
<1>8. K = {k \in 1 .. (len + 1) : f[k - 1] <= drop}
  <2>1. \A k \in 1 .. (len + 1) : k - 1 \in 0 .. len
    BY <1>3
  <2> HIDE DEF len
  <2> QED BY <1>6, <2>1
<1>9. m \in Nat /\ IsFiniteSet(K)
  <2>1. IsFiniteSet(1 .. (len + 1)) /\ K \subseteq 1 .. (len + 1)
    BY <1>3, FS_Interval
  <2> HIDE DEF K
  <2> QED BY <2>1, FS_Subset, FS_CardinalityType
<1>10. m + 1 \notin K
  <2> SUFFICES ASSUME m + 1 \in K PROVE FALSE
    OBVIOUS
  <2>1. m + 1 \in 1 .. (len + 1) /\ f[(m + 1) - 1] <= drop
    BY <1>8
  <2> HIDE DEF m
  <2>2. m \in 0 .. len /\ f[m] <= drop /\ f[m] \in Nat
    <3>1. (m + 1) - 1 = m
      BY <1>9
    <3> QED BY <1>3, <1>9, <2>1, <3>1
  <2>3. ASSUME NEW k \in 1 .. (m + 1) PROVE k \in K
    <3>1. k - 1 \in 0 .. len /\ m \in (k - 1) .. len /\ k \in 1 .. (len + 1)
      BY <1>3, <2>2
    <3>2. f[k - 1] <= f[m] /\ f[k - 1] \in Nat
      BY <1>4, <1>5, <3>1
    <3>3. f[k - 1] <= drop
      BY <1>7, <2>2, <3>2
    <3> QED BY <1>8, <3>1, <3>3
  <2>4. 1 .. (m + 1) \subseteq K
    BY <2>3
  <2>5. Cardinality(1 .. (m + 1)) = m + 1
    <3>1. 1 \in Int /\ m + 1 \in Int /\ (IF 1 > m + 1 THEN 0 ELSE (m + 1) - 1 + 1) = m + 1
      BY <1>9
    <3> QED BY <3>1, FS_Interval
  <2>6. Cardinality(1 .. (m + 1)) <= Cardinality(K)
    BY <1>9, <2>4, FS_Subset
  <2> QED BY <1>9, <2>5, <2>6 DEF m
<1>11. Trimmed(c, BodyLen[b]) =
         IF m > len THEN Empty
         ELSE [c EXCEPT !.lines = SubSeq(c.lines, m + 1, len)]
  BY Zenon DEF Trimmed, ls, room, drop
<1>12. CASE m > len
  BY <1>1, <1>11, <1>12, EmptyBytes DEF Fits
<1>13. CASE ~(m > len)
  <2> HIDE DEF m, K
  <2>1. m \in 0 .. len /\ m + 1 \in 1 .. (len + 1) /\ len \in m .. len /\ (m + 1) - 1 = m
    BY <1>3, <1>9, <1>13
  <2>2. f[m] > drop
    <3>1. f[m] \in Nat
      BY <1>6, <2>1
    <3>2. ~(f[m] <= drop)
      BY <1>8, <1>10, <2>1
    <3> QED BY <1>7, <3>1, <3>2
  <2>3. /\ f[len] = f[m] + LineBytes(SubSeq(ls, m + 1, len)) /\ f[m] \in Nat
        /\ LineBytes(SubSeq(ls, m + 1, len)) \in Nat
    BY <1>5, <1>6, <2>1
  <2>4. Bytes(c) = f[len] + c.tail
    BY <1>4 DEF Bytes, ls
  <2>5. /\ Trimmed(c, BodyLen[b]).lines = SubSeq(ls, m + 1, len)
        /\ Trimmed(c, BodyLen[b]).tail = c.tail
    BY <1>11, <1>13, Zenon DEF Files, ls
  <2>6. Bytes(Trimmed(c, BodyLen[b])) = LineBytes(SubSeq(ls, m + 1, len)) + c.tail
    BY <2>5, Zenon DEF Bytes
  <2> DEFINE rest == LineBytes(SubSeq(ls, m + 1, len))
  <2> HIDE DEF rest
  <2>7. rest + c.tail <= room
    <3>1. /\ Bytes(c) = f[m] + rest + c.tail /\ f[m] > Bytes(c) - room
          /\ rest \in Nat /\ f[m] \in Nat /\ c.tail \in Nat /\ room \in Nat
      BY <1>1, <1>2, <2>2, <2>3, <2>4 DEF drop, rest
    <3> QED BY <3>1
  <2>8. Bytes(Trimmed(c, BodyLen[b])) = rest + c.tail /\ rest \in Nat
    BY <2>3, <2>6 DEF rest
  <2> QED BY <1>1, <1>2, <2>7, <2>8, SMTT(30) DEF Fits, room
<1> QED BY <1>12, <1>13

-----------------------------------------------------------------------------
(* The cap.                                                                *)

(* Every content the file has, had or may get is under the cap, and so is  *)
(* the record in hand on top of what it is going to be appended to.        *)
CapOK ==
  /\ \A c \in Contents : Bytes(c) <= MaxBytes
  /\ LineBytes(todo) <= MaxBytes
  /\ pc = "append" => Fits(cache, next)
  /\ pc \in {"evict", "evicted"} => Fits(draft, next)
  /\ pc = "evicted" => cache = draft

(* The end of a call, as in OverInv.                                       *)
LEMMA OverCap ==
  ASSUME CapOK, NEW to \in {"idle", "down", "append"}, Over(to),
         {cache'} \cup inode' \cup behind' \subseteq Contents \cup {Absent, Empty},
         to = "append" => Fits(cache', next')
  PROVE  CapOK'
<1>1. /\ pc' = to /\ base' = Absent /\ draft' = Absent /\ todo' = <<>>
  BY DEF Over
<1>2. MaxBytes \in Nat
  BY SpillAssumption
<1>3. \A c \in Contents' : Bytes(c) <= MaxBytes
  <2>1. Contents' \subseteq Contents \cup {Absent, Empty}
    BY <1>1 DEF Contents
  <2>2. Bytes(Absent) <= MaxBytes /\ Bytes(Empty) <= MaxBytes
    BY <1>2, EmptyBytes
  <2>3. \A c \in Contents : Bytes(c) <= MaxBytes
    BY DEF CapOK
  <2> QED BY <2>1, <2>2, <2>3
<1>4. LineBytes(todo') <= MaxBytes
  BY <1>1, <1>2, LineBytesNone
<1> QED BY <1>1, <1>3, <1>4 DEF CapOK

LEMMA CapNext ==
  ASSUME IInv, CapOK, [SpillNext]_spillVars
  PROVE  CapOK'
<1>t. /\ cache \in Files /\ todo \in Lines /\ MaxBytes \in Nat
      /\ (~cache.exists => cache = Absent)
  BY SpillAssumption, KnownFile DEF IInv, SpillTypeOK, Contents
<1>c. \A c \in Contents : Bytes(c) <= MaxBytes
  BY DEF CapOK
<1>1. CASE EnforceCap
  <2>1. /\ pc = "idle" /\ next \in Batches /\ BodyLen[next] < MaxBytes
        /\ UNCHANGED <<cache, inode, behind, base, todo, next>>
    BY <1>1 DEF EnforceCap, diskVars, ghostVars
  <2>2. BodyLen[next] \in Nat
    BY <2>1, SpillAssumption
  <2>3. CASE pc' = "append" /\ UNCHANGED draft /\ (~cache.exists \/ Fits(cache, next))
    <3>1. Fits(cache, next)
      BY <1>t, <2>1, <2>2, <2>3, EmptyBytes DEF Fits
    <3>2. Contents' = Contents
      BY <2>1, <2>3 DEF Contents
    <3> QED BY <2>1, <2>3, <3>1, <3>2 DEF CapOK, Fits
  <2>4. CASE /\ cache.exists /\ ~Fits(cache, next)
             /\ draft' = Trimmed(cache, BodyLen[next]) /\ pc' = "evict"
    <3>1. Fits(draft', next)
      BY <1>t, <2>1, <2>4, TrimmedFits
    <3>2. draft' \in Files
      <4>1. next \in Nat /\ InOrder(cache.lines, next + 1) /\ next + 1 \in Nat
        BY KnownNumbers, KnownFile DEF Contents
      <4> QED BY <1>t, <2>4, <4>1, TrimmedFile
    <3>3. Bytes(draft') <= MaxBytes
      BY <1>t, <2>2, <3>1, <3>2, BytesNat DEF Fits
    <3>4. Contents' \subseteq Contents \cup {draft'}
      BY <2>1 DEF Contents
    <3>5. \A c \in Contents' : Bytes(c) <= MaxBytes
      BY <1>c, <3>3, <3>4, SMTT(15)
    <3> QED BY <2>1, <2>4, <3>1, <3>5 DEF CapOK, Fits
  <2> QED BY <1>1, <2>3, <2>4 DEF EnforceCap
<1>2. CASE AppendRecord
  <2>1. /\ pc = "append" /\ base' = cache /\ UNCHANGED <<draft, todo, next>>
        /\ behind' = IF cache.exists THEN behind ELSE behind \cup inode
    BY <1>2 DEF AppendRecord, ghostVars
  <2>2. PICK k \in 0 .. (BodyLen[next] + 1) :
          /\ cache' = Written(cache, next, k)
          /\ inode' = (IF cache.exists THEN inode ELSE {})
                         \cup {Written(cache, next, j) : j \in 0 .. k}
          /\ pc' = IF k = BodyLen[next] + 1 THEN "flush" ELSE "rollback"
    BY <1>2 DEF AppendRecord
  <2>3. next \in Batches /\ BodyLen[next] \in Nat
    BY <2>1, SpillAssumption DEF IInv, Bounded
  <2>4. ASSUME NEW j \in 0 .. k PROVE Bytes(Written(cache, next, j)) <= MaxBytes
    <3>1. j \in 0 .. (BodyLen[next] + 1) /\ j \in Nat
      BY <2>3
    <3>2. Bytes(Written(cache, next, j)) <= Bytes(cache) + BodyLen[next] + 1
      BY <1>t, <2>3, <3>1, WrittenBytes
    <3>3. Bytes(cache) + BodyLen[next] + 1 <= MaxBytes
      BY <2>1 DEF CapOK, Fits
    <3>4. Bytes(cache) \in Nat /\ Bytes(Written(cache, next, j)) \in Nat
      BY <1>t, <2>3, <3>1, WrittenFile, BytesNat
    <3> QED BY <1>t, <2>3, <3>2, <3>3, <3>4
  <2>5. Contents' \subseteq Contents \cup {Written(cache, next, j) : j \in 0 .. k}
    <3>1. k \in 0 .. k
      BY <2>3
    <3> QED BY <2>1, <2>2, <3>1 DEF Contents
  <2>6. \A c \in Contents' : Bytes(c) <= MaxBytes
    BY <1>c, <2>4, <2>5
  <2> QED BY <2>1, <2>2, <2>6 DEF CapOK
<1>3. CASE SpillFails \/ EvictionFails
  <2>1. Over("idle") /\ UNCHANGED <<cache, inode, behind>>
    BY <1>3 DEF SpillFails, EvictionFails, Refused, diskVars
  <2> QED BY <2>1, OverCap DEF Contents
<1>4. CASE FlushRecord
  <2>1. inode' = {cache} /\ UNCHANGED <<cache, behind>>
    BY <1>4 DEF FlushRecord, Synced
  <2>2. CASE Over("idle")
    BY <2>1, <2>2, OverCap DEF Contents
  <2>3. CASE pc' = "entry" /\ UNCHANGED <<base, draft, todo, next>>
    BY <2>1, <2>3 DEF CapOK, Contents
  <2> QED BY <1>4, <2>2, <2>3 DEF FlushRecord, Acknowledged, Refused, localVars, ghostVars
<1>5. CASE FlushFails \/ ReplayDone \/ Restart \/ ReplaySkip \/ UNCHANGED spillVars
  <2>1. /\ UNCHANGED <<cache, inode, behind, base, draft, todo, next>>
        /\ pc' \in {"rollback", "remove", "idle", pc}
    BY <1>5 DEF FlushFails, ReplayDone, Restart, ReplaySkip, spillVars, diskVars, localVars,
         ghostVars
  <2> QED BY <2>1, SMTT(15) DEF CapOK, Contents, Fits
<1>6. CASE RollBack
  <2>1. /\ Over("idle") /\ behind' = behind
        /\ cache' \in {cache, [base EXCEPT !.exists = TRUE]}
        /\ inode' \in {{cache'}, inode \cup {cache'}}
    BY <1>6 DEF RollBack, Refused
  <2>2. [base EXCEPT !.exists = TRUE] \in {base, Empty}
    <3>1. base \in Files /\ (~base.exists => base = Absent)
      BY KnownFile DEF Contents
    <3> QED BY <3>1 DEF Files, Absent, Empty
  <2> QED BY <2>1, <2>2, OverCap, Zenon DEF Contents
<1>7. CASE SyncNewEntry
  <2>1. Over("idle") /\ UNCHANGED <<cache, inode>> /\ behind' \in {{}, behind}
    BY <1>7 DEF SyncNewEntry, Acknowledged, Refused
  <2> QED BY <2>1, OverCap DEF Contents
<1>8. CASE ReplaceKept \/ ReplaceTrimmed
  <2>1. /\ cache' = draft /\ inode' = {draft} /\ behind' = behind \cup inode
        /\ UNCHANGED <<base, draft, todo, next>>
        /\ \/ pc = "keep" /\ pc' = "kept"
           \/ pc = "evict" /\ pc' = "evicted"
    BY <1>8 DEF ReplaceKept, ReplaceTrimmed, Replace, TmpContents
  <2>2. Contents' \subseteq Contents
    BY <2>1 DEF Contents
  <2> QED BY <2>1, <2>2 DEF CapOK, Fits
<1>9. CASE EvictionDone
  <2>1. pc = "evicted" /\ Over("append") /\ behind' = {} /\ UNCHANGED <<cache, inode, next>>
    BY <1>9 DEF EvictionDone
  <2>2. Fits(cache', next')
    BY <2>1 DEF CapOK, Fits
  <2> QED BY <2>1, <2>2, OverCap DEF Contents
<1>10. CASE RewriteReturns
  <2>1. Over("idle") /\ behind' \in {behind, {}} /\ UNCHANGED <<cache, inode>>
    BY <1>10 DEF RewriteReturns
  <2> QED BY <2>1, OverCap DEF Contents
<1>11. CASE ReplayBegin
  <2>1. /\ pc' = "replay" /\ UNCHANGED <<cache, inode, behind, base, draft>>
    BY <1>11 DEF ReplayBegin, diskVars
  <2>2. PICK n \in 0 .. Len(cache.lines) : todo' = SubSeq(cache.lines, 1, n)
    BY <1>11 DEF ReplayBegin
  <2>3. LineBytes(todo') <= MaxBytes
    <3>1. cache.lines \in Lines /\ LineBytes(cache.lines) \in Nat /\ cache.tail \in Nat
      BY <1>t, BytesNat
    <3>2. LineBytes(todo') <= LineBytes(cache.lines)
      BY <2>2, <3>1, PartBytes
    <3>3. LineBytes(todo') \in Nat
      <4>1. 1 \in 1 .. (Len(cache.lines) + 1)
        BY <3>1, LinesTyped
      <4> QED BY <2>2, <3>1, <4>1, PartOfLines, LineBytesNat
    <3>4. Bytes(cache) <= MaxBytes
      BY <1>c DEF Contents
    <3> QED BY <1>t, <3>1, <3>2, <3>3, <3>4 DEF Bytes
  <2> QED BY <2>1, <2>3 DEF CapOK, Contents
<1>12. CASE ReplayLine
  <2>1. /\ pc = "replay" /\ todo # <<>> /\ todo' = Tail(todo)
        /\ UNCHANGED <<cache, inode, behind, pc, base, draft>>
    BY <1>12 DEF ReplayLine, diskVars
  <2>2. LineBytes(todo') <= LineBytes(todo) /\ LineBytes(todo') \in Nat /\ LineBytes(todo) \in Nat
    BY <1>t, <2>1, TailBytes, TailOfLines, LineBytesNat, Zenon
  <2>3. LineBytes(todo') <= MaxBytes
    BY <1>t, <2>2 DEF CapOK
  <2> QED BY <2>1, <2>3 DEF CapOK, Contents
<1>13. CASE ReplayStop
  <2>1. /\ todo' = <<>> /\ pc' \in {"remove", "keep"}
        /\ UNCHANGED <<cache, inode, behind, base>>
    BY <1>13, SMTT(15) DEF ReplayStop, diskVars
  <2>2. PICK n \in 0 .. Len(todo) :
          \E t \in {0} \cup {todo[n + 1].size : i \in {n} \ {Len(todo)}} :
            draft' = [exists |-> TRUE, lines |-> SubSeq(todo, 1, n), tail |-> t]
    BY <1>13, Zenon DEF ReplayStop
  <2>3. PICK t \in {0} \cup {todo[n + 1].size : i \in {n} \ {Len(todo)}} :
            draft' = [exists |-> TRUE, lines |-> SubSeq(todo, 1, n), tail |-> t]
    BY <2>2, Zenon
  <2>4. Len(todo) \in Nat /\ LineBytes(todo) \in Nat /\ LineBytes(SubSeq(todo, 1, n)) \in Nat
    <3>1. Len(todo) \in Nat
      BY <1>t, LinesTyped
    <3>2. 1 \in 1 .. (Len(todo) + 1)
      BY <3>1
    <3> QED BY <1>t, <3>1, <3>2, PartOfLines, LineBytesNat
  <2>5. LineBytes(SubSeq(todo, 1, n)) + t <= LineBytes(todo)
    <3>1. CASE t = 0
      BY <1>t, <2>4, <3>1, PartBytes
    <3>2. CASE n # Len(todo) /\ t = todo[n + 1].size
      <4>1. n < Len(todo)
        BY <2>4, <3>2
      <4> QED BY <1>t, <3>2, <4>1, PartBytes
    <3> QED BY <3>1, <3>2
  <2>6. Bytes(draft') = LineBytes(SubSeq(todo, 1, n)) + t
    BY <2>3 DEF Bytes
  <2>7. t \in Nat
    <3>1. n # Len(todo) => n + 1 \in DOMAIN todo
      BY <1>t, <2>4, LinesTyped, SMTT(15)
    <3> QED BY <1>t, <3>1, LinesTyped DEF LineRecords
  <2>8. Bytes(draft') <= MaxBytes
    BY <1>t, <2>4, <2>5, <2>6, <2>7 DEF CapOK
  <2>9. \A c \in Contents' : Bytes(c) <= MaxBytes
    BY <1>c, <2>1, <2>8 DEF Contents
  <2>10. LineBytes(todo') <= MaxBytes
    BY <1>t, <2>1, LineBytesNone
  <2> QED BY <2>1, <2>9, <2>10 DEF CapOK
<1>14. CASE RemoveFile
  <2>1. /\ Over("idle")
        /\ \/ cache' = Absent /\ inode' = {Absent} /\ behind' = behind \cup inode
           \/ UNCHANGED <<cache, inode, behind>>
    BY <1>14 DEF RemoveFile, diskVars
  <2> QED BY <2>1, OverCap DEF Contents
<1>15. CASE Kill \/ PowerLoss
  <2>1. /\ Over("down")
        /\ \/ UNCHANGED <<cache, inode, behind>>
           \/ cache' \in inode \cup behind /\ inode' = {cache'} /\ behind' = {}
    BY <1>15 DEF Kill, PowerLoss, Dies, diskVars
  <2> QED BY <2>1, OverCap DEF Contents
<1> QED BY <1>1, <1>2, <1>3, <1>4, <1>5, <1>6, <1>7, <1>8, <1>9, <1>10, <1>11, <1>12, <1>13,
       <1>14, <1>15 DEF SpillNext

(* The spill file never outgrows PH_OFFLINE_MAX_BYTES, for batches of any  *)
(* size and any cap: not after a torn write, a rollback that failed, a     *)
(* rewrite, or a power loss that brings an older file back.                *)
THEOREM FileUnderCap == SpillSpec => []UnderCap
<1>1. SpillInit => CapOK
  <2> SUFFICES ASSUME SpillInit PROVE CapOK
    OBVIOUS
  <2>1. Contents = {Absent} /\ todo = <<>> /\ pc = "idle"
    BY DEF SpillInit, Contents
  <2>2. MaxBytes \in Nat
    BY SpillAssumption
  <2> QED BY <2>1, <2>2, EmptyBytes, LineBytesNone DEF CapOK
<1>2. IInv /\ CapOK /\ [SpillNext]_spillVars => CapOK'
  BY CapNext
<1>3. CapOK => UnderCap
  BY DEF CapOK, UnderCap, Contents
<1> QED BY <1>1, <1>2, <1>3, SpillInvariant, PTL DEF SpillSpec
=============================================================================
