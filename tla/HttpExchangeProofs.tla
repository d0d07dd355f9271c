------------------------- MODULE HttpExchangeProofs -------------------------
(***************************************************************************)
(* For any deadline, number of addresses, server, buffer sizes and way of  *)
(* cutting its answer: a plain request keeps its deadline, no socket is    *)
(* lost, no reader stores more than its buffer holds, and what the call    *)
(* returns is what the answer means.                                       *)
(***************************************************************************)
EXTENDS HttpExchange, WellFoundedInduction, TLAPS

-----------------------------------------------------------------------------
(* One HTTP exchange.                                                      *)

\* Rounding up to a millisecond adds less than one.
LEMMA CeilMsBound ==
  ASSUME NEW t \in Nat
  PROVE  CeilMs(t) \in Nat /\ CeilMs(t) < t + Ms
<1>1. Ms \in Nat /\ Ms > 0
  BY HttpAssumption
<1> DEFINE a == t + Ms - 1
<1>2. a \in Nat /\ a \div Ms \in Nat
  BY <1>1
<1>3. a = Ms * (a \div Ms) + (a % Ms) /\ a % Ms \in 0..(Ms - 1)
  BY <1>1, <1>2
<1> QED BY <1>1, <1>2, <1>3 DEF CeilMs

\* Where the call is decides how many sockets are open; only TLS shakes hands;
\* the clock is a number.
IInv ==
  /\ scheme \in {"http", "https"} /\ now \in Nat /\ resolved \in Nat
  /\ pc = "handshake" => scheme = "https"
  /\ SocketsReturned
  /\ DeadlineKept

\* A wait of a plain socket that begins in time ends in time.
LEMMA WaitInTime ==
  ASSUME now \in Nat, NEW w \in {Remaining}, ~Expired, Blocks(w)
  PROVE  now' \in Nat /\ now' < Timeout + Ms
<1>1. Timeout \in Nat /\ Ms \in Nat /\ now < Timeout /\ Timeout - now \in Nat
  BY HttpAssumption DEF Expired
<1>2. w = CeilMs(Timeout - now) /\ w \in Nat /\ w < Timeout - now + Ms
  BY <1>1, CeilMsBound DEF Remaining
<1> QED BY <1>1, <1>2 DEF Blocks

\* Every wait leaves the clock a number.
LEMMA WaitsAreFinite ==
  ASSUME now \in Nat
  PROVE  /\ Remaining \in Nat /\ SocketTimeout \in Nat /\ TlsRemaining \in Nat
         /\ Wait \in Nat /\ ConnectWait \in Nat
         /\ \A w \in Nat : Blocks(w) => now' \in Nat
<1>1. Timeout \in Nat /\ Ms \in Nat /\ TlsWaits \in Nat
  BY HttpAssumption
<1>2. Remaining \in Nat
  BY <1>1, CeilMsBound DEF Remaining, Expired
<1>3. SocketTimeout \in Nat
  BY <1>1, <1>2 DEF SocketTimeout
<1>4. TlsRemaining \in Nat
  BY <1>1, <1>3 DEF TlsRemaining
<1> QED BY <1>2, <1>3, <1>4 DEF Wait, ConnectWait, Blocks

LEMMA StepKeepsIInv ==
  ASSUME IInv, [Next]_vars
  PROVE  IInv'
<1>t. Delays \subseteq Nat /\ Timeout \in Nat /\ Ms \in Nat
  BY HttpAssumption
<1> USE DEF IInv, SocketsReturned, DeadlineKept, call, Return, Hangup
<1>w. /\ Wait \in Nat /\ ConnectWait \in Nat /\ TlsRemaining \in Nat
      /\ \A w \in Nat : Blocks(w) => now' \in Nat
  BY WaitsAreFinite
<1>p. ASSUME scheme = "http", ~Expired, Blocks(Wait) \/ Blocks(ConnectWait)
      PROVE  now' < Timeout + Ms
  <2>1. Wait = Remaining /\ ConnectWait = Remaining
    BY <1>p DEF Wait, ConnectWait
  <2> QED BY <1>p, <2>1, WaitInTime
<1>1. CASE Refused
  BY <1>1, <1>t DEF Refused
<1>2. CASE Resolve
  BY <1>2, <1>t DEF Resolve
<1>3. CASE GiveUp
  BY <1>3 DEF GiveUp
<1>4. CASE NoSocket
  BY <1>4 DEF NoSocket, TriesAddress
<1>5. CASE ConnectFails
  BY <1>5, <1>w, <1>p DEF ConnectFails, TriesAddress
<1>6. CASE Connect
  <2>1. now' \in Nat /\ (scheme = "http" => now' < Timeout + Ms)
    BY <1>6, <1>w, <1>p DEF Connect, TriesAddress
  <2>2. /\ open' = 1 /\ pc' \in {"send", "handshake"}
        /\ pc' = "handshake" => scheme' = "https"
    BY <1>6 DEF Connect, TriesAddress
  <2> QED BY <1>6, <2>1, <2>2 DEF Connect
<1>7. CASE Handshake
  BY <1>7, <1>w DEF Handshake
<1>8. CASE Interrupted
  BY <1>8, <1>w DEF Interrupted
<1>9. CASE Write
  <2>1. now' \in Nat /\ (scheme = "http" => now' < Timeout + Ms)
    BY <1>9, <1>w, <1>p DEF Write
  <2> QED BY <1>9, <2>1 DEF Write
<1>10. CASE WriteFails
  BY <1>10, <1>w, <1>p DEF WriteFails
<1>11. CASE WriteTooLate
  BY <1>11 DEF WriteTooLate
<1>12. CASE BufferFull
  BY <1>12 DEF BufferFull
<1>13. CASE ReadTooLate
  BY <1>13 DEF ReadTooLate
<1>14. ASSUME Reads PROVE now' \in Nat /\ (scheme = "http" => now' < Timeout + Ms)
  BY <1>14, <1>w, <1>p DEF Reads
<1>15. CASE Read
  <2>1. Reads
    BY <1>15 DEF Read
  <2>2. CASE Enough(got')
    BY <1>15, <2>1, <2>2, <1>14 DEF Read, Reads
  <2>3. CASE ~Enough(got')
    BY <1>15, <2>1, <2>3, <1>14 DEF Read, Reads
  <2> QED BY <2>2, <2>3
<1>16. CASE PeerCloses
  BY <1>16, <1>14 DEF PeerCloses, Reads
<1>17. CASE ReadFails
  BY <1>17, <1>14 DEF ReadFails, Reads
<1>18. CASE ReadInterrupted
  BY <1>18, <1>14 DEF ReadInterrupted, Reads
<1>19. CASE Returned \/ UNCHANGED vars
  BY <1>19 DEF Returned, vars
<1> QED
  BY <1>1, <1>2, <1>3, <1>4, <1>5, <1>6, <1>7, <1>8, <1>9, <1>10, <1>11, <1>12,
     <1>13, <1>15, <1>16, <1>17, <1>18, <1>19 DEF Next

LEMMA ExchangeInvariant == Spec => []IInv
<1>1. Init => IInv
  BY HttpAssumption DEF Init, Schemes, IInv, SocketsReturned, DeadlineKept
<1>2. IInv /\ [Next]_vars => IInv'
  BY StepKeepsIInv
<1> QED BY <1>1, <1>2, PTL DEF Spec

\* For every deadline and server, remaining_ms before each wait keeps a plain
\* request within its deadline, rounded up to a millisecond.
THEOREM RequestKeepsDeadline == Spec => []DeadlineKept
BY ExchangeInvariant, PTL DEF IInv

\* No path of do_http or do_tls leaves a socket open or closes one twice.
THEOREM NoSocketIsLost == Spec => []SocketsReturned
BY ExchangeInvariant, PTL DEF IInv

-----------------------------------------------------------------------------
(* What the readers store.                                                  *)

\* The reader's buffer holds the answer from its first byte, without a gap,
\* and never more than the buffer takes: the status buffers keep a byte for the
\* NUL, the fetch buffer was allocated for RawCap.
ReadIntoBuffer ==
  /\ Len(got) <= Room
  /\ Len(got) <= Len(resp.wire)
  /\ got = SubSeq(resp.wire, 1, Len(got))

StoredOK == scheme \in Schemes /\ mode \in Modes /\ resp \in Responses /\ ReadIntoBuffer

LEMMA RoomIsNat ==
  ASSUME StoredOK
  PROVE  /\ Room \in Nat /\ resp.wire \in Seq(Byte \cup HeadToken)
         /\ Len(resp.wire) \in Nat /\ Len(got) \in Nat
<1>1. resp.wire \in Seq(Byte \cup HeadToken)
  BY HttpAssumption DEF StoredOK, Response
<1>2. Len(resp.wire) \in Nat /\ Len(got) \in Nat
  BY <1>1 DEF StoredOK, ReadIntoBuffer
<1>3. /\ OutCap \in Nat /\ HeaderCap \in Nat /\ OverheadCap \in Nat
      /\ StatusBuf \in Nat \ {0} /\ TlsStatusBuf \in Nat
  BY HttpAssumption
<1>4. Room \in Nat
  BY <1>3 DEF Room, RawCap
<1> QED BY <1>1, <1>2, <1>4

\* A read appends what the socket returned, and asks for no more than fits.
LEMMA ReadStores ==
  ASSUME StoredOK, Read
  PROVE  ReadIntoBuffer'
<1>1. /\ Room \in Nat /\ resp.wire \in Seq(Byte \cup HeadToken)
      /\ Len(resp.wire) \in Nat /\ Len(got) \in Nat /\ ReadMax \in Nat
  BY RoomIsNat, HttpAssumption
<1>2. Len(got) < Room /\ UNCHANGED call
  BY DEF Read, Reads
<1>3. Room' = Room /\ resp' = resp
  BY <1>2 DEF Room, call
<1>4. PICK n \in 1..Least(ReadLimit, Len(resp.wire) - Len(got)) :
        got' = SubSeq(resp.wire, 1, Len(got) + n)
  BY DEF Read
<1>5. ReadLimit \in Nat /\ ReadLimit <= Room - Len(got)
  BY <1>1, <1>2 DEF ReadLimit, Least
<1>6. n \in Nat /\ Len(got) + n <= Room /\ Len(got) + n <= Len(resp.wire)
  BY <1>1, <1>5 DEF Least
<1>7. Len(got') = Len(got) + n
  BY <1>1, <1>4, <1>6
<1> QED BY <1>3, <1>4, <1>6, <1>7 DEF ReadIntoBuffer

LEMMA StepStores ==
  ASSUME StoredOK, [Next]_vars
  PROVE  StoredOK'
<1>1. UNCHANGED call
  BY Zenon DEF Next, vars, call, Refused, Resolve, GiveUp, NoSocket, ConnectFails, Connect, Handshake,
     Interrupted, Write, WriteFails, WriteTooLate, BufferFull, ReadTooLate, Read, PeerCloses,
     ReadFails, ReadInterrupted, Returned
<1>2. Read \/ UNCHANGED got
  BY Zenon DEF Next, vars, Refused, Resolve, GiveUp, NoSocket, ConnectFails, Connect, Handshake,
     Interrupted, Write, WriteFails, WriteTooLate, BufferFull, ReadTooLate, PeerCloses,
     ReadFails, ReadInterrupted, Returned
<1>3. ASSUME UNCHANGED got PROVE ReadIntoBuffer'
  BY <1>1, <1>3 DEF StoredOK, ReadIntoBuffer, Room, call
<1> QED BY <1>1, <1>2, <1>3, ReadStores DEF StoredOK, call

LEMMA InitStores ==
  ASSUME Init
  PROVE  StoredOK
<1>1. scheme \in Schemes /\ mode \in Modes /\ resp \in Responses /\ got = <<>>
  BY DEF Init
<1>2. Room \in Nat
  BY HttpAssumption DEF Room, RawCap
<1>3. resp.wire \in Seq(Byte \cup HeadToken)
  BY <1>1, HttpAssumption DEF Response
<1>4. Len(got) = 0 /\ Len(resp.wire) \in Nat /\ SubSeq(resp.wire, 1, 0) = <<>>
  BY <1>1, <1>3
<1> QED BY <1>1, <1>2, <1>4 DEF StoredOK, ReadIntoBuffer

\* For every buffer size, answer and way of cutting it, no reader of ph_http.c
\* or ph_tls.c (read_status_response, read_body_response, do_tls) stores past
\* the end of its buffer, nor skips or repeats a byte of the answer.
THEOREM ReadsStayInBuffer == Spec => []ReadIntoBuffer
<1>1. Init => StoredOK
  BY InitStores
<1>2. StoredOK /\ [Next]_vars => StoredOK'
  BY StepStores
<1> QED BY <1>1, <1>2, PTL DEF Spec, StoredOK

-----------------------------------------------------------------------------
(* Induction, upwards and down from the end of a sequence.                  *)

LEMMA SetInduction ==
  ASSUME NEW T, 0 \in T, \A n \in Nat : n \in T => n + 1 \in T
  PROVE  Nat \subseteq T
<1> SUFFICES ASSUME Nat \ T # {} PROVE FALSE
  OBVIOUS
<1>1. \E x \in Nat \ T : \A y \in Nat \ T : <<y, x>> \notin OpToRel(<, Nat)
  BY WFMin, NatLessThanWellFounded, Zenon
<1>2. \A x, y \in Nat : y < x => <<y, x>> \in OpToRel(<, Nat)
  BY Zenon DEF OpToRel
<1>3. PICK x \in Nat \ T : \A y \in Nat \ T : ~(y < x)
  BY <1>1, <1>2, Zenon
<1>4. x - 1 \in Nat /\ (x - 1) + 1 = x /\ x - 1 < x
  BY <1>3
<1> QED BY <1>3, <1>4

LEMMA DownInduction ==
  ASSUME NEW n \in Nat, NEW T, \A p \in 1..n : (\A q \in (p + 1)..n : q \in T) => p \in T
  PROVE  1..n \subseteq T
<1> DEFINE K == {k \in Nat : \A p \in 1..n : p > n - k => p \in T}
<1>1. 0 \in K
  OBVIOUS
<1>2. ASSUME NEW k \in Nat, k \in K PROVE k + 1 \in K
  <2> SUFFICES ASSUME NEW p \in 1..n, p > n - (k + 1) PROVE p \in T
    OBVIOUS
  <2>1. \A q \in (p + 1)..n : q \in T
    BY <1>2
  <2> QED BY <2>1
<1>3. Nat \subseteq K
  <2> HIDE DEF K
  <2> QED BY <1>1, <1>2, SetInduction
<1>4. n \in K
  BY <1>3
<1> QED BY <1>4

\* A recursion that only looks ahead has a solution.
Walk(w, n, V, jump, step, last) ==
  /\ w \in [1..n -> V]
  /\ \A p \in 1..n : w[p] = IF jump[p] \in (p + 1)..n THEN step[p][w[jump[p]]] ELSE last[p]

LEMMA WalkExists ==
  ASSUME NEW n \in Nat, NEW V, NEW jump \in [1..n -> Nat], NEW step \in [1..n -> [V -> V]],
         NEW last \in [1..n -> V]
  PROVE  \E w : Walk(w, n, V, jump, step, last)
<1> DEFINE Good(w, k) == \A p \in 1..n : p > n - k =>
                           w[p] = IF jump[p] \in (p + 1)..n THEN step[p][w[jump[p]]] ELSE last[p]
           K == {k \in Nat : \E w \in [1..n -> V] : Good(w, k)}
<1>1. 0 \in K
  <2>1. Good(last, 0)
    OBVIOUS
  <2> QED BY <2>1
<1>2. ASSUME NEW k \in Nat, k \in K PROVE k + 1 \in K
  <2>1. PICK w \in [1..n -> V] : Good(w, k)
    BY <1>2, Zenon
  <2>2. CASE k >= n
    <3>1. Good(w, k + 1)
      BY <2>1, <2>2
    <3> QED BY <3>1
  <2>3. CASE k < n
    <3> DEFINE r == n - k
               x == IF jump[r] \in (r + 1)..n THEN step[r][w[jump[r]]] ELSE last[r]
               v == [w EXCEPT ![r] = x]
    <3>1. r \in 1..n /\ x \in V
      BY <2>3
    <3>2. v \in [1..n -> V] /\ v[r] = x /\ \A p \in 1..n : p # r => v[p] = w[p]
      BY <3>1
    <3> HIDE DEF v
    <3>3. ASSUME NEW p \in 1..n, p > n - (k + 1)
          PROVE  v[p] = IF jump[p] \in (p + 1)..n THEN step[p][v[jump[p]]] ELSE last[p]
      <4>1. jump[p] \in (p + 1)..n => v[jump[p]] = w[jump[p]]
        BY <3>2, <3>3
      <4>2. CASE p = r
        BY <3>2, <4>1, <4>2
      <4>3. CASE p > n - k
        <5>1. v[p] = w[p]
          BY <3>2, <4>3
        <5>2. w[p] = IF jump[p] \in (p + 1)..n THEN step[p][w[jump[p]]] ELSE last[p]
          BY <2>1, <4>3
        <5> QED BY <4>1, <5>1, <5>2
      <4> QED BY <3>3, <4>2, <4>3
    <3>4. Good(v, k + 1)
      BY <3>3
    <3> HIDE DEF Good
    <3> QED BY <3>2, <3>4
  <2>4. k >= n \/ k < n
    OBVIOUS
  <2> QED BY <2>2, <2>3, <2>4, Zenon
<1>3. Nat \subseteq K
  <2> HIDE DEF K
  <2> QED BY <1>1, <1>2, SetInduction, Zenon
<1>4. PICK w \in [1..n -> V] : Good(w, n)
  BY <1>3, Zenon
<1>5. ASSUME NEW p \in 1..n
      PROVE  w[p] = IF jump[p] \in (p + 1)..n THEN step[p][w[jump[p]]] ELSE last[p]
  <2>1. p > n - n
    OBVIOUS
  <2> QED BY <1>4, <2>1, Zenon
<1> QED BY <1>5, Zenon DEF Walk

-----------------------------------------------------------------------------
(* The scanners.                                                            *)

LEMMA SkipFacts ==
  ASSUME NEW b, Len(b) \in Nat, NEW p \in 1..(Len(b) + 1), NEW S
  PROVE  LET i == SkipWhile(b, p, S)
         IN /\ i \in p..(Len(b) + 1) /\ (i = Len(b) + 1 \/ b[i] \notin S)
            /\ \A j \in p..(i - 1) : b[j] \in S
<1> DEFINE n == Len(b) + 1
           Stops(i) == i = n \/ b[i] \notin S
           T == {r \in 1..n : \E i \in r..n : Stops(i) /\ \A j \in r..(i - 1) : b[j] \in S}
<1>1. n \in Nat
  OBVIOUS
<1>2. ASSUME NEW r \in 1..n, \A q \in (r + 1)..n : q \in T PROVE r \in T
  <2>1. CASE Stops(r)
    BY <2>1
  <2>2. CASE ~Stops(r)
    <3>1. r + 1 \in (r + 1)..n /\ b[r] \in S
      BY <2>2
    <3>2. PICK i \in (r + 1)..n : Stops(i) /\ \A j \in (r + 1)..(i - 1) : b[j] \in S
      BY <1>2, <3>1, Zenon
    <3>3. i \in r..n /\ \A j \in r..(i - 1) : b[j] \in S
      BY <3>1, <3>2
    <3> QED BY <3>2, <3>3
  <2> QED BY <2>1, <2>2
<1>3. 1..n \subseteq T
  <2> HIDE DEF T, n
  <2> QED BY <1>1, <1>2, DownInduction, Zenon
<1>4. \E i \in p..(Len(b) + 1) : (i = Len(b) + 1 \/ b[i] \notin S) /\ \A j \in p..(i - 1) : b[j] \in S
  BY <1>3
<1> QED BY <1>4, Zenon DEF SkipWhile

LEMMA SkipIs ==
  ASSUME NEW b, Len(b) \in Nat, NEW p \in 1..(Len(b) + 1), NEW S, NEW i \in p..(Len(b) + 1),
         i = Len(b) + 1 \/ b[i] \notin S, \A j \in p..(i - 1) : b[j] \in S
  PROVE  SkipWhile(b, p, S) = i
<1> DEFINE k == SkipWhile(b, p, S)
<1>1. /\ k \in p..(Len(b) + 1) /\ (k = Len(b) + 1 \/ b[k] \notin S)
      /\ \A j \in p..(k - 1) : b[j] \in S
  BY SkipFacts
<1> HIDE DEF k
<1>2. ~(k < i) /\ ~(i < k)
  BY <1>1
<1> QED BY <1>1, <1>2 DEF k

\* b is the beginning of c.
Begins(b, c) ==
  /\ b \in Seq(Byte) /\ c \in Seq(Byte) /\ Len(b) <= Len(c)
  /\ \A i \in 1..Len(b) : b[i] = c[i]

LEMMA BeginsWhole ==
  ASSUME NEW b, NEW c, Begins(b, c), Len(b) = Len(c)
  PROVE  b = c
BY DEF Begins

LEMMA UptoFacts ==
  ASSUME NEW c \in Seq(Byte), NEW m \in 0..Len(c)
  PROVE  Begins(Upto(c, m), c) /\ Len(Upto(c, m)) = m
<1> DEFINE b == SubSeq(c, 1, m)
<1>1. Upto(c, m) = b
  BY DEF Upto, Least
<1>2. b \in Seq(Byte) /\ Len(b) = m /\ \A i \in 1..m : b[i] = c[i]
  OBVIOUS
<1> QED BY <1>1, <1>2 DEF Begins

LEMMA SkipBegins ==
  ASSUME NEW b, NEW c, Begins(b, c), NEW p \in 1..(Len(b) + 1), NEW S
  PROVE  SkipWhile(b, p, S)
           = IF SkipWhile(c, p, S) <= Len(b) THEN SkipWhile(c, p, S) ELSE Len(b) + 1
<1> DEFINE k == SkipWhile(c, p, S)
           i == IF k <= Len(b) THEN k ELSE Len(b) + 1
<1>1. /\ Len(b) \in Nat /\ Len(c) \in Nat /\ Len(b) <= Len(c)
      /\ \A j \in 1..Len(b) : b[j] = c[j]
  BY DEF Begins
<1>2. p \in 1..(Len(c) + 1)
  BY <1>1
<1>3. /\ k \in p..(Len(c) + 1) /\ (k = Len(c) + 1 \/ c[k] \notin S)
      /\ \A j \in p..(k - 1) : c[j] \in S
  BY <1>1, <1>2, SkipFacts
<1> HIDE DEF k
<1>4. /\ i \in p..(Len(b) + 1) /\ (i = Len(b) + 1 \/ b[i] \notin S)
      /\ \A j \in p..(i - 1) : b[j] \in S
  BY <1>1, <1>3
<1> HIDE DEF i
<1>5. SkipWhile(b, p, S) = i
  BY <1>1, <1>4, SkipIs, Zenon
<1> QED BY <1>5 DEF i, k

LEMMA CrlfBegins ==
  ASSUME NEW b, NEW c, Begins(b, c), NEW p \in Nat \ {0}
  PROVE  CrlfAt(b, p) = IF p + 1 > Len(b) THEN "more" ELSE CrlfAt(c, p)
<1>1. /\ Len(b) \in Nat /\ Len(c) \in Nat /\ Len(b) <= Len(c)
      /\ \A j \in 1..Len(b) : b[j] = c[j]
  BY DEF Begins
<1>2. CASE p + 1 > Len(b)
  BY <1>1, <1>2 DEF CrlfAt
<1>3. CASE ~(p + 1 > Len(b))
  <2>1. b[p] = c[p] /\ b[p + 1] = c[p + 1] /\ ~(p + 1 > Len(c)) /\ p + 1 <= Len(c) /\ p + 1 <= Len(b)
    BY <1>1, <1>3
  <2> QED BY <1>3, <2>1, Zenon DEF CrlfAt
<1> QED BY <1>2, <1>3

LEMMA CrlfFacts ==
  ASSUME NEW b \in Seq(Byte), NEW p \in Nat \ {0}
  PROVE  /\ CrlfAt(b, p) \in {"more", "yes", "no"}
         /\ CrlfAt(b, p) = "more" <=> p + 1 > Len(b)
         /\ CrlfAt(b, p) = "yes" => p + 1 <= Len(b) /\ b[p] = "CR" /\ b[p + 1] = "LF"
<1>1. p + 1 > Len(b) <=> ~(p + 1 <= Len(b))
  OBVIOUS
<1>2. CASE p + 1 > Len(b)
  <2>1. CrlfAt(b, p) = "more"
    BY <1>1, <1>2 DEF CrlfAt
  <2> QED BY <1>2, <2>1
<1>3. CASE p + 1 <= Len(b) /\ b[p] = "CR" /\ b[p + 1] = "LF"
  <2>1. CrlfAt(b, p) = "yes"
    BY <1>1, <1>3 DEF CrlfAt
  <2> QED BY <1>1, <1>3, <2>1
<1>4. CASE p + 1 <= Len(b) /\ ~(b[p] = "CR" /\ b[p + 1] = "LF")
  <2>1. CrlfAt(b, p) = "no"
    BY <1>1, <1>4 DEF CrlfAt
  <2> QED BY <1>1, <1>4, <2>1
<1> QED BY <1>1, <1>2, <1>3, <1>4

-----------------------------------------------------------------------------
(* The size line of a chunk.                                                *)

LEMMA NumberNat == \A ds \in Seq(Digits) : Number(ds) \in Nat
<1> SUFFICES ASSUME NEW ds \in Seq(Digits) PROVE Number(ds) \in Nat
  OBVIOUS
<1> DEFINE n == Len(ds)
           Is(f, m) == f = [k \in 0..m |-> IF k = 0 THEN 0 ELSE 16 * f[k - 1] + HexValue[ds[k]]]
           K == {m \in Nat : m <= n => \E f \in [0..m -> Nat] : Is(f, m)}
<1>1. n \in Nat /\ \A k \in 1..n : HexValue[ds[k]] \in Nat
  BY DEF HexValue, Digits
<1>2. 0 \in K
  <2> DEFINE f == [k \in 0..0 |-> 0]
  <2>1. f \in [0..0 -> Nat] /\ Is(f, 0)
    OBVIOUS
  <2> QED BY <2>1, Zenon
<1>3. ASSUME NEW m \in Nat, m \in K PROVE m + 1 \in K
  <2> SUFFICES ASSUME m + 1 <= n PROVE \E f \in [0..(m + 1) -> Nat] : Is(f, m + 1)
    <3> HIDE DEF Is
    <3> QED OBVIOUS
  <2>1. PICK f \in [0..m -> Nat] : Is(f, m)
    BY <1>1, <1>3
  <2> DEFINE x == 16 * f[m] + HexValue[ds[m + 1]]
             g == [k \in 0..(m + 1) |-> IF k = m + 1 THEN x ELSE f[k]]
  <2>2. m + 1 \in 1..n /\ f[m] \in Nat
    BY <1>1, <2>1
  <2>3. x \in Nat
    BY <1>1, <2>2
  <2>4. g \in [0..(m + 1) -> Nat]
    <3> HIDE DEF x
    <3> QED BY <2>1, <2>3
  <2>5. ASSUME NEW k \in 0..(m + 1)
        PROVE  g[k] = IF k = 0 THEN 0 ELSE 16 * g[k - 1] + HexValue[ds[k]]
    <3>1. CASE k = m + 1
      BY <3>1
    <3>2. CASE k \in 0..m
      <4>1. f[k] = IF k = 0 THEN 0 ELSE 16 * f[k - 1] + HexValue[ds[k]]
        BY <2>1, <3>2
      <4>2. g[k] = f[k] /\ (k # 0 => g[k - 1] = f[k - 1])
        BY <3>2
      <4> QED BY <4>1, <4>2
    <3> QED BY <3>1, <3>2
  <2>6. Is(g, m + 1)
    <3>1. g = [k \in 0..(m + 1) |-> g[k]]
      OBVIOUS
    <3> HIDE DEF g
    <3> QED BY <2>5, <3>1
  <2> HIDE DEF g, Is
  <2> QED BY <2>4, <2>6
<1>4. Nat \subseteq K
  <2> HIDE DEF K
  <2> QED BY <1>2, <1>3, SetInduction
<1>5. \E f \in [0..n -> Nat] : Is(f, n)
  <2> HIDE DEF Is
  <2> QED BY <1>1, <1>4
<1> DEFINE v == CHOOSE f : Is(f, n)
<1>6. Number(ds) = v[n]
  BY Zenon DEF Number
<1>7. Is(v, n)
  <2> HIDE DEF Is
  <2> QED BY <1>5, Zenon
<1> HIDE DEF v
<1> DEFINE L == {m \in Nat : m <= n => v[m] \in Nat}
<1>8. 0 \in L
  BY <1>1, <1>7
<1>9. ASSUME NEW m \in Nat, m \in L PROVE m + 1 \in L
  <2> SUFFICES ASSUME m + 1 <= n PROVE v[m + 1] \in Nat
    OBVIOUS
  <2>1. v[m] \in Nat /\ HexValue[ds[m + 1]] \in Nat
    BY <1>1, <1>9
  <2>2. v[m + 1] = 16 * v[m] + HexValue[ds[m + 1]]
    BY <1>1, <1>7
  <2> QED BY <2>1, <2>2
<1>10. Nat \subseteq L
  <2> HIDE DEF L
  <2> QED BY <1>8, <1>9, SetInduction
<1> QED BY <1>1, <1>6, <1>10

LEMMA LineFacts ==
  ASSUME NEW b \in Seq(Byte), NEW p \in 1..(Len(b) + 1)
  PROVE  LineEnd(b, p) \in p..(Len(b) + 1)
<1>1. Len(b) \in Nat
  OBVIOUS
<1> QED BY <1>1, SkipFacts DEF LineEnd

LEMMA SizeFacts ==
  ASSUME NEW b \in Seq(Byte), NEW p \in 1..(Len(b) + 1)
  PROVE  /\ SizeEnd(b, p) \in p..(Len(b) + 1)
         /\ SizeAt(b, p) \in Nat
         /\ SizeLineEnd(b, p) \in SizeEnd(b, p)..(Len(b) + 1)
<1> DEFINE d == SizeEnd(b, p)
<1>1. Len(b) \in Nat
  OBVIOUS
<1>2. d \in p..(Len(b) + 1) /\ \A j \in p..(d - 1) : b[j] \in Digits
  BY <1>1, SkipFacts DEF SizeEnd
<1> HIDE DEF d
<1>3. SubSeq(b, p, d - 1) \in Seq(Digits)
  <2> DEFINE s == SubSeq(b, p, d - 1)
  <2>1. s \in Seq(Byte) /\ Len(s) = d - p /\ \A i \in 1..(d - p) : s[i] = b[p + i - 1]
    BY <1>2
  <2> HIDE DEF s
  <2>2. ASSUME NEW i \in 1..(d - p) PROVE s[i] \in Digits
    <3>1. p + i - 1 \in p..(d - 1)
      BY <1>2
    <3> QED BY <1>2, <2>1, <3>1
  <2>3. s \in Seq(Digits)
    BY <1>2, <2>1, <2>2
  <2> QED BY <2>3 DEF s
<1>4. SizeAt(b, p) \in Nat
  BY <1>3, NumberNat, Zenon DEF SizeAt, d
<1>5. d \in 1..(Len(b) + 1)
  BY <1>2
<1>6. SizeLineEnd(b, p) \in d..(Len(b) + 1)
  BY <1>5, LineFacts DEF SizeLineEnd, d
<1> QED BY <1>2, <1>4, <1>6 DEF d

LEMMA SizeBegins ==
  ASSUME NEW b, NEW c, Begins(b, c), NEW p \in 1..(Len(b) + 1)
  PROVE  /\ SizeEnd(b, p) = IF SizeEnd(c, p) <= Len(b) THEN SizeEnd(c, p) ELSE Len(b) + 1
         /\ SizeLineEnd(b, p)
              = IF SizeLineEnd(c, p) <= Len(b) THEN SizeLineEnd(c, p) ELSE Len(b) + 1
         /\ SizeLineEnd(c, p) <= Len(b) => SizeAt(b, p) = SizeAt(c, p)
<1> DEFINE d == SizeEnd(c, p)
           e == SizeLineEnd(c, p)
<1>1. /\ b \in Seq(Byte) /\ c \in Seq(Byte) /\ Len(b) \in Nat /\ Len(c) \in Nat
      /\ Len(b) <= Len(c) /\ p \in 1..(Len(c) + 1)
  BY DEF Begins
<1>2. d \in p..(Len(c) + 1) /\ e \in d..(Len(c) + 1)
  BY <1>1, SizeFacts
<1>3. SizeEnd(b, p) = IF d <= Len(b) THEN d ELSE Len(b) + 1
  BY SkipBegins DEF SizeEnd
<1>4. CASE d <= Len(b)
  <2>1. SizeEnd(b, p) = d /\ d \in 1..(Len(b) + 1)
    BY <1>1, <1>2, <1>3, <1>4
  <2>2. LineEnd(b, d) = IF LineEnd(c, d) <= Len(b) THEN LineEnd(c, d) ELSE Len(b) + 1
    BY <2>1, SkipBegins DEF LineEnd
  <2>3. SizeLineEnd(b, p) = IF e <= Len(b) THEN e ELSE Len(b) + 1
    BY <2>1, <2>2 DEF SizeLineEnd
  <2>4. SubSeq(b, p, d - 1) = SubSeq(c, p, d - 1)
    <3> HIDE DEF d
    <3>1. \A i \in 1..Len(b) : b[i] = c[i]
      BY DEF Begins
    <3> DEFINE s == SubSeq(b, p, d - 1)
               t == SubSeq(c, p, d - 1)
    <3>2. s \in Seq(Byte) /\ Len(s) = d - p /\ \A i \in 1..(d - p) : s[i] = b[p + i - 1]
      BY <1>1, <1>2, <1>4
    <3>3. t \in Seq(Byte) /\ Len(t) = d - p /\ \A i \in 1..(d - p) : t[i] = c[p + i - 1]
      BY <1>1, <1>2
    <3> HIDE DEF s, t
    <3>4. \A i \in 1..(d - p) : s[i] = t[i]
      BY <1>1, <1>2, <1>4, <3>1, <3>2, <3>3
    <3>5. s = t
      BY <3>2, <3>3, <3>4
    <3> QED BY <3>5, Zenon DEF s, t
  <2>5. SizeAt(b, p) = SizeAt(c, p)
    BY <2>1, <2>4, Zenon DEF SizeAt
  <2> QED BY <1>3, <2>3, <2>5
<1>5. CASE ~(d <= Len(b))
  <2>1. SizeEnd(b, p) = Len(b) + 1 /\ ~(e <= Len(b))
    BY <1>1, <1>2, <1>3, <1>5
  <2>2. SizeLineEnd(b, p) \in (Len(b) + 1)..(Len(b) + 1)
    BY <1>1, <2>1, SizeFacts
  <2>3. SizeLineEnd(b, p) = Len(b) + 1
    BY <1>1, <2>2
  <2> QED BY <1>3, <2>1, <2>3
<1> QED BY <1>4, <1>5

-----------------------------------------------------------------------------
(* The recursions unfold.                                                   *)

LEMMA TrailersUnfold ==
  ASSUME NEW b \in Seq(Byte), NEW p \in 1..(Len(b) + 1)
  PROVE  Trailers(b)[p] = IF CrlfAt(b, LineEnd(b, p)) = "more" THEN 0
                          ELSE IF CrlfAt(b, LineEnd(b, p)) = "no" THEN -1
                          ELSE IF LineEnd(b, p) = p THEN 1
                          ELSE Trailers(b)[LineEnd(b, p) + 2]
<1> DEFINE n == Len(b) + 1
           Body(f, q) == IF CrlfAt(b, LineEnd(b, q)) = "more" THEN 0
                         ELSE IF CrlfAt(b, LineEnd(b, q)) = "no" THEN -1
                         ELSE IF LineEnd(b, q) = q THEN 1
                         ELSE f[LineEnd(b, q) + 2]
           Is(f) == f = [q \in 1..n |-> Body(f, q)]
           V == {-1, 0, 1}
           Stop(q) == CASE CrlfAt(b, LineEnd(b, q)) = "more" -> 0
                        [] CrlfAt(b, LineEnd(b, q)) = "no" -> -1
                        [] OTHER -> 1
           Goes(q) == CrlfAt(b, LineEnd(b, q)) = "yes" /\ LineEnd(b, q) # q
           jump == [q \in 1..n |-> IF Goes(q) THEN LineEnd(b, q) + 2 ELSE 0]
           step == [q \in 1..n |-> [v \in V |-> v]]
           last == [q \in 1..n |-> Stop(q)]
<1>1. n \in Nat
  OBVIOUS
<1>2. ASSUME NEW q \in 1..n
      PROVE  /\ LineEnd(b, q) \in q..n
             /\ CrlfAt(b, LineEnd(b, q)) \in {"more", "yes", "no"}
             /\ Goes(q) => LineEnd(b, q) + 2 \in (q + 1)..n
  <2>1. LineEnd(b, q) \in q..n
    BY LineFacts
  <2>2. LineEnd(b, q) \in Nat \ {0}
    BY <2>1
  <2>3. /\ CrlfAt(b, LineEnd(b, q)) \in {"more", "yes", "no"}
        /\ CrlfAt(b, LineEnd(b, q)) = "yes" => LineEnd(b, q) + 1 <= Len(b)
    BY <2>2, CrlfFacts, Zenon
  <2> QED BY <2>1, <2>3
<1>3. /\ jump \in [1..n -> Nat] /\ step \in [1..n -> [V -> V]] /\ last \in [1..n -> V]
  <2>1. \A q \in 1..n : jump[q] \in Nat
    <3> HIDE DEF n
    <3> QED BY <1>1, <1>2
  <2>2. \A q \in 1..n : Stop(q) \in V
    OBVIOUS
  <2> HIDE DEF Goes, Stop, n, V
  <2> QED BY <2>1, <2>2
<1>3a. PICK w : Walk(w, n, V, jump, step, last)
  <2> HIDE DEF n, V, jump, step, last
  <2> QED BY <1>1, <1>3, WalkExists, Zenon
<1>4. /\ w \in [1..n -> V]
      /\ \A q \in 1..n :
        w[q] = IF jump[q] \in (q + 1)..n THEN step[q][w[jump[q]]] ELSE last[q]
  BY <1>3a DEF Walk
<1>5. ASSUME NEW q \in 1..n PROVE w[q] = Body(w, q)
  <2>1. CASE Goes(q)
    <3>1. jump[q] = LineEnd(b, q) + 2 /\ jump[q] \in (q + 1)..n /\ jump[q] \in 1..n
      BY <1>2, <2>1
    <3>2. w[jump[q]] \in V
      BY <1>4, <3>1
    <3>3. w[q] = w[LineEnd(b, q) + 2]
      BY <1>4, <3>1, <3>2, Zenon
    <3> QED BY <2>1, <3>3
  <2>2. CASE ~Goes(q)
    <3>1. ~(jump[q] \in (q + 1)..n)
      BY <2>2
    <3>2. w[q] = Stop(q)
      BY <1>4, <3>1, Zenon
    <3>3. Stop(q) = Body(w, q)
      BY <1>2, <2>2
    <3> QED BY <3>2, <3>3
  <2> QED BY <2>1, <2>2
<1>6. Is(w)
  <2> HIDE DEF Body, n
  <2> QED BY <1>4, <1>5
<1>7. Trailers(b) = CHOOSE f : Is(f)
  BY Zenon DEF Trailers
<1>8. Is(Trailers(b))
  <2> HIDE DEF Is
  <2> QED BY <1>6, <1>7, Zenon
<1>9. Trailers(b)[p] = Body(Trailers(b), p)
  <2> HIDE DEF Body
  <2> QED BY <1>8, Zenon
<1> QED BY <1>9

LEMMA TrailersType ==
  ASSUME NEW b \in Seq(Byte), NEW p \in 1..(Len(b) + 1)
  PROVE  Trailers(b)[p] \in {-1, 0, 1}
<1> DEFINE n == Len(b) + 1
           T == {q \in 1..n : Trailers(b)[q] \in {-1, 0, 1}}
<1>1. n \in Nat
  OBVIOUS
<1>2. ASSUME NEW q \in 1..n, \A r \in (q + 1)..n : r \in T PROVE q \in T
  <2> DEFINE e == LineEnd(b, q)
  <2>1. e \in q..n
    BY LineFacts
  <2>2. e \in Nat \ {0}
    BY <2>1
  <2>3. /\ CrlfAt(b, e) \in {"more", "yes", "no"}
        /\ CrlfAt(b, e) = "yes" => e + 1 <= Len(b)
    BY <2>2, CrlfFacts, Zenon
  <2>4. Trailers(b)[q] = IF CrlfAt(b, e) = "more" THEN 0
                         ELSE IF CrlfAt(b, e) = "no" THEN -1
                         ELSE IF e = q THEN 1
                         ELSE Trailers(b)[e + 2]
    BY TrailersUnfold
  <2> HIDE DEF e
  <2>5. CrlfAt(b, e) = "yes" => e + 2 \in (q + 1)..n
    BY <2>1, <2>3
  <2> QED BY <1>2, <2>3, <2>4, <2>5
<1>3. 1..n \subseteq T
  <2> HIDE DEF T, n
  <2> QED BY <1>1, <1>2, DownInduction, Zenon
<1> QED BY <1>3

Verdicts == [rc : {-2, -1, 0, 1}, out : Seq(Byte)]

\* One round of the decoder, with what it returns from the next chunk on.
ChunkRound(b, cap, p, out, rest) ==
  LET Verdict(rc, data) == [rc |-> rc, out |-> data]
      n    == SizeAt(b, p)
      e    == SizeLineEnd(b, p)
      next == e + 2 + n
      all  == out \o SubSeq(b, e + 2, next - 1)
  IN IF SizeEnd(b, p) = p THEN Verdict(IF p > Len(b) THEN 0 ELSE -1, out)
     ELSE IF CrlfAt(b, e) = "more" THEN Verdict(0, out)
     ELSE IF CrlfAt(b, e) = "no" THEN Verdict(-1, out)
     ELSE IF n = 0 THEN Verdict(Trailers(b)[e + 2], out)
     ELSE IF next > Len(b) + 1 THEN Verdict(0, out)
     ELSE IF ~Fits(n, out, cap) THEN Verdict(-2, out)
     ELSE IF CrlfAt(b, next) = "more" THEN Verdict(0, all)
     ELSE IF CrlfAt(b, next) = "no" THEN Verdict(-1, all)
     ELSE rest[next + 2][all]

NextAt(b, p) == SizeLineEnd(b, p) + 2 + SizeAt(b, p)
DataAt(b, p) == SubSeq(b, SizeLineEnd(b, p) + 2, NextAt(b, p) - 1)
GoesOn(b, p) ==
  /\ SizeEnd(b, p) # p /\ CrlfAt(b, SizeLineEnd(b, p)) = "yes" /\ SizeAt(b, p) # 0
  /\ CrlfAt(b, NextAt(b, p)) = "yes"

\* Where a round looks, and what it takes.
LEMMA RoundFacts ==
  ASSUME NEW b \in Seq(Byte), NEW p \in 1..(Len(b) + 1)
  PROVE  /\ SizeEnd(b, p) \in p..(Len(b) + 1)
         /\ SizeAt(b, p) \in Nat
         /\ SizeLineEnd(b, p) \in SizeEnd(b, p)..(Len(b) + 1)
         /\ CrlfAt(b, SizeLineEnd(b, p)) \in {"more", "yes", "no"}
         /\ CrlfAt(b, SizeLineEnd(b, p)) = "more" <=> SizeLineEnd(b, p) + 1 > Len(b)
         /\ CrlfAt(b, SizeLineEnd(b, p)) = "yes" => SizeLineEnd(b, p) + 2 \in (p + 1)..(Len(b) + 1)
         /\ NextAt(b, p) \in Nat \ {0} /\ NextAt(b, p) = SizeLineEnd(b, p) + 2 + SizeAt(b, p)
         /\ CrlfAt(b, NextAt(b, p)) \in {"more", "yes", "no"}
         /\ CrlfAt(b, NextAt(b, p)) = "more" <=> NextAt(b, p) + 1 > Len(b)
         /\ CrlfAt(b, NextAt(b, p)) = "yes" => NextAt(b, p) + 2 \in (p + 1)..(Len(b) + 1)
         /\ NextAt(b, p) <= Len(b) + 1 => DataAt(b, p) \in Seq(Byte) /\ Len(DataAt(b, p)) = SizeAt(b, p)
<1> DEFINE d == SizeEnd(b, p)
           n == SizeAt(b, p)
           e == SizeLineEnd(b, p)
           x == NextAt(b, p)
<1>1. d \in p..(Len(b) + 1) /\ n \in Nat /\ e \in d..(Len(b) + 1)
  BY SizeFacts
<1>2. x = e + 2 + n
  BY DEF NextAt
<1>3. DataAt(b, p) = SubSeq(b, e + 2, x - 1)
  BY DEF DataAt
<1> HIDE DEF d, n, e, x
<1>4. e \in Nat \ {0} /\ x \in Nat \ {0}
  BY <1>1, <1>2
<1>5. /\ CrlfAt(b, e) \in {"more", "yes", "no"}
      /\ CrlfAt(b, e) = "more" <=> e + 1 > Len(b)
      /\ CrlfAt(b, e) = "yes" => e + 1 <= Len(b)
  BY <1>4, CrlfFacts
<1>6. /\ CrlfAt(b, x) \in {"more", "yes", "no"}
      /\ CrlfAt(b, x) = "more" <=> x + 1 > Len(b)
      /\ CrlfAt(b, x) = "yes" => x + 1 <= Len(b)
  BY <1>4, CrlfFacts
<1>7. CrlfAt(b, e) = "yes" => e + 2 \in (p + 1)..(Len(b) + 1)
  BY <1>1, <1>5
<1>8. CrlfAt(b, x) = "yes" => x + 2 \in (p + 1)..(Len(b) + 1)
  BY <1>1, <1>2, <1>6
<1>9. ASSUME x <= Len(b) + 1
      PROVE  SubSeq(b, e + 2, x - 1) \in Seq(Byte) /\ Len(SubSeq(b, e + 2, x - 1)) = n
  <2> DEFINE f == e + 2
             y == x - 1
  <2>1. f \in 1..(Len(b) + 1) /\ y \in Int /\ y <= Len(b) /\ y = f + n - 1
    BY <1>1, <1>2, <1>9
  <2> HIDE DEF f, y
  <2>2. SubSeq(b, f, y) \in Seq(Byte) /\ Len(SubSeq(b, f, y)) = n
    BY <1>1, <2>1
  <2> QED BY <2>2 DEF f, y
<1> QED BY <1>1, <1>2, <1>3, <1>4, <1>5, <1>6, <1>7, <1>8, <1>9 DEF d, n, e, x

LEMMA RoundType ==
  ASSUME NEW b \in Seq(Byte), NEW cap \in Nat, NEW p \in 1..(Len(b) + 1), NEW out \in Seq(Byte),
         NEW rest, GoesOn(b, p) => rest[NextAt(b, p) + 2] \in [Seq(Byte) -> Verdicts]
  PROVE  ChunkRound(b, cap, p, out, rest) \in Verdicts
<1> DEFINE n == SizeAt(b, p)
           e == SizeLineEnd(b, p)
           x == NextAt(b, p)
           all == out \o DataAt(b, p)
<1>1. /\ CrlfAt(b, e) \in {"more", "yes", "no"} /\ CrlfAt(b, x) \in {"more", "yes", "no"}
      /\ CrlfAt(b, e) = "yes" => e + 2 \in 1..(Len(b) + 1)
      /\ x <= Len(b) + 1 => DataAt(b, p) \in Seq(Byte)
      /\ x \in Nat
  <2>1. /\ CrlfAt(b, e) \in {"more", "yes", "no"} /\ CrlfAt(b, x) \in {"more", "yes", "no"}
        /\ CrlfAt(b, e) = "yes" => e + 2 \in (p + 1)..(Len(b) + 1)
        /\ x <= Len(b) + 1 => DataAt(b, p) \in Seq(Byte)
        /\ x \in Nat \ {0}
    BY RoundFacts, Zenon
  <2> HIDE DEF e, x
  <2> QED BY <2>1
<1>2. x <= Len(b) + 1 => all \in Seq(Byte)
  BY <1>1
<1>3. CrlfAt(b, e) = "yes" => Trailers(b)[e + 2] \in {-1, 0, 1}
  BY <1>1, TrailersType
<1>4. ChunkRound(b, cap, p, out, rest)
        = IF SizeEnd(b, p) = p THEN [rc |-> IF p > Len(b) THEN 0 ELSE -1, out |-> out]
          ELSE IF CrlfAt(b, e) = "more" THEN [rc |-> 0, out |-> out]
          ELSE IF CrlfAt(b, e) = "no" THEN [rc |-> -1, out |-> out]
          ELSE IF n = 0 THEN [rc |-> Trailers(b)[e + 2], out |-> out]
          ELSE IF x > Len(b) + 1 THEN [rc |-> 0, out |-> out]
          ELSE IF ~Fits(n, out, cap) THEN [rc |-> -2, out |-> out]
          ELSE IF CrlfAt(b, x) = "more" THEN [rc |-> 0, out |-> all]
          ELSE IF CrlfAt(b, x) = "no" THEN [rc |-> -1, out |-> all]
          ELSE rest[x + 2][all]
  BY Zenon DEF ChunkRound, NextAt, DataAt
<1>5. GoesOn(b, p) <=> SizeEnd(b, p) # p /\ CrlfAt(b, e) = "yes" /\ n # 0 /\ CrlfAt(b, x) = "yes"
  BY DEF GoesOn
<1>6. \A rc \in {-2, -1, 0, 1}, data \in Seq(Byte) : [rc |-> rc, out |-> data] \in Verdicts
  BY DEF Verdicts
<1>7. x > Len(b) + 1 \/ x <= Len(b) + 1
  BY <1>1
<1> HIDE DEF n, e, x, all
<1>8. CASE GoesOn(b, p) /\ x <= Len(b) + 1 /\ Fits(n, out, cap)
  <2>1. rest[x + 2][all] \in Verdicts
    BY <1>2, <1>8 DEF x
  <2>2. ~(x > Len(b) + 1)
    BY <1>1, <1>8
  <2> QED BY <1>4, <1>5, <1>8, <2>1, <2>2
<1>9. CASE ~(GoesOn(b, p) /\ x <= Len(b) + 1 /\ Fits(n, out, cap))
  BY <1>1, <1>2, <1>3, <1>4, <1>5, <1>6, <1>7, <1>9
<1> QED BY <1>8, <1>9

LEMMA ChunksUnfold ==
  ASSUME NEW b \in Seq(Byte), NEW cap \in Nat
  PROVE  /\ Chunks(b, cap) \in [1..(Len(b) + 1) -> [Seq(Byte) -> Verdicts]]
         /\ \A p \in 1..(Len(b) + 1), out \in Seq(Byte) :
              Chunks(b, cap)[p][out] = ChunkRound(b, cap, p, out, Chunks(b, cap))
<1> DEFINE n == Len(b) + 1
           Is(f) == f = [q \in 1..n |-> [out \in Seq(Byte) |-> ChunkRound(b, cap, q, out, f)]]
           V == [Seq(Byte) -> Verdicts]
           At(q, v) == [out \in Seq(Byte) |-> ChunkRound(b, cap, q, out, [r \in Nat |-> v])]
           none == [out \in Seq(Byte) |-> [rc |-> 0, out |-> <<>>]]
           jump == [q \in 1..n |-> IF GoesOn(b, q) THEN NextAt(b, q) + 2 ELSE 0]
           step == [q \in 1..n |-> [v \in V |-> At(q, v)]]
           last == [q \in 1..n |-> At(q, none)]
<1>1. n \in Nat
  OBVIOUS
<1>2. ASSUME NEW q \in 1..n
      PROVE  NextAt(b, q) + 2 \in Nat /\ (GoesOn(b, q) => NextAt(b, q) + 2 \in (q + 1)..n)
  <2>1. /\ NextAt(b, q) \in Nat \ {0}
        /\ CrlfAt(b, NextAt(b, q)) = "yes" => NextAt(b, q) + 2 \in (q + 1)..n
    BY RoundFacts, Zenon
  <2> QED BY <2>1 DEF GoesOn
<1>3. none \in V
  BY DEF Verdicts
<1> HIDE DEF none
<1>4. ASSUME NEW q \in 1..n, NEW v \in V PROVE At(q, v) \in V
  <2>1. ASSUME NEW out \in Seq(Byte) PROVE ChunkRound(b, cap, q, out, [r \in Nat |-> v]) \in Verdicts
    <3> DEFINE rest == [r \in Nat |-> v]
    <3>1. rest[NextAt(b, q) + 2] \in [Seq(Byte) -> Verdicts]
      BY <1>2
    <3> HIDE DEF rest
    <3>2. ChunkRound(b, cap, q, out, rest) \in Verdicts
      BY <3>1, RoundType
    <3> QED BY <3>2 DEF rest
  <2> QED BY <2>1
<1>5. /\ jump \in [1..n -> Nat] /\ step \in [1..n -> [V -> V]] /\ last \in [1..n -> V]
  <2>1. \A q \in 1..n : jump[q] \in Nat
    <3> HIDE DEF n
    <3> QED BY <1>1, <1>2
  <2> HIDE DEF n, V, At
  <2> QED BY <1>3, <1>4, <2>1
<1>6. PICK w : Walk(w, n, V, jump, step, last)
  <2> HIDE DEF n, V, jump, step, last
  <2> QED BY <1>1, <1>5, WalkExists, Zenon
<1>7. /\ w \in [1..n -> V]
      /\ \A q \in 1..n :
        w[q] = IF jump[q] \in (q + 1)..n THEN step[q][w[jump[q]]] ELSE last[q]
  BY <1>6, Zenon DEF Walk
<1>8. ASSUME NEW q \in 1..n PROVE w[q] = [out \in Seq(Byte) |-> ChunkRound(b, cap, q, out, w)]
  <2>1. CASE GoesOn(b, q)
    <3>1. jump[q] = NextAt(b, q) + 2 /\ jump[q] \in (q + 1)..n /\ jump[q] \in 1..n
      BY <1>2, <2>1
    <3>2. w[NextAt(b, q) + 2] \in V
      BY <1>7, <3>1
    <3>3. w[q] = At(q, w[NextAt(b, q) + 2])
      <4> HIDE DEF At, V
      <4> QED BY <1>7, <3>1, <3>2, Zenon
    <3>4. ASSUME NEW out \in Seq(Byte)
          PROVE  ChunkRound(b, cap, q, out, [r \in Nat |-> w[NextAt(b, q) + 2]])
                   = ChunkRound(b, cap, q, out, w)
      <4> DEFINE rest == [r \in Nat |-> w[NextAt(b, q) + 2]]
      <4>1. rest[NextAt(b, q) + 2] = w[NextAt(b, q) + 2]
        BY <1>2
      <4> HIDE DEF rest
      <4>2. ChunkRound(b, cap, q, out, rest) = ChunkRound(b, cap, q, out, w)
        BY <4>1, Zenon DEF ChunkRound, NextAt
      <4> QED BY <4>2 DEF rest
    <3> QED BY <3>3, <3>4, Zenon
  <2>2. CASE ~GoesOn(b, q)
    <3>1. ~(jump[q] \in (q + 1)..n)
      BY <2>2
    <3>2. w[q] = At(q, none)
      <4> HIDE DEF At
      <4> QED BY <1>7, <3>1, Zenon
    <3>3. ASSUME NEW out \in Seq(Byte)
          PROVE  ChunkRound(b, cap, q, out, [r \in Nat |-> none]) = ChunkRound(b, cap, q, out, w)
      <4> DEFINE rest == [r \in Nat |-> none]
      <4> HIDE DEF rest
      <4>1. /\ CrlfAt(b, SizeLineEnd(b, q)) \in {"more", "yes", "no"}
            /\ CrlfAt(b, NextAt(b, q)) \in {"more", "yes", "no"}
        BY RoundFacts
      <4>2. ChunkRound(b, cap, q, out, rest) = ChunkRound(b, cap, q, out, w)
        BY <2>2, <4>1, Zenon DEF ChunkRound, NextAt, GoesOn
      <4> QED BY <4>2 DEF rest
    <3> QED BY <3>2, <3>3
  <2> QED BY <2>1, <2>2
<1>9. Is(w)
  <2> HIDE DEF n, V
  <2> QED BY <1>7, <1>8
<1>10. Chunks(b, cap) = CHOOSE f : Is(f)
  BY Zenon DEF Chunks, ChunkRound
<1>11. Is(Chunks(b, cap))
  <2> HIDE DEF Is
  <2> QED BY <1>9, <1>10, Zenon
<1> DEFINE c == Chunks(b, cap)
           T == {q \in 1..n : c[q] \in V}
<1>12. /\ c = [q \in 1..n |-> c[q]]
       /\ \A q \in 1..n : c[q] = [out \in Seq(Byte) |-> ChunkRound(b, cap, q, out, c)]
  <2> HIDE DEF c, n
  <2> QED BY <1>11, Zenon DEF c
<1> HIDE DEF c
<1>13. ASSUME NEW q \in 1..n, \A r \in (q + 1)..n : r \in T PROVE q \in T
  <2>1. GoesOn(b, q) => c[NextAt(b, q) + 2] \in [Seq(Byte) -> Verdicts]
    BY <1>2, <1>13
  <2>2. \A out \in Seq(Byte) : ChunkRound(b, cap, q, out, c) \in Verdicts
    BY <2>1, RoundType
  <2>3. c[q] \in V
    BY <1>12, <2>2, Zenon
  <2> QED BY <2>3
<1>14. 1..n \subseteq T
  <2> HIDE DEF T, n
  <2> QED BY <1>1, <1>13, DownInduction, Zenon
<1>15. c \in [1..n -> V]
  <2> HIDE DEF n, V
  <2> QED BY <1>12, <1>14
<1> QED BY <1>12, <1>15 DEF c

LEMMA SectionUnfold ==
  ASSUME NEW b \in Seq(Byte), NEW p \in 1..(Len(b) + 1)
  PROVE  TrailerSection(b)[p] = (/\ CrlfAt(b, LineEnd(b, p)) = "yes"
                                 /\ IF LineEnd(b, p) = p THEN LineEnd(b, p) + 1 = Len(b)
                                    ELSE TrailerSection(b)[LineEnd(b, p) + 2])
<1> DEFINE n == Len(b) + 1
           Body(f, q) == /\ CrlfAt(b, LineEnd(b, q)) = "yes"
                         /\ IF LineEnd(b, q) = q THEN LineEnd(b, q) + 1 = Len(b)
                            ELSE f[LineEnd(b, q) + 2]
           Is(f) == f = [q \in 1..n |-> Body(f, q)]
           V == BOOLEAN
           Stop(q) == /\ CrlfAt(b, LineEnd(b, q)) = "yes"
                      /\ LineEnd(b, q) = q /\ LineEnd(b, q) + 1 = Len(b)
           Goes(q) == CrlfAt(b, LineEnd(b, q)) = "yes" /\ LineEnd(b, q) # q
           jump == [q \in 1..n |-> IF Goes(q) THEN LineEnd(b, q) + 2 ELSE 0]
           step == [q \in 1..n |-> [v \in V |-> v]]
           last == [q \in 1..n |-> Stop(q)]
<1>1. n \in Nat
  OBVIOUS
<1>2. ASSUME NEW q \in 1..n
      PROVE  /\ LineEnd(b, q) \in q..n
             /\ Goes(q) => LineEnd(b, q) + 2 \in (q + 1)..n
  <2>1. LineEnd(b, q) \in q..n
    BY LineFacts
  <2>2. LineEnd(b, q) \in Nat \ {0}
    BY <2>1
  <2>3. CrlfAt(b, LineEnd(b, q)) = "yes" => LineEnd(b, q) + 1 <= Len(b)
    BY <2>2, CrlfFacts
  <2> QED BY <2>1, <2>3
<1>3. /\ jump \in [1..n -> Nat] /\ step \in [1..n -> [V -> V]] /\ last \in [1..n -> V]
  <2>1. \A q \in 1..n : jump[q] \in Nat
    <3> HIDE DEF n
    <3> QED BY <1>1, <1>2
  <2>2. \A q \in 1..n : Stop(q) \in V
    BY Zenon
  <2> HIDE DEF Goes, Stop, n, V
  <2> QED BY <2>1, <2>2
<1>4. PICK w : Walk(w, n, V, jump, step, last)
  <2> HIDE DEF n, V, jump, step, last
  <2> QED BY <1>1, <1>3, WalkExists, Zenon
<1>5. /\ w \in [1..n -> V]
      /\ \A q \in 1..n :
        w[q] = IF jump[q] \in (q + 1)..n THEN step[q][w[jump[q]]] ELSE last[q]
  BY <1>4, Zenon DEF Walk
<1>6. ASSUME NEW q \in 1..n PROVE w[q] = Body(w, q)
  <2>1. CASE Goes(q)
    <3>1. jump[q] = LineEnd(b, q) + 2 /\ jump[q] \in (q + 1)..n /\ jump[q] \in 1..n
      BY <1>2, <2>1
    <3>2. w[jump[q]] \in V
      BY <1>5, <3>1
    <3>3. w[q] = w[LineEnd(b, q) + 2]
      <4> HIDE DEF V
      <4> QED BY <1>5, <3>1, <3>2, Zenon
    <3>4. w[LineEnd(b, q) + 2] \in BOOLEAN
      BY <3>1, <3>2
    <3> QED BY <2>1, <3>3, <3>4, Zenon
  <2>2. CASE ~Goes(q)
    <3>1. ~(jump[q] \in (q + 1)..n)
      BY <2>2
    <3>2. w[q] = Stop(q)
      BY <1>5, <3>1, Zenon
    <3>3. Stop(q) = Body(w, q)
      BY <2>2, Zenon
    <3> QED BY <3>2, <3>3
  <2> QED BY <2>1, <2>2, Zenon
<1>7. Is(w)
  <2> HIDE DEF Body, n
  <2> QED BY <1>5, <1>6
<1>8. TrailerSection(b) = CHOOSE f : Is(f)
  BY Zenon DEF TrailerSection
<1>9. Is(TrailerSection(b))
  <2> HIDE DEF Is
  <2> QED BY <1>7, <1>8, Zenon
<1>10. TrailerSection(b)[p] = Body(TrailerSection(b), p)
  <2> HIDE DEF Body
  <2> QED BY <1>9, Zenon
<1> QED BY <1>10

LEMMA BodyUnfold ==
  ASSUME NEW b \in Seq(Byte)
  PROVE  \A p \in 1..(Len(b) + 1) :
           /\ ChunkedBody(b)[p] \in SUBSET Seq(Byte)
           /\ ChunkedBody(b)[p]
                = IF SizeEnd(b, p) = p \/ CrlfAt(b, SizeLineEnd(b, p)) # "yes" THEN {}
                  ELSE IF SizeAt(b, p) = 0
                    THEN IF TrailerSection(b)[SizeLineEnd(b, p) + 2] THEN {<<>>} ELSE {}
                  ELSE IF CrlfAt(b, NextAt(b, p)) # "yes" THEN {}
                  ELSE {DataAt(b, p) \o rest : rest \in ChunkedBody(b)[NextAt(b, p) + 2]}
<1> DEFINE n == Len(b) + 1
           Stop(q) == IF SizeEnd(b, q) # q /\ CrlfAt(b, SizeLineEnd(b, q)) = "yes" /\ SizeAt(b, q) = 0
                         /\ TrailerSection(b)[SizeLineEnd(b, q) + 2]
                        THEN {<<>>} ELSE {}
           Before(q, v) == {DataAt(b, q) \o rest : rest \in v}
           Body(f, q) == IF SizeEnd(b, q) = q \/ CrlfAt(b, SizeLineEnd(b, q)) # "yes" THEN {}
                         ELSE IF SizeAt(b, q) = 0
                           THEN IF TrailerSection(b)[SizeLineEnd(b, q) + 2] THEN {<<>>} ELSE {}
                         ELSE IF CrlfAt(b, NextAt(b, q)) # "yes" THEN {}
                         ELSE Before(q, f[NextAt(b, q) + 2])
           Is(f) == f = [q \in 1..n |-> Body(f, q)]
           V == SUBSET Seq(Byte)
           jump == [q \in 1..n |-> IF GoesOn(b, q) THEN NextAt(b, q) + 2 ELSE 0]
           step == [q \in 1..n |-> [v \in V |-> IF GoesOn(b, q) THEN Before(q, v) ELSE {}]]
           last == [q \in 1..n |-> Stop(q)]
<1>1. n \in Nat
  OBVIOUS
<1>2. ASSUME NEW q \in 1..n
      PROVE  /\ NextAt(b, q) + 2 \in Nat
             /\ GoesOn(b, q) => NextAt(b, q) + 2 \in (q + 1)..n /\ DataAt(b, q) \in Seq(Byte)
  <2>1. /\ NextAt(b, q) \in Nat \ {0}
        /\ CrlfAt(b, NextAt(b, q)) = "yes" => NextAt(b, q) + 2 \in (q + 1)..n
        /\ NextAt(b, q) <= n => DataAt(b, q) \in Seq(Byte)
    BY RoundFacts, Zenon
  <2> QED BY <2>1 DEF GoesOn
<1>3. ASSUME NEW q \in 1..n, NEW v \in V, GoesOn(b, q) PROVE Before(q, v) \in V
  <2>1. DataAt(b, q) \in Seq(Byte)
    BY <1>2, <1>3
  <2>2. \A rest \in v : DataAt(b, q) \o rest \in Seq(Byte)
    BY <2>1
  <2> QED BY <2>2, Zenon
<1>4. ASSUME NEW q \in 1..n PROVE Stop(q) \in V
  <2>1. {<<>>} \in V /\ {} \in V
    OBVIOUS
  <2> QED BY <2>1
<1>5. /\ jump \in [1..n -> Nat] /\ step \in [1..n -> [V -> V]] /\ last \in [1..n -> V]
  <2>1. \A q \in 1..n : jump[q] \in Nat
    <3> HIDE DEF n
    <3> QED BY <1>1, <1>2
  <2>2. {} \in V
    OBVIOUS
  <2> HIDE DEF n, V, Before, Stop
  <2> QED BY <1>3, <1>4, <2>1, <2>2
<1>6. PICK w : Walk(w, n, V, jump, step, last)
  <2> HIDE DEF n, V, jump, step, last
  <2> QED BY <1>1, <1>5, WalkExists, Zenon
<1>7. /\ w \in [1..n -> V]
      /\ \A q \in 1..n :
        w[q] = IF jump[q] \in (q + 1)..n THEN step[q][w[jump[q]]] ELSE last[q]
  BY <1>6, Zenon DEF Walk
<1>8. ASSUME NEW q \in 1..n PROVE w[q] = Body(w, q)
  <2>1. CASE GoesOn(b, q)
    <3>1. jump[q] = NextAt(b, q) + 2 /\ jump[q] \in (q + 1)..n /\ jump[q] \in 1..n
      BY <1>2, <2>1
    <3>2. w[NextAt(b, q) + 2] \in V
      BY <1>7, <3>1
    <3>3. w[q] = Before(q, w[NextAt(b, q) + 2])
      <4> HIDE DEF Before, V
      <4> QED BY <1>7, <2>1, <3>1, <3>2, Zenon
    <3> HIDE DEF Before
    <3> QED BY <2>1, <3>3 DEF GoesOn
  <2>2. CASE ~GoesOn(b, q)
    <3>1. ~(jump[q] \in (q + 1)..n)
      BY <2>2
    <3>2. w[q] = Stop(q)
      <4> HIDE DEF Stop
      <4> QED BY <1>7, <3>1, Zenon
    <3>3. Stop(q) = Body(w, q)
      <4> HIDE DEF Before
      <4> QED BY <2>2, Zenon DEF GoesOn
    <3> QED BY <3>2, <3>3
  <2> QED BY <2>1, <2>2
<1>9. Is(w)
  <2> HIDE DEF n, V, Body
  <2> QED BY <1>7, <1>8
<1>10. ChunkedBody(b) = CHOOSE f : Is(f)
  BY Zenon DEF ChunkedBody, NextAt, DataAt
<1>11. Is(ChunkedBody(b))
  <2> HIDE DEF Is
  <2> QED BY <1>9, <1>10, Zenon
<1> DEFINE c == ChunkedBody(b)
           T == {q \in 1..n : c[q] \in V}
<1>12. \A q \in 1..n : c[q] = Body(c, q)
  <2> HIDE DEF Body, n
  <2> QED BY <1>11, Zenon DEF c
<1> HIDE DEF c
<1>13. ASSUME NEW q \in 1..n, \A r \in (q + 1)..n : r \in T PROVE q \in T
  <2>1. GoesOn(b, q) => c[NextAt(b, q) + 2] \in V
    BY <1>2, <1>13
  <2>2. GoesOn(b, q) => Before(q, c[NextAt(b, q) + 2]) \in V
    <3> HIDE DEF Before, V
    <3> QED BY <1>3, <2>1
  <2>3. {<<>>} \in V /\ {} \in V
    OBVIOUS
  <2>4. c[q] \in V
    <3>1. c[q] = Body(c, q)
      BY <1>12, Zenon
    <3> HIDE DEF Before, V
    <3> QED BY <2>2, <2>3, <3>1 DEF GoesOn
  <2> QED BY <2>4
<1>14. 1..n \subseteq T
  <2> HIDE DEF T, n
  <2> QED BY <1>1, <1>13, DownInduction, Zenon
<1> QED BY <1>12, <1>14, Zenon DEF c

-----------------------------------------------------------------------------
(* What the strict decoder makes of the beginning of a chunked body.        *)

LEMMA DataBegins ==
  ASSUME NEW b, NEW c, Begins(b, c), NEW i \in 1..(Len(b) + 1), NEW j \in Int, j <= Len(b)
  PROVE  SubSeq(b, i, j) = SubSeq(c, i, j)
<1>1. /\ b \in Seq(Byte) /\ c \in Seq(Byte) /\ Len(b) \in Nat /\ Len(c) \in Nat
      /\ Len(b) <= Len(c) /\ \A k \in 1..Len(b) : b[k] = c[k]
  BY DEF Begins
<1> DEFINE n == IF i <= j THEN j - i + 1 ELSE 0
           s == SubSeq(b, i, j)
           t == SubSeq(c, i, j)
<1>2. s \in Seq(Byte) /\ Len(s) = n /\ \A k \in 1..n : s[k] = b[i + k - 1]
  BY <1>1
<1>3. t \in Seq(Byte) /\ Len(t) = n /\ \A k \in 1..n : t[k] = c[i + k - 1]
  BY <1>1
<1> HIDE DEF s, t
<1>4. ASSUME NEW k \in 1..n PROVE s[k] = t[k]
  <2>1. i + k - 1 \in 1..Len(b)
    BY <1>1
  <2>2. b[i + k - 1] = c[i + k - 1]
    BY <1>1, <2>1
  <2> HIDE DEF n
  <2> QED BY <1>2, <1>3, <2>2
<1>5. s = t
  <2> HIDE DEF n
  <2> QED BY <1>2, <1>3, <1>4
<1> QED BY <1>5 DEF s, t

LEMMA RoundBegins ==
  ASSUME NEW b, NEW c, Begins(b, c), NEW p \in 1..(Len(b) + 1)
  PROVE  /\ SizeLineEnd(c, p) + 1 > Len(b) => CrlfAt(b, SizeLineEnd(b, p)) = "more"
         /\ SizeLineEnd(c, p) + 1 <= Len(b) =>
              /\ SizeEnd(b, p) = SizeEnd(c, p) /\ SizeAt(b, p) = SizeAt(c, p)
              /\ SizeLineEnd(b, p) = SizeLineEnd(c, p)
              /\ CrlfAt(b, SizeLineEnd(c, p)) = CrlfAt(c, SizeLineEnd(c, p))
              /\ NextAt(b, p) = NextAt(c, p)
              /\ NextAt(c, p) + 1 <= Len(b) => CrlfAt(b, NextAt(c, p)) = CrlfAt(c, NextAt(c, p))
              /\ NextAt(c, p) <= Len(b) + 1 => DataAt(b, p) = DataAt(c, p)
<1> DEFINE d == SizeEnd(c, p)
           e == SizeLineEnd(c, p)
           x == NextAt(c, p)
<1>1. /\ b \in Seq(Byte) /\ c \in Seq(Byte) /\ Len(b) \in Nat /\ Len(c) \in Nat
      /\ Len(b) <= Len(c) /\ p \in 1..(Len(c) + 1)
  BY DEF Begins
<1>2. d \in p..(Len(c) + 1) /\ e \in d..(Len(c) + 1) /\ SizeAt(c, p) \in Nat
      /\ x = e + 2 + SizeAt(c, p)
  BY <1>1, SizeFacts DEF NextAt
<1>3. /\ SizeEnd(b, p) = IF d <= Len(b) THEN d ELSE Len(b) + 1
      /\ SizeLineEnd(b, p) = IF e <= Len(b) THEN e ELSE Len(b) + 1
      /\ e <= Len(b) => SizeAt(b, p) = SizeAt(c, p)
  BY SizeBegins
<1>4. x = SizeLineEnd(c, p) + 2 + SizeAt(c, p) /\ NextAt(b, p) = SizeLineEnd(b, p) + 2 + SizeAt(b, p)
  BY DEF NextAt
<1>5. /\ DataAt(b, p) = SubSeq(b, SizeLineEnd(b, p) + 2, NextAt(b, p) - 1)
      /\ DataAt(c, p) = SubSeq(c, e + 2, x - 1)
  BY DEF DataAt
<1> HIDE DEF d, e, x
<1>6. ASSUME e + 1 > Len(b) PROVE CrlfAt(b, SizeLineEnd(b, p)) = "more"
  <2>1. SizeLineEnd(b, p) \in Nat \ {0} /\ SizeLineEnd(b, p) + 1 > Len(b)
    BY <1>1, <1>2, <1>3, <1>6
  <2> QED BY <1>1, <2>1, CrlfFacts
<1>7. ASSUME e + 1 <= Len(b)
      PROVE  /\ SizeEnd(b, p) = d /\ SizeAt(b, p) = SizeAt(c, p) /\ SizeLineEnd(b, p) = e
             /\ CrlfAt(b, e) = CrlfAt(c, e) /\ NextAt(b, p) = x
             /\ x + 1 <= Len(b) => CrlfAt(b, x) = CrlfAt(c, x)
             /\ x <= Len(b) + 1 => DataAt(b, p) = DataAt(c, p)
  <2>1. SizeEnd(b, p) = d /\ SizeAt(b, p) = SizeAt(c, p) /\ SizeLineEnd(b, p) = e
    BY <1>1, <1>2, <1>3, <1>7
  <2>2. e \in Nat \ {0} /\ ~(e + 1 > Len(b)) /\ x \in Nat \ {0}
    BY <1>1, <1>2, <1>7
  <2>3. CrlfAt(b, e) = CrlfAt(c, e)
    BY <2>2, CrlfBegins
  <2>4. NextAt(b, p) = x
    BY <1>4, <2>1 DEF e
  <2>5. x + 1 <= Len(b) => CrlfAt(b, x) = CrlfAt(c, x)
    <3>1. x + 1 <= Len(b) => ~(x + 1 > Len(b))
      BY <1>1, <2>2
    <3> QED BY <2>2, <3>1, CrlfBegins
  <2>6. ASSUME x <= Len(b) + 1 PROVE DataAt(b, p) = DataAt(c, p)
    <3>1. e + 2 \in 1..(Len(b) + 1) /\ x - 1 \in Int /\ x - 1 <= Len(b)
      BY <1>1, <1>7, <2>2, <2>6
    <3>2. SubSeq(b, e + 2, x - 1) = SubSeq(c, e + 2, x - 1)
      BY <3>1, DataBegins, Zenon
    <3> QED BY <1>5, <2>1, <2>4, <3>2, Zenon
  <2> QED BY <2>1, <2>3, <2>4, <2>5, <2>6
<1> QED BY <1>6, <1>7 DEF d, e, x

LEMMA TrailersOfWhole ==
  ASSUME NEW b, NEW c, Begins(b, c), NEW p \in 1..(Len(b) + 1), TrailerSection(c)[p]
  PROVE  Trailers(b)[p] = IF Len(b) = Len(c) THEN 1 ELSE 0
<1> DEFINE n == Len(b) + 1
           T == {q \in 1..n : TrailerSection(c)[q] =>
                                Trailers(b)[q] = IF Len(b) = Len(c) THEN 1 ELSE 0}
<1>1. /\ b \in Seq(Byte) /\ c \in Seq(Byte) /\ Len(b) \in Nat /\ Len(c) \in Nat
      /\ Len(b) <= Len(c) /\ n \in Nat
  BY DEF Begins
<1>2. ASSUME NEW q \in 1..n, \A r \in (q + 1)..n : r \in T PROVE q \in T
  <2> SUFFICES ASSUME TrailerSection(c)[q]
               PROVE  Trailers(b)[q] = IF Len(b) = Len(c) THEN 1 ELSE 0
    OBVIOUS
  <2> DEFINE e == LineEnd(c, q)
  <2>1. q \in 1..(Len(c) + 1)
    BY <1>1
  <2>2. CrlfAt(c, e) = "yes" /\ IF e = q THEN e + 1 = Len(c) ELSE TrailerSection(c)[e + 2]
    BY <1>1, <2>1, SectionUnfold, Zenon
  <2>3. e \in q..(Len(c) + 1)
    BY <1>1, <2>1, LineFacts
  <2>4. LineEnd(b, q) = IF e <= Len(b) THEN e ELSE Len(b) + 1
    BY SkipBegins DEF LineEnd
  <2>5. Trailers(b)[q] = IF CrlfAt(b, LineEnd(b, q)) = "more" THEN 0
                         ELSE IF CrlfAt(b, LineEnd(b, q)) = "no" THEN -1
                         ELSE IF LineEnd(b, q) = q THEN 1
                         ELSE Trailers(b)[LineEnd(b, q) + 2]
    BY <1>1, TrailersUnfold
  <2> HIDE DEF e
  <2>6. e \in Nat \ {0} /\ e + 1 <= Len(c)
    <3>1. e \in Nat \ {0}
      BY <2>3
    <3> QED BY <1>1, <2>2, <3>1, CrlfFacts
  <2>7. CASE e + 1 > Len(b)
    <3>1. LineEnd(b, q) \in Nat \ {0} /\ LineEnd(b, q) + 1 > Len(b)
      BY <1>1, <2>4, <2>6, <2>7
    <3>2. CrlfAt(b, LineEnd(b, q)) = "more"
      BY <1>1, <3>1, CrlfFacts
    <3>3. Len(b) # Len(c)
      BY <1>1, <2>6, <2>7
    <3> QED BY <2>5, <3>2, <3>3
  <2>8. CASE ~(e + 1 > Len(b))
    <3>1. LineEnd(b, q) = e
      BY <1>1, <2>4, <2>6, <2>8
    <3>2. CrlfAt(b, e) = "yes"
      BY <2>2, <2>6, <2>8, CrlfBegins
    <3>3. CASE e = q
      <4>1. Len(b) = Len(c)
        BY <1>1, <2>2, <2>6, <2>8, <3>3
      <4> QED BY <2>5, <3>1, <3>2, <3>3, <4>1
    <3>4. CASE e # q
      <4>1. e + 2 \in (q + 1)..n
        BY <1>1, <2>3, <2>6, <2>8
      <4>2. Trailers(b)[e + 2] = IF Len(b) = Len(c) THEN 1 ELSE 0
        BY <1>2, <2>2, <3>4, <4>1
      <4> QED BY <2>5, <3>1, <3>2, <3>4, <4>2
    <3> QED BY <3>3, <3>4
  <2> QED BY <2>7, <2>8
<1>3. 1..n \subseteq T
  <2> HIDE DEF T, n
  <2> QED BY <1>1, <1>2, DownInduction, Zenon
<1> QED BY <1>3

LEMMA Joined ==
  ASSUME NEW s \in Seq(Byte), NEW t \in Seq(Byte)
  PROVE  s \o t \in Seq(Byte) /\ Len(s \o t) = Len(s) + Len(t)
OBVIOUS

LEMMA JoinedTwice ==
  ASSUME NEW r \in Seq(Byte), NEW s \in Seq(Byte), NEW t \in Seq(Byte)
  PROVE  (r \o s) \o t = r \o (s \o t)
OBVIOUS

\* What the decoder may return for the beginning b of a body c with payload z.
Decoded(b, c, cap, out, z, v) ==
  \/ v.rc = 0 /\ Len(b) # Len(c)
  \/ v.rc = -2 /\ cap # 0 /\ Len(out) + Len(z) >= cap
  \/ /\ v.rc = 1 /\ Len(b) = Len(c) /\ v.out = out \o z
     /\ cap = 0 \/ Len(out) + Len(z) < cap

LEMMA ChunksOfWhole ==
  ASSUME NEW b, NEW c, Begins(b, c), NEW cap \in Nat
  PROVE  \A p \in 1..(Len(b) + 1), out \in Seq(Byte) : \A z \in ChunkedBody(c)[p] :
           cap = 0 \/ Len(out) < cap => Decoded(b, c, cap, out, z, Chunks(b, cap)[p][out])
<1> DEFINE n == Len(b) + 1
           T == {q \in 1..n : \A out \in Seq(Byte) : \A z \in ChunkedBody(c)[q] :
                   cap = 0 \/ Len(out) < cap => Decoded(b, c, cap, out, z, Chunks(b, cap)[q][out])}
<1>1. /\ b \in Seq(Byte) /\ c \in Seq(Byte) /\ Len(b) \in Nat /\ Len(c) \in Nat
      /\ Len(b) <= Len(c) /\ n \in Nat
  BY DEF Begins
<1>2. ASSUME NEW q \in 1..n, \A r \in (q + 1)..n : r \in T PROVE q \in T
  <2> SUFFICES ASSUME NEW out \in Seq(Byte), NEW z \in ChunkedBody(c)[q], cap = 0 \/ Len(out) < cap
               PROVE  Decoded(b, c, cap, out, z, Chunks(b, cap)[q][out])
    OBVIOUS
  <2> DEFINE v == Chunks(b, cap)[q][out]
             e == SizeLineEnd(c, q)
             m == SizeAt(c, q)
             x == NextAt(c, q)
             data == DataAt(c, q)
  <2>1. q \in 1..(Len(c) + 1)
    BY <1>1
  <2>2. /\ SizeEnd(c, q) # q /\ CrlfAt(c, e) = "yes"
        /\ m = 0 => TrailerSection(c)[e + 2] /\ z = <<>>
        /\ m # 0 => /\ CrlfAt(c, x) = "yes"
                    /\ \E rest \in ChunkedBody(c)[x + 2] : z = data \o rest
    <3>1. ChunkedBody(c)[q]
            = IF SizeEnd(c, q) = q \/ CrlfAt(c, e) # "yes" THEN {}
              ELSE IF m = 0 THEN IF TrailerSection(c)[e + 2] THEN {<<>>} ELSE {}
              ELSE IF CrlfAt(c, x) # "yes" THEN {}
              ELSE {data \o rest : rest \in ChunkedBody(c)[x + 2]}
      BY <1>1, <2>1, BodyUnfold, Zenon
    <3> HIDE DEF e, m, x, data
    <3> QED BY <3>1
  <2>3. /\ SizeEnd(c, q) \in q..(Len(c) + 1) /\ m \in Nat /\ e \in SizeEnd(c, q)..(Len(c) + 1)
        /\ e + 1 <= Len(c) /\ x = e + 2 + m /\ (CrlfAt(c, x) = "yes" => x + 1 <= Len(c))
        /\ x <= Len(c) + 1 => data \in Seq(Byte) /\ Len(data) = m
    <3>1. /\ SizeEnd(c, q) \in q..(Len(c) + 1) /\ m \in Nat /\ e \in SizeEnd(c, q)..(Len(c) + 1)
          /\ CrlfAt(c, e) = "yes" => e + 2 \in (q + 1)..(Len(c) + 1)
          /\ x = e + 2 + m /\ x \in Nat \ {0}
          /\ CrlfAt(c, x) = "yes" => x + 2 \in (q + 1)..(Len(c) + 1)
          /\ x <= Len(c) + 1 => data \in Seq(Byte) /\ Len(data) = m
      BY <1>1, <2>1, RoundFacts
    <3> HIDE DEF e, m, x, data
    <3> QED BY <1>1, <2>2, <3>1
  <2>4. v = ChunkRound(b, cap, q, out, Chunks(b, cap))
    BY <1>1, ChunksUnfold, Zenon
  <2>5. CASE e + 1 > Len(b)
    <3>1. CrlfAt(b, SizeLineEnd(b, q)) = "more" /\ Len(b) # Len(c)
      BY <1>1, <2>3, <2>5, RoundBegins
    <3>2. SizeEnd(b, q) = q => q > Len(b)
      BY <1>1, <2>2, SizeBegins
    <3>3. v.rc = 0
      BY <2>4, <3>1, <3>2 DEF ChunkRound
    <3> QED BY <3>1, <3>3 DEF Decoded
  <2>6. CASE e + 1 <= Len(b)
    <3>1. /\ SizeEnd(b, q) # q /\ SizeAt(b, q) = m /\ SizeLineEnd(b, q) = e
          /\ CrlfAt(b, e) = "yes" /\ NextAt(b, q) = x
          /\ x + 1 <= Len(b) => CrlfAt(b, x) = CrlfAt(c, x)
          /\ x <= Len(b) + 1 => DataAt(b, q) = data
      <4>1. /\ SizeEnd(b, q) = SizeEnd(c, q) /\ SizeAt(b, q) = m /\ SizeLineEnd(b, q) = e
            /\ CrlfAt(b, e) = CrlfAt(c, e) /\ NextAt(b, q) = x
            /\ x + 1 <= Len(b) => CrlfAt(b, x) = CrlfAt(c, x)
            /\ x <= Len(b) + 1 => DataAt(b, q) = data
        BY <2>6, RoundBegins
      <4> HIDE DEF e, m, x, data
      <4> QED BY <2>2, <4>1
    <3>2. v = IF m = 0 THEN [rc |-> Trailers(b)[e + 2], out |-> out]
              ELSE IF x > Len(b) + 1 THEN [rc |-> 0, out |-> out]
              ELSE IF ~Fits(m, out, cap) THEN [rc |-> -2, out |-> out]
              ELSE IF CrlfAt(b, x) = "more" THEN [rc |-> 0, out |-> out \o DataAt(b, q)]
              ELSE IF CrlfAt(b, x) = "no" THEN [rc |-> -1, out |-> out \o DataAt(b, q)]
              ELSE Chunks(b, cap)[x + 2][out \o DataAt(b, q)]
      <4>1. /\ SizeLineEnd(b, q) = e /\ SizeAt(b, q) = m /\ NextAt(b, q) = e + 2 + m
            /\ DataAt(b, q) = SubSeq(b, e + 2, (e + 2 + m) - 1) /\ x = e + 2 + m
        BY <2>3, <3>1 DEF DataAt
      <4> HIDE DEF e, m, x, v
      <4> QED BY <2>4, <3>1, <4>1, Zenon DEF ChunkRound
    <3> HIDE DEF v, e, m, x, data
    <3>3. ASSUME m = 0 PROVE Decoded(b, c, cap, out, z, v)
      <4>1. e + 2 \in 1..(Len(b) + 1)
        BY <1>1, <2>3, <2>6
      <4>2. Trailers(b)[e + 2] = IF Len(b) = Len(c) THEN 1 ELSE 0
        BY <2>2, <3>3, <4>1, TrailersOfWhole
      <4>3. v = [rc |-> IF Len(b) = Len(c) THEN 1 ELSE 0, out |-> out] /\ z = <<>>
        BY <2>2, <3>2, <3>3, <4>2
      <4>4. out \o <<>> = out /\ Len(out) + Len(<<>>) = Len(out)
        OBVIOUS
      <4> QED BY <4>3, <4>4 DEF Decoded
    <3>4. ASSUME m # 0 PROVE Decoded(b, c, cap, out, z, v)
      <4>1. PICK rest \in ChunkedBody(c)[x + 2] : z = data \o rest
        BY <2>2, <3>4
      <4>2. x + 1 <= Len(c) /\ x \in Nat \ {0} /\ CrlfAt(c, x) = "yes"
            /\ data \in Seq(Byte) /\ Len(data) = m
        BY <1>1, <2>2, <2>3, <3>4
      <4>3. x + 2 \in 1..(Len(c) + 1)
        BY <1>1, <4>2
      <4>4. rest \in Seq(Byte)
        BY <1>1, <4>1, <4>3, BodyUnfold, Zenon
      <4>5. z \in Seq(Byte) /\ Len(z) = m + Len(rest)
        BY <4>1, <4>2, <4>4, Joined, Zenon
      <4>6. CASE x > Len(b) + 1
        <5>1. v.rc = 0 /\ Len(b) # Len(c)
          BY <1>1, <3>2, <3>4, <4>2, <4>6
        <5> QED BY <5>1 DEF Decoded
      <4>7. CASE ~(x > Len(b) + 1) /\ ~Fits(m, out, cap)
        <5>1. v.rc = -2
          BY <3>2, <3>4, <4>7
        <5>2. cap # 0 /\ Len(out) + Len(z) >= cap
          BY <2>3, <4>4, <4>5, <4>7 DEF Fits
        <5> QED BY <5>1, <5>2 DEF Decoded
      <4>8. CASE ~(x > Len(b) + 1) /\ Fits(m, out, cap) /\ x + 1 > Len(b)
        <5>1. CrlfAt(b, x) = "more" /\ Len(b) # Len(c)
          BY <1>1, <4>2, <4>8, CrlfFacts, Zenon
        <5>2. v.rc = 0
          BY <3>2, <3>4, <4>8, <5>1
        <5> QED BY <5>1, <5>2 DEF Decoded
      <4>9. CASE Fits(m, out, cap) /\ x + 1 <= Len(b)
        <5> DEFINE all == out \o data
        <5>1. ~(x > Len(b) + 1) /\ x <= Len(b) + 1 /\ x + 2 \in (q + 1)..n /\ x + 2 \in 1..n
          BY <1>1, <2>3, <4>2, <4>9
        <5>2. v = Chunks(b, cap)[x + 2][all]
          BY <3>1, <3>2, <3>4, <4>2, <4>9, <5>1
        <5>3. all \in Seq(Byte) /\ Len(all) = Len(out) + m /\ all \o rest = out \o z
          BY <4>1, <4>2, <4>4, Joined, JoinedTwice, Zenon
        <5>4. cap = 0 \/ Len(all) < cap
          BY <2>3, <4>9, <5>3 DEF Fits
        <5> HIDE DEF all
        <5>5. Decoded(b, c, cap, all, rest, v)
          BY <1>2, <5>1, <5>2, <5>3, <5>4
        <5>6. Len(all) + Len(rest) = Len(out) + Len(z)
          BY <2>3, <4>4, <4>5, <5>3
        <5> QED BY <5>3, <5>5, <5>6 DEF Decoded
      <4>10. (x > Len(b) + 1 \/ ~(x > Len(b) + 1)) /\ (x + 1 > Len(b) \/ x + 1 <= Len(b))
        BY <1>1, <4>2
      <4> QED BY <4>6, <4>7, <4>8, <4>9, <4>10
    <3>5. Decoded(b, c, cap, out, z, v)
      BY <3>3, <3>4
    <3> QED BY <3>5 DEF v
  <2>7. e + 1 > Len(b) \/ e + 1 <= Len(b)
    BY <1>1, <2>3
  <2> QED BY <2>5, <2>6, <2>7
<1>3. 1..n \subseteq T
  <2> HIDE DEF T, n
  <2> QED BY <1>1, <1>2, DownInduction, Zenon
<1> QED BY <1>3

LEMMA TrailersSound ==
  ASSUME NEW b \in Seq(Byte), NEW p \in 1..(Len(b) + 1), Trailers(b)[p] = 1
  PROVE  \E m \in (p + 1)..Len(b) : TrailerSection(Upto(b, m))[p]
<1> DEFINE n == Len(b) + 1
           T == {q \in 1..n : Trailers(b)[q] = 1 =>
                                \E m \in (q + 1)..Len(b) : TrailerSection(Upto(b, m))[q]}
<1>1. n \in Nat /\ Len(b) \in Nat
  OBVIOUS
<1>2. ASSUME NEW q \in 1..n, \A r \in (q + 1)..n : r \in T PROVE q \in T
  <2> SUFFICES ASSUME Trailers(b)[q] = 1
               PROVE  \E m \in (q + 1)..Len(b) : TrailerSection(Upto(b, m))[q]
    OBVIOUS
  <2> DEFINE e == LineEnd(b, q)
  <2>1. e \in q..n
    BY LineFacts
  <2>2. Trailers(b)[q] = IF CrlfAt(b, e) = "more" THEN 0
                         ELSE IF CrlfAt(b, e) = "no" THEN -1
                         ELSE IF e = q THEN 1
                         ELSE Trailers(b)[e + 2]
    BY TrailersUnfold
  <2> HIDE DEF e
  <2>3. e \in Nat \ {0}
    BY <2>1
  <2>4. CrlfAt(b, e) = "yes" /\ e + 1 <= Len(b) /\ (e # q => Trailers(b)[e + 2] = 1)
    <3>1. /\ CrlfAt(b, e) \in {"more", "yes", "no"}
          /\ CrlfAt(b, e) = "yes" => e + 1 <= Len(b)
      BY <2>3, CrlfFacts
    <3> QED BY <2>2, <3>1
  <2>5. ASSUME NEW m \in (e + 1)..Len(b)
        PROVE  /\ Upto(b, m) \in Seq(Byte) /\ Len(Upto(b, m)) = m /\ q \in 1..(m + 1)
               /\ LineEnd(Upto(b, m), q) = e /\ CrlfAt(Upto(b, m), e) = "yes"
    <3> DEFINE a == Upto(b, m)
    <3>1. m \in 0..Len(b) /\ q \in 1..(m + 1)
      BY <1>1, <2>1
    <3>2. Begins(a, b) /\ Len(a) = m
      BY <3>1, UptoFacts
    <3> HIDE DEF a
    <3>3. q \in 1..(Len(a) + 1)
      BY <3>1, <3>2
    <3>4. LineEnd(a, q) = IF e <= Len(a) THEN e ELSE Len(a) + 1
      BY <3>2, <3>3, SkipBegins DEF LineEnd, e
    <3>5. e <= Len(a) /\ ~(e + 1 > Len(a))
      BY <2>3, <3>2
    <3>6. CrlfAt(a, e) = "yes"
      BY <2>3, <2>4, <3>2, <3>5, CrlfBegins
    <3>7. a \in Seq(Byte)
      BY <3>2 DEF Begins
    <3> QED BY <3>1, <3>2, <3>4, <3>5, <3>6, <3>7 DEF a
  <2>6. CASE e = q
    <3>1. e + 1 \in (e + 1)..Len(b) /\ e + 1 \in (q + 1)..Len(b)
      BY <1>1, <2>3, <2>4, <2>6
    <3> DEFINE a == Upto(b, e + 1)
    <3>2. a \in Seq(Byte) /\ Len(a) = e + 1 /\ q \in 1..(Len(a) + 1) /\ LineEnd(a, q) = e
          /\ CrlfAt(a, e) = "yes"
      BY <2>5, <3>1
    <3> HIDE DEF a
    <3>3. TrailerSection(a)[q] = (/\ CrlfAt(a, LineEnd(a, q)) = "yes"
                                  /\ IF LineEnd(a, q) = q THEN LineEnd(a, q) + 1 = Len(a)
                                     ELSE TrailerSection(a)[LineEnd(a, q) + 2])
      BY <3>2, SectionUnfold, Zenon
    <3>4. TrailerSection(a)[q]
      BY <2>6, <3>2, <3>3
    <3> QED BY <3>1, <3>4 DEF a
  <2>7. CASE e # q
    <3>1. e + 2 \in (q + 1)..n
      BY <1>1, <2>1, <2>4
    <3>2. PICK m \in ((e + 2) + 1)..Len(b) : TrailerSection(Upto(b, m))[e + 2]
      BY <1>2, <2>4, <2>7, <3>1
    <3>3. m \in (e + 1)..Len(b) /\ m \in (q + 1)..Len(b)
      BY <1>1, <2>1, <2>3
    <3> DEFINE a == Upto(b, m)
    <3>4. a \in Seq(Byte) /\ Len(a) = m /\ q \in 1..(Len(a) + 1) /\ LineEnd(a, q) = e
          /\ CrlfAt(a, e) = "yes" /\ TrailerSection(a)[e + 2]
      BY <2>5, <3>2, <3>3
    <3> HIDE DEF a
    <3>5. TrailerSection(a)[q] = (/\ CrlfAt(a, LineEnd(a, q)) = "yes"
                                  /\ IF LineEnd(a, q) = q THEN LineEnd(a, q) + 1 = Len(a)
                                     ELSE TrailerSection(a)[LineEnd(a, q) + 2])
      BY <3>4, SectionUnfold, Zenon
    <3>6. TrailerSection(a)[q]
      BY <2>7, <3>4, <3>5
    <3> QED BY <3>3, <3>6 DEF a
  <2> QED BY <2>6, <2>7
<1>3. 1..n \subseteq T
  <2> HIDE DEF T, n
  <2> QED BY <1>1, <1>2, DownInduction, Zenon
<1> QED BY <1>3

\* What the decoder calls complete starts with a whole chunked body, and it
\* returns that body's payload.
LEMMA ChunksSound ==
  ASSUME NEW b \in Seq(Byte), NEW cap \in Nat
  PROVE  \A p \in 1..(Len(b) + 1), out \in Seq(Byte) :
           Chunks(b, cap)[p][out].rc = 1 =>
             \E m \in (p + 1)..Len(b) : \E z \in ChunkedBody(Upto(b, m))[p] :
               Chunks(b, cap)[p][out].out = out \o z
<1> DEFINE n == Len(b) + 1
           Whole(q, out) == \E m \in (q + 1)..Len(b) : \E z \in ChunkedBody(Upto(b, m))[q] :
                              Chunks(b, cap)[q][out].out = out \o z
           T == {q \in 1..n : \A out \in Seq(Byte) : Chunks(b, cap)[q][out].rc = 1 => Whole(q, out)}
<1>1. n \in Nat /\ Len(b) \in Nat
  OBVIOUS
<1>2. ASSUME NEW q \in 1..n, \A r \in (q + 1)..n : r \in T PROVE q \in T
  <2> SUFFICES ASSUME NEW out \in Seq(Byte), Chunks(b, cap)[q][out].rc = 1 PROVE Whole(q, out)
    BY Zenon
  <2> DEFINE v == Chunks(b, cap)[q][out]
             e == SizeLineEnd(b, q)
             k == SizeAt(b, q)
             x == NextAt(b, q)
             data == DataAt(b, q)
  <2>1. /\ k \in Nat /\ e \in SizeEnd(b, q)..n /\ SizeEnd(b, q) \in q..n
        /\ CrlfAt(b, e) \in {"more", "yes", "no"} /\ CrlfAt(b, x) \in {"more", "yes", "no"}
        /\ x = e + 2 + k /\ x \in Nat \ {0}
        /\ CrlfAt(b, e) = "yes" => e + 2 \in (q + 1)..n
        /\ CrlfAt(b, x) = "yes" => x + 2 \in (q + 1)..n
        /\ x <= n => data \in Seq(Byte) /\ Len(data) = k
    BY RoundFacts
  <2>2. v = IF SizeEnd(b, q) = q THEN [rc |-> IF q > Len(b) THEN 0 ELSE -1, out |-> out]
            ELSE IF CrlfAt(b, e) = "more" THEN [rc |-> 0, out |-> out]
            ELSE IF CrlfAt(b, e) = "no" THEN [rc |-> -1, out |-> out]
            ELSE IF k = 0 THEN [rc |-> Trailers(b)[e + 2], out |-> out]
            ELSE IF x > Len(b) + 1 THEN [rc |-> 0, out |-> out]
            ELSE IF ~Fits(k, out, cap) THEN [rc |-> -2, out |-> out]
            ELSE IF CrlfAt(b, x) = "more" THEN [rc |-> 0, out |-> out \o data]
            ELSE IF CrlfAt(b, x) = "no" THEN [rc |-> -1, out |-> out \o data]
            ELSE Chunks(b, cap)[x + 2][out \o data]
    <3>1. v = ChunkRound(b, cap, q, out, Chunks(b, cap))
      BY ChunksUnfold
    <3> HIDE DEF v
    <3> QED BY <3>1, Zenon DEF ChunkRound, NextAt, DataAt
  <2>3. v.rc = 1
    OBVIOUS
  <2>4. ASSUME NEW m \in (e + 1)..Len(b)
        PROVE  /\ Upto(b, m) \in Seq(Byte) /\ Len(Upto(b, m)) = m /\ q \in 1..(m + 1)
               /\ SizeEnd(Upto(b, m), q) = SizeEnd(b, q) /\ SizeLineEnd(Upto(b, m), q) = e
               /\ SizeAt(Upto(b, m), q) = k /\ CrlfAt(Upto(b, m), e) = CrlfAt(b, e)
               /\ NextAt(Upto(b, m), q) = x
               /\ x + 1 <= m => CrlfAt(Upto(b, m), x) = CrlfAt(b, x) /\ DataAt(Upto(b, m), q) = data
    <3> DEFINE a == Upto(b, m)
    <3>1. m \in 0..Len(b) /\ q \in 1..(m + 1) /\ e + 1 <= m
      <4>1. q \in Nat \ {0} /\ e \in Nat /\ q <= e /\ Len(b) \in Nat
        BY <1>1, <2>1
      <4> HIDE DEF e
      <4> QED BY <4>1
    <3>2. Begins(a, b) /\ Len(a) = m
      BY <3>1, UptoFacts
    <3>3. a \in Seq(Byte)
      BY <3>2 DEF Begins
    <3> HIDE DEF a
    <3>4. q \in 1..(Len(a) + 1) /\ e + 1 <= Len(a) /\ (x + 1 <= m => x <= Len(a) + 1 /\ x + 1 <= Len(a))
      <4> HIDE DEF e, x
      <4> QED BY <2>1, <3>1, <3>2
    <3>5. /\ SizeEnd(a, q) = SizeEnd(b, q) /\ SizeAt(a, q) = SizeAt(b, q)
          /\ SizeLineEnd(a, q) = SizeLineEnd(b, q)
          /\ CrlfAt(a, e) = CrlfAt(b, e) /\ NextAt(a, q) = NextAt(b, q)
          /\ x + 1 <= Len(a) => CrlfAt(a, x) = CrlfAt(b, x)
          /\ x <= Len(a) + 1 => DataAt(a, q) = DataAt(b, q)
      BY <3>2, <3>4, RoundBegins, Zenon
    <3> QED BY <3>1, <3>2, <3>3, <3>4, <3>5, Zenon DEF a
  <2> HIDE DEF e, k, x, data, v
  <2>5. /\ SizeEnd(b, q) # q /\ CrlfAt(b, e) = "yes"
        /\ k = 0 => Trailers(b)[e + 2] = 1 /\ v.out = out
        /\ k # 0 => ~(x > Len(b) + 1) /\ CrlfAt(b, x) = "yes" /\ v = Chunks(b, cap)[x + 2][out \o data]
    <3>1. SizeEnd(b, q) # q /\ CrlfAt(b, e) = "yes"
      BY <2>1, <2>2, <2>3
    <3>2. k = 0 => Trailers(b)[e + 2] = 1 /\ v.out = out
      BY <2>2, <2>3, <3>1
    <3>3. k # 0 => ~(x > Len(b) + 1) /\ CrlfAt(b, x) = "yes" /\ v = Chunks(b, cap)[x + 2][out \o data]
      <4> DEFINE next == Chunks(b, cap)[x + 2][out \o data]
                 far == x > Len(b) + 1
      <4>1. CrlfAt(b, x) \in {"yes", "no", "more"}
        BY <2>1
      <4> HIDE DEF next, far
      <4> QED BY <2>2, <2>3, <3>1, <4>1 DEF next, far
    <3> QED BY <3>1, <3>2, <3>3
  <2>6. ASSUME k = 0
        PROVE  \E m \in (q + 1)..Len(b) : \E z \in ChunkedBody(Upto(b, m))[q] : v.out = out \o z
    <3>1. e + 2 \in 1..n
      BY <2>1, <2>5
    <3>2. PICK m \in ((e + 2) + 1)..Len(b) : TrailerSection(Upto(b, m))[e + 2]
      BY <2>5, <2>6, <3>1, TrailersSound
    <3>3. m \in (e + 1)..Len(b) /\ m \in (q + 1)..Len(b)
      BY <1>1, <2>1
    <3> DEFINE a == Upto(b, m)
    <3>4. /\ a \in Seq(Byte) /\ q \in 1..(Len(a) + 1) /\ SizeEnd(a, q) # q /\ SizeLineEnd(a, q) = e
          /\ SizeAt(a, q) = 0 /\ CrlfAt(a, e) = "yes" /\ TrailerSection(a)[e + 2]
      BY <2>4, <2>5, <2>6, <3>2, <3>3, Zenon
    <3> HIDE DEF a
    <3>5. ChunkedBody(a)[q] = {<<>>}
      BY <3>4, BodyUnfold, Zenon
    <3>6. v.out = out \o <<>>
      BY <2>5, <2>6
    <3> QED BY <3>3, <3>5, <3>6, Zenon DEF a
  <2>7. ASSUME k # 0
        PROVE  \E m \in (q + 1)..Len(b) : \E z \in ChunkedBody(Upto(b, m))[q] : v.out = out \o z
    <3> DEFINE all == out \o data
    <3>1. x + 2 \in (q + 1)..n /\ x <= n
      BY <1>1, <2>1, <2>5, <2>7
    <3>2. data \in Seq(Byte) /\ all \in Seq(Byte)
      BY <2>1, <3>1, Joined
    <3>3. Whole(x + 2, all) /\ v = Chunks(b, cap)[x + 2][all]
      <4> HIDE DEF all, Whole
      <4> QED BY <1>2, <2>3, <2>5, <2>7, <3>1, <3>2, Zenon DEF all
    <3>3a. PICK m \in ((x + 2) + 1)..Len(b) :
             \E rest \in ChunkedBody(Upto(b, m))[x + 2] : v.out = all \o rest
      BY <3>3, Zenon
    <3>4. PICK rest \in ChunkedBody(Upto(b, m))[x + 2] : v.out = all \o rest
      BY <3>3a
    <3>5. m \in (e + 1)..Len(b) /\ m \in (q + 1)..Len(b) /\ x + 1 <= m /\ x + 2 \in 1..(m + 1)
      <4>1. /\ e \in Nat /\ k \in Nat /\ x \in Nat \ {0} /\ x = e + 2 + k /\ q \in Nat /\ q <= e
            /\ Len(b) \in Nat
        BY <1>1, <2>1
      <4> QED BY <4>1
    <3> DEFINE a == Upto(b, m)
    <3>6. /\ a \in Seq(Byte) /\ Len(a) = m /\ q \in 1..(Len(a) + 1) /\ SizeEnd(a, q) # q
          /\ SizeLineEnd(a, q) = e /\ SizeAt(a, q) # 0 /\ CrlfAt(a, e) = "yes"
          /\ NextAt(a, q) = x /\ CrlfAt(a, x) = "yes" /\ DataAt(a, q) = data
      <4>1. /\ a \in Seq(Byte) /\ Len(a) = m /\ q \in 1..(m + 1)
            /\ SizeEnd(a, q) = SizeEnd(b, q) /\ SizeLineEnd(a, q) = e
            /\ SizeAt(a, q) = k /\ CrlfAt(a, e) = CrlfAt(b, e) /\ NextAt(a, q) = x
            /\ x + 1 <= m => CrlfAt(a, x) = CrlfAt(b, x) /\ DataAt(a, q) = data
        BY <2>4, <3>5, Zenon
      <4> HIDE DEF a
      <4> QED BY <2>5, <2>7, <3>5, <4>1
    <3>7. rest \in ChunkedBody(a)[x + 2]
      BY <3>4
    <3> HIDE DEF a, all
    <3>8. rest \in Seq(Byte)
      BY <3>5, <3>6, <3>7, BodyUnfold, Zenon
    <3>9. ChunkedBody(a)[q] = {data \o r : r \in ChunkedBody(a)[x + 2]}
      <4>1. ChunkedBody(a)[q]
              = IF SizeEnd(a, q) = q \/ CrlfAt(a, SizeLineEnd(a, q)) # "yes" THEN {}
                ELSE IF SizeAt(a, q) = 0
                  THEN IF TrailerSection(a)[SizeLineEnd(a, q) + 2] THEN {<<>>} ELSE {}
                ELSE IF CrlfAt(a, NextAt(a, q)) # "yes" THEN {}
                ELSE {DataAt(a, q) \o r : r \in ChunkedBody(a)[NextAt(a, q) + 2]}
        BY <3>6, BodyUnfold, Zenon
      <4> QED BY <3>6, <4>1, Zenon
    <3>10. data \o rest \in ChunkedBody(a)[q]
      BY <3>7, <3>9, Zenon
    <3>11. v.out = out \o (data \o rest)
      BY <3>2, <3>4, <3>8, JoinedTwice, Zenon DEF all
    <3> QED BY <3>5, <3>10, <3>11, Zenon DEF a
  <2> QED BY <2>6, <2>7, Zenon DEF v
<1>3. 1..n \subseteq T
  <2> HIDE DEF T, n
  <2> QED BY <1>1, <1>2, DownInduction, Zenon
<1> QED BY <1>3, Zenon

-----------------------------------------------------------------------------
(* The lenient decoder.                                                     *)

Notices == [out : Seq(Byte), done : BOOLEAN]

\* The size line as the lenient decoder reads it, and what it takes.
LineStart(b, p) == SkipWhile(b, p, {"SP"})
LooseSize(b, p) == SizeAt(b, LineStart(b, p))
LooseEnd(b, p) == SkipWhile(b, SizeEnd(b, LineStart(b, p)), Byte \ {"LF"})
LooseNext(b, p) == LooseEnd(b, p) + 1 + LooseSize(b, p)
Take(b, cap, p, out) ==
  Least(Least(Len(b) - LooseEnd(b, p), LooseSize(b, p)), cap - 1 - Len(out))
More(b, cap, p, out) ==
  out \o SubSeq(b, LooseEnd(b, p) + 1, LooseEnd(b, p) + Take(b, cap, p, out))

\* One round of the lenient decoder.
PrefixRound(b, cap, p, out, rest) ==
  IF p > Len(b) \/ SizeEnd(b, LineStart(b, p)) = LineStart(b, p) \/ LooseEnd(b, p) > Len(b)
    THEN [out |-> out, done |-> FALSE]
  ELSE IF LooseSize(b, p) = 0 THEN [out |-> out, done |-> TRUE]
  ELSE IF Len(More(b, cap, p, out)) + 1 >= cap \/ Len(b) - LooseEnd(b, p) < LooseSize(b, p)
          \/ LooseNext(b, p) > Len(b)
    THEN [out |-> More(b, cap, p, out), done |-> FALSE]
  ELSE IF CrlfAt(b, LooseNext(b, p)) = "yes"
    THEN rest[LooseNext(b, p) + 2][More(b, cap, p, out)]
  ELSE IF b[LooseNext(b, p)] = "LF"
    THEN rest[LooseNext(b, p) + 1][More(b, cap, p, out)]
  ELSE [out |-> More(b, cap, p, out), done |-> FALSE]

\* Where the next round starts, if there is one.
LooseJump(b, p) ==
  IF LooseNext(b, p) > Len(b) THEN 0
  ELSE IF CrlfAt(b, LooseNext(b, p)) = "yes" THEN LooseNext(b, p) + 2
  ELSE IF b[LooseNext(b, p)] = "LF" THEN LooseNext(b, p) + 1
  ELSE 0

LEMMA LooseFacts ==
  ASSUME NEW b \in Seq(Byte), NEW p \in 1..(Len(b) + 1)
  PROVE  /\ LineStart(b, p) \in p..(Len(b) + 1)
         /\ LooseEnd(b, p) \in p..(Len(b) + 1)
         /\ LooseSize(b, p) \in Nat
         /\ LooseNext(b, p) \in Nat \ {0} /\ LooseNext(b, p) > p
         /\ LooseJump(b, p) \in Nat
         /\ ~(LooseNext(b, p) > Len(b)) =>
              /\ CrlfAt(b, LooseNext(b, p)) = "yes" => LooseNext(b, p) + 2 \in (p + 1)..(Len(b) + 1)
              /\ LooseNext(b, p) + 1 \in (p + 1)..(Len(b) + 1)
<1> DEFINE s == LineStart(b, p)
           d == SizeEnd(b, s)
           e == LooseEnd(b, p)
           k == LooseSize(b, p)
           x == LooseNext(b, p)
<1>1. Len(b) \in Nat
  OBVIOUS
<1>2. s \in p..(Len(b) + 1)
  BY <1>1, SkipFacts DEF LineStart
<1>3. s \in 1..(Len(b) + 1)
  <2> HIDE DEF s
  <2> QED BY <1>1, <1>2
<1>4. d \in s..(Len(b) + 1) /\ k \in Nat
  BY <1>3, SizeFacts DEF LooseSize
<1>5. d \in 1..(Len(b) + 1)
  <2> HIDE DEF s, d
  <2> QED BY <1>1, <1>3, <1>4
<1>6. e \in d..(Len(b) + 1)
  BY <1>1, <1>5, SkipFacts DEF LooseEnd
<1>7. x = e + 1 + k
  BY DEF LooseNext
<1> HIDE DEF s, d, e, k, x
<1>8. e \in p..(Len(b) + 1) /\ x \in Nat \ {0} /\ x > p
  BY <1>1, <1>2, <1>4, <1>6, <1>7
<1>9. ~(x > Len(b)) => /\ CrlfAt(b, x) = "yes" => x + 2 \in (p + 1)..(Len(b) + 1)
                       /\ x + 1 \in (p + 1)..(Len(b) + 1)
  <2>1. CrlfAt(b, x) = "yes" => x + 1 <= Len(b)
    BY <1>8, CrlfFacts
  <2> QED BY <1>1, <1>8, <2>1
<1>10. LooseJump(b, p) \in Nat
  BY <1>8 DEF LooseJump, x
<1> QED BY <1>2, <1>4, <1>8, <1>9, <1>10 DEF s, e, k, x

LEMMA MoreType ==
  ASSUME NEW b \in Seq(Byte), NEW cap \in Nat, NEW p \in 1..(Len(b) + 1), NEW out \in Seq(Byte),
         ~(LooseEnd(b, p) > Len(b))
  PROVE  More(b, cap, p, out) \in Seq(Byte)
<1> DEFINE e == LooseEnd(b, p)
           t == Take(b, cap, p, out)
<1>1. e \in p..(Len(b) + 1) /\ LooseSize(b, p) \in Nat /\ Len(b) \in Nat
  BY LooseFacts
<1>2. t \in Int /\ t <= Len(b) - e
  BY <1>1 DEF Take, Least
<1>3. More(b, cap, p, out) = out \o SubSeq(b, e + 1, e + t)
  BY DEF More
<1>4. ~(e > Len(b))
  OBVIOUS
<1> HIDE DEF e, t
<1> DEFINE i == e + 1
           j == e + t
<1>5. i \in 1..(Len(b) + 1) /\ j \in Int /\ j <= Len(b)
  BY <1>1, <1>2, <1>4
<1> HIDE DEF i, j
<1>6. SubSeq(b, i, j) \in Seq(Byte)
  BY <1>1, <1>5
<1> QED BY <1>3, <1>6, Joined DEF i, j

LEMMA PrefixType ==
  ASSUME NEW b \in Seq(Byte), NEW cap \in Nat, NEW p \in 1..(Len(b) + 1), NEW out \in Seq(Byte),
         NEW rest, LooseJump(b, p) # 0 => rest[LooseJump(b, p)] \in [Seq(Byte) -> Notices]
  PROVE  PrefixRound(b, cap, p, out, rest) \in Notices
<1>1. ~(LooseEnd(b, p) > Len(b)) => More(b, cap, p, out) \in Seq(Byte)
  BY MoreType
<1>2. \A data \in Seq(Byte) : /\ [out |-> data, done |-> FALSE] \in Notices
                              /\ [out |-> data, done |-> TRUE] \in Notices
  BY DEF Notices
<1>3. LooseNext(b, p) + 2 # 0 /\ LooseNext(b, p) + 1 # 0
  <2>1. LooseNext(b, p) \in Nat \ {0}
    BY LooseFacts, Zenon
  <2> QED BY <2>1
<1>4. ~(LooseNext(b, p) > Len(b)) =>
        /\ CrlfAt(b, LooseNext(b, p)) = "yes" =>
             rest[LooseNext(b, p) + 2] \in [Seq(Byte) -> Notices]
        /\ CrlfAt(b, LooseNext(b, p)) # "yes" /\ b[LooseNext(b, p)] = "LF" =>
             rest[LooseNext(b, p) + 1] \in [Seq(Byte) -> Notices]
  BY <1>3, Zenon DEF LooseJump
<1> DEFINE m == More(b, cap, p, out)
           V == [Seq(Byte) -> Notices]
<1>5. \A f \in V : m \in Seq(Byte) => f[m] \in Notices
  OBVIOUS
<1> HIDE DEF m, V
<1> QED BY <1>1, <1>2, <1>4, <1>5, Zenon DEF PrefixRound, m, V

LEMMA CopiedUnfold ==
  ASSUME NEW b \in Seq(Byte), NEW cap \in Nat
  PROVE  /\ CopiedFrom(b, cap) \in [1..(Len(b) + 1) -> [Seq(Byte) -> Notices]]
         /\ \A p \in 1..(Len(b) + 1), out \in Seq(Byte) :
              CopiedFrom(b, cap)[p][out] = PrefixRound(b, cap, p, out, CopiedFrom(b, cap))
<1> DEFINE n == Len(b) + 1
           Is(f) == f = [q \in 1..n |-> [out \in Seq(Byte) |-> PrefixRound(b, cap, q, out, f)]]
           V == [Seq(Byte) -> Notices]
           At(q, v) == [out \in Seq(Byte) |-> PrefixRound(b, cap, q, out, [r \in Nat |-> v])]
           none == [out \in Seq(Byte) |-> [out |-> <<>>, done |-> FALSE]]
           jump == [q \in 1..n |-> LooseJump(b, q)]
           step == [q \in 1..n |-> [v \in V |-> At(q, v)]]
           last == [q \in 1..n |-> At(q, none)]
<1>1. n \in Nat
  OBVIOUS
<1>2. ASSUME NEW q \in 1..n
      PROVE  LooseJump(b, q) \in Nat /\ (LooseJump(b, q) # 0 => LooseJump(b, q) \in (q + 1)..n)
  <2>1. /\ LooseJump(b, q) \in Nat
        /\ ~(LooseNext(b, q) > Len(b)) =>
             /\ CrlfAt(b, LooseNext(b, q)) = "yes" => LooseNext(b, q) + 2 \in (q + 1)..n
             /\ LooseNext(b, q) + 1 \in (q + 1)..n
    BY LooseFacts, Zenon
  <2> QED BY <2>1, Zenon DEF LooseJump
<1>3. none \in V
  BY DEF Notices
<1> HIDE DEF none
<1>4. ASSUME NEW q \in 1..n, NEW v \in V PROVE At(q, v) \in V
  <2>1. ASSUME NEW out \in Seq(Byte) PROVE PrefixRound(b, cap, q, out, [r \in Nat |-> v]) \in Notices
    <3> DEFINE rest == [r \in Nat |-> v]
    <3>1. rest[LooseJump(b, q)] \in [Seq(Byte) -> Notices]
      BY <1>2
    <3> HIDE DEF rest
    <3>2. PrefixRound(b, cap, q, out, rest) \in Notices
      BY <3>1, PrefixType
    <3> QED BY <3>2 DEF rest
  <2> QED BY <2>1
<1>5. /\ jump \in [1..n -> Nat] /\ step \in [1..n -> [V -> V]] /\ last \in [1..n -> V]
  <2> HIDE DEF n, V, At
  <2> QED BY <1>2, <1>3, <1>4
<1>6. PICK w : Walk(w, n, V, jump, step, last)
  <2> HIDE DEF n, V, jump, step, last
  <2> QED BY <1>1, <1>5, WalkExists, Zenon
<1>7. /\ w \in [1..n -> V]
      /\ \A q \in 1..n :
        w[q] = IF jump[q] \in (q + 1)..n THEN step[q][w[jump[q]]] ELSE last[q]
  BY <1>6, Zenon DEF Walk
<1>8. ASSUME NEW q \in 1..n, NEW rest, LooseJump(b, q) # 0 => rest[LooseJump(b, q)] = w[LooseJump(b, q)],
             NEW out \in Seq(Byte)
      PROVE  PrefixRound(b, cap, q, out, rest) = PrefixRound(b, cap, q, out, w)
  <2>1. LooseNext(b, q) + 2 # 0 /\ LooseNext(b, q) + 1 # 0
    <3>1. LooseNext(b, q) \in Nat \ {0}
      BY LooseFacts, Zenon
    <3> QED BY <3>1
  <2>2. ~(LooseNext(b, q) > Len(b)) =>
          /\ CrlfAt(b, LooseNext(b, q)) = "yes" => rest[LooseNext(b, q) + 2] = w[LooseNext(b, q) + 2]
          /\ CrlfAt(b, LooseNext(b, q)) # "yes" /\ b[LooseNext(b, q)] = "LF" =>
               rest[LooseNext(b, q) + 1] = w[LooseNext(b, q) + 1]
    BY <1>8, <2>1, Zenon DEF LooseJump
  <2> QED BY <2>2, Zenon DEF PrefixRound
<1>9. ASSUME NEW q \in 1..n PROVE w[q] = [out \in Seq(Byte) |-> PrefixRound(b, cap, q, out, w)]
  <2>1. CASE LooseJump(b, q) # 0
    <3>1. jump[q] = LooseJump(b, q) /\ jump[q] \in (q + 1)..n /\ jump[q] \in 1..n
      BY <1>2, <2>1
    <3>2. w[LooseJump(b, q)] \in V
      BY <1>7, <3>1
    <3>3. w[q] = At(q, w[LooseJump(b, q)])
      <4> HIDE DEF At, V
      <4> QED BY <1>7, <3>1, <3>2, Zenon
    <3> DEFINE rest == [r \in Nat |-> w[LooseJump(b, q)]]
    <3>4. rest[LooseJump(b, q)] = w[LooseJump(b, q)]
      BY <1>2
    <3>5. \A out \in Seq(Byte) : PrefixRound(b, cap, q, out, rest) = PrefixRound(b, cap, q, out, w)
      <4> HIDE DEF rest
      <4> QED BY <1>8, <3>4
    <3> QED BY <3>3, <3>5, Zenon
  <2>2. CASE LooseJump(b, q) = 0
    <3>1. ~(jump[q] \in (q + 1)..n)
      BY <2>2
    <3>2. w[q] = At(q, none)
      <4> HIDE DEF At
      <4> QED BY <1>7, <3>1, Zenon
    <3> DEFINE rest == [r \in Nat |-> none]
    <3>3. \A out \in Seq(Byte) : PrefixRound(b, cap, q, out, rest) = PrefixRound(b, cap, q, out, w)
      <4> HIDE DEF rest
      <4> QED BY <1>8, <2>2
    <3> QED BY <3>2, <3>3
  <2> QED BY <2>1, <2>2
<1>10. Is(w)
  <2> HIDE DEF n, V
  <2> QED BY <1>7, <1>9
<1>11. CopiedFrom(b, cap) = CHOOSE f : Is(f)
  BY Zenon DEF CopiedFrom, PrefixRound, LineStart, LooseSize, LooseEnd, LooseNext, Take, More
<1>12. Is(CopiedFrom(b, cap))
  <2> HIDE DEF Is
  <2> QED BY <1>10, <1>11, Zenon
<1> DEFINE c == CopiedFrom(b, cap)
           T == {q \in 1..n : c[q] \in V}
<1>13. /\ c = [q \in 1..n |-> c[q]]
       /\ \A q \in 1..n : c[q] = [out \in Seq(Byte) |-> PrefixRound(b, cap, q, out, c)]
  <2> HIDE DEF c, n
  <2> QED BY <1>12, Zenon DEF c
<1> HIDE DEF c
<1>14. ASSUME NEW q \in 1..n, \A r \in (q + 1)..n : r \in T PROVE q \in T
  <2>1. LooseJump(b, q) # 0 => c[LooseJump(b, q)] \in [Seq(Byte) -> Notices]
    BY <1>2, <1>14
  <2>2. \A out \in Seq(Byte) : PrefixRound(b, cap, q, out, c) \in Notices
    BY <2>1, PrefixType
  <2>3. c[q] \in V
    BY <1>13, <2>2, Zenon
  <2> QED BY <2>3
<1>15. 1..n \subseteq T
  <2> HIDE DEF T, n
  <2> QED BY <1>1, <1>14, DownInduction, Zenon
<1>16. c \in [1..n -> V]
  <2> HIDE DEF n, V
  <2> QED BY <1>13, <1>15
<1> QED BY <1>13, <1>16 DEF c

LEMMA LooseBegins ==
  ASSUME NEW b, NEW c, Begins(b, c), NEW p \in 1..Len(b), SizeEnd(c, p) # p,
         CrlfAt(c, SizeLineEnd(c, p)) = "yes"
  PROVE  /\ LineStart(b, p) = p /\ SizeEnd(b, p) # p
         /\ SizeLineEnd(c, p) + 1 > Len(b) => LooseEnd(b, p) > Len(b)
         /\ SizeLineEnd(c, p) + 1 <= Len(b) =>
              /\ LooseEnd(b, p) = SizeLineEnd(c, p) + 1 /\ LooseSize(b, p) = SizeAt(c, p)
              /\ LooseNext(b, p) = NextAt(c, p)
<1> DEFINE g == SizeEnd(c, p)
           d == SizeEnd(b, p)
           e == SizeLineEnd(c, p)
<1>1. /\ b \in Seq(Byte) /\ c \in Seq(Byte) /\ Len(b) \in Nat /\ Len(c) \in Nat
      /\ Len(b) <= Len(c) /\ p \in 1..(Len(c) + 1) /\ p \in 1..(Len(b) + 1)
      /\ \A i \in 1..Len(b) : b[i] = c[i]
  BY DEF Begins
<1>2. g \in p..(Len(c) + 1) /\ \A j \in p..(g - 1) : c[j] \in Digits
  BY <1>1, SkipFacts DEF SizeEnd
<1>3. g \in 1..(Len(c) + 1)
  <2> HIDE DEF g
  <2> QED BY <1>1, <1>2
<1>4. e \in g..(Len(c) + 1) /\ \A j \in g..(e - 1) : c[j] \in Byte \ {"CR", "LF"}
  BY <1>1, <1>3, SkipFacts DEF SizeLineEnd, LineEnd
<1>5. /\ d = IF g <= Len(b) THEN g ELSE Len(b) + 1
      /\ e <= Len(b) => SizeAt(b, p) = SizeAt(c, p)
  BY <1>1, SizeBegins
<1> HIDE DEF g, d, e
<1>6. e + 1 <= Len(c) /\ c[e] = "CR" /\ c[e + 1] = "LF" /\ g # p /\ e \in Nat \ {0}
  <2>1. e \in Nat \ {0}
    BY <1>2, <1>4
  <2> QED BY <1>1, <2>1, CrlfFacts, Zenon DEF e, g
<1>7. b[p] \notin {"SP"} /\ d \in (p + 1)..(Len(b) + 1)
  <2>1. c[p] \in Digits
    BY <1>2, <1>6
  <2> QED BY <1>1, <1>2, <1>5, <1>6, <2>1 DEF Digits
<1>8. LineStart(b, p) = p
  <2>1. SkipWhile(b, p, {"SP"}) = p
    <3>1. p \in p..(Len(b) + 1) /\ \A j \in p..(p - 1) : b[j] \in {"SP"}
      BY <1>1
    <3> QED BY <1>1, <1>7, <3>1, SkipIs, Zenon
  <2> QED BY <2>1 DEF LineStart
<1>9. LooseEnd(b, p) = SkipWhile(b, d, Byte \ {"LF"}) /\ LooseSize(b, p) = SizeAt(b, p)
      /\ LooseNext(b, p) = LooseEnd(b, p) + 1 + LooseSize(b, p)
  BY <1>8, Zenon DEF LooseEnd, LooseSize, LooseNext, d
<1>10. ASSUME NEW j \in d..Len(b), j <= e PROVE b[j] \in Byte \ {"LF"}
  <2>1. b[j] = c[j] /\ g <= Len(b) /\ d = g
    BY <1>1, <1>5, <1>7
  <2>2. CASE j = e
    BY <1>6, <2>1, <2>2 DEF Byte
  <2>3. CASE j # e
    <3>1. j \in g..(e - 1)
      BY <1>1, <1>4, <1>7, <1>10, <2>1, <2>3
    <3> QED BY <1>4, <2>1, <3>1
  <2> QED BY <2>2, <2>3
<1>11. d \in 1..(Len(b) + 1)
  BY <1>1, <1>7
<1>12. ASSUME e + 1 > Len(b) PROVE LooseEnd(b, p) > Len(b)
  <2>1. \A j \in d..((Len(b) + 1) - 1) : b[j] \in Byte \ {"LF"}
    BY <1>1, <1>6, <1>7, <1>10, <1>12
  <2>2. SkipWhile(b, d, Byte \ {"LF"}) = Len(b) + 1
    <3>1. Len(b) + 1 \in d..(Len(b) + 1)
      BY <1>1, <1>11
    <3> QED BY <1>1, <1>11, <2>1, <3>1, SkipIs, Zenon
  <2> QED BY <1>1, <1>9, <2>2
<1>13. ASSUME e + 1 <= Len(b)
       PROVE  LooseEnd(b, p) = e + 1 /\ LooseSize(b, p) = SizeAt(c, p) /\ LooseNext(b, p) = NextAt(c, p)
  <2>1. e + 1 \in d..(Len(b) + 1) /\ \A j \in d..((e + 1) - 1) : j \in d..Len(b) /\ j <= e
    <3>1. g <= Len(b) /\ d = g /\ g <= e
      BY <1>1, <1>3, <1>4, <1>5, <1>6, <1>13
    <3> QED BY <1>1, <1>3, <1>6, <1>13, <3>1
  <2>2. b[e + 1] \notin Byte \ {"LF"}
    BY <1>1, <1>6, <1>13
  <2>3. SkipWhile(b, d, Byte \ {"LF"}) = e + 1
    <3> DEFINE k == e + 1
    <3>1. k \in d..(Len(b) + 1) /\ b[k] \notin Byte \ {"LF"} /\ \A j \in d..(k - 1) : b[j] \in Byte \ {"LF"}
      BY <1>10, <2>1, <2>2
    <3> HIDE DEF k
    <3>2. SkipWhile(b, d, Byte \ {"LF"}) = k
      BY <1>1, <1>11, <3>1, SkipIs, Zenon
    <3> QED BY <3>2 DEF k
  <2>4. SizeAt(b, p) = SizeAt(c, p) /\ SizeAt(c, p) \in Nat
    BY <1>1, <1>5, <1>6, <1>13, SizeFacts
  <2>5. NextAt(c, p) = e + 2 + SizeAt(c, p)
    BY DEF NextAt, e
  <2> QED BY <1>6, <1>9, <2>3, <2>4, <2>5
<1> QED BY <1>7, <1>8, <1>12, <1>13 DEF d, e

LEMMA BeginsJoined ==
  ASSUME NEW out \in Seq(Byte), NEW s, NEW z, Begins(s, z)
  PROVE  Begins(out \o s, out \o z)
<1>1. s \in Seq(Byte) /\ z \in Seq(Byte) /\ Len(s) <= Len(z) /\ \A i \in 1..Len(s) : s[i] = z[i]
  BY DEF Begins
<1>2. /\ out \o s \in Seq(Byte) /\ out \o z \in Seq(Byte)
      /\ Len(out \o s) = Len(out) + Len(s) /\ Len(out \o z) = Len(out) + Len(z)
      /\ \A i \in 1..(Len(out) + Len(s)) :
           (out \o s)[i] = IF i <= Len(out) THEN out[i] ELSE s[i - Len(out)]
      /\ \A i \in 1..(Len(out) + Len(z)) :
           (out \o z)[i] = IF i <= Len(out) THEN out[i] ELSE z[i - Len(out)]
  BY <1>1
<1>3. ASSUME NEW i \in 1..(Len(out) + Len(s)) PROVE (out \o s)[i] = (out \o z)[i]
  <2>1. i \in 1..(Len(out) + Len(z)) /\ (i > Len(out) => i - Len(out) \in 1..Len(s))
    BY <1>1
  <2> QED BY <1>1, <1>2, <2>1
<1>4. Len(out) + Len(s) <= Len(out) + Len(z)
  BY <1>1
<1> QED BY <1>2, <1>3, <1>4 DEF Begins

LEMMA TakenBegins ==
  ASSUME NEW b, NEW c, Begins(b, c), NEW rest \in Seq(Byte), NEW i \in 1..(Len(b) + 1), NEW m \in Nat,
         i + m - 1 <= Len(c), NEW k \in 0..m, i + k - 1 <= Len(b)
  PROVE  /\ Begins(SubSeq(b, i, i + k - 1), SubSeq(c, i, i + m - 1) \o rest)
         /\ Len(SubSeq(b, i, i + k - 1)) = k
<1>1. /\ b \in Seq(Byte) /\ c \in Seq(Byte) /\ Len(b) \in Nat /\ Len(c) \in Nat
      /\ Len(b) <= Len(c) /\ \A h \in 1..Len(b) : b[h] = c[h]
  BY DEF Begins
<1> DEFINE j == i + k - 1
           y == i + m - 1
           s == SubSeq(b, i, j)
           t == SubSeq(c, i, y)
<1>2. j \in Int /\ j <= Len(b) /\ j = i + k - 1 /\ y \in Int /\ y <= Len(c) /\ y = i + m - 1
      /\ k \in Nat
  BY <1>1
<1> HIDE DEF j, y
<1>3. s \in Seq(Byte) /\ Len(s) = k /\ \A h \in 1..k : s[h] = b[i + h - 1]
  <2>1. s \in Seq(Byte) /\ Len(s) = k
    BY <1>1, <1>2
  <2> QED BY <1>1, <1>2, <2>1
<1>4. t \in Seq(Byte) /\ Len(t) = m /\ \A h \in 1..m : t[h] = c[i + h - 1]
  BY <1>1, <1>2
<1> HIDE DEF s, t
<1>5. \A h \in 1..k : h \in 1..m /\ i + h - 1 \in 1..Len(b)
  BY <1>1, <1>2
<1>6. \A h \in 1..k : s[h] = t[h]
  BY <1>1, <1>3, <1>4, <1>5
<1>7. t \o rest \in Seq(Byte) /\ Len(t \o rest) = m + Len(rest) /\ \A h \in 1..m : (t \o rest)[h] = t[h]
  BY <1>4
<1>8. Begins(s, t \o rest)
  <2> DEFINE u == t \o rest
  <2>1. u \in Seq(Byte) /\ Len(u) >= k /\ \A h \in 1..k : u[h] = t[h]
    BY <1>5, <1>7
  <2> HIDE DEF u
  <2>2. Begins(s, u)
    BY <1>3, <1>6, <2>1, Zenon DEF Begins
  <2> QED BY <2>2 DEF u
<1> QED BY <1>3, <1>8 DEF s, t, j, y

LEMMA LeastOfThree ==
  ASSUME NEW a \in Nat, NEW m \in Nat, NEW r \in Nat
  PROVE  LET k == Least(Least(a, m), r)
         IN k \in Nat /\ k <= a /\ k <= m /\ k <= r /\ (k = a \/ k = m \/ k = r)
BY DEF Least

\* What the lenient decoder may return: true bytes, and all that fit in cap
\* when it says so or has the whole body.
Noticed(b, c, cap, full, v) ==
  /\ Begins(v.out, full) /\ Len(v.out) <= cap - 1
  /\ v.done \/ Len(v.out) >= cap - 1 \/ Len(b) = Len(c) => Len(v.out) = Least(cap - 1, Len(full))

LEMMA CopiedOfWhole ==
  ASSUME NEW b, NEW c, Begins(b, c), NEW cap \in Nat
  PROVE  \A p \in 1..(Len(b) + 1), out \in Seq(Byte) : \A z \in ChunkedBody(c)[p] :
           Len(out) + 1 < cap => Noticed(b, c, cap, out \o z, CopiedFrom(b, cap)[p][out])
<1> DEFINE n == Len(b) + 1
           T == {q \in 1..n : \A out \in Seq(Byte) : \A z \in ChunkedBody(c)[q] :
                   Len(out) + 1 < cap => Noticed(b, c, cap, out \o z, CopiedFrom(b, cap)[q][out])}
<1>1. /\ b \in Seq(Byte) /\ c \in Seq(Byte) /\ Len(b) \in Nat /\ Len(c) \in Nat
      /\ Len(b) <= Len(c) /\ n \in Nat
  BY DEF Begins
<1>2. ASSUME NEW q \in 1..n, \A r \in (q + 1)..n : r \in T PROVE q \in T
  <2> SUFFICES ASSUME NEW out \in Seq(Byte), NEW z \in ChunkedBody(c)[q], Len(out) + 1 < cap
               PROVE  Noticed(b, c, cap, out \o z, CopiedFrom(b, cap)[q][out])
    OBVIOUS
  <2> DEFINE v == CopiedFrom(b, cap)[q][out]
             e == SizeLineEnd(c, q)
             m == SizeAt(c, q)
             x == NextAt(c, q)
             data == DataAt(c, q)
             full == out \o z
  <2>1. q \in 1..(Len(c) + 1)
    BY <1>1
  <2>2. /\ SizeEnd(c, q) # q /\ CrlfAt(c, e) = "yes"
        /\ m = 0 => z = <<>>
        /\ m # 0 => /\ CrlfAt(c, x) = "yes"
                    /\ \E rest \in ChunkedBody(c)[x + 2] : z = data \o rest
    <3>1. ChunkedBody(c)[q]
            = IF SizeEnd(c, q) = q \/ CrlfAt(c, e) # "yes" THEN {}
              ELSE IF m = 0 THEN IF TrailerSection(c)[e + 2] THEN {<<>>} ELSE {}
              ELSE IF CrlfAt(c, x) # "yes" THEN {}
              ELSE {data \o rest : rest \in ChunkedBody(c)[x + 2]}
      BY <1>1, <2>1, BodyUnfold, Zenon
    <3> HIDE DEF e, m, x, data
    <3> QED BY <3>1
  <2>3. /\ m \in Nat /\ e \in q..(Len(c) + 1) /\ e + 1 <= Len(c) /\ x = e + 2 + m
        /\ CrlfAt(c, x) = "yes" => x + 1 <= Len(c)
        /\ x <= Len(c) + 1 => data \in Seq(Byte) /\ Len(data) = m
        /\ data = SubSeq(c, e + 2, x - 1) /\ SizeEnd(c, q) \in q..(Len(c) + 1)
    <3>1. /\ SizeEnd(c, q) \in q..(Len(c) + 1) /\ m \in Nat /\ e \in SizeEnd(c, q)..(Len(c) + 1)
          /\ CrlfAt(c, e) = "yes" => e + 2 \in (q + 1)..(Len(c) + 1)
          /\ x = e + 2 + m /\ x \in Nat \ {0}
          /\ CrlfAt(c, x) = "yes" => x + 2 \in (q + 1)..(Len(c) + 1)
          /\ x <= Len(c) + 1 => data \in Seq(Byte) /\ Len(data) = m
      BY <1>1, <2>1, RoundFacts, Zenon
    <3>2. data = SubSeq(c, e + 2, x - 1)
      BY DEF DataAt
    <3> HIDE DEF e, m, x, data
    <3>3. e \in q..(Len(c) + 1) /\ e + 1 <= Len(c)
      <4>1. /\ e \in SizeEnd(c, q)..(Len(c) + 1) /\ SizeEnd(c, q) \in q..(Len(c) + 1)
            /\ e + 2 \in (q + 1)..(Len(c) + 1)
        BY <2>2, <3>1, Zenon
      <4> QED BY <1>1, <4>1
    <3>4. CrlfAt(c, x) = "yes" => x + 1 <= Len(c)
      <4>1. x \in Nat /\ (CrlfAt(c, x) = "yes" => x + 2 \in (q + 1)..(Len(c) + 1))
        BY <3>1, Zenon
      <4> QED BY <1>1, <4>1
    <3> QED BY <3>1, <3>2, <3>3, <3>4
  <2>4. v = PrefixRound(b, cap, q, out, CopiedFrom(b, cap))
    BY <1>1, CopiedUnfold
  <2>5. z \in Seq(Byte) /\ full \in Seq(Byte) /\ Len(full) = Len(out) + Len(z)
    BY <1>1, <2>1, BodyUnfold, Joined, Zenon
  <2>6. Begins(out, full) /\ Len(out) <= cap - 1 /\ ~(Len(out) >= cap - 1)
    <3>1. Begins(<<>>, z) /\ out \o <<>> = out
      BY <2>5 DEF Begins
    <3>2. Begins(out \o <<>>, out \o z)
      BY <3>1, BeginsJoined, Zenon
    <3>3. Len(out) <= cap - 1 /\ ~(Len(out) >= cap - 1)
      OBVIOUS
    <3> QED BY <3>1, <3>2, <3>3
  <2>7. q \in 1..Len(b) =>
          /\ LineStart(b, q) = q /\ SizeEnd(b, q) # q
          /\ e + 1 > Len(b) => LooseEnd(b, q) > Len(b)
          /\ e + 1 <= Len(b) => LooseEnd(b, q) = e + 1 /\ LooseSize(b, q) = m /\ LooseNext(b, q) = x
    BY <2>2, LooseBegins
  <2>8. /\ e + 1 <= Len(b) /\ x + 1 <= Len(b) => CrlfAt(b, x) = CrlfAt(c, x)
        /\ e + 1 <= Len(b) /\ x <= Len(b) + 1 => DataAt(b, q) = data
        /\ e + 1 <= Len(b) => SizeLineEnd(b, q) = e /\ NextAt(b, q) = x
    BY RoundBegins, Zenon
  <2> DEFINE more == More(b, cap, q, out)
             k == Take(b, cap, q, out)
  <2>9. /\ more = out \o SubSeq(b, LooseEnd(b, q) + 1, LooseEnd(b, q) + k)
        /\ k = Least(Least(Len(b) - LooseEnd(b, q), LooseSize(b, q)), cap - 1 - Len(out))
    BY DEF More, Take
  <2>10. v = IF q > Len(b) \/ SizeEnd(b, LineStart(b, q)) = LineStart(b, q) \/ LooseEnd(b, q) > Len(b)
               THEN [out |-> out, done |-> FALSE]
             ELSE IF LooseSize(b, q) = 0 THEN [out |-> out, done |-> TRUE]
             ELSE IF Len(more) + 1 >= cap \/ Len(b) - LooseEnd(b, q) < LooseSize(b, q)
                     \/ LooseNext(b, q) > Len(b)
               THEN [out |-> more, done |-> FALSE]
             ELSE IF CrlfAt(b, LooseNext(b, q)) = "yes"
               THEN CopiedFrom(b, cap)[LooseNext(b, q) + 2][more]
             ELSE IF b[LooseNext(b, q)] = "LF"
               THEN CopiedFrom(b, cap)[LooseNext(b, q) + 1][more]
             ELSE [out |-> more, done |-> FALSE]
    BY <2>4, Zenon DEF PrefixRound
  <2> HIDE DEF v, e, m, x, data, full, more, k
  <2>11. ASSUME q > Len(b) \/ e + 1 > Len(b) PROVE Noticed(b, c, cap, full, v)
    <3>1. v = [out |-> out, done |-> FALSE]
      <4>1. q > Len(b) \/ q \in 1..Len(b)
        BY <1>1
      <4> QED BY <2>7, <2>10, <2>11, <4>1, Zenon
    <3>2. Len(b) # Len(c)
      BY <1>1, <2>1, <2>3, <2>11
    <3> QED BY <2>6, <3>1, <3>2 DEF Noticed
  <2>12. ASSUME q \in 1..Len(b), e + 1 <= Len(b), m = 0 PROVE Noticed(b, c, cap, full, v)
    <3>1. ~(q > Len(b)) /\ ~(e + 1 > Len(b))
      BY <1>1, <2>3, <2>12
    <3>2. v = [out |-> out, done |-> TRUE]
      BY <2>7, <2>10, <2>12, <3>1, Zenon
    <3>3. Len(full) = Len(out)
      BY <2>2, <2>5, <2>12
    <3> QED BY <2>6, <3>2, <3>3 DEF Noticed, Least
  <2>13. ASSUME q \in 1..Len(b), e + 1 <= Len(b), m # 0 PROVE Noticed(b, c, cap, full, v)
    <3>1. ~(q > Len(b)) /\ ~(e + 1 > Len(b))
      BY <1>1, <2>3, <2>13
    <3>2. PICK rest \in ChunkedBody(c)[x + 2] : z = data \o rest
      BY <2>2, <2>13
    <3>3. x + 1 <= Len(c) /\ x \in Nat \ {0} /\ CrlfAt(c, x) = "yes"
          /\ data \in Seq(Byte) /\ Len(data) = m
      BY <1>1, <2>2, <2>3, <2>13
    <3>4. x + 2 \in 1..(Len(c) + 1)
      BY <1>1, <3>3
    <3>5. rest \in Seq(Byte)
      BY <1>1, <3>2, <3>4, BodyUnfold, Zenon
    <3>6. Len(z) = m + Len(rest)
      BY <3>2, <3>3, <3>5, Joined, Zenon
    <3>7. /\ k = Least(Least(Len(b) - (e + 1), m), cap - 1 - Len(out))
          /\ more = out \o SubSeq(b, e + 2, e + 1 + k)
      <4>1. (e + 1) + 1 = e + 2
        BY <2>3
      <4> QED BY <2>7, <2>9, <2>13, <4>1, Zenon
    <3>8. k \in Nat /\ k <= m /\ k <= Len(b) - (e + 1) /\ k <= cap - 1 - Len(out)
          /\ (k = m \/ k = Len(b) - (e + 1) \/ k = cap - 1 - Len(out))
      <4>1. Len(b) - (e + 1) \in Nat
        <5>1. e \in Nat
          BY <2>3
        <5> QED BY <1>1, <2>13, <5>1
      <4>2. cap - 1 - Len(out) \in Nat
        OBVIOUS
      <4> QED BY <2>3, <3>7, <4>1, <4>2, LeastOfThree, Zenon
    <3> DEFINE s == SubSeq(b, e + 2, e + 1 + k)
    <3>9. Begins(s, z) /\ Len(s) = k
      <4> DEFINE i == e + 2
      <4>1. /\ i \in 1..(Len(b) + 1) /\ i + m - 1 <= Len(c) /\ i + k - 1 <= Len(b) /\ k \in 0..m
            /\ x - 1 = i + m - 1 /\ e + 1 + k = i + k - 1
        <5>1. /\ e \in Nat \ {0} /\ m \in Nat /\ k \in Nat /\ k <= m /\ x = e + 2 + m
              /\ Len(b) \in Nat /\ Len(c) \in Nat /\ x + 1 <= Len(c)
              /\ e + 1 <= Len(b) /\ k <= Len(b) - (e + 1)
          BY <1>1, <2>3, <2>13, <3>3, <3>8
        <5> QED BY <5>1
      <4>2. data = SubSeq(c, i, i + m - 1) /\ s = SubSeq(b, i, i + k - 1)
        <5>1. data = SubSeq(c, i, x - 1)
          BY <2>3
        <5> QED BY <4>1, <5>1, Zenon
      <4> HIDE DEF i, s
      <4>3. Begins(SubSeq(b, i, i + k - 1), SubSeq(c, i, i + m - 1) \o rest)
            /\ Len(SubSeq(b, i, i + k - 1)) = k
        BY <2>3, <3>5, <4>1, TakenBegins, Zenon
      <4> QED BY <3>2, <4>2, <4>3, Zenon
    <3> HIDE DEF s
    <3>10. more = out \o s /\ Begins(more, full) /\ more \in Seq(Byte) /\ Len(more) = Len(out) + k
      <4>1. more = out \o s
        BY <3>7 DEF s
      <4>2. Begins(out \o s, out \o z)
        BY <3>9, BeginsJoined
      <4>3. s \in Seq(Byte)
        BY <3>9 DEF Begins
      <4> QED BY <3>9, <4>1, <4>2, <4>3, Joined, Zenon DEF full
    <3>11. Len(more) <= cap - 1 /\ (Len(more) >= cap - 1 => Len(more) = Least(cap - 1, Len(full)))
      <4>1. Len(more) <= cap - 1
        BY <3>8, <3>10
      <4>2. Len(more) <= Len(full) /\ Len(more) \in Nat /\ Len(full) \in Nat
        BY <2>5, <3>10 DEF Begins
      <4> QED BY <4>1, <4>2 DEF Least
    <3>12. ASSUME Len(more) + 1 >= cap \/ Len(b) - (e + 1) < m \/ x > Len(b)
           PROVE  Noticed(b, c, cap, full, v)
      <4>1. v = [out |-> more, done |-> FALSE]
        BY <2>7, <2>10, <2>13, <3>1, <3>12, Zenon
      <4>2. Len(b) = Len(c) => Len(more) >= cap - 1
        <5>1. Len(b) - (e + 1) < m => Len(b) # Len(c)
          <6>1. e \in Nat /\ m \in Nat /\ x = e + 2 + m /\ x + 1 <= Len(c)
            BY <2>3, <3>3
          <6> QED BY <1>1, <6>1
        <5>2. x > Len(b) => Len(b) # Len(c)
          BY <1>1, <3>3
        <5>3. Len(more) + 1 >= cap => Len(more) >= cap - 1
          BY <3>8, <3>10
        <5> QED BY <3>12, <5>1, <5>2, <5>3
      <4> QED BY <3>10, <3>11, <4>1, <4>2 DEF Noticed
    <3>13. ASSUME ~(Len(more) + 1 >= cap \/ Len(b) - (e + 1) < m \/ x > Len(b))
           PROVE  Noticed(b, c, cap, full, v)
      <4>1. k = m /\ Len(more) + 1 < cap /\ x <= Len(b)
        <5>0. Len(more) \in Nat
          BY <3>8, <3>10
        <5>1. Len(more) + 1 < cap /\ x <= Len(b) /\ ~(Len(b) - (e + 1) < m)
          BY <1>1, <3>3, <3>13, <5>0
        <5>2. k # cap - 1 - Len(out)
          BY <3>8, <3>10, <5>1
        <5> QED BY <1>1, <2>3, <3>8, <5>1, <5>2
      <4>2. v = IF CrlfAt(b, x) = "yes" THEN CopiedFrom(b, cap)[x + 2][more]
                ELSE IF b[x] = "LF" THEN CopiedFrom(b, cap)[x + 1][more]
                ELSE [out |-> more, done |-> FALSE]
        BY <2>7, <2>10, <2>13, <3>1, <3>13, Zenon
      <4>3. CASE x + 1 > Len(b)
        <5>1. CrlfAt(b, x) = "more"
          BY <1>1, <3>3, <4>3, CrlfFacts, Zenon
        <5>2. b[x] = c[x] /\ c[x] = "CR"
          <6>1. c[x] = "CR"
            BY <1>1, <3>3, CrlfFacts
          <6> QED BY <3>3, <4>1, <6>1 DEF Begins
        <5>3. v = [out |-> more, done |-> FALSE]
          BY <4>2, <5>1, <5>2
        <5>4. Len(b) # Len(c)
          BY <1>1, <3>3, <4>3
        <5> QED BY <3>10, <3>11, <5>3, <5>4, Zenon DEF Noticed
      <4>4. CASE x + 1 <= Len(b)
        <5>1. v = CopiedFrom(b, cap)[x + 2][more]
          BY <2>8, <2>13, <3>3, <4>2, <4>4
        <5>2. s = data
          <6>1. s = SubSeq(b, e + 2, x - 1)
            <7>1. e \in Nat /\ k \in Nat /\ x = e + 2 + k
              BY <2>3, <4>1
            <7>2. e + 1 + k = x - 1
              BY <7>1
            <7> QED BY <7>2, Zenon DEF s
          <6>2. DataAt(b, q) = SubSeq(b, e + 2, x - 1) /\ DataAt(b, q) = data
            <7>1. x <= Len(b) + 1
              BY <1>1, <3>3, <4>4
            <7> QED BY <2>8, <2>13, <7>1, Zenon DEF DataAt
          <6> QED BY <6>1, <6>2
        <5>3. more \o rest = full
          BY <3>2, <3>3, <3>5, <3>10, <5>2, JoinedTwice, Zenon DEF full
        <5>4. x + 2 \in (q + 1)..n
          BY <1>1, <2>3, <3>3, <4>4
        <5>5. Noticed(b, c, cap, more \o rest, CopiedFrom(b, cap)[x + 2][more])
          BY <1>2, <3>2, <3>10, <4>1, <5>4, Zenon
        <5> QED BY <5>1, <5>3, <5>5
      <4>5. x + 1 > Len(b) \/ x + 1 <= Len(b)
        BY <1>1, <3>3
      <4> QED BY <4>3, <4>4, <4>5
    <3> QED BY <3>12, <3>13
  <2>14. (q > Len(b) \/ q \in 1..Len(b)) /\ (e + 1 > Len(b) \/ e + 1 <= Len(b))
    BY <1>1, <2>3
  <2>15. Noticed(b, c, cap, full, v)
    BY <2>11, <2>12, <2>13, <2>14
  <2> QED BY <2>15 DEF full, v
<1>3. 1..n \subseteq T
  <2> HIDE DEF T, n
  <2> QED BY <1>1, <1>2, DownInduction, Zenon
<1> QED BY <1>3

-----------------------------------------------------------------------------
(* The head of what was received.                                           *)

Token == Byte \cup HeadToken

LEMMA HeadEnds ==
  ASSUME NEW g \in Seq(Token)
  PROVE  /\ HeadLen(g) \in 0..Len(g)
         /\ HasHead(g) <=> HeadLen(g) < Len(g)
         /\ HasHead(g) => g[HeadLen(g) + 1] = "end"
         /\ \A j \in 1..HeadLen(g) : g[j] # "end"
<1> DEFINE S == Token \ {"end"}
           i == SkipWhile(g, 1, S)
<1>1. Len(g) \in Nat /\ 1 \in 1..(Len(g) + 1)
  OBVIOUS
<1>2. /\ i \in 1..(Len(g) + 1) /\ (i = Len(g) + 1 \/ g[i] \notin S)
      /\ \A j \in 1..(i - 1) : g[j] \in S
  BY <1>1, SkipFacts
<1>3. HeadLen(g) = i - 1
  BY Zenon DEF HeadLen, Token
<1>4. HasHead(g) <=> \E j \in 1..Len(g) : g[j] = "end"
  BY DEF HasHead, Range
<1> HIDE DEF i
<1>5. \A j \in 1..Len(g) : g[j] \in Token
  OBVIOUS
<1>6. \A j \in 1..(i - 1) : g[j] # "end"
  BY <1>2
<1>7. i # Len(g) + 1 => i \in 1..Len(g) /\ g[i] = "end"
  BY <1>1, <1>2, <1>5
<1>8. i = Len(g) + 1 => ~HasHead(g)
  BY <1>1, <1>4, <1>6
<1>9. i # Len(g) + 1 => HasHead(g)
  BY <1>4, <1>7
<1>10. i - 1 < Len(g) <=> i # Len(g) + 1
  BY <1>1, <1>2
<1>11. (i - 1) + 1 = i /\ i - 1 \in 0..Len(g)
  BY <1>1, <1>2
<1> QED BY <1>3, <1>6, <1>7, <1>8, <1>9, <1>10, <1>11

\* g is the beginning of the answer r.
Got(g, r) == r \in Responses /\ Len(g) \in 0..Len(r.wire) /\ g = SubSeq(r.wire, 1, Len(g))

LEMMA WireFacts ==
  ASSUME NEW r \in Responses
  PROVE  /\ r.wire \in Seq(Token) /\ r.declared \in Nat /\ r.payload \in Seq(Byte)
         /\ HasHead(r.wire) /\ BodyOf(r.wire) \in Seq(Byte)
         /\ HeadLen(r.wire) \in 0..(Len(r.wire) - 1)
         /\ Len(BodyOf(r.wire)) = Len(r.wire) - HeadLen(r.wire) - 1
<1>1. r \in Response /\ Message(r)
  BY HttpAssumption
<1>2. r.wire \in Seq(Token) /\ r.declared \in Nat /\ r.payload \in Seq(Byte)
  BY <1>1 DEF Response, Token
<1>3. HasHead(r.wire) /\ BodyOf(r.wire) \in Seq(Byte)
  BY <1>1 DEF Message
<1> DEFINE w == r.wire
           h == HeadLen(w)
<1>4. h \in 0..Len(w) /\ h < Len(w) /\ Len(w) \in Nat
  BY <1>2, <1>3, HeadEnds
<1>5. BodyOf(w) = SubSeq(w, h + 2, Len(w))
  BY DEF BodyOf
<1> HIDE DEF h
<1>6. Len(SubSeq(w, h + 2, Len(w))) = Len(w) - h - 1
  <2> DEFINE i == h + 2
  <2>1. i \in 1..(Len(w) + 1) /\ Len(w) - i + 1 = Len(w) - h - 1
    BY <1>4
  <2> HIDE DEF i
  <2>2. Len(SubSeq(w, i, Len(w))) = Len(w) - i + 1
    BY <1>2, <2>1
  <2> QED BY <2>1, <2>2 DEF i
<1>7. h \in 0..(Len(w) - 1)
  BY <1>4
<1> QED BY <1>2, <1>3, <1>5, <1>6, <1>7 DEF h

LEMMA GotFacts ==
  ASSUME NEW g, NEW r, Got(g, r)
  PROVE  /\ g \in Seq(Token) /\ r \in Responses
         /\ \A j \in 1..Len(g) : g[j] = r.wire[j]
         /\ Len(g) = Len(r.wire) => g = r.wire
<1>1. r \in Responses /\ Len(g) \in 0..Len(r.wire) /\ g = SubSeq(r.wire, 1, Len(g))
  BY DEF Got
<1>2. r.wire \in Seq(Token)
  BY <1>1, WireFacts
<1> DEFINE w == r.wire
           n == Len(g)
<1>3. n \in Nat /\ n <= Len(w) /\ g = SubSeq(w, 1, n)
  BY <1>1, <1>2
<1> HIDE DEF w, n
<1>4. SubSeq(w, 1, n) \in Seq(Token) /\ \A j \in 1..n : SubSeq(w, 1, n)[j] = w[j]
  BY <1>2, <1>3 DEF w
<1>5. n = Len(w) => SubSeq(w, 1, n) = w
  BY <1>2, <1>3 DEF w
<1> QED BY <1>1, <1>3, <1>4, <1>5 DEF w, n

\* Once its head is there, what was received has the head of the answer and
\* the beginning of its body.
LEMMA HeadFacts ==
  ASSUME NEW g, NEW r, Got(g, r)
  PROVE  /\ HasHead(g) <=> Len(g) > HeadLen(r.wire)
         /\ HasHead(g) => /\ HeadLen(g) = HeadLen(r.wire) /\ HeadOf(g) = HeadOf(r.wire)
                          /\ Begins(BodyOf(g), BodyOf(r.wire))
                          /\ Len(BodyOf(g)) = Len(g) - HeadLen(r.wire) - 1
<1> DEFINE w == r.wire
           h == HeadLen(w)
           k == HeadLen(g)
<1>1. /\ g \in Seq(Token) /\ w \in Seq(Token) /\ Len(g) \in Nat /\ Len(w) \in Nat /\ Len(g) <= Len(w)
      /\ \A j \in 1..Len(g) : g[j] = w[j]
  <2>1. g \in Seq(Token) /\ r \in Responses /\ \A j \in 1..Len(g) : g[j] = w[j]
    BY GotFacts
  <2>2. w \in Seq(Token) /\ Len(g) \in 0..Len(w)
    BY <2>1, WireFacts DEF Got
  <2> HIDE DEF w
  <2> QED BY <2>1, <2>2
<1>2. /\ h \in 0..(Len(w) - 1) /\ w[h + 1] = "end" /\ HasHead(w) /\ \A j \in 1..h : w[j] # "end"
      /\ BodyOf(w) \in Seq(Byte) /\ Len(BodyOf(w)) = Len(w) - h - 1
  BY <1>1, WireFacts, HeadEnds DEF Got
<1>3. /\ k \in 0..Len(g) /\ (HasHead(g) <=> k < Len(g)) /\ (HasHead(g) => g[k + 1] = "end")
      /\ \A j \in 1..k : g[j] # "end"
  BY <1>1, HeadEnds
<1>4. /\ BodyOf(g) = SubSeq(g, k + 2, Len(g)) /\ BodyOf(w) = SubSeq(w, h + 2, Len(w))
      /\ HasHead(g) => HeadOf(g) = SubSeq(g, 1, k)
      /\ HeadOf(w) = SubSeq(w, 1, h)
  BY <1>2, Zenon DEF BodyOf, HeadOf
<1> HIDE DEF w, h, k
<1>5. HasHead(g) => k = h
  <2> SUFFICES ASSUME HasHead(g) PROVE k = h
    OBVIOUS
  <2>1. k + 1 \in 1..Len(g) /\ w[k + 1] = "end" /\ k \in Nat /\ h \in Nat
    BY <1>1, <1>2, <1>3
  <2>2. ~(k + 1 <= h)
    BY <1>2, <2>1
  <2>3. ~(h + 1 <= k)
    <3> SUFFICES ASSUME h + 1 <= k PROVE FALSE
      OBVIOUS
    <3>1. h + 1 \in 1..k /\ h + 1 \in 1..Len(g)
      BY <1>1, <1>3, <2>1
    <3> QED BY <1>1, <1>2, <1>3, <3>1
  <2> QED BY <2>1, <2>2, <2>3
<1>6. HasHead(g) <=> Len(g) > h
  <2>1. HasHead(g) => Len(g) > h
    BY <1>1, <1>3, <1>5
  <2>2. ASSUME Len(g) > h PROVE HasHead(g)
    <3>1. h + 1 \in 1..Len(g)
      BY <1>1, <1>2, <2>2
    <3>2. g[h + 1] = "end"
      BY <1>1, <1>2, <3>1
    <3>3. ~(h + 1 \in 1..k)
      BY <1>3, <3>2
    <3> QED BY <1>1, <1>2, <1>3, <2>2, <3>3
  <2> QED BY <2>1, <2>2
<1>7. ASSUME HasHead(g)
      PROVE  /\ SubSeq(g, 1, h) = SubSeq(w, 1, h)
             /\ Begins(SubSeq(g, h + 2, Len(g)), SubSeq(w, h + 2, Len(w)))
             /\ Len(SubSeq(g, h + 2, Len(g))) = Len(g) - h - 1
  <2> DEFINE i == h + 2
             s == SubSeq(g, i, Len(g))
             t == SubSeq(w, i, Len(w))
  <2>1. i \in 1..(Len(g) + 1) /\ i \in 1..(Len(w) + 1) /\ h \in 0..Len(g) /\ i = h + 2
    BY <1>1, <1>2, <1>6, <1>7
  <2> HIDE DEF i
  <2>2. Len(s) = Len(g) - i + 1 /\ \A j \in 1..Len(s) : s[j] = g[i + j - 1]
    BY <1>1, <2>1
  <2>3. Len(t) = Len(w) - i + 1 /\ \A j \in 1..Len(t) : t[j] = w[i + j - 1]
    BY <1>1, <2>1
  <2>4. t \in Seq(Byte) /\ s \in Seq(Token)
    BY <1>1, <1>2, <1>4, <2>1
  <2> HIDE DEF s, t
  <2>5. Len(s) \in Nat /\ Len(t) \in Nat /\ Len(s) <= Len(t)
    <3>1. i \in Nat /\ i <= Len(g) + 1 /\ i <= Len(w) + 1
      BY <1>1, <2>1
    <3>2. Len(s) = Len(g) - i + 1 /\ Len(t) = Len(w) - i + 1
      BY <2>2, <2>3
    <3> QED BY <1>1, <3>1, <3>2
  <2>6. \A j \in 1..Len(s) : s[j] = t[j]
    <3> SUFFICES ASSUME NEW j \in 1..Len(s) PROVE s[j] = t[j]
      OBVIOUS
    <3>1. j \in 1..Len(t) /\ i + j - 1 \in 1..Len(g)
      BY <1>1, <2>1, <2>2, <2>5
    <3> QED BY <1>1, <2>2, <2>3, <3>1, Zenon
  <2>7. s \in Seq(Byte)
    <3>1. \A j \in 1..Len(s) : s[j] \in Byte
      BY <2>4, <2>5, <2>6
    <3> QED BY <2>4, <2>5, <3>1
  <2>8. Begins(s, t)
    BY <2>4, <2>5, <2>6, <2>7 DEF Begins
  <2>9. SubSeq(g, 1, h) = SubSeq(w, 1, h)
    <3> DEFINE a == SubSeq(g, 1, h)
               c == SubSeq(w, 1, h)
    <3>1. a \in Seq(Token) /\ Len(a) = h /\ \A j \in 1..h : a[j] = g[j]
      BY <1>1, <2>1
    <3>2. c \in Seq(Token) /\ Len(c) = h /\ \A j \in 1..h : c[j] = w[j]
      BY <1>1, <1>2, <2>1
    <3> HIDE DEF a, c
    <3>3. \A j \in 1..h : a[j] = c[j]
      <4>1. \A j \in 1..h : j \in 1..Len(g)
        BY <1>1, <2>1
      <4> QED BY <1>1, <3>1, <3>2, <4>1
    <3>4. a = c
      BY <3>1, <3>2, <3>3
    <3> QED BY <3>4, Zenon DEF a, c
  <2>10. Len(s) = Len(g) - h - 1
    BY <1>1, <1>2, <2>1, <2>2
  <2> QED BY <2>8, <2>9, <2>10, Zenon DEF s, t, i
<1>8. ASSUME HasHead(g)
      PROVE  /\ k = h /\ HeadOf(g) = HeadOf(w) /\ Begins(BodyOf(g), BodyOf(w))
             /\ Len(BodyOf(g)) = Len(g) - h - 1
  BY <1>4, <1>5, <1>7, <1>8, Zenon
<1> QED BY <1>6, <1>8 DEF h, k, w

LEMMA SameHead ==
  ASSUME NEW g, NEW r, Got(g, r), HasHead(g)
  PROVE  /\ Chunked(g) = Chunked(r.wire) /\ HasStatus(g) = HasStatus(r.wire)
         /\ ContentLength(g, r.declared) = ContentLength(r.wire, r.declared)
<1>1. HeadOf(g) = HeadOf(r.wire)
  BY HeadFacts
<1> QED BY <1>1, Zenon DEF Chunked, HasStatus, ContentLength

LEMMA MessageFacts ==
  ASSUME NEW r \in Responses
  PROVE  /\ r.framing \in {"length", "chunked", "close"} /\ r.good \in BOOLEAN
         /\ Chunked(r.wire) <=> r.framing = "chunked"
         /\ r.framing = "length" => /\ ContentLength(r.wire, r.declared) = r.declared
                                    /\ Len(BodyOf(r.wire)) <= r.declared
         /\ r.framing = "close" => ContentLength(r.wire, r.declared) = -1
         /\ r.good <=> HasStatus(r.wire) /\ Meant(r) # {}
         /\ r.good => Meant(r) = {r.payload}
<1>1. r \in Response /\ Message(r)
  BY HttpAssumption
<1>2. r.framing \in {"length", "chunked", "close"} /\ r.good \in BOOLEAN
  BY <1>1 DEF Response
<1>3. /\ r.framing = IF Chunked(r.wire) THEN "chunked"
                     ELSE IF "length" \in Range(HeadOf(r.wire)) THEN "length" ELSE "close"
      /\ r.framing = "length" => Len(BodyOf(r.wire)) <= r.declared
      /\ r.good <=> HasStatus(r.wire) /\ Meant(r) # {}
      /\ r.good => Meant(r) = {r.payload}
  BY <1>1, Zenon DEF Message
<1>4. /\ r.framing = "length" => "length" \in Range(HeadOf(r.wire))
      /\ r.framing = "close" => ~("length" \in Range(HeadOf(r.wire)))
      /\ Chunked(r.wire) <=> r.framing = "chunked"
  BY <1>3
<1> QED BY <1>2, <1>3, <1>4 DEF ContentLength

LEMMA MeantBy ==
  ASSUME NEW r \in Responses
  PROVE  /\ r.framing = "chunked" => Meant(r) = Payloads(BodyOf(r.wire))
         /\ r.framing = "length" =>
              Meant(r) = IF Len(BodyOf(r.wire)) = r.declared THEN {BodyOf(r.wire)} ELSE {}
         /\ r.framing = "close" => Meant(r) = {BodyOf(r.wire)}
BY DEF Meant

\* A chunked body of which the beginning b is a whole chunked body is b.
LEMMA OnlyWhole ==
  ASSUME NEW r \in Responses, r.framing = "chunked", NEW m \in 0..Len(BodyOf(r.wire)),
         Payloads(Upto(BodyOf(r.wire), m)) # {}
  PROVE  m = Len(BodyOf(r.wire)) /\ Upto(BodyOf(r.wire), m) = BodyOf(r.wire)
<1>1. Message(r) /\ BodyOf(r.wire) \in Seq(Byte)
  BY HttpAssumption, WireFacts
<1>2. \A n \in 0..(Len(BodyOf(r.wire)) - 1) : Payloads(Upto(BodyOf(r.wire), n)) = {}
  BY <1>1 DEF Message
<1>3. m = Len(BodyOf(r.wire))
  BY <1>1, <1>2
<1>4. Begins(Upto(BodyOf(r.wire), m), BodyOf(r.wire)) /\ Len(Upto(BodyOf(r.wire), m)) = m
  BY <1>1, UptoFacts
<1> QED BY <1>3, <1>4, BeginsWhole

LEMMA UptoOfBegins ==
  ASSUME NEW b, NEW c, Begins(b, c), NEW m \in 0..Len(b)
  PROVE  Upto(b, m) = Upto(c, m) /\ m \in 0..Len(c)
<1>1. b \in Seq(Byte) /\ c \in Seq(Byte) /\ Len(b) \in Nat /\ Len(c) \in Nat /\ Len(b) <= Len(c)
  BY DEF Begins
<1>2. 1 \in 1..(Len(b) + 1) /\ m \in Int /\ m <= Len(b) /\ m <= Len(c)
  BY <1>1
<1>3. Least(m, Len(b)) = m /\ Least(m, Len(c)) = m
  BY <1>1, <1>2 DEF Least
<1>4. SubSeq(b, 1, m) = SubSeq(c, 1, m)
  BY <1>2, DataBegins
<1> QED BY <1>1, <1>2, <1>3, <1>4 DEF Upto

LEMMA UptoIs ==
  ASSUME NEW b, NEW c, Begins(b, c)
  PROVE  b = Upto(c, Len(b))
<1>1. b \in Seq(Byte) /\ Len(b) \in 0..Len(b)
  BY DEF Begins
<1>2. Upto(b, Len(b)) = Upto(c, Len(b))
  BY <1>1, UptoOfBegins
<1>3. Upto(b, Len(b)) = b
  BY <1>1, UptoFacts, BeginsWhole
<1> QED BY <1>2, <1>3

\* What the fetch path calls a status is the body the answer means.
LEMMA DecodedIsWhole ==
  ASSUME NEW g, NEW r, Got(g, r), NEW cap \in Nat,
         DecodeResponse(g, r.declared, cap).result = "status"
  PROVE  /\ r.good /\ HasHead(g)
         /\ IF r.framing # "close" THEN DecodeResponse(g, r.declared, cap).out = r.payload
            ELSE Begins(DecodeResponse(g, r.declared, cap).out, r.payload)
<1> DEFINE b == BodyOf(g)
           c == BodyOf(r.wire)
           v == DecodeChunked(b, cap)
           length == ContentLength(g, r.declared)
           whole == IF length >= 0 THEN Upto(b, length) ELSE b
           a == DecodeResponse(g, r.declared, cap)
<1>1. a = IF ~HasHead(g) \/ ~HasStatus(g) THEN [result |-> "failed", out |-> <<>>]
          ELSE IF Chunked(g)
            THEN CASE v.rc = 1  -> [result |-> "status", out |-> v.out]
                   [] v.rc = -2 -> [result |-> "toolarge", out |-> <<>>]
                   [] OTHER     -> [result |-> "failed", out |-> <<>>]
          ELSE IF length > Len(b) THEN [result |-> "failed", out |-> <<>>]
          ELSE IF Len(whole) > 0 /\ ~Fits(Len(whole), <<>>, cap) THEN [result |-> "toolarge", out |-> <<>>]
          ELSE [result |-> "status", out |-> whole]
  BY Zenon DEF DecodeResponse
<1> HIDE DEF a, v, length, whole
<1>2. a.result = "status"
  BY DEF a
<1>3. HasHead(g) /\ HasStatus(g)
  BY <1>1, <1>2
<1>4. r \in Responses
  BY DEF Got
<1>5. Begins(b, c)
  BY <1>3, HeadFacts
<1>6. b \in Seq(Byte) /\ c \in Seq(Byte) /\ Len(b) \in Nat /\ Len(c) \in Nat /\ Len(b) <= Len(c)
  BY <1>5 DEF Begins
<1>7. /\ Chunked(g) = Chunked(r.wire) /\ HasStatus(r.wire)
      /\ length = ContentLength(r.wire, r.declared)
  BY <1>3, SameHead DEF length
<1> HIDE DEF b
<1>8. CASE r.framing = "chunked"
  <2>1. Chunked(g)
    BY <1>4, <1>7, <1>8, MessageFacts
  <2>2. v.rc = 1 /\ a.out = v.out
    <3>1. v.rc = 1 \/ a.result # "status"
      BY <1>1, <1>3, <2>1
    <3> QED BY <1>1, <1>2, <1>3, <2>1, <3>1
  <2>3. v = Chunks(b, cap)[1][<<>>] /\ 1 \in 1..(Len(b) + 1) /\ <<>> \in Seq(Byte)
    BY <1>6 DEF v, DecodeChunked
  <2>4. PICK m \in (1 + 1)..Len(b) : \E z \in ChunkedBody(Upto(b, m))[1] : v.out = <<>> \o z
    BY <1>6, <2>2, <2>3, ChunksSound, Zenon
  <2>5. PICK z \in ChunkedBody(Upto(b, m))[1] : v.out = <<>> \o z
    BY <2>4
  <2>6. m \in 0..Len(b)
    BY <1>6
  <2>7. Upto(b, m) = Upto(c, m) /\ m \in 0..Len(c)
    BY <1>5, <2>6, UptoOfBegins, Zenon
  <2>8. z \in Payloads(Upto(c, m))
    BY <2>5, <2>7 DEF Payloads
  <2>9. Upto(c, m) = c
    BY <1>4, <1>8, <2>7, <2>8, OnlyWhole, Zenon
  <2>10. z \in Meant(r)
    BY <1>4, <1>8, <2>8, <2>9, MeantBy
  <2>11. r.good /\ z = r.payload
    BY <1>4, <1>7, <2>10, MessageFacts
  <2>12. <<>> \o z = z
    <3>1. z \in Seq(Byte)
      BY <1>4, <2>11, WireFacts, Zenon
    <3> QED BY <3>1
  <2> QED BY <1>3, <1>8, <2>2, <2>5, <2>11, <2>12 DEF a
<1>9. CASE r.framing = "length"
  <2>1. ~Chunked(g) /\ length = r.declared /\ Len(c) <= r.declared /\ r.declared \in Nat
    BY <1>4, <1>7, <1>9, MessageFacts, WireFacts
  <2>2. ~(length > Len(b)) /\ a.out = whole
    BY <1>1, <1>2, <1>3, <2>1
  <2>3. Len(c) = r.declared /\ Len(b) = Len(c)
    BY <1>6, <2>1, <2>2
  <2>4. b = c
    BY <1>5, <2>3, BeginsWhole
  <2>5. whole = c
    <3>1. whole = Upto(c, Len(c))
      BY <1>6, <2>1, <2>3, <2>4 DEF whole
    <3>2. Begins(c, c)
      BY <1>6 DEF Begins
    <3> QED BY <3>1, <3>2, UptoIs
  <2>6. Meant(r) = {c}
    BY <1>4, <1>9, <2>3, MeantBy
  <2>7. r.good /\ c = r.payload
    BY <1>4, <1>7, <2>6, MessageFacts, Zenon
  <2> QED BY <1>3, <1>9, <2>2, <2>5, <2>7 DEF a
<1>10. CASE r.framing = "close"
  <2>1. ~Chunked(g) /\ length = -1
    BY <1>4, <1>7, <1>10, MessageFacts
  <2>2. a.out = whole /\ whole = b
    BY <1>1, <1>2, <1>3, <1>6, <2>1 DEF whole
  <2>3. Meant(r) = {c}
    BY <1>4, <1>10, MeantBy
  <2>4. r.good /\ c = r.payload
    BY <1>4, <1>7, <2>3, MessageFacts, Zenon
  <2> QED BY <1>3, <1>5, <1>10, <2>2, <2>4, Zenon DEF a
<1> QED BY <1>4, <1>8, <1>9, <1>10, MessageFacts, Zenon

\* The verdict on a body of n bytes in a buffer of cap.
FetchAnswer(r, cap) ==
  IF Len(r.payload) < cap THEN [result |-> "status", out |-> r.payload]
  ELSE [result |-> "toolarge", out |-> <<>>]

\* The body that a good chunked answer stands for.
LEMMA GoodChunks ==
  ASSUME NEW r \in Responses, r.good, r.framing = "chunked"
  PROVE  r.payload \in ChunkedBody(BodyOf(r.wire))[1]
BY MessageFacts, MeantBy DEF Payloads

LEMMA GoodPlain ==
  ASSUME NEW r \in Responses, r.good, r.framing # "chunked"
  PROVE  r.payload = BodyOf(r.wire) /\ (r.framing = "length" => r.declared = Len(r.payload))
<1>1. Meant(r) = {r.payload} /\ r.framing \in {"length", "chunked", "close"}
  BY MessageFacts
<1>2. CASE r.framing = "length"
  <2>1. Meant(r) = IF Len(BodyOf(r.wire)) = r.declared THEN {BodyOf(r.wire)} ELSE {}
    BY <1>2, MeantBy
  <2> QED BY <1>1, <2>1, Zenon
<1>3. CASE r.framing = "close"
  BY <1>1, <1>3, MeantBy, Zenon
<1> QED BY <1>1, <1>2, <1>3

\* A whole good answer is decoded to its payload, or found too large.
LEMMA DecodedVerdict ==
  ASSUME NEW r \in Responses, r.good, NEW cap \in Nat \ {0}
  PROVE  DecodeResponse(r.wire, r.declared, cap) = FetchAnswer(r, cap)
<1> DEFINE g == r.wire
           c == BodyOf(g)
           v == DecodeChunked(c, cap)
           length == ContentLength(g, r.declared)
           whole == IF length >= 0 THEN Upto(c, length) ELSE c
           a == DecodeResponse(g, r.declared, cap)
<1>1. a = IF ~HasHead(g) \/ ~HasStatus(g) THEN [result |-> "failed", out |-> <<>>]
          ELSE IF Chunked(g)
            THEN CASE v.rc = 1  -> [result |-> "status", out |-> v.out]
                   [] v.rc = -2 -> [result |-> "toolarge", out |-> <<>>]
                   [] OTHER     -> [result |-> "failed", out |-> <<>>]
          ELSE IF length > Len(c) THEN [result |-> "failed", out |-> <<>>]
          ELSE IF Len(whole) > 0 /\ ~Fits(Len(whole), <<>>, cap) THEN [result |-> "toolarge", out |-> <<>>]
          ELSE [result |-> "status", out |-> whole]
  BY Zenon DEF DecodeResponse
<1>2. HasHead(g) /\ HasStatus(g) /\ c \in Seq(Byte) /\ Len(c) \in Nat /\ r.payload \in Seq(Byte)
  BY WireFacts, MessageFacts
<1>3. Begins(c, c)
  BY <1>2 DEF Begins
<1> HIDE DEF v, length, whole, a, c
<1>4. CASE r.framing = "chunked"
  <2>1. Chunked(g) /\ r.payload \in ChunkedBody(c)[1]
    BY <1>4, MessageFacts, GoodChunks DEF c
  <2>2. v = Chunks(c, cap)[1][<<>>] /\ 1 \in 1..(Len(c) + 1) /\ <<>> \in Seq(Byte) /\ Len(<<>>) < cap
    BY <1>2 DEF v, DecodeChunked
  <2>3. Decoded(c, c, cap, <<>>, r.payload, v)
    BY <1>3, <2>1, <2>2, ChunksOfWhole, Zenon
  <2>4. <<>> \o r.payload = r.payload /\ Len(<<>>) + Len(r.payload) = Len(r.payload) /\ Len(r.payload) \in Nat
    BY <1>2
  <2>5. \/ v.rc = -2 /\ ~(Len(r.payload) < cap)
        \/ v.rc = 1 /\ v.out = r.payload /\ Len(r.payload) < cap
    BY <2>3, <2>4 DEF Decoded
  <2>6. a = IF v.rc = 1 THEN [result |-> "status", out |-> v.out]
            ELSE IF v.rc = -2 THEN [result |-> "toolarge", out |-> <<>>]
            ELSE [result |-> "failed", out |-> <<>>]
    BY <1>1, <1>2, <2>1, <2>5
  <2> QED BY <2>5, <2>6 DEF FetchAnswer, a
<1>5. CASE r.framing # "chunked"
  <2>1. ~Chunked(g) /\ r.payload = c
    BY <1>5, MessageFacts, GoodPlain DEF c
  <2>2. length = -1 \/ length = Len(c)
    BY <1>5, <2>1, MessageFacts, GoodPlain DEF length
  <2>3. whole = c /\ ~(length > Len(c))
    <3>1. Upto(c, Len(c)) = c
      BY <1>3, UptoIs
    <3> QED BY <1>2, <2>2, <3>1 DEF whole
  <2>4. Len(c) > 0 /\ ~Fits(Len(c), <<>>, cap) <=> ~(Len(c) < cap)
    BY <1>2 DEF Fits
  <2> QED BY <1>1, <1>2, <2>1, <2>3, <2>4 DEF FetchAnswer, a
<1> QED BY <1>4, <1>5

\* The fetch path finds a good answer complete when all of it is there.
LEMMA CompleteIsWhole ==
  ASSUME NEW g, NEW r, Got(g, r), r.good, HasHead(g)
  PROVE  /\ BodyComplete(g, r.declared) => g = r.wire
         /\ r.framing # "close" /\ g = r.wire => BodyComplete(g, r.declared)
         /\ r.framing = "close" => ~BodyComplete(g, r.declared)
         /\ Chunked(g) => ~(DecodeChunked(BodyOf(g), 0).rc < 0)
<1> DEFINE w == r.wire
           b == BodyOf(g)
           c == BodyOf(w)
           v == DecodeChunked(b, 0)
<1>1. r \in Responses /\ Begins(b, c) /\ Len(b) = Len(g) - HeadLen(w) - 1
  BY HeadFacts DEF Got
<1>2. /\ b \in Seq(Byte) /\ c \in Seq(Byte) /\ Len(b) \in Nat /\ Len(c) \in Nat /\ Len(b) <= Len(c)
      /\ Len(c) = Len(w) - HeadLen(w) - 1 /\ HeadLen(w) \in Nat /\ w \in Seq(Token) /\ r.payload \in Seq(Byte)
  <2>1. HeadLen(w) \in 0..(Len(w) - 1)
    BY <1>1, WireFacts
  <2> QED BY <1>1, <2>1, WireFacts DEF Begins
<1>3. Len(b) = Len(c) <=> g = w
  <2>1. Len(g) \in 0..Len(w) /\ (Len(g) = Len(w) => g = w)
    BY GotFacts DEF Got
  <2>2. Len(w) \in Nat /\ Len(g) \in Nat
    BY <1>2, <2>1
  <2> HIDE DEF w, b, c
  <2> QED BY <1>1, <1>2, <2>1, <2>2 DEF b, c
<1>4. /\ Chunked(g) <=> r.framing = "chunked"
      /\ ContentLength(g, r.declared) = ContentLength(w, r.declared)
  BY <1>1, SameHead, MessageFacts
<1>5. BodyComplete(g, r.declared) <=> IF Chunked(g) THEN v.rc # 0
                                      ELSE ContentLength(g, r.declared) \in 0..Len(b)
  BY Zenon DEF BodyComplete
<1> HIDE DEF w, b, c, v
<1>6. CASE r.framing = "chunked"
  <2>1. r.payload \in ChunkedBody(c)[1]
    BY <1>1, <1>6, GoodChunks DEF c, w
  <2>2. v = Chunks(b, 0)[1][<<>>] /\ 1 \in 1..(Len(b) + 1) /\ <<>> \in Seq(Byte)
    BY <1>2 DEF v, DecodeChunked
  <2>3. Decoded(b, c, 0, <<>>, r.payload, v)
    BY <1>1, <2>1, <2>2, ChunksOfWhole, Zenon
  <2>4. (v.rc = 0 /\ Len(b) # Len(c)) \/ (v.rc = 1 /\ Len(b) = Len(c))
    BY <2>3 DEF Decoded
  <2>5. ~(v.rc < 0) /\ (v.rc # 0 <=> Len(b) = Len(c))
    BY <2>4
  <2> QED BY <1>3, <1>4, <1>5, <1>6, <2>5 DEF w, v, b
<1>7. CASE r.framing = "length"
  <2>1. ContentLength(g, r.declared) = Len(c) /\ ~Chunked(g)
    BY <1>1, <1>4, <1>7, MessageFacts, GoodPlain DEF c, w
  <2>2. Len(c) \in 0..Len(b) <=> Len(b) = Len(c)
    BY <1>2
  <2> QED BY <1>3, <1>5, <1>7, <2>1, <2>2 DEF w
<1>8. CASE r.framing = "close"
  <2>1. ContentLength(g, r.declared) = -1 /\ ~Chunked(g)
    BY <1>1, <1>4, <1>8, MessageFacts DEF w
  <2>2. ~(-1 \in 0..Len(b))
    BY <1>2
  <2> QED BY <1>5, <1>8, <2>1, <2>2
<1> QED BY <1>1, <1>6, <1>7, <1>8, MessageFacts

Answers == [result : {"status", "failed", "toolarge"}, out : Seq(Byte)]

LEMMA BeginsOfBegins ==
  ASSUME NEW a, NEW b, NEW c, Begins(a, b), Begins(b, c)
  PROVE  Begins(a, c)
<1>1. /\ a \in Seq(Byte) /\ c \in Seq(Byte) /\ Len(a) \in Nat /\ Len(b) \in Nat /\ Len(c) \in Nat
      /\ Len(a) <= Len(b) /\ Len(b) <= Len(c) /\ \A i \in 1..Len(a) : a[i] = b[i]
      /\ \A i \in 1..Len(b) : b[i] = c[i]
  BY DEF Begins
<1>2. Len(a) <= Len(c) /\ \A i \in 1..Len(a) : i \in 1..Len(b)
  BY <1>1
<1> QED BY <1>1, <1>2 DEF Begins

LEMMA UptoBegins ==
  ASSUME NEW c \in Seq(Byte), NEW n \in Nat
  PROVE  Begins(Upto(c, n), c) /\ Len(Upto(c, n)) = Least(n, Len(c)) /\ Upto(c, n) = Upto(c, Least(n, Len(c)))
<1> DEFINE m == Least(n, Len(c))
<1>1. m \in 0..Len(c) /\ Least(m, Len(c)) = m
  BY DEF Least
<1>2. Upto(c, n) = Upto(c, m)
  BY <1>1, Zenon DEF Upto
<1> HIDE DEF m
<1>3. Begins(Upto(c, m), c) /\ Len(Upto(c, m)) = m
  BY <1>1, UptoFacts
<1> QED BY <1>2, <1>3 DEF m

LEMMA DecodedType ==
  ASSUME NEW g, NEW r, Got(g, r), NEW cap \in Nat
  PROVE  DecodeResponse(g, r.declared, cap) \in Answers
<1> DEFINE b == BodyOf(g)
           v == DecodeChunked(b, cap)
           length == ContentLength(g, r.declared)
           whole == IF length >= 0 THEN Upto(b, length) ELSE b
           a == DecodeResponse(g, r.declared, cap)
<1>1. a = IF ~HasHead(g) \/ ~HasStatus(g) THEN [result |-> "failed", out |-> <<>>]
          ELSE IF Chunked(g)
            THEN CASE v.rc = 1  -> [result |-> "status", out |-> v.out]
                   [] v.rc = -2 -> [result |-> "toolarge", out |-> <<>>]
                   [] OTHER     -> [result |-> "failed", out |-> <<>>]
          ELSE IF length > Len(b) THEN [result |-> "failed", out |-> <<>>]
          ELSE IF Len(whole) > 0 /\ ~Fits(Len(whole), <<>>, cap) THEN [result |-> "toolarge", out |-> <<>>]
          ELSE [result |-> "status", out |-> whole]
  BY Zenon DEF DecodeResponse
<1>2. \A o \in Seq(Byte) : [result |-> "status", out |-> o] \in Answers
  BY DEF Answers
<1>3. [result |-> "failed", out |-> <<>>] \in Answers /\ [result |-> "toolarge", out |-> <<>>] \in Answers
  BY DEF Answers
<1>4. ASSUME HasHead(g) PROVE b \in Seq(Byte) /\ v.rc \in {-2, -1, 0, 1} /\ v.out \in Seq(Byte) /\ whole \in Seq(Byte)
  <2>1. b \in Seq(Byte)
    BY <1>4, HeadFacts DEF Begins
  <2>2. Chunks(b, cap) \in [1..(Len(b) + 1) -> [Seq(Byte) -> Verdicts]] /\ 1 \in 1..(Len(b) + 1) /\ <<>> \in Seq(Byte)
    BY <2>1, ChunksUnfold
  <2>3. v \in Verdicts
    <3> HIDE DEF b
    <3> QED BY <2>2, Zenon DEF DecodeChunked
  <2>4. r.declared \in Nat
    BY WireFacts DEF Got
  <2>5. length \in Nat \/ length = -1
    BY <2>4 DEF ContentLength
  <2>6. length \in Nat => Upto(b, length) \in Seq(Byte)
    BY <2>1, UptoBegins DEF Begins
  <2> HIDE DEF b, length, v
  <2> QED BY <2>1, <2>3, <2>5, <2>6 DEF Verdicts
<1> HIDE DEF a, b, v, length, whole
<1>5. v.rc = -2 => v.rc # 1
  OBVIOUS
<1>6. a \in Answers
  <2>1. CASE ~HasHead(g)
    BY <1>1, <1>3, <2>1
  <2>2. CASE HasHead(g) /\ Chunked(g)
    <3>1. a \in {[result |-> "status", out |-> v.out], [result |-> "failed", out |-> <<>>],
                 [result |-> "toolarge", out |-> <<>>]}
      BY <1>1, <1>4, <2>2
    <3> QED BY <1>2, <1>3, <1>4, <2>2, <3>1
  <2>3. CASE HasHead(g) /\ ~Chunked(g)
    BY <1>1, <1>2, <1>3, <1>4, <2>3
  <2> QED BY <2>1, <2>2, <2>3
<1> QED BY <1>6 DEF a

LEMMA MetaType ==
  ASSUME NEW g, NEW r, Got(g, r), NEW cap \in Nat \ {0}
  PROVE  ResponseMeta(g, cap) \in Answers
<1> DEFINE b == BodyOf(g)
           out == IF ~HasHead(g) THEN <<>>
                  ELSE IF Chunked(g) THEN ChunkedPrefix(b, cap).out ELSE Upto(b, cap - 1)
<1>1. ASSUME HasHead(g) PROVE ChunkedPrefix(b, cap).out \in Seq(Byte) /\ Upto(b, cap - 1) \in Seq(Byte)
  <2>1. b \in Seq(Byte)
    BY <1>1, HeadFacts DEF Begins
  <2>2. /\ CopiedFrom(b, cap) \in [1..(Len(b) + 1) -> [Seq(Byte) -> Notices]]
        /\ 1 \in 1..(Len(b) + 1) /\ <<>> \in Seq(Byte)
    BY <2>1, CopiedUnfold
  <2>3. Begins(Upto(b, cap - 1), b)
    <3>1. cap - 1 \in Nat
      OBVIOUS
    <3> QED BY <2>1, <3>1, UptoBegins
  <2>4. ChunkedPrefix(b, cap) \in Notices
    <3> HIDE DEF b
    <3> QED BY <2>2, Zenon DEF ChunkedPrefix
  <2> QED BY <2>3, <2>4 DEF Begins, Notices
<1>2. out \in Seq(Byte)
  BY <1>1
<1>3. ResponseMeta(g, cap) = [result |-> IF HasStatus(g) THEN "status" ELSE "failed", out |-> out]
  BY Zenon DEF ResponseMeta
<1> HIDE DEF out
<1> QED BY <1>2, <1>3 DEF Answers

\* What the send path hands on of a good answer.
LEMMA MetaFaithful ==
  ASSUME NEW g, NEW r, Got(g, r), r.good, NEW cap \in Nat \ {0, 1}
  PROVE  /\ Begins(ResponseMeta(g, cap).out, r.payload)
         /\ r.framing # "close" /\ (SendComplete(g, r.declared, cap) \/ g = r.wire) =>
              ResponseMeta(g, cap) = [result |-> "status", out |-> Upto(r.payload, cap - 1)]
<1> DEFINE w == r.wire
           b == BodyOf(g)
           c == BodyOf(w)
           v == ChunkedPrefix(b, cap)
           z == r.payload
           a == ResponseMeta(g, cap)
<1>1. r \in Responses /\ z \in Seq(Byte) /\ HasHead(w) /\ r.declared \in Nat
  BY WireFacts DEF Got
<1>2. a = [result |-> IF HasStatus(g) THEN "status" ELSE "failed",
           out |-> IF ~HasHead(g) THEN <<>> ELSE IF Chunked(g) THEN v.out ELSE Upto(b, cap - 1)]
  BY Zenon DEF ResponseMeta
<1>3. SendComplete(g, r.declared, cap) <=>
        /\ HasHead(g)
        /\ IF Chunked(g) THEN v.done \/ Len(v.out) >= cap - 1
           ELSE IF ContentLength(g, r.declared) >= 0
             THEN Len(b) >= ContentLength(g, r.declared) \/ Len(b) >= cap - 1
           ELSE Len(b) > 0
  BY Zenon DEF SendComplete
<1>4. cap - 1 \in Nat
  OBVIOUS
<1>5. ASSUME NEW s, Begins(s, z), Len(s) = Least(cap - 1, Len(z)) PROVE s = Upto(z, cap - 1)
  <2>1. s = Upto(z, Len(s))
    BY <1>5, UptoIs
  <2>2. Upto(z, cap - 1) = Upto(z, Least(cap - 1, Len(z)))
    BY <1>1, <1>4, UptoBegins
  <2> QED BY <1>5, <2>1, <2>2
<1> HIDE DEF a, v, z
<1>6. CASE ~HasHead(g)
  <2>1. a.out = <<>>
    BY <1>2, <1>6
  <2>1a. Begins(<<>>, z)
    BY <1>1 DEF Begins
  <2>2. g # w /\ ~SendComplete(g, r.declared, cap)
    BY <1>1, <1>3, <1>6
  <2> QED BY <2>1, <2>1a, <2>2 DEF a, z
<1>7. CASE HasHead(g)
  <2>1. Begins(b, c) /\ HasStatus(g) /\ (Chunked(g) <=> r.framing = "chunked")
        /\ ContentLength(g, r.declared) = ContentLength(w, r.declared)
    BY <1>1, <1>7, HeadFacts, SameHead, MessageFacts
  <2>2. b \in Seq(Byte) /\ c \in Seq(Byte) /\ Len(b) \in Nat /\ Len(c) \in Nat /\ Len(b) <= Len(c)
    BY <2>1 DEF Begins
  <2>3. g = w => Len(b) = Len(c)
    OBVIOUS
  <2> HIDE DEF b, c, w
  <2>4. CASE r.framing = "chunked"
    <3>1. z \in ChunkedBody(c)[1]
      BY <1>1, <2>4, GoodChunks DEF c, w, z
    <3>2. v = CopiedFrom(b, cap)[1][<<>>] /\ 1 \in 1..(Len(b) + 1) /\ <<>> \in Seq(Byte) /\ Len(<<>>) + 1 < cap
      BY <2>2 DEF v, ChunkedPrefix
    <3>3. Noticed(b, c, cap, <<>> \o z, v)
      BY <2>1, <3>1, <3>2, CopiedOfWhole, Zenon
    <3>4. <<>> \o z = z
      BY <1>1
    <3>5. a = [result |-> "status", out |-> v.out]
      BY <1>2, <1>7, <2>1, <2>4, Zenon
    <3>6. /\ Begins(v.out, z)
          /\ v.done \/ Len(v.out) >= cap - 1 \/ Len(b) = Len(c) => Len(v.out) = Least(cap - 1, Len(z))
      BY <3>3, <3>4 DEF Noticed
    <3>7. ASSUME SendComplete(g, r.declared, cap) \/ g = w PROVE v.out = Upto(z, cap - 1)
      BY <1>3, <1>5, <2>1, <2>3, <2>4, <3>6, <3>7
    <3>8. Begins(a.out, z) /\ (SendComplete(g, r.declared, cap) \/ g = w
                                => a = [result |-> "status", out |-> Upto(z, cap - 1)])
      BY <3>5, <3>6, <3>7
    <3> QED BY <3>8 DEF a, z, w
  <2>5. CASE r.framing # "chunked"
    <3> DEFINE s == Upto(b, cap - 1)
    <3>1. z = c /\ (r.framing = "length" => ContentLength(g, r.declared) = Len(c))
      BY <1>1, <2>1, <2>5, GoodPlain, MessageFacts DEF z, c, w
    <3>2. a = [result |-> "status", out |-> s]
      BY <1>2, <1>7, <2>1, <2>5, Zenon
    <3>3. Begins(s, b) /\ Len(s) = Least(cap - 1, Len(b))
      BY <1>4, <2>2, UptoBegins, Zenon
    <3> HIDE DEF s
    <3>4. Begins(s, z)
      BY <2>1, <3>1, <3>3, BeginsOfBegins
    <3>5. ASSUME r.framing # "close", SendComplete(g, r.declared, cap) \/ g = w
          PROVE  s = Upto(z, cap - 1)
      <4>1. r.framing = "length"
        BY <1>1, <2>5, <3>5, MessageFacts
      <4>2. Len(b) >= Len(c) \/ Len(b) >= cap - 1
        BY <1>3, <2>1, <2>2, <2>3, <2>5, <3>1, <3>5, <4>1
      <4>3. Least(cap - 1, Len(b)) = Least(cap - 1, Len(c))
        BY <1>4, <2>2, <4>2 DEF Least
      <4> QED BY <1>5, <3>1, <3>3, <3>4, <4>3
    <3>6. Begins(a.out, z) /\ (r.framing # "close" /\ (SendComplete(g, r.declared, cap) \/ g = w)
                                => a = [result |-> "status", out |-> Upto(z, cap - 1)])
      BY <3>2, <3>4, <3>5
    <3> QED BY <3>6 DEF a, z, w
  <2> QED BY <2>4, <2>5
<1> QED BY <1>6, <1>7

-----------------------------------------------------------------------------
(* What the call returns.                                                   *)

TooLarge == [result |-> "toolarge", out |-> <<>>]
PlainFetch == scheme = "http" /\ mode = "fetch"

\* A reader that goes on has not enough; one that stopped returns what its
\* reason to stop makes of the bytes in hand.
AnswerOK ==
  /\ pc \in {"call", "connect", "handshake", "send"} => got = <<>>
  /\ pc = "read" => got = <<>> \/ ~Enough(got)
  /\ pc # "done" => answer = Failed
  /\ pc = "done" =>
       \/ answer = Failed /\ stop \in {"refused", "error", "deadline"}
       \/ /\ stop = "room" /\ Len(got) = Room /\ (got = <<>> \/ ~Enough(got))
          /\ IF PlainFetch THEN answer = TooLarge ELSE answer = Finish(got, FALSE)
       \/ stop \in {"error", "deadline"} /\ answer = Finish(got, FALSE)
       \/ /\ stop = "enough" /\ Enough(got)
          /\ IF PlainFetch THEN answer = PlainFetchAnswer(got) ELSE answer = Finish(got, FALSE)
       \/ stop = "closed" /\ answer = Finish(got, TRUE)

Stages == {"call", "connect", "handshake", "send", "read", "done"}
Stops == {"none", "refused", "enough", "room", "closed", "error", "deadline"}

CallOK ==
  /\ StoredOK /\ IInv /\ AnswerOK
  /\ pc \in Stages /\ addrs \in 0..MaxAddrs /\ sent \in 0..ReqLen /\ stop \in Stops

\* The readers look at the bytes and at what was asked, nothing else.
LEMMA SameCall ==
  ASSUME UNCHANGED call
  PROVE  /\ (Enough(got)' <=> Enough(got')) /\ Room' = Room /\ (PlainFetch' <=> PlainFetch)
         /\ Finish(got, FALSE)' = Finish(got', FALSE) /\ Finish(got, TRUE)' = Finish(got', TRUE)
         /\ PlainFetchAnswer(got)' = PlainFetchAnswer(got')
<1>1. scheme' = scheme /\ mode' = mode /\ resp' = resp
  BY DEF call
<1> QED BY <1>1, Zenon DEF Enough, Room, PlainFetch, Finish, PlainFetchAnswer, PlainFetchStops,
               DeclaredTooLarge, Framed

LEMMA StepAnswers ==
  ASSUME AnswerOK, [Next]_vars
  PROVE  AnswerOK'
<1>1. UNCHANGED call
  BY Zenon DEF Next, vars, call, Refused, Resolve, GiveUp, NoSocket, ConnectFails, Connect, Handshake,
     Interrupted, Write, WriteFails, WriteTooLate, BufferFull, ReadTooLate, Read, PeerCloses,
     ReadFails, ReadInterrupted, Returned
<1>2. /\ (Enough(got)' <=> Enough(got')) /\ Room' = Room /\ (PlainFetch' <=> PlainFetch)
      /\ Finish(got, FALSE)' = Finish(got', FALSE) /\ Finish(got, TRUE)' = Finish(got', TRUE)
      /\ PlainFetchAnswer(got)' = PlainFetchAnswer(got')
  BY <1>1, SameCall, Zenon
<1>3. Failed' = Failed
  BY DEF Failed
<1>4. CASE Refused
  BY <1>3, <1>4 DEF AnswerOK, Refused, Return
<1>5. CASE Resolve
  BY <1>3, <1>5 DEF AnswerOK, Resolve
<1>6. CASE GiveUp
  BY <1>3, <1>6 DEF AnswerOK, GiveUp, Return
<1>7. CASE NoSocket
  BY <1>3, <1>7 DEF AnswerOK, NoSocket, TriesAddress
<1>8. CASE ConnectFails
  BY <1>3, <1>8 DEF AnswerOK, ConnectFails, TriesAddress
<1>9. CASE Connect
  BY <1>3, <1>9 DEF AnswerOK, Connect, TriesAddress
<1>10. CASE Handshake
  BY <1>3, <1>10 DEF AnswerOK, Handshake
<1>11. CASE Interrupted
  BY <1>3, <1>11, Zenon DEF AnswerOK, Interrupted
<1>12. CASE Write
  BY <1>3, <1>12 DEF AnswerOK, Write
<1>13. CASE WriteFails
  BY <1>3, <1>13 DEF AnswerOK, WriteFails, Hangup, Return
<1>14. CASE WriteTooLate
  BY <1>3, <1>14 DEF AnswerOK, WriteTooLate, Hangup, Return
<1>15. CASE BufferFull
  <2>1. /\ pc = "read" /\ Len(got) = Room /\ pc' = "done" /\ stop' = "room" /\ got' = got
        /\ IF PlainFetch THEN answer' = TooLarge ELSE answer' = Finish(got, FALSE)
    BY <1>15, Zenon DEF BufferFull, Hangup, Return, PlainFetch, TooLarge
  <2>2. got = <<>> \/ ~Enough(got)
    BY <2>1 DEF AnswerOK
  <2>3. TooLarge' = TooLarge
    BY DEF TooLarge
  <2>4. /\ pc' = "done" /\ stop' = "room" /\ Len(got') = Room' /\ (got' = <<>> \/ ~Enough(got)')
        /\ IF PlainFetch' THEN answer' = TooLarge' ELSE answer' = Finish(got, FALSE)'
    BY <1>2, <2>1, <2>2, <2>3, Zenon
  <2> QED BY <2>4, Zenon DEF AnswerOK
<1>16. CASE ReadTooLate
  <2>1. /\ pc' = "done" /\ stop' = "deadline" /\ got' = got
        /\ answer' = Failed \/ answer' = Finish(got, FALSE)
    BY <1>16, Zenon DEF ReadTooLate, Hangup, Return
  <2> QED BY <1>2, <1>3, <2>1, Zenon DEF AnswerOK
<1>17. CASE Read
  <2>1. pc = "read"
    BY <1>17 DEF Read, Reads
  <2>2. CASE Enough(got')
    <3>1. /\ pc' = "done" /\ stop' = "enough"
          /\ IF PlainFetch THEN answer' = PlainFetchAnswer(got') ELSE answer' = Finish(got', FALSE)
      BY <1>17, <2>2, Zenon DEF Read, Hangup, Return, PlainFetch
    <3>2. /\ pc' = "done" /\ stop' = "enough" /\ Enough(got)'
          /\ IF PlainFetch' THEN answer' = PlainFetchAnswer(got)' ELSE answer' = Finish(got, FALSE)'
      BY <1>2, <2>2, <3>1, Zenon
    <3> QED BY <3>2, Zenon DEF AnswerOK
  <2>3. CASE ~Enough(got')
    <3>1. pc' = "read" /\ answer' = answer
      BY <1>17, <2>1, <2>3 DEF Read
    <3> QED BY <1>2, <1>3, <2>1, <2>3, <3>1 DEF AnswerOK
  <2> QED BY <2>2, <2>3
<1>18. CASE PeerCloses
  <2>1. pc' = "done" /\ stop' = "closed" /\ got' = got /\ answer' = Finish(got, TRUE)
    BY <1>18 DEF PeerCloses, Hangup, Return
  <2> QED BY <1>2, <1>3, <2>1, Zenon DEF AnswerOK
<1>19. CASE ReadFails
  <2>1. pc' = "done" /\ stop' = "error" /\ got' = got /\ answer' = Finish(got, FALSE)
    BY <1>19 DEF ReadFails, Hangup, Return
  <2> QED BY <1>2, <1>3, <2>1, Zenon DEF AnswerOK
<1>20. CASE ReadInterrupted \/ Returned \/ UNCHANGED vars
  <2>1. got' = got /\ pc' = pc /\ stop' = stop /\ answer' = answer
    BY <1>20 DEF ReadInterrupted, Returned, vars
  <2>2. TooLarge' = TooLarge
    BY DEF TooLarge
  <2>3. /\ (Enough(got)' <=> Enough(got)) /\ Room' = Room /\ (PlainFetch' <=> PlainFetch)
        /\ Finish(got, FALSE)' = Finish(got, FALSE) /\ Finish(got, TRUE)' = Finish(got, TRUE)
        /\ PlainFetchAnswer(got)' = PlainFetchAnswer(got)
    BY <1>2, <2>1, Zenon
  <2> QED BY <1>3, <2>1, <2>2, <2>3, Zenon DEF AnswerOK
<1> QED
  BY <1>4, <1>5, <1>6, <1>7, <1>8, <1>9, <1>10, <1>11, <1>12, <1>13, <1>14, <1>15,
     <1>16, <1>17, <1>18, <1>19, <1>20 DEF Next

LEMMA StepCounts ==
  ASSUME pc \in Stages, addrs \in 0..MaxAddrs, sent \in 0..ReqLen, stop \in Stops, [Next]_vars
  PROVE  pc' \in Stages /\ addrs' \in 0..MaxAddrs /\ sent' \in 0..ReqLen /\ stop' \in Stops
<1>1. MaxAddrs \in Nat /\ ReqLen \in Nat
  BY HttpAssumption
<1>2. pc' \in Stages /\ stop' \in Stops
  BY Zenon DEF Next, vars, Refused, Resolve, GiveUp, NoSocket, ConnectFails, Connect, Handshake,
     Interrupted, Write, WriteFails, WriteTooLate, BufferFull, ReadTooLate, Read, PeerCloses,
     ReadFails, ReadInterrupted, Returned, TriesAddress, Hangup, Return, Stages, Stops
<1>3. addrs' \in 0..MaxAddrs
  <2>1. \/ addrs' = addrs \/ (addrs > 0 /\ addrs' = addrs - 1) \/ \E n \in 1..MaxAddrs : addrs' = n
    BY Zenon DEF Next, vars, Refused, Resolve, GiveUp, NoSocket, ConnectFails, Connect, Handshake,
       Interrupted, Write, WriteFails, WriteTooLate, BufferFull, ReadTooLate, Read, PeerCloses,
       ReadFails, ReadInterrupted, Returned, TriesAddress
  <2> QED BY <1>1, <2>1
<1>4. sent' \in 0..ReqLen
  <2>1. sent' = sent \/ \E n \in 1..(ReqLen - sent) : sent' = sent + n
    BY Zenon DEF Next, vars, Refused, Resolve, GiveUp, NoSocket, ConnectFails, Connect, Handshake,
       Interrupted, Write, WriteFails, WriteTooLate, BufferFull, ReadTooLate, Read, PeerCloses,
       ReadFails, ReadInterrupted, Returned, TriesAddress
  <2> QED BY <1>1, <2>1
<1> QED BY <1>2, <1>3, <1>4

LEMMA CallInvariant == Spec => []CallOK
<1>1. Init => CallOK
  <2> SUFFICES ASSUME Init PROVE CallOK
    OBVIOUS
  <2>1. StoredOK
    BY InitStores
  <2>2. IInv
    BY HttpAssumption DEF Init, Schemes, IInv, SocketsReturned, DeadlineKept
  <2>3. AnswerOK
    BY DEF Init, AnswerOK
  <2>4. pc \in Stages /\ addrs \in 0..MaxAddrs /\ sent \in 0..ReqLen /\ stop \in Stops
    BY HttpAssumption DEF Init, Stages, Stops
  <2> QED BY <2>1, <2>2, <2>3, <2>4 DEF CallOK
<1>2. CallOK /\ [Next]_vars => CallOK'
  BY StepStores, StepKeepsIInv, StepAnswers, StepCounts DEF CallOK, Stages, Stops
<1> QED BY <1>1, <1>2, PTL DEF Spec

\* What the reader holds is the beginning of the answer.
LEMMA CallGot ==
  ASSUME StoredOK
  PROVE  /\ Got(got, resp) /\ resp \in Responses /\ resp.declared \in Nat
         /\ Len(got) \in Nat /\ Len(resp.wire) \in Nat
         /\ OutCap \in Nat \ {0, 1} /\ MetaCap \in Nat \ {0, 1} /\ HeaderCap \in Nat \ {0, 1}
<1>1. resp \in Responses /\ Len(got) \in Nat /\ Len(resp.wire) \in Nat /\ resp.declared \in Nat
  BY RoomIsNat, WireFacts DEF StoredOK
<1>2. Got(got, resp)
  BY <1>1 DEF StoredOK, ReadIntoBuffer, Got
<1> QED BY <1>1, <1>2, HttpAssumption

LEMMA FinishType ==
  ASSUME StoredOK, NEW closed \in BOOLEAN
  PROVE  Finish(got, closed) \in Answers /\ Failed \in Answers /\ TooLarge \in Answers
<1>1. Failed \in Answers /\ TooLarge \in Answers
  BY DEF Failed, TooLarge, Answers
<1>2. DecodeResponse(got, resp.declared, OutCap) \in Answers /\ ResponseMeta(got, MetaCap) \in Answers
  BY CallGot, DecodedType, MetaType
<1> QED BY <1>1, <1>2, Zenon DEF Finish

\* Every variable of a request keeps its type, and the answer is one of the
\* three the callers tell apart.
THEOREM ExchangeTypes == Spec => []TypeOK
<1>1. CallOK => TypeOK
  <2> SUFFICES ASSUME CallOK PROVE TypeOK
    OBVIOUS
  <2>1. StoredOK /\ IInv /\ AnswerOK
    BY DEF CallOK
  <2>2. got \in Seq(Byte \cup HeadToken)
    BY <2>1, CallGot, GotFacts DEF Token
  <2>3. answer \in Answers
    <3>1. /\ Finish(got, FALSE) \in Answers /\ Finish(got, TRUE) \in Answers
          /\ Failed \in Answers /\ TooLarge \in Answers
      BY <2>1, FinishType, Zenon
    <3>2. PlainFetchAnswer(got) \in Answers
      BY <3>1, Zenon DEF PlainFetchAnswer, TooLarge
    <3>3. pc = "done" => \/ answer = Failed \/ answer = TooLarge \/ answer = Finish(got, FALSE)
                         \/ answer = Finish(got, TRUE) \/ answer = PlainFetchAnswer(got)
      BY <2>1, Zenon DEF AnswerOK
    <3>4. pc # "done" => answer = Failed
      BY <2>1 DEF AnswerOK
    <3> QED BY <3>1, <3>2, <3>3, <3>4, Zenon
  <2>4. open \in Nat
    BY <2>1 DEF IInv, SocketsReturned
  <2>5. now \in Nat /\ resolved \in Nat
    BY <2>1 DEF IInv
  <2>6. Len(got) <= IF mode = "fetch" THEN RawCap
                    ELSE IF scheme = "http" THEN StatusBuf - 1 ELSE TlsStatusBuf
    BY <2>1 DEF StoredOK, ReadIntoBuffer, Room
  <2> QED BY <2>1, <2>2, <2>3, <2>4, <2>5, <2>6 DEF CallOK, StoredOK, TypeOK, Stages, Stops, Answers
<1> QED BY <1>1, CallInvariant, PTL

\* For every answer and every way of cutting and ending it, a status from
\* http_fetch comes with the whole body (read_body_response, do_tls,
\* decode_response_body, decode_chunked_full).
THEOREM FetchReturnsWhole == Spec => []FetchedIsWhole
<1>1. CallOK => FetchedIsWhole
  <2> SUFFICES ASSUME CallOK, pc = "done", mode = "fetch", answer.result = "status"
               PROVE  /\ resp.good
                      /\ IF resp.framing # "close" THEN answer.out = resp.payload
                         ELSE /\ answer.out = Upto(resp.payload, Len(answer.out))
                              /\ scheme = "http" => stop = "closed"
    BY DEF FetchedIsWhole
  <2> DEFINE a == DecodeResponse(got, resp.declared, OutCap)
  <2>1. StoredOK /\ AnswerOK
    BY DEF CallOK
  <2>2. Got(got, resp) /\ resp \in Responses /\ OutCap \in Nat
    BY <2>1, CallGot
  <2>3. answer # Failed /\ answer # TooLarge
    BY DEF Failed, TooLarge
  <2>4. \/ answer = Finish(got, FALSE)
        \/ answer = Finish(got, TRUE) /\ stop = "closed"
        \/ answer = PlainFetchAnswer(got)
    BY <2>1, <2>3, Zenon DEF AnswerOK
  <2>5. answer = Finish(got, FALSE) \/ (answer = Finish(got, TRUE) /\ stop = "closed")
    BY <2>3, <2>4, Zenon DEF PlainFetchAnswer, TooLarge
  <2>6. answer = a /\ (scheme = "https" \/ stop = "closed" \/ Framed(got))
    BY <2>3, <2>5, Zenon DEF Finish
  <2>7. /\ resp.good /\ HasHead(got)
        /\ IF resp.framing # "close" THEN a.out = resp.payload ELSE Begins(a.out, resp.payload)
    BY <2>2, <2>6, DecodedIsWhole, Zenon
  <2> HIDE DEF a
  <2>8. ASSUME resp.framing = "close"
        PROVE  answer.out = Upto(resp.payload, Len(answer.out)) /\ (scheme = "http" => stop = "closed")
    <3>1. answer.out = Upto(resp.payload, Len(answer.out))
      BY <2>6, <2>7, <2>8, UptoIs
    <3>2. ~Chunked(got) /\ ContentLength(got, resp.declared) = -1
      BY <2>2, <2>7, <2>8, SameHead, MessageFacts, Zenon
    <3>3. ~Framed(got)
      BY <3>2 DEF Framed
    <3> QED BY <2>6, <3>1, <3>3
  <2> QED BY <2>6, <2>7, <2>8
<1> QED BY <1>1, CallInvariant, PTL

LEMMA FetchRoom ==
  ASSUME StoredOK, mode = "fetch", Len(resp.wire) <= RawCap, Len(got) = Room
  PROVE  got = resp.wire /\ Len(got) = RawCap
<1>1. Len(got) = RawCap /\ Len(got) \in Nat /\ Len(resp.wire) \in Nat /\ Len(got) <= Len(resp.wire)
  BY CallGot DEF StoredOK, ReadIntoBuffer, Room
<1>2. Len(got) = Len(resp.wire)
  BY <1>1
<1> QED BY <1>1, <1>2, CallGot, GotFacts

\* The limits of the plain fetch reader agree with those of the decoder: it gives
\* up on a full buffer only when the body cannot fit, and on a head or a
\* declared length only when it is too long.
LEMMA PlainRoom ==
  ASSUME StoredOK, PlainFetch, resp.good, got = resp.wire, Len(got) = RawCap,
         HeadLen(resp.wire) < HeaderCap, got = <<>> \/ ~Enough(got)
  PROVE  FetchAnswer(resp, OutCap) = TooLarge
<1> DEFINE w == resp.wire
           h == HeadLen(w)
<1>1. /\ Got(got, resp) /\ resp \in Responses /\ OutCap \in Nat /\ HeaderCap \in Nat
      /\ OverheadCap \in Nat
  BY CallGot, HttpAssumption
<1>2. /\ HasHead(w) /\ h \in 0..(Len(w) - 1) /\ Len(w) \in Nat
      /\ Len(BodyOf(w)) = Len(w) - h - 1
  BY <1>1, WireFacts
<1>3. ~Enough(got)
  <2>1. Len(w) # 0
    BY <1>2
  <2>2. got # <<>>
    BY <2>1
  <2> QED BY <2>2
<1>4. ~BodyComplete(got, resp.declared)
  BY <1>2, <1>3, Zenon DEF Enough, PlainFetchStops, PlainFetch
<1>5. resp.framing = "close"
  BY <1>1, <1>2, <1>4, CompleteIsWhole, Zenon
<1>6. resp.payload = BodyOf(w)
  BY <1>1, <1>5, GoodPlain, Zenon
<1> HIDE DEF h
<1>7. Len(w) = OutCap + HeaderCap + OverheadCap /\ h < HeaderCap
  BY DEF RawCap, h
<1>8. ~(Len(w) - h - 1 < OutCap)
  BY <1>1, <1>2, <1>7
<1>9. ~(Len(resp.payload) < OutCap)
  BY <1>2, <1>6, <1>8
<1> QED BY <1>9 DEF FetchAnswer, TooLarge

LEMMA PlainEnough ==
  ASSUME StoredOK, PlainFetch, resp.good, HeadLen(resp.wire) < HeaderCap, Enough(got)
  PROVE  PlainFetchAnswer(got) = FetchAnswer(resp, OutCap)
<1> DEFINE h == HeadLen(resp.wire)
           n == Len(got)
           length == ContentLength(got, resp.declared)
<1>1. /\ Got(got, resp) /\ resp \in Responses /\ OutCap \in Nat \ {0} /\ HeaderCap \in Nat
      /\ n \in Nat /\ resp.declared \in Nat
  BY CallGot
<1>2. h \in Nat /\ (HasHead(got) <=> n > h) /\ (HasHead(got) => HeadLen(got) = h)
  BY <1>1, HeadFacts, WireFacts
<1>3. ~HeadTooLong(got)
  <2>1. h < HeaderCap
    OBVIOUS
  <2> HIDE DEF h, n
  <2>2. ~(h > HeaderCap) /\ (~(n > h) => ~(n >= HeaderCap))
    BY <1>1, <1>2, <2>1
  <2> QED BY <1>2, <2>2 DEF HeadTooLong, n
<1>4. PlainFetchStops(got)
  BY DEF Enough, PlainFetch
<1>5. HasHead(got) /\ (DeclaredTooLarge(got) \/ BodyComplete(got, resp.declared))
  BY <1>3, <1>4 DEF PlainFetchStops
<1>6. /\ Chunked(got) <=> resp.framing = "chunked"
      /\ resp.framing = "length" => length = resp.declared
      /\ resp.framing = "close" => length = -1
      /\ resp.framing \in {"length", "chunked", "close"}
  BY <1>1, <1>5, SameHead, MessageFacts
<1>7. CASE DeclaredTooLarge(got)
  <2>1. resp.framing # "chunked" /\ length >= OutCap
    BY <1>6, <1>7 DEF DeclaredTooLarge
  <2>2. resp.framing = "length" /\ length = resp.declared
    <3> HIDE DEF length
    <3> QED BY <1>1, <1>6, <2>1
  <2>3. resp.declared = Len(resp.payload)
    BY <1>1, <2>2, GoodPlain
  <2>4. ~(Len(resp.payload) < OutCap)
    BY <1>1, <2>1, <2>2, <2>3
  <2>5. FetchAnswer(resp, OutCap) = TooLarge
    BY <2>4 DEF FetchAnswer, TooLarge
  <2> QED BY <1>3, <1>7, <2>5 DEF PlainFetchAnswer, TooLarge
<1>8. CASE ~DeclaredTooLarge(got)
  <2>1. BodyComplete(got, resp.declared)
    BY <1>5, <1>8
  <2>2. got = resp.wire /\ resp.framing # "close" /\ ~BadChunks(got)
    BY <1>1, <1>5, <2>1, CompleteIsWhole DEF BadChunks
  <2>3. Framed(got)
    <3>1. Chunked(got) \/ length >= 0
      BY <1>1, <1>6, <2>2
    <3>2. HeadLen(got) <= HeaderCap
      BY <1>1, <1>2, <1>5
    <3> QED BY <1>5, <3>1, <3>2 DEF Framed
  <2>4. mode = "fetch"
    BY DEF PlainFetch
  <2>5. Finish(got, FALSE) = DecodeResponse(got, resp.declared, OutCap)
    BY <2>3, <2>4, Zenon DEF Finish
  <2>6. Finish(got, FALSE) = FetchAnswer(resp, OutCap)
    BY <1>1, <2>2, <2>5, DecodedVerdict, Zenon
  <2> QED BY <1>3, <1>8, <2>2, <2>6, Zenon DEF PlainFetchAnswer
<1> QED BY <1>7, <1>8

\* For every well-formed answer and every way of cutting it into reads, what
\* http_fetch says of it depends on the length of its body only.
THEOREM VerdictIsOfTheBody == Spec => []FetchVerdict
<1>1. CallOK => FetchVerdict
  <2> SUFFICES ASSUME CallOK, pc = "done", mode = "fetch", resp.good, Undisturbed,
                      HeadLen(resp.wire) < HeaderCap, Len(resp.wire) <= RawCap
               PROVE  answer = FetchAnswer(resp, OutCap)
    BY DEF FetchVerdict, FetchAnswer
  <2>1. StoredOK /\ AnswerOK
    BY DEF CallOK
  <2>2. Got(got, resp) /\ resp \in Responses /\ OutCap \in Nat \ {0}
    BY <2>1, CallGot
  <2>3. DecodeResponse(resp.wire, resp.declared, OutCap) = FetchAnswer(resp, OutCap)
    BY <2>2, DecodedVerdict
  <2>4. scheme = "https" \/ PlainFetch
    BY <2>1 DEF StoredOK, Schemes, PlainFetch
  <2>5. scheme = "https" => ~PlainFetch
    BY DEF PlainFetch
  <2>6. CASE stop = "closed"
    <3>1. got = resp.wire /\ answer = Finish(got, TRUE)
      BY <2>1, <2>6 DEF Undisturbed, AnswerOK
    <3>2. Finish(got, TRUE) = DecodeResponse(got, resp.declared, OutCap)
      BY Zenon DEF Finish
    <3> QED BY <2>3, <3>1, <3>2, Zenon
  <2>7. CASE stop = "room"
    <3>1. /\ Len(got) = Room /\ (got = <<>> \/ ~Enough(got))
          /\ IF PlainFetch THEN answer = TooLarge ELSE answer = Finish(got, FALSE)
      BY <2>1, <2>7, Zenon DEF AnswerOK
    <3>2. got = resp.wire /\ Len(got) = RawCap
      BY <2>1, <3>1, FetchRoom
    <3>3. CASE PlainFetch
      BY <2>1, <3>1, <3>2, <3>3, PlainRoom, Zenon
    <3>4. CASE scheme = "https"
      <4>1. Finish(got, FALSE) = DecodeResponse(got, resp.declared, OutCap)
        BY <3>4, Zenon DEF Finish
      <4> QED BY <2>3, <2>5, <3>1, <3>2, <3>4, <4>1, Zenon
    <3> QED BY <2>4, <3>3, <3>4
  <2>8. CASE stop = "enough"
    <3>1. /\ Enough(got)
          /\ IF PlainFetch THEN answer = PlainFetchAnswer(got) ELSE answer = Finish(got, FALSE)
      BY <2>1, <2>8, Zenon DEF AnswerOK
    <3>2. CASE PlainFetch
      BY <2>1, <3>1, <3>2, PlainEnough
    <3>3. CASE scheme = "https"
      <4>1. BodyComplete(got, resp.declared)
        BY <3>1, <3>3, Zenon DEF Enough
      <4>2. got = resp.wire
        BY <2>2, <4>1, CompleteIsWhole DEF BodyComplete
      <4>3. Finish(got, FALSE) = DecodeResponse(got, resp.declared, OutCap)
        BY <3>3, Zenon DEF Finish
      <4> QED BY <2>3, <2>5, <3>1, <3>3, <4>2, <4>3, Zenon
    <3> QED BY <2>4, <3>2, <3>3
  <2> QED BY <2>6, <2>7, <2>8 DEF Undisturbed
<1> QED BY <1>1, CallInvariant, PTL

\* For every answer and every way of cutting it, http_send hands on the
\* beginning of its body, and all of it that fits when the answer was whole:
\* ph__http_send_response_complete does not stop within the notice.
THEOREM NoticeIsOfTheBody == Spec => []NoticeFaithful
<1>1. CallOK => NoticeFaithful
  <2> SUFFICES ASSUME CallOK, pc = "done", mode = "send", resp.good
               PROVE  /\ answer.out = Upto(resp.payload, Len(answer.out))
                      /\ resp.framing # "close" /\ (stop = "enough" \/ (stop = "closed" /\ got = resp.wire))
                           => answer = [result |-> "status", out |-> Upto(resp.payload, MetaCap - 1)]
    BY DEF NoticeFaithful
  <2> DEFINE a == ResponseMeta(got, MetaCap)
  <2>1. StoredOK /\ AnswerOK
    BY DEF CallOK
  <2>2. Got(got, resp) /\ resp \in Responses /\ MetaCap \in Nat \ {0, 1}
    BY <2>1, CallGot
  <2>3. Finish(got, TRUE) = a /\ Finish(got, FALSE) = a /\ ~PlainFetch
    BY DEF Finish, PlainFetch
  <2>4. Enough(got) <=> SendComplete(got, resp.declared, MetaCap)
    BY DEF Enough
  <2>5. /\ Begins(a.out, resp.payload)
        /\ resp.framing # "close" /\ (SendComplete(got, resp.declared, MetaCap) \/ got = resp.wire) =>
             a = [result |-> "status", out |-> Upto(resp.payload, MetaCap - 1)]
    BY <2>2, MetaFaithful
  <2> HIDE DEF a
  <2>6. \/ answer = Failed /\ stop \in {"refused", "error", "deadline"}
        \/ answer = a /\ (stop = "enough" => Enough(got))
    BY <2>1, <2>3, Zenon DEF AnswerOK
  <2>7. CASE answer = Failed /\ stop \in {"refused", "error", "deadline"}
    <3>1. resp.payload \in Seq(Byte)
      BY <2>2, WireFacts
    <3>2. Begins(<<>>, resp.payload)
      BY <3>1 DEF Begins
    <3>3. answer.out = <<>>
      BY <2>7 DEF Failed
    <3> QED BY <2>7, <3>2, <3>3, UptoIs
  <2>8. CASE answer = a /\ (stop = "enough" => Enough(got))
    <3>1. answer.out = Upto(resp.payload, Len(answer.out))
      BY <2>5, <2>8, UptoIs
    <3> QED BY <2>4, <2>5, <2>8, <3>1
  <2> QED BY <2>6, <2>7, <2>8
<1> QED BY <1>1, CallInvariant, PTL
=============================================================================
