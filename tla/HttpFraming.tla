---------------------------- MODULE HttpFraming ----------------------------
(* Where an HTTP response ends, as ph_http.c decides it: the two decoders  *)
(* of the chunked coding and the tests built on them.  All are functions of *)
(* the bytes received so far; the readers call them again after every read. *)
(*                                                                          *)
(* A response is a sequence of tokens.  A head token stands for a whole     *)
(* header line: "status", "retry" (Retry-After), "length" (Content-Length,  *)
(* with the value passed as declared), "chunked" (Transfer-Encoding),       *)
(* "other", and "end" for the blank line.  A body token is one byte, of the *)
(* classes the decoders tell apart.  Chunk sizes stay below SIZE_MAX.       *)
EXTENDS Integers, Sequences, Functions

Digits == {"0", "1", "2", "3"}
Byte == Digits \cup {"CR", "LF", "SP", "x"}
HeadToken == {"status", "retry", "length", "chunked", "other", "end"}

HexValue == [d \in Digits |-> CASE d = "0" -> 0 [] d = "1" -> 1 [] d = "2" -> 2 [] d = "3" -> 3]
Number(ds) ==
  LET value[n \in 0..Len(ds)] == IF n = 0 THEN 0 ELSE 16 * value[n - 1] + HexValue[ds[n]]
  IN value[Len(ds)]

Least(a, b) == IF a < b THEN a ELSE b
Upto(s, n) == SubSeq(s, 1, Least(n, Len(s)))

\* The first position from p on, perhaps past the end, whose byte is not in S.
SkipWhile(b, p, S) ==
  CHOOSE i \in p..(Len(b) + 1) :
    (i = Len(b) + 1 \/ b[i] \notin S) /\ \A j \in p..(i - 1) : b[j] \in S
LineEnd(b, p) == SkipWhile(b, p, Byte \ {"CR", "LF"})

\* Whether a CRLF stands at p; "more" when the bytes on hand do not tell.
CrlfAt(b, p) ==
  CASE p + 1 > Len(b) -> "more"
    [] p + 1 <= Len(b) /\ b[p] = "CR" /\ b[p + 1] = "LF" -> "yes"
    [] OTHER -> "no"

-----------------------------------------------------------------------------
(* The head.                                                                *)

HasHead(g) == "end" \in Range(g)
HeadLen(g) == SkipWhile(g, 1, (Byte \cup HeadToken) \ {"end"}) - 1
HeadOf(g) == IF HasHead(g) THEN SubSeq(g, 1, HeadLen(g)) ELSE g
BodyOf(g) == SubSeq(g, HeadLen(g) + 2, Len(g))

HasStatus(g) == "status" \in Range(HeadOf(g))
Chunked(g) == "chunked" \in Range(HeadOf(g))
ContentLength(g, declared) == IF "length" \in Range(HeadOf(g)) THEN declared ELSE -1

-----------------------------------------------------------------------------
(* The strict decoder of the fetch path.  rc is 1 for a complete body, 0   *)
(* when bytes are missing, -1 for bad framing and -2 when the data do not   *)
(* fit in cap; cap = 0 asks for the framing only.                           *)

\* Mutant: the terminating NUL is forgotten.
FitsTight(n, out, cap) == cap = 0 \/ n <= cap - Len(out)

Fits(n, out, cap) == cap = 0 \/ n < cap - Len(out)

\* The size line of the chunk at p: where its digits end, its size, its end.
SizeEnd(b, p) == SkipWhile(b, p, Digits)
SizeAt(b, p) == Number(SubSeq(b, p, SizeEnd(b, p) - 1))
SizeLineEnd(b, p) == LineEnd(b, SizeEnd(b, p))

\* From every position: the verdict on trailer lines up to a blank one.
Trailers(b) ==
  LET trailer[p \in 1..(Len(b) + 1)] ==
        LET e == LineEnd(b, p)
        IN IF CrlfAt(b, e) = "more" THEN 0
           ELSE IF CrlfAt(b, e) = "no" THEN -1
           ELSE IF e = p THEN 1
           ELSE trailer[e + 2]
  IN trailer

\* From every position and the data before it: what the decoder returns.
Chunks(b, cap) ==
  LET Verdict(rc, out) == [rc |-> rc, out |-> out]
      chunk[p \in 1..(Len(b) + 1)] == [out \in Seq(Byte) |->
        LET n    == SizeAt(b, p)
            e    == SizeLineEnd(b, p)
            next == e + 2 + n
            all  == out \o SubSeq(b, e + 2, next - 1)
        IN IF SizeEnd(b, p) = p THEN Verdict(IF p > Len(b) THEN 0 ELSE -1, out)
           ELSE IF CrlfAt(b, e) = "more" THEN Verdict(0, out)
           ELSE IF CrlfAt(b, e) = "no" THEN Verdict(-1, out)
           ELSE IF n = 0 THEN Verdict(Trailers(b)[e + 2], out)
           ELSE IF next > Len(b) + 1 THEN Verdict(0, out)
           ELSE IF ~Fits(n, out, cap) THEN Verdict(-2, out)
           ELSE IF CrlfAt(b, next) = "more" THEN Verdict(0, all)
           ELSE IF CrlfAt(b, next) = "no" THEN Verdict(-1, all)
           ELSE chunk[next + 2][all]]
  IN chunk

DecodeChunked(b, cap) == Chunks(b, cap)[1][<<>>]

-----------------------------------------------------------------------------
(* The lenient decoder of the send path: at most cap - 1 bytes of data, of *)
(* chunks that may still be arriving.  done: the zero chunk was seen.       *)

CopiedFrom(b, cap) ==
  LET Stop(out, done) == [out |-> out, done |-> done]
      chunk[p \in 1..(Len(b) + 1)] == [out \in Seq(Byte) |->
        LET s     == SkipWhile(b, p, {"SP"})
            n     == SizeAt(b, s)
            e     == SkipWhile(b, SizeEnd(b, s), Byte \ {"LF"})
            avail == Len(b) - e
            take  == Least(Least(avail, n), cap - 1 - Len(out))
            more  == out \o SubSeq(b, e + 1, e + take)
            next  == e + 1 + n
        IN IF p > Len(b) \/ SizeEnd(b, s) = s \/ e > Len(b) THEN Stop(out, FALSE)
           ELSE IF n = 0 THEN Stop(out, TRUE)
           ELSE IF Len(more) + 1 >= cap \/ avail < n \/ next > Len(b) THEN Stop(more, FALSE)
           ELSE IF CrlfAt(b, next) = "yes" THEN chunk[next + 2][more]
           ELSE IF b[next] = "LF" THEN chunk[next + 1][more]
           ELSE Stop(more, FALSE)]
  IN chunk

ChunkedPrefix(b, cap) == CopiedFrom(b, cap)[1][<<>>]

-----------------------------------------------------------------------------
(* ph__http_decode_response_body: what the fetch path returns for the      *)
(* bytes in hand.                                                          *)

DecodeResponse(g, declared, cap) ==
  LET Answer(result, out) == [result |-> result, out |-> out]
      body == BodyOf(g)
      chunks == DecodeChunked(body, cap)
      length == ContentLength(g, declared)
      whole == IF length >= 0 THEN Upto(body, length) ELSE body
  IN IF ~HasHead(g) \/ ~HasStatus(g) THEN Answer("failed", <<>>)
     ELSE IF Chunked(g)
       THEN CASE chunks.rc = 1  -> Answer("status", chunks.out)
              [] chunks.rc = -2 -> Answer("toolarge", <<>>)
              [] OTHER          -> Answer("failed", <<>>)
     ELSE IF length > Len(body) THEN Answer("failed", <<>>)
     ELSE IF Len(whole) > 0 /\ ~Fits(Len(whole), <<>>, cap) THEN Answer("toolarge", <<>>)
     ELSE Answer("status", whole)

\* ph__http_body_response_complete: the fetch path may stop reading.
BodyComplete(g, declared) ==
  /\ HasHead(g)
  /\ IF Chunked(g)
       THEN DecodeChunked(BodyOf(g), 0).rc # 0
       ELSE ContentLength(g, declared) \in 0..Len(BodyOf(g))

(* ph__http_parse_response_meta and ph__http_send_response_complete: what  *)
(* the send path returns, and when it may stop reading.                     *)

ResponseMeta(g, cap) ==
  [result |-> IF HasStatus(g) THEN "status" ELSE "failed",
   out |-> IF ~HasHead(g) THEN <<>>
           ELSE IF Chunked(g) THEN ChunkedPrefix(BodyOf(g), cap).out
           ELSE Upto(BodyOf(g), cap - 1)]

\* Mutant: the declared length is compared with all that was received.
SendCompleteCountsHead(g, declared, cap) ==
  /\ HasHead(g)
  /\ LET have == Len(g)
         prefix == ChunkedPrefix(BodyOf(g), cap)
     IN IF Chunked(g) THEN prefix.done \/ Len(prefix.out) >= cap - 1
        ELSE IF ContentLength(g, declared) >= 0
          THEN have >= ContentLength(g, declared) \/ have >= cap - 1
        ELSE have > 0

SendComplete(g, declared, cap) ==
  /\ HasHead(g)
  /\ LET have == Len(BodyOf(g))
         prefix == ChunkedPrefix(BodyOf(g), cap)
     IN IF Chunked(g) THEN prefix.done \/ Len(prefix.out) >= cap - 1
        ELSE IF ContentLength(g, declared) >= 0
          THEN have >= ContentLength(g, declared) \/ have >= cap - 1
        ELSE have > 0
=============================================================================
