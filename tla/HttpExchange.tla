--------------------------- MODULE HttpExchange ---------------------------
(* One request of the native transport: do_http and its two readers in     *)
(* ph_http.c for http:// URLs, do_tls in ph_tls.c (Linux, OpenSSL) for      *)
(* https://.  The server answers with one of Responses and its bytes arrive *)
(* cut into reads in any way; the connection can end or break at any point. *)
(*                                                                          *)
(* Time is counted in ticks, Ms of them to a millisecond.  The code's own   *)
(* steps take none; every blocking call takes as long as its timeout lets   *)
(* it.  A TLS library call may wait for the socket up to TlsWaits times.    *)
EXTENDS HttpFraming

CONSTANTS Responses,       \* what the server may answer, see Response
          Timeout,         \* the whole-request deadline in ticks, from time 0
          Ms,              \* ticks per millisecond
          Delays,          \* how long getaddrinfo may take
          MaxAddrs,        \* addresses it returns, at most
          ReqLen,          \* units of the request, written one or more at a time
          TlsWaits,        \* waits for the socket within one TLS call
          OutCap,          \* the caller's buffer for a fetched body
          MetaCap,         \* PH_RESP_BODY_CAP
          StatusBuf,       \* PH_HTTP_STATUS_BUF
          TlsStatusBuf,    \* the same for TLS
          ReadMax,         \* PH_HTTP_FETCH_CHUNK
          HeaderCap,       \* PH_HTTP_HEADER_CAP
          OverheadCap      \* PH_HTTP_CHUNK_OVERHEAD_CAP

-----------------------------------------------------------------------------
(* What a server may answer, as RFC 9112 has it.                            *)

\* 7.1.2: from p to its end, b is trailer lines and a blank one.
TrailerSection(b) ==
  LET from[p \in 1..(Len(b) + 1)] ==
        LET e == LineEnd(b, p)
        IN /\ CrlfAt(b, e) = "yes"
           /\ IF e = p THEN e + 1 = Len(b) ELSE from[e + 2]
  IN from

\* 7.1: the payload of the chunked body that b is from p to its end, if it is one.
ChunkedBody(b) ==
  LET from[p \in 1..(Len(b) + 1)] ==
        LET n    == SizeAt(b, p)
            e    == SizeLineEnd(b, p)
            next == e + 2 + n
        IN IF SizeEnd(b, p) = p \/ CrlfAt(b, e) # "yes" THEN {}
           ELSE IF n = 0 THEN IF TrailerSection(b)[e + 2] THEN {<<>>} ELSE {}
           ELSE IF CrlfAt(b, next) # "yes" THEN {}
           ELSE {SubSeq(b, e + 2, next - 1) \o rest : rest \in from[next + 2]}
  IN from

Payloads(b) == ChunkedBody(b)[1]

\* A response: its wire form, the value of its Content-Length header and the
\* body it means.  good: status line and framing are as they should be.
Response == [wire : Seq(Byte \cup HeadToken), declared : Nat,
             payload : Seq(Byte), framing : {"length", "chunked", "close"},
             good : BOOLEAN]

\* The payload of a complete response.
Meant(r) ==
  LET body == BodyOf(r.wire)
  IN CASE r.framing = "chunked" -> Payloads(body)
       [] r.framing = "length" -> IF Len(body) = r.declared THEN {body} ELSE {}
       [] r.framing = "close" -> {body}

\* 6.3: the head decides how the body is framed.  The connection carries this
\* response only (the request says Connection: close): nothing follows it.
Message(r) ==
  LET body == BodyOf(r.wire)
  IN /\ HasHead(r.wire) /\ HeadOf(r.wire) \in Seq(HeadToken) /\ body \in Seq(Byte)
     /\ r.framing = IF Chunked(r.wire) THEN "chunked"
                    ELSE IF "length" \in Range(HeadOf(r.wire)) THEN "length" ELSE "close"
     /\ r.framing = "length" => Len(body) <= r.declared
     /\ r.framing = "chunked" => \A n \in 0..(Len(body) - 1) : Payloads(Upto(body, n)) = {}
     /\ r.good <=> HasStatus(r.wire) /\ Meant(r) # {}
     /\ r.good => Meant(r) = {r.payload}

ASSUME HttpAssumption ==
  /\ Responses \subseteq Response /\ \A r \in Responses : Message(r)
  /\ {Timeout, Ms, MaxAddrs, ReqLen, TlsWaits} \subseteq Nat \ {0}
  /\ {OutCap, MetaCap, StatusBuf, TlsStatusBuf, ReadMax, HeaderCap} \subseteq Nat \ {0, 1}
  /\ OverheadCap \in Nat
  /\ Delays \subseteq Nat

VARIABLES scheme,   \* of the URL: "http" or "https"
          mode,     \* "fetch": the whole body is wanted; "send": status and notice
          resp,     \* what the server answers
          now,      \* ticks since the call
          resolved, \* when getaddrinfo returned
          pc,       \* where the call is
          addrs,    \* addresses not tried yet
          open,     \* sockets open
          sent,     \* units of the request written
          got,      \* tokens received
          stop,     \* why reading stopped
          answer    \* what the call returns: [result, out]

vars == <<scheme, mode, resp, now, resolved, pc, addrs, open, sent, got, stop, answer>>
call == <<scheme, mode, resp>>

\* The schemes parse_url accepts; http_fetch wants the body, http_send a notice.
Schemes == {"http", "https"}
Modes == {"fetch", "send"}

RawCap == OutCap + HeaderCap + OverheadCap

\* Mutant: no byte of the plain status buffer is kept for the NUL.
RoomWithoutNul ==
  IF mode = "fetch" THEN RawCap
  ELSE IF scheme = "http" THEN StatusBuf ELSE TlsStatusBuf

\* Bytes the response buffer can take; all keep one more for the NUL.
Room ==
  IF mode = "fetch" THEN RawCap
  ELSE IF scheme = "http" THEN StatusBuf - 1 ELSE TlsStatusBuf

Failed == [result |-> "failed", out |-> <<>>]

Init ==
  /\ scheme \in Schemes /\ mode \in Modes /\ resp \in Responses
  /\ now = 0 /\ resolved = 0 /\ pc = "call" /\ addrs = 0 /\ open = 0 /\ sent = 0
  /\ got = <<>> /\ stop = "none" /\ answer = Failed

-----------------------------------------------------------------------------
(* The deadline.                                                           *)

Expired == now >= Timeout

\* Milliseconds left, rounded up, as ticks.
CeilMs(t) == ((t + Ms - 1) \div Ms) * Ms

\* Mutant: every call gets the whole timeout, not what is left of it.
WholeTimeout == CeilMs(Timeout)

Remaining == IF Expired THEN 0 ELSE CeilMs(Timeout - now)

\* tls_sock_timeout: an expired deadline still allows one millisecond.
SocketTimeout == IF Expired THEN Ms ELSE Remaining
TlsRemaining == TlsWaits * SocketTimeout

\* A blocking call returns some time within its timeout.
Blocks(wait) == \E d \in 0..wait : now' = now + d

Wait == IF scheme = "http" THEN Remaining ELSE TlsRemaining

-----------------------------------------------------------------------------
(* Reaching the server.                                                     *)

Return(a, why) == pc' = "done" /\ answer' = a /\ stop' = why

\* Bad URL, a request that cannot be built, or a name that does not resolve.
Refused ==
  /\ pc = "call"
  /\ \E d \in Delays : now' = now + d /\ resolved' = now'
  /\ Return(Failed, "refused")
  /\ UNCHANGED <<call, addrs, open, sent, got>>

Resolve ==
  /\ pc = "call"
  /\ \E d \in Delays : now' = now + d /\ resolved' = now'
  /\ \E n \in 1..MaxAddrs : addrs' = n
  /\ pc' = "connect"
  /\ UNCHANGED <<call, open, sent, got, stop, answer>>

\* No address is left, or (plain sockets only) no time.
GiveUp ==
  /\ pc = "connect"
  /\ addrs = 0 \/ (scheme = "http" /\ Expired)
  /\ Return(Failed, "refused")
  /\ UNCHANGED <<call, now, resolved, addrs, open, sent, got>>

TriesAddress ==
  /\ pc = "connect" /\ addrs > 0 /\ (scheme = "https" \/ ~Expired)
  /\ addrs' = addrs - 1

\* connect waits for the socket once, whatever the scheme.
ConnectWait == IF scheme = "http" THEN Remaining ELSE SocketTimeout

NoSocket ==
  /\ TriesAddress
  /\ UNCHANGED <<call, now, resolved, pc, open, sent, got, stop, answer>>

ConnectFails ==
  /\ TriesAddress /\ Blocks(ConnectWait)
  /\ UNCHANGED <<call, resolved, pc, open, sent, got, stop, answer>>

Connect ==
  /\ TriesAddress /\ Blocks(ConnectWait)
  /\ open' = open + 1
  /\ pc' = IF scheme = "http" THEN "send" ELSE "handshake"
  /\ UNCHANGED <<call, resolved, sent, got, stop, answer>>

-----------------------------------------------------------------------------
(* The request.                                                             *)

\* From here on a call that ends closes its socket.
Hangup(a, why) == Return(a, why) /\ open' = open - 1

Handshake ==
  /\ pc = "handshake" /\ Blocks(TlsRemaining)
  /\ pc' = "send"
  /\ UNCHANGED <<call, resolved, addrs, open, sent, got, stop, answer>>

\* A signal interrupts SSL_connect or SSL_write: it is called again while time
\* is left.
Interrupted ==
  /\ scheme = "https" /\ pc \in {"handshake", "send"} /\ Blocks(TlsRemaining)
  /\ now' < Timeout
  /\ UNCHANGED <<call, resolved, pc, addrs, open, sent, got, stop, answer>>

\* A plain socket takes part of the request at a time, SSL_write all of it.
Write ==
  /\ pc = "send" /\ (scheme = "https" \/ ~Expired) /\ Blocks(Wait)
  /\ \E n \in 1..(ReqLen - sent) :
       /\ scheme = "https" => n = ReqLen - sent
       /\ sent' = sent + n
  /\ pc' = IF sent' = ReqLen THEN "read" ELSE "send"
  /\ UNCHANGED <<call, resolved, addrs, open, got, stop, answer>>

\* The handshake or a write fails, or TLS cannot be set up.
WriteFails ==
  /\ pc \in {"handshake", "send"} /\ (scheme = "https" \/ ~Expired) /\ Blocks(Wait)
  /\ Hangup(Failed, "error")
  /\ UNCHANGED <<call, resolved, addrs, sent, got>>

WriteTooLate ==
  /\ pc = "send" /\ scheme = "http" /\ Expired
  /\ Hangup(Failed, "deadline")
  /\ UNCHANGED <<call, now, resolved, addrs, sent, got>>

-----------------------------------------------------------------------------
(* The answer.                                                              *)

\* The plain fetch reader knows where the body of g ends.
Framed(g) ==
  HasHead(g) /\ HeadLen(g) <= HeaderCap /\ (Chunked(g) \/ ContentLength(g, resp.declared) >= 0)

\* Mutant: the plain fetch reader decodes what it has however it stopped.
FinishAnyway(g, closed) ==
  IF mode = "send" THEN ResponseMeta(g, MetaCap)
  ELSE DecodeResponse(g, resp.declared, OutCap)

\* What the readers make of g once they stop.
Finish(g, closed) ==
  IF mode = "send" THEN ResponseMeta(g, MetaCap)
  ELSE IF scheme = "https" \/ closed \/ Framed(g)
    THEN DecodeResponse(g, resp.declared, OutCap)
  ELSE Failed

\* The head does not fit: the plain fetch reader stops without an answer.
HeadTooLong(g) ==
  IF HasHead(g) THEN HeadLen(g) > HeaderCap ELSE Len(g) >= HeaderCap

DeclaredTooLarge(g) == ~Chunked(g) /\ ContentLength(g, resp.declared) >= OutCap

\* After a read, the plain fetch reader stops with this answer, or goes on.
PlainFetchStops(g) ==
  \/ HeadTooLong(g)
  \/ HasHead(g) /\ (DeclaredTooLarge(g) \/ BodyComplete(g, resp.declared))

\* Chunks that are badly framed are not decoded any more.
BadChunks(g) == Chunked(g) /\ DecodeChunked(BodyOf(g), 0).rc < 0

PlainFetchAnswer(g) ==
  IF HeadTooLong(g) THEN Failed
  ELSE IF DeclaredTooLarge(g) THEN [result |-> "toolarge", out |-> <<>>]
  ELSE IF BadChunks(g) THEN Failed
  ELSE Finish(g, FALSE)

Enough(g) ==
  IF mode = "send" THEN SendComplete(g, resp.declared, MetaCap)
  ELSE IF scheme = "https" THEN BodyComplete(g, resp.declared)
  ELSE PlainFetchStops(g)

\* At the top of the loop: a buffer is full.  The plain fetch reader looks at
\* the clock first and calls the response too large; the others use what they have.
BufferFull ==
  /\ pc = "read" /\ Len(got) = Room
  /\ scheme = "http" /\ mode = "fetch" => ~Expired
  /\ Hangup(IF scheme = "http" /\ mode = "fetch"
              THEN [result |-> "toolarge", out |-> <<>>] ELSE Finish(got, FALSE), "room")
  /\ UNCHANGED <<call, now, resolved, addrs, sent, got>>

\* The deadline has passed.  The plain status reader forgets what it has.
ReadTooLate ==
  /\ pc = "read" /\ Expired
  /\ (scheme = "http" /\ mode = "fetch") \/ Len(got) < Room
  /\ Hangup(IF scheme = "http" /\ mode = "send" THEN Failed ELSE Finish(got, FALSE), "deadline")
  /\ UNCHANGED <<call, now, resolved, addrs, sent, got>>

Reads == pc = "read" /\ ~Expired /\ Len(got) < Room /\ Blocks(Wait)

\* The most one read can return: the room, and for a plain fetch ReadMax.
ReadLimit ==
  IF scheme = "http" /\ mode = "fetch" THEN Least(ReadMax, Room - Len(got)) ELSE Room - Len(got)

Read ==
  /\ Reads
  /\ \E n \in 1..Least(ReadLimit, Len(resp.wire) - Len(got)) :
       got' = SubSeq(resp.wire, 1, Len(got) + n)
  /\ IF Enough(got')
       THEN Hangup(IF scheme = "http" /\ mode = "fetch"
                     THEN PlainFetchAnswer(got') ELSE Finish(got', FALSE), "enough")
       ELSE UNCHANGED <<pc, open, stop, answer>>
  /\ UNCHANGED <<call, resolved, addrs, sent>>

\* The server closes the connection, at the end of its answer or before it.
PeerCloses ==
  /\ Reads
  /\ Hangup(Finish(got, TRUE), "closed")
  /\ UNCHANGED <<call, resolved, addrs, sent, got>>

\* The connection breaks, or nothing arrives in time.
ReadFails ==
  /\ Reads
  /\ Hangup(Finish(got, FALSE), "error")
  /\ UNCHANGED <<call, resolved, addrs, sent, got>>

\* A signal interrupts SSL_read; the loop goes on.
ReadInterrupted ==
  /\ scheme = "https" /\ Reads
  /\ UNCHANGED <<call, resolved, pc, addrs, open, sent, got, stop, answer>>

\* The caller has its answer.
Returned == pc = "done" /\ UNCHANGED vars

Next ==
  \/ Refused \/ Resolve \/ GiveUp \/ NoSocket \/ ConnectFails \/ Connect
  \/ Handshake \/ Interrupted \/ Write \/ WriteFails \/ WriteTooLate
  \/ BufferFull \/ ReadTooLate \/ Read \/ PeerCloses \/ ReadFails \/ ReadInterrupted
  \/ Returned

Spec == Init /\ [][Next]_vars

-----------------------------------------------------------------------------
(* Properties.                                                              *)

\* Every variable keeps its type; no reader stores more than its buffer holds
\* (resp[PH_HTTP_STATUS_BUF] and the malloc of read_body_response and do_tls).
TypeOK ==
  /\ scheme \in Schemes /\ mode \in Modes /\ resp \in Responses
  /\ now \in Nat /\ resolved \in Nat
  /\ pc \in {"call", "connect", "handshake", "send", "read", "done"}
  /\ addrs \in 0..MaxAddrs /\ open \in Nat /\ sent \in 0..ReqLen
  /\ got \in Seq(Byte \cup HeadToken)
  /\ Len(got) <= IF mode = "fetch" THEN RawCap
                 ELSE IF scheme = "http" THEN StatusBuf - 1 ELSE TlsStatusBuf
  /\ stop \in {"none", "refused", "enough", "room", "closed", "error", "deadline"}
  /\ answer \in [result : {"status", "failed", "toolarge"}, out : Seq(Byte)]

\* Every path of do_http and do_tls, and of the address loops, closes each
\* socket it opened, once.
SocketsReturned ==
  open = IF pc \in {"handshake", "send", "read"} THEN 1 ELSE 0

\* A plain request ends within its deadline, rounded up to a millisecond, unless
\* getaddrinfo alone took longer: a server that trickles its answer, or several
\* dead addresses, cannot stretch it (remaining_ms before every wait).
DeadlineKept ==
  scheme = "http" => now < Timeout + Ms \/ now = resolved

\* posthog.h calls request_timeout_ms a whole-request deadline for both schemes.
\* TLS does not keep it: the socket timeout is set once per library call, and
\* an expired deadline still gives each connect a millisecond.
WholeDeadline == now < Timeout + Ms \/ now = resolved

\* When a fetch reports a status, the caller's buffer holds the whole body: a
\* framed one in full, however the stream was cut or ended; a plain one without
\* framing only after the server closed (read_body_response, decode_response_body).
FetchedIsWhole ==
  pc = "done" /\ mode = "fetch" /\ answer.result = "status" =>
    /\ resp.good
    /\ IF resp.framing # "close" THEN answer.out = resp.payload
       ELSE answer.out = Upto(resp.payload, Len(answer.out)) /\ (scheme = "http" => stop = "closed")

\* A body without framing is complete only when the server closes, says
\* read_body_response; do_tls also accepts it after an error or the deadline.
CloseMeansEof ==
  pc = "done" /\ mode = "fetch" /\ answer.result = "status" /\ resp.framing = "close"
    => stop = "closed"

\* Nothing but the response itself made the reader stop.
Undisturbed == stop \in {"enough", "room"} \/ (stop = "closed" /\ got = resp.wire)

\* The verdict on a well-formed response does not depend on how its bytes were
\* cut into reads: a body that fits in the caller's buffer with its NUL is
\* returned, a longer one is too large (the limits of both readers agree).
FetchVerdict ==
  /\ pc = "done" /\ mode = "fetch" /\ resp.good /\ Undisturbed
  /\ HeadLen(resp.wire) < HeaderCap /\ Len(resp.wire) <= RawCap
  => answer = IF Len(resp.payload) < OutCap
                THEN [result |-> "status", out |-> resp.payload]
                ELSE [result |-> "toolarge", out |-> <<>>]

\* A send hands on only true bytes of the body, and for a framed response all
\* that fits, so that a quota notice is never cut off by where a read ended
\* (ph__http_send_response_complete stops neither too early nor on framing bytes).
NoticeFaithful ==
  pc = "done" /\ mode = "send" /\ resp.good =>
    /\ answer.out = Upto(resp.payload, Len(answer.out))
    /\ resp.framing # "close" /\ (stop = "enough" \/ (stop = "closed" /\ got = resp.wire))
         => answer = [result |-> "status", out |-> Upto(resp.payload, MetaCap - 1)]
=============================================================================
