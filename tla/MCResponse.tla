----------------------------- MODULE MCResponse -----------------------------
(***************************************************************************)
(* What becomes of a server's answer, for TLC: the exchange that fetches   *)
(* it from a small server (HttpExchange), the hold its headers ask for     *)
(* (BackoffWindow, and CivilDate for the dates in them), and the JSON of   *)
(* its body (JsonReader, JsonScalars).  They share no state, so a          *)
(* behaviour is one of either.                                             *)
(***************************************************************************)
EXTENDS HttpExchange, BackoffWindow, CivilDate, JsonReader, JsonScalars

VARIABLE part  \* which of them this behaviour is about

Day1896 == -27028  \* days_from_civil of 1 January 1896

Line == <<"CR", "LF">>
Size == <<"1", "2", "3">>

Plain(framing, p) ==
  [wire |-> <<"status", "retry">> \o (IF framing = "length" THEN <<"length">> ELSE <<>>)
              \o <<"end">> \o p,
   declared |-> Len(p), payload |-> p, framing |-> framing, good |-> TRUE]

\* The chunks in order, each with its size, perhaps with a leading zero or an
\* extension, and the last chunk with its trailer.
Coded(chunks, zero, ext, trailer) ==
  [wire |-> <<"status", "chunked", "length", "end">>
              \o FlattenSeq([i \in DOMAIN chunks |->
                   zero \o <<Size[Len(chunks[i])]>> \o ext \o Line \o chunks[i] \o Line])
              \o <<"0">> \o Line \o trailer \o Line,
   declared |-> 1, payload |-> FlattenSeq(chunks), framing |-> "chunked", good |-> TRUE]

Spoiled(r, w) == [r EXCEPT !.wire = w, !.good = FALSE]

X(n) == [i \in 1..n |-> "x"]

Bodies == {X(n) : n \in 0..4} \cup {<<"0", "CR", "LF">>}

MCResponses ==
  {Plain(f, p) : f \in {"length", "close"}, p \in Bodies}
  \cup {Coded(c, <<>>, <<>>, <<>>) :
          c \in {<<>>, <<X(1)>>, <<X(3)>>, <<X(1), X(2)>>, <<X(2), X(2)>>,
                 <<<<"0", "CR", "LF">>>>, <<<<"1">>, <<"LF">>>>}}
  \cup {Coded(<<X(2)>>, z, e, t) :
          z \in {<<>>, <<"0">>}, e \in {<<>>, <<"x">>}, t \in {<<>>, <<"x", "CR", "LF">>}}
  \cup {Spoiled(Plain("length", X(1)), <<"other", "length", "end", "x">>),
        Spoiled(Plain("close", X(1)), [i \in 1..6 |-> "other"] \o <<"end", "x">>),
        Spoiled(Coded(<<X(1)>>, <<>>, <<>>, <<>>),
                <<"status", "chunked", "end", "1", "CR", "LF", "x", "x", "CR", "LF">>),
        Spoiled(Coded(<<X(1)>>, <<>>, <<>>, <<>>),
                <<"status", "chunked", "end", "SP", "1", "LF", "x", "LF", "0", "LF">>)}
-----------------------------------------------------------------------------
responseRunVars == <<part, vars, backoffVars, civilVars, readerVars, scalarVars>>

AnyOf(S) == CHOOSE x \in S : TRUE

ResponseInit ==
  /\ part \in {"exchange", "backoff", "date", "reader", "scalar"}
  /\ Init /\ BackoffInit /\ CivilInit /\ ReaderInit /\ ScalarInit
  /\ part # "exchange" =>
       <<scheme, mode, resp>> = <<AnyOf(Schemes), AnyOf(Modes), AnyOf(Responses)>>
  /\ part # "reader" => failing = 0
  /\ part # "scalar" => form = "value"

ResponseNext ==
  \/ part = "exchange" /\ Next
     /\ UNCHANGED <<part, backoffVars, civilVars, readerVars, scalarVars>>
  \/ part = "backoff" /\ BackoffNext
     /\ UNCHANGED <<part, vars, civilVars, readerVars, scalarVars>>
  \/ part = "date" /\ CivilNext
     /\ UNCHANGED <<part, vars, backoffVars, readerVars, scalarVars>>
  \/ part = "reader" /\ ReaderNext
     /\ UNCHANGED <<part, vars, backoffVars, civilVars, scalarVars>>
  \/ part = "scalar" /\ ScalarNext
     /\ UNCHANGED <<part, vars, backoffVars, civilVars, readerVars>>

ResponseSpec == ResponseInit /\ [][ResponseNext]_responseRunVars
=============================================================================
