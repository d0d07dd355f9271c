----------------------------- MODULE JsonReader -----------------------------
(***************************************************************************)
(* ph_jv_parse (src/ph_jsonval.c), the reader of every response body: a    *)
(* recursive descent over the text that builds a tree of heap blocks and   *)
(* gives all of them back when the text is malformed, too deep, or an      *)
(* allocation fails half way.                                              *)
(*                                                                         *)
(* The text is read as tokens: the punctuation, "s" a string, "q" one that *)
(* parse_string_raw rejects, "v" a number or literal, "w" white space.     *)
(* Strings and numbers byte by byte are in JsonScalars.                    *)
(***************************************************************************)
EXTENDS Integers, Sequences, SequencesExt

CONSTANTS MaxDepth,   \* PH_JV_MAX_DEPTH
          MaxTokens,  \* bound: tokens of a text
          MaxAllocs   \* bound: the allocation that fails, if one does

ASSUME ReaderAssumption == MaxDepth \in Nat /\ MaxTokens \in Nat /\ MaxAllocs \in Nat

VARIABLES text,       \* the response body
          failing     \* which allocation fails; 0, none

readerVars == <<text, failing>>
Tokens == {"[", "]", "{", "}", ",", ":", "s", "q", "v", "w"}

(* A cursor: the next token, the allocations tried, and the blocks held.   *)
Start == [at |-> 1, made |-> 0, live |-> 0]
Token(c) == IF c.at <= Len(text) THEN text[c.at] ELSE "end"
Step(c) == [c EXCEPT !.at = @ + 1]
RECURSIVE SkipWs(_)
SkipWs(c) == IF Token(c) = "w" THEN SkipWs(Step(c)) ELSE c

(* malloc, calloc, and realloc, which adds a block if there was none.      *)
Realloc(c, none) ==
  [c EXCEPT !.made = @ + 1, !.live = @ + (IF none /\ c.made + 1 # failing THEN 1 ELSE 0)]
Alloc(c) == Realloc(c, TRUE)
NoMemory(c) == c.made = failing
Free(c, n) == [c EXCEPT !.live = @ - n]

(* A node: its keys, its children, and the blocks it owns besides them:    *)
(* itself, the string or the arrays.  ph_jv_free releases OwnBlocks(n).       *)
Node(type, own) == [type |-> type, keys |-> <<>>, kids |-> <<>>, own |-> own]
RECURSIVE OwnBlocks(_)
OwnBlocks(n) == n.own + Len(n.keys) + FoldLeft(LAMBDA sum, k : sum + OwnBlocks(k), 0, n.kids)

Parsed(n, c) == [ok |-> TRUE, node |-> n, cursor |-> c]
Rejected(c) == [ok |-> FALSE, node |-> Node("none", 0), cursor |-> c]
Discard(n, c) == Rejected(Free(c, OwnBlocks(n)))

(* parse_string_raw: one block, if it returns the string.                  *)
ParseStringRaw(c) ==
  LET a == Alloc(c)
  IN IF Token(c) \notin {"s", "q"} THEN Rejected(c)
     ELSE IF NoMemory(a) THEN Rejected(a)
     ELSE IF Token(c) = "q" THEN Rejected(Free(a, 1))
     ELSE Parsed(Node("key", 1), Step(a))

(* parse_string                                                            *)
ParseString(c) ==
  LET s == ParseStringRaw(c)
      a == Alloc(s.cursor)
  IN IF ~s.ok THEN s
     ELSE IF NoMemory(a) THEN Rejected(Free(a, 1))
     ELSE Parsed(Node("s", 2), a)

(* parse_number, parse_literal                                             *)
ParseAtom(c) ==
  LET a == Alloc(c) IN IF NoMemory(a) THEN Rejected(a) ELSE Parsed(Node("v", 1), Step(a))

RECURSIVE ParseValue(_, _), Items(_, _, _), Members(_, _, _)

\* Mutant: the children read so far are not given back.
ItemsLeaks(n, c, depth) ==
  LET r == ParseValue(SkipWs(c), depth + 1)
      g == Realloc(r.cursor, n.kids = <<>>)
      more == [n EXCEPT !.kids = Append(@, r.node), !.own = 2]
      d == SkipWs(g)
  IN IF ~r.ok THEN Rejected(Free(r.cursor, n.own))
     ELSE IF NoMemory(g) THEN Discard(n, Free(g, OwnBlocks(r.node)))
     ELSE IF Token(d) = "," THEN Items(more, Step(d), depth)
     ELSE IF Token(d) = "]" THEN Parsed(more, Step(d))
     ELSE Discard(more, d)

(* parse_array, from an element on.                                        *)
Items(n, c, depth) ==
  LET r == ParseValue(SkipWs(c), depth + 1)
      g == Realloc(r.cursor, n.kids = <<>>)
      more == [n EXCEPT !.kids = Append(@, r.node), !.own = 2]
      d == SkipWs(g)
  IN IF ~r.ok THEN Discard(n, r.cursor)
     ELSE IF NoMemory(g) THEN Discard(n, Free(g, OwnBlocks(r.node)))
     ELSE IF Token(d) = "," THEN Items(more, Step(d), depth)
     ELSE IF Token(d) = "]" THEN Parsed(more, Step(d))
     ELSE Discard(more, d)

(* parse_object, from a key on.  Both arrays are grown before either is    *)
(* looked at, and one that was stays with the node.                        *)
Members(n, c, depth) ==
  LET k == ParseStringRaw(SkipWs(c))
      colon == SkipWs(k.cursor)
      r == ParseValue(SkipWs(Step(colon)), depth + 1)
      none == n.kids = <<>>
      gk == Realloc(r.cursor, none)
      gv == Realloc(gk, none)
      grown == [n EXCEPT !.own = 1 + (gv.live - r.cursor.live) + (IF none THEN 0 ELSE 2)]
      more == [grown EXCEPT !.keys = Append(@, "s"), !.kids = Append(@, r.node)]
      d == SkipWs(gv)
  IN IF ~k.ok THEN Discard(n, k.cursor)
     ELSE IF Token(colon) # ":" THEN Discard(n, Free(colon, 1))
     ELSE IF ~r.ok THEN Discard(n, Free(r.cursor, 1))
     ELSE IF NoMemory(gk) \/ NoMemory(gv)
          THEN Discard(grown, Free(gv, 1 + OwnBlocks(r.node)))
     ELSE IF Token(d) = "," THEN Members(more, Step(d), depth)
     ELSE IF Token(d) = "}" THEN Parsed(more, Step(d))
     ELSE Discard(more, d)

(* parse_array and parse_object, from the bracket to the first element.    *)
Container(c, depth) ==
  LET array == Token(c) = "["
      a == Alloc(c)
      d == SkipWs(Step(a))
      n == Node(IF array THEN "array" ELSE "object", 1)
  IN IF NoMemory(a) THEN Rejected(a)
     ELSE IF Token(d) = (IF array THEN "]" ELSE "}") THEN Parsed(n, Step(d))
     ELSE IF array THEN Items(n, d, depth) ELSE Members(n, d, depth)

(* parse_value                                                             *)
ParseValue(c0, depth) ==
  LET c == SkipWs(c0)
  IN CASE Token(c) = "end" \/ depth > MaxDepth -> Rejected(c)
       [] Token(c) \in {"[", "{"} -> Container(c, depth)
       [] Token(c) \in {"s", "q"} -> ParseString(c)
       [] Token(c) = "v" -> ParseAtom(c)
       [] OTHER -> Rejected(c)

\* Mutant: what follows the value is not looked at.
JvParseTrailing == ParseValue(Start, 0)

(* ph_jv_parse                                                             *)
JvParse ==
  LET r == ParseValue(Start, 0)
      c == SkipWs(r.cursor)
  IN IF ~r.ok THEN r
     ELSE IF Token(c) = "end" THEN Parsed(r.node, c) ELSE Discard(r.node, c)
-----------------------------------------------------------------------------
ReaderInit == text = <<>> /\ failing \in 0 .. MaxAllocs

(* Every text is tried, one token longer at a time.  One that the reader   *)
(* gave up on before its end is not continued: it would give up again.     *)
(* White space comes one token at a time.                                  *)
Longer ==
  /\ Len(text) < MaxTokens /\ JvParse.cursor.at > Len(text)
  /\ \E t \in Tokens :
       /\ t = "w" /\ text # <<>> => Last(text) # "w"
       /\ text' = Append(text, t)
  /\ UNCHANGED failing

Another == text' = <<>> /\ UNCHANGED failing

ReaderNext == Longer \/ Another

ReaderSpec == ReaderInit /\ [][ReaderNext]_readerVars
-----------------------------------------------------------------------------
(* The grammar of JSON, apart from the reader: the texts of at most        *)
(* MaxTokens tokens of values nested to a depth, without white space.      *)
RECURSIVE Lists(_, _)
Lists(items, n) ==   \* one to n items, separated by commas
  IF n <= 1 THEN items
  ELSE items \cup {i \o <<",">> \o l : i \in items, l \in Lists(items, n - 1)}
Short(texts, n) == {t \in texts : Len(t) <= n}
RECURSIVE Grammar(_, _)
Grammar(depth, n) ==
  {<<"s">>, <<"v">>, <<"[", "]">>, <<"{", "}">>}
  \cup IF depth = 0 \/ n < 3 THEN {}
       ELSE LET inner == Short(Grammar(depth - 1, n - 2), n - 2)
            IN Short({<<"[">> \o l \o <<"]">> : l \in Short(Lists(inner, (n - 1) \div 2), n - 2)}
                     \cup {<<"{">> \o l \o <<"}">> :
                             l \in Short(Lists({<<"s", ":">> \o i : i \in inner},
                                               (n - 1) \div 4), n - 2)}, n)
Language == Short(Grammar(MaxDepth, MaxTokens), MaxTokens)
Viable == UNION {Prefixes(t) : t \in Language}

Bare == SelectSeq(text, LAMBDA t : t # "w")

(* The text of a tree.                                                     *)
RECURSIVE Written(_)
Written(n) ==
  LET parts == [i \in DOMAIN n.kids |->
                  (IF i > 1 THEN <<",">> ELSE <<>>)
                  \o (IF n.type = "object" THEN <<n.keys[i], ":">> ELSE <<>>)
                  \o Written(n.kids[i])]
  IN CASE n.type = "array" -> <<"[">> \o FlattenSeq(parts) \o <<"]">>
       [] n.type = "object" -> <<"{">> \o FlattenSeq(parts) \o <<"}">>
       [] OTHER -> <<n.type>>

(* ph_jv_parse accepts exactly the JSON texts nested no deeper than        *)
(* PH_JV_MAX_DEPTH, whatever white space is in them, and its tree is the   *)
(* text's; a text that could still become one is read to its end.          *)
ReadsJson ==
  LET r == JvParse
  IN ~(failing \in 1 .. r.cursor.made) =>
       /\ r.ok <=> Bare \in Language
       /\ r.ok => Written(r.node) = Bare
       /\ Bare \in Viable => r.cursor.at > Len(text)

(* Whichever allocation fails and wherever the text is malformed, no block *)
(* is lost: those held are the ones ph_jv_free releases with the tree, and *)
(* none when there is no tree.                                             *)
NoBlockLost == LET r == JvParse IN r.cursor.live = OwnBlocks(r.node)
=============================================================================
