---------------------------- MODULE JsonScalars -----------------------------
(***************************************************************************)
(* JSON strings, byte by byte: ph_json_str (src/ph_json.c) writes every    *)
(* name, key and value the SDK sends, parse_string_raw (src/ph_jsonval.c)  *)
(* reads the strings of a response and parse_number its numbers.           *)
(*                                                                         *)
(* A byte is named for its class.  ASCII: "a" plain, "quote", "slash" (the *)
(* backslash), "n" a control with a short escape, "ctl" another control.   *)
(* First bytes in UTF-8: "C2" (C2-DF), "E0", "E1" (E1-EC, EE, EF), "ED",   *)
(* "F0", "F1" (F1-F3), "F4", and "C0" for the ones that never occur.       *)
(* Others: "80" (80-8F), "90" (90-9F), "A0" (A0-BF).  In a JSON text the   *)
(* escapes \n, \u0000, \u of another control, of a code above, of a high  *)
(* and a low surrogate are the "slash" and one of "en", "unul", "uctl",    *)
(* "ubmp", "uhi", "ulo".  A C string holds no NUL: "ctl" is not one.       *)
(* In a number "d" is a digit but 0, "e" either letter of the exponent.    *)
(***************************************************************************)
EXTENDS Integers, FiniteSets, Sequences, SequencesExt

CONSTANTS MaxStringBytes,  \* bound: bytes of a string
          MaxNumberBytes   \* bound: bytes of a number

VARIABLES bytes,           \* a string, or a number
          form             \* value, what the SDK holds; json and number, what
                           \* is in a response
scalarVars == <<bytes, form>>

Ascii == {"a", "quote", "slash", "n", "ctl"}
Tail1 == {"80", "90", "A0"}
Raw == Ascii \cup Tail1 \cup {"C0", "C2", "E0", "E1", "ED", "F0", "F1", "F4"}
Escapes == {"en", "unul", "uctl", "ubmp", "uhi", "ulo"}

At(s, i) == IF i <= Len(s) THEN s[i] ELSE "none"
Rest(s, n) == SubSeq(s, n + 1, Len(s))

(* utf8_seq_len, and the step of utf8_valid: the bytes of the character    *)
(* that s starts with, 0 if they are not well formed.                      *)
SeqLen(s) ==
  CASE At(s, 1) \in Ascii -> 1
    [] At(s, 1) = "C2" /\ At(s, 2) \in Tail1 -> 2
    [] At(s, 1) \in {"E0", "E1", "ED"} /\ At(s, 3) \in Tail1 /\ At(s, 2) \in
         (CASE s[1] = "E0" -> {"A0"} [] s[1] = "ED" -> {"80", "90"} [] OTHER -> Tail1) -> 3
    [] At(s, 1) \in {"F0", "F1", "F4"} /\ {At(s, 3), At(s, 4)} \subseteq Tail1 /\ At(s, 2) \in
         (CASE s[1] = "F0" -> {"90", "A0"} [] s[1] = "F4" -> {"80"} [] OTHER -> Tail1) -> 4
    [] OTHER -> 0

Replacement == <<"E1", "A0", "A0">>   \* U+FFFD, EF BF BD

(* ph_json_str, at a byte of 80 or more.                                   *)
WriteHigh(s) ==
  IF SeqLen(s) > 0 THEN [rest |-> Rest(s, SeqLen(s)), out |-> SubSeq(s, 1, SeqLen(s))]
  ELSE [rest |-> Rest(s, 1), out |-> Replacement]

(* ph_json_str between its quotes.                                         *)
RECURSIVE JsonStr(_)
JsonStr(s) ==
  IF s = <<>> THEN <<>>
  ELSE IF s[1] \in Ascii
  THEN (CASE s[1] \in {"quote", "slash"} -> <<"slash", s[1]>>
          [] s[1] = "n" -> <<"slash", "en">>
          [] s[1] = "ctl" -> <<"slash", "uctl">>
          [] OTHER -> <<s[1]>>) \o JsonStr(Rest(s, 1))
  ELSE WriteHigh(s).out \o JsonStr(WriteHigh(s).rest)

\* Mutant: only the first character is looked at.
ValidFirst(s) == s = <<>> \/ SeqLen(s) > 0

(* utf8_valid                                                              *)
RECURSIVE Valid(_)
Valid(s) == s = <<>> \/ (SeqLen(s) > 0 /\ Valid(Rest(s, SeqLen(s))))

(* An escape of parse_string_raw and the text after it: what it stands for *)
(* (utf8_encode for a code), <<>> if it is refused.                        *)
Unescaped(s) ==
  CASE At(s, 1) \in {"quote", "slash"} -> <<s[1]>>
    [] At(s, 1) = "en" -> <<"n">>
    [] At(s, 1) = "uctl" -> <<"ctl">>
    [] At(s, 1) = "ubmp" -> <<"E1", "80", "A0">>
    [] At(s, 1) = "uhi" /\ At(s, 2) = "slash" /\ At(s, 3) = "ulo" -> <<"F0", "90", "80", "80">>
    [] OTHER -> <<>>

(* parse_string_raw, between its quotes: [ok, out].                        *)
RECURSIVE Unquote(_, _)
Unquote(s, out) ==
  IF s = <<>> THEN [ok |-> Valid(out), out |-> out]
  ELSE IF s[1] = "slash"
  THEN LET u == Unescaped(Rest(s, 1))
       IN IF u = <<>> THEN [ok |-> FALSE, out |-> out]
          ELSE Unquote(Rest(s, IF s[2] = "uhi" THEN 4 ELSE 2), out \o u)
  ELSE IF s[1] \in {"n", "ctl", "quote"} THEN [ok |-> FALSE, out |-> out]
  ELSE Unquote(Rest(s, 1), Append(out, s[1]))

Decimals == {"0", "d"}
Run(s) == Cardinality({i \in 1 .. Len(s) : ToSet(SubSeq(s, 1, i)) \subseteq Decimals})

(* The parts of parse_number: their bytes at the start of s, -1 if they    *)
(* are malformed.                                                          *)
Whole(s) ==
  IF At(s, 1) = "0" THEN (IF At(s, 2) \in Decimals THEN -1 ELSE 1)
  ELSE IF Run(s) > 0 THEN Run(s) ELSE -1

Fraction(s) ==
  LET digits == Run(Rest(s, 1))
  IN IF At(s, 1) # "." THEN 0 ELSE IF digits = 0 THEN -1 ELSE 1 + digits

Exponent(s) ==
  LET sign == IF At(s, 2) \in {"+", "-"} THEN 2 ELSE 1
      digits == Run(Rest(s, sign))
  IN IF At(s, 1) # "e" THEN 0 ELSE IF digits = 0 THEN -1 ELSE sign + digits

(* parse_number: the bytes of the number that s starts with, 0 if it is    *)
(* refused.                                                                *)
ParseNumber(s) ==
  LET sign == IF At(s, 1) = "-" THEN 1 ELSE 0
      whole == Whole(Rest(s, sign))
      frac == Fraction(Rest(s, sign + whole))
      exp == Exponent(Rest(s, sign + whole + frac))
  IN IF whole = -1 \/ frac = -1 \/ exp = -1 THEN 0 ELSE sign + whole + frac + exp
-----------------------------------------------------------------------------
ScalarInit == bytes = <<>> /\ form \in {"value", "json", "number"}

AddByte ==
  /\ Len(bytes) < (IF form = "number" THEN MaxNumberBytes ELSE MaxStringBytes)
  /\ \E b \in (IF form = "number" THEN Decimals \cup {"-", "+", ".", "e"}
               ELSE IF form = "value" THEN Raw
               ELSE IF bytes # <<>> /\ Last(bytes) = "slash"
               THEN Escapes \cup {"quote", "slash", "a"} ELSE Raw \ {"quote"}) :
       bytes' = Append(bytes, b)
  /\ UNCHANGED form

NextScalar == bytes' = <<>> /\ UNCHANGED form

ScalarNext == AddByte \/ NextScalar

ScalarSpec == ScalarInit /\ [][ScalarNext]_scalarVars
-----------------------------------------------------------------------------
(* The well-formed byte sequences of one character (the Unicode standard's *)
(* table), apart from the code.                                            *)
Characters ==
  {<<b>> : b \in Ascii}
  \cup {<<"C2", x>> : x \in Tail1}
  \cup {<<"E0", "A0", x>> : x \in Tail1} \cup {<<"E1", x, y>> : x, y \in Tail1}
  \cup {<<"ED", x, y>> : x \in {"80", "90"}, y \in Tail1}
  \cup {<<"F0", x, y, z>> : x \in {"90", "A0"}, y, z \in Tail1}
  \cup {<<"F1", x, y, z>> : x, y, z \in Tail1} \cup {<<"F4", "80", y, z>> : y, z \in Tail1}

(* s with every byte that starts no character replaced by U+FFFD.          *)
RECURSIVE Sanitised(_)
Sanitised(s) ==
  LET fits == {c \in Characters : IsPrefix(c, s)}
  IN IF s = <<>> THEN <<>>
     ELSE IF fits = {} THEN Replacement \o Sanitised(Rest(s, 1))
     ELSE LET c == CHOOSE c \in fits : TRUE IN c \o Sanitised(Rest(s, Len(c)))

(* The grammar of a number in JSON, apart from the code.                   *)
DigitsOnly(s) == s # <<>> /\ ToSet(s) \subseteq Decimals
IntPart(s) == DigitsOnly(s) /\ (s[1] = "0" => Len(s) = 1)
FracPart(s) == s # <<>> => s[1] = "." /\ DigitsOnly(Rest(s, 1))
ExpPart(s) ==
  s # <<>> =>
    /\ s[1] = "e"
    /\ DigitsOnly(Rest(s, 1)) \/ (At(s, 2) \in {"+", "-"} /\ DigitsOnly(Rest(s, 2)))
IsNumber(s) ==
  \E i \in 0 .. 1, j, k \in 0 .. Len(s) :
    /\ i <= j /\ j <= k
    /\ SubSeq(s, 1, i) \in {<<>>, <<"-">>} /\ IntPart(SubSeq(s, i + 1, j))
    /\ FracPart(SubSeq(s, j + 1, k)) /\ ExpPart(Rest(s, k))

(* Strings and numbers agree with JSON.  What ph_json_str writes reads     *)
(* back as the value, malformed UTF-8 replaced and nothing else changed.   *)
(* A string parse_string_raw accepts is well-formed UTF-8, whatever the    *)
(* response mixes of raw bytes, escapes and surrogates.  parse_number      *)
(* reads the whole of a text exactly if JSON calls it a number, so that no *)
(* other text passes for one once what follows it is looked at.            *)
ScalarsAgree ==
  /\ form = "value" =>
       /\ Unquote(JsonStr(bytes), <<>>) = [ok |-> TRUE, out |-> Sanitised(bytes)]
       /\ {"n", "ctl"} \cap ToSet(JsonStr(bytes)) = {}
  /\ form = "json" =>
       LET r == Unquote(bytes, <<>>) IN r.ok => Sanitised(r.out) = r.out
  /\ form = "number" =>
       (bytes # <<>> /\ ParseNumber(bytes) = Len(bytes) <=> IsNumber(bytes))
=============================================================================
