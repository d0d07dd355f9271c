-------------------------- MODULE EventShapeProofs --------------------------
(***************************************************************************)
(* For every configuration, property list and capacity: what capture, the  *)
(* scrub stage and the serializer make of an event (EventShape).           *)
(***************************************************************************)
EXTENDS EventShape, WellFoundedInduction, TLAPS

-----------------------------------------------------------------------------
(* Induction, on numbers and along a list.                                  *)

LEMMA SetInduction ==
  ASSUME NEW T, 0 \in T, \A n \in Nat : n \in T => n + 1 \in T
  PROVE  Nat \subseteq T
<1> SUFFICES ASSUME Nat \ T # {} PROVE FALSE
  OBVIOUS
<1>1. \E x \in Nat \ T : \A y \in Nat \ T : <<y, x>> \notin OpToRel(<, Nat)
  BY WFMin, NatLessThanWellFounded, Zenon
<1>2. \A x, y \in Nat : y < x => <<y, x>> \in OpToRel(<, Nat)
  BY Zenon DEF OpToRel
<1>3. PICK x \in Nat \ T : \A y \in Nat \ T : ~(y < x)
  BY <1>1, <1>2, Zenon
<1>4. x - 1 \in Nat /\ (x - 1) + 1 = x /\ x - 1 < x
  BY <1>3
<1> QED BY <1>3, <1>4

\* A list is the empty one, or a shorter one with a property at its end.
LEMMA SnocCases ==
  ASSUME NEW S, NEW n \in Nat, NEW s \in Seq(S), Len(s) = n + 1
  PROVE  \E t \in Seq(S), p \in S : Len(t) = n /\ s = Append(t, p)
<1> DEFINE t == [i \in 1 .. n |-> s[i]]
<1>1. s \in [1 .. (n + 1) -> S]
  OBVIOUS
<1>2. t \in Seq(S) /\ Len(t) = n
  <2>1. t \in [1 .. n -> S]
    BY <1>1
  <2> QED BY <2>1
<1>3. s[n + 1] \in S
  BY <1>1
<1>4. s = Append(t, s[n + 1])
  <2>1. Append(t, s[n + 1]) \in Seq(S) /\ Len(Append(t, s[n + 1])) = n + 1
    BY <1>2, <1>3
  <2>2. \A i \in 1 .. (n + 1) : Append(t, s[n + 1])[i] = s[i]
    BY <1>2, <1>3
  <2> QED BY <2>1, <2>2
<1> QED BY <1>2, <1>3, <1>4, Zenon

LEMMA ListInduction ==
  ASSUME NEW S, NEW T, <<>> \in T,
         \A s \in Seq(S), p \in S : s \in T => Append(s, p) \in T
  PROVE  Seq(S) \subseteq T
<1> DEFINE N == {n \in Nat : \A s \in Seq(S) : Len(s) = n => s \in T}
<1>1. 0 \in N
  <2>1. \A s \in Seq(S) : Len(s) = 0 => s = <<>>
    OBVIOUS
  <2> QED BY <2>1
<1>2. ASSUME NEW n \in Nat, n \in N PROVE n + 1 \in N
  <2> SUFFICES ASSUME NEW s \in Seq(S), Len(s) = n + 1 PROVE s \in T
    OBVIOUS
  <2>1. PICK t \in Seq(S), p \in S : Len(t) = n /\ s = Append(t, p)
    BY SnocCases
  <2>2. t \in T
    BY <1>2, <2>1
  <2> QED BY <2>1, <2>2
<1>3. Nat \subseteq N
  <2> HIDE DEF N
  <2> QED BY <1>1, <1>2, SetInduction
<1>4. \A s \in Seq(S) : Len(s) \in Nat
  OBVIOUS
<1> QED BY <1>3, <1>4

-----------------------------------------------------------------------------
(* The pass over a list.                                                    *)

IsPass(f, step, start, ps) ==
  f = [n \in 0 .. Len(ps) |-> IF n = 0 THEN start ELSE step[ps[n]][f[n - 1]]]

LEMMA PassExists ==
  ASSUME NEW S, NEW A, NEW start \in A, NEW step \in [S -> [A -> A]]
  PROVE  \A ps \in Seq(S) : \E f \in [0 .. Len(ps) -> A] : IsPass(f, step, start, ps)
<1> DEFINE T == {ps \in Seq(S) : \E f \in [0 .. Len(ps) -> A] : IsPass(f, step, start, ps)}
<1>1. <<>> \in T
  <2> DEFINE f == [n \in 0 .. 0 |-> start]
  <2>1. f \in [0 .. 0 -> A] /\ f = [n \in 0 .. 0 |-> IF n = 0 THEN start ELSE step[<<>>[n]][f[n - 1]]]
    OBVIOUS
  <2>2. <<>> \in Seq(S) /\ Len(<<>>) = 0
    OBVIOUS
  <2> HIDE DEF f
  <2>3. f \in [0 .. Len(<<>>) -> A] /\ IsPass(f, step, start, <<>>)
    BY <2>1, <2>2, Zenon DEF IsPass
  <2> QED BY <2>2, <2>3
<1>2. ASSUME NEW ps \in Seq(S), NEW p \in S, ps \in T PROVE Append(ps, p) \in T
  <2>1. PICK f \in [0 .. Len(ps) -> A] : IsPass(f, step, start, ps)
    BY <1>2
  <2> DEFINE qs == Append(ps, p)
             m == Len(ps)
             g == [n \in 0 .. (m + 1) |-> IF n = m + 1 THEN step[p][f[m]] ELSE f[n]]
  <2>2. /\ m \in Nat /\ qs \in Seq(S) /\ Len(qs) = m + 1 /\ qs[m + 1] = p
        /\ \A n \in 1 .. m : qs[n] = ps[n]
    OBVIOUS
  <2> HIDE DEF qs, m
  <2>3. f \in [0 .. m -> A] /\ step[p][f[m]] \in A
    BY <2>1, <2>2 DEF m
  <2>4. g \in [0 .. (m + 1) -> A]
    BY <2>2, <2>3
  <2>5. ASSUME NEW n \in 0 .. (m + 1)
        PROVE  g[n] = IF n = 0 THEN start ELSE step[qs[n]][g[n - 1]]
    <3>1. CASE n = m + 1
      BY <2>2, <3>1
    <3>2. CASE n \in 0 .. m
      <4>1. f[n] = IF n = 0 THEN start ELSE step[ps[n]][f[n - 1]]
        BY <2>1, <3>2, Zenon DEF IsPass, m
      <4>2. g[n] = f[n] /\ (n # 0 => qs[n] = ps[n] /\ g[n - 1] = f[n - 1])
        BY <2>2, <3>2
      <4> QED BY <4>1, <4>2
    <3> QED BY <2>2, <3>1, <3>2
  <2>6. IsPass(g, step, start, qs)
    <3>1. g = [n \in 0 .. (m + 1) |-> g[n]]
      OBVIOUS
    <3> HIDE DEF g
    <3> QED BY <2>2, <2>5, <3>1, Zenon DEF IsPass
  <2> HIDE DEF g
  <2> QED BY <2>2, <2>4, <2>6 DEF qs
<1>3. Seq(S) \subseteq T
  <2> HIDE DEF T
  <2> QED BY <1>1, <1>2, ListInduction
<1> QED BY <1>3

LEMMA PassUnique ==
  ASSUME NEW step, NEW start, NEW ps, Len(ps) \in Nat,
         NEW f, IsPass(f, step, start, ps), NEW g, IsPass(g, step, start, ps)
  PROVE  f = g
<1> DEFINE T == {n \in Nat : n <= Len(ps) => f[n] = g[n]}
<1>1. /\ \A n \in 0 .. Len(ps) : f[n] = IF n = 0 THEN start ELSE step[ps[n]][f[n - 1]]
      /\ \A n \in 0 .. Len(ps) : g[n] = IF n = 0 THEN start ELSE step[ps[n]][g[n - 1]]
      /\ f = [n \in 0 .. Len(ps) |-> f[n]] /\ g = [n \in 0 .. Len(ps) |-> g[n]]
  BY Zenon DEF IsPass
<1>2. 0 \in T
  <2>1. 0 \in 0 .. Len(ps)
    OBVIOUS
  <2>2. f[0] = start /\ g[0] = start
    BY <1>1, <2>1, Zenon
  <2> QED BY <2>2
<1>3. ASSUME NEW n \in Nat, n \in T PROVE n + 1 \in T
  <2> SUFFICES ASSUME n + 1 <= Len(ps) PROVE f[n + 1] = g[n + 1]
    OBVIOUS
  <2>1. n + 1 \in 0 .. Len(ps) /\ n + 1 # 0 /\ (n + 1) - 1 = n /\ f[n] = g[n]
    BY <1>3
  <2>2. f[n + 1] = step[ps[n + 1]][f[n]] /\ g[n + 1] = step[ps[n + 1]][g[n]]
    BY <1>1, <2>1
  <2> QED BY <2>1, <2>2
<1>4. Nat \subseteq T
  <2> HIDE DEF T
  <2> QED BY <1>2, <1>3, SetInduction
<1>5. \A n \in 0 .. Len(ps) : f[n] = g[n]
  BY <1>4
<1> QED BY <1>1, <1>5

\* Pass gives the last value of the one function that satisfies the recursion.
LEMMA PassIs ==
  ASSUME NEW S, NEW A, NEW start \in A, NEW step \in [S -> [A -> A]], NEW ps \in Seq(S)
  PROVE  \E f \in [0 .. Len(ps) -> A] :
           IsPass(f, step, start, ps) /\ Pass(step, start, ps) = f[Len(ps)]
<1>1. PICK f \in [0 .. Len(ps) -> A] : IsPass(f, step, start, ps)
  BY PassExists
<1> DEFINE h == CHOOSE h : IsPass(h, step, start, ps)
<1>2. IsPass(h, step, start, ps)
  BY <1>1
<1>3. h = f
  <2>1. Len(ps) \in Nat
    OBVIOUS
  <2> HIDE DEF h
  <2> QED BY <1>1, <1>2, <2>1, PassUnique
<1>4. Pass(step, start, ps) = h[Len(ps)]
  BY Zenon DEF Pass, IsPass
<1> QED BY <1>1, <1>3, <1>4, Zenon

LEMMA PassEmpty ==
  ASSUME NEW start, NEW step
  PROVE  Pass(step, start, <<>>) = start
<1> DEFINE A == {start}
           st == [p \in {} |-> [a \in A |-> a]]
           h == CHOOSE h : IsPass(h, step, start, <<>>)
           f == [n \in 0 .. 0 |-> start]
<1>1. Len(<<>>) = 0
  OBVIOUS
<1>2. IsPass(f, step, start, <<>>)
  <2>1. f = [n \in 0 .. 0 |-> IF n = 0 THEN start ELSE step[<<>>[n]][f[n - 1]]]
    OBVIOUS
  <2> HIDE DEF f
  <2> QED BY <1>1, <2>1, Zenon DEF IsPass
<1>3. h = f
  <2>1. IsPass(h, step, start, <<>>)
    BY <1>2, Zenon
  <2> HIDE DEF h, f
  <2> QED BY <1>1, <1>2, <2>1, PassUnique
<1>4. Pass(step, start, <<>>) = h[Len(<<>>)]
  BY Zenon DEF Pass, IsPass
<1> QED BY <1>1, <1>3, <1>4

LEMMA PassAppend ==
  ASSUME NEW S, NEW A, NEW start \in A, NEW step \in [S -> [A -> A]],
         NEW ps \in Seq(S), NEW p \in S
  PROVE  Pass(step, start, Append(ps, p)) = step[p][Pass(step, start, ps)]
<1> DEFINE qs == Append(ps, p)
           m == Len(ps)
<1>1. /\ m \in Nat /\ qs \in Seq(S) /\ Len(qs) = m + 1 /\ qs[m + 1] = p
      /\ \A n \in 1 .. m : qs[n] = ps[n]
  OBVIOUS
<1> HIDE DEF qs, m
<1>2. PICK f \in [0 .. m -> A] : IsPass(f, step, start, ps) /\ Pass(step, start, ps) = f[m]
  BY PassIs DEF m
<1>3. PICK g \in [0 .. (m + 1) -> A] :
        IsPass(g, step, start, qs) /\ Pass(step, start, qs) = g[m + 1]
  <2>1. \A rs \in Seq(S) : \E g \in [0 .. Len(rs) -> A] :
          IsPass(g, step, start, rs) /\ Pass(step, start, rs) = g[Len(rs)]
    BY PassIs
  <2> QED BY <1>1, <2>1, Zenon
<1> DEFINE k == [n \in 0 .. m |-> g[n]]
<1>4. \A n \in 0 .. (m + 1) : g[n] = IF n = 0 THEN start ELSE step[qs[n]][g[n - 1]]
  BY <1>1, <1>3 DEF IsPass
<1>5. IsPass(k, step, start, ps)
  <2>1. ASSUME NEW n \in 0 .. m PROVE k[n] = IF n = 0 THEN start ELSE step[ps[n]][k[n - 1]]
    <3>1. n \in 0 .. (m + 1) /\ (n # 0 => n \in 1 .. m /\ n - 1 \in 0 .. m)
      BY <1>1
    <3> QED BY <1>1, <1>4, <3>1
  <2>2. k = [n \in 0 .. m |-> k[n]]
    OBVIOUS
  <2> HIDE DEF k
  <2> QED BY <2>1, <2>2, Zenon DEF IsPass, m
<1>6. k = f
  <2>1. Len(ps) \in Nat
    BY <1>1 DEF m
  <2> HIDE DEF k
  <2> QED BY <1>2, <1>5, <2>1, PassUnique
<1>7. g[m] = f[m]
  BY <1>1, <1>6
<1>8. g[m + 1] = step[p][g[m]]
  <2>1. m + 1 \in 0 .. (m + 1) /\ m + 1 # 0 /\ (m + 1) - 1 = m
    BY <1>1
  <2> QED BY <1>1, <1>4, <2>1
<1> QED BY <1>1, <1>2, <1>3, <1>7, <1>8 DEF qs


LEMMA PassStep ==
  ASSUME NEW S, NEW A, NEW start \in A, NEW step \in [S -> [A -> A]]
  PROVE  /\ Pass(step, start, <<>>) = start
         /\ \A ps \in Seq(S) : Pass(step, start, ps) \in A
         /\ \A ps \in Seq(S), p \in S :
              Pass(step, start, Append(ps, p)) = step[p][Pass(step, start, ps)]
<1>1. Pass(step, start, <<>>) = start
  BY PassEmpty
<1>2. ASSUME NEW ps \in Seq(S) PROVE Pass(step, start, ps) \in A
  <2>1. PICK f \in [0 .. Len(ps) -> A] : Pass(step, start, ps) = f[Len(ps)]
    BY PassIs
  <2>2. Len(ps) \in 0 .. Len(ps)
    OBVIOUS
  <2> QED BY <2>1, <2>2, Zenon
<1>3. \A ps \in Seq(S), p \in S :
        Pass(step, start, Append(ps, p)) = step[p][Pass(step, start, ps)]
  BY PassAppend
<1> QED BY <1>1, <1>2, <1>3

-----------------------------------------------------------------------------
(* Lists: where their properties are.                                       *)

LEMMA RangeFacts ==
  /\ Range(<<>>) = {}
  /\ \A ps \in Seq(Prop), p \in Prop : Range(Append(ps, p)) = Range(ps) \cup {p}
  /\ \A ps \in Seq(Prop) : Range(ps) \subseteq Prop
  /\ \A ps, qs \in Seq(Prop) : Range(ps \o qs) = Range(ps) \cup Range(qs)
<1>1. Range(<<>>) = {}
  BY DEF Range
<1>2. ASSUME NEW ps \in Seq(Prop), NEW p \in Prop PROVE Range(Append(ps, p)) = Range(ps) \cup {p}
  <2> DEFINE qs == Append(ps, p)
  <2>1. /\ Len(ps) \in Nat /\ DOMAIN ps = 1 .. Len(ps)
        /\ DOMAIN qs = 1 .. (Len(ps) + 1) /\ qs[Len(ps) + 1] = p
        /\ \A i \in 1 .. Len(ps) : qs[i] = ps[i]
    OBVIOUS
  <2> HIDE DEF qs
  <2>2. \A i \in 1 .. (Len(ps) + 1) : i = Len(ps) + 1 \/ i \in 1 .. Len(ps)
    BY <2>1
  <2>3. Len(ps) + 1 \in DOMAIN qs /\ \A i \in DOMAIN ps : i \in DOMAIN qs
    BY <2>1
  <2>4. Range(qs) \subseteq Range(ps) \cup {p}
    BY <2>1, <2>2 DEF Range
  <2>5. Range(ps) \cup {p} \subseteq Range(qs)
    BY <2>1, <2>3 DEF Range
  <2> QED BY <2>4, <2>5 DEF qs
<1>3. ASSUME NEW ps \in Seq(Prop) PROVE Range(ps) \subseteq Prop
  BY DEF Range
<1>4. ASSUME NEW ps \in Seq(Prop), NEW qs \in Seq(Prop)
      PROVE  Range(ps \o qs) = Range(ps) \cup Range(qs)
  <2> DEFINE m == Len(ps)
             n == Len(qs)
             c == ps \o qs
  <2>1. /\ m \in Nat /\ n \in Nat /\ DOMAIN ps = 1 .. m /\ DOMAIN qs = 1 .. n
        /\ DOMAIN c = 1 .. (m + n)
        /\ \A i \in 1 .. (m + n) : c[i] = IF i <= m THEN ps[i] ELSE qs[i - m]
    OBVIOUS
  <2> HIDE DEF m, n, c
  <2>2. ASSUME NEW i \in 1 .. (m + n) PROVE c[i] \in Range(ps) \cup Range(qs)
    <3>1. (i <= m => i \in 1 .. m) /\ (~(i <= m) => i - m \in 1 .. n)
      BY <2>1
    <3> QED BY <2>1, <3>1, Zenon DEF Range
  <2>3. ASSUME NEW i \in 1 .. m PROVE ps[i] \in Range(c)
    <3>1. i \in 1 .. (m + n) /\ i <= m
      BY <2>1
    <3>2. c[i] = ps[i]
      BY <2>1, <3>1
    <3> QED BY <2>1, <3>1, <3>2 DEF Range
  <2>4. ASSUME NEW i \in 1 .. n PROVE qs[i] \in Range(c)
    <3>1. m + i \in 1 .. (m + n) /\ ~(m + i <= m) /\ (m + i) - m = i
      BY <2>1
    <3>2. c[m + i] = qs[i]
      BY <2>1, <3>1
    <3> QED BY <2>1, <3>1, <3>2 DEF Range
  <2>5. Range(c) \subseteq Range(ps) \cup Range(qs)
    BY <2>1, <2>2 DEF Range
  <2>6. Range(ps) \cup Range(qs) \subseteq Range(c)
    <3>1. Range(ps) \subseteq Range(c)
      BY <2>1, <2>3 DEF Range
    <3>2. Range(qs) \subseteq Range(c)
      BY <2>1, <2>4 DEF Range
    <3> QED BY <3>1, <3>2
  <2> QED BY <2>5, <2>6 DEF c
<1> QED BY <1>1, <1>2, <1>3, <1>4

\* Appending to the second list appends to both.
LEMMA ConcatAppend ==
  ASSUME NEW a \in Seq(Prop)
  PROVE  /\ a \o <<>> = a /\ <<>> \o a = a
         /\ \A b \in Seq(Prop), p \in Prop : a \o Append(b, p) = Append(a \o b, p)
<1>1. a \o <<>> = a /\ <<>> \o a = a
  OBVIOUS
<1>2. ASSUME NEW b \in Seq(Prop), NEW p \in Prop PROVE a \o Append(b, p) = Append(a \o b, p)
  OBVIOUS
<1> QED BY <1>1, <1>2

-----------------------------------------------------------------------------
(* Size, Select and Pack, one property at a time.                           *)

LEMMA SizeStep ==
  /\ Size(<<>>) = 0
  /\ \A ps \in Seq(Prop) : Size(ps) \in Nat
  /\ \A ps \in Seq(Prop), p \in Prop : p.len \in Nat /\ Size(Append(ps, p)) = Size(ps) + p.len
<1> DEFINE step == [p \in Prop |-> [n \in Nat |-> n + p.len]]
<1>1. \A p \in Prop : p.len \in Nat
  BY DEF Prop
<1>2. step \in [Prop -> [Nat -> Nat]]
  BY <1>1
<1>5. \A p \in Prop, n \in Nat : step[p][n] = n + p.len
  OBVIOUS
<1>3. \A ps : Size(ps) = Pass(step, 0, ps)
  BY DEF Size
<1> HIDE DEF step
<1>4. /\ Pass(step, 0, <<>>) = 0
      /\ \A ps \in Seq(Prop) : Pass(step, 0, ps) \in Nat
      /\ \A ps \in Seq(Prop), p \in Prop :
           Pass(step, 0, Append(ps, p)) = step[p][Pass(step, 0, ps)]
  <2> DEFINE N == Nat
  <2>2. 0 \in N /\ step \in [Prop -> [N -> N]]
    BY <1>2
  <2> HIDE DEF N
  <2>3. /\ Pass(step, 0, <<>>) = 0
        /\ \A ps \in Seq(Prop) : Pass(step, 0, ps) \in N
        /\ \A ps \in Seq(Prop), p \in Prop :
             Pass(step, 0, Append(ps, p)) = step[p][Pass(step, 0, ps)]
    BY <2>2, PassStep
  <2> QED BY <2>3 DEF N
<1> QED BY <1>1, <1>3, <1>4, <1>5, Zenon

LEMMA SelectStep ==
  ASSUME NEW S
  PROVE  /\ Select(<<>>, S) = <<>>
         /\ \A ps \in Seq(Prop) : Select(ps, S) \in Seq(Prop)
         /\ \A ps \in Seq(Prop), p \in Prop :
              Select(Append(ps, p), S)
                = IF p \in S THEN Append(Select(ps, S), p) ELSE Select(ps, S)
<1> DEFINE step == [p \in Prop |-> [b \in Seq(Prop) |-> IF p \in S THEN Append(b, p) ELSE b]]
<1>2. step \in [Prop -> [Seq(Prop) -> Seq(Prop)]]
  OBVIOUS
<1>5. \A p \in Prop, b \in Seq(Prop) : step[p][b] = IF p \in S THEN Append(b, p) ELSE b
  OBVIOUS
<1>3. \A ps : Select(ps, S) = Pass(step, <<>>, ps)
  BY DEF Select
<1> HIDE DEF step
<1>4. /\ Pass(step, <<>>, <<>>) = <<>>
      /\ \A ps \in Seq(Prop) : Pass(step, <<>>, ps) \in Seq(Prop)
      /\ \A ps \in Seq(Prop), p \in Prop :
           Pass(step, <<>>, Append(ps, p)) = step[p][Pass(step, <<>>, ps)]
  <2>1. <<>> \in Seq(Prop)
    OBVIOUS
  <2> QED BY <1>2, <2>1, PassStep, Zenon
<1> QED BY <1>3, <1>4, <1>5, Zenon

LEMMA PackStep ==
  ASSUME NEW cap
  PROVE  /\ Pack(<<>>, cap) = <<>>
         /\ \A ps \in Seq(Prop) : Pack(ps, cap) \in Seq(Prop)
         /\ \A ps \in Seq(Prop), p \in Prop :
              Pack(Append(ps, p), cap)
                = IF Size(Pack(ps, cap)) + p.len <= cap THEN Append(Pack(ps, cap), p)
                  ELSE Pack(ps, cap)
<1> DEFINE step == [p \in Prop |-> [b \in Seq(Prop) |->
                     IF Size(b) + p.len <= cap THEN Append(b, p) ELSE b]]
<1>2. step \in [Prop -> [Seq(Prop) -> Seq(Prop)]]
  OBVIOUS
<1>5. \A p \in Prop, b \in Seq(Prop) :
        step[p][b] = IF Size(b) + p.len <= cap THEN Append(b, p) ELSE b
  OBVIOUS
<1>3. \A ps : Pack(ps, cap) = Pass(step, <<>>, ps)
  BY DEF Pack
<1> HIDE DEF step
<1>4. /\ Pass(step, <<>>, <<>>) = <<>>
      /\ \A ps \in Seq(Prop) : Pass(step, <<>>, ps) \in Seq(Prop)
      /\ \A ps \in Seq(Prop), p \in Prop :
           Pass(step, <<>>, Append(ps, p)) = step[p][Pass(step, <<>>, ps)]
  <2>1. <<>> \in Seq(Prop)
    OBVIOUS
  <2> QED BY <1>2, <2>1, PassStep, Zenon
<1>6. ASSUME NEW ps \in Seq(Prop), NEW p \in Prop
      PROVE  Pack(Append(ps, p), cap)
               = IF Size(Pack(ps, cap)) + p.len <= cap THEN Append(Pack(ps, cap), p)
                 ELSE Pack(ps, cap)
  <2>1. Pack(Append(ps, p), cap) = step[p][Pack(ps, cap)] /\ Pack(ps, cap) \in Seq(Prop)
    BY <1>3, <1>4
  <2> QED BY <1>5, <2>1
<1> QED BY <1>3, <1>4, <1>6

-----------------------------------------------------------------------------
(* What they do to whole lists.                                             *)

LEMMA SizeConcat ==
  ASSUME NEW a \in Seq(Prop)
  PROVE  \A b \in Seq(Prop) : Size(a \o b) = Size(a) + Size(b)
<1> DEFINE T == {b \in Seq(Prop) : Size(a \o b) = Size(a) + Size(b)}
<1>1. <<>> \in T
  BY SizeStep, ConcatAppend
<1>2. ASSUME NEW b \in Seq(Prop), NEW p \in Prop, b \in T PROVE Append(b, p) \in T
  <2>1. a \o Append(b, p) = Append(a \o b, p) /\ a \o b \in Seq(Prop)
    BY ConcatAppend
  <2>2. Size(Append(a \o b, p)) = Size(a \o b) + p.len /\ Size(Append(b, p)) = Size(b) + p.len
    BY <2>1, SizeStep, Zenon
  <2>3. p.len \in Nat /\ Size(a) \in Nat /\ Size(b) \in Nat /\ Size(a \o b) = Size(a) + Size(b)
    BY <1>2, SizeStep
  <2>4. Size(Append(a \o b, p)) = Size(a) + Size(Append(b, p)) /\ Append(b, p) \in Seq(Prop)
    BY <2>2, <2>3
  <2> QED BY <2>1, <2>4, Zenon
<1>3. Seq(Prop) \subseteq T
  <2> HIDE DEF T
  <2> QED BY <1>1, <1>2, ListInduction
<1> QED BY <1>3

LEMMA SelectConcat ==
  ASSUME NEW S, NEW a \in Seq(Prop)
  PROVE  \A b \in Seq(Prop) : Select(a \o b, S) = Select(a, S) \o Select(b, S)
<1> DEFINE T == {b \in Seq(Prop) : Select(a \o b, S) = Select(a, S) \o Select(b, S)}
<1>0. Select(a, S) \in Seq(Prop)
  BY SelectStep, Zenon
<1>1. <<>> \in T
  <2>1. Select(a, S) \o <<>> = Select(a, S)
    BY <1>0, ConcatAppend
  <2>2. a \o <<>> = a /\ Select(<<>>, S) = <<>>
    BY ConcatAppend, SelectStep
  <2>3. <<>> \in Seq(Prop)
    OBVIOUS
  <2> QED BY <2>1, <2>2, <2>3, Zenon
<1>2. ASSUME NEW b \in Seq(Prop), NEW p \in Prop, b \in T PROVE Append(b, p) \in T
  <2>1. a \o Append(b, p) = Append(a \o b, p) /\ a \o b \in Seq(Prop)
    BY ConcatAppend
  <2>2. /\ Select(Append(a \o b, p), S)
             = IF p \in S THEN Append(Select(a \o b, S), p) ELSE Select(a \o b, S)
        /\ Select(Append(b, p), S) = IF p \in S THEN Append(Select(b, S), p) ELSE Select(b, S)
        /\ Select(b, S) \in Seq(Prop)
    BY <2>1, SelectStep, Zenon
  <2>3. Select(a, S) \o Append(Select(b, S), p) = Append(Select(a, S) \o Select(b, S), p)
    BY <1>0, <2>2, ConcatAppend
  <2>4. Select(a \o b, S) = Select(a, S) \o Select(b, S)
    BY <1>2
  <2>5. Select(Append(a \o b, p), S) = Select(a, S) \o Select(Append(b, p), S)
    BY <2>2, <2>3, <2>4, Zenon
  <2>6. Append(b, p) \in Seq(Prop)
    OBVIOUS
  <2> QED BY <2>1, <2>5, <2>6, Zenon
<1>3. Seq(Prop) \subseteq T
  <2> HIDE DEF T
  <2> QED BY <1>1, <1>2, ListInduction
<1> QED BY <1>3

LEMMA SelectSelect ==
  ASSUME NEW S, NEW U
  PROVE  \A ps \in Seq(Prop) : Select(Select(ps, S), U) = Select(ps, S \cap U)
<1> DEFINE T == {ps \in Seq(Prop) : Select(Select(ps, S), U) = Select(ps, S \cap U)}
<1>1. <<>> \in T
  BY SelectStep
<1>2. ASSUME NEW ps \in Seq(Prop), NEW p \in Prop, ps \in T PROVE Append(ps, p) \in T
  <2>1. /\ Select(Append(ps, p), S) = IF p \in S THEN Append(Select(ps, S), p) ELSE Select(ps, S)
        /\ Select(ps, S) \in Seq(Prop)
    BY SelectStep, Zenon
  <2>2. Select(Append(Select(ps, S), p), U)
          = IF p \in U THEN Append(Select(Select(ps, S), U), p) ELSE Select(Select(ps, S), U)
    BY <2>1, SelectStep, Zenon
  <2>3. Select(Append(ps, p), S \cap U)
          = IF p \in S \cap U THEN Append(Select(ps, S \cap U), p) ELSE Select(ps, S \cap U)
    BY SelectStep, Zenon
  <2>4. Select(Select(ps, S), U) = Select(ps, S \cap U)
    BY <1>2
  <2>5. CASE p \in S
    <3>1. Select(Select(Append(ps, p), S), U) = Select(Append(Select(ps, S), p), U)
      BY <2>1, <2>5
    <3>2. Select(Select(Append(ps, p), S), U) = Select(Append(ps, p), S \cap U)
      BY <2>2, <2>3, <2>4, <2>5, <3>1
    <3> QED BY <3>2
  <2>6. CASE p \notin S
    BY <2>1, <2>3, <2>4, <2>6
  <2> QED BY <2>5, <2>6
<1>3. Seq(Prop) \subseteq T
  <2> HIDE DEF T
  <2> QED BY <1>1, <1>2, ListInduction
<1> QED BY <1>3, Zenon

LEMMA SelectRange ==
  ASSUME NEW S
  PROVE  \A ps \in Seq(Prop) : /\ Range(Select(ps, S)) = Range(ps) \cap S
                               /\ Len(Select(ps, S)) <= Len(ps)
                               /\ Size(Select(ps, S)) <= Size(ps)
<1> DEFINE T == {ps \in Seq(Prop) : /\ Range(Select(ps, S)) = Range(ps) \cap S
                                    /\ Len(Select(ps, S)) <= Len(ps)
                                    /\ Size(Select(ps, S)) <= Size(ps)}
<1>1. <<>> \in T
  <2>1. Select(<<>>, S) = <<>> /\ Range(<<>>) = {} /\ Size(<<>>) = 0
    BY SelectStep, RangeFacts, SizeStep
  <2> QED BY <2>1
<1>2. ASSUME NEW ps \in Seq(Prop), NEW p \in Prop, ps \in T PROVE Append(ps, p) \in T
  <2>1. /\ Select(Append(ps, p), S) = IF p \in S THEN Append(Select(ps, S), p) ELSE Select(ps, S)
        /\ Select(ps, S) \in Seq(Prop)
    BY SelectStep, Zenon
  <2>2. /\ Range(Append(ps, p)) = Range(ps) \cup {p}
        /\ Range(Append(Select(ps, S), p)) = Range(Select(ps, S)) \cup {p}
    BY <2>1, RangeFacts
  <2>3. Range(Select(Append(ps, p), S)) = Range(Append(ps, p)) \cap S
    BY <1>2, <2>1, <2>2
  <2>4. Len(Select(Append(ps, p), S)) <= Len(Append(ps, p))
    BY <1>2, <2>1
  <2>5. /\ Size(Append(ps, p)) = Size(ps) + p.len /\ p.len \in Nat /\ Size(ps) \in Nat
        /\ Size(Append(Select(ps, S), p)) = Size(Select(ps, S)) + p.len
        /\ Size(Select(ps, S)) \in Nat
    BY <2>1, SizeStep
  <2>6. Size(Select(Append(ps, p), S)) <= Size(Append(ps, p))
    BY <1>2, <2>1, <2>5
  <2> QED BY <2>3, <2>4, <2>6
<1>3. Seq(Prop) \subseteq T
  <2> HIDE DEF T
  <2> QED BY <1>1, <1>2, ListInduction
<1> QED BY <1>3

\* Only the properties of the list matter to which test selects.
LEMMA SelectSame ==
  ASSUME NEW S, NEW U
  PROVE  \A ps \in Seq(Prop) : Range(ps) \cap S = Range(ps) \cap U => Select(ps, S) = Select(ps, U)
<1> DEFINE T == {ps \in Seq(Prop) :
                   Range(ps) \cap S = Range(ps) \cap U => Select(ps, S) = Select(ps, U)}
<1>1. <<>> \in T
  BY SelectStep
<1>2. ASSUME NEW ps \in Seq(Prop), NEW p \in Prop, ps \in T PROVE Append(ps, p) \in T
  <2> SUFFICES ASSUME Range(Append(ps, p)) \cap S = Range(Append(ps, p)) \cap U
               PROVE  Select(Append(ps, p), S) = Select(Append(ps, p), U)
    OBVIOUS
  <2>1. Range(Append(ps, p)) = Range(ps) \cup {p}
    BY RangeFacts
  <2>2. Range(ps) \cap S = Range(ps) \cap U /\ (p \in S <=> p \in U)
    BY <2>1
  <2>3. Select(ps, S) = Select(ps, U)
    BY <1>2, <2>2
  <2>4. Select(Append(ps, p), S) = IF p \in S THEN Append(Select(ps, S), p) ELSE Select(ps, S)
    BY SelectStep, Zenon
  <2>5. Select(Append(ps, p), U) = IF p \in U THEN Append(Select(ps, U), p) ELSE Select(ps, U)
    BY SelectStep, Zenon
  <2> QED BY <2>2, <2>3, <2>4, <2>5
<1>3. Seq(Prop) \subseteq T
  <2> HIDE DEF T
  <2> QED BY <1>1, <1>2, ListInduction
<1> QED BY <1>3

\* A test every property passes, and one none passes.
LEMMA SelectAll ==
  /\ \A ps \in Seq(Prop) : Select(ps, Prop) = ps /\ Select(ps, {}) = <<>>
  /\ \A S : \A ps \in Seq(Prop) : Range(ps) \subseteq S => Select(ps, S) = ps
  /\ \A S : \A ps \in Seq(Prop) : Range(ps) \cap S = {} => Select(ps, S) = <<>>
<1> DEFINE T == {ps \in Seq(Prop) : Select(ps, Prop) = ps /\ Select(ps, {}) = <<>>}
<1>1. <<>> \in T
  BY SelectStep
<1>2. ASSUME NEW ps \in Seq(Prop), NEW p \in Prop, ps \in T PROVE Append(ps, p) \in T
  <2>1. Select(Append(ps, p), Prop) = Append(Select(ps, Prop), p)
    BY SelectStep, Zenon
  <2>2. Select(Append(ps, p), {}) = Select(ps, {})
    BY SelectStep, Zenon
  <2> QED BY <1>2, <2>1, <2>2
<1>3. Seq(Prop) \subseteq T
  <2> HIDE DEF T
  <2> QED BY <1>1, <1>2, ListInduction
<1>4. ASSUME NEW ps \in Seq(Prop), NEW S, Range(ps) \subseteq S PROVE Select(ps, S) = ps
  <2>1. Range(ps) \subseteq Prop
    BY RangeFacts
  <2>2. Range(ps) \cap S = Range(ps) \cap Prop
    BY <1>4, <2>1
  <2> QED BY <1>3, <2>2, SelectSame
<1>5. ASSUME NEW ps \in Seq(Prop), NEW S, Range(ps) \cap S = {} PROVE Select(ps, S) = <<>>
  <2>1. Range(ps) \cap S = Range(ps) \cap {}
    BY <1>5
  <2> QED BY <1>3, <2>1, SelectSame
<1> QED BY <1>3, <1>4, <1>5

\* A test and its negation share out the bytes.
LEMMA SelectSplits ==
  ASSUME NEW S
  PROVE  \A ps \in Seq(Prop) : Size(Select(ps, S)) + Size(Select(ps, Prop \ S)) = Size(ps)
<1> DEFINE T == {ps \in Seq(Prop) :
                   Size(Select(ps, S)) + Size(Select(ps, Prop \ S)) = Size(ps)}
<1>1. <<>> \in T
  BY SelectStep, SizeStep
<1>2. ASSUME NEW ps \in Seq(Prop), NEW p \in Prop, ps \in T PROVE Append(ps, p) \in T
  <2>1. /\ Select(Append(ps, p), S) = IF p \in S THEN Append(Select(ps, S), p) ELSE Select(ps, S)
        /\ Select(ps, S) \in Seq(Prop)
    BY SelectStep, Zenon
  <2>2. /\ Select(Append(ps, p), Prop \ S)
             = IF p \in S THEN Select(ps, Prop \ S) ELSE Append(Select(ps, Prop \ S), p)
        /\ Select(ps, Prop \ S) \in Seq(Prop)
    BY SelectStep, Zenon
  <2>3. /\ Size(Append(ps, p)) = Size(ps) + p.len /\ p.len \in Nat
        /\ Size(Append(Select(ps, S), p)) = Size(Select(ps, S)) + p.len
        /\ Size(Append(Select(ps, Prop \ S), p)) = Size(Select(ps, Prop \ S)) + p.len
        /\ Size(Select(ps, S)) \in Nat /\ Size(Select(ps, Prop \ S)) \in Nat
    BY <2>1, <2>2, SizeStep
  <2>4. Size(Select(ps, S)) + Size(Select(ps, Prop \ S)) = Size(ps)
    BY <1>2
  <2>5. Size(Select(Append(ps, p), S)) + Size(Select(Append(ps, p), Prop \ S))
          = Size(Append(ps, p))
    <3>1. CASE p \in S
      BY <2>1, <2>2, <2>3, <2>4, <3>1
    <3>2. CASE p \notin S
      <4>1. /\ Select(Append(ps, p), S) = Select(ps, S)
            /\ Select(Append(ps, p), Prop \ S) = Append(Select(ps, Prop \ S), p)
        BY <2>1, <2>2, <3>2, Zenon
      <4>2. /\ Size(Select(Append(ps, p), S)) = Size(Select(ps, S))
            /\ Size(Select(Append(ps, p), Prop \ S)) = Size(Select(ps, Prop \ S)) + p.len
        BY <2>3, <4>1, Zenon
      <4>3. \A x, y, l \in Nat : x + (y + l) = (x + y) + l
        OBVIOUS
      <4>4. Size(Select(ps, S)) + (Size(Select(ps, Prop \ S)) + p.len) = Size(ps) + p.len
        BY <2>3, <2>4, <4>3
      <4> QED BY <2>3, <4>2, <4>4
    <3> QED BY <3>1, <3>2
  <2> QED BY <2>5
<1>3. Seq(Prop) \subseteq T
  <2> HIDE DEF T
  <2> QED BY <1>1, <1>2, ListInduction
<1> QED BY <1>3, Zenon

\* ph_pack_props: what it packs are properties of the list, and they fit.
LEMMA PackFacts ==
  ASSUME NEW cap \in Nat
  PROVE  \A ps \in Seq(Prop) : /\ Range(Pack(ps, cap)) \subseteq Range(ps)
                               /\ Len(Pack(ps, cap)) <= Len(ps)
                               /\ Size(Pack(ps, cap)) <= cap
                               /\ Size(Pack(ps, cap)) <= Size(ps)
<1> DEFINE T == {ps \in Seq(Prop) : /\ Range(Pack(ps, cap)) \subseteq Range(ps)
                                    /\ Len(Pack(ps, cap)) <= Len(ps)
                                    /\ Size(Pack(ps, cap)) <= cap
                                    /\ Size(Pack(ps, cap)) <= Size(ps)}
<1>1. <<>> \in T
  <2>1. Pack(<<>>, cap) = <<>> /\ Range(<<>>) = {} /\ Size(<<>>) = 0
    BY PackStep, RangeFacts, SizeStep
  <2> QED BY <2>1
<1>2. ASSUME NEW ps \in Seq(Prop), NEW p \in Prop, ps \in T PROVE Append(ps, p) \in T
  <2> DEFINE b == Pack(ps, cap)
             c == Pack(Append(ps, p), cap)
  <2>1. b \in Seq(Prop) /\ c = IF Size(b) + p.len <= cap THEN Append(b, p) ELSE b
    BY PackStep, Zenon
  <2>2. Range(b) \subseteq Range(ps) /\ Len(b) <= Len(ps) /\ Size(b) <= cap /\ Size(b) <= Size(ps)
    BY <1>2
  <2> HIDE DEF b, c
  <2>3. Range(Append(ps, p)) = Range(ps) \cup {p} /\ Range(Append(b, p)) = Range(b) \cup {p}
    BY <2>1, RangeFacts
  <2>4. /\ Size(Append(ps, p)) = Size(ps) + p.len /\ Size(Append(b, p)) = Size(b) + p.len
        /\ p.len \in Nat /\ Size(ps) \in Nat /\ Size(b) \in Nat
    BY <2>1, SizeStep
  <2>5. Range(c) \subseteq Range(Append(ps, p))
    BY <2>1, <2>2, <2>3
  <2>6. Len(c) <= Len(Append(ps, p))
    BY <2>1, <2>2
  <2>7. Size(c) <= cap /\ Size(c) <= Size(Append(ps, p))
    BY <2>1, <2>2, <2>4
  <2> QED BY <2>5, <2>6, <2>7 DEF c
<1>3. Seq(Prop) \subseteq T
  <2> HIDE DEF T
  <2> QED BY <1>1, <1>2, ListInduction
<1> QED BY <1>3

\* A list that fits is packed whole.
LEMMA PackWhole ==
  ASSUME NEW cap \in Nat
  PROVE  \A ps \in Seq(Prop) : Size(ps) <= cap => Pack(ps, cap) = ps
<1> DEFINE T == {ps \in Seq(Prop) : Size(ps) <= cap => Pack(ps, cap) = ps}
<1>1. <<>> \in T
  BY PackStep
<1>2. ASSUME NEW ps \in Seq(Prop), NEW p \in Prop, ps \in T PROVE Append(ps, p) \in T
  <2> SUFFICES ASSUME Size(Append(ps, p)) <= cap PROVE Pack(Append(ps, p), cap) = Append(ps, p)
    OBVIOUS
  <2>1. Size(Append(ps, p)) = Size(ps) + p.len /\ p.len \in Nat /\ Size(ps) \in Nat
    BY SizeStep
  <2>2. Size(ps) <= cap /\ Size(ps) + p.len <= cap
    BY <2>1
  <2>3. Pack(ps, cap) = ps
    BY <1>2, <2>2
  <2>4. Pack(Append(ps, p), cap)
          = IF Size(Pack(ps, cap)) + p.len <= cap THEN Append(Pack(ps, cap), p)
            ELSE Pack(ps, cap)
    BY PackStep, Zenon
  <2> QED BY <2>2, <2>3, <2>4
<1>3. Seq(Prop) \subseteq T
  <2> HIDE DEF T
  <2> QED BY <1>1, <1>2, ListInduction
<1> QED BY <1>3

\* The beginning of a list.
LEMMA PrefixFacts ==
  ASSUME NEW ps \in Seq(Prop), NEW k \in 0 .. Len(ps)
  PROVE  /\ SubSeq(ps, 1, k) \in Seq(Prop) /\ Len(SubSeq(ps, 1, k)) = k
         /\ Range(SubSeq(ps, 1, k)) \subseteq Range(ps)
         /\ Size(SubSeq(ps, 1, k)) <= Size(ps)
         /\ \A S : Len(Select(SubSeq(ps, 1, k), S)) <= Len(Select(ps, S))
<1> DEFINE a == SubSeq(ps, 1, k)
           b == SubSeq(ps, k + 1, Len(ps))
<1>1. a \in Seq(Prop) /\ Len(a) = k /\ b \in Seq(Prop) /\ ps = a \o b
  <2>1. a \in Seq(Prop) /\ Len(a) = k /\ \A i \in 1 .. k : a[i] = ps[i]
    OBVIOUS
  <2>2. /\ b \in Seq(Prop) /\ Len(b) = Len(ps) - k
        /\ \A i \in 1 .. (Len(ps) - k) : b[i] = ps[k + i]
    OBVIOUS
  <2> HIDE DEF a, b
  <2>3. a \o b \in Seq(Prop) /\ Len(a \o b) = Len(ps)
    <3>1. a \in Seq(Prop) /\ b \in Seq(Prop)
      BY <2>1, <2>2
    <3>2. a \o b \in Seq(Prop) /\ Len(a \o b) = Len(a) + Len(b)
      BY <3>1
    <3>3. Len(a) = k /\ Len(b) = Len(ps) - k /\ Len(ps) \in Nat
      BY <2>1, <2>2
    <3> QED BY <3>2, <3>3
  <2>4. ASSUME NEW i \in 1 .. Len(ps) PROVE (a \o b)[i] = ps[i]
    <3>1. CASE i <= k
      BY <2>1, <2>2, <3>1
    <3>2. CASE ~(i <= k)
      <4>1. i - k \in 1 .. (Len(ps) - k) /\ k + (i - k) = i
        BY <3>2
      <4>2. (a \o b)[i] = b[i - k]
        BY <2>1, <2>2, <3>2
      <4> QED BY <2>2, <4>1, <4>2
    <3> QED BY <3>1, <3>2, Zenon
  <2>5. ps = a \o b
    <3> DEFINE c == a \o b
    <3>1. c \in Seq(Prop) /\ Len(c) = Len(ps) /\ \A i \in 1 .. Len(ps) : c[i] = ps[i]
      BY <2>3, <2>4
    <3> HIDE DEF c
    <3>2. c = ps
      BY <3>1
    <3> QED BY <3>2 DEF c
  <2> QED BY <2>1, <2>2, <2>5
<1> HIDE DEF a, b
<1>2. Range(a) \subseteq Range(ps)
  BY <1>1, RangeFacts
<1>3. Size(a) <= Size(ps)
  <2>1. Size(ps) = Size(a) + Size(b) /\ Size(a) \in Nat /\ Size(b) \in Nat
    BY <1>1, SizeConcat, SizeStep
  <2> QED BY <2>1
<1>4. ASSUME NEW S PROVE Len(Select(a, S)) <= Len(Select(ps, S))
  <2>1. Select(a, S) \in Seq(Prop) /\ Select(b, S) \in Seq(Prop)
    BY <1>1, SelectStep, Zenon
  <2>2. Select(a \o b, S) = Select(a, S) \o Select(b, S)
    BY <1>1, SelectConcat
  <2>3. Len(Select(a \o b, S)) = Len(Select(a, S)) + Len(Select(b, S))
    BY <2>1, <2>2
  <2> QED BY <1>1, <2>1, <2>3
<1> QED BY <1>1, <1>2, <1>3, <1>4 DEF a

\* next_slot: the list keeps its first MaxProps properties.
LEMMA CappedFacts ==
  ASSUME NEW ps \in Seq(Prop)
  PROVE  /\ Capped(ps) \in Seq(Prop) /\ Len(Capped(ps)) <= MaxProps /\ Len(Capped(ps)) <= Len(ps)
         /\ Range(Capped(ps)) \subseteq Range(ps) /\ Size(Capped(ps)) <= Size(ps)
         /\ \A S : Len(Select(Capped(ps), S)) <= Len(Select(ps, S))
         /\ Len(ps) <= MaxProps => Capped(ps) = ps
<1> DEFINE k == IF Len(ps) < MaxProps THEN Len(ps) ELSE MaxProps
<1>1. k \in 0 .. Len(ps) /\ k <= MaxProps /\ Capped(ps) = SubSeq(ps, 1, k)
  BY ShapeAssumption DEF Capped
<1>2. ASSUME Len(ps) <= MaxProps PROVE SubSeq(ps, 1, k) = ps
  <2>1. k = Len(ps)
    BY <1>2, ShapeAssumption
  <2> QED BY <2>1
<1> HIDE DEF k
<1>3. k \in Nat /\ Len(ps) \in Nat /\ k <= Len(ps)
  BY <1>1
<1> QED BY <1>1, <1>2, <1>3, PrefixFacts

\* scrub_one's "if (nb > avail) nb = avail" and the reader of the blob: the
\* entries that are left fit, and nothing is lost of a blob that fits.
LEMMA CutFacts ==
  ASSUME NEW b \in Seq(Prop), NEW n \in Nat
  PROVE  /\ Cut(b, n) \in Seq(Prop) /\ Size(Cut(b, n)) <= n
         /\ Range(Cut(b, n)) \subseteq Range(b)
         /\ \A S : Len(Select(Cut(b, n), S)) <= Len(Select(b, S))
         /\ Size(b) <= n => Cut(b, n) = b
<1> DEFINE P(i) == /\ Size(SubSeq(b, 1, i)) <= n
                   /\ i < Len(b) => Size(SubSeq(b, 1, i + 1)) > n
           k == CHOOSE i \in 0 .. Len(b) : P(i)
<1>0. Cut(b, n) = SubSeq(b, 1, k)
  BY DEF Cut
<1>1. \E i \in 0 .. Len(b) : P(i)
  <2> SUFFICES ASSUME \A i \in 0 .. Len(b) : ~P(i) PROVE FALSE
    OBVIOUS
  <2> DEFINE T == {i \in Nat : i <= Len(b) => Size(SubSeq(b, 1, i)) <= n}
  <2>1. 0 \in T
    <3>1. SubSeq(b, 1, 0) = <<>>
      OBVIOUS
    <3>2. Size(<<>>) = 0 /\ 0 <= n
      BY SizeStep
    <3>3. Size(SubSeq(b, 1, 0)) <= n
      BY <3>1, <3>2, Zenon
    <3> QED BY <3>3
  <2>2. ASSUME NEW i \in Nat, i \in T PROVE i + 1 \in T
    <3> SUFFICES ASSUME i + 1 <= Len(b) PROVE Size(SubSeq(b, 1, i + 1)) <= n
      OBVIOUS
    <3>1. i \in 0 .. Len(b) /\ i < Len(b) /\ i + 1 \in 0 .. Len(b)
      OBVIOUS
    <3>2. Size(SubSeq(b, 1, i)) <= n
      BY <2>2, <3>1
    <3>3. ~(Size(SubSeq(b, 1, i + 1)) > n)
      BY <3>1, <3>2
    <3>4. SubSeq(b, 1, i + 1) \in Seq(Prop)
      BY <3>1, PrefixFacts
    <3>5. Size(SubSeq(b, 1, i + 1)) \in Nat
      BY <3>4, SizeStep, Zenon
    <3> QED BY <3>3, <3>5
  <2>3. Nat \subseteq T
    <3> HIDE DEF T
    <3> QED BY <2>1, <2>2, SetInduction
  <2>4. Len(b) \in 0 .. Len(b) /\ Len(b) \in T /\ ~(Len(b) < Len(b))
    BY <2>3
  <2> QED BY <2>4
<1>2. k \in 0 .. Len(b) /\ P(k)
  BY <1>1
<1> HIDE DEF k
<1>3. /\ SubSeq(b, 1, k) \in Seq(Prop) /\ Range(SubSeq(b, 1, k)) \subseteq Range(b)
      /\ \A S : Len(Select(SubSeq(b, 1, k), S)) <= Len(Select(b, S))
  BY <1>2, PrefixFacts
<1>4. ASSUME Size(b) <= n PROVE SubSeq(b, 1, k) = b
  <2>1. ASSUME k < Len(b) PROVE FALSE
    <3>1. k + 1 \in 0 .. Len(b)
      BY <1>2, <2>1
    <3>2. Size(SubSeq(b, 1, k + 1)) <= Size(b) /\ SubSeq(b, 1, k + 1) \in Seq(Prop)
      BY <3>1, PrefixFacts
    <3>3. Size(SubSeq(b, 1, k + 1)) \in Nat /\ Size(b) \in Nat
      BY <3>2, SizeStep, Zenon
    <3> QED BY <1>2, <1>4, <2>1, <3>2, <3>3
  <2>2. k = Len(b)
    BY <1>2, <2>1
  <2> QED BY <2>2
<1> QED BY <1>0, <1>2, <1>3, <1>4

-----------------------------------------------------------------------------
(* The lists of the model.  An entry is a scalar, raw or group one.         *)

ListOf(ps, S) == ps \in Seq(Prop) /\ Range(ps) \subseteq S

Types == {"scalar", "raw", "group"}
GivenVals(who) == {p \in OfType("scalar") : p.val \in who}

LEMMA PropFields ==
  ASSUME NEW p \in Prop
  PROVE  p.type \in Types /\ p.len \in Nat
BY DEF Prop, Types

LEMMA ListIndex ==
  ASSUME NEW S, NEW ps, ListOf(ps, S)
  PROVE  /\ Len(ps) \in Nat /\ DOMAIN ps = 1 .. Len(ps)
         /\ \A i \in 1 .. Len(ps) : ps[i] \in S /\ ps[i] \in Prop
<1>1. ps \in Seq(Prop) /\ Range(ps) \subseteq S
  BY DEF ListOf
<1>2. Len(ps) \in Nat /\ DOMAIN ps = 1 .. Len(ps) /\ \A i \in 1 .. Len(ps) : ps[i] \in Prop
  BY <1>1
<1>3. \A i \in 1 .. Len(ps) : ps[i] \in Range(ps)
  BY <1>2 DEF Range
<1> QED BY <1>1, <1>2, <1>3

\* A caller's list, with the giver as the value of each.
LEMMA GivenByFacts ==
  ASSUME NEW ps \in PropLists, NEW who \in Givers
  PROVE  /\ ListOf(GivenBy(who, ps), GivenVals({who}))
         /\ Len(GivenBy(who, ps)) <= MaxProps
<1>1. ps \in Seq(OfType("scalar")) /\ Len(ps) <= MaxProps
  BY ShapeAssumption
<1> DEFINE q == [i \in 1 .. Len(ps) |-> [ps[i] EXCEPT !.val = who]]
<1>2. q = GivenBy(who, ps) /\ Len(ps) \in Nat
  BY <1>1 DEF GivenBy
<1>3. ASSUME NEW i \in 1 .. Len(ps) PROVE q[i] \in GivenVals({who})
  <2>1. ps[i] \in Prop /\ ps[i].type = "scalar"
    BY <1>1 DEF OfType
  <2>2. [ps[i] EXCEPT !.val = who] \in Prop
    <3>1. who \in STRING \cup Givers
      OBVIOUS
    <3> QED BY <2>1, <3>1 DEF Prop
  <2>3. [ps[i] EXCEPT !.val = who].type = "scalar" /\ [ps[i] EXCEPT !.val = who].val = who
    BY <2>1 DEF Prop
  <2> QED BY <2>2, <2>3, Zenon DEF GivenVals, OfType
<1> HIDE DEF q
<1>4. GivenVals({who}) \subseteq Prop
  BY DEF GivenVals, OfType
<1>5. DOMAIN q = 1 .. Len(ps) /\ q = [i \in 1 .. Len(ps) |-> q[i]]
  BY DEF q
<1>6. \A i \in 1 .. Len(ps) : q[i] \in Prop
  BY <1>3, <1>4, Zenon
<1>7. q \in Seq(Prop) /\ Len(q) = Len(ps)
  BY <1>2, <1>5, <1>6
<1>8. Range(q) \subseteq GivenVals({who})
  BY <1>3, <1>5, Zenon DEF Range
<1> QED BY <1>1, <1>2, <1>7, <1>8, Zenon DEF ListOf

LEMMA SingletonList ==
  ASSUME NEW p \in Prop
  PROVE  <<p>> \in Seq(Prop) /\ Len(<<p>>) = 1 /\ Range(<<p>>) = {p} /\ Size(<<p>>) = p.len
<1>1. <<p>> = Append(<<>>, p) /\ <<>> \in Seq(Prop)
  OBVIOUS
<1>2. Range(<<p>>) = {p}
  <2>1. DOMAIN <<p>> = {1} /\ <<p>>[1] = p
    OBVIOUS
  <2> DEFINE s == <<p>>
  <2> HIDE DEF s
  <2>2. Range(s) = {s[i] : i \in DOMAIN s}
    BY Zenon DEF Range
  <2>3. DOMAIN s = {1} /\ s[1] = p
    BY <2>1 DEF s
  <2>4. Range(s) = {p}
    BY <2>2, <2>3
  <2> QED BY <2>4 DEF s
<1>3. Size(Append(<<>>, p)) = 0 + p.len /\ p.len \in Nat
  BY <1>1, SizeStep, Zenon
<1> QED BY <1>1, <1>2, <1>3

\* A list and the list with its first property replaced.
LEMMA FirstReplaced ==
  ASSUME NEW ps \in Seq(Prop), ps # <<>>, NEW q \in Prop
  PROVE  /\ ps = <<ps[1]>> \o SubSeq(ps, 2, Len(ps))
         /\ [ps EXCEPT ![1] = q] = <<q>> \o SubSeq(ps, 2, Len(ps))
         /\ SubSeq(ps, 2, Len(ps)) \in Seq(Prop) /\ ps[1] \in Prop
<1> DEFINE t == SubSeq(ps, 2, Len(ps))
           h == [ps EXCEPT ![1] = q]
           n == Len(ps)
<1>1. n \in Nat \ {0} /\ ps[1] \in Prop
  OBVIOUS
<1>2. t \in Seq(Prop) /\ Len(t) = n - 1 /\ \A i \in 1 .. (n - 1) : t[i] = ps[i + 1]
  <2>1. t \in Seq(Prop) /\ Len(t) = n - 1
    <3>1. \A i \in 2 .. n : ps[i] \in Prop
      BY <1>1
    <3>2. t \in Seq(Prop)
      BY <1>1, <3>1
    <3>3. Len(t) = IF 2 <= n THEN n - 2 + 1 ELSE 0
      BY <1>1
    <3> QED BY <1>1, <3>2, <3>3
  <2>2. ASSUME NEW i \in 1 .. (n - 1) PROVE t[i] = ps[i + 1]
    <3>1. i \in 1 .. (Len(ps) - 2 + 1) /\ 2 + i - 1 = i + 1
      BY <1>1
    <3>2. t[i] = ps[2 + i - 1]
      BY <1>1, <3>1
    <3> QED BY <3>1, <3>2
  <2> QED BY <2>1, <2>2
<1>3. h \in Seq(Prop) /\ Len(h) = n /\ h[1] = q /\ \A i \in 2 .. n : h[i] = ps[i]
  OBVIOUS
<1> HIDE DEF t, h
<1>4. ASSUME NEW f \in Seq(Prop), Len(f) = n, \A i \in 2 .. n : f[i] = ps[i]
      PROVE  f = <<f[1]>> \o t
  <2> DEFINE c == <<f[1]>> \o t
  <2>1. f[1] \in Prop
    BY <1>1, <1>4
  <2>2. /\ c \in Seq(Prop) /\ Len(c) = n
        /\ \A i \in 1 .. n : c[i] = IF i <= 1 THEN <<f[1]>>[i] ELSE t[i - 1]
    BY <1>1, <1>2, <2>1
  <2> HIDE DEF c
  <2>3. ASSUME NEW i \in 1 .. n PROVE c[i] = f[i]
    <3>1. CASE i = 1
      BY <2>2, <3>1
    <3>2. CASE i # 1
      <4>1. i \in 2 .. n /\ i - 1 \in 1 .. (n - 1) /\ (i - 1) + 1 = i /\ ~(i <= 1)
        BY <1>1, <3>2
      <4>2. c[i] = t[i - 1] /\ t[i - 1] = ps[i]
        BY <1>2, <2>2, <4>1
      <4> QED BY <1>4, <4>1, <4>2
    <3> QED BY <3>1, <3>2
  <2>4. c = f
    BY <1>4, <2>2, <2>3
  <2> QED BY <2>4 DEF c
<1>5. ps = <<ps[1]>> \o t
  BY <1>4
<1>6. h = <<h[1]>> \o t
  BY <1>3, <1>4
<1> QED BY <1>1, <1>2, <1>3, <1>5, <1>6 DEF t, h

\* What a before_send of the model leaves of a list: at most one byte more, and
\* what it did not leave alone bears its mark.
LEMMA HookFacts ==
  ASSUME NEW ps, ListOf(ps, OfType("scalar")), Len(ps) <= MaxProps
  PROVE  /\ ListOf(HookLeaves(ps), OfType("scalar")) /\ Len(HookLeaves(ps)) <= MaxProps
         /\ Size(HookLeaves(ps)) <= Size(ps) + 1
         /\ \A p \in Range(HookLeaves(ps)) : p \in Range(ps) \/ p.val = "hook"
         /\ config.hook \notin {"grow", "put"} => HookLeaves(ps) = ps
<1>1. ps \in Seq(Prop) /\ Range(ps) \subseteq OfType("scalar") /\ Size(ps) \in Nat
  BY SizeStep DEF ListOf
<1>2. CASE config.hook = "grow" /\ ps # <<>>
  <2> DEFINE q == [ps[1] EXCEPT !.len = @ + 1, !.val = "hook"]
             h == [ps EXCEPT ![1] = q]
             t == SubSeq(ps, 2, Len(ps))
  <2>1. Len(ps) \in Nat \ {0} /\ ps[1] \in OfType("scalar")
    <3>1. Len(ps) \in Nat \ {0}
      BY <1>1, <1>2
    <3> QED BY <3>1, ListIndex
  <2>2. q \in Prop /\ q.type = "scalar" /\ q.val = "hook" /\ q.len = ps[1].len + 1
    <3>1. ps[1] \in Prop /\ ps[1].type = "scalar" /\ ps[1].len \in Nat
      BY <2>1, PropFields DEF OfType
    <3>2. "hook" \in STRING \cup Givers /\ ps[1].len + 1 \in Nat
      BY <3>1 DEF Givers
    <3>3. q \in Prop
      BY <3>1, <3>2, Zenon DEF Prop
    <3> QED BY <3>1, <3>3 DEF Prop
  <2>3. HookLeaves(ps) = h
    BY <1>2, Zenon DEF HookLeaves
  <2>4. t \in Seq(Prop) /\ ps = <<ps[1]>> \o t
    BY <1>1, <1>2, <2>2, FirstReplaced
  <2>5. h = <<q>> \o t
    BY <1>1, <1>2, <2>2, FirstReplaced
  <2> HIDE DEF q, h, t
  <2>6. ps[1] \in Prop /\ ps[1].len \in Nat
    BY <2>1, SizeStep DEF OfType, Prop
  <2>7. /\ <<q>> \in Seq(Prop) /\ Len(<<q>>) = 1 /\ Range(<<q>>) = {q} /\ Size(<<q>>) = q.len
        /\ <<ps[1]>> \in Seq(Prop) /\ Len(<<ps[1]>>) = 1 /\ Range(<<ps[1]>>) = {ps[1]}
        /\ Size(<<ps[1]>>) = ps[1].len
    BY <2>2, <2>6, SingletonList
  <2>8. Size(h) = q.len + Size(t) /\ Size(ps) = ps[1].len + Size(t) /\ Size(t) \in Nat
    <3>1. Size(<<q>> \o t) = Size(<<q>>) + Size(t)
      BY <2>4, <2>7, SizeConcat, Zenon
    <3>2. Size(<<ps[1]>> \o t) = Size(<<ps[1]>>) + Size(t)
      BY <2>4, <2>7, SizeConcat, Zenon
    <3>3. Size(t) \in Nat
      BY <2>4, SizeStep
    <3> QED BY <2>4, <2>5, <2>7, <3>1, <3>2, <3>3, Zenon
  <2>9. Range(h) = {q} \cup Range(t) /\ Range(ps) = {ps[1]} \cup Range(t)
    <3>1. Range(<<q>> \o t) = Range(<<q>>) \cup Range(t)
      BY <2>4, <2>7, RangeFacts, Zenon
    <3>2. Range(<<ps[1]>> \o t) = Range(<<ps[1]>>) \cup Range(t)
      BY <2>4, <2>7, RangeFacts, Zenon
    <3> QED BY <2>4, <2>5, <2>7, <3>1, <3>2, Zenon
  <2>10. h \in Seq(Prop) /\ Len(h) = Len(ps)
    <3>1. Len(<<q>> \o t) = 1 + Len(t) /\ Len(<<ps[1]>> \o t) = 1 + Len(t) /\ <<q>> \o t \in Seq(Prop)
      BY <2>4, <2>7
    <3> QED BY <2>4, <2>5, <3>1
  <2>11. Range(h) \subseteq OfType("scalar")
    BY <1>1, <2>2, <2>9 DEF OfType
  <2>12. Size(h) <= Size(ps) + 1
    BY <2>2, <2>6, <2>8
  <2>13. \A p \in Range(h) : p \in Range(ps) \/ p.val = "hook"
    BY <2>2, <2>9
  <2> QED BY <1>2, <2>3, <2>10, <2>11, <2>12, <2>13 DEF ListOf
<1>3. CASE config.hook = "put"
  <2> DEFINE q == Scalar("a", 1, "hook")
             h == Append(ps, q)
  <2>1. q \in Prop /\ q.type = "scalar" /\ q.val = "hook" /\ q.len = 1
    BY DEF Scalar, Prop, Givers
  <2>2. HookLeaves(ps) = Capped(h)
    BY <1>3 DEF HookLeaves
  <2> HIDE DEF q
  <2>3. h \in Seq(Prop) /\ Size(h) = Size(ps) + 1 /\ Range(h) = Range(ps) \cup {q}
    <3>1. h \in Seq(Prop) /\ Range(h) = Range(ps) \cup {q}
      BY <1>1, <2>1, RangeFacts
    <3>2. Size(h) = Size(ps) + q.len
      BY <1>1, <2>1, SizeStep
    <3> QED BY <2>1, <3>1, <3>2
  <2> HIDE DEF h
  <2>4. /\ Capped(h) \in Seq(Prop) /\ Len(Capped(h)) <= MaxProps
        /\ Range(Capped(h)) \subseteq Range(h) /\ Size(Capped(h)) <= Size(h)
    BY <2>3, CappedFacts
  <2>5. Range(Capped(h)) \subseteq OfType("scalar")
    BY <1>1, <2>1, <2>3, <2>4 DEF OfType
  <2>6. \A p \in Range(Capped(h)) : p \in Range(ps) \/ p.val = "hook"
    BY <2>1, <2>3, <2>4
  <2>7. Size(Capped(h)) <= Size(ps) + 1
    BY <2>3, <2>4
  <2> QED BY <1>3, <2>2, <2>4, <2>5, <2>6, <2>7 DEF ListOf
<1>4. CASE ~(config.hook = "grow" /\ ps # <<>>) /\ config.hook # "put"
  <2>1. HookLeaves(ps) = ps
    BY <1>4 DEF HookLeaves
  <2> QED BY <1>1, <2>1
<1> QED BY <1>2, <1>3, <1>4
-----------------------------------------------------------------------------
\* What the merge and the blob of a call are made of.

LEMMA KeysFacts ==
  ASSUME NEW ps
  PROVE  \A k : k \in Keys(ps) <=> \E p \in Range(ps) : p.key = k
BY DEF Keys, Range

LEMMA WithoutFacts ==
  ASSUME NEW ps \in Seq(Prop), NEW keys
  PROVE  /\ Without(ps, keys) \in Seq(Prop)
         /\ Range(Without(ps, keys)) = {p \in Range(ps) : p.key \notin keys}
         /\ Len(Without(ps, keys)) <= Len(ps) /\ Size(Without(ps, keys)) <= Size(ps)
<1> DEFINE S == Prop \ OfKey(keys)
<1>1. Without(ps, keys) = Select(ps, S) /\ Range(ps) \subseteq Prop
  BY RangeFacts DEF Without
<1>2. Range(ps) \cap S = {p \in Range(ps) : p.key \notin keys}
  BY <1>1 DEF OfKey
<1> HIDE DEF S
<1>3. Select(ps, S) \in Seq(Prop)
  BY SelectStep, Zenon
<1>4. /\ Range(Select(ps, S)) = Range(ps) \cap S
      /\ Len(Select(ps, S)) <= Len(ps) /\ Size(Select(ps, S)) <= Size(ps)
  BY SelectRange
<1> QED BY <1>1, <1>2, <1>3, <1>4

\* A super property is merged in only if the call did not set its key.
LEMMA MergeFacts ==
  ASSUME NEW a, ListOf(a, OfType("scalar")), NEW b, ListOf(b, OfType("scalar"))
  PROVE  /\ ListOf(Merge(a, b), OfType("scalar")) /\ Len(Merge(a, b)) <= MaxProps
         /\ Range(Merge(a, b)) \subseteq Range(a) \cup {p \in Range(b) : p.key \notin Keys(a)}
<1> DEFINE w == Without(b, Keys(a))
           c == a \o w
<1>1. a \in Seq(Prop) /\ b \in Seq(Prop)
  BY DEF ListOf
<1>2. w \in Seq(Prop) /\ Range(w) = {p \in Range(b) : p.key \notin Keys(a)}
  BY <1>1, WithoutFacts
<1>3. Merge(a, b) = Capped(c)
  BY DEF Merge
<1> HIDE DEF w
<1>4. c \in Seq(Prop) /\ Range(c) = Range(a) \cup Range(w)
  BY <1>1, <1>2, RangeFacts
<1> HIDE DEF c
<1>5. Capped(c) \in Seq(Prop) /\ Len(Capped(c)) <= MaxProps /\ Range(Capped(c)) \subseteq Range(c)
  BY <1>4, CappedFacts
<1> QED BY <1>2, <1>3, <1>4, <1>5 DEF ListOf

\* Two packed lists, one after the other in what room there is.
LEMMA PackTwo ==
  ASSUME NEW U, NEW a \in Seq(Prop), NEW ps \in Seq(Prop), NEW n \in Nat, Size(a) + n = Room
  PROVE  LET b == a \o Pack(ps, n)
         IN /\ b \in Seq(Prop) /\ Size(b) <= Room /\ Range(b) \subseteq Range(a) \cup Range(ps)
            /\ Len(Select(b, U)) <= Len(Select(a, U)) + Len(ps)
            /\ Range(ps) \cap U = {} => Select(b, U) = Select(a, U)
            /\ Size(a) + Size(ps) <= Room => b = a \o ps
<1> DEFINE q == Pack(ps, n)
           b == a \o q
<1>1. Size(a) \in Nat /\ Size(ps) \in Nat
  BY SizeStep
<1>2. Room \in Nat
  BY ShapeAssumption DEF Room
<1>3. n \in Nat
  OBVIOUS
<1>4. q \in Seq(Prop)
  BY PackStep, Zenon
<1>5. Range(q) \subseteq Range(ps) /\ Len(q) <= Len(ps) /\ Size(q) <= n
  BY <1>3, PackFacts
<1>6. Size(ps) <= n => q = ps
  BY <1>3, PackWhole
<1>7. b = a \o q
  OBVIOUS
<1> HIDE DEF q, b
<1>8. Size(b) = Size(a) + Size(q) /\ Size(q) \in Nat
  BY <1>4, <1>7, SizeConcat, SizeStep
<1>9. b \in Seq(Prop) /\ Range(b) = Range(a) \cup Range(q)
  <2>1. a \o q \in Seq(Prop)
    BY <1>4
  <2>2. Range(a \o q) = Range(a) \cup Range(q)
    BY <1>4, RangeFacts
  <2> QED BY <1>7, <2>1, <2>2, Zenon
<1>10. Size(b) <= Room
  BY <1>1, <1>2, <1>5, <1>8
<1>11. Select(b, U) = Select(a, U) \o Select(q, U)
  BY <1>4, <1>7, SelectConcat
<1>12. Select(a, U) \in Seq(Prop) /\ Select(q, U) \in Seq(Prop)
  BY <1>4, SelectStep, Zenon
<1>13. Len(Select(q, U)) <= Len(q)
  BY <1>4, SelectRange
<1>14. Len(Select(b, U)) <= Len(Select(a, U)) + Len(ps)
  <2>1. Len(Select(b, U)) = Len(Select(a, U)) + Len(Select(q, U))
    BY <1>11, <1>12
  <2>2. Len(Select(a, U)) \in Nat /\ Len(Select(q, U)) \in Nat /\ Len(q) \in Nat /\ Len(ps) \in Nat
    BY <1>4, <1>12
  <2> QED BY <1>5, <1>13, <2>1, <2>2
<1>15. Range(ps) \cap U = {} => Select(b, U) = Select(a, U)
  <2> HAVE Range(ps) \cap U = {}
  <2>1. Range(q) \cap U = {}
    BY <1>5
  <2>2. Select(q, U) = <<>>
    BY <1>4, <2>1, SelectAll
  <2>3. Select(a, U) \o <<>> = Select(a, U)
    BY <1>12, ConcatAppend
  <2> QED BY <1>11, <2>2, <2>3
<1>16. Size(a) + Size(ps) <= Room => b = a \o ps
  <2>1. Size(a) + Size(ps) <= Room => Size(ps) <= n
    BY <1>1, <1>2
  <2> QED BY <1>6, <1>7, <2>1, Zenon
<1>17. Range(b) \subseteq Range(a) \cup Range(ps)
  BY <1>5, <1>9
<1> QED BY <1>9, <1>10, <1>14, <1>15, <1>16, <1>17 DEF b, q
-----------------------------------------------------------------------------
\* The inductive invariant.

\* No two properties of a list share their key.
Once(ps) == \A i, j \in DOMAIN ps : ps[i].key = ps[j].key => i = j

ContextOK ==
  /\ config \in Configs
  /\ distinctId \in AnonIds \cup UserIds /\ identified \in BOOLEAN
  /\ ListOf(super, GivenVals({"super"})) /\ Len(super) <= MaxProps /\ Once(super)
  /\ ListOf(groups, OfType("group")) /\ Len(groups) <= MaxGroups

\* The calls whose event carries super properties and groups.
Stamps == {"capture", "exception"}

TypeDenied == {"type", "$exception_type"} \cap config.deny # {}

\* What the call itself gives: only $groupidentify has properties of the SDK.
OwnProps(kind) ==
  GivenVals({"call", "hook"}) \cup (IF kind = "group" THEN GivenVals({"sdk"}) \cap GroupId ELSE {})

Unset(e) == {p \in Range(e.super) : p.key \notin Keys(e.props)}

RawList(denied) ==
  {p \in OfType("raw") : /\ p.key = "$exception_list" /\ p.val \in {"sdk", "call", "hook"}
                         /\ denied => p.val # "call"}

\* Where an entry of the blob of a call comes from.
Origin(e, denied) ==
  Range(e.props) \cup (IF e.kind \in Stamps THEN Unset(e) \cup Range(e.groups) ELSE {})
                 \cup (IF e.kind = "exception" THEN RawList(denied) ELSE {})

AskedOK(e, denied) ==
  /\ e.kind \in {"capture", "identify", "alias", "group", "exception"} /\ e.anonymous \in BOOLEAN
  /\ ListOf(e.props, OwnProps(e.kind)) /\ Len(e.props) <= MaxProps
  /\ ListOf(e.super, GivenVals({"super"}))
  /\ ListOf(e.groups, OfType("group"))
  /\ ListOf(e.blob, Origin(e, denied)) /\ Size(e.blob) <= Room
  /\ Len(Select(e.blob, OfType("scalar"))) <= MaxProps
  /\ e.kind = "capture" /\ Size(Merge(e.props, e.super)) + Size(e.groups) <= Room =>
       e.blob = Merge(e.props, e.super) \o e.groups
  /\ e.kind = "identify" /\ Size(e.props) <= Room => e.blob = e.props

\* The event of a call with the blob b, and the blob the scrub stage leaves it.
Event(e, b) == [kind |-> e.kind, did |-> e.did, noProfile |-> e.anonymous, blob |-> b]
Left(e) == IF config.hook = "none" /\ config.deny = {} THEN e.blob ELSE ScrubEvent(e)

ShapeInv ==
  /\ ContextOK
  /\ stage \in {"none", "queued", "scrubbed", "sent"}
  /\ stage # "none" => AskedOK(asked, TypeDenied)
  /\ stage = "queued" => slot = Event(asked, asked.blob)
  /\ stage \in {"scrubbed", "sent"} =>
       /\ config.hook = "veto" => asked.kind = "exception"
       /\ slot = Event(asked, Left(asked))
  /\ stage = "sent" => wire = Serialized(slot)

\* The blob of a call, for any list its $exception_list stands in.
LEMMA BlobFacts ==
  ASSUME ContextOK, NEW ps, ListOf(ps, OfType("scalar")), Len(ps) <= MaxProps,
         NEW extra, ListOf(extra, OfType("raw")), NEW stamped \in BOOLEAN
  PROVE  LET b == Blob(ps, extra, stamped)
             given == IF stamped THEN Merge(ps, super) ELSE ps
             more == IF stamped THEN groups ELSE <<>>
         IN /\ b \in Seq(Prop) /\ Size(b) <= Room
            /\ Range(b) \subseteq Range(extra) \cup Range(given) \cup Range(more)
            /\ Len(Select(b, OfType("scalar"))) <= MaxProps
            /\ extra = <<>> /\ Size(given) + Size(more) <= Room => b = given \o more
<1> DEFINE b == Blob(ps, extra, stamped)
           given == IF stamped THEN Merge(ps, super) ELSE ps
           more == IF stamped THEN groups ELSE <<>>
           raw == Pack(extra, Room)
           own == raw \o Pack(given, Room - Size(raw))
           U == OfType("scalar")
<1>1. Room \in Nat /\ MaxProps \in Nat
  BY ShapeAssumption DEF Room
<1>2. extra \in Seq(Prop) /\ Range(extra) \cap U = {}
  BY DEF ListOf, OfType
<1>3. given \in Seq(Prop) /\ Len(given) <= MaxProps
  <2>1. ListOf(super, OfType("scalar"))
    BY DEF ContextOK, ListOf, GivenVals
  <2>2. ListOf(Merge(ps, super), OfType("scalar")) /\ Len(Merge(ps, super)) <= MaxProps
    BY <2>1, MergeFacts
  <2> QED BY <2>2 DEF ListOf
<1>4. more \in Seq(Prop) /\ Range(more) \cap U = {}
  <2>1. groups \in Seq(Prop) /\ Range(groups) \subseteq OfType("group")
    BY DEF ContextOK, ListOf
  <2>2. <<>> \in Seq(Prop) /\ Range(<<>>) = {}
    BY RangeFacts
  <2>3. CASE stamped
    BY <2>1, <2>3 DEF OfType
  <2>4. CASE ~stamped
    BY <2>2, <2>4
  <2> QED BY <2>3, <2>4
<1>5. b = own \o Pack(more, Room - Size(own))
  <2>1. CASE stamped
    BY <2>1 DEF Blob
  <2>2. CASE ~stamped
    <3>1. b = own \o <<>> /\ more = <<>>
      BY <2>2 DEF Blob
    <3>2. Pack(<<>>, Room - Size(own)) = <<>>
      BY PackStep
    <3> QED BY <3>1, <3>2, Zenon
  <2> QED BY <2>1, <2>2
<1> HIDE DEF b, given, more, U
<1>6. /\ raw \in Seq(Prop) /\ Size(raw) <= Room /\ Range(raw) \subseteq Range(extra)
      /\ Size(raw) \in Nat
  <2>1. raw \in Seq(Prop)
    BY <1>2, PackStep, Zenon
  <2>2. Size(raw) <= Room /\ Range(raw) \subseteq Range(extra)
    BY <1>1, <1>2, PackFacts
  <2> QED BY <2>1, <2>2, SizeStep
<1>7. extra = <<>> => raw = <<>>
  BY PackStep, Zenon
<1>8. Select(raw, U) = <<>>
  <2>1. Range(raw) \cap U = {}
    BY <1>2, <1>6
  <2> QED BY <1>6, <2>1, SelectAll
<1> HIDE DEF raw
<1>9. /\ own \in Seq(Prop) /\ Size(own) <= Room /\ Range(own) \subseteq Range(raw) \cup Range(given)
      /\ Len(Select(own, U)) <= Len(Select(raw, U)) + Len(given)
      /\ Size(raw) + Size(given) <= Room => own = raw \o given
  <2> DEFINE n == Room - Size(raw)
  <2>1. n \in Nat /\ Size(raw) + n = Room
    BY <1>1, <1>6
  <2> HIDE DEF n
  <2>2. own = raw \o Pack(given, n)
    BY DEF n
  <2> QED BY <1>3, <1>6, <2>1, <2>2, PackTwo, Zenon
<1> HIDE DEF own
<1>10. /\ b \in Seq(Prop) /\ Size(b) <= Room /\ Range(b) \subseteq Range(own) \cup Range(more)
       /\ Select(b, U) = Select(own, U)
       /\ Size(own) + Size(more) <= Room => b = own \o more
  <2> DEFINE n == Room - Size(own)
  <2>1. Size(own) \in Nat
    BY <1>9, SizeStep
  <2>2. n \in Nat /\ Size(own) + n = Room
    BY <1>1, <1>9, <2>1
  <2>3. b = own \o Pack(more, n)
    BY <1>5
  <2> HIDE DEF n
  <2> QED BY <1>4, <1>9, <2>2, <2>3, PackTwo, Zenon
<1>11. Len(Select(b, U)) <= MaxProps
  <2>1. Len(Select(own, U)) \in Nat /\ Len(given) \in Nat
    BY <1>3, <1>9, SelectStep
  <2>2. Len(Select(own, U)) <= 0 + Len(given)
    BY <1>8, <1>9
  <2>3. Len(Select(own, U)) <= MaxProps
    BY <1>1, <1>3, <2>1, <2>2
  <2> QED BY <1>10, <2>3
<1>12. extra = <<>> /\ Size(given) + Size(more) <= Room => b = given \o more
  <2> HAVE extra = <<>> /\ Size(given) + Size(more) <= Room
  <2>1. Size(given) \in Nat /\ Size(more) \in Nat /\ Size(<<>>) = 0
    BY <1>3, <1>4, SizeStep
  <2>2. raw = <<>>
    BY <1>7
  <2>3. Size(raw) + Size(given) <= Room
    BY <1>1, <2>1, <2>2
  <2>4. <<>> \o given = given
    BY <1>3, ConcatAppend
  <2>5. own = given
    BY <1>9, <2>2, <2>3, <2>4
  <2> QED BY <1>10, <2>5
<1>13. Range(b) \subseteq Range(extra) \cup Range(given) \cup Range(more)
  BY <1>6, <1>9, <1>10
<1>14. /\ b \in Seq(Prop) /\ Size(b) <= Room
       /\ Range(b) \subseteq Range(extra) \cup Range(given) \cup Range(more)
       /\ Len(Select(b, U)) <= MaxProps
       /\ extra = <<>> /\ Size(given) + Size(more) <= Room => b = given \o more
  BY <1>10, <1>11, <1>12, <1>13
<1> QED BY <1>14, Zenon DEF b, given, more, U
-----------------------------------------------------------------------------
\* ph_register and ph_unregister keep the super properties a list of distinct
\* keys that ph_init's table has room for.
SuperLists == {s \in Seq(Prop) : ListOf(s, GivenVals({"super"})) /\ Len(s) <= MaxProps /\ Once(s)}

LEMMA ReplacedFacts ==
  ASSUME NEW s \in Seq(Prop), NEW p \in Prop
  PROVE  LET r == [i \in DOMAIN s |-> IF s[i].key = p.key THEN p ELSE s[i]]
         IN /\ r \in Seq(Prop) /\ Len(r) = Len(s)
            /\ \A i \in 1 .. Len(s) : r[i].key = s[i].key /\ r[i] \in {p, s[i]}
            /\ Range(r) \subseteq Range(s) \cup {p}
<1> DEFINE n == Len(s)
           r == [i \in DOMAIN s |-> IF s[i].key = p.key THEN p ELSE s[i]]
<1>1. n \in Nat /\ DOMAIN s = 1 .. n /\ \A i \in 1 .. n : s[i] \in Prop
  OBVIOUS
<1>2. r = [i \in 1 .. n |-> IF s[i].key = p.key THEN p ELSE s[i]]
  BY <1>1
<1>3. \A i \in 1 .. n : r[i] = IF s[i].key = p.key THEN p ELSE s[i]
  BY <1>2
<1>4. DOMAIN r = 1 .. n /\ r = [i \in 1 .. n |-> r[i]]
  BY <1>2
<1> HIDE DEF r
<1>5. \A i \in 1 .. n : r[i].key = s[i].key /\ r[i] \in {p, s[i]} /\ r[i] \in Prop
  BY <1>1, <1>3
<1> HIDE DEF n
<1>6. r \in Seq(Prop) /\ Len(r) = n
  BY <1>1, <1>4, <1>5
<1>7. Range(r) \subseteq Range(s) \cup {p}
  BY <1>1, <1>4, <1>5 DEF Range
<1> QED BY <1>5, <1>6, <1>7 DEF r, n

LEMMA RegisteredFacts ==
  ASSUME NEW s \in Seq(Prop), NEW p \in Prop
  PROVE  /\ Registered(s, p) \in Seq(Prop)
         /\ s \in SuperLists /\ p \in GivenVals({"super"}) => Registered(s, p) \in SuperLists
<1> DEFINE n == Len(s)
           r == [i \in DOMAIN s |-> IF s[i].key = p.key THEN p ELSE s[i]]
           a == Append(s, p)
           G == GivenVals({"super"})
<1>1. n \in Nat /\ DOMAIN s = 1 .. n /\ \A i \in 1 .. n : s[i] \in Prop
  OBVIOUS
<1>2. MaxProps \in Nat
  BY ShapeAssumption
<1>3. CASE p.key \in Keys(s)
  <2>1. Registered(s, p) = r
    BY <1>3 DEF Registered
  <2>2. /\ r \in Seq(Prop) /\ Len(r) = n
        /\ \A i \in 1 .. n : r[i].key = s[i].key
        /\ Range(r) \subseteq Range(s) \cup {p}
    BY ReplacedFacts
  <2> HIDE DEF r
  <2>3. ASSUME s \in SuperLists, p \in G PROVE r \in SuperLists
    <3>1. ListOf(s, G) /\ n <= MaxProps /\ Once(s)
      BY <2>3 DEF SuperLists
    <3>2. ListOf(r, G)
      BY <2>2, <2>3, <3>1 DEF ListOf
    <3>3. Once(r)
      <4>1. DOMAIN r = 1 .. n
        BY <2>2
      <4> QED BY <1>1, <2>2, <3>1, <4>1 DEF Once
    <3> QED BY <2>2, <3>1, <3>2, <3>3 DEF SuperLists
  <2> QED BY <2>1, <2>2, <2>3
<1>4. CASE p.key \notin Keys(s) /\ n < MaxProps
  <2>1. Registered(s, p) = a
    BY <1>4 DEF Registered
  <2>2. a \in Seq(Prop) /\ Len(a) = n + 1 /\ a[n + 1] = p /\ \A i \in 1 .. n : a[i] = s[i]
    BY <1>1
  <2>3. Range(a) = Range(s) \cup {p}
    BY RangeFacts
  <2> HIDE DEF a
  <2>4. ASSUME s \in SuperLists, p \in G PROVE a \in SuperLists
    <3>1. ListOf(s, G) /\ n <= MaxProps /\ Once(s)
      BY <2>4 DEF SuperLists
    <3>2. ListOf(a, G)
      BY <2>2, <2>3, <2>4, <3>1 DEF ListOf
    <3>3. \A i \in 1 .. n : s[i].key # p.key
      BY <1>1, <1>4 DEF Keys
    <3>4. ASSUME NEW i \in 1 .. (n + 1), NEW j \in 1 .. (n + 1), a[i].key = a[j].key PROVE i = j
      <4>1. (i \in 1 .. n \/ i = n + 1) /\ (j \in 1 .. n \/ j = n + 1)
        BY <1>1
      <4>2. CASE i \in 1 .. n /\ j \in 1 .. n
        BY <1>1, <2>2, <3>1, <3>4, <4>2 DEF Once
      <4>3. CASE i \in 1 .. n /\ j = n + 1
        BY <2>2, <3>3, <3>4, <4>3
      <4>4. CASE i = n + 1 /\ j \in 1 .. n
        BY <2>2, <3>3, <3>4, <4>4
      <4> QED BY <4>1, <4>2, <4>3, <4>4
    <3>5. Once(a)
      <4>1. DOMAIN a = 1 .. (n + 1)
        BY <2>2
      <4> QED BY <3>4, <4>1 DEF Once
    <3>6. Len(a) <= MaxProps
      BY <1>1, <1>2, <1>4, <2>2
    <3> QED BY <2>2, <3>2, <3>5, <3>6 DEF SuperLists
  <2> QED BY <2>1, <2>2, <2>4
<1>5. CASE p.key \notin Keys(s) /\ ~(n < MaxProps)
  BY <1>5 DEF Registered
<1> QED BY <1>3, <1>4, <1>5

LEMMA RegisterAll ==
  ASSUME NEW s \in SuperLists, NEW ps, ListOf(ps, GivenVals({"super"}))
  PROVE  Pass([p \in Prop |-> [u \in Seq(Prop) |-> Registered(u, p)]], s, ps) \in SuperLists
<1> DEFINE step == [p \in Prop |-> [u \in Seq(Prop) |-> Registered(u, p)]]
           G == GivenVals({"super"})
           T == {q \in Seq(Prop) : Range(q) \subseteq G => Pass(step, s, q) \in SuperLists}
<1>1. s \in Seq(Prop)
  BY DEF SuperLists
<1>2. step \in [Prop -> [Seq(Prop) -> Seq(Prop)]]
  BY RegisteredFacts
<1>3. \A p \in Prop, u \in Seq(Prop) : step[p][u] = Registered(u, p)
  OBVIOUS
<1>4. Pass(step, s, ps) = Pass([p \in Prop |-> [u \in Seq(Prop) |-> Registered(u, p)]], s, ps)
  OBVIOUS
<1> HIDE DEF step
<1>5. /\ Pass(step, s, <<>>) = s
      /\ \A q \in Seq(Prop) : Pass(step, s, q) \in Seq(Prop)
      /\ \A q \in Seq(Prop), p \in Prop : Pass(step, s, Append(q, p)) = step[p][Pass(step, s, q)]
  BY <1>1, <1>2, PassStep, Zenon
<1>6. <<>> \in T
  BY <1>5
<1>7. ASSUME NEW q \in Seq(Prop), NEW p \in Prop, q \in T PROVE Append(q, p) \in T
  <2>1. Append(q, p) \in Seq(Prop) /\ Range(Append(q, p)) = Range(q) \cup {p}
    BY RangeFacts
  <2>2. Pass(step, s, Append(q, p)) = Registered(Pass(step, s, q), p)
    BY <1>3, <1>5
  <2>3. ASSUME Range(Append(q, p)) \subseteq G PROVE Pass(step, s, Append(q, p)) \in SuperLists
    <3>1. Range(q) \subseteq G /\ p \in G
      BY <2>1, <2>3
    <3>2. Pass(step, s, q) \in SuperLists
      BY <1>7, <3>1
    <3>3. Pass(step, s, q) \in Seq(Prop)
      BY <3>2 DEF SuperLists
    <3> QED BY <2>2, <3>1, <3>2, <3>3, RegisteredFacts
  <2> QED BY <2>1, <2>3
<1> HIDE DEF T
<1>8. Seq(Prop) \subseteq T
  BY <1>6, <1>7, ListInduction
<1>9. ps \in T /\ Range(ps) \subseteq G
  BY <1>8 DEF ListOf
<1>10. Pass(step, s, ps) \in SuperLists
  BY <1>9 DEF T
<1> QED BY <1>4, <1>10

LEMMA UnregisterFacts ==
  ASSUME NEW s \in SuperLists, NEW i \in DOMAIN s
  PROVE  SubSeq(s, 1, i - 1) \o SubSeq(s, i + 1, Len(s)) \in SuperLists
<1> DEFINE n == Len(s)
           a == SubSeq(s, 1, i - 1)
           b == SubSeq(s, i + 1, n)
           c == a \o b
           G == GivenVals({"super"})
<1>1. s \in Seq(Prop) /\ ListOf(s, G) /\ n <= MaxProps /\ Once(s)
  BY DEF SuperLists
<1>2. n \in Nat /\ DOMAIN s = 1 .. n /\ i \in 1 .. n /\ \A k \in 1 .. n : s[k] \in Prop
  BY <1>1
<1>3. a \in Seq(Prop) /\ Len(a) = i - 1 /\ \A k \in 1 .. (i - 1) : a[k] = s[k]
  <2>1. i - 1 \in Nat /\ i - 1 <= n
    BY <1>2
  <2>2. \A k \in 1 .. (i - 1) : s[k] \in Prop
    BY <1>2
  <2>3. a \in Seq(Prop)
    BY <1>2, <2>1, <2>2
  <2> QED BY <1>2, <2>1, <2>3
<1>4. b \in Seq(Prop) /\ Len(b) = n - i /\ \A k \in 1 .. (n - i) : b[k] = s[k + i]
  <2>1. \A k \in (i + 1) .. n : s[k] \in Prop
    BY <1>2
  <2>2. b \in Seq(Prop)
    BY <1>2, <2>1
  <2>3. Len(b) = IF i + 1 <= n THEN n - (i + 1) + 1 ELSE 0
    BY <1>2
  <2>4. Len(b) = n - i
    BY <1>2, <2>3
  <2>5. ASSUME NEW k \in 1 .. (n - i) PROVE b[k] = s[k + i]
    <3>1. k \in 1 .. (n - (i + 1) + 1) /\ (i + 1) + k - 1 = k + i
      BY <1>2
    <3>2. b[k] = s[(i + 1) + k - 1]
      BY <1>2, <3>1
    <3> QED BY <3>1, <3>2
  <2> QED BY <2>2, <2>4, <2>5
<1> HIDE DEF a, b
<1>5. /\ c \in Seq(Prop) /\ Len(c) = (i - 1) + (n - i)
      /\ \A k \in 1 .. (n - 1) : c[k] = IF k <= i - 1 THEN a[k] ELSE b[k - (i - 1)]
  <2>1. a \in Seq(Prop) /\ b \in Seq(Prop) /\ Len(a) = i - 1 /\ Len(b) = n - i
    BY <1>3, <1>4
  <2>2. /\ c \in Seq(Prop) /\ Len(c) = Len(a) + Len(b)
        /\ \A k \in 1 .. (Len(a) + Len(b)) : c[k] = IF k <= Len(a) THEN a[k] ELSE b[k - Len(a)]
    <3>1. a \in Seq(Prop) /\ b \in Seq(Prop)
      BY <2>1
    <3> QED BY <3>1
  <2>3. (i - 1) + (n - i) = n - 1
    BY <1>2
  <2> HIDE DEF c
  <2> QED BY <2>1, <2>2, <2>3
<1> HIDE DEF c
<1>6. Len(c) = n - 1 /\ DOMAIN c = 1 .. (n - 1)
  BY <1>2, <1>5
<1>7. ASSUME NEW k \in 1 .. (n - 1) PROVE c[k] = s[IF k < i THEN k ELSE k + 1]
  <2>1. CASE k < i
    <3>1. k \in 1 .. (i - 1) /\ k <= i - 1
      BY <1>2, <2>1
    <3> QED BY <1>3, <1>5, <2>1, <3>1
  <2>2. CASE ~(k < i)
    <3>1. k - (i - 1) \in 1 .. (n - i) /\ ~(k <= i - 1) /\ (k - (i - 1)) + i = k + 1
      BY <1>2, <2>2
    <3> QED BY <1>4, <1>5, <2>2, <3>1
  <2> QED BY <2>1, <2>2
<1>8. \A k \in 1 .. (n - 1) : (IF k < i THEN k ELSE k + 1) \in 1 .. n
  BY <1>2
<1>9. Once(c)
  <2> SUFFICES ASSUME NEW k \in 1 .. (n - 1), NEW l \in 1 .. (n - 1), c[k].key = c[l].key
               PROVE  k = l
    BY <1>6 DEF Once
  <2> DEFINE kk == IF k < i THEN k ELSE k + 1
             ll == IF l < i THEN l ELSE l + 1
  <2>1. s[kk].key = s[ll].key /\ kk \in 1 .. n /\ ll \in 1 .. n
    BY <1>7, <1>8
  <2>2. kk = ll
    <3> HIDE DEF kk, ll
    <3> QED BY <1>1, <1>2, <2>1 DEF Once
  <2> QED BY <1>2, <2>2
<1>10. Range(c) \subseteq Range(s)
  BY <1>2, <1>6, <1>7, <1>8 DEF Range
<1>11. Len(c) <= MaxProps
  BY <1>1, <1>2, <1>6, ShapeAssumption
<1>12. c \in SuperLists
  BY <1>1, <1>5, <1>9, <1>10, <1>11 DEF SuperLists, ListOf
<1> QED BY <1>12 DEF c, a, b
-----------------------------------------------------------------------------
\* One lemma per kind of step.

\* A call whose event is followed.
LEMMA SubmitFacts ==
  ASSUME ContextOK, NEW kind \in {"capture", "identify", "alias", "group", "exception"},
         NEW did, NEW known, NEW mode,
         NEW ps, ListOf(ps, OwnProps(kind)), Len(ps) <= MaxProps,
         NEW extra, ListOf(extra, RawList(TypeDenied)), kind # "exception" => extra = <<>>,
         Submit(kind, did, known, ps, extra, mode, kind \in Stamps)
  PROVE  AskedOK(asked', TypeDenied) /\ slot' = Event(asked', asked'.blob) /\ stage' = "queued"
<1> DEFINE st == kind \in Stamps
           b == Blob(ps, extra, st)
           np == NoProfile(mode, known)
           given == IF st THEN Merge(ps, super) ELSE ps
           more == IF st THEN groups ELSE <<>>
           e == [kind |-> kind, props |-> ps, super |-> super, groups |-> groups,
                 did |-> did, anonymous |-> np, blob |-> b]
<1>1. asked' = e /\ stage' = "queued"
      /\ slot' = [kind |-> kind, did |-> did, noProfile |-> np, blob |-> b]
  BY DEF Submit
<1>2. st \in BOOLEAN
  OBVIOUS
<1>3. ListOf(ps, OfType("scalar"))
  <2>1. OwnProps(kind) \subseteq OfType("scalar")
    BY DEF OwnProps, GivenVals
  <2> QED BY <2>1 DEF ListOf
<1>4. ListOf(extra, OfType("raw"))
  BY DEF ListOf, RawList
<1>5. ListOf(super, OfType("scalar")) /\ ListOf(super, GivenVals({"super"}))
      /\ ListOf(groups, OfType("group"))
  BY DEF ContextOK, ListOf, GivenVals
<1>15. np \in BOOLEAN
  BY DEF NoProfile
<1> HIDE DEF st, np
<1>6. /\ b \in Seq(Prop) /\ Size(b) <= Room
      /\ Range(b) \subseteq Range(extra) \cup Range(given) \cup Range(more)
      /\ Len(Select(b, OfType("scalar"))) <= MaxProps
      /\ extra = <<>> /\ Size(given) + Size(more) <= Room => b = given \o more
  BY <1>2, <1>3, <1>4, BlobFacts
<1> HIDE DEF b
<1>7. Range(Merge(ps, super)) \subseteq Range(ps) \cup {p \in Range(super) : p.key \notin Keys(ps)}
  BY <1>3, <1>5, MergeFacts
<1>8. /\ e.kind = kind /\ e.props = ps /\ e.super = super /\ e.groups = groups
      /\ e.did = did /\ e.anonymous = np /\ e.blob = b
  OBVIOUS
<1>9. slot' = Event(e, e.blob)
  BY <1>1, <1>8 DEF Event
<1> HIDE DEF e
<1>10. Range(b) \subseteq Origin(e, TypeDenied)
  <2>1. Unset(e) = {p \in Range(super) : p.key \notin Keys(ps)}
    BY <1>8 DEF Unset
  <2>2. Range(extra) \subseteq Origin(e, TypeDenied)
    <3>1. CASE kind = "exception"
      BY <1>8, <3>1 DEF Origin, ListOf
    <3>2. CASE kind # "exception"
      BY <3>2, RangeFacts
    <3> QED BY <3>1, <3>2
  <2>3. Range(given) \subseteq Origin(e, TypeDenied)
    BY <1>7, <1>8, <2>1 DEF Origin, st
  <2>4. Range(more) \subseteq Origin(e, TypeDenied)
    <3>1. CASE st
      BY <1>8, <3>1 DEF Origin, st
    <3>2. CASE ~st
      BY <3>2, RangeFacts
    <3> QED BY <3>1, <3>2
  <2> QED BY <1>6, <2>2, <2>3, <2>4
<1>11. ListOf(b, Origin(e, TypeDenied))
  BY <1>6, <1>10 DEF ListOf
<1>12. kind = "capture" /\ Size(Merge(ps, super)) + Size(groups) <= Room => b = Merge(ps, super) \o groups
  <2> HAVE kind = "capture" /\ Size(Merge(ps, super)) + Size(groups) <= Room
  <2>1. extra = <<>> /\ given = Merge(ps, super) /\ more = groups
    BY DEF Stamps, st
  <2> QED BY <1>6, <2>1
<1>13. kind = "identify" /\ Size(ps) <= Room => b = ps
  <2> HAVE kind = "identify" /\ Size(ps) <= Room
  <2>1. extra = <<>> /\ given = ps /\ more = <<>>
    BY DEF Stamps, st
  <2>2. Size(ps) \in Nat /\ Size(<<>>) = 0 /\ ps \o <<>> = ps /\ ps \in Seq(Prop)
    BY <1>3, SizeStep, ConcatAppend DEF ListOf
  <2>3. Size(given) + Size(more) <= Room
    <3>1. Size(given) = Size(ps) /\ Size(more) = 0
      BY <2>1, <2>2, Zenon
    <3> QED BY <2>2, <3>1
  <2>4. b = given \o more
    BY <1>6, <2>1, <2>3, Zenon
  <2> QED BY <2>1, <2>2, <2>4, Zenon
<1>14. AskedOK(e, TypeDenied)
  <2>1. ListOf(e.props, OwnProps(e.kind)) /\ Len(e.props) <= MaxProps
    BY <1>8
  <2>2. /\ e.kind \in {"capture", "identify", "alias", "group", "exception"}
        /\ e.anonymous \in BOOLEAN
    BY <1>8, <1>15
  <2>3. ListOf(e.super, GivenVals({"super"})) /\ ListOf(e.groups, OfType("group"))
    BY <1>5, <1>8, Zenon
  <2>4. /\ ListOf(e.blob, Origin(e, TypeDenied)) /\ Size(e.blob) <= Room
        /\ Len(Select(e.blob, OfType("scalar"))) <= MaxProps
    BY <1>6, <1>8, <1>11, Zenon
  <2>5. e.kind = "capture" /\ Size(Merge(e.props, e.super)) + Size(e.groups) <= Room =>
          e.blob = Merge(e.props, e.super) \o e.groups
    BY <1>8, <1>12, Zenon
  <2>6. e.kind = "identify" /\ Size(e.props) <= Room => e.blob = e.props
    BY <1>8, <1>13, Zenon
  <2> QED BY <2>1, <2>2, <2>3, <2>4, <2>5, <2>6, Zenon DEF AskedOK
<1> QED BY <1>1, <1>9, <1>14, Zenon

\* What each call hands ph__submit_event.
LEMMA CallProps ==
  ASSUME NEW ps \in PropLists, NEW kind
  PROVE  ListOf(GivenBy("call", ps), OwnProps(kind)) /\ Len(GivenBy("call", ps)) <= MaxProps
<1>1. "call" \in Givers
  BY DEF Givers
<1>2. ListOf(GivenBy("call", ps), GivenVals({"call"})) /\ Len(GivenBy("call", ps)) <= MaxProps
  BY <1>1, GivenByFacts
<1>3. GivenVals({"call"}) \subseteq OwnProps(kind)
  BY DEF GivenVals, OwnProps
<1> QED BY <1>2, <1>3 DEF ListOf

LEMMA ScalarFacts ==
  ASSUME NEW k \in SdkNames, NEW n \in Nat, NEW v \in Givers
  PROVE  /\ Scalar(k, n, v) \in Prop /\ Scalar(k, n, v).type = "scalar"
         /\ Scalar(k, n, v).key = k /\ Scalar(k, n, v).len = n /\ Scalar(k, n, v).val = v
BY DEF Scalar, Prop

LEMMA AliasProps ==
  LET s == <<Scalar("alias", 1, "call")>>
  IN ListOf(s, OwnProps("alias")) /\ Len(s) <= MaxProps
<1> DEFINE p == Scalar("alias", 1, "call")
<1>1. "alias" \in SdkNames /\ "call" \in Givers
  BY DEF SdkNames, Givers
<1>2. p \in Prop /\ p.type = "scalar" /\ p.val = "call"
  BY <1>1, ScalarFacts
<1> HIDE DEF p
<1>3. <<p>> \in Seq(Prop) /\ Len(<<p>>) = 1 /\ Range(<<p>>) = {p}
  BY <1>2, SingletonList
<1>4. p \in OwnProps("alias")
  BY <1>2 DEF OwnProps, GivenVals, OfType
<1> QED BY <1>3, <1>4, ShapeAssumption DEF ListOf, p

\* A list that starts with given properties and is capped.
LEMMA LedBy ==
  ASSUME NEW S, NEW a, ListOf(a, S), NEW b, ListOf(b, S)
  PROVE  ListOf(Capped(a \o b), S) /\ Len(Capped(a \o b)) <= MaxProps
<1> DEFINE c == a \o b
<1>1. a \in Seq(Prop) /\ b \in Seq(Prop) /\ Range(a) \subseteq S /\ Range(b) \subseteq S
  BY DEF ListOf
<1>2. c \in Seq(Prop) /\ Range(c) = Range(a) \cup Range(b)
  BY <1>1, RangeFacts
<1> HIDE DEF c
<1>3. /\ Capped(c) \in Seq(Prop) /\ Len(Capped(c)) <= MaxProps
      /\ Range(Capped(c)) \subseteq Range(c)
  BY <1>2, CappedFacts
<1> QED BY <1>1, <1>2, <1>3 DEF ListOf, c

LEMMA GroupProps ==
  ASSUME NEW ps \in PropLists
  PROVE  LET s == Capped(<<Scalar("$group_type", 1, "sdk"), Scalar("$group_key", 1, "sdk")>>
                         \o GivenBy("call", ps))
         IN ListOf(s, OwnProps("group")) /\ Len(s) <= MaxProps
<1> DEFINE p == Scalar("$group_type", 1, "sdk")
           q == Scalar("$group_key", 1, "sdk")
           a == <<p, q>>
           O == OwnProps("group")
<1>1. "$group_type" \in SdkNames /\ "$group_key" \in SdkNames /\ "sdk" \in Givers
  BY DEF SdkNames, Owned, Givers
<1>2. p \in Prop /\ p.type = "scalar" /\ p.val = "sdk" /\ p.key = "$group_type"
  BY <1>1, ScalarFacts
<1>3. q \in Prop /\ q.type = "scalar" /\ q.val = "sdk" /\ q.key = "$group_key"
  BY <1>1, ScalarFacts
<1> HIDE DEF p, q
<1>4. p \in O /\ q \in O
  BY <1>2, <1>3 DEF OwnProps, GivenVals, GroupId, OfKey, OfType
<1>5. a = Append(<<p>>, q) /\ <<p>> \in Seq(Prop) /\ Range(<<p>>) = {p}
  BY <1>2, SingletonList
<1>6. a \in Seq(Prop) /\ Range(a) = {p, q}
  <2>1. Range(Append(<<p>>, q)) = {p} \cup {q}
    <3> DEFINE s == <<p>>
    <3>1. s \in Seq(Prop) /\ Range(s) = {p}
      BY <1>5
    <3> HIDE DEF s
    <3>2. Range(Append(s, q)) = {p} \cup {q}
      BY <1>3, <3>1, RangeFacts
    <3> QED BY <3>2 DEF s
  <2>2. a \in Seq(Prop)
    BY <1>2, <1>3
  <2>3. Range(a) = {p} \cup {q}
    BY <1>5, <2>1, Zenon
  <2> QED BY <2>2, <2>3
<1>7. ListOf(a, O)
  BY <1>4, <1>6 DEF ListOf
<1>8. ListOf(GivenBy("call", ps), O)
  BY CallProps
<1> HIDE DEF a, O
<1>9. ListOf(Capped(a \o GivenBy("call", ps)), O) /\ Len(Capped(a \o GivenBy("call", ps))) <= MaxProps
  BY <1>7, <1>8, LedBy
<1> QED BY <1>9 DEF a, O, p, q

\* The last exception type given is one the call or before_send gave, and not
\* the call's once the type is denied.
LEMMA TypeOfFacts ==
  ASSUME NEW ps, ListOf(ps, GivenVals({"call", "hook"})), NEW denied \in BOOLEAN,
         denied => \A p \in Range(ps) : p.key = "$exception_type" => p.val = "hook"
  PROVE  TypeOf(ps) \in {"sdk", "call", "hook"} /\ (denied => TypeOf(ps) # "call")
<1> DEFINE own == Select(ps, OfKey({"$exception_type"}))
<1>1. ps \in Seq(Prop)
  BY DEF ListOf
<1>2. own \in Seq(Prop)
  BY <1>1, SelectStep, Zenon
<1>3. Range(own) = Range(ps) \cap OfKey({"$exception_type"})
  BY <1>1, SelectRange
<1>4. TypeOf(ps) = IF own = <<>> THEN "sdk" ELSE own[Len(own)].val
  BY DEF TypeOf
<1> HIDE DEF own
<1>5. CASE own = <<>>
  BY <1>4, <1>5
<1>6. CASE own # <<>>
  <2> DEFINE p == own[Len(own)]
  <2>1. Len(own) \in DOMAIN own
    BY <1>2, <1>6
  <2>2. p \in Range(own)
    BY <2>1 DEF Range
  <2> HIDE DEF p
  <2>3. p \in Range(ps) /\ p.key = "$exception_type" /\ p.val \in {"call", "hook"}
    BY <1>3, <2>2 DEF ListOf, GivenVals, OfKey
  <2>4. TypeOf(ps) = p.val
    BY <1>4, <1>6 DEF p
  <2> QED BY <2>3, <2>4
<1> QED BY <1>5, <1>6

LEMMA ExceptionProps ==
  ASSUME ContextOK, NEW ps \in PropLists, NEW n \in ListLens
  PROVE  LET base == Capped(<<Scalar("$exception_type", 1, "call")>> \o GivenBy("call", ps))
             left == HookLeaves(Redacted(base))
             own == Without(left, {"$exception_type"})
             list == [type |-> "raw", key |-> "$exception_list", len |-> n, val |-> TypeOf(left)]
         IN /\ ListOf(own, OwnProps("exception")) /\ Len(own) <= MaxProps
            /\ ListOf(<<list>>, RawList(TypeDenied))
<1> DEFINE p == Scalar("$exception_type", 1, "call")
           C == GivenVals({"call"})
           CH == GivenVals({"call", "hook"})
           base == Capped(<<p>> \o GivenBy("call", ps))
           deny == config.deny \cup (IF "type" \in config.deny THEN {"$exception_type"} ELSE {})
           red == Redacted(base)
           left == HookLeaves(red)
           own == Without(left, {"$exception_type"})
           list == [type |-> "raw", key |-> "$exception_list", len |-> n, val |-> TypeOf(left)]
<1>1. "$exception_type" \in SdkNames /\ "$exception_list" \in SdkNames /\ "call" \in Givers
  BY DEF SdkNames, Givers
<1>2. p \in Prop /\ p.type = "scalar" /\ p.val = "call"
  BY <1>1, ScalarFacts
<1> HIDE DEF p
<1>3. ListOf(<<p>>, C)
  <2>1. <<p>> \in Seq(Prop) /\ Range(<<p>>) = {p}
    BY <1>2, SingletonList
  <2> QED BY <1>2, <2>1 DEF ListOf, GivenVals, OfType
<1>4. ListOf(GivenBy("call", ps), C)
  BY <1>1, GivenByFacts
<1> HIDE DEF C
<1>5. ListOf(base, C) /\ Len(base) <= MaxProps /\ base \in Seq(Prop)
  BY <1>3, <1>4, LedBy, Zenon DEF ListOf
<1> HIDE DEF base
<1>6. red = Without(base, deny)
  BY DEF Redacted
<1>7. /\ red \in Seq(Prop) /\ Range(red) = {x \in Range(base) : x.key \notin deny}
      /\ Len(red) <= Len(base)
  BY <1>5, <1>6, WithoutFacts
<1>8. TypeDenied => "$exception_type" \in deny
  BY DEF TypeDenied
<1> HIDE DEF red, deny
<1>9. Len(red) <= MaxProps
  <2>1. Len(red) \in Nat /\ Len(base) \in Nat /\ MaxProps \in Nat
    BY <1>5, <1>7, ShapeAssumption
  <2> QED BY <1>5, <1>7, <2>1
<1>10. ListOf(red, OfType("scalar")) /\ \A x \in Range(red) : x.val = "call"
  BY <1>5, <1>7 DEF ListOf, C, GivenVals
<1>11. /\ ListOf(left, OfType("scalar")) /\ Len(left) <= MaxProps
       /\ \A x \in Range(left) : x \in Range(red) \/ x.val = "hook"
  BY <1>9, <1>10, HookFacts
<1> HIDE DEF left
<1>12. ListOf(left, CH)
  BY <1>10, <1>11 DEF ListOf, GivenVals
<1>13. TypeDenied => \A x \in Range(left) : x.key = "$exception_type" => x.val = "hook"
  BY <1>7, <1>8, <1>11
<1>14. TypeOf(left) \in {"sdk", "call", "hook"} /\ (TypeDenied => TypeOf(left) # "call")
  <2>1. TypeDenied \in BOOLEAN
    BY DEF TypeDenied
  <2> QED BY <1>12, <1>13, <2>1, TypeOfFacts
<1>15. list \in RawList(TypeDenied) /\ list \in Prop
  <2>1. n \in Nat
    BY ShapeAssumption
  <2>2. TypeOf(left) \in STRING \cup Givers
    BY <1>14 DEF Givers
  <2>3. list \in Prop
    BY <1>1, <2>1, <2>2 DEF Prop
  <2>4. list \in OfType("raw") /\ list.key = "$exception_list" /\ list.val = TypeOf(left)
    BY <2>3 DEF OfType
  <2> QED BY <1>14, <2>3, <2>4 DEF RawList
<1> HIDE DEF list
<1>16. ListOf(<<list>>, RawList(TypeDenied))
  BY <1>15, SingletonList DEF ListOf
<1>17. own \in Seq(Prop) /\ Range(own) \subseteq Range(left) /\ Len(own) <= MaxProps
  <2>1. left \in Seq(Prop)
    BY <1>11 DEF ListOf
  <2>2. own \in Seq(Prop) /\ Range(own) \subseteq Range(left) /\ Len(own) <= Len(left)
    BY <2>1, WithoutFacts
  <2>3. Len(own) \in Nat /\ Len(left) \in Nat /\ MaxProps \in Nat
    BY <2>1, <2>2, ShapeAssumption
  <2> QED BY <1>11, <2>2, <2>3
<1>18. ListOf(own, OwnProps("exception"))
  BY <1>12, <1>17 DEF ListOf, OwnProps
<1> HIDE DEF own
<1> QED BY <1>16, <1>17, <1>18 DEF own, list, left, red, base, p
-----------------------------------------------------------------------------
\* What the scrub stage leaves of a blob.

ScalarSet == OfType("scalar")
OtherSet == Prop \ OfType("scalar")

\* The scalars of a blob, once the deny list and before_send have seen them.
Cleaned(b, runHook) ==
  LET clean == Without(Select(b, ScalarSet), config.deny)
  IN IF runHook THEN HookLeaves(clean) ELSE clean

\* before_send may add a byte.
Growth(runHook) == IF runHook /\ config.hook \in {"grow", "put"} THEN 1 ELSE 0

LEMMA CleanedFacts ==
  ASSUME NEW b \in Seq(Prop), Len(Select(b, ScalarSet)) <= MaxProps, NEW runHook \in BOOLEAN
  PROVE  /\ Scalars(b) = Select(b, ScalarSet)
         /\ ListOf(Cleaned(b, runHook), ScalarSet) /\ Len(Cleaned(b, runHook)) <= MaxProps
         /\ Size(Cleaned(b, runHook)) <= Size(Select(b, ScalarSet)) + Growth(runHook)
         /\ \A p \in Range(Cleaned(b, runHook)) :
              \/ p \in Range(b) /\ p.key \notin config.deny
              \/ p.val = "hook"
<1> DEFINE sc == Select(b, ScalarSet)
           clean == Without(sc, config.deny)
           out == Cleaned(b, runHook)
<1>1. sc \in Seq(Prop) /\ Range(sc) = Range(b) \cap ScalarSet
  BY SelectStep, SelectRange, Zenon
<1>2. out = IF runHook THEN HookLeaves(clean) ELSE clean
  BY DEF Cleaned
<1>3. Scalars(b) = Capped(sc)
  BY DEF Scalars, ScalarSet
<1> HIDE DEF sc
<1>4. Capped(sc) = sc
  BY <1>1, CappedFacts DEF sc
<1>5. /\ clean \in Seq(Prop) /\ Range(clean) = {p \in Range(sc) : p.key \notin config.deny}
      /\ Len(clean) <= Len(sc) /\ Size(clean) <= Size(sc)
  BY <1>1, WithoutFacts
<1> HIDE DEF clean, out
<1>6. Len(clean) <= MaxProps
  <2>1. Len(clean) \in Nat /\ Len(sc) \in Nat /\ MaxProps \in Nat /\ Len(sc) <= MaxProps
    BY <1>1, <1>5, ShapeAssumption DEF sc
  <2> QED BY <1>5, <2>1
<1>7. ListOf(clean, ScalarSet) /\ \A p \in Range(clean) : p \in Range(b) /\ p.key \notin config.deny
  BY <1>1, <1>5 DEF ListOf
<1>8. Size(clean) \in Nat /\ Size(sc) \in Nat
  BY <1>1, <1>5, SizeStep
<1>9. CASE ~runHook
  <2>1. out = clean /\ Growth(runHook) = 0
    BY <1>2, <1>9 DEF Growth
  <2>2. Size(out) <= Size(sc) + Growth(runHook)
    BY <1>5, <1>8, <2>1
  <2> QED BY <1>3, <1>4, <1>6, <1>7, <2>1, <2>2 DEF sc, out
<1>10. CASE runHook
  <2>1. out = HookLeaves(clean)
    BY <1>2, <1>10
  <2>2. ListOf(clean, OfType("scalar"))
    BY <1>7 DEF ScalarSet
  <2>3. /\ ListOf(HookLeaves(clean), OfType("scalar")) /\ Len(HookLeaves(clean)) <= MaxProps
        /\ Size(HookLeaves(clean)) <= Size(clean) + 1
        /\ \A p \in Range(HookLeaves(clean)) : p \in Range(clean) \/ p.val = "hook"
        /\ config.hook \notin {"grow", "put"} => HookLeaves(clean) = clean
    BY <1>6, <2>2, HookFacts
  <2>4. Size(out) \in Nat
    BY <2>1, <2>3, SizeStep DEF ListOf
  <2>5. Size(out) <= Size(sc) + Growth(runHook)
    <3>1. CASE config.hook \in {"grow", "put"}
      <4>1. Growth(runHook) = 1 /\ Size(out) <= Size(clean) + 1
        BY <1>10, <2>1, <2>3, <3>1 DEF Growth
      <4> QED BY <1>5, <1>8, <2>4, <4>1
    <3>2. CASE config.hook \notin {"grow", "put"}
      <4>1. Growth(runHook) = 0 /\ out = clean
        BY <1>10, <2>1, <2>3, <3>2 DEF Growth
      <4> QED BY <1>5, <1>8, <4>1
    <3> QED BY <3>1, <3>2
  <2>6. ListOf(out, ScalarSet) /\ Len(out) <= MaxProps
    BY <2>1, <2>3 DEF ScalarSet
  <2>7. \A p \in Range(out) : (p \in Range(b) /\ p.key \notin config.deny) \/ p.val = "hook"
    BY <1>7, <2>1, <2>3
  <2> QED BY <1>3, <1>4, <2>5, <2>6, <2>7 DEF sc, out
<1> QED BY <1>9, <1>10

\* scrub_one: whatever it had to leave out, the blob still fits the slot, holds
\* no more scalars than a list does, and has nothing new but what before_send
\* put there; and when what before_send added fits, nothing is left out.
LEMMA ScrubbedFacts ==
  ASSUME NEW b \in Seq(Prop), Size(b) <= Room, Len(Select(b, ScalarSet)) <= MaxProps,
         NEW runHook \in BOOLEAN
  PROVE  LET s == Scrubbed(b, runHook)
             c == Cleaned(b, runHook)
         IN /\ s \in Seq(Prop) /\ Size(s) <= Room /\ Len(Select(s, ScalarSet)) <= MaxProps
            /\ \A p \in Range(s) : \/ p \in Range(b) /\ (p \in ScalarSet => p.key \notin config.deny)
                                   \/ p \in ScalarSet /\ p.val = "hook"
            /\ Size(b) + Growth(runHook) <= Room => s = c \o Select(b, OtherSet)
<1> DEFINE c == Cleaned(b, runHook)
           packed == Pack(c, DataCap)
           aside == Select(b, OtherSet)
           tail == IF Size(packed) + Size(aside) <= DataCap THEN aside ELSE <<>>
           all == packed \o tail
           s == Scrubbed(b, runHook)
<1>1. Room \in Nat /\ DataCap \in Nat /\ Room <= DataCap /\ MaxProps \in Nat
  BY ShapeAssumption DEF Room
<1>2. /\ Scalars(b) = Select(b, ScalarSet)
      /\ ListOf(c, ScalarSet) /\ Len(c) <= MaxProps
      /\ Size(c) <= Size(Select(b, ScalarSet)) + Growth(runHook)
      /\ \A p \in Range(c) : (p \in Range(b) /\ p.key \notin config.deny) \/ p.val = "hook"
  BY CleanedFacts
<1>3. c \in Seq(Prop) /\ Range(c) \subseteq ScalarSet
  BY <1>2 DEF ListOf
<1>4. aside \in Seq(Prop) /\ Range(aside) = Range(b) \cap OtherSet
  BY SelectStep, SelectRange, Zenon
<1>5. s = Cut(all, Room)
  BY <1>2, Zenon DEF Scrubbed, Preserved, Cleaned, OtherSet
<1> HIDE DEF c, aside, s
<1>6. /\ packed \in Seq(Prop) /\ Range(packed) \subseteq Range(c) /\ Len(packed) <= Len(c)
      /\ Size(c) <= DataCap => packed = c
  <2>1. packed \in Seq(Prop)
    BY <1>3, PackStep, Zenon
  <2>2. Range(packed) \subseteq Range(c) /\ Len(packed) <= Len(c)
    BY <1>1, <1>3, PackFacts, Zenon
  <2>3. Size(c) <= DataCap => packed = c
    BY <1>1, <1>3, PackWhole
  <2> QED BY <2>1, <2>2, <2>3
<1> HIDE DEF packed
<1>7. tail \in Seq(Prop) /\ Range(tail) \subseteq Range(aside)
  <2>1. <<>> \in Seq(Prop) /\ Range(<<>>) = {}
    BY RangeFacts
  <2>2. tail \in {aside, <<>>}
    OBVIOUS
  <2> HIDE DEF tail
  <2>3. CASE tail = aside
    BY <1>4, <2>3
  <2>4. CASE tail = <<>>
    BY <2>1, <2>4, Zenon
  <2> QED BY <2>2, <2>3, <2>4
<1> HIDE DEF tail
<1>8. all \in Seq(Prop) /\ Range(all) = Range(packed) \cup Range(tail)
  BY <1>6, <1>7, RangeFacts
<1>9. Len(Select(all, ScalarSet)) <= MaxProps
  <2>1. Select(all, ScalarSet) = Select(packed, ScalarSet) \o Select(tail, ScalarSet)
    BY <1>6, <1>7, SelectConcat
  <2>2. Range(tail) \cap ScalarSet = {}
    BY <1>4, <1>7 DEF OtherSet, ScalarSet
  <2>3. Select(tail, ScalarSet) = <<>>
    BY <1>7, <2>2, SelectAll
  <2>4. Select(packed, ScalarSet) = packed
    BY <1>3, <1>6, SelectAll
  <2>5. packed \o <<>> = packed
    BY <1>6, ConcatAppend
  <2>6. Select(all, ScalarSet) = packed
    BY <2>1, <2>3, <2>4, <2>5, Zenon
  <2>7. Len(packed) \in Nat /\ Len(c) \in Nat
    BY <1>3, <1>6
  <2> QED BY <1>1, <1>2, <1>6, <2>6, <2>7
<1> HIDE DEF all
<1>10. /\ s \in Seq(Prop) /\ Size(s) <= Room /\ Range(s) \subseteq Range(all)
       /\ Len(Select(s, ScalarSet)) <= Len(Select(all, ScalarSet))
       /\ Size(all) <= Room => s = all
  BY <1>1, <1>5, <1>8, CutFacts, Zenon
<1>11. Len(Select(s, ScalarSet)) <= MaxProps
  <2>1. Select(s, ScalarSet) \in Seq(Prop) /\ Select(all, ScalarSet) \in Seq(Prop)
    BY <1>8, <1>10, SelectStep, Zenon
  <2>2. Len(Select(s, ScalarSet)) \in Nat /\ Len(Select(all, ScalarSet)) \in Nat
    BY <2>1
  <2> QED BY <1>1, <1>9, <1>10, <2>2
<1>12. ASSUME NEW p \in Range(s)
       PROVE  \/ p \in Range(b) /\ (p \in ScalarSet => p.key \notin config.deny)
              \/ p \in ScalarSet /\ p.val = "hook"
  <2>1. p \in Range(c) \/ p \in Range(aside)
    BY <1>6, <1>7, <1>8, <1>10
  <2>2. CASE p \in Range(c)
    BY <1>2, <1>3, <2>2
  <2>3. CASE p \in Range(aside)
    BY <1>4, <2>3 DEF OtherSet, ScalarSet
  <2> QED BY <2>1, <2>2, <2>3
<1>13. ASSUME Size(b) + Growth(runHook) <= Room PROVE s = c \o aside
  <2>1. Size(Select(b, ScalarSet)) + Size(aside) = Size(b)
    BY SelectSplits DEF aside, OtherSet, ScalarSet
  <2>2. Select(b, ScalarSet) \in Seq(Prop)
    BY SelectStep, Zenon
  <2>3. Size(Select(b, ScalarSet)) \in Nat /\ Size(aside) \in Nat /\ Size(c) \in Nat /\ Size(b) \in Nat
    BY <1>3, <1>4, <2>2, SizeStep
  <2>4. Growth(runHook) \in Nat
    BY DEF Growth
  <2>5. Size(c) + Size(aside) <= Room /\ Size(c) <= DataCap /\ Size(c) + Size(aside) <= DataCap
    BY <1>1, <1>2, <1>13, <2>1, <2>3, <2>4
  <2>6. packed = c
    BY <1>6, <2>5
  <2>7. tail = aside
    BY <2>5, <2>6 DEF tail
  <2>8. all = c \o aside
    BY <2>6, <2>7 DEF all
  <2>9. Size(c \o aside) = Size(c) + Size(aside)
    BY <1>3, <1>4, SizeConcat
  <2>10. Size(all) <= Room
    BY <2>5, <2>8, <2>9
  <2> QED BY <1>10, <2>8, <2>10
<1> QED BY <1>10, <1>11, <1>12, <1>13 DEF s, c, aside

\* The blob of an event the sender is about to serialize.
LEMMA LeftFacts ==
  ASSUME NEW e, AskedOK(e, TypeDenied)
  PROVE  LET b == Left(e)
         IN /\ b \in Seq(Prop) /\ Size(b) <= Room /\ Len(Select(b, ScalarSet)) <= MaxProps
            /\ \A p \in Range(b) :
                 \/ p \in Range(e.blob) /\ (p \in ScalarSet => p.key \notin config.deny)
                 \/ p \in ScalarSet /\ p.val = "hook"
            /\ (config.hook \in {"grow", "put"} => Size(e.blob) + 1 <= Room) =>
                 Select(b, OtherSet) = Select(e.blob, OtherSet)
            /\ e.kind # "exception" /\ Size(e.blob) + 1 <= Room =>
                 Select(b, ScalarSet) = HookLeaves(Without(Select(e.blob, ScalarSet), config.deny))
<1> DEFINE b == Left(e)
           a == e.blob
           run == e.kind # "exception"
           c == Cleaned(a, run)
           aside == Select(a, OtherSet)
<1>1. a \in Seq(Prop) /\ Size(a) <= Room /\ Len(Select(a, ScalarSet)) <= MaxProps
  BY DEF AskedOK, ListOf, ScalarSet
<1>2. CASE b = a /\ config.deny = {} /\ (config.hook = "none" \/ e.kind = "exception")
  <2>1. /\ b \in Seq(Prop) /\ Size(b) <= Room /\ Len(Select(b, ScalarSet)) <= MaxProps
        /\ \A p \in Range(b) : p \in Range(a) /\ (p \in ScalarSet => p.key \notin config.deny)
        /\ Select(b, OtherSet) = Select(a, OtherSet)
    BY <1>1, <1>2
  <2>2. ASSUME e.kind # "exception"
        PROVE  Select(b, ScalarSet) = HookLeaves(Without(Select(a, ScalarSet), config.deny))
    <3> DEFINE x == Select(a, ScalarSet)
    <3>1. x \in Seq(Prop)
      BY <1>1, SelectStep, Zenon
    <3> HIDE DEF x
    <3>2. Without(x, config.deny) = Select(x, Prop \ OfKey({}))
      BY <1>2 DEF Without
    <3>3. Prop \ OfKey({}) = Prop
      BY DEF OfKey
    <3>4. Select(x, Prop) = x
      BY <3>1, SelectAll
    <3>5. Without(x, config.deny) = x
      BY <3>2, <3>3, <3>4, Zenon
    <3>6. config.hook = "none"
      BY <1>2, <2>2
    <3>7. HookLeaves(x) = x
      BY <3>6 DEF HookLeaves
    <3> QED BY <1>2, <3>5, <3>7, Zenon DEF x
  <2> QED BY <2>1, <2>2
<1>3. CASE b = Scrubbed(a, run)
  <2> DEFINE r == run
  <2>1. c = Cleaned(a, r) /\ b = Scrubbed(a, r) /\ r \in BOOLEAN
    BY <1>3
  <2> HIDE DEF r
  <2>2. /\ b \in Seq(Prop) /\ Size(b) <= Room /\ Len(Select(b, ScalarSet)) <= MaxProps
        /\ \A p \in Range(b) : \/ p \in Range(a) /\ (p \in ScalarSet => p.key \notin config.deny)
                               \/ p \in ScalarSet /\ p.val = "hook"
        /\ Size(a) + Growth(r) <= Room => b = c \o aside
    <3> HIDE DEF a, b, c
    <3> QED BY <1>1, <2>1, ScrubbedFacts, Zenon
  <2>3. ListOf(c, ScalarSet)
    <3> HIDE DEF a, c
    <3> QED BY <1>1, <2>1, CleanedFacts
  <2>4. c \in Seq(Prop) /\ Range(c) \subseteq ScalarSet
    BY <2>3 DEF ListOf
  <2>5. aside \in Seq(Prop) /\ Range(aside) \subseteq OtherSet
    <3>1. aside \in Seq(Prop)
      BY <1>1, SelectStep, Zenon
    <3>2. Range(aside) = Range(a) \cap OtherSet
      BY <1>1, SelectRange
    <3> QED BY <3>1, <3>2
  <2> HIDE DEF a, b, c, aside
  <2>6. ASSUME Size(a) + Growth(r) <= Room
        PROVE  Select(b, OtherSet) = aside /\ Select(b, ScalarSet) = c
    <3>1. b = c \o aside
      BY <2>2, <2>6
    <3>2. \A S : Select(c \o aside, S) = Select(c, S) \o Select(aside, S)
      BY <2>4, <2>5, SelectConcat
    <3>3. Select(c, ScalarSet) = c /\ Select(aside, OtherSet) = aside
      BY <2>4, <2>5, SelectAll
    <3>4. Range(c) \cap OtherSet = {} /\ Range(aside) \cap ScalarSet = {}
      BY <2>4, <2>5 DEF OtherSet, ScalarSet
    <3>5. Select(c, OtherSet) = <<>> /\ Select(aside, ScalarSet) = <<>>
      BY <2>4, <2>5, <3>4, SelectAll
    <3>6. <<>> \o aside = aside /\ c \o <<>> = c
      BY <2>4, <2>5, ConcatAppend
    <3> QED BY <3>1, <3>2, <3>3, <3>5, <3>6, Zenon
  <2>7. Size(a) \in Nat /\ Room \in Nat
    BY <1>1, SizeStep, ShapeAssumption DEF Room
  <2>8. Size(a) + 1 <= Room => Size(a) + Growth(r) <= Room
    BY <2>7 DEF Growth
  <2>9. config.hook \notin {"grow", "put"} => Size(a) + Growth(r) <= Room
    BY <1>1, <2>7 DEF Growth
  <2>10. (config.hook \in {"grow", "put"} => Size(a) + 1 <= Room) => Select(b, OtherSet) = aside
    BY <2>6, <2>8, <2>9
  <2>11. run => c = HookLeaves(Without(Select(a, ScalarSet), config.deny))
    BY <2>1 DEF Cleaned, r
  <2>12. run /\ Size(a) + 1 <= Room =>
           Select(b, ScalarSet) = HookLeaves(Without(Select(a, ScalarSet), config.deny))
    BY <2>6, <2>8, <2>11
  <2> QED BY <2>2, <2>10, <2>12 DEF a, b, aside
<1>4. \/ b = a /\ config.deny = {} /\ (config.hook = "none" \/ e.kind = "exception")
      \/ b = Scrubbed(a, run)
  BY DEF Left, ScrubEvent
<1> QED BY <1>2, <1>3, <1>4, Zenon
-----------------------------------------------------------------------------
\* The invariant is inductive.

\* What it says of the event depends on nothing but the configuration.
LEMMA EventFrame ==
  ASSUME config' = config
  PROVE  /\ TypeDenied' = TypeDenied
         /\ asked' = asked => Left(asked)' = Left(asked)
         /\ slot' = slot => Serialized(slot)' = Serialized(slot)
<1>1. TypeDenied' = TypeDenied
  BY DEF TypeDenied
<1>2. ASSUME asked' = asked PROVE Left(asked)' = Left(asked)
  BY <1>2 DEF Left, ScrubEvent, Scrubbed, HookLeaves
<1>3. ASSUME slot' = slot PROVE Serialized(slot)' = Serialized(slot)
  BY <1>3 DEF Serialized, Stamped, Emitted, EffectiveId
<1> QED BY <1>1, <1>2, <1>3

\* A call that no event is followed for.
LEMMA Unfollowed ==
  ASSUME ShapeInv, UNCHANGED <<config, slot, stage, wire, asked>>, ContextOK'
  PROVE  ShapeInv'
<1>1. /\ TypeDenied' = TypeDenied /\ Left(asked)' = Left(asked)
      /\ Serialized(slot)' = Serialized(slot)
  BY EventFrame
<1>2. stage' # "none" => AskedOK(asked', TypeDenied')
  BY <1>1 DEF ShapeInv
<1> QED BY <1>1, <1>2 DEF ShapeInv

\* A call whose event is followed.
LEMMA Followed ==
  ASSUME ShapeInv, config' = config, ContextOK', AskedOK(asked', TypeDenied),
         slot' = Event(asked', asked'.blob), stage' = "queued"
  PROVE  ShapeInv'
BY EventFrame DEF ShapeInv

LEMMA StampsFacts ==
  /\ ("capture" \in Stamps) = TRUE /\ ("exception" \in Stamps) = TRUE
  /\ ("identify" \in Stamps) = FALSE /\ ("alias" \in Stamps) = FALSE /\ ("group" \in Stamps) = FALSE
BY DEF Stamps

LEMMA NoExtra == \A S : ListOf(<<>>, S)
BY RangeFacts DEF ListOf

LEMMA EmptyContext ==
  /\ ListOf(<<>>, GivenVals({"super"})) /\ Len(<<>>) <= MaxProps /\ Once(<<>>)
  /\ ListOf(<<>>, OfType("group")) /\ Len(<<>>) <= MaxGroups
<1>1. Len(<<>>) <= MaxProps /\ Len(<<>>) <= MaxGroups
  BY ShapeAssumption
<1>2. Once(<<>>)
  BY DEF Once
<1> QED BY <1>1, <1>2, NoExtra

LEMMA ShapeInitial ==
  ASSUME ShapeInit
  PROVE  ShapeInv
<1>1. /\ config \in Configs /\ distinctId \in AnonIds \cup UserIds /\ identified \in BOOLEAN
      /\ super = <<>> /\ groups = <<>> /\ stage = "none"
  BY Zenon DEF ShapeInit
<1>2. ContextOK
  BY <1>1, EmptyContext, Zenon DEF ContextOK
<1> QED BY <1>1, <1>2 DEF ShapeInv

LEMMA CaptureKeeps ==
  ASSUME ShapeInv, Capture
  PROVE  ShapeInv'
<1>1. PICK ps \in PropLists :
        Submit("capture", distinctId, identified, GivenBy("call", ps), <<>>, "derive", TRUE)
  BY Zenon DEF Capture
<1>2. Submit("capture", distinctId, identified, GivenBy("call", ps), <<>>, "derive",
             "capture" \in Stamps)
  BY <1>1, StampsFacts, Zenon
<1>3. ContextOK /\ config' = config /\ ContextOK'
  BY DEF ShapeInv, ContextOK, Capture, Context
<1>4. ListOf(GivenBy("call", ps), OwnProps("capture")) /\ Len(GivenBy("call", ps)) <= MaxProps
  BY CallProps
<1>5. ListOf(<<>>, RawList(TypeDenied))
  BY NoExtra
<1>6. AskedOK(asked', TypeDenied) /\ slot' = Event(asked', asked'.blob) /\ stage' = "queued"
  BY <1>2, <1>3, <1>4, <1>5, SubmitFacts
<1> QED BY <1>3, <1>6, Followed

LEMMA IdentifyKeeps ==
  ASSUME ShapeInv, Identify
  PROVE  ShapeInv'
<1>1. PICK d \in UserIds, ps \in PropLists :
        /\ distinctId' = d /\ identified' = TRUE
        /\ \/ Submit("identify", d, TRUE, GivenBy("call", ps), <<>>, "profile", FALSE)
           \/ NotFollowed
        /\ UNCHANGED <<config, wire, super, groups>>
  BY Zenon DEF Identify
<1>2. ContextOK /\ config' = config /\ ContextOK'
  BY <1>1 DEF ShapeInv, ContextOK
<1>3. CASE Submit("identify", d, TRUE, GivenBy("call", ps), <<>>, "profile", FALSE)
  <2>1. Submit("identify", d, TRUE, GivenBy("call", ps), <<>>, "profile", "identify" \in Stamps)
    BY <1>3, StampsFacts, Zenon
  <2>2. ListOf(GivenBy("call", ps), OwnProps("identify")) /\ Len(GivenBy("call", ps)) <= MaxProps
    BY CallProps
  <2>3. ListOf(<<>>, RawList(TypeDenied))
    BY NoExtra
  <2>4. AskedOK(asked', TypeDenied) /\ slot' = Event(asked', asked'.blob) /\ stage' = "queued"
    BY <1>2, <2>1, <2>2, <2>3, SubmitFacts, Zenon
  <2> QED BY <1>2, <2>4, Followed
<1>4. CASE NotFollowed
  BY <1>1, <1>2, <1>4, Unfollowed DEF NotFollowed
<1> QED BY <1>1, <1>3, <1>4, Zenon

LEMMA AliasKeeps ==
  ASSUME ShapeInv, Alias
  PROVE  ShapeInv'
<1> DEFINE s == <<Scalar("alias", 1, "call")>>
<1>1. Submit("alias", distinctId, identified, s, <<>>, "profile", FALSE)
  BY Zenon DEF Alias
<1>2. ListOf(s, OwnProps("alias")) /\ Len(s) <= MaxProps
  BY AliasProps
<1> HIDE DEF s
<1>3. Submit("alias", distinctId, identified, s, <<>>, "profile", "alias" \in Stamps)
  BY <1>1, StampsFacts, Zenon
<1>4. ContextOK /\ config' = config /\ ContextOK'
  BY DEF ShapeInv, ContextOK, Alias, Context
<1>5. ListOf(<<>>, RawList(TypeDenied))
  BY NoExtra
<1>6. AskedOK(asked', TypeDenied) /\ slot' = Event(asked', asked'.blob) /\ stage' = "queued"
  BY <1>2, <1>3, <1>4, <1>5, SubmitFacts
<1> QED BY <1>4, <1>6, Followed

LEMMA GroupKeeps ==
  ASSUME ShapeInv, Group
  PROVE  ShapeInv'
<1>1. PICK k \in GroupKeys, ps \in PropLists :
        /\ groups' = IF groups # <<>> \/ MaxGroups > 0
                     THEN <<[type |-> "group", key |-> "g", len |-> 1, val |-> k]>>
                     ELSE groups
        /\ \/ Submit("group", k, identified,
                     Capped(<<Scalar("$group_type", 1, "sdk"), Scalar("$group_key", 1, "sdk")>>
                            \o GivenBy("call", ps)),
                     <<>>, "profile", FALSE)
           \/ NotFollowed
        /\ UNCHANGED <<config, wire, distinctId, identified, super>>
  BY Zenon DEF Group
<1> DEFINE g == [type |-> "group", key |-> "g", len |-> 1, val |-> k]
           s == Capped(<<Scalar("$group_type", 1, "sdk"), Scalar("$group_key", 1, "sdk")>>
                       \o GivenBy("call", ps))
<1>2. ContextOK /\ config' = config
  BY <1>1 DEF ShapeInv
<1>3. ListOf(groups', OfType("group")) /\ Len(groups') <= MaxGroups
  <2>1. ListOf(groups, OfType("group")) /\ Len(groups) <= MaxGroups /\ MaxGroups \in Nat
    BY <1>2, ShapeAssumption DEF ContextOK
  <2>2. g \in Prop /\ g \in OfType("group")
    <3>1. "g" \in STRING \cup SdkNames \cup {"a"} /\ k \in STRING \cup Givers
      BY ShapeAssumption DEF SdkNames
    <3> QED BY <3>1 DEF Prop, OfType
  <2>3. CASE groups # <<>> \/ MaxGroups > 0
    <3>1. groups' = <<g>>
      BY <1>1, <2>3
    <3>2. MaxGroups >= 1
      BY <2>1, <2>3 DEF ListOf
    <3> HIDE DEF g
    <3>3. <<g>> \in Seq(Prop) /\ Len(<<g>>) = 1 /\ Range(<<g>>) = {g}
      BY <2>2, SingletonList
    <3> QED BY <2>1, <2>2, <3>1, <3>2, <3>3 DEF ListOf
  <2>4. CASE ~(groups # <<>> \/ MaxGroups > 0)
    <3>1. groups' = groups
      BY <1>1, <2>4
    <3> QED BY <2>1, <3>1
  <2> QED BY <2>3, <2>4
<1>4. ContextOK'
  BY <1>1, <1>2, <1>3 DEF ContextOK
<1>5. CASE Submit("group", k, identified, s, <<>>, "profile", FALSE)
  <2>1. ListOf(s, OwnProps("group")) /\ Len(s) <= MaxProps
    BY GroupProps
  <2>2. ListOf(<<>>, RawList(TypeDenied))
    BY NoExtra
  <2> HIDE DEF s
  <2>3. Submit("group", k, identified, s, <<>>, "profile", "group" \in Stamps)
    BY <1>5, StampsFacts, Zenon
  <2>4. AskedOK(asked', TypeDenied) /\ slot' = Event(asked', asked'.blob) /\ stage' = "queued"
    BY <1>2, <2>1, <2>2, <2>3, SubmitFacts
  <2> QED BY <1>2, <1>4, <2>4, Followed
<1>6. CASE NotFollowed
  BY <1>1, <1>2, <1>4, <1>6, Unfollowed DEF NotFollowed
<1> QED BY <1>1, <1>5, <1>6, Zenon

LEMMA ExceptionKeeps ==
  ASSUME ShapeInv, Exception
  PROVE  ShapeInv'
<1> DEFINE left(ps) == HookLeaves(Redacted(
                         Capped(<<Scalar("$exception_type", 1, "call")>> \o GivenBy("call", ps))))
           own(ps) == Without(left(ps), {"$exception_type"})
           list(ps, n) == [type |-> "raw", key |-> "$exception_list", len |-> n,
                           val |-> TypeOf(left(ps))]
<1>1. PICK ps \in PropLists, n \in ListLens :
        /\ Submit("exception", distinctId, identified, own(ps), <<list(ps, n)>>, "derive", TRUE)
        /\ UNCHANGED <<config, wire, Context>>
  BY Zenon DEF Exception
<1> DEFINE o == own(ps)
           l == <<list(ps, n)>>
<1>2. ContextOK /\ config' = config /\ ContextOK'
  BY <1>1 DEF ShapeInv, ContextOK, Context
<1>3. ListOf(o, OwnProps("exception")) /\ Len(o) <= MaxProps /\ ListOf(l, RawList(TypeDenied))
  BY <1>2, ExceptionProps
<1>4. Submit("exception", distinctId, identified, o, l, "derive", TRUE)
  BY <1>1, Zenon
<1> HIDE DEF o, l
<1>5. Submit("exception", distinctId, identified, o, l, "derive", "exception" \in Stamps)
  BY <1>4, StampsFacts, Zenon
<1>6. AskedOK(asked', TypeDenied) /\ slot' = Event(asked', asked'.blob) /\ stage' = "queued"
  BY <1>2, <1>3, <1>5, SubmitFacts
<1> QED BY <1>2, <1>6, Followed

LEMMA RegisterKeeps ==
  ASSUME ShapeInv, Register \/ Unregister
  PROVE  ShapeInv'
<1>1. ContextOK /\ super \in SuperLists
  BY DEF ShapeInv, ContextOK, SuperLists, ListOf
<1>2. super' \in SuperLists
  <2>1. CASE Register
    <3>1. PICK ps \in PropLists :
            super' = Pass([p \in Prop |-> [s \in Seq(Prop) |-> Registered(s, p)]], super,
                          GivenBy("super", ps))
      BY <2>1 DEF Register
    <3>2. ListOf(GivenBy("super", ps), GivenVals({"super"}))
      <4>1. "super" \in Givers
        BY DEF Givers
      <4> QED BY <4>1, GivenByFacts
    <3> QED BY <1>1, <3>1, <3>2, RegisterAll
  <2>2. CASE Unregister
    <3>1. PICK i \in DOMAIN super :
            super' = SubSeq(super, 1, i - 1) \o SubSeq(super, i + 1, Len(super))
      BY <2>2, Zenon DEF Unregister
    <3> QED BY <1>1, <3>1, UnregisterFacts
  <2> QED BY <2>1, <2>2
<1>3. UNCHANGED <<config, distinctId, identified, groups, slot, stage, wire, asked>>
  BY DEF Register, Unregister
<1>4. ListOf(super', GivenVals({"super"})) /\ Len(super') <= MaxProps /\ Once(super')
  BY <1>2 DEF SuperLists
<1>5. ContextOK'
  BY <1>1, <1>3, <1>4 DEF ContextOK
<1> QED BY <1>3, <1>5, Unfollowed

\* ph_reset, and ph_init again.
LEMMA ResetKeeps ==
  ASSUME ShapeInv, Reset \/ Restart
  PROVE  ShapeInv'
<1>1. /\ UNCHANGED <<config, slot, stage, wire, asked>>
      /\ distinctId' \in AnonIds /\ identified' = FALSE /\ super' = <<>> /\ groups' = <<>>
  BY DEF Reset, Restart
<1>2. config' \in Configs /\ distinctId' \in AnonIds \cup UserIds /\ identified' \in BOOLEAN
  BY <1>1, Zenon DEF ShapeInv, ContextOK
<1>3. ContextOK'
  BY <1>1, <1>2, EmptyContext, Zenon DEF ContextOK
<1> QED BY <1>1, <1>3, Unfollowed

LEMMA ScrubKeeps ==
  ASSUME ShapeInv, Scrub
  PROVE  ShapeInv'
<1>1. /\ stage = "queued" /\ slot = Event(asked, asked.blob) /\ AskedOK(asked, TypeDenied)
      /\ ContextOK
  BY DEF ShapeInv, Scrub
<1>2. config' = config /\ ContextOK'
  BY <1>1 DEF Scrub, Context, ContextOK
<1>3. slot.kind = asked.kind /\ slot.blob = asked.blob
  BY <1>1 DEF Event
<1>4. CASE config.hook = "veto" /\ slot.kind # "exception"
  <2>1. stage' = "none"
    BY <1>4 DEF Scrub
  <2> QED BY <1>2, <2>1 DEF ShapeInv
<1>5. CASE ~(config.hook = "veto" /\ slot.kind # "exception")
  <2>1. /\ stage' = "scrubbed" /\ asked' = asked
        /\ slot' = IF config.hook = "none" /\ config.deny = {} THEN slot
                   ELSE [slot EXCEPT !.blob = ScrubEvent(slot)]
    BY <1>5 DEF Scrub
  <2>2. ScrubEvent(slot) = ScrubEvent(asked)
    BY <1>3, Zenon DEF ScrubEvent
  <2>3. slot' = Event(asked, Left(asked))
    <3>1. CASE config.hook = "none" /\ config.deny = {}
      BY <1>1, <2>1, <3>1 DEF Left
    <3>2. CASE ~(config.hook = "none" /\ config.deny = {})
      <4>1. Left(asked) = ScrubEvent(asked)
        BY <3>2 DEF Left
      <4>2. slot' = [Event(asked, asked.blob) EXCEPT !.blob = Left(asked)]
        BY <1>1, <2>1, <2>2, <3>2, <4>1
      <4> QED BY <4>2 DEF Event
    <3> QED BY <3>1, <3>2
  <2>4. TypeDenied' = TypeDenied /\ Left(asked)' = Left(asked)
    BY <1>2, <2>1, EventFrame
  <2>5. config'.hook = "veto" => asked'.kind = "exception"
    BY <1>2, <1>3, <1>5, <2>1
  <2>6. AskedOK(asked', TypeDenied')
    BY <1>1, <2>1, <2>4
  <2>7. slot' = Event(asked', Left(asked)')
    BY <2>1, <2>3, <2>4
  <2> QED BY <1>2, <2>1, <2>5, <2>6, <2>7 DEF ShapeInv
<1> QED BY <1>4, <1>5

LEMMA SerializeKeeps ==
  ASSUME ShapeInv, Serialize
  PROVE  ShapeInv'
<1>1. /\ stage = "scrubbed" /\ stage' = "sent" /\ wire' = Serialized(slot)
      /\ config' = config /\ slot' = slot /\ asked' = asked
  BY DEF Serialize
<1>2. ContextOK'
  BY DEF ShapeInv, Serialize, Context, ContextOK
<1>3. /\ TypeDenied' = TypeDenied /\ Left(asked)' = Left(asked)
      /\ Serialized(slot)' = Serialized(slot)
  BY <1>1, EventFrame
<1>4. AskedOK(asked', TypeDenied') /\ slot' = Event(asked', Left(asked)')
      /\ (config'.hook = "veto" => asked'.kind = "exception")
  BY <1>1, <1>3 DEF ShapeInv
<1> QED BY <1>1, <1>2, <1>3, <1>4 DEF ShapeInv

LEMMA PostedKeeps ==
  ASSUME ShapeInv, Posted
  PROVE  ShapeInv'
<1>1. stage' = "none" /\ ContextOK'
  BY DEF ShapeInv, Posted, Context, ContextOK
<1> QED BY <1>1 DEF ShapeInv

\* The invariant the properties rest on: g_ph is well formed, an event that is
\* followed has the blob that its call packed until the sender scrubs it, and
\* then what the scrub stage leaves of that blob, whatever the calls that were
\* made in between did to g_ph.
THEOREM ShapeInvariant == ShapeSpec => []ShapeInv
<1>1. ShapeInit => ShapeInv
  BY ShapeInitial
<1>2. ShapeInv /\ [ShapeNext]_shapeVars => ShapeInv'
  <2> SUFFICES ASSUME ShapeInv, [ShapeNext]_shapeVars PROVE ShapeInv'
    OBVIOUS
  <2>1. CASE Capture
    BY <2>1, CaptureKeeps
  <2>2. CASE Identify
    BY <2>2, IdentifyKeeps
  <2>3. CASE Alias
    BY <2>3, AliasKeeps
  <2>4. CASE Group
    BY <2>4, GroupKeeps
  <2>5. CASE Exception
    BY <2>5, ExceptionKeeps
  <2>6. CASE Register \/ Unregister
    BY <2>6, RegisterKeeps
  <2>7. CASE Reset \/ Restart
    BY <2>7, ResetKeeps
  <2>8. CASE Scrub
    BY <2>8, ScrubKeeps
  <2>9. CASE Serialize
    BY <2>9, SerializeKeeps
  <2>10. CASE Posted
    BY <2>10, PostedKeeps
  <2>11. CASE UNCHANGED shapeVars
    <3>1. UNCHANGED <<config, slot, stage, wire, asked>> /\ ContextOK'
      BY <2>11 DEF shapeVars, ShapeInv, ContextOK
    <3> QED BY <3>1, Unfollowed
  <2> QED BY <2>1, <2>2, <2>3, <2>4, <2>5, <2>6, <2>7, <2>8, <2>9, <2>10, <2>11 DEF ShapeNext
<1> QED BY <1>1, <1>2, PTL DEF ShapeSpec

-----------------------------------------------------------------------------
\* What serialize_event writes.

SdkProps == GivenVals({"sdk"})

\* No property the SDK gave shares its key with another of the list.
Alone(ps) == \A i, j \in DOMAIN ps : ps[i] \in SdkProps /\ ps[i].key = ps[j].key => i = j

\* No property of one list shares its key with one of the other, if the SDK gave either.
Apart(P, Q) == \A p \in P, q \in Q : p.key = q.key => p \notin SdkProps /\ q \notin SdkProps

LEMMA AloneConcat ==
  ASSUME NEW a \in Seq(Prop), NEW b \in Seq(Prop), Alone(a), Alone(b), Apart(Range(a), Range(b))
  PROVE  Alone(a \o b)
<1> DEFINE c == a \o b
           m == Len(a)
           n == Len(b)
<1>1. m \in Nat /\ n \in Nat /\ DOMAIN a = 1 .. m /\ DOMAIN b = 1 .. n
  OBVIOUS
<1>2. /\ c \in Seq(Prop) /\ DOMAIN c = 1 .. (m + n)
      /\ \A i \in 1 .. (m + n) : c[i] = IF i <= m THEN a[i] ELSE b[i - m]
  BY <1>1
<1> HIDE DEF c, m, n
<1>3. \A i \in 1 .. m : a[i] \in Range(a)
  BY <1>1 DEF Range
<1>4. \A i \in 1 .. n : b[i] \in Range(b)
  BY <1>1 DEF Range
<1>5. ASSUME NEW i \in 1 .. (m + n), NEW j \in 1 .. (m + n), c[i] \in SdkProps, c[i].key = c[j].key
      PROVE  i = j
  <2>1. CASE i <= m /\ j <= m
    <3>1. i \in 1 .. m /\ j \in 1 .. m /\ c[i] = a[i] /\ c[j] = a[j]
      BY <1>1, <1>2, <2>1
    <3> QED BY <1>1, <1>5, <3>1 DEF Alone
  <2>2. CASE i <= m /\ ~(j <= m)
    <3>1. i \in 1 .. m /\ j - m \in 1 .. n /\ c[i] = a[i] /\ c[j] = b[j - m]
      BY <1>1, <1>2, <2>2
    <3> QED BY <1>3, <1>4, <1>5, <3>1 DEF Apart
  <2>3. CASE ~(i <= m) /\ j <= m
    <3>1. j \in 1 .. m /\ i - m \in 1 .. n /\ c[i] = b[i - m] /\ c[j] = a[j]
      BY <1>1, <1>2, <2>3
    <3> QED BY <1>3, <1>4, <1>5, <3>1 DEF Apart
  <2>4. CASE ~(i <= m) /\ ~(j <= m)
    <3>1. i - m \in 1 .. n /\ j - m \in 1 .. n /\ c[i] = b[i - m] /\ c[j] = b[j - m]
      BY <1>1, <1>2, <2>4
    <3>2. i - m = j - m
      BY <1>1, <1>5, <3>1 DEF Alone
    <3> QED BY <1>1, <3>2
  <2> QED BY <1>1, <2>1, <2>2, <2>3, <2>4
<1>6. Alone(c)
  BY <1>2, <1>5 DEF Alone
<1> QED BY <1>6 DEF c

LEMMA AloneAppend ==
  ASSUME NEW ps \in Seq(Prop), NEW p \in Prop
  PROVE  /\ Alone(Append(ps, p)) => Alone(ps) /\ Apart(Range(ps), {p})
         /\ Alone(ps) /\ Apart(Range(ps), {p}) => Alone(Append(ps, p))
<1> DEFINE c == Append(ps, p)
           n == Len(ps)
<1>1. n \in Nat /\ DOMAIN ps = 1 .. n
  OBVIOUS
<1>2. DOMAIN c = 1 .. (n + 1) /\ c[n + 1] = p /\ \A i \in 1 .. n : c[i] = ps[i]
  BY <1>1
<1> HIDE DEF c, n
<1>3. n + 1 \in 1 .. (n + 1) /\ \A i \in 1 .. n : i \in 1 .. (n + 1) /\ i # n + 1
  BY <1>1
<1>4. \A i \in 1 .. (n + 1) : i \in 1 .. n \/ i = n + 1
  BY <1>1
<1>5. ASSUME Alone(c) PROVE Alone(ps) /\ Apart(Range(ps), {p})
  <2>1. Alone(ps)
    BY <1>1, <1>2, <1>3, <1>5 DEF Alone
  <2>2. ASSUME NEW i \in 1 .. n, ps[i].key = p.key PROVE ps[i] \notin SdkProps /\ p \notin SdkProps
    BY <1>2, <1>3, <1>5, <2>2 DEF Alone
  <2>3. Apart(Range(ps), {p})
    BY <1>1, <2>2 DEF Apart, Range
  <2> QED BY <2>1, <2>3
<1>6. ASSUME Alone(ps), Apart(Range(ps), {p}) PROVE Alone(c)
  <2>1. \A i \in 1 .. n : ps[i].key = p.key => ps[i] \notin SdkProps /\ p \notin SdkProps
    BY <1>1, <1>6 DEF Apart, Range
  <2>2. ASSUME NEW i \in 1 .. (n + 1), NEW j \in 1 .. (n + 1), c[i] \in SdkProps, c[i].key = c[j].key
        PROVE  i = j
    <3>1. CASE i \in 1 .. n /\ j \in 1 .. n
      BY <1>1, <1>2, <1>6, <2>2, <3>1 DEF Alone
    <3>2. CASE i \in 1 .. n /\ j = n + 1
      BY <1>2, <2>1, <2>2, <3>2
    <3>3. CASE i = n + 1 /\ j \in 1 .. n
      BY <1>2, <2>1, <2>2, <3>3
    <3> QED BY <1>4, <3>1, <3>2, <3>3
  <2> QED BY <1>2, <2>2 DEF Alone
<1> QED BY <1>5, <1>6 DEF c

LEMMA AloneSelect ==
  ASSUME NEW S
  PROVE  \A ps \in Seq(Prop) : Alone(ps) => Alone(Select(ps, S))
<1> DEFINE T == {ps \in Seq(Prop) : Alone(ps) => Alone(Select(ps, S))}
<1>1. <<>> \in T
  <2>1. Select(<<>>, S) = <<>> /\ <<>> \in Seq(Prop)
    BY SelectStep
  <2> QED BY <2>1
<1>2. ASSUME NEW ps \in Seq(Prop), NEW p \in Prop, ps \in T PROVE Append(ps, p) \in T
  <2> DEFINE q == Select(ps, S)
  <2>1. q \in Seq(Prop) /\ Select(Append(ps, p), S) = IF p \in S THEN Append(q, p) ELSE q
    BY SelectStep, Zenon
  <2>2. Range(q) \subseteq Range(ps)
    BY SelectRange
  <2>3. Append(ps, p) \in Seq(Prop)
    OBVIOUS
  <2>4. Alone(ps) => Alone(q)
    BY <1>2
  <2> HIDE DEF q
  <2>5. ASSUME Alone(Append(ps, p)) PROVE Alone(Select(Append(ps, p), S))
    <3>1. Alone(ps) /\ Apart(Range(ps), {p})
      BY <2>5, AloneAppend
    <3>2. Apart(Range(q), {p})
      BY <2>2, <3>1 DEF Apart
    <3>3. Alone(Append(q, p)) /\ Alone(q)
      BY <2>1, <2>4, <3>1, <3>2, AloneAppend
    <3> QED BY <2>1, <3>3
  <2> QED BY <2>3, <2>5
<1> HIDE DEF T
<1>3. Seq(Prop) \subseteq T
  BY <1>1, <1>2, ListInduction
<1> QED BY <1>3 DEF T

\* A list of properties the SDK gives, of distinct names.
LEMMA SdkList ==
  ASSUME NEW keys \in Seq(SdkNames), \A i, j \in 1 .. Len(keys) : keys[i] = keys[j] => i = j,
         NEW K, \A i \in 1 .. Len(keys) : keys[i] \in K
  PROVE  ListOf(Sdk(keys), SdkProps \cap OfKey(K)) /\ Alone(Sdk(keys)) /\ Len(Sdk(keys)) = Len(keys)
<1> DEFINE n == Len(keys)
           s == Sdk(keys)
<1>1. n \in Nat /\ DOMAIN keys = 1 .. n /\ \A i \in 1 .. n : keys[i] \in SdkNames
  OBVIOUS
<1>2. s = [i \in 1 .. n |-> Scalar(keys[i], 0, "sdk")]
  BY <1>1 DEF Sdk
<1>3. DOMAIN s = 1 .. n /\ \A i \in 1 .. n : s[i] = Scalar(keys[i], 0, "sdk")
  BY <1>2
<1>4. s = [i \in 1 .. n |-> s[i]]
  BY <1>2
<1> HIDE DEF s
<1>5. ASSUME NEW i \in 1 .. n
      PROVE  /\ s[i] \in Prop /\ s[i].type = "scalar" /\ s[i].key = keys[i] /\ s[i].val = "sdk"
  <2>1. "sdk" \in Givers /\ 0 \in Nat
    BY DEF Givers
  <2> QED BY <1>1, <1>3, <2>1, ScalarFacts
<1>6. \A i \in 1 .. n : s[i] \in SdkProps \cap OfKey(K)
  BY <1>5 DEF SdkProps, GivenVals, OfType, OfKey
<1>7. s \in Seq(Prop) /\ Len(s) = n
  BY <1>1, <1>4, <1>5
<1>8. Range(s) \subseteq SdkProps \cap OfKey(K)
  BY <1>3, <1>6 DEF Range
<1>9. Alone(s)
  BY <1>3, <1>5 DEF Alone
<1> QED BY <1>7, <1>8, <1>9 DEF ListOf, s

LEMMA IfList ==
  ASSUME NEW k \in SdkNames, NEW c \in BOOLEAN
  PROVE  /\ ListOf(If(c, <<k>>), SdkProps \cap OfKey({k})) /\ Alone(If(c, <<k>>))
         /\ ~c => If(c, <<k>>) = <<>>
         /\ c => If(c, <<k>>) # <<>>
<1>1. CASE c
  <2> DEFINE keys == <<k>>
  <2>1. keys \in Seq(SdkNames) /\ Len(keys) = 1 /\ \A i \in 1 .. Len(keys) : keys[i] \in {k}
    OBVIOUS
  <2>2. \A i, j \in 1 .. Len(keys) : keys[i] = keys[j] => i = j
    OBVIOUS
  <2> HIDE DEF keys
  <2>3. /\ ListOf(Sdk(keys), SdkProps \cap OfKey({k})) /\ Alone(Sdk(keys))
        /\ Len(Sdk(keys)) = Len(keys)
    BY <2>1, <2>2, SdkList, Zenon
  <2>4. If(c, keys) = Sdk(keys)
    BY <1>1 DEF If
  <2>5. Sdk(keys) # <<>>
    BY <2>1, <2>3
  <2> QED BY <1>1, <2>3, <2>4, <2>5, Zenon DEF keys
<1>2. CASE ~c
  <2>1. If(c, <<k>>) = <<>>
    BY <1>2 DEF If
  <2>2. Alone(<<>>)
    BY DEF Alone
  <2> QED BY <1>2, <2>1, <2>2, NoExtra
<1> QED BY <1>1, <1>2

LibNames == {"distinct_id", "$lib", "$lib_version", "$lib_backend"}
SystemNames == {"$os", "arch", "release"}
Profile == "$process_person_profile"

\* What every event starts with.
StampedAs(e) ==
  LET S == Stamped(e)
      shadowed == IF TopLevel(e) THEN Keys(Scalars(e.blob)) ELSE {}
  IN /\ ListOf(S, SdkProps) /\ Alone(S)
     /\ \A p \in Range(S) : \/ p.key \in LibNames
                            \/ p.key \in SystemNames /\ p.key \notin config.deny \cup shadowed
                            \/ p.key = Profile /\ e.noProfile
     /\ e.noProfile => \E p \in Range(S) : p.key = Profile

LEMMA StampedFacts ==
  ASSUME NEW e, e.noProfile \in BOOLEAN
  PROVE  StampedAs(e)
<1> DEFINE shadowed == IF TopLevel(e) THEN Keys(Scalars(e.blob)) ELSE {}
           k1 == <<"distinct_id", "$lib", "$lib_version", "$lib_backend">>
           k2 == <<"$os", "arch", "release">>
           s1 == Sdk(k1)
           s2 == Without(Sdk(k2), config.deny \cup shadowed)
           s3 == If(e.noProfile, <<Profile>>)
           s12 == s1 \o s2
           S == s12 \o s3
<1>1. Stamped(e) = S
  BY DEF Stamped, Profile
<1>2. ListOf(s1, SdkProps \cap OfKey(LibNames)) /\ Alone(s1)
  <2>1. k1 \in Seq(SdkNames)
    BY DEF SdkNames, Owned
  <2>2. Len(k1) = 4 /\ k1[1] = "distinct_id" /\ k1[2] = "$lib" /\ k1[3] = "$lib_version"
        /\ k1[4] = "$lib_backend"
    OBVIOUS
  <2> HIDE DEF k1
  <2>3. \A i, j \in 1 .. Len(k1) : k1[i] = k1[j] => i = j
    BY <2>2
  <2>4. \A i \in 1 .. Len(k1) : k1[i] \in LibNames
    BY <2>2 DEF LibNames
  <2> QED BY <2>1, <2>3, <2>4, SdkList, Zenon
<1>3. ListOf(Sdk(k2), SdkProps \cap OfKey(SystemNames)) /\ Alone(Sdk(k2))
  <2>1. k2 \in Seq(SdkNames)
    BY DEF SdkNames
  <2>2. Len(k2) = 3 /\ k2[1] = "$os" /\ k2[2] = "arch" /\ k2[3] = "release"
    OBVIOUS
  <2> HIDE DEF k2
  <2>3. \A i, j \in 1 .. Len(k2) : k2[i] = k2[j] => i = j
    BY <2>2
  <2>4. \A i \in 1 .. Len(k2) : k2[i] \in SystemNames
    BY <2>2 DEF SystemNames
  <2> QED BY <2>1, <2>3, <2>4, SdkList, Zenon
<1> HIDE DEF k1, k2, shadowed
<1>4. /\ s2 \in Seq(Prop) /\ Alone(s2)
      /\ \A p \in Range(s2) : /\ p \in SdkProps /\ p.key \in SystemNames
                              /\ p.key \notin config.deny \cup shadowed
  <2> DEFINE s == Sdk(k2)
             D == config.deny \cup shadowed
  <2>1. s \in Seq(Prop) /\ Range(s) \subseteq SdkProps \cap OfKey(SystemNames) /\ Alone(s)
    BY <1>3 DEF ListOf
  <2> HIDE DEF s, D
  <2>2. Without(s, D) \in Seq(Prop) /\ Range(Without(s, D)) = {p \in Range(s) : p.key \notin D}
    BY <2>1, WithoutFacts
  <2>3. Alone(Without(s, D))
    BY <2>1, AloneSelect DEF Without
  <2>4. \A p \in Range(Without(s, D)) : p \in SdkProps /\ p.key \in SystemNames /\ p.key \notin D
    BY <2>1, <2>2 DEF OfKey
  <2> QED BY <2>2, <2>3, <2>4, Zenon DEF s, D
<1>5. /\ ListOf(s3, SdkProps \cap OfKey({Profile})) /\ Alone(s3)
      /\ ~e.noProfile => s3 = <<>>
      /\ e.noProfile => s3 # <<>>
  <2>1. Profile \in SdkNames
    BY DEF SdkNames, Owned, Profile
  <2> QED BY <2>1, IfList, Zenon
<1>6. s1 \in Seq(Prop) /\ \A p \in Range(s1) : p \in SdkProps /\ p.key \in LibNames
  BY <1>2 DEF ListOf, OfKey
<1>7. s3 \in Seq(Prop) /\ \A p \in Range(s3) : p \in SdkProps /\ p.key = Profile
  BY <1>5 DEF ListOf, OfKey
<1>8. LibNames \cap SystemNames = {} /\ Profile \notin LibNames \cup SystemNames
  BY DEF LibNames, SystemNames, Profile
<1> HIDE DEF s1, s2, s3
<1>9. s12 \in Seq(Prop) /\ Range(s12) = Range(s1) \cup Range(s2) /\ Alone(s12)
  <2>1. Apart(Range(s1), Range(s2))
    BY <1>4, <1>6, <1>8 DEF Apart
  <2>2. Alone(s12)
    BY <1>2, <1>4, <1>6, <2>1, AloneConcat
  <2> QED BY <1>4, <1>6, <2>2, RangeFacts
<1> HIDE DEF s12
<1>10. S \in Seq(Prop) /\ Range(S) = Range(s12) \cup Range(s3) /\ Alone(S)
  <2>1. Apart(Range(s12), Range(s3))
    BY <1>4, <1>6, <1>7, <1>8, <1>9 DEF Apart
  <2>2. Alone(S)
    BY <1>5, <1>7, <1>9, <2>1, AloneConcat, Zenon
  <2> QED BY <1>7, <1>9, <2>2, RangeFacts
<1> HIDE DEF S
<1>11. \A p \in Range(s3) : e.noProfile
  <2>1. CASE e.noProfile
    BY <2>1
  <2>2. CASE ~e.noProfile
    BY <1>5, <2>2, RangeFacts
  <2> QED BY <2>1, <2>2
<1>12. \A p \in Range(S) : \/ p.key \in LibNames
                           \/ p.key \in SystemNames /\ p.key \notin config.deny \cup shadowed
                           \/ p.key = Profile /\ e.noProfile
  BY <1>4, <1>6, <1>7, <1>9, <1>10, <1>11
<1>13. ASSUME e.noProfile PROVE \E p \in Range(S) : p.key = Profile
  <2>1. Len(s3) > 0
    BY <1>5, <1>7, <1>13
  <2>2. 1 \in DOMAIN s3
    BY <1>7, <2>1
  <2>3. s3[1] \in Range(s3)
    BY <2>2 DEF Range
  <2> QED BY <1>7, <1>10, <2>3
<1>14. ListOf(S, SdkProps)
  BY <1>4, <1>6, <1>7, <1>9, <1>10 DEF ListOf
<1> QED BY <1>1, <1>10, <1>12, <1>13, <1>14, Zenon DEF shadowed, StampedAs

Geo == IF config.geoip THEN {"$geoip_disable"} ELSE {}
Emits == {p \in Prop : p.type # "group" /\ p.key \notin Owned \cup Geo}

LEMMA EmittedFacts ==
  ASSUME NEW b \in Seq(Prop)
  PROVE  /\ Emitted(b) = Select(b, Emits) /\ Emitted(b) \in Seq(Prop)
         /\ Range(Emitted(b)) = Range(b) \cap Emits
         /\ \A U : Select(Emitted(b), U) = Select(b, Emits \cap U)
<1> DEFINE N == Prop \ OfType("group")
           K == Prop \ OfKey(Owned \cup Geo)
<1>1. Emitted(b) = Select(Select(b, N), K)
  BY DEF Emitted, Without, Geo
<1>2. N \cap K = Emits
  BY DEF OfType, OfKey, Emits
<1> HIDE DEF N, K
<1>3. Select(Select(b, N), K) = Select(b, N \cap K)
  BY SelectSelect
<1>4. Emitted(b) = Select(b, Emits)
  BY <1>1, <1>2, <1>3, Zenon
<1>5. Select(b, Emits) \in Seq(Prop)
  BY SelectStep, Zenon
<1>6. Range(Select(b, Emits)) = Range(b) \cap Emits
  BY SelectRange
<1>7. \A U : Select(Select(b, Emits), U) = Select(b, Emits \cap U)
  BY SelectSelect
<1> QED BY <1>4, <1>5, <1>6, <1>7, Zenon

\* Between what the SDK stamps first and the $geoip_disable it stamps last.
Framed(e, body) == Stamped(e) \o body \o If(config.geoip, <<"$geoip_disable">>)

LEMMA GeoFacts ==
  ASSUME config.geoip \in BOOLEAN
  PROVE  LET G == If(config.geoip, <<"$geoip_disable">>)
         IN G \in Seq(Prop) /\ Alone(G) /\ \A p \in Range(G) : p \in SdkProps /\ p.key \in Geo
<1> DEFINE G == If(config.geoip, <<"$geoip_disable">>)
<1>1. /\ ListOf(G, SdkProps \cap OfKey({"$geoip_disable"})) /\ Alone(G)
      /\ ~config.geoip => G = <<>>
  <2>1. "$geoip_disable" \in SdkNames
    BY DEF SdkNames
  <2> QED BY <2>1, IfList, Zenon
<1>2. G \in Seq(Prop) /\ \A p \in Range(G) : p \in SdkProps /\ p.key \in Geo
  <2>1. CASE config.geoip
    BY <1>1, <2>1, Zenon DEF ListOf, OfKey, Geo
  <2>2. CASE ~config.geoip
    BY <1>1, <2>2, RangeFacts DEF ListOf
  <2> QED BY <2>1, <2>2
<1> QED BY <1>1, <1>2

LEMMA FramedFacts ==
  ASSUME NEW e, e.noProfile \in BOOLEAN, config.geoip \in BOOLEAN, NEW body \in Seq(Prop)
  PROVE  LET G == If(config.geoip, <<"$geoip_disable">>)
             T == Framed(e, body)
         IN /\ T \in Seq(Prop) /\ Range(T) = Range(Stamped(e)) \cup Range(body) \cup Range(G)
            /\ \A U : SdkProps \cap U = {} => Select(T, U) = Select(body, U)
<1> DEFINE G == If(config.geoip, <<"$geoip_disable">>)
           S == Stamped(e)
           A == S \o body
           T == Framed(e, body)
<1>1. G \in Seq(Prop) /\ \A p \in Range(G) : p \in SdkProps /\ p.key \in Geo
  BY GeoFacts
<1>2. ListOf(S, SdkProps)
  BY StampedFacts DEF StampedAs
<1>3. S \in Seq(Prop) /\ Range(S) \subseteq SdkProps
  BY <1>2 DEF ListOf
<1>4. T = A \o G
  BY DEF Framed
<1> HIDE DEF S, G, T
<1>5. A \in Seq(Prop) /\ Range(A) = Range(S) \cup Range(body)
  BY <1>3, RangeFacts
<1>6. \A U : Select(A, U) = Select(S, U) \o Select(body, U)
  BY <1>3, SelectConcat
<1> HIDE DEF A
<1>7. T \in Seq(Prop) /\ Range(T) = Range(A) \cup Range(G)
  <2>1. A \o G \in Seq(Prop)
    BY <1>1, <1>5
  <2>2. Range(A \o G) = Range(A) \cup Range(G)
    BY <1>1, <1>5, RangeFacts
  <2> QED BY <1>4, <2>1, <2>2
<1>8. ASSUME NEW U, SdkProps \cap U = {} PROVE Select(T, U) = Select(body, U)
  <2>1. Range(S) \cap U = {} /\ Range(G) \cap U = {}
    BY <1>1, <1>3, <1>8
  <2>2. Select(S, U) = <<>> /\ Select(G, U) = <<>>
    BY <1>1, <1>3, <2>1, SelectAll
  <2>3. Select(A \o G, U) = Select(A, U) \o Select(G, U)
    BY <1>1, <1>5, SelectConcat
  <2>4. Select(body, U) \in Seq(Prop)
    BY SelectStep, Zenon
  <2>5. <<>> \o Select(body, U) = Select(body, U) /\ Select(body, U) \o <<>> = Select(body, U)
    BY <2>4, ConcatAppend
  <2>6. Select(A, U) = Select(body, U)
    BY <1>6, <2>2, <2>5, Zenon
  <2> QED BY <1>4, <2>2, <2>3, <2>5, <2>6, Zenon
<1>9. Range(T) = Range(S) \cup Range(body) \cup Range(G)
  BY <1>5, <1>7
<1> QED BY <1>7, <1>8, <1>9 DEF S, G, T

LEMMA FramedAlone ==
  ASSUME NEW e, e.noProfile \in BOOLEAN, config.geoip \in BOOLEAN, NEW body \in Seq(Prop),
         Alone(body), Apart(Range(Stamped(e)), Range(body)),
         \A p \in Range(body) : p.key \notin Geo
  PROVE  Alone(Framed(e, body))
<1> DEFINE G == If(config.geoip, <<"$geoip_disable">>)
           S == Stamped(e)
           A == S \o body
<1>1. G \in Seq(Prop) /\ Alone(G) /\ \A p \in Range(G) : p \in SdkProps /\ p.key \in Geo
  BY GeoFacts
<1>2. /\ ListOf(S, SdkProps) /\ Alone(S)
      /\ \A p \in Range(S) : p.key \in LibNames \/ p.key \in SystemNames \/ p.key = Profile
  <2>1. StampedAs(e)
    BY StampedFacts
  <2> QED BY <2>1 DEF StampedAs
<1>3. S \in Seq(Prop)
  BY <1>2 DEF ListOf
<1>4. Framed(e, body) = A \o G
  BY DEF Framed
<1>5. Apart(Range(S), Range(body))
  OBVIOUS
<1> HIDE DEF S, G
<1>6. A \in Seq(Prop) /\ Range(A) = Range(S) \cup Range(body)
  BY <1>3, RangeFacts
<1>7. Alone(A)
  BY <1>2, <1>3, <1>5, AloneConcat
<1> HIDE DEF A
<1>8. \A p \in Range(S) : p.key \notin Geo
  BY <1>2 DEF LibNames, SystemNames, Profile, Geo
<1>9. Apart(Range(A), Range(G))
  BY <1>1, <1>6, <1>8 DEF Apart
<1>10. Alone(A \o G)
  BY <1>1, <1>6, <1>7, <1>9, AloneConcat, Zenon
<1> QED BY <1>4, <1>10, Zenon

-----------------------------------------------------------------------------
\* A capture, an exception or an alias.
TopWire(e) ==
  LET b == e.blob
      w == Serialized(e)
  IN /\ w.did = e.did /\ w.nested = <<>> /\ w.groups = Select(b, OfType("group"))
     /\ w.top \in Seq(Prop)
     /\ Range(Stamped(e)) \subseteq Range(w.top)
     /\ \A p \in Range(w.top) :
          \/ p \in Range(Stamped(e)) \/ p \in Range(b) \cap Emits
          \/ p \in SdkProps /\ p.key \in {"$groups", "$geoip_disable"}
     /\ (\A p \in Range(b) \cap Emits :
           p \notin SdkProps /\ (p.key \in SystemNames => p.key \in Keys(Scalars(b)))) =>
          Alone(w.top)

LEMMA TopLevelWire ==
  ASSUME NEW e, e.noProfile \in BOOLEAN, config.geoip \in BOOLEAN, e.blob \in Seq(Prop),
         e.kind \notin {"identify", "group"}
  PROVE  TopWire(e)
<1> DEFINE b == e.blob
           members == Select(b, OfType("group"))
           M == If(members # <<>>, <<"$groups">>)
           E == Emitted(b)
           body == E \o M
           T == Framed(e, body)
           S == Stamped(e)
           w == Serialized(e)
<1>1. w.did = e.did /\ w.nested = <<>> /\ w.groups = members /\ w.top = T
  BY Zenon DEF Serialized, EffectiveId, TopLevel, Framed
<1>2. ListOf(M, SdkProps \cap OfKey({"$groups"})) /\ Alone(M)
  <2>1. "$groups" \in SdkNames /\ (members # <<>>) \in BOOLEAN
    BY DEF SdkNames, Owned
  <2> QED BY <2>1, IfList, Zenon
<1>3. M \in Seq(Prop) /\ \A p \in Range(M) : p \in SdkProps /\ p.key = "$groups"
  BY <1>2 DEF ListOf, OfKey
<1>4. /\ E \in Seq(Prop) /\ Range(E) = Range(b) \cap Emits
      /\ \A U : Select(E, U) = Select(b, Emits \cap U)
  BY EmittedFacts
<1>5. TopLevel(e)
  BY DEF TopLevel
<1>6. /\ ListOf(S, SdkProps)
      /\ \A p \in Range(S) : \/ p.key \in LibNames
                             \/ p.key \in SystemNames /\ p.key \notin config.deny \cup Keys(Scalars(b))
                             \/ p.key = Profile
  <2>1. StampedAs(e)
    BY StampedFacts
  <2> QED BY <1>5, <2>1 DEF StampedAs
<1> HIDE DEF b, members, M, E, S, w
<1>7. body \in Seq(Prop) /\ Range(body) = Range(E) \cup Range(M)
  BY <1>3, <1>4, RangeFacts
<1>8. \A U : Select(body, U) = Select(E, U) \o Select(M, U)
  BY <1>3, <1>4, SelectConcat
<1>9. Alone(E) /\ Apart(Range(E), Range(M)) => Alone(body)
  BY <1>2, <1>3, <1>4, AloneConcat, Zenon
<1> HIDE DEF body
<1>10. /\ T \in Seq(Prop)
       /\ Range(T) = Range(S) \cup Range(body) \cup Range(If(config.geoip, <<"$geoip_disable">>))
       /\ \A p \in Range(If(config.geoip, <<"$geoip_disable">>)) : p \in SdkProps /\ p.key \in Geo
       /\ \A U : SdkProps \cap U = {} => Select(T, U) = Select(body, U)
       /\ Alone(body) /\ Apart(Range(S), Range(body))
          /\ (\A p \in Range(body) : p.key \notin Geo) => Alone(T)
  <2>1. /\ T \in Seq(Prop)
        /\ Range(T) = Range(Stamped(e)) \cup Range(body) \cup Range(If(config.geoip, <<"$geoip_disable">>))
    BY <1>7, FramedFacts
  <2>2. \A p \in Range(If(config.geoip, <<"$geoip_disable">>)) : p \in SdkProps /\ p.key \in Geo
    BY GeoFacts
  <2>3. \A U : SdkProps \cap U = {} => Select(T, U) = Select(body, U)
    BY <1>7, FramedFacts
  <2>4. ASSUME Alone(body), Apart(Range(Stamped(e)), Range(body)),
               \A p \in Range(body) : p.key \notin Geo
        PROVE  Alone(T)
    BY <1>7, <2>4, FramedAlone
  <2> QED BY <2>1, <2>2, <2>3, <2>4, Zenon DEF S
<1> HIDE DEF T
<1>11. Range(S) \subseteq Range(T)
  BY <1>10
<1>12. ASSUME NEW p \in Range(T)
       PROVE  \/ p \in Range(S) \/ p \in Range(b) \cap Emits
              \/ p \in SdkProps /\ p.key \in {"$groups", "$geoip_disable"}
  <2>1. \/ p \in Range(S) \/ p \in Range(E) \/ p \in Range(M)
        \/ p \in SdkProps /\ p.key \in Geo
    BY <1>7, <1>10, Zenon
  <2>2. Geo \subseteq {"$geoip_disable"}
    BY DEF Geo
  <2>3. CASE p \in Range(E)
    BY <1>4, <2>3
  <2>4. CASE p \in Range(M)
    BY <1>3, <2>4
  <2>5. CASE p \in SdkProps /\ p.key \in Geo
    BY <2>2, <2>5, Zenon
  <2> QED BY <2>1, <2>3, <2>4, <2>5, Zenon
<1>14. ASSUME \A p \in Range(b) \cap Emits :
                p \notin SdkProps /\ (p.key \in SystemNames => p.key \in Keys(Scalars(b)))
       PROVE  Alone(T)
  <2>1. \A p \in Range(E) : /\ p \notin SdkProps /\ p.key \notin Owned /\ p.key \notin Geo
                            /\ p.key \in SystemNames => p.key \in Keys(Scalars(b))
    BY <1>4, <1>14 DEF Emits
  <2>2. Alone(E)
    <3>1. \A i \in DOMAIN E : E[i] \in Range(E)
      BY DEF Range
    <3> QED BY <2>1, <3>1 DEF Alone
  <2>3. Apart(Range(E), Range(M))
    BY <1>3, <2>1 DEF Apart, Owned
  <2>4. Alone(body)
    BY <1>9, <2>2, <2>3
  <2>5. Apart(Range(S), Range(body))
    <3>1. ASSUME NEW p \in Range(S), NEW q \in Range(E) PROVE p.key # q.key
      BY <1>6, <2>1 DEF LibNames, Profile, Owned
    <3>2. ASSUME NEW p \in Range(S), NEW q \in Range(M) PROVE p.key # q.key
      BY <1>3, <1>6 DEF LibNames, SystemNames, Profile
    <3> QED BY <1>7, <3>1, <3>2 DEF Apart
  <2>6. \A p \in Range(body) : p.key \notin Geo
    BY <1>3, <1>7, <2>1 DEF Geo
  <2> QED BY <1>10, <2>4, <2>5, <2>6
<1> QED BY <1>1, <1>10, <1>11, <1>12, <1>14, Zenon DEF b, members, S, w, TopWire


\* An $identify or a $groupidentify.
NestWire(e) ==
  LET b == e.blob
      w == Serialized(e)
  IN /\ w.did = e.did /\ w.top \in Seq(Prop) /\ w.nested \in Seq(Prop)
     /\ Range(w.nested) \subseteq Range(b)
     /\ e.kind = "identify" => w.nested = Select(b, Prop \ OfType("group"))
     /\ Range(Stamped(e)) \subseteq Range(w.top)
     /\ \A p \in Range(w.top) :
          \/ p \in Range(Stamped(e)) \/ p \in Range(b) \cap GroupId
          \/ p \in SdkProps /\ p.key \in {"$set", "$group_set", "$geoip_disable"}

LEMMA NestedWire ==
  ASSUME NEW e, e.noProfile \in BOOLEAN, config.geoip \in BOOLEAN, e.blob \in Seq(Prop),
         e.kind \in {"identify", "group"}
  PROVE  NestWire(e)
<1> DEFINE b == e.blob
           w == Serialized(e)
           S == Stamped(e)
           others == Select(b, Prop \ GroupId)
           own == Select(b, GroupId)
           M == If(others # <<>>, <<"$group_set">>)
           keys == <<"$set">>
           body == IF e.kind = "identify" THEN Sdk(keys) ELSE own \o M
           G == If(config.geoip, <<"$geoip_disable">>)
           T == Framed(e, body)
           nested == IF e.kind = "identify" THEN Select(b, Prop \ OfType("group")) ELSE others
<1>1. w.did = e.did /\ w.nested = nested /\ w.top = T
  <2>1. CASE e.kind = "identify"
    BY <2>1 DEF Serialized, EffectiveId, Framed
  <2>2. CASE e.kind = "group"
    BY <2>2 DEF Serialized, EffectiveId, Framed
  <2> QED BY <2>1, <2>2
<1>2. \A U : Select(b, U) \in Seq(Prop) /\ Range(Select(b, U)) = Range(b) \cap U
  BY SelectStep, SelectRange, Zenon
<1>3. nested \in Seq(Prop) /\ Range(nested) \subseteq Range(b)
  BY <1>2
<1>4. ListOf(Sdk(keys), SdkProps \cap OfKey({"$set"}))
  <2>1. keys \in Seq(SdkNames) /\ Len(keys) = 1 /\ keys[1] = "$set"
    BY DEF SdkNames
  <2> HIDE DEF keys
  <2>2. \A i, j \in 1 .. Len(keys) : keys[i] = keys[j] => i = j
    BY <2>1
  <2>3. \A i \in 1 .. Len(keys) : keys[i] \in {"$set"}
    BY <2>1
  <2> QED BY <2>1, <2>2, <2>3, SdkList, Zenon
<1>5. ListOf(M, SdkProps \cap OfKey({"$group_set"}))
  <2>1. "$group_set" \in SdkNames /\ (others # <<>>) \in BOOLEAN
    BY DEF SdkNames, Owned
  <2> QED BY <2>1, IfList, Zenon
<1>6. own \in Seq(Prop) /\ Range(own) = Range(b) \cap GroupId
  BY <1>2
<1> HIDE DEF keys, own, M, nested, w, b
<1>7. /\ body \in Seq(Prop)
      /\ \A p \in Range(body) : \/ p \in Range(b) \cap GroupId
                                \/ p \in SdkProps /\ p.key \in {"$set", "$group_set"}
  <2>1. CASE e.kind = "identify"
    <3>1. body = Sdk(keys)
      BY <2>1
    <3> QED BY <1>4, <3>1, Zenon DEF ListOf, OfKey
  <2>2. CASE e.kind # "identify"
    <3>1. body = own \o M
      BY <2>2
    <3>2. M \in Seq(Prop) /\ \A p \in Range(M) : p \in SdkProps /\ p.key = "$group_set"
      BY <1>5 DEF ListOf, OfKey
    <3>3. own \o M \in Seq(Prop)
      BY <1>6, <3>2
    <3>4. Range(own \o M) = Range(own) \cup Range(M)
      BY <1>6, <3>2, RangeFacts
    <3> HIDE DEF body
    <3>5. body \in Seq(Prop) /\ Range(body) = Range(own) \cup Range(M)
      BY <3>1, <3>3, <3>4, Zenon
    <3> QED BY <1>6, <3>2, <3>5
  <2> QED BY <2>1, <2>2
<1> HIDE DEF body
<1>8. T \in Seq(Prop) /\ Range(T) = Range(S) \cup Range(body) \cup Range(G)
  BY <1>7, FramedFacts
<1>9. \A p \in Range(G) : p \in SdkProps /\ p.key \in Geo
  BY GeoFacts
<1>10. Geo \subseteq {"$geoip_disable"}
  BY DEF Geo
<1> HIDE DEF G, T, S
<1>11. Range(S) \subseteq Range(T)
  BY <1>8
<1>12. ASSUME NEW p \in Range(T)
       PROVE  \/ p \in Range(S) \/ p \in Range(b) \cap GroupId
              \/ p \in SdkProps /\ p.key \in {"$set", "$group_set", "$geoip_disable"}
  <2>1. p \in Range(S) \/ p \in Range(body) \/ p \in Range(G)
    BY <1>8
  <2>2. CASE p \in Range(body)
    BY <1>7, <2>2
  <2>3. CASE p \in Range(G)
    BY <1>9, <1>10, <2>3, Zenon
  <2> QED BY <2>1, <2>2, <2>3
<1>13. e.kind = "identify" => nested = Select(b, Prop \ OfType("group"))
  BY DEF nested
<1> QED BY <1>1, <1>3, <1>8, <1>11, <1>12, <1>13, Zenon DEF w, b, S, NestWire

\* What a test that no property of the SDK passes finds at the top level.
\* e carries its properties at the top level.
AtTop(e) ==
  /\ e.noProfile \in BOOLEAN /\ config.geoip \in BOOLEAN /\ e.blob \in Seq(Prop)
  /\ e.kind \notin {"identify", "group"}

\* Nothing the SDK puts into an event itself is in U.
Foreign(U) == SdkProps \cap U = {}

LEMMA TopLevelSelect ==
  ASSUME NEW e, NEW U, AtTop(e), Foreign(U)
  PROVE  Select(Serialized(e).top, U) = Select(e.blob, Emits \cap U)
<1> DEFINE b == e.blob
           M == If(Select(b, OfType("group")) # <<>>, <<"$groups">>)
           E == Emitted(b)
           body == E \o M
           T == Framed(e, body)
<1>1. Serialized(e).top = T
  BY Zenon DEF Serialized, Framed, AtTop
<1>2. ListOf(M, SdkProps \cap OfKey({"$groups"}))
  <2>1. "$groups" \in SdkNames /\ (Select(b, OfType("group")) # <<>>) \in BOOLEAN
    BY DEF SdkNames, Owned
  <2> QED BY <2>1, IfList, Zenon
<1>3. M \in Seq(Prop) /\ Range(M) \cap U = {}
  BY <1>2 DEF ListOf, Foreign
<1>4. E \in Seq(Prop) /\ Select(E, U) = Select(b, Emits \cap U)
  BY EmittedFacts DEF AtTop
<1> HIDE DEF M, E
<1>5. body \in Seq(Prop) /\ Select(body, U) = Select(E, U) \o Select(M, U)
  <2>1. E \o M \in Seq(Prop)
    BY <1>3, <1>4
  <2>2. Select(E \o M, U) = Select(E, U) \o Select(M, U)
    BY <1>3, <1>4, SelectConcat, Zenon
  <2> QED BY <2>1, <2>2
<1> HIDE DEF body
<1>6. Select(T, U) = Select(body, U)
  BY <1>5, FramedFacts DEF Foreign, AtTop
<1>7. Select(M, U) = <<>>
  BY <1>3, SelectAll
<1>8. Select(E, U) \in Seq(Prop)
  BY <1>4, SelectStep, Zenon
<1>9. Select(E, U) \o <<>> = Select(E, U)
  BY <1>8, ConcatAppend
<1> QED BY <1>1, <1>4, <1>5, <1>6, <1>7, <1>9, Zenon

\* What is nested comes from the blob.
LEMMA NestedRange ==
  ASSUME NEW e, e.blob \in Seq(Prop), e.kind \in {"identify", "group"}
  PROVE  Range(Serialized(e).nested) \subseteq Range(e.blob)
<1>1. \A U : Range(Select(e.blob, U)) = Range(e.blob) \cap U
  BY SelectRange
<1>2. CASE e.kind = "identify"
  <2>1. Serialized(e).nested = Select(e.blob, Prop \ OfType("group"))
    BY <1>2 DEF Serialized
  <2> QED BY <1>1, <2>1
<1>3. CASE e.kind = "group"
  <2>1. Serialized(e).nested = Select(e.blob, Prop \ GroupId)
    BY <1>3 DEF Serialized
  <2> QED BY <1>1, <2>1
<1> QED BY <1>2, <1>3
-----------------------------------------------------------------------------
\* What is known of an event that is sent.

Deny(p) == p \in ScalarSet => p.key \notin config.deny

LEMMA SentFacts ==
  ASSUME ShapeInv, stage = "sent"
  PROVE  /\ config \in Configs /\ AskedOK(asked, TypeDenied) /\ wire = Serialized(slot)
         /\ slot.kind = asked.kind /\ slot.did = asked.did /\ slot.noProfile = asked.anonymous
         /\ slot.noProfile \in BOOLEAN /\ config.geoip \in BOOLEAN
         /\ slot.blob = Left(asked) /\ slot.blob \in Seq(Prop)
         /\ Len(Select(slot.blob, ScalarSet)) <= MaxProps
         /\ \A p \in Range(slot.blob) :
              p \in Prop /\ ((p \in Origin(asked, TypeDenied) /\ Deny(p))
                             \/ (p \in ScalarSet /\ p.val = "hook"))
<1>1. /\ ContextOK /\ AskedOK(asked, TypeDenied) /\ wire = Serialized(slot)
      /\ slot = Event(asked, Left(asked))
  BY DEF ShapeInv
<1>2. config \in Configs /\ config.geoip \in BOOLEAN
  BY <1>1, ShapeAssumption DEF ContextOK
<1>3. /\ slot.kind = asked.kind /\ slot.did = asked.did /\ slot.noProfile = asked.anonymous
      /\ slot.blob = Left(asked)
  BY <1>1 DEF Event
<1>4. asked.anonymous \in BOOLEAN /\ ListOf(asked.blob, Origin(asked, TypeDenied))
  BY <1>1, Zenon DEF AskedOK
<1>5. /\ Left(asked) \in Seq(Prop) /\ Len(Select(Left(asked), ScalarSet)) <= MaxProps
      /\ \A p \in Range(Left(asked)) :
           \/ p \in Range(asked.blob) /\ (p \in ScalarSet => p.key \notin config.deny)
           \/ p \in ScalarSet /\ p.val = "hook"
  BY <1>1, LeftFacts, Zenon
<1>6. Range(Left(asked)) \subseteq Prop
  BY <1>5, RangeFacts
<1>7. \A p \in Range(Left(asked)) :
        p \in Prop /\ ((p \in Origin(asked, TypeDenied) /\ Deny(p))
                       \/ (p \in ScalarSet /\ p.val = "hook"))
  BY <1>4, <1>5, <1>6 DEF ListOf, Deny
<1> QED BY <1>1, <1>2, <1>3, <1>4, <1>5, <1>7, Zenon

\* Where a posted entry comes from, by its type and by who gave it.
LEMMA EntryFacts ==
  ASSUME ShapeInv, stage = "sent", NEW p \in Range(slot.blob)
  PROVE  /\ p \in Prop
         /\ p \in ScalarSet /\ p.key \in config.deny => p.val = "hook"
         /\ p.type = "raw" => p \in RawList(TypeDenied)
         /\ p \in SdkProps => asked.kind = "group" /\ p \in GroupId
         /\ p.type = "group" => asked.kind \in Stamps /\ p \in Range(asked.groups)
         /\ p.type # "group" /\ p.val = "super" =>
              p \in Range(asked.super) /\ p.key \notin Keys(asked.props)
<1>1. p \in Prop /\ AskedOK(asked, TypeDenied)
  BY SentFacts
<1>2. /\ ListOf(asked.props, OwnProps(asked.kind)) /\ ListOf(asked.super, GivenVals({"super"}))
      /\ ListOf(asked.groups, OfType("group"))
  BY <1>1 DEF AskedOK
<1>3. CASE p \in ScalarSet /\ p.val = "hook"
  BY <1>1, <1>3 DEF ScalarSet, OfType, SdkProps, GivenVals
<1>4. CASE p \in Origin(asked, TypeDenied) /\ Deny(p)
  <2>1. CASE p \in Range(asked.props)
    <3>1. p \in OwnProps(asked.kind)
      BY <1>2, <2>1 DEF ListOf
    <3>2. p \in OfType("scalar") /\ p.val # "super" /\ (p.val = "sdk" => asked.kind = "group" /\ p \in GroupId)
      BY <3>1 DEF OwnProps, GivenVals
    <3> QED BY <1>1, <1>4, <3>2 DEF OfType, SdkProps, GivenVals, Deny
  <2>2. CASE p \in Unset(asked)
    <3>1. p \in Range(asked.super) /\ p.key \notin Keys(asked.props) /\ p \in GivenVals({"super"})
      BY <1>2, <2>2 DEF Unset, ListOf
    <3> QED BY <1>1, <1>4, <3>1 DEF OfType, SdkProps, GivenVals, Deny
  <2>3. CASE p \in Range(asked.groups) /\ asked.kind \in Stamps
    <3>1. p \in OfType("group")
      BY <1>2, <2>3 DEF ListOf
    <3> QED BY <1>1, <2>3, <3>1 DEF OfType, SdkProps, GivenVals, ScalarSet
  <2>4. CASE p \in RawList(TypeDenied)
    BY <1>1, <2>4 DEF RawList, OfType, SdkProps, GivenVals, ScalarSet
  <2> QED BY <1>4, <2>1, <2>2, <2>3, <2>4, Zenon DEF Origin
<1>5. \/ p \in Origin(asked, TypeDenied) /\ Deny(p)
      \/ p \in ScalarSet /\ p.val = "hook"
  BY SentFacts
<1> QED BY <1>3, <1>4, <1>5, Zenon
-----------------------------------------------------------------------------
\* The properties.

LEMMA TypeFollows == ShapeInv => ShapeTypeOK
<1> SUFFICES ASSUME ShapeInv PROVE ShapeTypeOK
  OBVIOUS
<1>1. ContextOK /\ stage \in {"none", "queued", "scrubbed", "sent"}
  BY DEF ShapeInv
<1>2. ASSUME stage # "none" PROVE Size(slot.blob) <= Room
  <2>1. AskedOK(asked, TypeDenied)
    BY <1>2 DEF ShapeInv
  <2>2. CASE stage = "queued"
    <3>1. slot.blob = asked.blob
      BY <2>2 DEF ShapeInv, Event
    <3> QED BY <2>1, <3>1 DEF AskedOK
  <2>3. CASE stage \in {"scrubbed", "sent"}
    <3>1. slot.blob = Left(asked)
      BY <2>3 DEF ShapeInv, Event
    <3>2. Size(Left(asked)) <= Room
      BY <2>1, LeftFacts, Zenon
    <3> QED BY <3>1, <3>2
  <2> QED BY <1>1, <1>2, <2>2, <2>3
<1> QED BY <1>1, <1>2 DEF ShapeTypeOK, ContextOK, Once

\* The state of ph_identify, ph_register and ph_group stays within its tables,
\* super properties have distinct keys, and no stage of an event lets its blob
\* outgrow the slot, for every list of properties, configuration and capacity.
THEOREM ShapeTypes == ShapeSpec => []ShapeTypeOK
BY ShapeInvariant, TypeFollows, PTL

LEMMA DeniedFollows == ShapeInv => DeniedNeverSent
<1> SUFFICES ASSUME ShapeInv, stage = "sent"
             PROVE  /\ \A p \in Range(ByCaller(wire.top \o wire.nested)) :
                         p.key \in config.deny => p.val = "hook"
                    /\ \A p \in Range(wire.top) :
                         p.key \in config.deny \cap SystemNames => p.val # "sdk"
                    /\ TypeDenied => \A p \in Range(wire.top) : p.type = "raw" => p.val # "call"
  BY DEF DeniedNeverSent, TypeDenied, SystemNames
<1> DEFINE b == slot.blob
           S == Stamped(slot)
<1>1. /\ wire = Serialized(slot) /\ slot.kind = asked.kind
      /\ slot.noProfile \in BOOLEAN /\ config.geoip \in BOOLEAN /\ b \in Seq(Prop)
  BY SentFacts
<1>2. /\ wire.top \in Seq(Prop) /\ wire.nested \in Seq(Prop) /\ Range(wire.nested) \subseteq Range(b)
      /\ \A p \in Range(wire.top) :
           \/ p \in Range(S) \/ p \in Range(b)
           \/ p \in SdkProps /\ p.key \in {"$groups", "$set", "$group_set", "$geoip_disable"}
  <2>1. CASE slot.kind \in {"identify", "group"}
    <3>1. /\ wire.top \in Seq(Prop) /\ wire.nested \in Seq(Prop) /\ Range(wire.nested) \subseteq Range(b)
          /\ \A p \in Range(wire.top) :
               \/ p \in Range(S) \/ p \in Range(b) \cap GroupId
               \/ p \in SdkProps /\ p.key \in {"$set", "$group_set", "$geoip_disable"}
      <4>1. wire.top \in Seq(Prop) /\ wire.nested \in Seq(Prop) /\ Range(wire.nested) \subseteq Range(b)
        <5>1. wire.top \in Seq(Prop)
          <6>1. NestWire(slot)
            BY <1>1, <2>1, NestedWire
          <6> QED BY <1>1, <6>1 DEF NestWire
        <5>2. wire.nested \in Seq(Prop)
          <6>1. NestWire(slot)
            BY <1>1, <2>1, NestedWire
          <6> QED BY <1>1, <6>1 DEF NestWire
        <5>3. Range(wire.nested) \subseteq Range(b)
          BY <1>1, <2>1, NestedRange
        <5> QED BY <5>1, <5>2, <5>3
      <4>2. \A p \in Range(wire.top) :
               \/ p \in Range(S) \/ p \in Range(b) \cap GroupId
               \/ p \in SdkProps /\ p.key \in {"$set", "$group_set", "$geoip_disable"}
        <5>1. NestWire(slot)
          BY <1>1, <2>1, NestedWire
        <5> QED BY <1>1, <5>1 DEF NestWire
      <4> QED BY <4>1, <4>2
    <3> QED BY <3>1
  <2>2. CASE slot.kind \notin {"identify", "group"}
    <3>1. /\ wire.nested = <<>> /\ wire.top \in Seq(Prop)
          /\ \A p \in Range(wire.top) :
               \/ p \in Range(S) \/ p \in Range(b) \cap Emits
               \/ p \in SdkProps /\ p.key \in {"$groups", "$geoip_disable"}
      <4>1. TopWire(slot)
        BY <1>1, <2>2, TopLevelWire
      <4> QED BY <1>1, <4>1 DEF TopWire
    <3>2. <<>> \in Seq(Prop) /\ Range(<<>>) = {}
      BY RangeFacts
    <3>3. wire.nested \in Seq(Prop) /\ Range(wire.nested) \subseteq Range(b)
      BY <3>1, <3>2
    <3> QED BY <3>1, <3>3
  <2> QED BY <2>1, <2>2
<1>3. /\ Range(S) \subseteq SdkProps
      /\ \A p \in Range(S) : \/ p.key \in LibNames
                             \/ p.key \in SystemNames /\ p.key \notin config.deny
                             \/ p.key = Profile
  <2>1. StampedAs(slot)
    BY <1>1, StampedFacts
  <2> QED BY <2>1 DEF StampedAs, ListOf
<1> HIDE DEF b, S
<1>4. ASSUME NEW p \in Range(ByCaller(wire.top \o wire.nested)), p.key \in config.deny
      PROVE  p.val = "hook"
  <2> DEFINE C == {q \in OfType("scalar") : q.val # "sdk"}
             all == wire.top \o wire.nested
  <2>1. all \in Seq(Prop) /\ Range(all) = Range(wire.top) \cup Range(wire.nested)
    <3>1. wire.top \in Seq(Prop) /\ wire.nested \in Seq(Prop)
      BY <1>2, Zenon
    <3>2. all \in Seq(Prop)
      BY <3>1
    <3>3. Range(all) = Range(wire.top) \cup Range(wire.nested)
      BY <3>1, RangeFacts, Zenon
    <3> QED BY <3>2, <3>3
  <2>2. ByCaller(all) = Select(all, C)
    BY DEF ByCaller
  <2> HIDE DEF C, all
  <2>3. Range(Select(all, C)) = Range(all) \cap C
    BY <2>1, SelectRange
  <2>4. p \in Range(all) /\ p \in C
    BY <1>4, <2>2, <2>3 DEF all
  <2>5. p \in OfType("scalar") /\ p \notin SdkProps
    BY <2>4 DEF C, SdkProps, GivenVals
  <2>6. p \in Range(b)
    BY <1>2, <1>3, <2>1, <2>4, <2>5
  <2> QED BY <1>4, <2>5, <2>6, EntryFacts DEF ScalarSet, b
<1>5. ASSUME NEW p \in Range(wire.top), p.key \in config.deny \cap SystemNames
      PROVE  p.val # "sdk"
  <2>1. CASE p \in Range(S)
    BY <1>3, <1>5, <2>1 DEF LibNames, SystemNames, Profile
  <2>2. CASE p \in Range(b)
    <3>1. /\ p \in Prop /\ (p \in ScalarSet /\ p.key \in config.deny => p.val = "hook")
          /\ (p.type = "raw" => p \in RawList(TypeDenied))
      BY <2>2, EntryFacts DEF b
    <3>2. p.type # "raw"
      BY <1>5, <3>1 DEF RawList, SystemNames
    <3>3. CASE p.type = "scalar"
      BY <1>5, <3>1, <3>3 DEF ScalarSet, OfType
    <3>4. CASE p.type = "group"
      <4>1. asked.kind \in Stamps
        BY <2>2, <3>4, EntryFacts DEF b
      <4>2. slot.kind \notin {"identify", "group"}
        BY <1>1, <4>1 DEF Stamps
      <4>3. \/ p \in Range(S) \/ p \in Range(b) \cap Emits
            \/ p \in SdkProps /\ p.key \in {"$groups", "$geoip_disable"}
        <5>1. TopWire(slot)
          BY <1>1, <4>2, TopLevelWire DEF b
        <5> QED BY <1>1, <5>1 DEF TopWire, b, S
      <4>4. p \notin Emits /\ p \notin SdkProps
        BY <3>4 DEF Emits, SdkProps, GivenVals, OfType
      <4> QED BY <2>1, <4>3, <4>4
    <3> QED BY <3>1, <3>2, <3>3, <3>4, PropFields DEF Types
  <2>3. CASE p \in SdkProps /\ p.key \in {"$groups", "$set", "$group_set", "$geoip_disable"}
    BY <1>5, <2>3 DEF SystemNames
  <2> QED BY <1>2, <2>1, <2>2, <2>3
<1>6. ASSUME TypeDenied, NEW p \in Range(wire.top), p.type = "raw" PROVE p.val # "call"
  <2>1. p \notin SdkProps
    BY <1>6 DEF SdkProps, GivenVals, OfType
  <2>2. p \in Range(b)
    BY <1>2, <1>3, <2>1
  <2>3. p \in RawList(TypeDenied)
    BY <1>6, <2>2, EntryFacts, Zenon DEF b
  <2> QED BY <1>6, <2>3 DEF RawList
<1> QED BY <1>4, <1>5, <1>6

\* The deny list is final: whatever the call, the super properties, the groups
\* and before_send bring, and whichever of them is left out for want of room,
\* nothing denied is posted that before_send did not put there itself.
THEOREM DenyListIsFinal == ShapeSpec => []DeniedNeverSent
BY ShapeInvariant, DeniedFollows, PTL

LEMMA PreservedFollows == ShapeInv => PreservedSurvive
<1> SUFFICES ASSUME ShapeInv, stage = "sent", asked.kind \in Stamps,
                    config.hook \in {"grow", "put"} => Size(asked.blob) + 1 <= Room
             PROVE  /\ wire.groups = Select(asked.blob, OfType("group"))
                    /\ Select(wire.top, OfType("raw")) = Select(asked.blob, OfType("raw"))
  BY DEF PreservedSurvive, Sent, Stamps
<1> DEFINE b == slot.blob
           a == asked.blob
           R == OfType("raw")
           Gr == OfType("group")
<1>1. /\ wire = Serialized(slot) /\ slot.kind = asked.kind /\ b = Left(asked)
      /\ slot.noProfile \in BOOLEAN /\ config.geoip \in BOOLEAN /\ b \in Seq(Prop)
      /\ AskedOK(asked, TypeDenied)
  BY SentFacts
<1>2. slot.kind \notin {"identify", "group"}
  BY <1>1 DEF Stamps
<1>3. Foreign(R)
  BY DEF Foreign, SdkProps, GivenVals, OfType
<1>4. wire.groups = Select(b, Gr) /\ Select(wire.top, R) = Select(b, Emits \cap R)
  <2>1. wire.groups = Select(b, Gr)
    <3>1. TopWire(slot)
      BY <1>1, <1>2, TopLevelWire
    <3> QED BY <1>1, <3>1 DEF TopWire
  <2> HIDE DEF R
  <2>2. Select(Serialized(slot).top, R) = Select(slot.blob, Emits \cap R)
    <3>1. AtTop(slot)
      BY <1>1, <1>2 DEF AtTop
    <3> QED BY <1>3, <3>1, TopLevelSelect, Zenon
  <2> QED BY <1>1, <2>1, <2>2
<1>5. a \in Seq(Prop)
  BY <1>1 DEF AskedOK, ListOf
<1>6. Select(b, OtherSet) = Select(a, OtherSet)
  BY <1>1, LeftFacts, Zenon
<1>7. \A p \in Range(b) : p.type = "raw" => p \in RawList(TypeDenied)
  BY EntryFacts
<1> HIDE DEF a, b
<1>8. Range(b) \cap (Emits \cap R) = Range(b) \cap R
  <2>1. ASSUME NEW p \in Range(b), p \in R PROVE p \in Emits
    <3>1. p \in Prop /\ p.type = "raw" /\ p.key = "$exception_list"
      BY <1>7, <2>1 DEF OfType, RawList
    <3> QED BY <3>1 DEF Emits, Owned, Geo
  <2> QED BY <2>1
<1>9. Select(b, Emits \cap R) = Select(b, R)
  BY <1>1, <1>8, SelectSame
<1>10. OtherSet \cap Gr = Gr /\ OtherSet \cap R = R
  BY DEF OtherSet, OfType
<1>11. ASSUME NEW U, OtherSet \cap U = U PROVE Select(b, U) = Select(a, U)
  <2>1. Select(Select(b, OtherSet), U) = Select(b, OtherSet \cap U)
    BY <1>1, SelectSelect, Zenon
  <2>2. Select(Select(a, OtherSet), U) = Select(a, OtherSet \cap U)
    BY <1>5, SelectSelect
  <2> QED BY <1>6, <1>11, <2>1, <2>2, Zenon
<1>12. Select(b, Gr) = Select(a, Gr) /\ Select(b, R) = Select(a, R)
  BY <1>10, <1>11, Zenon
<1> QED BY <1>4, <1>9, <1>12, Zenon DEF a

\* scrub_one re-packs the scalars around $groups and $exception_list without
\* losing either, for every event and every capacity, as long as the one byte
\* that before_send may add fits.
THEOREM ScrubPreserves == ShapeSpec => []PreservedSurvive
BY ShapeInvariant, PreservedFollows, PTL

LEMMA StampedFollows == ShapeInv => StampedOnce
<1> SUFFICES ASSUME ShapeInv, stage = "sent", asked.kind \in {"capture", "exception", "alias"},
                    NEW i \in DOMAIN wire.top, NEW j \in DOMAIN wire.top,
                    wire.top[i].type = "scalar", wire.top[i].val = "sdk",
                    wire.top[i].key = wire.top[j].key
             PROVE  i = j
  BY DEF StampedOnce, Sent
<1> DEFINE b == slot.blob
<1>1. /\ wire = Serialized(slot) /\ slot.kind = asked.kind
      /\ slot.noProfile \in BOOLEAN /\ config.geoip \in BOOLEAN /\ b \in Seq(Prop)
      /\ Len(Select(b, ScalarSet)) <= MaxProps
  BY SentFacts, Zenon
<1>2. slot.kind \notin {"identify", "group"}
  BY <1>1
<1>3. Scalars(b) = Select(b, ScalarSet) /\ Range(Select(b, ScalarSet)) = Range(b) \cap ScalarSet
  <2>1. TRUE \in BOOLEAN
    OBVIOUS
  <2> QED BY <1>1, <2>1, CleanedFacts, SelectRange, Zenon
<1>4. ASSUME NEW p \in Range(b), p \in Emits
      PROVE  p \notin SdkProps /\ (p.key \in SystemNames => p.key \in Keys(Scalars(b)))
  <2>1. /\ p \in Prop /\ (p.type = "raw" => p \in RawList(TypeDenied))
        /\ (p \in SdkProps => asked.kind = "group")
    BY EntryFacts
  <2>2. ASSUME p.key \in SystemNames PROVE p.key \in Keys(Scalars(b))
    <3>1. p.type # "raw" /\ p.type # "group"
      BY <1>4, <2>1, <2>2 DEF RawList, SystemNames, Emits
    <3>2. p \in ScalarSet
      BY <2>1, <3>1, PropFields DEF Types, ScalarSet, OfType
    <3>3. p \in Range(Scalars(b))
      BY <1>3, <3>2
    <3> QED BY <3>3, KeysFacts
  <2> QED BY <2>1, <2>2
<1>5. wire.top \in Seq(Prop) /\ Alone(wire.top)
  <2>1. TopWire(slot)
    BY <1>1, <1>2, <1>4, TopLevelWire
  <2> QED BY <1>1, <1>4, <2>1 DEF TopWire
<1>6. wire.top[i] \in SdkProps
  <2>1. wire.top[i] \in Prop
    BY <1>5
  <2> QED BY <2>1 DEF SdkProps, GivenVals, OfType
<1> QED BY <1>5, <1>6 DEF Alone

\* What serialize_event stamps never stands beside a second property of its
\* name, for every event that carries its properties at the top level.
THEOREM StampsStandOnce == ShapeSpec => []StampedOnce
BY ShapeInvariant, StampedFollows, PTL

LEMMA ContextFollows == ShapeInv => CapturedContext
<1> SUFFICES ASSUME ShapeInv, stage = "sent"
             PROVE  /\ wire.did = asked.did
                    /\ asked.anonymous <=> Profile \in Keys(wire.top)
                    /\ asked.kind \in Stamps =>
                         /\ Range(wire.groups) \subseteq Range(asked.groups)
                         /\ \A p \in Range(wire.top) : p.val = "super" =>
                              p \in Range(asked.super) /\ p.key \notin Keys(asked.props)
  BY DEF CapturedContext, Sent, Stamps, Profile
<1> DEFINE b == slot.blob
           S == Stamped(slot)
<1>1. /\ wire = Serialized(slot) /\ slot.kind = asked.kind /\ slot.did = asked.did
      /\ slot.noProfile = asked.anonymous
      /\ slot.noProfile \in BOOLEAN /\ config.geoip \in BOOLEAN /\ b \in Seq(Prop)
  BY SentFacts
<1>2. /\ wire.did = slot.did /\ Range(S) \subseteq Range(wire.top)
      /\ \A p \in Range(wire.top) :
           \/ p \in Range(S) \/ p \in Range(b) \cap GroupId \/ p \in Range(b) \cap Emits
           \/ p \in SdkProps /\ p.key \in {"$groups", "$set", "$group_set", "$geoip_disable"}
  <2>1. CASE slot.kind \in {"identify", "group"}
    <3>1. /\ wire.did = slot.did /\ Range(S) \subseteq Range(wire.top)
          /\ \A p \in Range(wire.top) :
               \/ p \in Range(S) \/ p \in Range(b) \cap GroupId
               \/ p \in SdkProps /\ p.key \in {"$set", "$group_set", "$geoip_disable"}
      <4>1. NestWire(slot)
        BY <1>1, <2>1, NestedWire
      <4> QED BY <1>1, <4>1 DEF NestWire
    <3> QED BY <3>1
  <2>2. CASE slot.kind \notin {"identify", "group"}
    <3>1. /\ wire.did = slot.did /\ Range(S) \subseteq Range(wire.top)
          /\ \A p \in Range(wire.top) :
               \/ p \in Range(S) \/ p \in Range(b) \cap Emits
               \/ p \in SdkProps /\ p.key \in {"$groups", "$geoip_disable"}
      <4>1. TopWire(slot)
        BY <1>1, <2>2, TopLevelWire
      <4> QED BY <1>1, <4>1 DEF TopWire
    <3> QED BY <3>1
  <2> QED BY <2>1, <2>2
<1>3. /\ Range(S) \subseteq SdkProps
      /\ \A p \in Range(S) : \/ p.key \in LibNames \/ p.key \in SystemNames
                             \/ p.key = Profile /\ slot.noProfile
      /\ slot.noProfile => \E p \in Range(S) : p.key = Profile
  <2>1. StampedAs(slot)
    BY <1>1, StampedFacts
  <2> QED BY <2>1 DEF StampedAs, ListOf
<1> HIDE DEF b, S
<1>4. asked.anonymous => Profile \in Keys(wire.top)
  BY <1>1, <1>2, <1>3, KeysFacts, Zenon
<1>5. ASSUME Profile \in Keys(wire.top) PROVE asked.anonymous
  <2>1. PICK p \in Range(wire.top) : p.key = Profile
    BY <1>5, KeysFacts
  <2>2. p \notin GroupId /\ p \notin Emits
    BY <2>1 DEF GroupId, OfKey, Emits, Owned, Profile
  <2>3. p \in Range(S)
    BY <1>2, <2>1, <2>2 DEF Profile
  <2> QED BY <1>1, <1>3, <2>1, <2>3 DEF LibNames, SystemNames, Profile
<1>6. ASSUME asked.kind \in Stamps
      PROVE  /\ Range(wire.groups) \subseteq Range(asked.groups)
             /\ \A p \in Range(wire.top) : p.val = "super" =>
                  p \in Range(asked.super) /\ p.key \notin Keys(asked.props)
  <2>1. slot.kind \notin {"identify", "group"}
    BY <1>1, <1>6 DEF Stamps
  <2>2. wire.groups = Select(b, OfType("group"))
    <3>1. TopWire(slot)
      BY <1>1, <2>1, TopLevelWire DEF b
    <3> QED BY <1>1, <3>1 DEF TopWire, b
  <2>3. Range(wire.groups) = Range(b) \cap OfType("group")
    BY <1>1, <2>2, SelectRange
  <2>4. Range(wire.groups) \subseteq Range(asked.groups)
    BY <2>3, EntryFacts DEF OfType, b
  <2>5. ASSUME NEW p \in Range(wire.top), p.val = "super"
        PROVE  p \in Range(asked.super) /\ p.key \notin Keys(asked.props)
    <3>1. \/ p \in Range(S) \/ p \in Range(b) \cap Emits
          \/ p \in SdkProps /\ p.key \in {"$groups", "$geoip_disable"}
      <4>1. TopWire(slot)
        BY <1>1, <2>1, TopLevelWire DEF b
      <4> QED BY <1>1, <4>1 DEF TopWire, b, S
    <3>2. p \notin SdkProps
      BY <2>5 DEF SdkProps, GivenVals
    <3>3. p \in Range(b) /\ p.type # "group"
      BY <1>3, <3>1, <3>2 DEF Emits
    <3> QED BY <2>5, <3>3, EntryFacts DEF b
  <2> QED BY <2>4, <2>5
<1> QED BY <1>1, <1>2, <1>4, <1>5, <1>6, Zenon

\* An event keeps the identity, the profile policy, the super properties and
\* the groups of the moment of its capture, however many calls change them
\* before it is sent.
THEOREM ContextIsOfTheCapture == ShapeSpec => []CapturedContext
BY ShapeInvariant, ContextFollows, PTL
-----------------------------------------------------------------------------
\* The two backends.

Callers == {p \in OfType("scalar") : p.val # "sdk"}

LEMMA CallerProps ==
  ASSUME ShapeInv, stage = "sent", asked.kind # "group"
  PROVE  Range(slot.blob) \cap Callers = Range(slot.blob) \cap ScalarSet
<1>1. ASSUME NEW p \in Range(slot.blob), p \in ScalarSet PROVE p \in Callers
  <2>1. p \in Prop /\ p \notin SdkProps
    BY EntryFacts
  <2> QED BY <1>1, <2>1 DEF SdkProps, GivenVals, Callers, ScalarSet, OfType
<1>2. Callers \subseteq ScalarSet
  BY DEF Callers, ScalarSet, OfType
<1> QED BY <1>1, <1>2

LEMMA WholeScrub ==
  ASSUME ShapeInv, stage = "sent", asked.kind # "exception",
         NEW x \in Seq(Prop), Size(asked.blob) + 1 <= Room, Select(asked.blob, ScalarSet) = x
  PROVE  Select(slot.blob, ScalarSet) = HookLeaves(Without(x, config.deny))
<1>1. AskedOK(asked, TypeDenied) /\ slot.blob = Left(asked)
  BY SentFacts, Zenon
<1>2. Select(Left(asked), ScalarSet) = HookLeaves(Without(Select(asked.blob, ScalarSet), config.deny))
  BY <1>1, LeftFacts, Zenon
<1> QED BY <1>1, <1>2, Zenon

LEMMA IdentifyAgrees ==
  ASSUME ShapeInv, stage = "sent", asked.kind = "identify", Size(asked.props) + 1 <= Room
  PROVE  ByCaller(wire.nested) = WasmIdentify(asked.props)
<1> DEFINE b == slot.blob
           props == asked.props
           N == Prop \ OfType("group")
<1>1. /\ wire = Serialized(slot) /\ slot.kind = "identify" /\ b \in Seq(Prop)
      /\ slot.noProfile \in BOOLEAN /\ config.geoip \in BOOLEAN
      /\ AskedOK(asked, TypeDenied)
  BY SentFacts
<1>2. /\ ListOf(props, OwnProps("identify"))
      /\ Size(props) <= Room => asked.blob = props
  BY <1>1 DEF AskedOK
<1>3. props \in Seq(Prop) /\ Range(props) \subseteq ScalarSet
  BY <1>2 DEF ListOf, OwnProps, GivenVals, ScalarSet
<1>4. Size(props) \in Nat /\ Room \in Int
  BY <1>3, SizeStep, ShapeAssumption DEF Room
<1>5. asked.blob = props
  BY <1>2, <1>4
<1>6. Select(asked.blob, ScalarSet) = props
  BY <1>3, <1>5, SelectAll
<1>7. Select(b, ScalarSet) = HookLeaves(Without(props, config.deny))
  BY <1>3, <1>5, <1>6, WholeScrub
<1>8. wire.nested = Select(b, N)
  BY <1>1 DEF Serialized
<1>9. Select(Select(b, N), Callers) = Select(b, N \cap Callers)
  BY <1>1, SelectSelect
<1>10. Range(b) \cap (N \cap Callers) = Range(b) \cap ScalarSet
  <2>1. N \cap Callers = Callers
    BY DEF Callers, OfType
  <2> QED BY <2>1, CallerProps
<1>11. Select(b, N \cap Callers) = Select(b, ScalarSet)
  BY <1>1, <1>10, SelectSame
<1>12. ByCaller(wire.nested) = Select(wire.nested, Callers)
  BY Zenon DEF ByCaller, Callers
<1> QED BY <1>7, <1>8, <1>9, <1>11, <1>12, Zenon DEF WasmIdentify

LEMMA CaptureAgrees ==
  ASSUME ShapeInv, stage = "sent", asked.kind = "capture",
         Size(Merge(asked.props, asked.super)) + Size(asked.groups) + 1 <= Room
  PROVE  ByCaller(wire.top) = Without(WasmCapture(asked.props, asked.super), Geo)
<1> DEFINE b == slot.blob
           m == Merge(asked.props, asked.super)
           g == asked.groups
           x == HookLeaves(Without(m, config.deny))
           A == Prop \ OfKey(Owned)
           B == Prop \ OfKey(Geo)
<1>1. /\ wire = Serialized(slot) /\ slot.kind = "capture" /\ b \in Seq(Prop)
      /\ slot.noProfile \in BOOLEAN /\ config.geoip \in BOOLEAN
      /\ AskedOK(asked, TypeDenied)
  BY SentFacts, Zenon
<1>2. /\ ListOf(asked.props, OwnProps("capture")) /\ ListOf(asked.super, GivenVals({"super"}))
      /\ ListOf(g, OfType("group"))
      /\ Size(m) + Size(g) <= Room => asked.blob = m \o g
  BY <1>1, Zenon DEF AskedOK
<1>3. ListOf(asked.props, OfType("scalar")) /\ ListOf(asked.super, OfType("scalar"))
  BY <1>2 DEF ListOf, OwnProps, GivenVals
<1>4. m \in Seq(Prop) /\ Range(m) \subseteq ScalarSet /\ g \in Seq(Prop) /\ Range(g) \cap ScalarSet = {}
  <2>1. ListOf(m, OfType("scalar"))
    BY <1>3, MergeFacts
  <2> QED BY <1>2, <2>1 DEF ListOf, ScalarSet, OfType
<1>4a. Size(m) + Size(g) + 1 <= Room
  OBVIOUS
<1> HIDE DEF m, g, b
<1>5. Size(m) \in Nat /\ Size(g) \in Nat /\ Room \in Int
  <2>1. Room \in Int
    BY ShapeAssumption DEF Room
  <2> QED BY <1>4, <2>1, SizeStep, Zenon
<1>6. asked.blob = m \o g
  <2>1. Size(m) + Size(g) <= Room
    BY <1>5, <1>4a
  <2> QED BY <1>2, <2>1, Zenon
<1>7. Size(m \o g) = Size(m) + Size(g)
  BY <1>4, SizeConcat
<1>8. Select(asked.blob, ScalarSet) = m
  <2>1. Select(m, ScalarSet) = m /\ Select(g, ScalarSet) = <<>>
    BY <1>4, SelectAll
  <2>2. Select(m \o g, ScalarSet) = Select(m, ScalarSet) \o Select(g, ScalarSet)
    BY <1>4, SelectConcat
  <2>3. m \o <<>> = m
    BY <1>4, ConcatAppend
  <2> QED BY <1>6, <2>1, <2>2, <2>3, Zenon
<1>9. Size(asked.blob) + 1 <= Room
  BY <1>6, <1>7, <1>4a
<1>10. Select(b, ScalarSet) = x
  BY <1>4, <1>8, <1>9, WholeScrub DEF b
<1>11. Select(wire.top, Callers) = Select(b, Emits \cap Callers)
  <2>1. AtTop(slot) /\ Foreign(Callers)
    BY <1>1 DEF AtTop, Foreign, Callers, SdkProps, GivenVals, b
  <2> QED BY <1>1, <2>1, TopLevelSelect, Zenon DEF b
<1>12. Range(b) \cap (Emits \cap Callers) = Range(b) \cap ((ScalarSet \cap A) \cap B)
  <2>1. Range(b) \cap Callers = Range(b) \cap ScalarSet
    BY CallerProps DEF b
  <2>2. Emits \cap ScalarSet = (ScalarSet \cap A) \cap B
    BY DEF Emits, ScalarSet, OfType, OfKey
  <2> QED BY <2>1, <2>2
<1>13. Select(b, Emits \cap Callers) = Select(b, (ScalarSet \cap A) \cap B)
  BY <1>1, <1>12, SelectSame
<1>14. Select(Select(b, ScalarSet), A) = Select(b, ScalarSet \cap A)
  BY <1>1, SelectSelect, Zenon
<1>15. Select(Select(b, ScalarSet \cap A), B) = Select(b, (ScalarSet \cap A) \cap B)
  BY <1>1, SelectSelect
<1>16. Without(WasmCapture(asked.props, asked.super), Geo) = Select(Select(x, A), B)
  BY Zenon DEF Without, WasmCapture, m
<1>17. ByCaller(wire.top) = Select(wire.top, Callers)
  BY Zenon DEF ByCaller, Callers
<1> HIDE DEF x, A, B
<1> QED BY <1>10, <1>11, <1>13, <1>14, <1>15, <1>16, <1>17, Zenon

LEMMA BackendsFollow == ShapeInv => BackendsAgree
<1> SUFFICES ASSUME ShapeInv, stage = "sent" PROVE BackendsAgree
  BY DEF BackendsAgree, Sent
<1>1. ASSUME asked.kind = "capture",
             Size(Merge(asked.props, asked.super)) + Size(asked.groups) + 1 <= Room
      PROVE  ByCaller(wire.top) = Without(WasmCapture(asked.props, asked.super), Geo)
  BY <1>1, CaptureAgrees
<1>2. ASSUME asked.kind = "identify", Size(asked.props) + 1 <= Room
      PROVE  ByCaller(wire.nested) = WasmIdentify(asked.props)
  BY <1>2, IdentifyAgrees
<1>3. Geo = IF config.geoip THEN {"$geoip_disable"} ELSE {}
  BY DEF Geo
<1> HIDE DEF Geo
<1> QED BY <1>1, <1>2, <1>3, Zenon DEF BackendsAgree, Sent

\* A capture and an $identify that fit the slot post the very properties, in
\* the very order, that ph_wasm.c hands to posthog-js for the same call, for
\* every list, deny list, hook and capacity.
THEOREM BackendsShapeAlike == ShapeSpec => []BackendsAgree
BY ShapeInvariant, BackendsFollow, PTL
=============================================================================
